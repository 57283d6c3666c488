------------------------- MODULE RegistrationLifecycle -------------------------
(***************************************************************************)
(* What the processing of a submission promises about its registration:    *)
(* every attempt is counted, there are at most Limit of them until an      *)
(* administrator resets the counter, an attempt ends in success or failed, *)
(* and success is the end of it.                                           *)
(***************************************************************************)
EXTENDS Naturals

CONSTANT Limit

VARIABLES status, attempts

Init == status = "pending" /\ attempts = 0

\* A registration attempt starts: the first, a retry, or the same task delivered again.
Begin ==
  /\ status # "success"
  /\ attempts < Limit
  /\ status' = "in_progress"
  /\ attempts' = attempts + 1

Succeed ==
  /\ status = "in_progress"
  /\ status' = "success"
  /\ UNCHANGED attempts

Fail ==
  /\ status = "in_progress"
  /\ status' = "failed"
  /\ UNCHANGED attempts

\* The attempt does not get past the pre-registration.
FailEarly ==
  /\ status # "success"
  /\ attempts < Limit
  /\ status' = "failed"
  /\ attempts' = attempts + 1

Reset ==
  /\ status = "failed"
  /\ attempts' = 0
  /\ UNCHANGED status

Next == Begin \/ Succeed \/ Fail \/ FailEarly \/ Reset

Spec == Init /\ [][Next]_<<status, attempts>>

=============================================================================
