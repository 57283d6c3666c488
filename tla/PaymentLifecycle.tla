--------------------------- MODULE PaymentLifecycle ---------------------------
(***************************************************************************)
(* What the payments of a submission promise.  A payment is open until the *)
(* provider says that it is paid; from then on it is kept until the        *)
(* registration backend has been told, and then it is done for good.       *)
(***************************************************************************)
CONSTANT Payments

VARIABLE phase

Init == phase = [p \in Payments |-> "open"]

Complete(p) ==
  /\ phase[p] = "open"
  /\ phase' = [phase EXCEPT ![p] = "completed"]

\* The completed payments are registered together.
Register ==
  phase' = [p \in Payments |-> IF phase[p] = "completed" THEN "registered" ELSE phase[p]]

Next == Register \/ \E p \in Payments : Complete(p)

Spec == Init /\ [][Next]_phase

=============================================================================
