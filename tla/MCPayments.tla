------------------------------ MODULE MCPayments ------------------------------
(***************************************************************************)
(* Instances of Payments for TLC.  Requests are interchangeable in the run *)
(* that checks no liveness.                                                *)
(***************************************************************************)
EXTENDS Payments, TLC

Symmetry == Permutations(Requests)

=============================================================================
