----------------------------- MODULE MCProcessing -----------------------------
(***************************************************************************)
(* Instances of Processing for TLC.  Chains, components and payments are   *)
(* model values; chains are interchangeable, and so are payments, in runs  *)
(* that check no liveness.                                                 *)
(***************************************************************************)
EXTENDS Processing, TLC

Symmetry == Permutations(Chains) \cup Permutations(Payments)

=============================================================================
