------------------------------ MODULE MCSessions ------------------------------
(***************************************************************************)
(* An instance of Sessions for TLC.                                        *)
(***************************************************************************)
EXTENDS Sessions, TLC

\* The slots for requests are all alike.
Symmetry == Permutations(Requests)

===============================================================================
