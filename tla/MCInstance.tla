----------------------------- MODULE MCInstance -----------------------------
(* Instance for TLC: daemons, invocations and identities are               *)
(* interchangeable among themselves.                                       *)
EXTENDS Instance, TLC

MCSymmetry == Permutations(Daemons) \cup Permutations(Clis) \cup Permutations(Identities)
=============================================================================
