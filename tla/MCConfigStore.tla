---------------------------- MODULE MCConfigStore ---------------------------
(* ConfigStore for TLC: commands and ids are interchangeable. *)
EXTENDS ConfigStore, TLC

MCSymmetry == Permutations(Procs) \cup Permutations(Ids)
=============================================================================
