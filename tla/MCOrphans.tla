----------------------------- MODULE MCOrphans ------------------------------
(* Instances of IspOrphans for TLC. *)
EXTENDS IspOrphans, TLC

\* Files, processes and blocks are interchangeable.
Interchangeable ==
  Permutations(Files) \cup Permutations(Procs) \cup Permutations(Blocks)
=============================================================================
