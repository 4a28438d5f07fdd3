------------------------------- MODULE MCMmb --------------------------------
(* Instances of Mmb for TLC. *)
EXTENDS Mmb, TLC

\* Files are interchangeable, and so are blocks.
Interchangeable == Permutations(Files) \cup Permutations(Blocks)
=============================================================================
