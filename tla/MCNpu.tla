------------------------------- MODULE MCNpu -------------------------------
(* Instances of Npu for TLC. *)
EXTENDS NpuRefines, TLC

\* Processes are interchangeable, and so is the memory kzalloc hands out.
Interchangeable == Permutations(Procs) \cup Permutations(Jobs)
=============================================================================
