----------------------------- MODULE NpuRefines -----------------------------
(* The driver implements the queue that NpuQueue promises. *)
EXTENDS Npu

Promised(j) ==
  IF j \in Elems(done) THEN "ended"
  ELSE IF j \in Elems(pending) THEN "waiting"
  ELSE IF job[j].st = "stop" THEN "stopped" ELSE "running"

PromisedLine ==
  [i \in 1..Len(Line) |-> [id |-> job[Line[i]].id, st |-> Promised(Line[i])]]

Queue == INSTANCE NpuQueue
           WITH Ids <- 1..MaxId, line <- PromisedLine, accepting <- (queues > 0)

\* What every caller of /dev/npu.0 relies on: jobs run one at a time in the
\* order they were submitted, and a job that was accepted stays until it has
\* ended and been collected, or until its queue is given up.
ImplementsQueue == Queue!Spec
=============================================================================
