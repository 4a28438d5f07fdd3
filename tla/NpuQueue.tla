------------------------------ MODULE NpuQueue ------------------------------
(***************************************************************************)
(* What /dev/npu.0 promises the processes that share it, whatever happens   *)
(* in its locks and interrupts: one line of jobs, each with an id larger    *)
(* than those before it, of which the first unfinished one has the NPU.     *)
(*                                                                         *)
(* A job leaves the line in two ways only: a process collects it after it   *)
(* has ended, or the whole line is given up after the queue it belongs to.  *)
(***************************************************************************)
EXTENDS Naturals, Sequences

CONSTANT Ids   \* the job ids a queue can give out

VARIABLES
  line,      \* the jobs somebody may still ask for
  accepting  \* a queue exists

vars == <<line, accepting>>

Unfinished(l) == {i \in 1..Len(l) : l[i].st # "ended"}
Drops(l, i)   == SubSeq(l, 1, i - 1) \o SubSeq(l, i + 1, Len(l))
SetSt(l, S, st) == [i \in 1..Len(l) |-> IF i \in S THEN [l[i] EXCEPT !.st = st]
                                                   ELSE l[i]]

Init == line = <<>> /\ accepting = FALSE

\* NPU_IOC_CREATE_QUEUE: a queue starts from an empty line.
Open ==
  /\ ~accepting /\ line = <<>>
  /\ accepting' = TRUE /\ UNCHANGED line

\* NPU_IOC_SUBMIT_JOB: the job joins the line behind every other.
Submit(id) ==
  /\ accepting
  /\ \A i \in 1..Len(line) : line[i].id < id
  /\ line' = Append(line, [id |-> id, st |-> IF Unfinished(line) = {}
                                             THEN "running" ELSE "waiting"])
  /\ UNCHANGED accepting

\* The job that has the NPU stops at a sync point, or goes on from it.
StopOrGo(i) ==
  /\ i \in Unfinished(line) /\ line[i].st # "waiting"
  /\ line' = SetSt(line, {i}, IF line[i].st = "running" THEN "stopped" ELSE "running")
  /\ UNCHANGED accepting

\* The job that has the NPU ends, and the next in line has it.
Finish(i) ==
  /\ i \in Unfinished(line) /\ line[i].st # "waiting"
  /\ line' = SetSt(SetSt(line, {i}, "ended"), {i + 1} \cap 1..Len(line), "running")
  /\ UNCHANGED accepting

\* The job that has the NPU aborts, and every other fails with it.
Fail ==
  /\ Unfinished(line) # {}
  /\ line' = SetSt(line, 1..Len(line), "ended")
  /\ UNCHANGED accepting

\* A process collects a job that has ended.
Collect(i) ==
  /\ i \in 1..Len(line) /\ line[i].st = "ended"
  /\ line' = Drops(line, i)
  /\ UNCHANGED accepting

\* NPU_IOC_DESTROY_QUEUE, CLOSE, RESET and the last close(2): the queue goes
\* first, then what waits, then what still has the NPU and what has ended.
Close == accepting /\ accepting' = FALSE /\ UNCHANGED line

GiveUp ==
  /\ ~accepting
  /\ \E n \in 0..Len(line) : line' = SubSeq(line, 1, n)
  /\ UNCHANGED accepting

Next ==
  \/ Open \/ Close \/ GiveUp \/ Fail
  \/ \E id \in Ids : Submit(id)
  \/ \E i \in 1..Len(line) : StopOrGo(i) \/ Finish(i) \/ Collect(i)

Spec == Init /\ [][Next]_vars
=============================================================================
