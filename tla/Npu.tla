-------------------------------- MODULE Npu --------------------------------
(***************************************************************************)
(* The NPU driver, kernel/npu/gk7205v500/npu.c: the job queue behind       *)
(* /dev/npu.0, the threaded interrupt that moves jobs along it, and the    *)
(* calls processes make on it.                                             *)
(*                                                                         *)
(* The driver's sections under state_lock are one step each.  The hard     *)
(* interrupt handler takes no lock, so a section is split wherever that    *)
(* handler can come between two of its accesses and change the outcome.    *)
(***************************************************************************)
EXTENDS Naturals, Sequences, FiniteSets

CONSTANTS
  Procs,      \* processes that may have /dev/npu.0 open, one file each
  Jobs,       \* memory for struct npu_job: what kzalloc can hand out
  Nobody,     \* no process, or no job: a NULL pointer, a free mutex
  MaxId,      \* bound: job ids one queue gives out
  MaxOpen,    \* bound: nested NPU_IOC_OPEN
  MaxQueues,  \* bound: nested NPU_IOC_CREATE_QUEUE
  HwEvents,   \* the events the NPU may raise in this model
  DfxFinal,   \* TRUE: an NPU that has reported an error reports nothing more
  SMP,        \* TRUE: other steps may run while the hard handler does
  OpenFirst   \* TRUE: clients make queues only on an opened device

ASSUME NpuAssumption ==
  /\ Nobody \notin Procs \cup Jobs
  /\ MaxId \in Nat /\ MaxOpen \in Nat /\ MaxQueues \in Nat
  /\ HwEvents \subseteq {"DONE", "STOP", "DFX"}
  /\ DfxFinal \in BOOLEAN /\ SMP \in BOOLEAN /\ OpenFirst \in BOOLEAN

VARIABLES
  hw,         \* the NPU: clock, interrupt mask, engine, latched events
  irq,        \* the hard handler: what it read on entry
  irqThread,  \* the handler thread is due to run
  job,        \* the struct npu_job in each piece of memory
  cur, state, lastId, pending, done,   \* under state_lock
  refs, opened, queues,
  refLock, openLock, queueLock,        \* the processes that hold the mutexes
  pc, call, want,  \* where each process is, in which call, on which job
  woken,      \* the sleeping waiters whose condition has come true
  reaped,     \* the job NPU_IOC_RESET has yet to free
  stale       \* history: waiters whose queue was dropped since they called

hwVars    == <<hw, irq, irqThread>>
queueVars == <<job, cur, state, lastId, pending, done>>
userVars  == <<refs, opened, queues>>
lockVars  == <<refLock, openLock, queueLock>>
procVars  == <<pc, call, want, woken, reaped, stale>>
vars      == <<hwVars, queueVars, userVars, lockVars, procVars>>

JobStates == {"free", "pend", "process", "stop", "success", "abort"}
DevStates == {"IDLE", "BUSY", "ABORTED", "DRAINING"}
Calls     == {"none", "destroy", "close", "reset", "release", "wait", "query"}
Places    == {"closed", "user", "takeq", "drop", "grace", "mark", "drain",
              "hwclose", "stop", "sync", "query", "asleep"}

Engine    == {"rest", "run", "held", "failed"}

NoMemory == [id |-> 0, st |-> "free", orphan |-> FALSE]
Quiet    == [on |-> FALSE, job |-> Nobody, st |-> {}]

Init ==
  /\ hw = [clk |-> FALSE, en |-> FALSE, eng |-> "rest", lat |-> {}]
  /\ irq = Quiet /\ irqThread = FALSE
  /\ job = [j \in Jobs |-> NoMemory]
  /\ cur = Nobody /\ state = "IDLE" /\ lastId = 0
  /\ pending = <<>> /\ done = <<>>
  /\ refs = 0 /\ opened = 0 /\ queues = 0
  /\ refLock = Nobody /\ openLock = Nobody /\ queueLock = Nobody
  /\ pc = [p \in Procs |-> "closed"]
  /\ call = [p \in Procs |-> "none"]
  /\ want = [p \in Procs |-> 0]
  /\ woken = {} /\ stale = {} /\ reaped = Nobody

-----------------------------------------------------------------------------
(* Helpers *)

\* state_lock is held across two steps only by a destroy about to store
\* NPU_DRAINING.
StateLockFree == \A p \in Procs : pc[p] # "drain"

Elems(s) == {s[i] : i \in 1..Len(s)}
DropAt(s, i) == SubSeq(s, 1, i - 1) \o SubSeq(s, i + 1, Len(s))
NoTwice(s) == \A i, k \in 1..Len(s) : s[i] = s[k] => i = k

Free(S)       == [j \in Jobs |-> IF j \in S THEN NoMemory ELSE job[j]]
Live(j)       == job[j].st # "free"
Asleep        == {p \in Procs : pc[p] = "asleep"}
Waiters       == {p \in Procs : call[p] = "wait"}
Goto(p, l)    == pc' = [pc EXCEPT ![p] = l]

\* (seeded fault: a count decremented without looking)
LessUnchecked(n) == n - 1

\* A count that is only decremented when it is not zero.
Less(n)       == IF n > 0 THEN n - 1 ELSE 0

\* Back to userspace: the call and what it was about are over.
Return(p, l) ==
  /\ pc' = [pc EXCEPT ![p] = l]
  /\ call' = [call EXCEPT ![p] = "none"]
  /\ want' = [want EXCEPT ![p] = 0]

\* (seeded faults: only those waiting for the job at hand, or only one waiter)
WakeCurrent == woken' = woken \cup {p \in Asleep : cur # Nobody /\ want[p] = job[cur].id}
WakeOne     == IF Asleep \subseteq woken THEN UNCHANGED woken
               ELSE woken' = woken \cup {CHOOSE p \in Asleep : p \notin woken}

\* npu_wake: every waiter sees events move past what it saw.
Wake == woken' = woken \cup Asleep

\* npu_hw_open
HwOpen(h)   == [h EXCEPT !.lat = {}, !.en = TRUE]
\* npu_hw_close
HwClose(h)  == IF state = "DRAINING" THEN h
               ELSE [h EXCEPT !.lat = {}, !.en = FALSE]
\* npu_hw_start
HwStart(h)  == [h EXCEPT !.eng = "run"]
\* (seeded fault: the interrupts made ready, the engine left running)
SoftResetSkipped(h) == [h EXCEPT !.lat = {}, !.en = (opened > 0) \/ @]
\* npu_soft_reset, and the interrupts made ready again after it
SoftReset(h) == [h EXCEPT !.eng = "rest", !.lat = {}, !.en = (opened > 0) \/ @]

-----------------------------------------------------------------------------
(* The NPU itself: what its engine may do to the driver *)

\* The job ends, stops at a sync point or breakpoint, or raises a hardware
\* error, after which the sequencer keeps running.
NpuEvent(e) ==
  /\ hw.clk /\ hw.eng \in {"run"} \cup (IF DfxFinal THEN {} ELSE {"failed"})
  /\ e \in HwEvents \ hw.lat
  /\ hw' = [hw EXCEPT !.lat = @ \cup {e},
                      !.eng = CASE e = "DONE" -> "rest"
                                [] e = "STOP" -> "held"
                                [] e = "DFX"  -> "failed"]
  /\ UNCHANGED <<irq, irqThread, queueVars, userVars, lockVars, procVars>>

-----------------------------------------------------------------------------
(* Interrupt context *)

\* npu_irq, first half: the unlocked read of cur, and the status.
HardIrqEnter ==
  /\ ~irq.on /\ hw.en /\ hw.lat # {}
  /\ irq' = [on |-> TRUE, job |-> cur, st |-> hw.lat]
  /\ UNCHANGED <<hw, irqThread, queueVars, userVars, lockVars, procVars>>

IrqStatus(st, s) ==
  IF "DFX" \in s THEN "abort"
  ELSE IF "DONE" \in s THEN "success"
  ELSE IF "STOP" \in s THEN "stop" ELSE st

\* npu_irq, second half, for a job that did not abort, or no job at all.
HardIrqNote ==
  /\ irq.on
  /\ irq.job = Nobody \/ "DFX" \notin irq.st
  /\ job' = IF irq.job # Nobody /\ Live(irq.job)
            THEN [job EXCEPT ![irq.job].st = IrqStatus(@, irq.st)] ELSE job
  /\ hw' = [hw EXCEPT !.lat = @ \ irq.st]
  /\ irq' = Quiet /\ irqThread' = TRUE
  /\ UNCHANGED <<cur, state, lastId, pending, done, userVars, lockVars, procVars>>

\* npu_irq, second half, for a hardware error: keep the status latched,
\* mask everything, and take the device out of service.
HardIrqAbort ==
  /\ irq.on /\ irq.job # Nobody /\ "DFX" \in irq.st
  /\ job' = IF Live(irq.job) THEN [job EXCEPT ![irq.job].st = "abort"] ELSE job
  /\ hw' = [hw EXCEPT !.en = FALSE]
  /\ state' = "ABORTED"
  /\ irq' = Quiet /\ irqThread' = TRUE
  /\ UNCHANGED <<cur, lastId, pending, done, userVars, lockVars, procVars>>

ThreadRuns == irqThread /\ StateLockFree /\ irqThread' = FALSE

\* npu_irq_thread with nothing running: no wake-up either.
ThreadSpurious ==
  /\ ThreadRuns /\ cur = Nobody
  /\ UNCHANGED <<hw, irq, queueVars, userVars, lockVars, procVars>>

\* (seeded fault: an orphan is never freed)
RetiredKept == job

\* npu_retire: an orphan is freed, any other job waits for its collector.
RetiredDone == IF job[cur].orphan THEN done ELSE Append(done, cur)
RetiredJobs == IF job[cur].orphan THEN Free({cur}) ELSE job

\* The job has ended: retire it and start the next one, or go idle.
ThreadSuccess ==
  /\ ThreadRuns /\ cur # Nobody /\ job[cur].st = "success"
  /\ done' = RetiredDone
  /\ \/ /\ pending = <<>>
        /\ job' = RetiredJobs
        /\ cur' = Nobody /\ state' = "IDLE"
        /\ UNCHANGED <<hw, pending>>
     \/ /\ pending # <<>>
        /\ job' = [RetiredJobs EXCEPT ![Head(pending)].st = "process"]
        /\ cur' = Head(pending) /\ pending' = Tail(pending)
        /\ hw' = HwStart(hw)
        /\ UNCHANGED state
  /\ Wake
  /\ UNCHANGED <<irq, lastId, userVars, lockVars, pc, call, want, reaped, stale>>

\* (seeded fault: the jobs behind an aborted one are moved last first)
AbortedReversed == RetiredDone \o [i \in 1..Len(pending) |->
                                     pending[Len(pending) + 1 - i]]

\* The done list after an abort: the jobs that waited follow in their order.
AbortedDone == RetiredDone \o pending

\* The job has aborted: retire it and fail everything queued behind it.
ThreadAbort ==
  /\ ThreadRuns /\ cur # Nobody /\ job[cur].st = "abort"
  /\ done' = AbortedDone
  /\ pending' = <<>>
  /\ job' = [j \in Jobs |-> IF j \in Elems(pending)
                            THEN [RetiredJobs[j] EXCEPT !.st = "abort"]
                            ELSE RetiredJobs[j]]
  /\ cur' = Nobody
  /\ Wake
  /\ UNCHANGED <<hw, irq, state, lastId, userVars, lockVars,
                 pc, call, want, reaped, stale>>

\* A sync point or a breakpoint: the job keeps the NPU, its waiters see it.
ThreadStopped ==
  /\ ThreadRuns /\ cur # Nobody
  /\ job[cur].st \notin {"success", "abort"}
  /\ Wake
  /\ UNCHANGED <<hw, irq, queueVars, userVars, lockVars,
                 pc, call, want, reaped, stale>>

-----------------------------------------------------------------------------
(* open(2), NPU_IOC_OPEN, NPU_IOC_CREATE_QUEUE, NPU_IOC_CLR_WFI *)

\* npu_fop_open
FopOpen(p) ==
  /\ pc[p] = "closed" /\ refLock = Nobody
  /\ refs' = refs + 1
  /\ hw' = [hw EXCEPT !.clk = (refs = 0) \/ @]
  /\ Goto(p, "user")
  /\ UNCHANGED <<irq, irqThread, queueVars, opened, queues, lockVars,
                 call, want, woken, reaped, stale>>

\* NPU_IOC_OPEN; a failed copy_from_user of the first opener changes nothing.
IocOpen(p) ==
  /\ pc[p] = "user" /\ openLock = Nobody
  /\ opened < MaxOpen
  /\ opened' = opened + 1
  /\ hw' = IF opened = 0 THEN HwOpen(hw) ELSE hw
  /\ UNCHANGED <<irq, irqThread, queueVars, refs, queues, lockVars, procVars>>

\* npu_open_queue: a first queue numbers its jobs from one again.
IocCreateQueue(p) ==
  /\ pc[p] = "user" /\ queueLock = Nobody /\ StateLockFree
  /\ queues < MaxQueues /\ (OpenFirst => opened > 0)
  /\ queues' = queues + 1
  /\ lastId' = IF queues = 0 THEN 0 ELSE lastId
  /\ UNCHANGED <<hwVars, job, cur, state, pending, done, refs, opened,
                 lockVars, procVars>>

\* NPU_IOC_CLR_WFI lets a job that stopped at a sync point go on.
IocClrWfi(p) ==
  /\ pc[p] = "user" /\ hw.eng = "held"
  /\ hw' = [hw EXCEPT !.eng = "run"]
  /\ UNCHANGED <<irq, irqThread, queueVars, userVars, lockVars, procVars>>

-----------------------------------------------------------------------------
(* NPU_IOC_SUBMIT_JOB, NPU_IOC_WAIT_JOB, NPU_IOC_QUERY_JOB *)

\* npu_submit refuses without a queue and on an aborted or draining device.
Accepts == queues > 0 /\ state \in {"IDLE", "BUSY"}

\* (seeded fault: list_add for list_add_tail)
QueuedFirst(j) == <<j>> \o pending

\* A job joins the end of the pending list.
Queued(j) == Append(pending, j)

\* npu_submit
IocSubmit(p) ==
  /\ pc[p] = "user" /\ queueLock = Nobody /\ StateLockFree
  /\ Accepts
  /\ lastId < MaxId /\ lastId' = lastId + 1
  /\ \E j \in Jobs :
       /\ ~Live(j)
       /\ \/ /\ state = "IDLE"
             /\ state' = "BUSY" /\ cur' = j
             /\ job' = [job EXCEPT ![j] = [id |-> lastId + 1, st |-> "process",
                                           orphan |-> FALSE]]
             /\ hw' = HwStart(hw)
             /\ UNCHANGED pending
          \/ /\ state = "BUSY"
             /\ job' = [job EXCEPT ![j] = [id |-> lastId + 1, st |-> "pend",
                                           orphan |-> FALSE]]
             /\ pending' = Queued(j)
             /\ UNCHANGED <<state, cur, hw>>
  /\ UNCHANGED <<irq, irqThread, done, userVars, lockVars, procVars>>

\* npu_query before its loop: the checks made under no lock.
IocQuery(p, c, id) ==
  /\ pc[p] = "user" /\ queues > 0 /\ id <= lastId
  /\ Goto(p, "query")
  /\ call' = [call EXCEPT ![p] = c]
  /\ want' = [want EXCEPT ![p] = id]
  /\ UNCHANGED <<hwVars, queueVars, userVars, lockVars, woken, reaped, stale>>

\* npu_job_status: the job is running, or finished with the thread still to
\* move it, or pending.  Otherwise there is something to report.
IsCur(id)   == cur # Nobody /\ ~job[cur].orphan /\ job[cur].id = id
Unready(id) ==
  \/ IsCur(id) /\ job[cur].st # "stop"
  \/ ~IsCur(id) /\ \E j \in Elems(pending) : job[j].id = id

\* npu_collect: the first job of that id on the done list.
IsCollected(i, id) ==
  /\ i \in 1..Len(done) /\ job[done[i]].id = id
  /\ \A k \in 1..(i - 1) : job[done[k]].id # id

\* The loop of npu_query, ready: a finished job is collected, a stopped or an
\* unknown one reported.
QueryReady(p) ==
  /\ pc[p] = "query" /\ StateLockFree
  /\ ~Unready(want[p])
  /\ \/ /\ ~IsCur(want[p])
        /\ \E i \in 1..Len(done) : /\ IsCollected(i, want[p])
                                   /\ job' = Free({done[i]})
                                   /\ done' = DropAt(done, i)
     \/ /\ IsCur(want[p]) \/ \A j \in Elems(done) : job[j].id # want[p]
        /\ UNCHANGED <<job, done>>
  /\ Return(p, "user")
  /\ stale' = stale \ {p}
  /\ UNCHANGED <<hwVars, cur, state, lastId, pending, userVars, lockVars,
                 woken, reaped>>

\* The loop of npu_query, not ready: a query answers, a wait goes to sleep
\* having seen the events so far.
QueryUnready(p) ==
  /\ pc[p] = "query" /\ StateLockFree
  /\ Unready(want[p])
  /\ \/ call[p] = "query" /\ Return(p, "user") /\ stale' = stale \ {p}
     \/ call[p] = "wait" /\ Goto(p, "asleep") /\ UNCHANGED <<call, want, stale>>
  /\ UNCHANGED <<hwVars, queueVars, userVars, lockVars, woken, reaped>>

\* wait_event_interruptible_timeout: events moved.
WaitWoken(p) ==
  /\ pc[p] = "asleep" /\ p \in woken
  /\ Goto(p, "query")
  /\ woken' = woken \ {p}
  /\ UNCHANGED <<hwVars, queueVars, userVars, lockVars, call, want, reaped, stale>>

\* The same, timed out or interrupted by a signal.
WaitTimeout(p) ==
  /\ pc[p] = "asleep" /\ p \notin woken
  /\ Return(p, "user")
  /\ stale' = stale \ {p}
  /\ UNCHANGED <<hwVars, queueVars, userVars, lockVars, woken, reaped>>

-----------------------------------------------------------------------------
(* Giving up queues: NPU_IOC_DESTROY_QUEUE, NPU_IOC_CLOSE, NPU_IOC_RESET,   *)
(* close(2)                                                                *)

IocDestroyQueue(p) ==
  /\ pc[p] = "user" /\ queueLock = Nobody
  /\ queues' = Less(queues)
  /\ IF queues' # 0
     THEN UNCHANGED <<pc, call, queueLock>>
     ELSE /\ queueLock' = p
          /\ call' = [call EXCEPT ![p] = "destroy"] /\ Goto(p, "drop")
  /\ UNCHANGED <<hwVars, queueVars, refs, opened, refLock, openLock,
                 want, woken, reaped, stale>>

IocClose(p) ==
  /\ pc[p] = "user" /\ openLock = Nobody
  /\ opened' = Less(opened)
  /\ IF opened' # 0
     THEN UNCHANGED <<pc, call, openLock>>
     ELSE /\ openLock' = p
          /\ call' = [call EXCEPT ![p] = "close"] /\ Goto(p, "takeq")
  /\ UNCHANGED <<hwVars, queueVars, refs, queues, refLock, queueLock,
                 want, woken, reaped, stale>>

IocReset(p) ==
  /\ pc[p] = "user" /\ openLock = Nobody
  /\ openLock' = p
  /\ call' = [call EXCEPT ![p] = "reset"] /\ Goto(p, "takeq")
  /\ UNCHANGED <<hwVars, queueVars, userVars, refLock, queueLock,
                 want, woken, reaped, stale>>

\* npu_fop_release
FopRelease(p) ==
  /\ pc[p] = "user" /\ refLock = Nobody
  /\ refs' = Less(refs)
  /\ IF refs' # 0
     THEN Goto(p, "closed") /\ UNCHANGED <<call, refLock>>
     ELSE /\ refLock' = p
          /\ call' = [call EXCEPT ![p] = "release"] /\ Goto(p, "takeq")
  /\ UNCHANGED <<hwVars, queueVars, opened, queues, openLock, queueLock,
                 want, woken, reaped, stale>>

\* npu_drop_queues, and what its callers do if there is nothing to drop.
DropQueues(p) ==
  /\ pc[p] = "takeq" /\ queueLock = Nobody
  /\ queues' = 0
  /\ IF queues > 0
     THEN queueLock' = p /\ Goto(p, "drop")
     ELSE IF call[p] = "reset"
     THEN queueLock' = p /\ Goto(p, "stop")
     ELSE UNCHANGED queueLock /\ Goto(p, "hwclose")
  /\ UNCHANGED <<hwVars, queueVars, refs, opened, refLock, openLock,
                 call, want, woken, reaped, stale>>

\* npu_destroy_queue: pending jobs go at once, a running one gets a grace
\* period; one at a stop gets none.
DestroyPending(p) ==
  /\ pc[p] = "drop" /\ StateLockFree
  /\ job' = Free(Elems(pending)) /\ pending' = <<>>
  /\ IF state = "BUSY" /\ cur # Nobody /\ job[cur].st # "stop"
     THEN Goto(p, "grace") ELSE Goto(p, "mark")
  /\ UNCHANGED <<hwVars, cur, state, lastId, done, userVars, lockVars,
                 call, want, woken, reaped, stale>>

\* The wait for the state to leave BUSY, which may also time out.
DestroyGrace(p) ==
  /\ pc[p] = "grace"
  /\ Goto(p, "mark")
  /\ UNCHANGED <<hwVars, queueVars, userVars, lockVars,
                 call, want, woken, reaped, stale>>

\* (seeded fault: NPU_IOC_CLOSE forgets to unlock)
QueueLockLeft(p) == IF call[p] \in {"reset", "close"} THEN queueLock ELSE Nobody

\* Who has queue_lock when npu_destroy_queue is over: NPU_IOC_RESET keeps it.
QueueLockAfter(p) == IF call[p] = "reset" THEN queueLock ELSE Nobody

\* The end of npu_destroy_queue, and its return to each caller: what is
\* collectable goes, everyone is woken.
DestroyEnd(p, jobs) ==
  /\ job' = [j \in Jobs |-> IF j \in Elems(done) THEN NoMemory ELSE jobs[j]]
  /\ done' = <<>>
  /\ Wake
  /\ stale' = stale \cup Waiters
  /\ IF call[p] = "destroy" THEN Return(p, "user")
     ELSE IF call[p] = "reset" THEN Goto(p, "stop") /\ UNCHANGED <<call, want>>
     ELSE Goto(p, "hwclose") /\ UNCHANGED <<call, want>>
  /\ queueLock' = QueueLockAfter(p)

\* (seeded fault: only a job of a busy device is orphaned)
SurvivorIfBusy == cur # Nobody /\ ~job[cur].orphan /\ state = "BUSY"

\* The job that outlived its queue, and whether the device must drain for it.
Survivor  == cur # Nobody /\ ~job[cur].orphan
\* (seeded fault: a job at a sync point does not make the device drain)
DrainsUnlessStopped == Survivor /\ state = "BUSY" /\ job[cur].st # "stop"

MustDrain == Survivor /\ state = "BUSY"

\* The second locked section: a job that is still there is orphaned; whether
\* it makes the device drain depends on the state read here.
DestroyMark(p) ==
  /\ pc[p] = "mark" /\ StateLockFree
  /\ LET marked == IF Survivor THEN [job EXCEPT ![cur].orphan = TRUE] ELSE job
     IN  IF MustDrain
         THEN /\ job' = marked /\ Goto(p, "drain")
              /\ UNCHANGED <<done, call, want, woken, stale, queueLock>>
         ELSE DestroyEnd(p, marked)
  /\ UNCHANGED <<hwVars, cur, state, lastId, pending, userVars,
                 refLock, openLock, reaped>>

\* The store of NPU_DRAINING that follows, with state_lock still held.
DestroyDrain(p) ==
  /\ pc[p] = "drain"
  /\ state' = "DRAINING"
  /\ DestroyEnd(p, job)
  /\ UNCHANGED <<hwVars, cur, lastId, pending, userVars,
                 refLock, openLock, reaped>>

\* The end of NPU_IOC_CLOSE: npu_hw_close under open_lock.
CloseEnd(p) ==
  /\ pc[p] = "hwclose" /\ call[p] = "close" /\ StateLockFree
  /\ hw' = HwClose(hw)
  /\ openLock' = Nobody
  /\ Return(p, "user")
  /\ UNCHANGED <<irq, irqThread, queueVars, userVars, refLock, queueLock,
                 woken, reaped, stale>>

\* The end of npu_fop_release for the last file: close what was left open and
\* gate the clock.
ReleaseEnd(p) ==
  /\ pc[p] = "hwclose" /\ call[p] = "release" /\ openLock = Nobody /\ StateLockFree
  /\ hw' = [(IF opened > 0 THEN HwClose(hw) ELSE hw) EXCEPT !.clk = FALSE]
  /\ opened' = 0
  /\ refLock' = Nobody
  /\ Return(p, "closed")
  /\ UNCHANGED <<irq, irqThread, queueVars, refs, queues, openLock, queueLock,
                 woken, reaped, stale>>

NeedsReset == cur # Nobody \/ state = "ABORTED"

\* NPU_IOC_RESET once the queues are gone: npu_soft_reset stops the NPU, and
\* the driver lets go of the job it was running.
ResetStop(p) ==
  /\ pc[p] = "stop" /\ StateLockFree
  /\ Goto(p, "sync")
  /\ IF NeedsReset
     THEN /\ reaped' = cur /\ cur' = Nobody
          /\ state' = "IDLE"
          /\ hw' = SoftReset(hw)
     ELSE UNCHANGED <<reaped, cur, state, hw>>
  /\ UNCHANGED <<irq, irqThread, job, lastId, pending, done, userVars,
                 lockVars, call, want, woken, stale>>

\* The same when the NPU does not stop: it stays out of service.
ResetFails(p) ==
  /\ pc[p] = "stop" /\ StateLockFree /\ NeedsReset
  /\ queueLock' = Nobody /\ openLock' = Nobody
  /\ Return(p, "user")
  /\ UNCHANGED <<hwVars, queueVars, userVars, refLock, woken, reaped, stale>>

\* (seeded fault: the job is freed without waiting)
IrqIgnored == TRUE

IrqQuiet == ~irq.on /\ ~irqThread

\* synchronize_irq waits for the handler and its thread before the job that
\* was stopped is freed.
ResetEnd(p) ==
  /\ pc[p] = "sync"
  /\ reaped # Nobody => IrqQuiet
  /\ job' = Free({reaped}) /\ reaped' = Nobody
  /\ queueLock' = Nobody /\ openLock' = Nobody
  /\ Return(p, "user")
  /\ UNCHANGED <<hwVars, cur, state, lastId, pending, done, userVars, refLock,
                 woken, stale>>

-----------------------------------------------------------------------------
IrqThread == ThreadSpurious \/ ThreadSuccess \/ ThreadAbort \/ ThreadStopped

\* A call that has begun goes on by itself, a wait in its sleep excepted.
KernelStep(p) ==
  \/ QueryReady(p) \/ QueryUnready(p) \/ WaitWoken(p)
  \/ DropQueues(p) \/ DestroyPending(p) \/ DestroyGrace(p)
  \/ DestroyMark(p) \/ DestroyDrain(p)
  \/ CloseEnd(p) \/ ReleaseEnd(p)
  \/ ResetStop(p) \/ ResetFails(p) \/ ResetEnd(p)

UserStep(p) ==
  \/ FopOpen(p) \/ FopRelease(p)
  \/ IocOpen(p) \/ IocClose(p) \/ IocReset(p)
  \/ IocCreateQueue(p) \/ IocDestroyQueue(p)
  \/ IocSubmit(p) \/ IocClrWfi(p)
  \/ \E c \in {"wait", "query"}, id \in 1..MaxId : IocQuery(p, c, id)

HardIrq == HardIrqEnter \/ HardIrqNote \/ HardIrqAbort

\* On one core nothing but the NPU moves while the hard handler runs.
Schedulable == SMP \/ ~irq.on

Next ==
  \/ \E e \in {"DONE", "STOP", "DFX"} : NpuEvent(e)
  \/ HardIrq
  \/ Schedulable /\ IrqThread
  \/ \E p \in Procs : Schedulable /\ (KernelStep(p) \/ UserStep(p) \/ WaitTimeout(p))

Spec == Init /\ [][Next]_vars

\* The kernel runs what is runnable and its mutexes starve no one; a running
\* job ends or fails sooner or later.  Users need do nothing.
Fairness ==
  /\ WF_vars(NpuEvent("DONE") \/ NpuEvent("DFX"))
  /\ WF_vars(HardIrq)
  /\ SF_vars(Schedulable /\ IrqThread)
  /\ \A p \in Procs : /\ SF_vars(Schedulable /\ KernelStep(p))
                      /\ SF_vars(Schedulable /\ DestroyDrain(p))

FairSpec == Spec /\ Fairness

-----------------------------------------------------------------------------
(* Properties *)

Events  == {"DONE", "STOP", "DFX"}
NpuType == [clk : BOOLEAN, en : BOOLEAN, eng : Engine, lat : SUBSET Events]
IrqType == [on : BOOLEAN, job : Jobs \cup {Nobody}, st : SUBSET Events]
JobType == [id : Nat, st : JobStates, orphan : BOOLEAN]

HwTypes ==
  hw \in NpuType /\ irq \in IrqType /\ irqThread \in BOOLEAN

QueueTypes ==
  /\ job \in [Jobs -> JobType]
  /\ cur \in Jobs \cup {Nobody} /\ state \in DevStates /\ lastId \in Nat
  /\ pending \in Seq(Jobs) /\ done \in Seq(Jobs)

UserTypes == refs \in Nat /\ opened \in Nat /\ queues \in Nat

LockTypes ==
  /\ refLock \in Procs \cup {Nobody}
  /\ openLock \in Procs \cup {Nobody}
  /\ queueLock \in Procs \cup {Nobody}

ProcTypes ==
  /\ pc \in [Procs -> Places] /\ call \in [Procs -> Calls]
  /\ want \in [Procs -> Nat]
  /\ woken \subseteq Procs /\ stale \subseteq Procs
  /\ reaped \in Jobs \cup {Nobody}

\* Types of the variables: struct npu_dev and the calls in progress.
TypeOK == HwTypes /\ QueueTypes /\ UserTypes /\ LockTypes /\ ProcTypes

\* The jobs somebody will yet collect, in the order the queue owes them:
\* finished, running, pending.
Line == done \o (IF cur # Nobody /\ ~job[cur].orphan THEN <<cur>> ELSE <<>>)
             \o pending

\* Each live struct npu_job hangs in exactly one place (the pending list, the
\* done list, cur, or the hands of a reset about to free it), so that none
\* leaks and none is freed twice.
JobsAccounted ==
  /\ {j \in Jobs : Live(j)} = Elems(done) \cup Elems(pending)
                                \cup ({cur, reaped} \ {Nobody})
  /\ Elems(done) \cap Elems(pending) = {}
  /\ {cur, reaped} \cap (Elems(done) \cup Elems(pending)) = {}
  /\ cur = reaped => cur = Nobody
  /\ NoTwice(done) /\ NoTwice(pending)

\* npu_irq_thread, npu_submit and npu_collect keep the queue first in, first
\* out: job ids rise along the line of finished, running and pending jobs, so
\* no job overtakes another and no two answer to the same id.
InOrder ==
  /\ \A i, k \in 1..Len(Line) : i < k => job[Line[i]].id < job[Line[k]].id
  /\ \A i \in 1..Len(Line) : job[Line[i]].id <= lastId

\* Once the last queue is gone (npu_destroy_queue, npu_drop_queues) no job is
\* left to collect, and one that still runs is an orphan: a new queue, which
\* numbers its jobs from one, never meets a job of the old.
EmptyWithoutQueue ==
  queues = 0 /\ queueLock = Nobody => Line = <<>>

\* state and cur agree whenever state_lock is free: a busy device has a job
\* that its queue owns, so a submission that finds it busy is started in its
\* turn; an idle one has no job, none pending, and an engine at rest.
StateOwnsJob ==
  StateLockFree =>
    /\ state = "BUSY" => cur # Nobody /\ ~job[cur].orphan
    /\ state = "IDLE" => cur = Nobody /\ pending = <<>> /\ hw.eng = "rest"

\* A sleeper of npu_query never misses its wake-up: once there is something to
\* report on its job, events has moved since it looked, or somebody who will
\* move it is on the way: the interrupt thread, or the destroy that dropped the
\* job and wakes everyone as it ends.
NoLostWakeup ==
  \A p \in Procs :
    pc[p] = "asleep" /\ ~Unready(want[p]) =>
      \/ p \in woken
      \/ irqThread
      \/ \E q \in Procs : pc[q] \in {"grace", "mark", "drain"}

\* The hard handler never writes to a job that has been freed ("cur is only
\* ever freed by the IRQ thread or after the IRQ is gone, never under the hard
\* handler", and synchronize_irq in NPU_IOC_RESET).
NoUseAfterFree == irq.on /\ irq.job # Nobody => Live(irq.job)

\* npu_hw_start is only ever reached with the engine at rest: neither a
\* drained queue, an abort whose sequencer keeps running, nor a job that
\* outlived its queue has the NPU when the next job is handed to it.
StartsAtRest == [][cur' # cur /\ cur' # Nobody => hw.eng = "rest"]_vars

\* "Waiters on dropped jobs see NPU_JOB_UNKNOWN": no live job answers to the
\* id a waiter was left with when its queue was dropped.
DroppedIsUnknown ==
  \A p \in stale : \A i \in 1..Len(Line) : job[Line[i]].id # want[p]

\* No call hangs: whatever the other callers and the NPU do, a call is over in
\* the end, or it is a wait asleep on a job.  There is no deadlock between
\* ref_lock, open_lock, queue_lock and state_lock.
CallsReturn ==
  \A p \in Procs : pc[p] \notin {"closed", "user", "asleep"}
                     ~> pc[p] \in {"closed", "user", "asleep"}

\* The id a waiter of a dropped queue asks about has been given out again.
Renumbered(p) == p \in stale /\ \E i \in 1..Len(Line) : job[Line[i]].id = want[p]

\* A waiter without a timeout gets its answer, which is to be back in its
\* program: the job it waits for ends, fails or is dropped, the waiter hears of
\* it, and no wake-up for somebody else's job sends it back to sleep for good.
\* The one way out is that of DroppedIsUnknown: its queue was dropped, and by
\* the time it looks a job of a later queue has its id; such a waiter waits for
\* that job, and may meet another after it.
WaitersAnswered ==
  \A p \in Procs : pc[p] = "asleep" ~> pc[p] = "user" \/ Renumbered(p)
=============================================================================
