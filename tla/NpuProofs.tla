------------------------------ MODULE NpuProofs ------------------------------
(***************************************************************************)
(* Proofs about the NPU driver: its types, that every job hangs in exactly  *)
(* one place, and that none of a queue outlives it but as an orphan, for    *)
(* any number of processes, jobs, opens and queues.                         *)
(***************************************************************************)
EXTENDS Npu, TLAPS

-----------------------------------------------------------------------------
(* The helpers the actions are built from keep the types. *)

LEMMA DropAtType ==
  ASSUME NEW S, NEW s \in Seq(S), NEW i \in 1..Len(s)
  PROVE  DropAt(s, i) \in Seq(S)
  <1>1. SubSeq(s, 1, i - 1) \in Seq(S)
    OBVIOUS
  <1>2. SubSeq(s, i + 1, Len(s)) \in Seq(S)
    OBVIOUS
  <1> QED BY <1>1, <1>2 DEF DropAt

LEMMA NoMemoryType == NoMemory \in JobType
  BY DEF NoMemory, JobType, JobStates

LEMMA FreeType ==
  ASSUME NEW S, job \in [Jobs -> JobType] PROVE Free(S) \in [Jobs -> JobType]
  BY NoMemoryType DEF Free

LEMMA HwHelperTypes ==
  ASSUME NEW h \in NpuType
  PROVE  HwOpen(h) \in NpuType /\ HwClose(h) \in NpuType
         /\ HwStart(h) \in NpuType /\ SoftReset(h) \in NpuType
  BY DEF NpuType, HwOpen, HwClose, HwStart, SoftReset, Engine

LEMMA GotoType ==
  ASSUME NEW p \in Procs, NEW l \in Places, ProcTypes, Goto(p, l)
  PROVE  pc' \in [Procs -> Places]
  BY DEF Goto, ProcTypes

LEMMA ReturnType ==
  ASSUME NEW p \in Procs, NEW l \in {"user", "closed"}, ProcTypes, Return(p, l)
  PROVE  /\ pc' \in [Procs -> Places]
         /\ call' \in [Procs -> Calls]
         /\ want' \in [Procs -> Nat]
  BY DEF Return, ProcTypes, Places, Calls

LEMMA WakeType == ASSUME ProcTypes, Wake PROVE woken' \subseteq Procs
  BY DEF ProcTypes, Wake, Asleep

\* What a step leaves alone keeps its type.
LEMMA UnchangedTypes ==
  /\ HwTypes /\ UNCHANGED hwVars => HwTypes'
  /\ QueueTypes /\ UNCHANGED queueVars => QueueTypes'
  /\ UserTypes /\ UNCHANGED userVars => UserTypes'
  /\ LockTypes /\ UNCHANGED lockVars => LockTypes'
  /\ ProcTypes /\ UNCHANGED procVars => ProcTypes'
  BY DEF HwTypes, hwVars, QueueTypes, queueVars, UserTypes, userVars,
         LockTypes, lockVars, ProcTypes, procVars

-----------------------------------------------------------------------------
(* Type correctness *)

LEMMA TypeInit == Init => TypeOK
  <1> SUFFICES ASSUME Init PROVE TypeOK OBVIOUS
  <1>1. HwTypes BY DEF Init, HwTypes, NpuType, IrqType, Quiet, Engine
  <1>2. job \in [Jobs -> JobType] BY NoMemoryType DEF Init
  <1>3. QueueTypes BY <1>2 DEF Init, QueueTypes, DevStates
  <1>4. UserTypes BY DEF Init, UserTypes
  <1>5. LockTypes BY DEF Init, LockTypes
  <1>6. ProcTypes BY DEF Init, ProcTypes, Places, Calls
  <1> QED BY <1>1, <1>3, <1>4, <1>5, <1>6 DEF TypeOK

LEMMA TypeHw ==
  ASSUME TypeOK, (\E e \in Events : NpuEvent(e)) \/ HardIrq
  PROVE  TypeOK'
  <1> USE DEF TypeOK
  <1>1. CASE \E e \in Events : NpuEvent(e)
    <2> PICK e \in Events : NpuEvent(e) BY <1>1
    <2>1. hw' \in NpuType
      BY DEF HwTypes, NpuType, NpuEvent, Engine, Events
    <2>2. HwTypes' BY <2>1 DEF HwTypes, NpuEvent
    <2> QED BY <2>2, UnchangedTypes DEF NpuEvent
  <1>2. CASE HardIrqEnter
    <2>1. HwTypes'
      BY <1>2 DEF HardIrqEnter, HwTypes, NpuType, IrqType, QueueTypes
    <2> QED BY <1>2, <2>1, UnchangedTypes DEF HardIrqEnter
  <1>3. CASE HardIrqNote
    <2>1. job' \in [Jobs -> JobType]
      <3>1. CASE irq.job # Nobody /\ Live(irq.job)
        <4>1. job' = [job EXCEPT ![irq.job].st = IrqStatus(@, irq.st)]
          BY <1>3, <3>1 DEF HardIrqNote
        <4>2. IrqStatus(job[irq.job].st, irq.st) \in JobStates
          BY <3>1 DEF HwTypes, IrqType, QueueTypes, JobType, IrqStatus, JobStates
        <4> QED BY <3>1, <4>1, <4>2 DEF QueueTypes, JobType
      <3>2. CASE ~(irq.job # Nobody /\ Live(irq.job))
        BY <1>3, <3>2 DEF HardIrqNote, QueueTypes
      <3> QED BY <3>1, <3>2
    <2>2. HwTypes' BY <1>3 DEF HardIrqNote, HwTypes, NpuType, IrqType, Quiet
    <2>3. QueueTypes' BY <1>3, <2>1 DEF HardIrqNote, QueueTypes
    <2> QED BY <1>3, <2>2, <2>3, UnchangedTypes DEF HardIrqNote
  <1>4. CASE HardIrqAbort
    <2>1. job' \in [Jobs -> JobType]
      BY <1>4 DEF HardIrqAbort, QueueTypes, JobType, JobStates
    <2>2. HwTypes' BY <1>4 DEF HardIrqAbort, HwTypes, NpuType, IrqType, Quiet
    <2>3. QueueTypes' BY <1>4, <2>1 DEF HardIrqAbort, QueueTypes, DevStates
    <2> QED BY <1>4, <2>2, <2>3, UnchangedTypes DEF HardIrqAbort
  <1> QED BY <1>1, <1>2, <1>3, <1>4 DEF HardIrq

LEMMA RetiredTypes ==
  ASSUME QueueTypes, cur # Nobody
  PROVE  RetiredDone \in Seq(Jobs) /\ RetiredJobs \in [Jobs -> JobType]
  <1>1. RetiredDone \in Seq(Jobs) BY DEF QueueTypes, RetiredDone
  <1>2. RetiredJobs \in [Jobs -> JobType] BY FreeType DEF QueueTypes, RetiredJobs
  <1> QED BY <1>1, <1>2

LEMMA TypeThread == ASSUME TypeOK, IrqThread PROVE TypeOK'
  <1> USE DEF TypeOK
  <1>1. CASE ThreadSpurious
    BY <1>1, UnchangedTypes DEF ThreadSpurious, ThreadRuns, HwTypes
  <1>2. CASE ThreadSuccess
    <2>1. RetiredDone \in Seq(Jobs) /\ RetiredJobs \in [Jobs -> JobType]
      BY <1>2, RetiredTypes DEF ThreadSuccess
    <2>2. CASE pending = <<>>
      <3>1. HwTypes' BY <1>2, <2>2 DEF ThreadSuccess, ThreadRuns, HwTypes
      <3>2. QueueTypes' BY <1>2, <2>1, <2>2 DEF ThreadSuccess, QueueTypes, DevStates
      <3>3. ProcTypes' BY <1>2, WakeType DEF ThreadSuccess, ProcTypes
      <3> QED BY <1>2, <3>1, <3>2, <3>3, UnchangedTypes DEF ThreadSuccess
    <2>3. CASE pending # <<>>
      <3>0. Head(pending) \in Jobs /\ Tail(pending) \in Seq(Jobs)
        BY <2>3 DEF QueueTypes
      <3>1. HwTypes'
        BY <1>2, <2>3, HwHelperTypes DEF ThreadSuccess, ThreadRuns, HwTypes
      <3>2. [RetiredJobs EXCEPT ![Head(pending)].st = "process"] \in [Jobs -> JobType]
        BY <2>1, <3>0 DEF JobType, JobStates
      <3>3. QueueTypes' BY <1>2, <2>1, <2>3, <3>0, <3>2 DEF ThreadSuccess, QueueTypes
      <3>4. ProcTypes' BY <1>2, WakeType DEF ThreadSuccess, ProcTypes
      <3> QED BY <1>2, <3>1, <3>3, <3>4, UnchangedTypes DEF ThreadSuccess
    <2> QED BY <2>2, <2>3
  <1>3. CASE ThreadAbort
    <2>1. RetiredDone \in Seq(Jobs) /\ RetiredJobs \in [Jobs -> JobType]
      BY <1>3, RetiredTypes DEF ThreadAbort
    <2>2. job' \in [Jobs -> JobType]
      BY <1>3, <2>1 DEF ThreadAbort, JobType, JobStates
    <2>3. done' \in Seq(Jobs) BY <1>3, <2>1 DEF ThreadAbort, AbortedDone, QueueTypes
    <2>a. pending' = <<>> BY <1>3 DEF ThreadAbort
    <2>b. cur' = Nobody /\ state' = state /\ lastId' = lastId
      BY <1>3 DEF ThreadAbort
    <2>4. QueueTypes' BY <2>2, <2>3, <2>a, <2>b DEF QueueTypes
    <2>5. HwTypes' BY <1>3 DEF ThreadAbort, ThreadRuns, HwTypes
    <2>6. ProcTypes' BY <1>3, WakeType DEF ThreadAbort, ProcTypes
    <2> QED BY <1>3, <2>4, <2>5, <2>6, UnchangedTypes DEF ThreadAbort
  <1>4. CASE ThreadStopped
    <2>1. HwTypes' BY <1>4 DEF ThreadStopped, ThreadRuns, HwTypes
    <2>2. ProcTypes' BY <1>4, WakeType DEF ThreadStopped, ProcTypes
    <2> QED BY <1>4, <2>1, <2>2, UnchangedTypes DEF ThreadStopped
  <1> QED BY <1>1, <1>2, <1>3, <1>4 DEF IrqThread

\* open(2), NPU_IOC_OPEN, CREATE_QUEUE, CLR_WFI and SUBMIT_JOB
LEMMA TypeUse ==
  ASSUME TypeOK, NEW p \in Procs,
         FopOpen(p) \/ IocOpen(p) \/ IocCreateQueue(p) \/ IocClrWfi(p) \/ IocSubmit(p)
  PROVE  TypeOK'
  <1> USE DEF TypeOK
  <1>1. CASE FopOpen(p)
    <2>1. HwTypes' BY <1>1 DEF FopOpen, HwTypes, NpuType
    <2>2. ProcTypes' BY <1>1, GotoType DEF FopOpen, ProcTypes, Places
    <2>3. UserTypes' BY <1>1 DEF FopOpen, UserTypes
    <2> QED BY <1>1, <2>1, <2>2, <2>3, UnchangedTypes DEF FopOpen
  <1>2. CASE IocOpen(p)
    <2>1. HwTypes' BY <1>2, HwHelperTypes DEF IocOpen, HwTypes
    <2>2. UserTypes' BY <1>2 DEF IocOpen, UserTypes
    <2> QED BY <1>2, <2>1, <2>2, UnchangedTypes DEF IocOpen
  <1>3. CASE IocCreateQueue(p)
    <2>1. QueueTypes' BY <1>3 DEF IocCreateQueue, QueueTypes
    <2>2. UserTypes' BY <1>3 DEF IocCreateQueue, UserTypes
    <2> QED BY <1>3, <2>1, <2>2, UnchangedTypes DEF IocCreateQueue
  <1>4. CASE IocClrWfi(p)
    <2>1. HwTypes' BY <1>4 DEF IocClrWfi, HwTypes, NpuType, Engine
    <2> QED BY <1>4, <2>1, UnchangedTypes DEF IocClrWfi
  <1>5. CASE IocSubmit(p)
    <2>1. PICK j \in Jobs :
            \/ /\ state' = "BUSY" /\ cur' = j
               /\ job' = [job EXCEPT ![j] = [id |-> lastId + 1, st |-> "process",
                                             orphan |-> FALSE]]
               /\ hw' = HwStart(hw)
               /\ UNCHANGED pending
            \/ /\ job' = [job EXCEPT ![j] = [id |-> lastId + 1, st |-> "pend",
                                             orphan |-> FALSE]]
               /\ pending' = Append(pending, j)
               /\ UNCHANGED <<state, cur, hw>>
      BY <1>5 DEF IocSubmit, Queued
    <2>2. lastId' \in Nat /\ done' = done BY <1>5 DEF IocSubmit, QueueTypes
    <2>a. \A st \in {"process", "pend"} :
            [id |-> lastId + 1, st |-> st, orphan |-> FALSE] \in JobType
      BY DEF QueueTypes, JobType, JobStates
    <2>b. job \in [Jobs -> JobType] /\ pending \in Seq(Jobs) BY DEF QueueTypes
    <2>3. job' \in [Jobs -> JobType] BY <2>1, <2>a, <2>b
    <2>4. pending' \in Seq(Jobs)
      <3>1. CASE UNCHANGED pending BY <2>b, <3>1
      <3>2. CASE pending' = Append(pending, j) BY <2>b, <3>2
      <3> QED BY <2>1, <3>1, <3>2
    <2>5. QueueTypes' BY <2>1, <2>2, <2>3, <2>4 DEF QueueTypes, DevStates
    <2>6. HwTypes' BY <1>5, <2>1, HwHelperTypes DEF IocSubmit, HwTypes
    <2> QED BY <1>5, <2>5, <2>6, UnchangedTypes DEF IocSubmit
  <1> QED BY <1>1, <1>2, <1>3, <1>4, <1>5

\* NPU_IOC_WAIT_JOB and QUERY_JOB
LEMMA TypeQuery ==
  ASSUME TypeOK, NEW p \in Procs,
         \/ \E c \in {"wait", "query"}, id \in 1..MaxId : IocQuery(p, c, id)
         \/ QueryReady(p) \/ QueryUnready(p) \/ WaitWoken(p) \/ WaitTimeout(p)
  PROVE  TypeOK'
  <1> USE DEF TypeOK
  <1>1. ASSUME NEW c \in {"wait", "query"}, NEW id \in 1..MaxId, IocQuery(p, c, id)
        PROVE  TypeOK'
    <2>1. ProcTypes'
      BY <1>1, GotoType, NpuAssumption DEF IocQuery, ProcTypes, Places, Calls
    <2> QED BY <1>1, <2>1, UnchangedTypes DEF IocQuery
  <1>2. CASE QueryReady(p)
    <2>1. job' \in [Jobs -> JobType] /\ done' \in Seq(Jobs)
      <3>1. ASSUME NEW i \in 1..Len(done), IsCollected(i, want[p]),
                   job' = Free({done[i]}), done' = DropAt(done, i)
            PROVE  job' \in [Jobs -> JobType] /\ done' \in Seq(Jobs)
        BY <3>1, FreeType, DropAtType DEF QueueTypes
      <3>2. CASE UNCHANGED <<job, done>> BY <3>2 DEF QueueTypes
      <3> QED BY <1>2, <3>1, <3>2 DEF QueryReady
    <2>2. QueueTypes' BY <1>2, <2>1 DEF QueryReady, QueueTypes
    <2>3. ProcTypes' BY <1>2, ReturnType DEF QueryReady, ProcTypes
    <2> QED BY <1>2, <2>2, <2>3, UnchangedTypes DEF QueryReady
  <1>3. CASE QueryUnready(p)
    <2>1. ProcTypes'
      <3>1. CASE Return(p, "user") /\ stale' = stale \ {p}
        BY <1>3, <3>1, ReturnType DEF QueryUnready, ProcTypes
      <3>2. CASE Goto(p, "asleep") /\ UNCHANGED <<call, want, stale>>
        BY <1>3, <3>2, GotoType DEF QueryUnready, ProcTypes, Places
      <3> QED BY <1>3, <3>1, <3>2 DEF QueryUnready
    <2> QED BY <1>3, <2>1, UnchangedTypes DEF QueryUnready
  <1>4. CASE WaitWoken(p)
    <2>1. ProcTypes' BY <1>4, GotoType DEF WaitWoken, ProcTypes, Places
    <2> QED BY <1>4, <2>1, UnchangedTypes DEF WaitWoken
  <1>5. CASE WaitTimeout(p)
    <2>1. ProcTypes' BY <1>5, ReturnType DEF WaitTimeout, ProcTypes
    <2> QED BY <1>5, <2>1, UnchangedTypes DEF WaitTimeout
  <1> QED BY <1>1, <1>2, <1>3, <1>4, <1>5

LEMMA LessType == ASSUME NEW n \in Nat PROVE Less(n) \in Nat
  BY DEF Less

\* The end of a destroy, from either of the two places it is reached from.
LEMMA DestroyEndTypes ==
  ASSUME TypeOK, NEW p \in Procs, NEW jobs \in [Jobs -> JobType], DestroyEnd(p, jobs)
  PROVE  /\ job' \in [Jobs -> JobType] /\ done' \in Seq(Jobs)
         /\ pc' \in [Procs -> Places] /\ call' \in [Procs -> Calls]
         /\ want' \in [Procs -> Nat]
         /\ woken' \subseteq Procs /\ stale' \subseteq Procs
         /\ queueLock' \in Procs \cup {Nobody}
  <1> USE DEF TypeOK
  <1>1. job' \in [Jobs -> JobType] BY NoMemoryType DEF DestroyEnd
  <1>2. done' \in Seq(Jobs) BY DEF DestroyEnd
  <1>3. /\ pc' \in [Procs -> Places] /\ call' \in [Procs -> Calls]
        /\ want' \in [Procs -> Nat]
    <2>1. CASE Return(p, "user") BY <2>1, ReturnType
    <2>2. CASE /\ Goto(p, "stop") \/ Goto(p, "hwclose")
               /\ UNCHANGED <<call, want>>
      BY <2>2, GotoType DEF ProcTypes, Places
    <2> QED BY <2>1, <2>2 DEF DestroyEnd
  <1>4. woken' \subseteq Procs BY WakeType DEF DestroyEnd
  <1>5. stale' \subseteq Procs BY DEF DestroyEnd, ProcTypes, Waiters
  <1>6. queueLock' \in Procs \cup {Nobody}
    BY DEF DestroyEnd, QueueLockAfter, LockTypes
  <1> QED BY <1>1, <1>2, <1>3, <1>4, <1>5, <1>6

\* NPU_IOC_DESTROY_QUEUE, npu_drop_queues and npu_destroy_queue
LEMMA TypeGiveUp ==
  ASSUME TypeOK, NEW p \in Procs,
         \/ IocDestroyQueue(p) \/ IocClose(p) \/ IocReset(p) \/ FopRelease(p)
         \/ DropQueues(p) \/ DestroyPending(p) \/ DestroyGrace(p)
         \/ DestroyMark(p) \/ DestroyDrain(p)
  PROVE  TypeOK'
  <1> USE DEF TypeOK
  <1>1. CASE IocDestroyQueue(p)
    <2>1. UserTypes' BY <1>1, LessType DEF IocDestroyQueue, UserTypes
    <2>2. LockTypes' BY <1>1 DEF IocDestroyQueue, LockTypes
    <2>3. ProcTypes' BY <1>1 DEF IocDestroyQueue, ProcTypes, Goto, Places, Calls
    <2> QED BY <1>1, <2>1, <2>2, <2>3, UnchangedTypes DEF IocDestroyQueue
  <1>2. CASE IocClose(p)
    <2>1. UserTypes' BY <1>2, LessType DEF IocClose, UserTypes
    <2>2. LockTypes' BY <1>2 DEF IocClose, LockTypes
    <2>3. ProcTypes' BY <1>2 DEF IocClose, ProcTypes, Goto, Places, Calls
    <2> QED BY <1>2, <2>1, <2>2, <2>3, UnchangedTypes DEF IocClose
  <1>3. CASE IocReset(p)
    <2>1. LockTypes' BY <1>3 DEF IocReset, LockTypes
    <2>2. ProcTypes' BY <1>3 DEF IocReset, ProcTypes, Goto, Places, Calls
    <2> QED BY <1>3, <2>1, <2>2, UnchangedTypes DEF IocReset
  <1>4. CASE FopRelease(p)
    <2>1. UserTypes' BY <1>4, LessType DEF FopRelease, UserTypes
    <2>2. LockTypes' BY <1>4 DEF FopRelease, LockTypes
    <2>3. ProcTypes' BY <1>4 DEF FopRelease, ProcTypes, Goto, Places, Calls
    <2> QED BY <1>4, <2>1, <2>2, <2>3, UnchangedTypes DEF FopRelease
  <1>5. CASE DropQueues(p)
    <2>1. UserTypes' BY <1>5 DEF DropQueues, UserTypes
    <2>2. LockTypes' BY <1>5 DEF DropQueues, LockTypes
    <2>3. ProcTypes' BY <1>5 DEF DropQueues, ProcTypes, Goto, Places
    <2> QED BY <1>5, <2>1, <2>2, <2>3, UnchangedTypes DEF DropQueues
  <1>6. CASE DestroyPending(p)
    <2>1. QueueTypes' BY <1>6, FreeType DEF DestroyPending, QueueTypes
    <2>2. ProcTypes' BY <1>6 DEF DestroyPending, ProcTypes, Goto, Places
    <2> QED BY <1>6, <2>1, <2>2, UnchangedTypes DEF DestroyPending
  <1>7. CASE DestroyGrace(p)
    <2>1. ProcTypes' BY <1>7 DEF DestroyGrace, ProcTypes, Goto, Places
    <2> QED BY <1>7, <2>1, UnchangedTypes DEF DestroyGrace
  <1>8. CASE DestroyMark(p)
    <2> DEFINE marked == IF Survivor THEN [job EXCEPT ![cur].orphan = TRUE] ELSE job
    <2>1. marked \in [Jobs -> JobType]
      BY DEF Survivor, QueueTypes, JobType
    <2>2. CASE MustDrain
      <3>1. /\ job' = marked /\ Goto(p, "drain")
            /\ UNCHANGED <<done, call, want, woken, stale, queueLock>>
        BY <1>8, <2>2 DEF DestroyMark
      <3>2. QueueTypes' BY <1>8, <2>1, <3>1 DEF DestroyMark, QueueTypes
      <3>3. ProcTypes' BY <1>8, <3>1 DEF DestroyMark, ProcTypes, Goto, Places
      <3>4. LockTypes' BY <1>8, <3>1 DEF DestroyMark, LockTypes
      <3> QED BY <1>8, <3>2, <3>3, <3>4, UnchangedTypes DEF DestroyMark
    <2>3. CASE ~MustDrain
      <3>1. DestroyEnd(p, marked) BY <1>8, <2>3 DEF DestroyMark
      <3> HIDE DEF marked
      <3>2. QueueTypes' BY <1>8, <2>1, <3>1, DestroyEndTypes DEF DestroyMark, QueueTypes
      <3>3. ProcTypes' BY <1>8, <2>1, <3>1, DestroyEndTypes DEF DestroyMark, ProcTypes
      <3>4. LockTypes' BY <1>8, <2>1, <3>1, DestroyEndTypes DEF DestroyMark, LockTypes
      <3> QED BY <1>8, <3>2, <3>3, <3>4, UnchangedTypes DEF DestroyMark
    <2> QED BY <2>2, <2>3
  <1>9. CASE DestroyDrain(p)
    <2>1. DestroyEnd(p, job) /\ job \in [Jobs -> JobType]
      BY <1>9 DEF DestroyDrain, QueueTypes
    <2>2. QueueTypes' BY <1>9, <2>1, DestroyEndTypes DEF DestroyDrain, QueueTypes, DevStates
    <2>3. ProcTypes' BY <1>9, <2>1, DestroyEndTypes DEF DestroyDrain, ProcTypes
    <2>4. LockTypes' BY <1>9, <2>1, DestroyEndTypes DEF DestroyDrain, LockTypes
    <2> QED BY <1>9, <2>2, <2>3, <2>4, UnchangedTypes DEF DestroyDrain
  <1> QED BY <1>1, <1>2, <1>3, <1>4, <1>5, <1>6, <1>7, <1>8, <1>9

\* The ends of NPU_IOC_CLOSE, of close(2) and of NPU_IOC_RESET
LEMMA TypeEnds ==
  ASSUME TypeOK, NEW p \in Procs,
         CloseEnd(p) \/ ReleaseEnd(p) \/ ResetStop(p) \/ ResetFails(p) \/ ResetEnd(p)
  PROVE  TypeOK'
  <1> USE DEF TypeOK
  <1>1. CASE CloseEnd(p)
    <2>1. HwTypes' BY <1>1, HwHelperTypes DEF CloseEnd, HwTypes
    <2>2. LockTypes' BY <1>1 DEF CloseEnd, LockTypes
    <2>3. ProcTypes' BY <1>1, ReturnType DEF CloseEnd, ProcTypes
    <2> QED BY <1>1, <2>1, <2>2, <2>3, UnchangedTypes DEF CloseEnd
  <1>2. CASE ReleaseEnd(p)
    <2>1. hw' \in NpuType
      <3>1. (IF opened > 0 THEN HwClose(hw) ELSE hw) \in NpuType
        BY HwHelperTypes DEF HwTypes
      <3> HIDE DEF HwClose
      <3> QED BY <1>2, <3>1 DEF ReleaseEnd, NpuType
    <2>2. HwTypes' BY <1>2, <2>1 DEF ReleaseEnd, HwTypes
    <2>3. LockTypes' BY <1>2 DEF ReleaseEnd, LockTypes
    <2>4. UserTypes' BY <1>2 DEF ReleaseEnd, UserTypes
    <2>5. ProcTypes' BY <1>2, ReturnType DEF ReleaseEnd, ProcTypes
    <2> QED BY <1>2, <2>2, <2>3, <2>4, <2>5, UnchangedTypes DEF ReleaseEnd
  <1>3. CASE ResetStop(p)
    <2>1. HwTypes' BY <1>3, HwHelperTypes DEF ResetStop, HwTypes
    <2>2. QueueTypes' BY <1>3 DEF ResetStop, QueueTypes, DevStates
    <2>3. ProcTypes' BY <1>3 DEF ResetStop, ProcTypes, QueueTypes, Goto, Places
    <2> QED BY <1>3, <2>1, <2>2, <2>3, UnchangedTypes DEF ResetStop
  <1>4. CASE ResetFails(p)
    <2>1. LockTypes' BY <1>4 DEF ResetFails, LockTypes
    <2>2. ProcTypes' BY <1>4, ReturnType DEF ResetFails, ProcTypes
    <2> QED BY <1>4, <2>1, <2>2, UnchangedTypes DEF ResetFails
  <1>5. CASE ResetEnd(p)
    <2>1. QueueTypes' BY <1>5, FreeType DEF ResetEnd, QueueTypes
    <2>2. LockTypes' BY <1>5 DEF ResetEnd, LockTypes
    <2>3. ProcTypes' BY <1>5, ReturnType DEF ResetEnd, ProcTypes
    <2> QED BY <1>5, <2>1, <2>2, <2>3, UnchangedTypes DEF ResetEnd
  <1> QED BY <1>1, <1>2, <1>3, <1>4, <1>5

LEMMA TypeNext == ASSUME TypeOK, [Next]_vars PROVE TypeOK'
  <1>1. CASE UNCHANGED vars BY <1>1, UnchangedTypes DEF vars, TypeOK
  <1>2. CASE (\E e \in Events : NpuEvent(e)) \/ HardIrq BY <1>2, TypeHw
  <1>3. CASE IrqThread BY <1>3, TypeThread
  <1>4. ASSUME NEW p \in Procs, KernelStep(p) \/ UserStep(p) \/ WaitTimeout(p)
        PROVE  TypeOK'
    BY <1>4, TypeUse, TypeQuery, TypeGiveUp, TypeEnds DEF KernelStep, UserStep
  <1> QED BY <1>1, <1>2, <1>3, <1>4 DEF Next, Events

\* The types of struct npu_dev and of the calls in progress hold throughout.
THEOREM TypeCorrect == Spec => []TypeOK
  <1>1. Init => TypeOK BY TypeInit
  <1>2. TypeOK /\ [Next]_vars => TypeOK' BY TypeNext
  <1> QED BY <1>1, <1>2, PTL DEF Spec

-----------------------------------------------------------------------------
(* Lists of jobs: what they hold after each way of changing them. *)

LEMMA ElemsIn == ASSUME NEW S, NEW s \in Seq(S) PROVE Elems(s) \subseteq S
  BY DEF Elems

LEMMA ElemsNone == Elems(<<>>) = {} /\ NoTwice(<<>>)
  BY DEF Elems, NoTwice

LEMMA ElemsAppend ==
  ASSUME NEW S, NEW s \in Seq(S), NEW x \in S
  PROVE  /\ Elems(Append(s, x)) = Elems(s) \cup {x}
         /\ NoTwice(s) /\ x \notin Elems(s) => NoTwice(Append(s, x))
  <1> DEFINE t == Append(s, x)
  <1>1. /\ Len(t) = Len(s) + 1 /\ t[Len(s) + 1] = x
        /\ \A i \in 1..Len(s) : t[i] = s[i]
    OBVIOUS
  <1>2. Elems(s) \cup {x} \subseteq Elems(t)
    BY <1>1 DEF Elems
  <1>3. Elems(t) \subseteq Elems(s) \cup {x}
    BY <1>1 DEF Elems
  <1>4. ASSUME NoTwice(s), x \notin Elems(s) PROVE NoTwice(t)
    <2> SUFFICES ASSUME NEW i \in 1..Len(t), NEW k \in 1..Len(t), t[i] = t[k]
                 PROVE  i = k
      BY DEF NoTwice
    <2>1. CASE i \in 1..Len(s) /\ k \in 1..Len(s)
      BY <1>1, <1>4, <2>1 DEF NoTwice
    <2>2. CASE i \in 1..Len(s) /\ k = Len(s) + 1
      BY <1>1, <1>4, <2>2 DEF Elems
    <2>3. CASE k \in 1..Len(s) /\ i = Len(s) + 1
      BY <1>1, <1>4, <2>3 DEF Elems
    <2> QED BY <1>1, <2>1, <2>2, <2>3
  <1> QED BY <1>2, <1>3, <1>4

LEMMA ElemsFirst ==
  ASSUME NEW S, NEW s \in Seq(S), s # <<>>
  PROVE  /\ Head(s) \in S /\ Tail(s) \in Seq(S)
         /\ Elems(s) = {Head(s)} \cup Elems(Tail(s))
         /\ NoTwice(s) => NoTwice(Tail(s)) /\ Head(s) \notin Elems(Tail(s))
  <1> DEFINE t == Tail(s)
  <1>1. /\ Len(t) = Len(s) - 1 /\ Head(s) = s[1] /\ Len(s) \in Nat \ {0}
        /\ \A i \in 1..Len(t) : t[i] = s[i + 1]
    OBVIOUS
  <1>2. \A i \in 2..Len(s) : i - 1 \in 1..Len(t) /\ t[i - 1] = s[i]
    BY <1>1
  <1>3. Elems(s) \subseteq {Head(s)} \cup Elems(t)
    BY <1>1, <1>2 DEF Elems
  <1>4. {Head(s)} \cup Elems(t) \subseteq Elems(s)
    BY <1>1 DEF Elems
  <1>5. NoTwice(s) => NoTwice(t) /\ Head(s) \notin Elems(t)
    BY <1>1 DEF NoTwice, Elems
  <1> QED BY <1>3, <1>4, <1>5

LEMMA ElemsConcat ==
  ASSUME NEW S, NEW s \in Seq(S), NEW t \in Seq(S)
  PROVE  /\ Elems(s \o t) = Elems(s) \cup Elems(t)
         /\ NoTwice(s) /\ NoTwice(t) /\ Elems(s) \cap Elems(t) = {}
              => NoTwice(s \o t)
  <1> DEFINE u == s \o t
  <1>1. /\ Len(u) = Len(s) + Len(t)
        /\ \A i \in 1..Len(s) : u[i] = s[i]
        /\ \A i \in (Len(s) + 1)..Len(u) : i - Len(s) \in 1..Len(t)
                                           /\ u[i] = t[i - Len(s)]
        /\ \A i \in 1..Len(t) : i + Len(s) \in 1..Len(u) /\ u[i + Len(s)] = t[i]
    OBVIOUS
  <1>2. Elems(u) \subseteq Elems(s) \cup Elems(t)
    BY <1>1 DEF Elems
  <1>3. Elems(s) \cup Elems(t) \subseteq Elems(u)
    BY <1>1 DEF Elems
  <1>4. ASSUME NoTwice(s), NoTwice(t), Elems(s) \cap Elems(t) = {}
        PROVE  NoTwice(u)
    <2> SUFFICES ASSUME NEW i \in 1..Len(u), NEW k \in 1..Len(u), u[i] = u[k]
                 PROVE  i = k
      BY DEF NoTwice
    <2>1. CASE i \in 1..Len(s) /\ k \in 1..Len(s)
      BY <1>1, <1>4, <2>1 DEF NoTwice
    <2>2. CASE i \notin 1..Len(s) /\ k \notin 1..Len(s)
      BY <1>1, <1>4, <2>2 DEF NoTwice
    <2>3. CASE i \in 1..Len(s) /\ k \notin 1..Len(s)
      <3>1. u[i] \in Elems(s) /\ u[k] \in Elems(t)
        BY <1>1, <2>3 DEF Elems
      <3> QED BY <1>4, <3>1
    <2>4. CASE i \notin 1..Len(s) /\ k \in 1..Len(s)
      <3>1. u[k] \in Elems(s) /\ u[i] \in Elems(t)
        BY <1>1, <2>4 DEF Elems
      <3> QED BY <1>4, <3>1
    <2> QED BY <2>1, <2>2, <2>3, <2>4
  <1> QED BY <1>2, <1>3, <1>4

LEMMA ElemsDrop ==
  ASSUME NEW S, NEW s \in Seq(S), NEW i \in 1..Len(s)
  PROVE  /\ s[i] \in Elems(s)
         /\ Elems(s) = {s[i]} \cup Elems(DropAt(s, i))
         /\ NoTwice(s) => NoTwice(DropAt(s, i)) /\ s[i] \notin Elems(DropAt(s, i))
  <1> DEFINE a == SubSeq(s, 1, i - 1)
             b == SubSeq(s, i + 1, Len(s))
  <1>1. /\ a \in Seq(S) /\ Len(a) = i - 1
        /\ \A k \in 1..Len(a) : a[k] = s[k]
    OBVIOUS
  <1>2. /\ b \in Seq(S) /\ Len(b) = Len(s) - i
        /\ \A k \in 1..Len(b) : b[k] = s[k + i]
    OBVIOUS
  <1>3. /\ Elems(a \o b) = Elems(a) \cup Elems(b)
        /\ NoTwice(a) /\ NoTwice(b) /\ Elems(a) \cap Elems(b) = {}
             => NoTwice(a \o b)
    BY <1>1, <1>2, ElemsConcat
  <1> HIDE DEF a, b
  <1>4. Elems(a) \subseteq Elems(s) /\ Elems(b) \subseteq Elems(s) /\ s[i] \in Elems(s)
    <2>1. Elems(a) \subseteq Elems(s)
      BY <1>1 DEF Elems
    <2>2. Elems(b) \subseteq Elems(s)
      BY <1>2 DEF Elems
    <2> QED BY <2>1, <2>2 DEF Elems
  <1>5. Elems(s) \subseteq {s[i]} \cup Elems(a) \cup Elems(b)
    <2> SUFFICES ASSUME NEW k \in 1..Len(s) PROVE s[k] \in {s[i]} \cup Elems(a) \cup Elems(b)
      BY DEF Elems
    <2>1. CASE k < i
      <3>1. k \in 1..Len(a) /\ a[k] = s[k] BY <1>1, <2>1
      <3> QED BY <3>1 DEF Elems
    <2>2. CASE k > i
      <3>1. k - i \in 1..Len(b) /\ b[k - i] = s[k] BY <1>2, <2>2
      <3> QED BY <3>1 DEF Elems
    <2> QED BY <2>1, <2>2
  <1>6. ASSUME NoTwice(s)
        PROVE  /\ NoTwice(a) /\ NoTwice(b) /\ Elems(a) \cap Elems(b) = {}
               /\ s[i] \notin Elems(a) /\ s[i] \notin Elems(b)
    <2>1. NoTwice(a) /\ s[i] \notin Elems(a)
      BY <1>1, <1>6 DEF NoTwice, Elems
    <2>2. NoTwice(b) /\ s[i] \notin Elems(b)
      BY <1>2, <1>6 DEF NoTwice, Elems
    <2>3. Elems(a) \cap Elems(b) = {}
      <3> SUFFICES ASSUME NEW k \in 1..Len(a), NEW m \in 1..Len(b), a[k] = b[m]
                   PROVE  FALSE
        BY DEF Elems
      <3>1. s[k] = s[m + i] /\ k \in 1..Len(s) /\ m + i \in 1..Len(s) /\ k # m + i
        BY <1>1, <1>2
      <3> QED BY <1>6, <3>1 DEF NoTwice
    <2> QED BY <2>1, <2>2, <2>3
  <1> QED BY <1>3, <1>4, <1>5, <1>6 DEF DropAt, a, b

-----------------------------------------------------------------------------
(* The inductive invariant *)

\* From npu_drop_queues to the end of NPU_IOC_RESET, under queue_lock.
Destroying == {"drop", "grace", "mark", "drain", "stop", "sync"}
Dropping   == {"drop", "grace", "mark", "drain"}

QueueHeld == \A p \in Procs : pc[p] \in Destroying => queueLock = p
GivenUp   == \A p \in Procs : pc[p] \in Destroying => queues = 0

NothingQueued   == \A p \in Procs : pc[p] \in {"grace", "mark", "drain"}
                                      => pending = <<>>
OrphanedInDrain == \A p \in Procs : pc[p] = "drain" => ~Survivor
AtRestInSync    == \A p \in Procs : pc[p] = "sync" => cur = Nobody
ReapedInSync    == reaped # Nobody => \E p \in Procs : pc[p] = "sync"

\* No queue, and nobody at work on dropping one: nothing is left of it.
Emptied ==
  queues = 0 /\ (\A p \in Procs : pc[p] \notin Dropping)
    => done = <<>> /\ pending = <<>> /\ ~Survivor

GivingUp == /\ QueueHeld /\ GivenUp /\ NothingQueued /\ OrphanedInDrain
            /\ AtRestInSync /\ ReapedInSync /\ Emptied

\* A submission to an idle device overwrites no job.
IdleHasNone == state = "IDLE" => cur = Nobody

IInv == TypeOK /\ JobsAccounted /\ IdleHasNone /\ GivingUp

LEMMA OneDestroys ==
  ASSUME TypeOK, QueueHeld, NEW p \in Procs, pc[p] \in Destroying,
         NEW q \in Procs, pc[q] \in Destroying
  PROVE  p = q
  BY DEF QueueHeld

LEMMA IInvInit == Init => IInv
  <1> SUFFICES ASSUME Init PROVE IInv OBVIOUS
  <1>1. TypeOK BY TypeInit
  <1>2. JobsAccounted
    BY ElemsNone DEF Init, JobsAccounted, Live, NoMemory
  <1>3. GivingUp
    BY DEF Init, GivingUp, QueueHeld, GivenUp, NothingQueued, OrphanedInDrain,
           AtRestInSync, ReapedInSync, Emptied, Survivor, Destroying, Dropping
  <1>4. IdleHasNone BY DEF Init, IdleHasNone
  <1> QED BY <1>1, <1>2, <1>3, <1>4 DEF IInv

-----------------------------------------------------------------------------
(* Every struct npu_job stays accounted for. *)

\* A step that moves no job and frees none.
LEMMA AccountedSame ==
  ASSUME JobsAccounted, UNCHANGED <<cur, pending, done, reaped>>,
         \A j \in Jobs : Live(j)' = Live(j)
  PROVE  JobsAccounted'
  BY DEF JobsAccounted

LEMMA AccountedIrq ==
  ASSUME TypeOK, JobsAccounted, HardIrqNote \/ HardIrqAbort
  PROVE  JobsAccounted'
  <1>1. UNCHANGED <<cur, pending, done, reaped>>
    BY DEF HardIrqNote, HardIrqAbort, procVars
  <1>2. \A s \in JobStates \ {"free"} : IrqStatus(s, irq.st) # "free"
    BY DEF IrqStatus
  <1>3. \A j \in Jobs : Live(j)' = Live(j)
    <2> SUFFICES ASSUME NEW j \in Jobs PROVE Live(j)' = Live(j) OBVIOUS
    <2>0. /\ job \in [Jobs -> JobType] /\ irq.job \in Jobs \cup {Nobody}
          /\ job[j].st \in JobStates
      BY DEF TypeOK, QueueTypes, HwTypes, IrqType, JobType
    <2>1. CASE HardIrqNote
      BY <1>2, <2>0, <2>1 DEF HardIrqNote, Live, JobType
    <2>2. CASE HardIrqAbort
      BY <2>0, <2>2 DEF HardIrqAbort, Live, JobType
    <2> QED BY <2>1, <2>2
  <1> QED BY <1>1, <1>3, AccountedSame

LEMMA AccountedThread ==
  ASSUME TypeOK, JobsAccounted, ThreadSuccess \/ ThreadAbort
  PROVE  JobsAccounted'
  <1>0. /\ job \in [Jobs -> JobType] /\ cur \in Jobs
        /\ pending \in Seq(Jobs) /\ done \in Seq(Jobs) /\ reaped' = reaped
    BY DEF TypeOK, QueueTypes, ThreadSuccess, ThreadAbort, AbortedDone
  <1> DEFINE D == IF job[cur].orphan THEN Elems(done) ELSE Elems(done) \cup {cur}
  <1>1. RetiredDone \in Seq(Jobs) /\ Elems(RetiredDone) = D /\ NoTwice(RetiredDone)
    <2>1. CASE job[cur].orphan
      BY <1>0, <2>1 DEF RetiredDone, JobsAccounted
    <2>2. CASE ~job[cur].orphan
      <3>1. RetiredDone = Append(done, cur) BY <2>2 DEF RetiredDone
      <3>2. cur \notin Elems(done) /\ NoTwice(done) BY DEF JobsAccounted
      <3> QED BY <1>0, <2>2, <3>1, <3>2, ElemsAppend
    <2> QED BY <2>1, <2>2
  <1>2. RetiredJobs \in [Jobs -> JobType]
    BY <1>0, RetiredTypes, NpuAssumption DEF TypeOK
  <1>3. \A j \in Jobs : RetiredJobs[j].st # "free" <=>
                          job[j].st # "free" /\ ~(job[cur].orphan /\ j = cur)
    BY <1>0 DEF RetiredJobs, Free, NoMemory
  <1>4. /\ {j \in Jobs : RetiredJobs[j].st # "free"}
             = D \cup Elems(pending) \cup ({reaped} \ {Nobody})
        /\ D \cap Elems(pending) = {} /\ reaped \notin D \cup Elems(pending)
    BY <1>0, <1>3, ElemsIn, NpuAssumption DEF JobsAccounted, Live
  <1> HIDE DEF D
  <1>5. CASE ThreadAbort
    <2>1. /\ Elems(done') = D \cup Elems(pending) /\ NoTwice(done')
          /\ pending' = <<>> /\ cur' = Nobody
      BY <1>0, <1>1, <1>4, <1>5, ElemsConcat
         DEF ThreadAbort, AbortedDone, JobsAccounted
    <2>2. \A j \in Jobs : Live(j)' <=> RetiredJobs[j].st # "free" \/ j \in Elems(pending)
      BY <1>2, <1>5 DEF ThreadAbort, Live, JobType
    <2> QED BY <1>0, <1>4, <2>1, <2>2, ElemsNone, ElemsIn, NpuAssumption DEF JobsAccounted
  <1>6. CASE ThreadSuccess /\ pending = <<>>
    <2>1. done' = RetiredDone /\ pending' = pending /\ cur' = Nobody
          /\ job' = RetiredJobs
      BY <1>6 DEF ThreadSuccess
    <2> QED BY <1>0, <1>1, <1>4, <2>1, NpuAssumption DEF JobsAccounted, Live
  <1>7. CASE ThreadSuccess /\ pending # <<>>
    <2>1. /\ done' = RetiredDone /\ pending' = Tail(pending) /\ cur' = Head(pending)
          /\ job' = [RetiredJobs EXCEPT ![Head(pending)].st = "process"]
      BY <1>7 DEF ThreadSuccess
    <2>2. /\ Head(pending) \in Jobs
          /\ Elems(pending) = {Head(pending)} \cup Elems(Tail(pending))
          /\ NoTwice(Tail(pending)) /\ Head(pending) \notin Elems(Tail(pending))
      BY <1>0, <1>7, ElemsFirst DEF JobsAccounted
    <2>3. \A j \in Jobs : Live(j)' <=> RetiredJobs[j].st # "free" \/ j = Head(pending)
      BY <1>2, <2>1, <2>2 DEF Live, JobType
    <2> QED BY <1>0, <1>1, <1>4, <2>1, <2>2, <2>3, NpuAssumption DEF JobsAccounted
  <1> QED BY <1>5, <1>6, <1>7

\* A step that frees some jobs, which no list keeps.
LEMMA AccountedFree ==
  ASSUME TypeOK, JobsAccounted, UNCHANGED <<cur, reaped>>, NEW S,
         cur \notin S, reaped \notin S,
         \A j \in Jobs : Live(j)' <=> Live(j) /\ j \notin S,
         Elems(done') = Elems(done) \ S, NoTwice(done'),
         Elems(pending') = Elems(pending) \ S, NoTwice(pending')
  PROVE  JobsAccounted'
  <1>1. Elems(done)' = Elems(done) \ S /\ Elems(pending)' = Elems(pending) \ S
    OBVIOUS
  <1>2. ({j \in Jobs : Live(j)} = Elems(done) \cup Elems(pending)
                                    \cup ({cur, reaped} \ {Nobody}))'
    <2>1. {j \in Jobs : Live(j)'} = {j \in Jobs : Live(j)} \ S
      OBVIOUS
    <2> QED BY <1>1, <2>1 DEF JobsAccounted
  <1>3. (Elems(done) \cap Elems(pending) = {})'
    BY <1>1 DEF JobsAccounted
  <1>4. ({cur, reaped} \cap (Elems(done) \cup Elems(pending)) = {})'
    BY <1>1 DEF JobsAccounted
  <1>5. (NoTwice(done) /\ NoTwice(pending))'
    OBVIOUS
  <1>6. (cur = reaped => cur = Nobody)'
    BY DEF JobsAccounted
  <1> QED BY <1>2, <1>3, <1>4, <1>5, <1>6 DEF JobsAccounted

LEMMA LiveFree ==
  ASSUME TypeOK, NEW S
  PROVE  \A j \in Jobs : Free(S)[j].st # "free" <=> Live(j) /\ j \notin S
  BY DEF TypeOK, QueueTypes, Free, Live, NoMemory

LEMMA AccountedSubmit ==
  ASSUME TypeOK, JobsAccounted, IdleHasNone, NEW p \in Procs, IocSubmit(p)
  PROVE  JobsAccounted'
  <1>1. PICK j \in Jobs :
          /\ ~Live(j)
          /\ \/ /\ cur' = j /\ UNCHANGED pending /\ state = "IDLE"
                /\ job' = [job EXCEPT ![j] = [id |-> lastId + 1, st |-> "process",
                                              orphan |-> FALSE]]
             \/ /\ pending' = Append(pending, j) /\ UNCHANGED cur
                /\ job' = [job EXCEPT ![j] = [id |-> lastId + 1, st |-> "pend",
                                              orphan |-> FALSE]]
    BY DEF IocSubmit, Queued
  <1>2. \A k \in Jobs : Live(k)' <=> Live(k) \/ k = j
    BY <1>1 DEF TypeOK, QueueTypes, Live
  <1>3. UNCHANGED <<done, reaped>>
    BY DEF IocSubmit, procVars
  <1>4. CASE state = "IDLE" /\ cur' = j /\ UNCHANGED pending
    BY <1>1, <1>2, <1>3, <1>4, NpuAssumption DEF JobsAccounted, IdleHasNone
  <1>5. CASE pending' = Append(pending, j) /\ UNCHANGED cur
    <2>1. pending \in Seq(Jobs) /\ j \notin Elems(pending)
      BY <1>1 DEF JobsAccounted, TypeOK, QueueTypes
    <2>2. Elems(pending') = Elems(pending) \cup {j} /\ NoTwice(pending')
      BY <1>5, <2>1, ElemsAppend DEF JobsAccounted
    <2> QED BY <1>1, <1>2, <1>3, <1>5, <2>2, NpuAssumption DEF JobsAccounted
  <1> QED BY <1>1, <1>4, <1>5

LEMMA AccountedQuery ==
  ASSUME TypeOK, JobsAccounted, NEW p \in Procs, QueryReady(p) PROVE JobsAccounted'
  <1>1. CASE UNCHANGED <<job, done>>
    BY <1>1, AccountedSame DEF QueryReady, Live
  <1>2. CASE ~UNCHANGED <<job, done>>
    <2>1. PICK i \in 1..Len(done) : job' = Free({done[i]}) /\ done' = DropAt(done, i)
      BY <1>2 DEF QueryReady, IsCollected
    <2>2. done \in Seq(Jobs) /\ done[i] \in Jobs /\ UNCHANGED <<cur, pending, reaped>>
      BY DEF TypeOK, QueueTypes, QueryReady
    <2>3. /\ done[i] \in Elems(done) /\ Elems(done') = Elems(done) \ {done[i]}
          /\ NoTwice(done')
      BY <2>1, <2>2, ElemsDrop DEF JobsAccounted
    <2>4. \A j \in Jobs : Live(j)' <=> Live(j) /\ j \notin {done[i]}
      BY <2>1, LiveFree DEF Live
    <2>5. /\ Elems(pending') = Elems(pending) \ {done[i]} /\ NoTwice(pending')
          /\ done[i] # cur /\ done[i] # reaped
      BY <2>2, <2>3 DEF JobsAccounted
    <2>6. UNCHANGED <<cur, reaped>> BY <2>2
    <2> DEFINE S == {done[i]}
    <2>7. /\ cur \notin S /\ reaped \notin S
          /\ \A j \in Jobs : Live(j)' <=> Live(j) /\ j \notin S
          /\ Elems(done') = Elems(done) \ S /\ Elems(pending') = Elems(pending) \ S
      BY <2>3, <2>4, <2>5
    <2> HIDE DEF S
    <2> QED BY <2>3, <2>5, <2>6, <2>7, AccountedFree
  <1> QED BY <1>1, <1>2

LEMMA AccountedPending ==
  ASSUME TypeOK, JobsAccounted, NEW p \in Procs, DestroyPending(p)
  PROVE  JobsAccounted'
  <1>1. /\ job' = Free(Elems(pending)) /\ pending' = <<>>
        /\ UNCHANGED <<cur, done, reaped>> /\ Elems(pending) \subseteq Jobs
    BY ElemsIn DEF DestroyPending, TypeOK, QueueTypes
  <1>2. \A j \in Jobs : Live(j)' <=> Live(j) /\ j \notin Elems(pending)
    BY <1>1, LiveFree DEF Live
  <1>3. /\ Elems(done') = Elems(done) \ Elems(pending) /\ NoTwice(done')
        /\ Elems(pending') = {} /\ NoTwice(pending')
        /\ cur \notin Elems(pending) /\ reaped \notin Elems(pending)
    BY <1>1, ElemsNone DEF JobsAccounted
  <1> DEFINE S == Elems(pending)
  <1>4. UNCHANGED <<cur, reaped>> BY <1>1
  <1>5. /\ cur \notin S /\ reaped \notin S
        /\ \A j \in Jobs : Live(j)' <=> Live(j) /\ j \notin S
        /\ Elems(done') = Elems(done) \ S /\ Elems(pending') = Elems(pending) \ S
    BY <1>2, <1>3
  <1> HIDE DEF S
  <1> QED BY <1>3, <1>4, <1>5, AccountedFree

\* What the end of a destroy leaves: nothing to collect.
LEMMA AccountedEnd ==
  ASSUME TypeOK, JobsAccounted, NEW p \in Procs, NEW jobs, DestroyEnd(p, jobs),
         \A j \in Jobs : jobs[j].st = job[j].st,
         UNCHANGED <<cur, pending, reaped>>
  PROVE  JobsAccounted'
  <1>1. /\ job' = [j \in Jobs |-> IF j \in Elems(done) THEN NoMemory ELSE jobs[j]]
        /\ done' = <<>> /\ Elems(done) \subseteq Jobs
    BY ElemsIn DEF DestroyEnd, TypeOK, QueueTypes
  <1>2. \A j \in Jobs : Live(j)' <=> Live(j) /\ j \notin Elems(done)
    BY <1>1 DEF Live, NoMemory
  <1>3. /\ Elems(pending') = Elems(pending) \ Elems(done) /\ NoTwice(pending')
        /\ Elems(done') = {} /\ NoTwice(done')
        /\ cur \notin Elems(done) /\ reaped \notin Elems(done)
    BY <1>1, ElemsNone DEF JobsAccounted
  <1> DEFINE S == Elems(done)
  <1>4. UNCHANGED <<cur, reaped>> OBVIOUS
  <1>5. /\ cur \notin S /\ reaped \notin S
        /\ \A j \in Jobs : Live(j)' <=> Live(j) /\ j \notin S
        /\ Elems(done') = Elems(done) \ S /\ Elems(pending') = Elems(pending) \ S
    BY <1>2, <1>3
  <1> HIDE DEF S
  <1> QED BY <1>3, <1>4, <1>5, AccountedFree

LEMMA AccountedMark ==
  ASSUME TypeOK, JobsAccounted, NEW p \in Procs, DestroyMark(p) \/ DestroyDrain(p)
  PROVE  JobsAccounted'
  <1>0. UNCHANGED <<cur, pending, reaped>> BY DEF DestroyMark, DestroyDrain
  <1>1. CASE DestroyMark(p)
    <2> DEFINE marked == IF Survivor THEN [job EXCEPT ![cur].orphan = TRUE] ELSE job
    <2>1. \A j \in Jobs : marked[j].st = job[j].st
      BY DEF TypeOK, QueueTypes, JobType
    <2>2. CASE MustDrain
      <3>1. job' = marked /\ UNCHANGED done BY <1>1, <2>2 DEF DestroyMark
      <3> QED BY <1>0, <2>1, <3>1, AccountedSame DEF Live
    <2>3. CASE ~MustDrain
      <3>1. DestroyEnd(p, marked) BY <1>1, <2>3 DEF DestroyMark
      <3> QED BY <1>0, <2>1, <3>1, AccountedEnd
    <2> QED BY <2>2, <2>3
  <1>2. CASE DestroyDrain(p)
    BY <1>0, <1>2, AccountedEnd DEF DestroyDrain
  <1> QED BY <1>1, <1>2

LEMMA AccountedReset ==
  ASSUME IInv, NEW p \in Procs, ResetStop(p) \/ ResetEnd(p)
  PROVE  JobsAccounted'
  <1>0. TypeOK /\ JobsAccounted /\ GivingUp BY DEF IInv
  <1>1. CASE ResetStop(p)
    <2>1. reaped = Nobody
      BY <1>0, <1>1, OneDestroys DEF GivingUp, ReapedInSync, Destroying, ResetStop
    <2>2. \/ reaped' = cur /\ cur' = Nobody
          \/ UNCHANGED <<reaped, cur>>
      BY <1>1 DEF ResetStop
    <2>3. UNCHANGED <<job, pending, done>> BY <1>1 DEF ResetStop
    <2> QED BY <1>0, <2>1, <2>2, <2>3, NpuAssumption DEF JobsAccounted, Live
  <1>2. CASE ResetEnd(p)
    <2>1. job' = Free({reaped}) /\ reaped' = Nobody /\ UNCHANGED <<cur, pending, done>>
      BY <1>2 DEF ResetEnd
    <2>2. \A j \in Jobs : Live(j)' <=> Live(j) /\ j \notin {reaped}
      BY <1>0, <2>1, LiveFree DEF Live
    <2> QED BY <1>0, <2>1, <2>2, NpuAssumption DEF JobsAccounted
  <1> QED BY <1>1, <1>2

LEMMA AccountedNext == ASSUME IInv, [Next]_vars PROVE JobsAccounted'
  <1> USE DEF IInv
  <1>1. CASE \/ \E p \in Procs : IocSubmit(p) \/ QueryReady(p) \/ DestroyPending(p)
                                 \/ DestroyMark(p) \/ DestroyDrain(p)
                                 \/ ResetStop(p) \/ ResetEnd(p)
             \/ HardIrqNote \/ HardIrqAbort \/ ThreadSuccess \/ ThreadAbort
    BY <1>1, AccountedIrq, AccountedThread, AccountedSubmit, AccountedQuery,
       AccountedPending, AccountedMark, AccountedReset
  <1>2. CASE UNCHANGED <<job, cur, pending, done, reaped>>
    BY <1>2, AccountedSame DEF Live
  <1>3. CASE HardIrqEnter \/ ThreadSpurious \/ ThreadStopped
             \/ \E e \in Events : NpuEvent(e)
    BY <1>2, <1>3 DEF HardIrqEnter, ThreadSpurious, ThreadStopped, NpuEvent,
                      queueVars, procVars
  <1>4. ASSUME NEW p \in Procs, UserStep(p) PROVE JobsAccounted'
    BY <1>1, <1>2, <1>4 DEF UserStep, FopOpen, FopRelease, IocOpen, IocClose,
       IocReset, IocCreateQueue, IocDestroyQueue, IocClrWfi, IocQuery,
       queueVars, procVars
  <1>5. ASSUME NEW p \in Procs, KernelStep(p) \/ WaitTimeout(p) PROVE JobsAccounted'
    BY <1>1, <1>2, <1>5 DEF KernelStep, WaitTimeout, QueryUnready, WaitWoken,
       DropQueues, DestroyGrace, CloseEnd, ReleaseEnd, ResetFails, queueVars, procVars
  <1> QED BY <1>1, <1>2, <1>3, <1>4, <1>5
          DEF Next, IrqThread, HardIrq, Events, vars, queueVars, procVars

-----------------------------------------------------------------------------
(* A queue that is given up is emptied. *)

\* A step that touches neither the jobs nor anybody at work on a queue.
LEMMA GivingUpSame ==
  ASSUME GivingUp, UNCHANGED <<cur, pending, done, queues, queueLock, pc, reaped>>,
         cur # Nobody => job'[cur].orphan = job[cur].orphan
  PROVE  GivingUp'
  BY DEF GivingUp, QueueHeld, GivenUp, NothingQueued, OrphanedInDrain,
         AtRestInSync, ReapedInSync, Emptied, Survivor

LEMMA GivingUpIrq ==
  ASSUME IInv, HardIrq PROVE GivingUp'
  <1>1. cur # Nobody => job'[cur].orphan = job[cur].orphan
    <2>1. job \in [Jobs -> JobType] /\ cur \in Jobs \cup {Nobody}
      BY DEF IInv, TypeOK, QueueTypes
    <2>2. CASE HardIrqEnter
      BY <2>2 DEF HardIrqEnter, queueVars
    <2>3. CASE HardIrqNote
      BY <2>1, <2>3 DEF HardIrqNote, JobType
    <2>4. CASE HardIrqAbort
      BY <2>1, <2>4 DEF HardIrqAbort, JobType
    <2> QED BY <2>2, <2>3, <2>4 DEF HardIrq
  <1> QED BY <1>1, GivingUpSame
          DEF IInv, HardIrq, HardIrqEnter, HardIrqNote, HardIrqAbort,
              queueVars, userVars, lockVars, procVars

LEMMA GivingUpThread ==
  ASSUME IInv, ThreadSuccess \/ ThreadAbort PROVE GivingUp'
  <1> USE DEF IInv
  <1>1. /\ UNCHANGED <<queues, queueLock, pc, reaped>> /\ cur \in Jobs
        /\ \A p \in Procs : pc[p] # "drain"
        /\ \A p \in Procs : pc[p] # "sync"
    BY DEF ThreadSuccess, ThreadAbort, ThreadRuns, StateLockFree, userVars, lockVars,
           GivingUp, AtRestInSync, TypeOK, QueueTypes
  <1>2. QueueHeld' /\ GivenUp' /\ ReapedInSync' /\ OrphanedInDrain' /\ AtRestInSync'
    BY <1>1 DEF GivingUp, QueueHeld, GivenUp, ReapedInSync, OrphanedInDrain, AtRestInSync
  <1>3. NothingQueued'
    BY <1>1 DEF GivingUp, NothingQueued, ThreadSuccess, ThreadAbort, AbortedDone
  <1>4. Emptied'
    <2> SUFFICES ASSUME queues = 0, \A p \in Procs : pc[p] \notin Dropping
                 PROVE  done' = <<>> /\ pending' = <<>> /\ ~Survivor'
      BY <1>1 DEF Emptied
    <2>1. done = <<>> /\ pending = <<>> /\ job[cur].orphan
      BY <1>1, NpuAssumption DEF GivingUp, Emptied, Survivor, TypeOK, QueueTypes
    <2>2. RetiredDone = done BY <2>1 DEF RetiredDone
    <2>3. CASE ThreadSuccess
      BY <2>1, <2>2, <2>3 DEF ThreadSuccess, Survivor
    <2>4. CASE ThreadAbort
      <3>1. done' = <<>> \o <<>> BY <2>1, <2>2, <2>4 DEF ThreadAbort, AbortedDone
      <3>2. <<>> \o <<>> = <<>> OBVIOUS
      <3> QED BY <2>4, <3>1, <3>2 DEF ThreadAbort, Survivor
    <2> QED BY <2>3, <2>4
  <1> QED BY <1>2, <1>3, <1>4 DEF GivingUp

\* The calls that change no job: queue_lock is free, so nobody destroys.
LEMMA GivingUpUse ==
  ASSUME IInv, NEW p \in Procs, UserStep(p) PROVE GivingUp'
  <1> USE DEF IInv
  <1>0. /\ pc \in [Procs -> Places] /\ queues \in Nat /\ call \in [Procs -> Calls]
        /\ pc[p] \in {"user", "closed"}
    BY DEF TypeOK, ProcTypes, UserTypes, UserStep, FopOpen, FopRelease, IocOpen,
           IocClose, IocReset, IocCreateQueue, IocDestroyQueue, IocSubmit, IocClrWfi,
           IocQuery
  <1>1. CASE \/ FopOpen(p) \/ FopRelease(p) \/ IocOpen(p) \/ IocClose(p) \/ IocReset(p)
             \/ IocClrWfi(p) \/ \E c \in {"wait", "query"}, id \in 1..MaxId : IocQuery(p, c, id)
    <2>1. /\ UNCHANGED <<job, cur, pending, done, queues, queueLock, reaped>>
          /\ UNCHANGED pc \/ \E l \in {"user", "closed", "takeq", "query"} :
                               pc' = [pc EXCEPT ![p] = l]
      BY <1>1 DEF FopOpen, FopRelease, IocOpen, IocClose, IocReset, IocClrWfi, IocQuery,
                  Goto, queueVars, userVars, lockVars, procVars
    <2>2. \A q \in Procs, l \in Destroying : pc'[q] = l <=> pc[q] = l
      BY <1>0, <2>1 DEF Destroying
    <2>3. Survivor' = Survivor BY <2>1 DEF Survivor
    <2>4. QueueHeld' /\ GivenUp'
      BY <2>1, <2>2 DEF GivingUp, QueueHeld, GivenUp
    <2>5. NothingQueued' /\ OrphanedInDrain'
      BY <2>1, <2>2, <2>3 DEF GivingUp, NothingQueued, OrphanedInDrain, Destroying
    <2>6. AtRestInSync' /\ ReapedInSync'
      BY <2>1, <2>2 DEF GivingUp, AtRestInSync, ReapedInSync, Destroying
    <2>7. Emptied'
      BY <2>1, <2>2, <2>3 DEF GivingUp, Emptied, Destroying, Dropping
    <2> QED BY <2>4, <2>5, <2>6, <2>7 DEF GivingUp
  <1>2. CASE IocCreateQueue(p) \/ IocDestroyQueue(p) \/ IocSubmit(p)
    <2>1. queueLock = Nobody /\ UNCHANGED reaped
      BY <1>2 DEF IocCreateQueue, IocDestroyQueue, IocSubmit, procVars
    <2>2. \A q \in Procs : pc[q] \notin Destroying
      BY <2>1, NpuAssumption DEF GivingUp, QueueHeld
    <2>3. reaped' = Nobody
      BY <2>1, <2>2 DEF GivingUp, ReapedInSync, Destroying
    <2>4. CASE IocCreateQueue(p)
      <3>1. queues' # 0 /\ UNCHANGED pc
        BY <1>0, <2>4 DEF IocCreateQueue, procVars
      <3> QED BY <2>2, <2>3, <3>1 DEF GivingUp, QueueHeld, GivenUp, NothingQueued,
                 OrphanedInDrain, AtRestInSync, ReapedInSync, Emptied, Destroying
    <2>5. CASE IocSubmit(p)
      <3>1. queues' # 0 /\ UNCHANGED pc
        BY <1>0, <2>5 DEF IocSubmit, Accepts, userVars, procVars
      <3> QED BY <2>2, <2>3, <3>1 DEF GivingUp, QueueHeld, GivenUp, NothingQueued,
                 OrphanedInDrain, AtRestInSync, ReapedInSync, Emptied, Destroying
    <2>6. CASE IocDestroyQueue(p) /\ queues' # 0
      <3>1. UNCHANGED pc BY <2>6 DEF IocDestroyQueue
      <3> QED BY <2>2, <2>3, <2>6, <3>1 DEF GivingUp, QueueHeld, GivenUp, NothingQueued,
                 OrphanedInDrain, AtRestInSync, ReapedInSync, Emptied, Destroying
    <2>7. CASE IocDestroyQueue(p) /\ queues' = 0
      <3>1. queueLock' = p /\ pc' = [pc EXCEPT ![p] = "drop"]
        BY <2>7 DEF IocDestroyQueue, Goto
      <3> QED BY <1>0, <2>2, <2>3, <2>7, <3>1 DEF GivingUp, QueueHeld, GivenUp,
                 NothingQueued, OrphanedInDrain, AtRestInSync, ReapedInSync, Emptied,
                 Destroying, Dropping
    <2> QED BY <1>2, <2>4, <2>5, <2>6, <2>7
  <1> QED BY <1>1, <1>2 DEF UserStep

\* The kernel steps that move a process and leave every job where it is.
LEMMA GivingUpMoves ==
  ASSUME IInv, NEW p \in Procs,
         \/ QueryUnready(p) \/ WaitWoken(p) \/ WaitTimeout(p) \/ DestroyGrace(p)
         \/ CloseEnd(p) \/ ReleaseEnd(p) \/ ResetFails(p)
  PROVE  GivingUp'
  <1> USE DEF IInv
  <1>0. pc \in [Procs -> Places] BY DEF TypeOK, ProcTypes
  <1>1. /\ UNCHANGED <<job, cur, pending, done, queues, reaped>>
        /\ UNCHANGED queueLock \/ pc[p] = "stop"
        /\ \E l \in {"user", "closed", "asleep", "query", "mark"} :
             /\ pc' = [pc EXCEPT ![p] = l]
             /\ l = "mark" <=> pc[p] = "grace"
        /\ pc[p] \in {"grace", "stop"} \/ pc[p] \notin Destroying
    BY DEF QueryUnready, WaitWoken, WaitTimeout, DestroyGrace, CloseEnd, ReleaseEnd,
           ResetFails, Goto, Return, queueVars, userVars, lockVars, Destroying
  <1>2. Survivor' = Survivor BY <1>1 DEF Survivor
  <1>3. /\ \A q \in Procs \ {p} : pc'[q] = pc[q]
        /\ \/ pc'[p] \in {"user", "closed", "asleep", "query"} /\ pc[p] # "grace"
           \/ pc'[p] = "mark" /\ pc[p] = "grace"
    BY <1>0, <1>1
  <1>4. QueueHeld'
    <2> SUFFICES ASSUME NEW q \in Procs, pc'[q] \in Destroying PROVE queueLock' = q
      BY DEF QueueHeld
    <2>1. CASE q = p
      BY <1>1, <1>3, <2>1 DEF Destroying, GivingUp, QueueHeld
    <2>2. CASE q # p /\ pc[p] \in Destroying
      BY <1>3, <2>2, OneDestroys DEF GivingUp
    <2>3. CASE q # p /\ pc[p] \notin Destroying
      BY <1>1, <1>3, <2>3 DEF GivingUp, QueueHeld, Destroying
    <2> QED BY <2>1, <2>2, <2>3
  <1>5. GivenUp' /\ NothingQueued'
    BY <1>1, <1>3 DEF GivingUp, GivenUp, NothingQueued, Destroying
  <1>6. OrphanedInDrain' /\ AtRestInSync'
    BY <1>1, <1>2, <1>3 DEF GivingUp, OrphanedInDrain, AtRestInSync
  <1>7. ReapedInSync'
    BY <1>1, <1>3 DEF GivingUp, ReapedInSync, Destroying
  <1>8. Emptied'
    BY <1>1, <1>2, <1>3 DEF GivingUp, Emptied, Destroying, Dropping
  <1> QED BY <1>4, <1>5, <1>6, <1>7, <1>8 DEF GivingUp

LEMMA GivingUpQuery ==
  ASSUME IInv, NEW p \in Procs, QueryReady(p) PROVE GivingUp'
  <1> USE DEF IInv
  <1>0. /\ pc \in [Procs -> Places] /\ pc[p] = "query" /\ pc' = [pc EXCEPT ![p] = "user"]
        /\ UNCHANGED <<cur, pending, queues, queueLock, reaped>>
        /\ \A q \in Procs : pc[q] # "drain"
    BY DEF TypeOK, ProcTypes, QueryReady, Return, StateLockFree, userVars, lockVars
  <1>1. \A q \in Procs, l \in Destroying : pc'[q] = l <=> pc[q] = l
    BY <1>0 DEF Destroying
  <1>2. QueueHeld' /\ GivenUp' /\ NothingQueued'
    BY <1>0, <1>1 DEF GivingUp, QueueHeld, GivenUp, NothingQueued, Destroying
  <1>3. OrphanedInDrain' /\ AtRestInSync' /\ ReapedInSync'
    BY <1>0, <1>1 DEF GivingUp, OrphanedInDrain, AtRestInSync, ReapedInSync, Destroying
  <1>4. Emptied'
    <2> SUFFICES ASSUME queues = 0, \A q \in Procs : pc[q] \notin Dropping
                 PROVE  done' = <<>> /\ pending' = <<>> /\ ~Survivor'
      BY <1>0, <1>1 DEF Emptied, Destroying, Dropping
    <2>1. done = <<>> /\ pending = <<>> /\ ~Survivor BY DEF GivingUp, Emptied
    <2>2. UNCHANGED <<job, done>> BY <2>1 DEF QueryReady, IsCollected
    <2> QED BY <1>0, <2>1, <2>2 DEF Survivor
  <1> QED BY <1>2, <1>3, <1>4 DEF GivingUp

LEMMA GivingUpDrop ==
  ASSUME IInv, NEW p \in Procs, DropQueues(p) PROVE GivingUp'
  <1> USE DEF IInv
  <1>0. /\ pc \in [Procs -> Places] /\ pc[p] = "takeq" /\ queueLock = Nobody
        /\ queues \in Nat /\ queues' = 0
        /\ UNCHANGED <<job, cur, pending, done, reaped>>
        /\ \/ queues > 0 /\ queueLock' = p /\ pc' = [pc EXCEPT ![p] = "drop"]
           \/ queues = 0 /\ queueLock' = p /\ pc' = [pc EXCEPT ![p] = "stop"]
           \/ queues = 0 /\ pc' = [pc EXCEPT ![p] = "hwclose"]
    BY DEF TypeOK, ProcTypes, UserTypes, DropQueues, Goto, queueVars
  <1>1. \A q \in Procs : pc[q] \notin Destroying
    BY <1>0, NpuAssumption DEF GivingUp, QueueHeld
  <1>2. reaped' = Nobody BY <1>0, <1>1 DEF GivingUp, ReapedInSync, Destroying
  <1>3. \A q \in Procs \ {p} : pc'[q] \notin Destroying
    BY <1>0, <1>1
  <1>4. QueueHeld' /\ GivenUp' BY <1>0, <1>3 DEF QueueHeld, GivenUp, Destroying
  <1>5. NothingQueued' /\ OrphanedInDrain' /\ AtRestInSync' /\ ReapedInSync'
    BY <1>0, <1>2, <1>3 DEF NothingQueued, OrphanedInDrain, AtRestInSync, ReapedInSync,
       Destroying
  <1>6. Emptied'
    <2>1. CASE queues > 0
      BY <1>0, <2>1 DEF Emptied, Dropping
    <2>2. CASE queues = 0
      <3>1. done = <<>> /\ pending = <<>> /\ ~Survivor
        BY <1>1, <2>2 DEF GivingUp, Emptied, Destroying, Dropping
      <3> QED BY <1>0, <3>1 DEF Emptied, Survivor
    <2> QED BY <1>0, <2>1, <2>2
  <1> QED BY <1>4, <1>5, <1>6 DEF GivingUp

\* A step of the process that holds queue_lock, from one place to another.
LEMMA GivingUpHolder ==
  ASSUME IInv, NEW p \in Procs, NEW l \in Places, pc[p] \in Destroying,
         pc' = [pc EXCEPT ![p] = l],
         l \in Destroying => queueLock' = p, queues' = queues,
         l \in {"grace", "mark", "drain"} => pending' = <<>>,
         l = "drain" => ~Survivor',
         l = "sync" => cur' = Nobody,
         l = "sync" \/ reaped' = Nobody,
         l \notin Dropping => done' = <<>> /\ pending' = <<>> /\ ~Survivor'
  PROVE  GivingUp'
  <1> USE DEF IInv
  <1>0. pc \in [Procs -> Places] BY DEF TypeOK, ProcTypes
  <1>1. pc'[p] = l /\ \A q \in Procs \ {p} : pc'[q] \notin Destroying
    BY <1>0, OneDestroys DEF GivingUp
  <1>2. QueueHeld' BY <1>1 DEF QueueHeld
  <1>3. queues = 0 BY DEF GivingUp, GivenUp
  <1>4. GivenUp' BY <1>3 DEF GivenUp
  <1>5. NothingQueued' /\ OrphanedInDrain' /\ AtRestInSync' /\ ReapedInSync'
    BY <1>1 DEF NothingQueued, OrphanedInDrain, AtRestInSync, ReapedInSync, Destroying
  <1>6. Emptied' BY <1>1 DEF Emptied
  <1> QED BY <1>2, <1>4, <1>5, <1>6 DEF GivingUp

LEMMA GivingUpDestroy ==
  ASSUME IInv, NEW p \in Procs, DestroyPending(p) \/ DestroyMark(p) \/ DestroyDrain(p)
  PROVE  GivingUp'
  <1> USE DEF IInv
  <1>0. /\ pc \in [Procs -> Places] /\ pc[p] \in Destroying /\ queueLock = p
        /\ reaped = Nobody /\ UNCHANGED <<queues, reaped>>
        /\ job \in [Jobs -> JobType] /\ cur \in Jobs \cup {Nobody}
    <2>1. pc[p] \in Dropping /\ UNCHANGED <<queues, reaped>>
      BY DEF DestroyPending, DestroyMark, DestroyDrain, Dropping, userVars
    <2>2. reaped = Nobody
      BY <2>1, OneDestroys DEF GivingUp, ReapedInSync, Dropping, Destroying
    <2> QED BY <2>1, <2>2 DEF TypeOK, ProcTypes, QueueTypes, GivingUp, QueueHeld,
               Dropping, Destroying
  <1>1. CASE DestroyPending(p)
    <2>1. PICK l \in {"grace", "mark"} : pc' = [pc EXCEPT ![p] = l]
      BY <1>1 DEF DestroyPending, Goto
    <2>2. pending' = <<>> /\ queueLock' = p
      BY <1>0, <1>1 DEF DestroyPending, lockVars
    <2> QED BY <1>0, <2>1, <2>2, GivingUpHolder DEF Places, Dropping
  <1>2. ASSUME NEW jobs, DestroyEnd(p, jobs), UNCHANGED <<cur, pending>>,
               pending = <<>>, cur # Nobody => jobs[cur].orphan
        PROVE  GivingUp'
    <2>1. PICK l \in {"user", "stop", "hwclose"} :
            pc' = [pc EXCEPT ![p] = l] /\ (l = "stop" => queueLock' = p)
      BY <1>0, <1>2 DEF DestroyEnd, Return, Goto, QueueLockAfter
    <2>2. done' = <<>> /\ cur' = cur /\ cur \notin Elems(done)
          /\ job' = [j \in Jobs |-> IF j \in Elems(done) THEN NoMemory ELSE jobs[j]]
      BY <1>2 DEF DestroyEnd, JobsAccounted
    <2>3. ~Survivor' BY <1>0, <1>2, <2>2 DEF Survivor
    <2> QED BY <1>0, <1>2, <2>1, <2>2, <2>3, GivingUpHolder
            DEF Places, Destroying, Dropping
  <1>3. CASE DestroyMark(p)
    <2> DEFINE marked == IF Survivor THEN [job EXCEPT ![cur].orphan = TRUE] ELSE job
    <2>1. cur # Nobody => marked[cur].orphan
      BY <1>0 DEF Survivor, JobType
    <2>2. pending = <<>> /\ UNCHANGED <<cur, pending>>
      BY <1>3 DEF DestroyMark, GivingUp, NothingQueued
    <2>3. CASE MustDrain
      <3>1. job' = marked /\ pc' = [pc EXCEPT ![p] = "drain"] /\ queueLock' = p
        BY <1>0, <1>3, <2>3 DEF DestroyMark, Goto
      <3>2. ~Survivor' BY <2>1, <2>2, <3>1 DEF Survivor
      <3> QED BY <1>0, <2>2, <3>1, <3>2, GivingUpHolder DEF Places, Dropping
    <2>4. CASE ~MustDrain
      <3>1. DestroyEnd(p, marked) BY <1>3, <2>4 DEF DestroyMark
      <3> HIDE DEF marked
      <3> QED BY <1>2, <2>1, <2>2, <3>1
    <2> QED BY <2>3, <2>4
  <1>4. CASE DestroyDrain(p)
    <2>1. pending = <<>> /\ (cur # Nobody => job[cur].orphan)
      BY <1>4 DEF DestroyDrain, GivingUp, NothingQueued, OrphanedInDrain, Survivor
    <2>2. DestroyEnd(p, job) /\ UNCHANGED <<cur, pending>> BY <1>4 DEF DestroyDrain
    <2> QED BY <1>2, <2>1, <2>2
  <1> QED BY <1>1, <1>3, <1>4

LEMMA GivingUpReset ==
  ASSUME IInv, NEW p \in Procs, ResetStop(p) \/ ResetEnd(p)
  PROVE  GivingUp'
  <1> USE DEF IInv
  <1>0. /\ pc[p] \in {"stop", "sync"} /\ queueLock = p /\ queues = 0
        /\ done = <<>> /\ pending = <<>> /\ ~Survivor
        /\ UNCHANGED <<pending, done, queues>>
    <2>1. pc[p] \in {"stop", "sync"} /\ UNCHANGED <<pending, done, queues>>
      BY DEF ResetStop, ResetEnd, userVars
    <2>2. queueLock = p /\ queues = 0
      BY <2>1 DEF GivingUp, QueueHeld, GivenUp, Destroying
    <2>3. \A q \in Procs : pc[q] \notin Dropping
      BY <2>1, OneDestroys DEF GivingUp, Dropping, Destroying
    <2> QED BY <2>1, <2>2, <2>3 DEF GivingUp, Emptied
  <1>1. CASE ResetStop(p)
    <2>1. /\ cur' = Nobody /\ pc' = [pc EXCEPT ![p] = "sync"] /\ queueLock' = p
      BY <1>0, <1>1 DEF ResetStop, NeedsReset, Goto, lockVars
    <2> QED BY <1>0, <2>1, GivingUpHolder DEF Places, Destroying, Dropping, Survivor
  <1>2. CASE ResetEnd(p)
    <2>1. /\ cur = Nobody /\ cur' = cur /\ pc' = [pc EXCEPT ![p] = "user"]
          /\ reaped' = Nobody
      BY <1>2 DEF ResetEnd, Return, GivingUp, AtRestInSync
    <2> QED BY <1>0, <2>1, GivingUpHolder DEF Places, Destroying, Dropping, Survivor
  <1> QED BY <1>1, <1>2

-----------------------------------------------------------------------------
(* The theorems *)

LEMMA IdleHasNoneNext == ASSUME IInv, [Next]_vars PROVE IdleHasNone'
  <1> USE DEF IInv, IdleHasNone
  <1>1. ASSUME NEW p \in Procs, UserStep(p) PROVE IdleHasNone'
    BY <1>1 DEF UserStep, FopOpen, FopRelease, IocOpen, IocClose, IocReset,
       IocCreateQueue, IocDestroyQueue, IocSubmit, IocClrWfi, IocQuery, queueVars
  <1>2. ASSUME NEW p \in Procs, KernelStep(p) \/ WaitTimeout(p) PROVE IdleHasNone'
    BY <1>2 DEF KernelStep, WaitTimeout, QueryReady, QueryUnready, WaitWoken,
       DropQueues, DestroyPending, DestroyGrace, DestroyMark, DestroyDrain, CloseEnd,
       ReleaseEnd, ResetStop, ResetFails, ResetEnd, queueVars
  <1>3. CASE HardIrq \/ IrqThread \/ \E e \in Events : NpuEvent(e)
    BY <1>3 DEF HardIrq, HardIrqEnter, HardIrqNote, HardIrqAbort, IrqThread,
       ThreadSpurious, ThreadSuccess, ThreadAbort, ThreadStopped, NpuEvent, queueVars
  <1> QED BY <1>1, <1>2, <1>3 DEF Next, Events, vars, queueVars

LEMMA IInvNext == ASSUME IInv, [Next]_vars PROVE IInv'
  <1>1. TypeOK' BY TypeNext DEF IInv
  <1>2. JobsAccounted' BY AccountedNext
  <1>3. IdleHasNone' BY IdleHasNoneNext
  <1>4. GivingUp'
    <2>1. CASE HardIrq BY <2>1, GivingUpIrq
    <2>2. CASE ThreadSuccess \/ ThreadAbort BY <2>2, GivingUpThread
    <2>3. CASE \/ ThreadSpurious \/ ThreadStopped \/ UNCHANGED vars
               \/ \E e \in Events : NpuEvent(e)
      BY <2>3, GivingUpSame DEF IInv, ThreadSpurious, ThreadStopped, NpuEvent, vars,
         queueVars, userVars, lockVars, procVars
    <2>4. ASSUME NEW p \in Procs, UserStep(p) PROVE GivingUp' BY <2>4, GivingUpUse
    <2>5. ASSUME NEW p \in Procs, KernelStep(p) \/ WaitTimeout(p) PROVE GivingUp'
      BY <2>5, GivingUpMoves, GivingUpQuery, GivingUpDrop, GivingUpDestroy, GivingUpReset
         DEF KernelStep
    <2> QED BY <2>1, <2>2, <2>3, <2>4, <2>5 DEF Next, IrqThread, Events
  <1> QED BY <1>1, <1>2, <1>3, <1>4 DEF IInv

LEMMA IInvAlways == Spec => []IInv
  BY IInvInit, IInvNext, PTL DEF Spec

\* However many processes share /dev/npu.0, no struct npu_job is lost or freed
\* twice (npu_retire, npu_collect, npu_destroy_queue, NPU_IOC_RESET).
THEOREM JobsAccountedFor == Spec => []JobsAccounted
  <1>1. IInv => JobsAccounted BY DEF IInv
  <1> QED BY <1>1, IInvAlways, PTL

\* However many processes share /dev/npu.0, no job outlives the last queue but
\* as an orphan (npu_destroy_queue, npu_drop_queues).
THEOREM NothingOutlivesQueue == Spec => []EmptyWithoutQueue
  <1>1. IInv => EmptyWithoutQueue
    <2> SUFFICES ASSUME IInv, queues = 0, queueLock = Nobody PROVE Line = <<>>
      BY DEF EmptyWithoutQueue
    <2>1. \A p \in Procs : pc[p] \notin Dropping
      BY NpuAssumption DEF IInv, GivingUp, QueueHeld, Dropping, Destroying
    <2>2. done = <<>> /\ pending = <<>> /\ ~Survivor
      BY <2>1 DEF IInv, GivingUp, Emptied
    <2>3. <<>> \o <<>> \o <<>> = <<>> OBVIOUS
    <2> QED BY <2>2, <2>3 DEF Line, Survivor
  <1> QED BY <1>1, IInvAlways, PTL
=============================================================================
