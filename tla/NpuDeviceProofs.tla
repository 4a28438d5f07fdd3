-------------------------- MODULE NpuDeviceProofs --------------------------
(***************************************************************************)
(* Proofs about the device the NPU driver makes of its jobs.  They stay in  *)
(* the order they were submitted in; who waits for one hears of it; state,  *)
(* running job and engine agree, and the hard handler, which takes no lock, *)
(* meets no freed job (on one core, or if an engine that reported an error  *)
(* is silent); and the driver implements one line of jobs.                  *)
(***************************************************************************)
EXTENDS NpuProofs, NpuRefines

-----------------------------------------------------------------------------
(* Ids that rise along a list, and along two lists one after the other. *)

Rising(s, f)   == \A i, k \in 1..Len(s) : i < k => f[s[i]].id < f[s[k]].id
Below(S, T, f) == \A a \in S, b \in T : f[a].id < f[b].id

LEMMA RisingNone == ASSUME NEW f PROVE Rising(<<>>, f)
  BY DEF Rising

LEMMA RisingSame ==
  ASSUME NEW S, NEW s \in Seq(S), NEW f, NEW g, Rising(s, f),
         \A j \in Elems(s) : g[j].id = f[j].id
  PROVE  Rising(s, g)
  <1>1. \A i \in 1..Len(s) : g[s[i]].id = f[s[i]].id BY DEF Elems
  <1> QED BY <1>1 DEF Rising

LEMMA RisingConcat ==
  ASSUME NEW S, NEW s \in Seq(S), NEW t \in Seq(S), NEW f,
         Rising(s, f), Rising(t, f), Below(Elems(s), Elems(t), f)
  PROVE  Rising(s \o t, f)
  <1> DEFINE u == s \o t
  <1>1. /\ Len(u) = Len(s) + Len(t) /\ Len(s) \in Nat /\ Len(t) \in Nat
        /\ \A i \in 1..Len(s) : u[i] = s[i]
        /\ \A i \in 1..Len(u) : i \notin 1..Len(s) =>
             i - Len(s) \in 1..Len(t) /\ u[i] = t[i - Len(s)]
    OBVIOUS
  <1> HIDE DEF u
  <1> SUFFICES ASSUME NEW i \in 1..Len(u), NEW k \in 1..Len(u), i < k
               PROVE  f[u[i]].id < f[u[k]].id
    BY DEF Rising, u
  <1>2. CASE k \in 1..Len(s)
    BY <1>1, <1>2 DEF Rising
  <1>3. CASE i \notin 1..Len(s)
    <2>1. i - Len(s) \in 1..Len(t) /\ k - Len(s) \in 1..Len(t) /\ i - Len(s) < k - Len(s)
      BY <1>1, <1>3
    <2>2. f[t[i - Len(s)]].id < f[t[k - Len(s)]].id BY <2>1 DEF Rising
    <2>3. k \notin 1..Len(s) BY <1>1, <1>3
    <2> QED BY <1>1, <1>3, <2>2, <2>3
  <1>4. CASE i \in 1..Len(s) /\ k \notin 1..Len(s)
    <2>1. u[i] \in Elems(s) /\ u[k] \in Elems(t) BY <1>1, <1>4 DEF Elems
    <2> QED BY <2>1 DEF Below
  <1> QED BY <1>2, <1>3, <1>4

LEMMA RisingOne == ASSUME NEW x, NEW f PROVE Rising(<<x>>, f) /\ Elems(<<x>>) = {x}
  BY DEF Rising, Elems

LEMMA RisingAppend ==
  ASSUME NEW S, NEW s \in Seq(S), NEW x \in S, NEW f,
         Rising(s, f), Below(Elems(s), {x}, f)
  PROVE  Rising(Append(s, x), f)
  <1>1. Append(s, x) = s \o <<x>> /\ <<x>> \in Seq(S) OBVIOUS
  <1>2. Rising(<<x>>, f) /\ Elems(<<x>>) = {x} BY RisingOne
  <1> HIDE DEF Rising, Below
  <1>3. Rising(s \o <<x>>, f) BY <1>1, <1>2, RisingConcat
  <1> QED BY <1>1, <1>3

LEMMA RisingFirst ==
  ASSUME NEW S, NEW s \in Seq(S), s # <<>>, NEW f, Rising(s, f)
  PROVE  Rising(Tail(s), f) /\ Below({Head(s)}, Elems(Tail(s)), f)
  <1> DEFINE t == Tail(s)
  <1>1. /\ Len(t) = Len(s) - 1 /\ Head(s) = s[1] /\ Len(s) \in Nat \ {0}
        /\ \A i \in 1..Len(t) : t[i] = s[i + 1]
    OBVIOUS
  <1> HIDE DEF t
  <1>2. Rising(t, f) BY <1>1 DEF Rising
  <1>3. Below({Head(s)}, Elems(t), f) BY <1>1 DEF Rising, Below, Elems
  <1> QED BY <1>2, <1>3 DEF t

LEMMA DropPoints ==
  ASSUME NEW S, NEW s \in Seq(S), NEW i \in 1..Len(s)
  PROVE  /\ DropAt(s, i) \in Seq(S) /\ Len(DropAt(s, i)) = Len(s) - 1 /\ Len(s) \in Nat
         /\ \A k \in 1..(Len(s) - 1) : DropAt(s, i)[k] = IF k < i THEN s[k] ELSE s[k + 1]
  <1> DEFINE d == DropAt(s, i)
             a == SubSeq(s, 1, i - 1)
             b == SubSeq(s, i + 1, Len(s))
  <1>1. a \in Seq(S) /\ Len(a) = i - 1 /\ \A k \in 1..Len(a) : a[k] = s[k]
    OBVIOUS
  <1>2. b \in Seq(S) /\ Len(b) = Len(s) - i /\ \A k \in 1..Len(b) : b[k] = s[k + i]
    OBVIOUS
  <1>3. d = a \o b BY DEF DropAt
  <1> HIDE DEF a, b, d
  <1>4. Len(d) = Len(s) - 1 /\ Len(s) \in Nat /\ d \in Seq(S) BY <1>1, <1>2, <1>3
  <1>5. ASSUME NEW k \in 1..Len(d) PROVE d[k] = IF k < i THEN s[k] ELSE s[k + 1]
    <2>1. CASE k < i
      BY <1>1, <1>2, <1>3, <1>4, <2>1
    <2>2. CASE k >= i
      <3>1. k - (i - 1) \in 1..Len(b) /\ d[k] = b[k - (i - 1)]
        BY <1>1, <1>2, <1>3, <1>4, <2>2
      <3> QED BY <1>2, <2>2, <3>1
    <2> QED BY <2>1, <2>2
  <1> QED BY <1>4, <1>5 DEF d

LEMMA RisingDrop ==
  ASSUME NEW S, NEW s \in Seq(S), NEW i \in 1..Len(s), NEW f, Rising(s, f)
  PROVE  Rising(DropAt(s, i), f)
  <1> DEFINE d == DropAt(s, i)
  <1>1. /\ Len(d) = Len(s) - 1 /\ Len(s) \in Nat
        /\ \A k \in 1..Len(d) : d[k] = IF k < i THEN s[k] ELSE s[k + 1]
    BY DropPoints
  <1> HIDE DEF d
  <1> QED BY <1>1 DEF Rising, d

-----------------------------------------------------------------------------
(* The order of the jobs *)

\* InOrder said of the three parts of the line.
Ordered ==
  /\ Rising(done, job) /\ Rising(pending, job)
  /\ Below(Elems(done), Elems(pending), job)
  /\ \A j \in Elems(done) \cup Elems(pending) : job[j].id <= lastId
  /\ Survivor => /\ Below(Elems(done), {cur}, job) /\ Below({cur}, Elems(pending), job)
                 /\ job[cur].id <= lastId

\* What waits belongs to a queue, and an idle device has nothing waiting: the
\* job a submission starts at once overtakes none.
WaitsBehind ==
  /\ state = "IDLE" => pending = <<>>
  /\ \A j \in Elems(pending) : ~job[j].orphan

OInv == IInv /\ Ordered /\ WaitsBehind

\* Steps that leave a part of the line as it was.
LEMMA OrderedSame ==
  ASSUME IInv, Ordered, cur' = cur, lastId' = lastId, Survivor' => Survivor,
         done' \in Seq(Jobs), Rising(done', job), Elems(done') \subseteq Elems(done),
         pending' \in Seq(Jobs), pending' \in {pending, <<>>},
         \A j \in Elems(done') \cup Elems(pending') : job'[j].id = job[j].id,
         Survivor' => job'[cur].id = job[cur].id
  PROVE  Ordered'
  <1>1. Rising(done', job') BY RisingSame
  <1>2. pending \in Seq(Jobs) BY DEF IInv, TypeOK, QueueTypes
  <1>3. Rising(pending', job) /\ Elems(pending') \subseteq Elems(pending)
    BY RisingNone, ElemsNone DEF Ordered
  <1>4. Rising(pending', job') BY <1>3, RisingSame
  <1>5. Below(Elems(done'), Elems(pending'), job') BY <1>3 DEF Ordered, Below
  <1>6. \A j \in Elems(done') \cup Elems(pending') : job'[j].id <= lastId'
    BY <1>3 DEF Ordered
  <1>7. Survivor' => /\ Below(Elems(done'), {cur'}, job') /\ Below({cur'}, Elems(pending'), job')
                     /\ job'[cur'].id <= lastId'
    BY <1>3 DEF Ordered, Below
  <1> QED BY <1>1, <1>4, <1>5, <1>6, <1>7 DEF Ordered

\* What a step of the hard handler does to the jobs: it may give one another
\* state.
LEMMA IrqKeepsJobs ==
  ASSUME TypeOK, HardIrqNote \/ HardIrqAbort
  PROVE  /\ \A j \in Jobs : job'[j].id = job[j].id /\ job'[j].orphan = job[j].orphan
         /\ \A j \in Jobs : j # irq.job => job'[j] = job[j]
         /\ UNCHANGED <<cur, pending, done, lastId, queues, reaped>>
  <1>1. job \in [Jobs -> JobType] BY DEF TypeOK, QueueTypes
  <1>2. CASE HardIrqNote
    BY <1>1, <1>2 DEF HardIrqNote, JobType, userVars, procVars
  <1>3. CASE HardIrqAbort
    BY <1>1, <1>3 DEF HardIrqAbort, JobType, userVars, procVars
  <1> QED BY <1>2, <1>3

LEMMA OrderedIrq ==
  ASSUME OInv, HardIrqNote \/ HardIrqAbort PROVE Ordered'
  <1> USE DEF OInv
  <1>1. /\ pending \in Seq(Jobs) /\ done \in Seq(Jobs) /\ cur \in Jobs \cup {Nobody}
        /\ TypeOK /\ Elems(pending) \subseteq Jobs /\ Elems(done) \subseteq Jobs
    BY ElemsIn DEF IInv, TypeOK, QueueTypes
  <1>2. /\ UNCHANGED <<cur, pending, done, lastId>>
        /\ \A j \in Jobs : job'[j].id = job[j].id /\ job'[j].orphan = job[j].orphan
    BY <1>1, IrqKeepsJobs
  <1>3. (Survivor' => Survivor) /\ (Survivor => cur \in Jobs) BY <1>1, <1>2 DEF Survivor
  <1>4. Rising(done, job) BY DEF Ordered
  <1> QED BY <1>1, <1>2, <1>3, <1>4, OrderedSame

\* What the interrupt thread does to the jobs when one has ended.
LEMMA ThreadKeepsJobs ==
  ASSUME IInv, ThreadSuccess \/ ThreadAbort
  PROVE  /\ cur \in Jobs /\ job \in [Jobs -> JobType]
         /\ done \in Seq(Jobs) /\ pending \in Seq(Jobs)
         /\ UNCHANGED <<lastId, queues, reaped>>
         /\ RetiredDone = IF Survivor THEN Append(done, cur) ELSE done
         /\ \A j \in Jobs : j # cur \/ Survivor =>
              job'[j].id = job[j].id /\ job'[j].orphan = job[j].orphan
  <1>1. /\ cur \in Jobs /\ job \in [Jobs -> JobType] /\ cur # Nobody
        /\ done \in Seq(Jobs) /\ pending \in Seq(Jobs)
        /\ UNCHANGED <<lastId, queues, reaped>>
    BY DEF IInv, TypeOK, QueueTypes, ThreadSuccess, ThreadAbort, AbortedDone, userVars
  <1>2. RetiredDone = IF Survivor THEN Append(done, cur) ELSE done
    BY <1>1 DEF RetiredDone, Survivor
  <1>3. RetiredJobs \in [Jobs -> JobType]
    BY <1>1, RetiredTypes DEF IInv, TypeOK
  <1>4. \A j \in Jobs : j # cur \/ Survivor => RetiredJobs[j] = job[j]
    BY <1>1 DEF RetiredJobs, Free, Survivor
  <1>5. \A j \in Jobs : job'[j].id = RetiredJobs[j].id /\ job'[j].orphan = RetiredJobs[j].orphan
    <2>1. CASE ThreadAbort
      <3>1. job' = [j \in Jobs |-> IF j \in Elems(pending)
                                  THEN [RetiredJobs[j] EXCEPT !.st = "abort"]
                                  ELSE RetiredJobs[j]]
        BY <2>1 DEF ThreadAbort
      <3> QED BY <1>3, <3>1 DEF JobType
    <2>2. CASE ThreadSuccess /\ pending = <<>>
      BY <2>2 DEF ThreadSuccess
    <2>3. CASE ThreadSuccess /\ pending # <<>>
      <3>1. job' = [RetiredJobs EXCEPT ![Head(pending)].st = "process"]
        BY <2>3 DEF ThreadSuccess
      <3>2. Head(pending) \in Jobs BY <1>1, <2>3
      <3> QED BY <1>3, <3>1, <3>2 DEF JobType
    <2> QED BY <2>1, <2>2, <2>3
  <1> QED BY <1>1, <1>2, <1>4, <1>5

LEMMA OrderedThread ==
  ASSUME OInv, ThreadSuccess \/ ThreadAbort PROVE Ordered'
  <1> USE DEF OInv
  <1>1. /\ cur \in Jobs /\ job \in [Jobs -> JobType]
        /\ done \in Seq(Jobs) /\ pending \in Seq(Jobs) /\ lastId' = lastId
        /\ RetiredDone = IF Survivor THEN Append(done, cur) ELSE done
    BY ThreadKeepsJobs
  <1>2. /\ Elems(done) \subseteq Jobs \ {cur} /\ Elems(pending) \subseteq Jobs \ {cur}
    BY <1>1, ElemsIn DEF IInv, JobsAccounted
  <1>3. \A j \in Jobs : j # cur \/ Survivor => job'[j].id = job[j].id
    BY ThreadKeepsJobs
  <1> DEFINE D == RetiredDone
  <1>4. /\ D \in Seq(Jobs) /\ Rising(D, job) /\ Below(Elems(D), Elems(pending), job)
        /\ \A j \in Elems(D) : job'[j].id = job[j].id /\ job[j].id <= lastId
    <2>1. CASE Survivor
      <3>1. D = Append(done, cur) BY <1>1, <2>1
      <3>2. Elems(D) = Elems(done) \cup {cur} BY <1>1, <3>1, ElemsAppend
      <3>3. Rising(D, job) BY <1>1, <2>1, <3>1, RisingAppend DEF Ordered
      <3>4. Below(Elems(D), Elems(pending), job) BY <2>1, <3>2 DEF Ordered, Below
      <3> QED BY <1>1, <1>2, <1>3, <2>1, <3>1, <3>2, <3>3, <3>4 DEF Ordered
    <2>2. CASE ~Survivor
      BY <1>1, <1>2, <1>3, <2>2 DEF Ordered
    <2> QED BY <2>1, <2>2
  <1> HIDE DEF D
  <1>5. CASE ThreadAbort
    <2>1. done' = D \o pending /\ pending' = <<>> /\ cur' = Nobody
      BY <1>5 DEF ThreadAbort, AbortedDone, D
    <2>2. Rising(done', job) BY <1>1, <1>4, <2>1, RisingConcat DEF Ordered
    <2>3. done' \in Seq(Jobs) /\ Elems(done') = Elems(D) \cup Elems(pending)
      BY <1>1, <1>4, <2>1, ElemsConcat
    <2>4. \A j \in Elems(done') : job'[j].id = job[j].id /\ job[j].id <= lastId
      BY <1>2, <1>3, <1>4, <2>3 DEF Ordered
    <2>5. Rising(done', job') BY <2>2, <2>3, <2>4, RisingSame
    <2> QED BY <1>1, <2>1, <2>4, <2>5, RisingNone, ElemsNone DEF Ordered, Below, Survivor
  <1>6. CASE ThreadSuccess /\ pending = <<>>
    <2>1. done' = D /\ pending' = <<>> /\ cur' = Nobody
      BY <1>6 DEF ThreadSuccess, D
    <2>2. Rising(done', job') BY <1>4, <2>1, RisingSame
    <2> QED BY <1>1, <1>4, <2>1, <2>2, RisingNone, ElemsNone DEF Ordered, Below, Survivor
  <1>7. CASE ThreadSuccess /\ pending # <<>>
    <2>1. done' = D /\ pending' = Tail(pending) /\ cur' = Head(pending)
      BY <1>7 DEF ThreadSuccess, D
    <2>2. /\ Tail(pending) \in Seq(Jobs) /\ Elems(pending) = {cur'} \cup Elems(pending')
          /\ Rising(pending', job) /\ Below({cur'}, Elems(pending'), job)
      BY <1>1, <1>7, <2>1, ElemsFirst, RisingFirst DEF Ordered
    <2>3. \A j \in Elems(pending) : job'[j].id = job[j].id /\ job[j].id <= lastId
      BY <1>2, <1>3 DEF Ordered
    <2>4. Rising(done', job') /\ Rising(pending', job')
      BY <1>4, <2>1, <2>2, <2>3, RisingSame
    <2>5. /\ Below(Elems(done'), Elems(pending'), job') /\ Below(Elems(done'), {cur'}, job')
          /\ Below({cur'}, Elems(pending'), job')
      BY <1>4, <2>1, <2>2, <2>3 DEF Below
    <2> QED BY <1>1, <1>4, <2>1, <2>2, <2>3, <2>4, <2>5 DEF Ordered
  <1> QED BY <1>5, <1>6, <1>7

\* The two ways a job is submitted, and that its memory was nobody's.
LEMMA SubmitEffect ==
  ASSUME IInv, NEW p \in Procs, IocSubmit(p)
  PROVE  \E j \in Jobs :
           /\ j \notin Elems(done) \cup Elems(pending) \cup {cur, reaped}
           /\ \A k \in Jobs \ {j} : job'[k] = job[k]
           /\ job'[j].id = lastId + 1 /\ ~job'[j].orphan
           /\ \/ /\ state = "IDLE" /\ cur = Nobody /\ cur' = j /\ pending' = pending
                 /\ job'[j].st = "process" /\ state' = "BUSY" /\ hw' = HwStart(hw)
              \/ /\ state = "BUSY" /\ cur' = cur /\ pending' = Append(pending, j)
                 /\ job'[j].st = "pend" /\ UNCHANGED <<state, hw>>
           /\ lastId' = lastId + 1 /\ lastId < MaxId /\ UNCHANGED <<done, queues, reaped>>
  <1>1. PICK j \in Jobs :
          /\ ~Live(j)
          /\ \/ /\ state = "IDLE" /\ cur' = j /\ UNCHANGED pending
                /\ job' = [job EXCEPT ![j] = [id |-> lastId + 1, st |-> "process",
                                              orphan |-> FALSE]]
                /\ state' = "BUSY" /\ hw' = HwStart(hw)
             \/ /\ state = "BUSY" /\ pending' = Append(pending, j) /\ UNCHANGED cur
                /\ job' = [job EXCEPT ![j] = [id |-> lastId + 1, st |-> "pend",
                                              orphan |-> FALSE]]
                /\ UNCHANGED <<state, hw>>
    BY DEF IocSubmit, Queued
  <1>2. /\ job \in [Jobs -> JobType] /\ lastId' = lastId + 1 /\ lastId < MaxId
        /\ UNCHANGED <<done, queues, reaped>>
        /\ state = "IDLE" => cur = Nobody
    BY DEF IInv, TypeOK, QueueTypes, IocSubmit, Queued, userVars, procVars, IdleHasNone
  <1>3. j \notin Elems(done) \cup Elems(pending) \cup {cur, reaped}
    BY <1>1, NpuAssumption DEF IInv, JobsAccounted
  <1>4. \A k \in Jobs \ {j} : job'[k] = job[k]
    BY <1>1, <1>2
  <1>5. job'[j].id = lastId + 1 /\ ~job'[j].orphan
    BY <1>1, <1>2
  <1>6. \/ /\ state = "IDLE" /\ cur = Nobody /\ cur' = j /\ pending' = pending
           /\ job'[j].st = "process" /\ state' = "BUSY" /\ hw' = HwStart(hw)
        \/ /\ state = "BUSY" /\ cur' = cur /\ pending' = Append(pending, j)
           /\ job'[j].st = "pend" /\ UNCHANGED <<state, hw>>
    BY <1>1, <1>2
  <1> QED BY <1>2, <1>3, <1>4, <1>5, <1>6

LEMMA OrderedSubmit ==
  ASSUME OInv, NEW p \in Procs, IocSubmit(p) PROVE Ordered'
  <1> USE DEF OInv
  <1>1. PICK j \in Jobs :
           /\ j \notin Elems(done) \cup Elems(pending) \cup {cur, reaped}
           /\ \A k \in Jobs \ {j} : job'[k] = job[k]
           /\ job'[j].id = lastId + 1 /\ ~job'[j].orphan
           /\ \/ state = "IDLE" /\ cur = Nobody /\ cur' = j /\ pending' = pending
              \/ state = "BUSY" /\ cur' = cur /\ pending' = Append(pending, j)
           /\ lastId' = lastId + 1 /\ done' = done
    BY SubmitEffect
  <1>2. /\ done \in Seq(Jobs) /\ pending \in Seq(Jobs) /\ cur \in Jobs \cup {Nobody}
        /\ lastId \in Nat /\ \A k \in Jobs : job[k].id \in Nat
        /\ Elems(done) \subseteq Jobs \ {j} /\ Elems(pending) \subseteq Jobs \ {j}
    BY <1>1, ElemsIn DEF IInv, TypeOK, QueueTypes, JobType
  <1>3. \A k \in Elems(done) \cup Elems(pending) :
          job'[k].id = job[k].id /\ job[k].id <= lastId /\ job[k].id \in Nat
    BY <1>1, <1>2 DEF Ordered
  <1>4. Rising(done, job') /\ Rising(pending, job') /\ Below(Elems(done), Elems(pending), job')
    <2>1. Rising(done, job) /\ Rising(pending, job) /\ Below(Elems(done), Elems(pending), job)
      BY DEF Ordered
    <2>2. Rising(done, job') /\ Rising(pending, job') BY <1>2, <1>3, <2>1, RisingSame
    <2> QED BY <1>3, <2>1, <2>2 DEF Below
  <1>5. /\ Below(Elems(done), {j}, job') /\ Below(Elems(pending), {j}, job')
        /\ \A k \in Elems(done) \cup Elems(pending) : job'[k].id <= lastId'
        /\ job'[j].id <= lastId'
    BY <1>1, <1>2, <1>3 DEF Below
  <1>6. CASE state = "IDLE" /\ cur' = j /\ pending' = pending
    <2>1. pending = <<>> BY <1>6 DEF WaitsBehind
    <2> QED BY <1>1, <1>4, <1>5, <1>6, <2>1, ElemsNone DEF Ordered, Below
  <1>7. CASE cur' = cur /\ pending' = Append(pending, j)
    <2>1. Elems(pending') = Elems(pending) \cup {j} BY <1>2, <1>7, ElemsAppend
    <2>2. Rising(pending', job') BY <1>2, <1>4, <1>5, <1>7, RisingAppend
    <2>3. Below(Elems(done'), Elems(pending'), job') BY <1>1, <1>4, <1>5, <2>1 DEF Below
    <2>4. \A k \in Elems(done') \cup Elems(pending') : job'[k].id <= lastId'
      BY <1>1, <1>5, <2>1
    <2>5. ASSUME Survivor'
          PROVE  /\ Below(Elems(done'), {cur'}, job') /\ Below({cur'}, Elems(pending'), job')
                 /\ job'[cur'].id <= lastId'
      <3>1. cur \in Jobs \ {j} /\ Survivor /\ job'[cur] = job[cur]
        BY <1>1, <1>2, <1>7, <2>5 DEF Survivor
      <3>2. job[cur].id <= lastId /\ Below(Elems(done), {cur}, job) /\ Below({cur}, Elems(pending), job)
        BY <3>1 DEF Ordered
      <3>3. job[cur].id \in Nat /\ job'[j].id = lastId + 1
        BY <1>1, <1>2, <3>1
      <3> QED BY <1>1, <1>2, <1>3, <1>7, <2>1, <3>1, <3>2, <3>3 DEF Below
    <2> QED BY <1>1, <1>4, <2>2, <2>3, <2>4, <2>5 DEF Ordered
  <1> QED BY <1>1, <1>6, <1>7

LEMMA OrderedQuery ==
  ASSUME OInv, NEW p \in Procs, QueryReady(p) PROVE Ordered'
  <1> USE DEF OInv
  <1>1. /\ done \in Seq(Jobs) /\ pending \in Seq(Jobs) /\ cur \in Jobs \cup {Nobody}
        /\ job \in [Jobs -> JobType] /\ UNCHANGED <<cur, pending, lastId>>
        /\ Elems(done) \subseteq Jobs /\ Elems(pending) \subseteq Jobs
    BY ElemsIn DEF IInv, TypeOK, QueueTypes, QueryReady
  <1>2. CASE UNCHANGED <<job, done>>
    BY <1>1, <1>2, OrderedSame DEF Ordered, Survivor
  <1>3. ASSUME NEW i \in 1..Len(done), job' = Free({done[i]}), done' = DropAt(done, i)
        PROVE  Ordered'
    <2>1. /\ done[i] \in Elems(done) /\ Elems(done') = Elems(done) \ {done[i]}
          /\ done' \in Seq(Jobs)
      BY <1>1, <1>3, ElemsDrop, DropAtType DEF IInv, JobsAccounted
    <2>2. Rising(done', job) BY <1>1, <1>3, RisingDrop DEF Ordered
    <2>3. \A j \in Jobs : j # done[i] => job'[j] = job[j] BY <1>3 DEF Free
    <2>4. done[i] \notin Elems(pending) /\ done[i] # cur
      BY <2>1 DEF IInv, JobsAccounted
    <2>5. Survivor' => Survivor /\ job'[cur].id = job[cur].id
      BY <1>1, <2>3, <2>4 DEF Survivor
    <2>6. \A j \in Elems(done') \cup Elems(pending') : job'[j].id = job[j].id
      BY <1>1, <2>1, <2>3, <2>4
    <2> QED BY <1>1, <2>1, <2>2, <2>5, <2>6, OrderedSame
  <1> QED BY <1>2, <1>3 DEF QueryReady, IsCollected

\* What the two ends of npu_destroy_queue leave of the line.
LEMMA MarkEffect ==
  ASSUME IInv, NEW p \in Procs, DestroyMark(p) \/ DestroyDrain(p)
  PROVE  /\ pending = <<>> /\ UNCHANGED <<cur, pending, lastId, queues, reaped>>
         /\ queues = 0 /\ ~Survivor'
         /\ \/ /\ done' = done /\ pc'[p] = "drain"
               /\ \A j \in Jobs : job'[j].id = job[j].id
            \/ done' = <<>> /\ Wake
         /\ \A j \in Jobs : j \notin Elems(done) => job'[j].st = job[j].st
  <1> USE DEF IInv
  <1>1. /\ pc[p] \in {"mark", "drain"} /\ UNCHANGED <<cur, pending, lastId, queues, reaped>>
        /\ job \in [Jobs -> JobType] /\ cur \in Jobs \cup {Nobody} /\ pc \in [Procs -> Places]
    BY DEF DestroyMark, DestroyDrain, userVars, TypeOK, QueueTypes, ProcTypes
  <1>2. pending = <<>> /\ queues = 0
    BY <1>1 DEF GivingUp, NothingQueued, GivenUp, Destroying
  <1>3. ASSUME NEW jobs, DestroyEnd(p, jobs), cur # Nobody => jobs[cur].orphan,
               \A j \in Jobs : jobs[j].st = job[j].st
        PROVE  /\ done' = <<>> /\ Wake /\ ~Survivor'
               /\ \A j \in Jobs : j \notin Elems(done) => job'[j].st = job[j].st
    <2>1. /\ done' = <<>> /\ Wake /\ cur' = cur /\ cur \notin Elems(done)
          /\ job' = [j \in Jobs |-> IF j \in Elems(done) THEN NoMemory ELSE jobs[j]]
      BY <1>1, <1>3 DEF DestroyEnd, JobsAccounted
    <2> QED BY <1>1, <1>3, <2>1 DEF Survivor
  <1>4. CASE DestroyMark(p)
    <2> DEFINE marked == IF Survivor THEN [job EXCEPT ![cur].orphan = TRUE] ELSE job
    <2>1. /\ cur # Nobody => marked[cur].orphan
          /\ \A j \in Jobs : marked[j].st = job[j].st /\ marked[j].id = job[j].id
      BY <1>1 DEF Survivor, JobType
    <2>2. CASE MustDrain
      <3>1. job' = marked /\ pc' = [pc EXCEPT ![p] = "drain"] /\ done' = done
        BY <1>4, <2>2 DEF DestroyMark, Goto
      <3>2. ~Survivor' BY <1>1, <2>1, <3>1 DEF Survivor
      <3> QED BY <1>1, <1>2, <2>1, <3>1, <3>2
    <2>3. CASE ~MustDrain
      <3>1. DestroyEnd(p, marked) BY <1>4, <2>3 DEF DestroyMark
      <3> HIDE DEF marked
      <3> QED BY <1>1, <1>2, <1>3, <2>1, <3>1
    <2> QED BY <2>2, <2>3
  <1>5. CASE DestroyDrain(p)
    <2>1. cur # Nobody => job[cur].orphan
      BY <1>5 DEF DestroyDrain, GivingUp, OrphanedInDrain, Survivor
    <2>2. DestroyEnd(p, job) BY <1>5 DEF DestroyDrain
    <2> QED BY <1>1, <1>2, <1>3, <2>1, <2>2
  <1> QED BY <1>4, <1>5

\* NPU_IOC_RESET finds no line: the queues were dropped before.
LEMMA ResetEffect ==
  ASSUME IInv, NEW p \in Procs, ResetStop(p) \/ ResetEnd(p)
  PROVE  /\ done = <<>> /\ pending = <<>> /\ ~Survivor /\ ~Survivor'
         /\ UNCHANGED <<done, pending, lastId, queues>> /\ cur' \in {cur, Nobody}
  <1> USE DEF IInv
  <1>1. /\ pc[p] \in {"stop", "sync"} /\ UNCHANGED <<done, pending, lastId, queues>>
        /\ cur' \in {cur, Nobody} /\ cur \in Jobs \cup {Nobody}
    BY DEF ResetStop, ResetEnd, userVars, TypeOK, QueueTypes
  <1>2. queues = 0
    BY <1>1 DEF GivingUp, GivenUp, Destroying
  <1>3. \A q \in Procs : pc[q] \notin Dropping
    BY <1>1, OneDestroys DEF GivingUp, Dropping, Destroying
  <1>4. done = <<>> /\ pending = <<>> /\ ~Survivor
    BY <1>2, <1>3 DEF GivingUp, Emptied
  <1>5. ~Survivor'
    <2>1. CASE ResetStop(p)
      BY <1>1, <1>4, <2>1 DEF ResetStop, Survivor
    <2>2. CASE ResetEnd(p)
      BY <1>1, <2>2 DEF ResetEnd, Survivor, GivingUp, AtRestInSync
    <2> QED BY <2>1, <2>2
  <1> QED BY <1>1, <1>4, <1>5

LEMMA OrderedEmpty ==
  ASSUME done' = <<>>, pending' = <<>>, ~Survivor' PROVE Ordered'
  BY RisingNone, ElemsNone DEF Ordered, Below

LEMMA OrderedGiveUp ==
  ASSUME OInv, NEW p \in Procs,
         \/ DestroyPending(p) \/ DestroyMark(p) \/ DestroyDrain(p)
         \/ ResetStop(p) \/ ResetEnd(p)
  PROVE  Ordered'
  <1> USE DEF OInv
  <1>1. /\ done \in Seq(Jobs) /\ pending \in Seq(Jobs) /\ cur \in Jobs \cup {Nobody}
        /\ job \in [Jobs -> JobType]
        /\ Elems(done) \subseteq Jobs /\ Elems(pending) \subseteq Jobs
    BY ElemsIn DEF IInv, TypeOK, QueueTypes
  <1>2. CASE DestroyPending(p)
    <2>1. /\ job' = Free(Elems(pending)) /\ pending' = <<>>
          /\ UNCHANGED <<done, cur, lastId>>
      BY <1>2 DEF DestroyPending
    <2>2. cur \notin Elems(pending) /\ Elems(done) \cap Elems(pending) = {}
      BY DEF IInv, JobsAccounted
    <2>3. \A j \in Elems(done) \cup ({cur} \ {Nobody}) : job'[j] = job[j]
      BY <1>1, <2>1, <2>2 DEF Free
    <2>4. Survivor' => Survivor /\ job'[cur].id = job[cur].id
      BY <1>1, <2>1, <2>3 DEF Survivor
    <2>5. Rising(done', job) BY <2>1 DEF Ordered
    <2> QED BY <1>1, <2>1, <2>3, <2>4, <2>5, ElemsNone, OrderedSame
  <1>3. CASE DestroyMark(p) \/ DestroyDrain(p)
    <2>1. /\ pending = <<>> /\ UNCHANGED <<cur, pending, lastId>> /\ ~Survivor'
          /\ \/ done' = done /\ \A j \in Jobs : job'[j].id = job[j].id
             \/ done' = <<>>
      BY <1>3, MarkEffect
    <2>2. CASE done' = <<>> BY <2>1, <2>2, OrderedEmpty
    <2>3. CASE done' = done /\ \A j \in Jobs : job'[j].id = job[j].id
      <3>1. Rising(done', job) BY <2>3 DEF Ordered
      <3> QED BY <1>1, <2>1, <2>3, <3>1, OrderedSame
    <2> QED BY <2>1, <2>2, <2>3
  <1>4. CASE ResetStop(p) \/ ResetEnd(p)
    BY <1>4, ResetEffect, OrderedEmpty
  <1> QED BY <1>2, <1>3, <1>4

\* The steps that touch neither a job nor a list.
LEMMA OrderedOther ==
  ASSUME OInv, UNCHANGED <<job, cur, pending, done, lastId>>
  PROVE  Ordered'
  BY DEF OInv, Ordered, Survivor

\* A first queue finds no line, so its numbers may begin again.
LEMMA OrderedCreate ==
  ASSUME OInv, NEW p \in Procs, IocCreateQueue(p) PROVE Ordered'
  <1>1. /\ queueLock = Nobody /\ UNCHANGED <<job, cur, pending, done>>
        /\ lastId' = IF queues = 0 THEN 0 ELSE lastId
    BY DEF IocCreateQueue
  <1>2. CASE queues # 0 BY <1>1, <1>2, OrderedOther
  <1>3. CASE queues = 0
    <2>1. \A q \in Procs : pc[q] \notin Dropping
      BY <1>1, NpuAssumption DEF OInv, IInv, GivingUp, QueueHeld, Dropping, Destroying
    <2>2. done = <<>> /\ pending = <<>> /\ ~Survivor
      BY <1>3, <2>1 DEF OInv, IInv, GivingUp, Emptied
    <2> QED BY <1>1, <2>2, OrderedEmpty DEF Survivor
  <1> QED BY <1>2, <1>3

LEMMA OrderedNext == ASSUME OInv, [Next]_vars PROVE Ordered'
  <1>1. CASE HardIrqNote \/ HardIrqAbort BY <1>1, OrderedIrq
  <1>2. CASE ThreadSuccess \/ ThreadAbort BY <1>2, OrderedThread
  <1>3. CASE \/ ThreadSpurious \/ ThreadStopped \/ UNCHANGED vars \/ HardIrqEnter
             \/ \E e \in Events : NpuEvent(e)
    BY <1>3, OrderedOther DEF ThreadSpurious, ThreadStopped, HardIrqEnter, NpuEvent,
       vars, queueVars
  <1>4. ASSUME NEW p \in Procs, UserStep(p) PROVE Ordered'
    <2>1. CASE IocSubmit(p) BY <2>1, OrderedSubmit
    <2>2. CASE IocCreateQueue(p) BY <2>2, OrderedCreate
    <2>3. CASE ~IocSubmit(p) /\ ~IocCreateQueue(p)
      BY <1>4, <2>3, OrderedOther DEF UserStep, FopOpen, FopRelease, IocOpen, IocClose,
         IocReset, IocDestroyQueue, IocClrWfi, IocQuery, queueVars
    <2> QED BY <2>1, <2>2, <2>3
  <1>5. ASSUME NEW p \in Procs, KernelStep(p) \/ WaitTimeout(p) PROVE Ordered'
    <2>1. CASE QueryReady(p) BY <2>1, OrderedQuery
    <2>2. CASE \/ DestroyPending(p) \/ DestroyMark(p) \/ DestroyDrain(p)
               \/ ResetStop(p) \/ ResetEnd(p)
      BY <2>2, OrderedGiveUp
    <2>3. CASE \/ QueryUnready(p) \/ WaitWoken(p) \/ WaitTimeout(p) \/ DropQueues(p)
               \/ DestroyGrace(p) \/ CloseEnd(p) \/ ReleaseEnd(p) \/ ResetFails(p)
      BY <2>3, OrderedOther DEF QueryUnready, WaitWoken, WaitTimeout, DropQueues,
         DestroyGrace, CloseEnd, ReleaseEnd, ResetFails, queueVars
    <2> QED BY <1>5, <2>1, <2>2, <2>3 DEF KernelStep
  <1> QED BY <1>1, <1>2, <1>3, <1>4, <1>5 DEF Next, HardIrq, IrqThread, Events

LEMMA WaitsBehindNext == ASSUME OInv, [Next]_vars PROVE WaitsBehind'
  <1> USE DEF OInv
  <1>0. /\ done \in Seq(Jobs) /\ pending \in Seq(Jobs) /\ cur \in Jobs \cup {Nobody}
        /\ job \in [Jobs -> JobType]
        /\ Elems(done) \subseteq Jobs /\ Elems(pending) \subseteq Jobs
    BY ElemsIn DEF IInv, TypeOK, QueueTypes
  <1>1. CASE HardIrqNote \/ HardIrqAbort
    <2>1. pending' = pending /\ state' \in {state, "ABORTED"}
      BY <1>1 DEF HardIrqNote, HardIrqAbort
    <2>2. \A j \in Jobs : job'[j].orphan = job[j].orphan
      BY <1>1, IrqKeepsJobs DEF IInv
    <2> QED BY <1>0, <2>1, <2>2 DEF WaitsBehind
  <1>2. CASE ThreadSuccess \/ ThreadAbort
    <2>1. \A j \in Elems(pending) : ~job[j].orphan /\ j # cur
      BY DEF WaitsBehind, IInv, JobsAccounted
    <2>2. \A j \in Elems(pending) : ~job'[j].orphan
      BY <1>0, <1>2, <2>1, ThreadKeepsJobs
    <2>3. CASE pending' = <<>>
      BY <2>3, ElemsNone DEF WaitsBehind
    <2>4. CASE ThreadSuccess /\ pending # <<>>
      <3>1. pending' = Tail(pending) /\ state' = state
        BY <2>4 DEF ThreadSuccess
      <3>2. Elems(Tail(pending)) \subseteq Elems(pending)
        BY <1>0, <2>4, ElemsFirst
      <3> QED BY <2>2, <2>4, <3>1, <3>2 DEF WaitsBehind
    <2> QED BY <1>2, <2>3, <2>4 DEF ThreadSuccess, ThreadAbort, AbortedDone
  <1>3. ASSUME UNCHANGED <<job, pending, state>> PROVE WaitsBehind'
    BY <1>3 DEF WaitsBehind
  <1>4. CASE \/ ThreadSpurious \/ ThreadStopped \/ UNCHANGED vars \/ HardIrqEnter
             \/ \E e \in Events : NpuEvent(e)
    BY <1>3, <1>4 DEF ThreadSpurious, ThreadStopped, HardIrqEnter, NpuEvent,
       vars, queueVars
  <1>5. ASSUME NEW p \in Procs, UserStep(p) PROVE WaitsBehind'
    <2>1. CASE IocSubmit(p)
      <3>1. PICK j \in Jobs :
              /\ j \notin Elems(pending) /\ ~job'[j].orphan /\ state' = "BUSY"
              /\ \A k \in Jobs \ {j} : job'[k] = job[k]
              /\ pending' = pending \/ pending' = Append(pending, j)
        BY <2>1, SubmitEffect
      <3>2. Elems(Append(pending, j)) = Elems(pending) \cup {j}
        BY <1>0, ElemsAppend
      <3>3. Elems(pending') \subseteq Elems(pending) \cup {j}
        BY <3>1, <3>2
      <3> QED BY <1>0, <3>1, <3>3 DEF WaitsBehind
    <2>2. CASE ~IocSubmit(p)
      BY <1>3, <1>5, <2>2 DEF UserStep, FopOpen, FopRelease, IocOpen, IocClose,
         IocReset, IocDestroyQueue, IocCreateQueue, IocClrWfi, IocQuery, queueVars
    <2> QED BY <2>1, <2>2
  <1>6. ASSUME NEW p \in Procs, KernelStep(p) \/ WaitTimeout(p) PROVE WaitsBehind'
    <2>1. CASE QueryReady(p)
      <3>1. UNCHANGED <<state, pending>> BY <2>1 DEF QueryReady
      <3>2. \A j \in Elems(pending) : job'[j] = job[j]
        <4>1. CASE UNCHANGED job BY <4>1
        <4>2. ASSUME NEW i \in 1..Len(done), job' = Free({done[i]})
              PROVE  \A j \in Elems(pending) : job'[j] = job[j]
          <5>1. done[i] \notin Elems(pending)
            BY <1>0, ElemsDrop DEF IInv, JobsAccounted
          <5> QED BY <1>0, <4>2, <5>1 DEF Free
        <4> QED BY <2>1, <4>1, <4>2 DEF QueryReady, IsCollected
      <3> QED BY <3>1, <3>2 DEF WaitsBehind
    <2>2. CASE DestroyPending(p) \/ DestroyMark(p) \/ DestroyDrain(p) \/ ResetStop(p) \/ ResetEnd(p)
      <3>1. pending' = <<>>
        BY <2>2, MarkEffect, ResetEffect DEF DestroyPending
      <3> QED BY <3>1, ElemsNone DEF WaitsBehind
    <2>3. CASE \/ QueryUnready(p) \/ WaitWoken(p) \/ WaitTimeout(p) \/ DropQueues(p)
               \/ DestroyGrace(p) \/ CloseEnd(p) \/ ReleaseEnd(p) \/ ResetFails(p)
      BY <1>3, <2>3 DEF QueryUnready, WaitWoken, WaitTimeout, DropQueues,
         DestroyGrace, CloseEnd, ReleaseEnd, ResetFails, queueVars
    <2> QED BY <1>6, <2>1, <2>2, <2>3 DEF KernelStep
  <1> QED BY <1>1, <1>2, <1>4, <1>5, <1>6 DEF Next, HardIrq, IrqThread, Events

LEMMA OInvAlways == Spec => []OInv
  <1>1. Init => OInv
    <2>1. Init => done = <<>> /\ pending = <<>> /\ cur = Nobody BY DEF Init
    <2> QED BY <2>1, IInvInit, RisingNone, ElemsNone
            DEF OInv, Ordered, WaitsBehind, Below, Survivor
  <1>2. OInv /\ [Next]_vars => OInv'
    BY IInvNext, OrderedNext, WaitsBehindNext DEF OInv
  <1> QED BY <1>1, <1>2, PTL DEF Spec

\* The line, part by part.
LEMMA LineParts ==
  ASSUME TypeOK
  PROVE  /\ Line = done \o (IF Survivor THEN <<cur>> ELSE <<>>) \o pending
         /\ (IF Survivor THEN <<cur>> ELSE <<>>) \in Seq(Jobs)
         /\ Line \in Seq(Jobs)
         /\ Elems(Line) = Elems(done) \cup (IF Survivor THEN {cur} ELSE {}) \cup Elems(pending)
  <1> DEFINE M == IF Survivor THEN <<cur>> ELSE <<>>
  <1>1. done \in Seq(Jobs) /\ pending \in Seq(Jobs) /\ (Survivor => cur \in Jobs)
    BY DEF TypeOK, QueueTypes, Survivor
  <1>2. M \in Seq(Jobs) /\ Elems(M) = IF Survivor THEN {cur} ELSE {}
    <2>1. CASE Survivor
      <3>1. Elems(<<cur>>) = {cur} BY DEF Elems
      <3> QED BY <1>1, <2>1, <3>1
    <2>2. CASE ~Survivor BY <2>2, ElemsNone
    <2> QED BY <2>1, <2>2
  <1>3. Line = done \o M \o pending BY DEF Line, Survivor
  <1> HIDE DEF M
  <1>4. done \o M \in Seq(Jobs) /\ Elems(done \o M) = Elems(done) \cup Elems(M)
    BY <1>1, <1>2, ElemsConcat
  <1>5. Line \in Seq(Jobs) /\ Elems(Line) = Elems(done \o M) \cup Elems(pending)
    <2> DEFINE A == done \o M
    <2>1. Line = A \o pending /\ A \in Seq(Jobs) BY <1>3, <1>4
    <2> HIDE DEF A
    <2>2. Line \in Seq(Jobs) /\ Elems(Line) = Elems(A) \cup Elems(pending)
      BY <1>1, <2>1, ElemsConcat
    <2> QED BY <2>2 DEF A
  <1> QED BY <1>2, <1>3, <1>4, <1>5 DEF M

\* However many processes submit to /dev/npu.0, wait on it and reset it, job
\* ids rise along the line of finished, running and pending jobs (npu_submit,
\* npu_irq_thread, npu_collect).
THEOREM QueueInOrder == Spec => []InOrder
  <1>1. OInv => InOrder
    <2> SUFFICES ASSUME OInv PROVE InOrder OBVIOUS
    <2> USE DEF OInv
    <2> DEFINE M == IF Survivor THEN <<cur>> ELSE <<>>
    <2>1. /\ done \in Seq(Jobs) /\ pending \in Seq(Jobs) /\ M \in Seq(Jobs)
          /\ Line \in Seq(Jobs) /\ Line = done \o M \o pending
          /\ Elems(Line) = Elems(done) \cup (IF Survivor THEN {cur} ELSE {}) \cup Elems(pending)
      BY LineParts DEF IInv, TypeOK, QueueTypes
    <2>2. Rising(M, job) /\ Elems(M) = IF Survivor THEN {cur} ELSE {}
      BY RisingNone, RisingOne, ElemsNone
    <2> HIDE DEF M
    <2>3. Rising(done \o M, job)
      <3>1. Below(Elems(done), Elems(M), job) BY <2>2 DEF Ordered, Below
      <3> QED BY <2>1, <2>2, <3>1, RisingConcat DEF Ordered
    <2>4. done \o M \in Seq(Jobs) /\ Elems(done \o M) = Elems(done) \cup Elems(M)
      BY <2>1, ElemsConcat
    <2>5. Below(Elems(done \o M), Elems(pending), job)
      BY <2>2, <2>4 DEF Ordered, Below
    <2>6. Rising(Line, job)
      BY <2>1, <2>3, <2>4, <2>5, RisingConcat DEF Ordered
    <2>7. \A j \in Elems(Line) : job[j].id <= lastId
      BY <2>1 DEF Ordered
    <2> QED BY <2>6, <2>7 DEF InOrder, Rising, Elems
  <1> QED BY <1>1, OInvAlways, PTL

-----------------------------------------------------------------------------
(* Waiters *)

\* Past the point where the pending jobs were dropped, with everyone to be
\* woken at the end.
Late == {"grace", "mark", "drain"}

\* NoLostWakeup with what the interrupt thread will find: without a job of the
\* queue it wakes nobody, so it is the job waited for that it must find.
Heard(p) ==
  \/ p \in woken
  \/ IsCur(want[p]) /\ irqThread
  \/ \E q \in Procs : pc[q] \in Late

Sleepers == \A p \in Procs : pc[p] = "asleep" /\ ~Unready(want[p]) => Heard(p)

\* Steps that wake everyone, and steps after which a job that was awaited still
\* is.
LEMMA SleepersWoken ==
  ASSUME Wake, \A p \in Procs : pc'[p] = "asleep" => pc[p] = "asleep"
  PROVE  Sleepers'
  BY DEF Wake, Asleep, Sleepers, Heard

LEMMA SleepersKept ==
  ASSUME Sleepers,
         \A p \in Procs : pc'[p] = "asleep" =>
           pc[p] = "asleep" /\ want'[p] = want[p] /\ (p \in woken => p \in woken'),
         \A q \in Procs : pc[q] \in Late => pc'[q] \in Late,
         irqThread => irqThread' \/ cur = Nobody,
         cur' = cur \/ ~Survivor, Survivor => Survivor',
         Survivor' => Survivor \/ job'[cur'].st # "stop",
         Survivor => job'[cur].id = job[cur].id /\ (job'[cur].st = "stop" => job[cur].st = "stop"),
         Elems(pending) \subseteq Elems(pending'),
         \A j \in Elems(pending) : job'[j].id = job[j].id
  PROVE  Sleepers'
  <1>1. ASSUME NEW id, IsCur(id) PROVE IsCur(id)'
    BY <1>1 DEF IsCur, Survivor
  <1>2. ASSUME NEW id, Unready(id) PROVE Unready(id)'
    <2>1. CASE IsCur(id) /\ job[cur].st # "stop"
      BY <1>1, <2>1 DEF Unready, IsCur, Survivor
    <2>2. CASE ~IsCur(id) /\ \E j \in Elems(pending) : job[j].id = id
      <3>1. \E j \in Elems(pending') : job'[j].id = id BY <2>2
      <3>2. ~IsCur(id)' \/ job'[cur'].st # "stop"
        BY <2>2 DEF IsCur, Survivor
      <3> QED BY <3>1, <3>2 DEF Unready, IsCur
    <2> QED BY <1>2, <2>1, <2>2 DEF Unready
  <1> SUFFICES ASSUME NEW p \in Procs, (pc[p] = "asleep" /\ ~Unready(want[p]))'
               PROVE  Heard(p)'
    BY DEF Sleepers
  <1>3. PICK id : id = want[p] OBVIOUS
  <1>4. pc[p] = "asleep" /\ want'[p] = id BY <1>3
  <1>5. ~Unready(id)' BY <1>4 DEF Unready, IsCur
  <1>6. ~Unready(want[p]) BY <1>2, <1>3, <1>5
  <1>7. Heard(p) BY <1>4, <1>6 DEF Sleepers
  <1>8. CASE p \in woken BY <1>8 DEF Heard
  <1>9. CASE \E q \in Procs : pc[q] \in Late BY <1>9 DEF Heard
  <1>10. CASE IsCur(id) /\ irqThread
    <2>1. IsCur(id)' /\ irqThread' BY <1>1, <1>10 DEF IsCur
    <2> QED BY <1>4, <2>1 DEF Heard, IsCur
  <1> QED BY <1>3, <1>7, <1>8, <1>9, <1>10 DEF Heard

\* A step of one process that goes to neither a sleep nor off the way of
\* waking everyone.
LEMMA SleepersMove ==
  ASSUME TypeOK, Sleepers, NEW p \in Procs, NEW l \in Places,
         pc' = [pc EXCEPT ![p] = l], l # "asleep", pc[p] \in Late => l \in Late,
         \A q \in Procs \ {p} : want'[q] = want[q] /\ (q \in woken => q \in woken'),
         irqThread' = irqThread, UNCHANGED <<job, cur, pending>>
  PROVE  Sleepers'
  <1>1. pc \in [Procs -> Places] BY DEF TypeOK, ProcTypes
  <1>2. \A q \in Procs : pc'[q] = IF q = p THEN l ELSE pc[q] BY <1>1
  <1>3. /\ \A q \in Procs : pc'[q] = "asleep" =>
             pc[q] = "asleep" /\ want'[q] = want[q] /\ (q \in woken => q \in woken')
        /\ \A q \in Procs : pc[q] \in Late => pc'[q] \in Late
    BY <1>2
  <1>4. Survivor' = Survivor BY DEF Survivor
  <1> QED BY <1>3, <1>4, SleepersKept

LEMMA SleepersStay ==
  ASSUME Sleepers, UNCHANGED <<pc, want, woken, job, cur, pending>>,
         irqThread => irqThread' \/ cur = Nobody
  PROVE  Sleepers'
  <1>1. Survivor' = Survivor BY DEF Survivor
  <1> QED BY <1>1, SleepersKept

LEMMA SleepersIrq ==
  ASSUME OInv, Sleepers, HardIrqNote \/ HardIrqAbort PROVE Sleepers'
  <1>1. /\ \A j \in Jobs : job'[j].id = job[j].id /\ job'[j].orphan = job[j].orphan
        /\ UNCHANGED <<cur, pending>> /\ irqThread' = TRUE
        /\ UNCHANGED <<pc, want, woken>>
        /\ cur \in Jobs \cup {Nobody} /\ Elems(pending) \subseteq Jobs
    BY IrqKeepsJobs, ElemsIn DEF OInv, IInv, TypeOK, QueueTypes, HardIrqNote,
       HardIrqAbort, procVars
  <1>2. \A id : IsCur(id)' = IsCur(id) BY <1>1 DEF IsCur
  <1> SUFFICES ASSUME NEW p \in Procs, (pc[p] = "asleep" /\ ~Unready(want[p]))'
               PROVE  Heard(p)'
    BY DEF Sleepers
  <1>3. PICK id : id = want[p] /\ id = want'[p] BY <1>1
  <1>4. ~Unready(id)' BY <1>3 DEF Unready, IsCur
  <1>5. CASE IsCur(id)
    <2>1. IsCur(id)' BY <1>2, <1>5
    <2> QED BY <1>1, <1>3, <2>1 DEF Heard, IsCur
  <1>6. CASE ~IsCur(id)
    <2>1. ~IsCur(id)' BY <1>2, <1>6
    <2>2. ~Unready(id) BY <1>1, <1>4, <1>6, <2>1 DEF Unready
    <2>3. Heard(p) BY <1>1, <1>3, <2>2 DEF Sleepers
    <2>4. p \in woken \/ \E q \in Procs : pc[q] \in Late BY <1>3, <1>6, <2>3 DEF Heard
    <2> QED BY <1>1, <2>4 DEF Heard
  <1> QED BY <1>5, <1>6

LEMMA SleepersSubmit ==
  ASSUME OInv, Sleepers, NEW p \in Procs, IocSubmit(p) PROVE Sleepers'
  <1>1. PICK j \in Jobs :
           /\ j \notin Elems(done) \cup Elems(pending) \cup {cur, reaped}
           /\ \A k \in Jobs \ {j} : job'[k] = job[k]
           /\ \/ cur = Nobody /\ cur' = j /\ pending' = pending /\ job'[j].st = "process"
              \/ cur' = cur /\ pending' = Append(pending, j)
    BY SubmitEffect DEF OInv
  <1>2. /\ pending \in Seq(Jobs) /\ cur \in Jobs \cup {Nobody} /\ Elems(pending) \subseteq Jobs
        /\ UNCHANGED <<pc, want, woken, irqThread>>
    BY ElemsIn DEF OInv, IInv, TypeOK, QueueTypes, IocSubmit, Queued, procVars
  <1>3. Elems(pending) \subseteq Elems(pending')
    <2>1. Elems(Append(pending, j)) = Elems(pending) \cup {j} BY <1>2, ElemsAppend
    <2> QED BY <1>1, <2>1
  <1>4. \A k \in Elems(pending) : job'[k] = job[k] BY <1>1, <1>2
  <1>5. cur # Nobody => job'[cur] = job[cur] /\ cur' = cur BY <1>1, <1>2
  <1>6. /\ cur' = cur \/ ~Survivor
        /\ Survivor => Survivor' /\ job'[cur].id = job[cur].id
                       /\ (job'[cur].st = "stop" => job[cur].st = "stop")
    BY <1>5 DEF Survivor
  <1>7. Survivor' => Survivor \/ job'[cur'].st # "stop"
    BY <1>1, <1>5 DEF Survivor
  <1> QED BY <1>2, <1>3, <1>4, <1>6, <1>7, SleepersKept

LEMMA SleepersQuery ==
  ASSUME OInv, Sleepers, NEW p \in Procs, QueryReady(p) PROVE Sleepers'
  <1>1. /\ UNCHANGED <<cur, pending, irqThread, woken>> /\ pc[p] = "query"
        /\ pc \in [Procs -> Places] /\ want \in [Procs -> Nat]
        /\ pc' = [pc EXCEPT ![p] = "user"] /\ want' = [want EXCEPT ![p] = 0]
        /\ cur \in Jobs \cup {Nobody} /\ Elems(pending) \subseteq Jobs /\ done \in Seq(Jobs)
    BY ElemsIn DEF OInv, IInv, TypeOK, QueueTypes, ProcTypes, QueryReady, Return, hwVars
  <1>2. \A j \in Elems(pending) \cup ({cur} \ {Nobody}) : job'[j] = job[j]
    <2>1. CASE UNCHANGED job BY <2>1
    <2>2. ASSUME NEW i \in 1..Len(done), job' = Free({done[i]})
          PROVE  \A j \in Elems(pending) \cup ({cur} \ {Nobody}) : job'[j] = job[j]
      <3>1. done[i] \notin Elems(pending) /\ done[i] # cur
        BY <1>1, ElemsDrop DEF OInv, IInv, JobsAccounted
      <3> QED BY <1>1, <2>2, <3>1 DEF Free
    <2> QED BY <2>1, <2>2 DEF QueryReady, IsCollected
  <1>3. /\ \A q \in Procs : pc'[q] = "asleep" => pc[q] = "asleep" /\ want'[q] = want[q]
        /\ \A q \in Procs : pc[q] \in Late => pc'[q] \in Late
    BY <1>1 DEF Late
  <1>4. Survivor' = Survivor BY <1>1, <1>2 DEF Survivor
  <1>5. Survivor => job'[cur] = job[cur] BY <1>2 DEF Survivor
  <1> QED BY <1>1, <1>2, <1>3, <1>4, <1>5, SleepersKept

LEMMA SleepersGiveUp ==
  ASSUME OInv, Sleepers, NEW p \in Procs,
         \/ DestroyPending(p) \/ DestroyMark(p) \/ DestroyDrain(p)
         \/ ResetStop(p) \/ ResetEnd(p)
  PROVE  Sleepers'
  <1>1. pc \in [Procs -> Places] /\ want \in [Procs -> Nat]
    BY DEF OInv, IInv, TypeOK, ProcTypes
  <1>2. CASE DestroyPending(p)
    <2>1. pc'[p] \in Late BY <1>1, <1>2 DEF DestroyPending, Goto, Late
    <2> QED BY <2>1 DEF Sleepers, Heard
  <1>3. CASE DestroyMark(p) \/ DestroyDrain(p)
    <2>1. CASE pc'[p] = "drain" BY <2>1 DEF Sleepers, Heard, Late
    <2>2. CASE pc'[p] # "drain"
      <3>1. Wake BY <1>3, <2>2, MarkEffect DEF OInv
      <3>2. \A q \in Procs : pc'[q] = "asleep" => pc[q] = "asleep"
        BY <1>1, <1>3 DEF DestroyMark, DestroyDrain, DestroyEnd, Goto, Return
      <3> QED BY <3>1, <3>2, SleepersWoken
    <2> QED BY <2>1, <2>2
  <1>4. CASE ResetStop(p) \/ ResetEnd(p)
    <2>1. pending = <<>> /\ pending' = <<>> /\ ~Survivor /\ ~Survivor'
      BY <1>4, ResetEffect DEF OInv
    <2>2. PICK l \in {"sync", "user"} : pc' = [pc EXCEPT ![p] = l]
      BY <1>4 DEF ResetStop, ResetEnd, Goto, Return
    <2>3. /\ irqThread' = irqThread /\ woken' = woken /\ pc[p] \in {"stop", "sync"}
          /\ \A q \in Procs \ {p} : want'[q] = want[q]
      BY <1>1, <1>4 DEF ResetStop, ResetEnd, Return, hwVars
    <2>4. /\ \A q \in Procs : pc'[q] = "asleep" => pc[q] = "asleep" /\ want'[q] = want[q]
          /\ \A q \in Procs : pc[q] \in Late => pc'[q] \in Late
      BY <1>1, <2>2, <2>3 DEF Late
    <2> QED BY <2>1, <2>3, <2>4, ElemsNone, SleepersKept
  <1> QED BY <1>2, <1>3, <1>4

LEMMA SleepersWait ==
  ASSUME OInv, Sleepers, NEW p \in Procs,
         \/ QueryUnready(p) \/ WaitWoken(p) \/ WaitTimeout(p) \/ DropQueues(p)
         \/ DestroyGrace(p) \/ CloseEnd(p) \/ ReleaseEnd(p) \/ ResetFails(p)
  PROVE  Sleepers'
  <1>1. /\ TypeOK /\ pc \in [Procs -> Places] /\ want \in [Procs -> Nat]
        /\ UNCHANGED <<job, cur, pending, irqThread>>
    BY DEF OInv, IInv, TypeOK, ProcTypes, QueryUnready, WaitWoken, WaitTimeout, DropQueues,
       DestroyGrace, CloseEnd, ReleaseEnd, ResetFails, queueVars, hwVars
  <1>2. \A q \in Procs \ {p} : want'[q] = want[q] /\ (q \in woken => q \in woken')
    BY <1>1 DEF QueryUnready, WaitWoken, WaitTimeout, DropQueues,
       DestroyGrace, CloseEnd, ReleaseEnd, ResetFails, Return
  <1>3. CASE QueryUnready(p) /\ pc' = [pc EXCEPT ![p] = "asleep"]
    <2>1. Unready(want[p]) /\ UNCHANGED woken /\ pc[p] = "query"
      BY <1>3 DEF QueryUnready
    <2>2. UNCHANGED want
      BY <1>1, <1>3 DEF QueryUnready, Return, Goto
    <2> SUFFICES ASSUME NEW q \in Procs, (pc[q] = "asleep" /\ ~Unready(want[q]))'
                 PROVE  Heard(q)'
      BY DEF Sleepers
    <2>3. ~Unready(want[q]) BY <1>1, <2>2 DEF Unready, IsCur
    <2>4. pc[q] = "asleep" BY <1>1, <1>3, <2>1, <2>3
    <2>5. Heard(q) BY <2>3, <2>4 DEF Sleepers
    <2>6. \A r \in Procs : pc[r] \in Late => pc'[r] \in Late
      BY <1>1, <1>3, <2>1 DEF Late
    <2> QED BY <1>1, <2>1, <2>2, <2>5, <2>6 DEF Heard, IsCur
  <1>4. CASE ~(QueryUnready(p) /\ pc' = [pc EXCEPT ![p] = "asleep"])
    <2>1. PICK l \in {"user", "closed", "query", "drop", "stop", "hwclose", "mark"} :
            pc' = [pc EXCEPT ![p] = l] /\ (pc[p] \in Late => l \in Late)
      BY <1>4 DEF QueryUnready, WaitWoken, WaitTimeout, DropQueues,
         DestroyGrace, CloseEnd, ReleaseEnd, ResetFails, Return, Goto, Late
    <2>2. l \in Places /\ l # "asleep" BY DEF Places
    <2> QED BY <1>1, <1>2, <2>1, <2>2, SleepersMove
  <1> QED BY <1>3, <1>4

LEMMA SleepersUse ==
  ASSUME OInv, Sleepers, NEW p \in Procs, UserStep(p), ~IocSubmit(p)
  PROVE  Sleepers'
  <1>1. /\ TypeOK /\ pc \in [Procs -> Places] /\ want \in [Procs -> Nat]
        /\ UNCHANGED <<job, cur, pending, irqThread, woken>> /\ pc[p] \in {"user", "closed"}
    BY DEF OInv, IInv, TypeOK, ProcTypes, UserStep, FopOpen, FopRelease, IocOpen, IocClose,
       IocReset, IocCreateQueue, IocDestroyQueue, IocClrWfi, IocQuery, queueVars, hwVars,
       procVars
  <1>2. \A q \in Procs \ {p} : want'[q] = want[q]
    BY <1>1 DEF UserStep, FopOpen, FopRelease, IocOpen, IocClose,
       IocReset, IocCreateQueue, IocDestroyQueue, IocClrWfi, IocQuery, procVars
  <1>3. \/ UNCHANGED <<pc, want>>
        \/ \E l \in {"user", "closed", "query", "drop", "takeq"} : pc' = [pc EXCEPT ![p] = l]
    BY DEF UserStep, FopOpen, FopRelease, IocOpen, IocClose, IocReset, IocCreateQueue,
       IocDestroyQueue, IocClrWfi, IocQuery, Goto, procVars
  <1>4. CASE UNCHANGED <<pc, want>> BY <1>1, <1>4, SleepersStay
  <1>5. ASSUME NEW l \in {"user", "closed", "query", "drop", "takeq"},
               pc' = [pc EXCEPT ![p] = l]
        PROVE  Sleepers'
    <2>1. l \in Places /\ l # "asleep" /\ pc[p] \notin Late BY <1>1 DEF Places, Late
    <2> QED BY <1>1, <1>2, <1>5, <2>1, SleepersMove
  <1> QED BY <1>3, <1>4, <1>5

LEMMA SleepersNext == ASSUME OInv, Sleepers, [Next]_vars PROVE Sleepers'
  <1>1. CASE HardIrqNote \/ HardIrqAbort BY <1>1, SleepersIrq
  <1>2. CASE ThreadSuccess \/ ThreadAbort \/ ThreadStopped
    BY <1>2, SleepersWoken DEF ThreadSuccess, ThreadAbort, ThreadStopped
  <1>3. CASE \/ ThreadSpurious \/ UNCHANGED vars \/ HardIrqEnter
             \/ \E e \in Events : NpuEvent(e)
    <2>1. ASSUME UNCHANGED <<job, cur, pending, pc, want, woken>>,
                 irqThread' = irqThread \/ cur = Nobody
          PROVE  Sleepers'
      BY <2>1, SleepersStay
    <2>2. CASE ThreadSpurious BY <2>1, <2>2 DEF ThreadSpurious, queueVars, procVars
    <2>3. CASE UNCHANGED vars BY <2>1, <2>3 DEF vars, hwVars, queueVars, procVars
    <2>4. CASE HardIrqEnter BY <2>1, <2>4 DEF HardIrqEnter, queueVars, procVars
    <2>5. ASSUME NEW e \in Events, NpuEvent(e) PROVE Sleepers'
      BY <2>1, <2>5 DEF NpuEvent, queueVars, procVars
    <2> QED BY <1>3, <2>2, <2>3, <2>4, <2>5
  <1>4. ASSUME NEW p \in Procs, UserStep(p) PROVE Sleepers'
    BY <1>4, SleepersUse, SleepersSubmit
  <1>5. ASSUME NEW p \in Procs, KernelStep(p) \/ WaitTimeout(p) PROVE Sleepers'
    BY <1>5, SleepersQuery, SleepersGiveUp, SleepersWait DEF KernelStep
  <1> QED BY <1>1, <1>2, <1>3, <1>4, <1>5 DEF Next, HardIrq, IrqThread, Events

\* However many processes wait on /dev/npu.0, none sleeps on a job there is
\* something to report on, unless its wake-up is under way (npu_query,
\* npu_wake, npu_destroy_queue).
THEOREM WakeupsReach == Spec => []NoLostWakeup
  <1>1. Init => Sleepers BY DEF Init, Sleepers
  <1>2. OInv /\ Sleepers /\ [Next]_vars => Sleepers' BY SleepersNext
  <1>3. Sleepers => NoLostWakeup BY DEF Sleepers, Heard, NoLostWakeup, Late
  <1> QED BY <1>1, <1>2, <1>3, OInvAlways, PTL DEF Spec

-----------------------------------------------------------------------------
(* The device and the job it runs, whatever the NPU does *)

Ended   == cur # Nobody /\ job[cur].st = "success"
Aborted == cur # Nobody /\ job[cur].st = "abort"

\* A busy device has a job; only a destroy about to store NPU_DRAINING leaves
\* it one that no queue owns.
BusyOwns ==
  state = "BUSY" => cur # Nobody /\ (StateLockFree => ~job[cur].orphan)

\* A job that has aborted took the device out of service.
OutOfService == Aborted => state \notin {"BUSY", "IDLE"}

\* What waits, waits for a job of its queue.
BehindOwn == pending # <<>> => Survivor

Owned == BusyOwns /\ OutOfService /\ BehindOwn
QInv  == OInv /\ Owned

\* A process that goes from one place outside the drain to another leaves
\* state_lock alone.
LEMMA StillLocked ==
  ASSUME NEW p \in Procs, pc \in [Procs -> Places], NEW l, pc' = [pc EXCEPT ![p] = l],
         pc[p] # "drain"
  PROVE  StateLockFree' => StateLockFree
  BY DEF StateLockFree

\* What the calls leave alone: those that give nothing up,
LEMMA UseEffect ==
  ASSUME TypeOK, NEW p \in Procs, UserStep(p), ~IocSubmit(p)
  PROVE  UNCHANGED <<irq, irqThread, job, cur, state, reaped, pending, done>>
         /\ (StateLockFree' => StateLockFree)
  <1>1. /\ pc \in [Procs -> Places] /\ pc[p] \in {"user", "closed"}
        /\ UNCHANGED <<irq, irqThread, job, cur, state, reaped, pending, done>>
    BY DEF TypeOK, ProcTypes, UserStep, FopOpen, FopRelease, IocOpen,
       IocClose, IocReset, IocCreateQueue, IocDestroyQueue, IocClrWfi, IocQuery, hwVars,
       queueVars, procVars
  <1>2. \/ UNCHANGED pc
        \/ \E l \in {"user", "closed", "query", "drop", "takeq"} : pc' = [pc EXCEPT ![p] = l]
    BY DEF UserStep, FopOpen, FopRelease, IocOpen, IocClose, IocReset, IocCreateQueue,
       IocDestroyQueue, IocClrWfi, IocQuery, Goto, procVars
  <1> QED BY <1>1, <1>2, StillLocked DEF StateLockFree

\* those on their way that do not come near the running job,
LEMMA CallEffect ==
  ASSUME IInv, NEW p \in Procs,
         \/ QueryReady(p) \/ QueryUnready(p) \/ WaitWoken(p) \/ WaitTimeout(p)
         \/ DropQueues(p) \/ DestroyPending(p) \/ DestroyGrace(p) \/ ResetFails(p)
         \/ CloseEnd(p) \/ ReleaseEnd(p)
  PROVE  /\ UNCHANGED <<irq, irqThread, cur, state, reaped>>
         /\ pending' \in {pending, <<>>}
         /\ StateLockFree' => StateLockFree
         /\ cur # Nobody => job'[cur] = job[cur]
  <1>1. /\ pc \in [Procs -> Places] /\ pc[p] # "drain"
        /\ cur \in Jobs \cup {Nobody} /\ job \in [Jobs -> JobType]
        /\ done \in Seq(Jobs)
    BY DEF IInv, TypeOK, ProcTypes, QueueTypes, QueryReady, QueryUnready,
       WaitWoken, WaitTimeout, DropQueues, DestroyPending, DestroyGrace, ResetFails,
       CloseEnd, ReleaseEnd
  <1>2. UNCHANGED <<irq, irqThread, cur, state, reaped>> /\ pending' \in {pending, <<>>}
    BY DEF QueryReady, QueryUnready, WaitWoken, WaitTimeout, DropQueues, DestroyPending,
       DestroyGrace, ResetFails, CloseEnd, ReleaseEnd, hwVars, queueVars
  <1>3. \E l \in Places : pc' = [pc EXCEPT ![p] = l]
    BY DEF QueryReady, QueryUnready, WaitWoken, WaitTimeout, DropQueues, DestroyPending,
       DestroyGrace, ResetFails, CloseEnd, ReleaseEnd, Goto, Return, Places
  <1>4. StateLockFree' => StateLockFree BY <1>1, <1>3, StillLocked
  <1>5. cur # Nobody => job'[cur] = job[cur]
    <2>1. CASE QueryReady(p)
      <3>1. \A i \in 1..Len(done) : done[i] \in Elems(done) BY DEF Elems
      <3>2. cur # Nobody => cur \notin Elems(done) BY DEF IInv, JobsAccounted
      <3> QED BY <1>1, <2>1, <3>1, <3>2 DEF QueryReady, Free, IsCollected
    <2>2. CASE DestroyPending(p)
      BY <1>1, <2>2 DEF DestroyPending, Free, IInv, JobsAccounted
    <2>3. CASE ~QueryReady(p) /\ ~DestroyPending(p)
      BY <2>3 DEF QueryUnready, WaitWoken, WaitTimeout, DropQueues,
         DestroyGrace, ResetFails, CloseEnd, ReleaseEnd, queueVars
    <2> QED BY <2>1, <2>2, <2>3
  <1> QED BY <1>2, <1>4, <1>5

\* and the one that orphans it.
LEMMA OrphanEffect ==
  ASSUME IInv, NEW p \in Procs, DestroyMark(p) \/ DestroyDrain(p)
  PROVE  /\ UNCHANGED <<hw, irq, cur, reaped>> /\ pending' = <<>>
         /\ state' \in {state, "DRAINING"}
         /\ cur # Nobody => job'[cur].st = job[cur].st
         /\ state' = "BUSY" /\ StateLockFree' =>
              StateLockFree /\ (cur # Nobody => job'[cur] = job[cur])
  <1>1. /\ job \in [Jobs -> JobType] /\ cur \in Jobs \cup {Nobody} /\ pc \in [Procs -> Places]
        /\ UNCHANGED <<hw, irq, cur, reaped>> /\ cur \notin Elems(done)
        /\ pending' = <<>>
    BY MarkEffect DEF IInv, TypeOK, QueueTypes, ProcTypes, JobsAccounted, DestroyMark,
       DestroyDrain, hwVars
  <1>2. CASE DestroyMark(p) /\ MustDrain
    <2>1. pc'[p] = "drain" /\ state' = state BY <1>1, <1>2 DEF DestroyMark, Goto
    <2>2. cur # Nobody => job'[cur].st = job[cur].st
      BY <1>1, <1>2 DEF DestroyMark, JobType
    <2>3. ~StateLockFree' BY <2>1 DEF StateLockFree
    <2> QED BY <1>1, <2>1, <2>2, <2>3
  <1>3. CASE DestroyMark(p) /\ ~MustDrain
    <2> DEFINE marked == IF Survivor THEN [job EXCEPT ![cur].orphan = TRUE] ELSE job
    <2>1. DestroyEnd(p, marked) /\ StateLockFree /\ state' = state
      BY <1>3 DEF DestroyMark
    <2>2. cur # Nobody => /\ marked[cur].st = job[cur].st
                          /\ state = "BUSY" => marked[cur] = job[cur]
      BY <1>1, <1>3 DEF MustDrain, JobType
    <2> HIDE DEF marked
    <2>3. cur # Nobody => job'[cur] = marked[cur]
      BY <1>1, <2>1 DEF DestroyEnd
    <2> QED BY <1>1, <2>1, <2>2, <2>3
  <1>4. CASE DestroyDrain(p)
    <2>1. state' = "DRAINING" /\ (cur # Nobody => job'[cur] = job[cur])
      BY <1>1, <1>4 DEF DestroyDrain, DestroyEnd
    <2> QED BY <1>1, <2>1
  <1> QED BY <1>2, <1>3, <1>4

\* What the hard handler may do to the job that runs.
LEMMA IrqEffect ==
  ASSUME IInv, HardIrqNote \/ HardIrqAbort
  PROVE  /\ UNCHANGED <<cur, reaped, pc, pending>> /\ state' \in {state, "ABORTED"}
         /\ cur # Nobody =>
              /\ job'[cur].orphan = job[cur].orphan
              /\ irq.job # cur => job'[cur] = job[cur]
              /\ irq.job = cur /\ HardIrqNote =>
                   "DFX" \notin irq.st /\ job'[cur].st = IrqStatus(job[cur].st, irq.st)
              /\ irq.job = cur /\ HardIrqAbort =>
                   "DFX" \in irq.st /\ job'[cur].st = "abort"
         /\ HardIrqAbort => state' = "ABORTED"
  <1>1. /\ cur \in Jobs \cup {Nobody} /\ job \in [Jobs -> JobType]
        /\ cur # Nobody => Live(cur)
    BY DEF IInv, TypeOK, QueueTypes, JobsAccounted
  <1>2. /\ UNCHANGED <<cur, reaped, pc, pending>> /\ state' \in {state, "ABORTED"}
        /\ HardIrqAbort => state' = "ABORTED"
    BY DEF HardIrqNote, HardIrqAbort, procVars
  <1>3. cur # Nobody => /\ job'[cur].orphan = job[cur].orphan
                        /\ irq.job # cur => job'[cur] = job[cur]
    BY <1>1, IrqKeepsJobs DEF IInv
  <1>4. cur # Nobody /\ irq.job = cur /\ HardIrqNote =>
          "DFX" \notin irq.st /\ job'[cur].st = IrqStatus(job[cur].st, irq.st)
    BY <1>1 DEF HardIrqNote, JobType
  <1>5. cur # Nobody /\ irq.job = cur /\ HardIrqAbort =>
          "DFX" \in irq.st /\ job'[cur].st = "abort"
    BY <1>1 DEF HardIrqAbort, JobType
  <1> QED BY <1>2, <1>3, <1>4, <1>5

\* The job that is started next, when another has ended.
LEMMA NextEffect ==
  ASSUME OInv, ThreadSuccess, pending # <<>>
  PROVE  /\ cur' = Head(pending) /\ pending' = Tail(pending) /\ state' = state
         /\ cur' \in Jobs \ {cur, reaped} /\ cur' # Nobody
         /\ job'[cur'].st = "process" /\ ~job'[cur'].orphan /\ hw' = HwStart(hw)
  <1>1. /\ cur \in Jobs /\ job \in [Jobs -> JobType] /\ pending \in Seq(Jobs)
        /\ Elems(pending) \subseteq Jobs
    BY ElemsIn DEF ThreadSuccess, OInv, IInv, TypeOK, QueueTypes
  <1> DEFINE j == Head(pending)
  <1>2. j \in Elems(pending) BY <1>1, ElemsFirst
  <1>3. /\ cur' = j /\ state' = state /\ hw' = HwStart(hw) /\ pending' = Tail(pending)
        /\ job' = [RetiredJobs EXCEPT ![j].st = "process"]
    BY DEF ThreadSuccess
  <1>4. j # cur /\ j # reaped /\ ~job[j].orphan /\ j \in Jobs /\ j # Nobody
    BY <1>1, <1>2, NpuAssumption DEF OInv, IInv, JobsAccounted, WaitsBehind
  <1> HIDE DEF j
  <1>5. RetiredJobs[j] = job[j] /\ RetiredJobs \in [Jobs -> JobType]
    BY <1>1, <1>4, NoMemoryType DEF RetiredJobs, Free
  <1>6. job'[j].st = "process" /\ job'[j].orphan = job[j].orphan
    BY <1>3, <1>4, <1>5 DEF JobType
  <1> QED BY <1>3, <1>4, <1>6 DEF j

LEMMA OwnedSame ==
  ASSUME Owned, cur' = cur, state' \in {state, "ABORTED", "DRAINING"},
         pending' \in {pending, <<>>},
         cur # Nobody => /\ job'[cur].st = job[cur].st \/ state' = "ABORTED"
                            \/ job'[cur].st # "abort"
                         /\ pending' # <<>> => job'[cur].orphan = job[cur].orphan,
         state' = "BUSY" /\ StateLockFree' =>
           StateLockFree /\ (cur # Nobody => job'[cur].orphan = job[cur].orphan)
  PROVE  Owned'
  <1>1. BusyOwns' BY DEF Owned, BusyOwns
  <1>2. OutOfService' BY DEF Owned, OutOfService, Aborted
  <1>3. BehindOwn' BY DEF Owned, BehindOwn, Survivor
  <1> QED BY <1>1, <1>2, <1>3 DEF Owned

LEMMA OwnedNext == ASSUME OInv, Owned, [Next]_vars PROVE Owned'
  <1>0. cur \in Jobs \cup {Nobody} /\ IInv BY DEF OInv, IInv, TypeOK, QueueTypes
  <1>1. CASE HardIrqNote \/ HardIrqAbort
    <2>1. cur # Nobody /\ HardIrqNote =>
            job'[cur].st = job[cur].st \/ job'[cur].st # "abort"
      BY <1>0, <1>1, IrqEffect DEF IrqStatus
    <2>2. StateLockFree' <=> StateLockFree BY <1>0, <1>1, IrqEffect DEF StateLockFree
    <2> QED BY <1>0, <1>1, <2>1, <2>2, IrqEffect, OwnedSame
  <1>2. CASE ThreadSuccess
    <2>1. UNCHANGED pc BY <1>2 DEF ThreadSuccess
    <2>2. CASE pending = <<>>
      <3>1. cur' = Nobody /\ state' = "IDLE" /\ pending' = <<>>
        BY <1>2, <2>2 DEF ThreadSuccess
      <3> QED BY <3>1 DEF Owned, BusyOwns, OutOfService, Aborted, BehindOwn
    <2>3. CASE pending # <<>>
      BY <1>2, <2>1, <2>3, NextEffect
      DEF Owned, BusyOwns, OutOfService, Aborted, BehindOwn, Survivor
    <2> QED BY <2>2, <2>3
  <1>3. CASE ThreadAbort
    <2>1. cur' = Nobody /\ state' = state /\ pending' = <<>> /\ Aborted
      BY <1>3 DEF ThreadAbort, Aborted
    <2>2. state # "BUSY" BY <2>1 DEF Owned, OutOfService
    <2>3. ~Aborted' BY <2>1 DEF Aborted
    <2> QED BY <2>1, <2>2, <2>3 DEF Owned, BusyOwns, OutOfService, BehindOwn
  <1>4. ASSUME UNCHANGED <<job, cur, state, pending, pc>> PROVE Owned'
    BY <1>4, OwnedSame DEF StateLockFree
  <1>5. CASE ThreadSpurious \/ ThreadStopped \/ UNCHANGED vars \/ HardIrqEnter
    BY <1>4, <1>5 DEF ThreadSpurious, ThreadStopped, HardIrqEnter, vars, queueVars, procVars
  <1>6. ASSUME NEW e \in Events, NpuEvent(e) PROVE Owned'
    BY <1>4, <1>6 DEF NpuEvent, queueVars, procVars
  <1>7. ASSUME NEW p \in Procs, UserStep(p), ~IocSubmit(p) PROVE Owned'
    BY <1>0, <1>7, UseEffect, OwnedSame DEF IInv
  <1>8. ASSUME NEW p \in Procs, IocSubmit(p) PROVE Owned'
    <2>1. PICK j \in Jobs :
            /\ j # cur /\ \A k \in Jobs \ {j} : job'[k] = job[k]
            /\ ~job'[j].orphan
            /\ \/ /\ state = "IDLE" /\ cur' = j /\ pending' = pending
                  /\ job'[j].st = "process" /\ state' = "BUSY"
               \/ state = "BUSY" /\ cur' = cur /\ state' = state
      BY <1>0, <1>8, SubmitEffect
    <2>2. j # Nobody /\ StateLockFree BY NpuAssumption, <1>8 DEF IocSubmit
    <2>3. CASE state = "IDLE"
      BY <2>1, <2>2, <2>3
      DEF OInv, WaitsBehind, Owned, BusyOwns, OutOfService, Aborted, BehindOwn
    <2>4. CASE state = "BUSY"
      <3>1. cur # Nobody /\ ~job[cur].orphan /\ cur' = cur /\ state' = state
        BY <2>1, <2>2, <2>4 DEF Owned, BusyOwns
      <3>2. job'[cur] = job[cur] BY <1>0, <2>1, <3>1
      <3> QED BY <3>1, <3>2 DEF Owned, BusyOwns, OutOfService, Aborted, BehindOwn, Survivor
    <2> QED BY <2>1, <2>3, <2>4
  <1>9. ASSUME NEW p \in Procs, KernelStep(p) \/ WaitTimeout(p) PROVE Owned'
    <2>1. CASE DestroyMark(p) \/ DestroyDrain(p)
      BY <1>0, <2>1, OrphanEffect, OwnedSame
    <2>2. CASE ResetStop(p) /\ NeedsReset
      <3>1. cur' = Nobody /\ state' = "IDLE" /\ pending' = <<>>
        BY <1>0, <2>2, ResetEffect DEF ResetStop
      <3> QED BY <3>1 DEF Owned, BusyOwns, OutOfService, Aborted, BehindOwn
    <2>3. CASE ResetStop(p) /\ ~NeedsReset
      <3>1. /\ UNCHANGED <<job, cur, state, pending>> /\ pc[p] = "stop"
            /\ pc' = [pc EXCEPT ![p] = "sync"] /\ pc \in [Procs -> Places]
        BY <1>0, <2>3 DEF ResetStop, Goto, IInv, TypeOK, ProcTypes
      <3>2. StateLockFree' => StateLockFree BY <3>1, StillLocked
      <3> QED BY <3>1, <3>2, OwnedSame
    <2>4. CASE ResetEnd(p)
      <3>1. UNCHANGED <<cur, state, pending>> /\ pc[p] = "sync" BY <2>4 DEF ResetEnd
      <3>2. cur = Nobody BY <1>0, <3>1 DEF IInv, GivingUp, AtRestInSync
      <3> QED BY <3>1, <3>2, <1>0 DEF Owned, BusyOwns, OutOfService, Aborted, BehindOwn, Survivor
    <2>5. CASE \/ QueryReady(p) \/ QueryUnready(p) \/ WaitWoken(p) \/ WaitTimeout(p)
               \/ DropQueues(p) \/ DestroyPending(p) \/ DestroyGrace(p) \/ ResetFails(p)
               \/ CloseEnd(p) \/ ReleaseEnd(p)
      BY <1>0, <2>5, CallEffect, OwnedSame
    <2> QED BY <1>9, <2>1, <2>2, <2>3, <2>4, <2>5 DEF KernelStep
  <1> QED BY <1>1, <1>2, <1>3, <1>5, <1>6, <1>7, <1>8, <1>9
          DEF Next, HardIrq, IrqThread, Events

LEMMA QInvAlways == Spec => []QInv
  <1>1. Init => Owned
    BY DEF Init, Owned, BusyOwns, OutOfService, Aborted, BehindOwn
  <1>2. OInv /\ Owned /\ [Next]_vars => Owned' BY OwnedNext
  <1> QED BY <1>1, <1>2, OInvAlways, PTL DEF Spec, QInv

-----------------------------------------------------------------------------
(* The NPU beneath the device *)

\* The hard handler is between its two halves with the job that still runs.
Handled == irq.on /\ irq.job # Nobody /\ irq.job = cur

\* The NPU has nothing to do and nothing to say.
Resting(h) == h.eng = "rest" /\ h.lat = {}

AtRest ==
  /\ "DONE" \in hw.lat => hw.eng = "rest"
  /\ state = "IDLE" => Resting(hw)
  /\ Ended => Resting(hw)
  /\ Handled /\ "DONE" \in irq.st => hw.eng = "rest" /\ hw.lat \subseteq irq.st

\* The job the hard handler holds still runs, or waits for synchronize_irq.
HandlerSafe == irq.on /\ irq.job # Nobody => irq.job \in {cur, reaped}

\* An NPU that reports nothing after an error: the handler cannot be holding a
\* job whose end is already known.
NothingMore ==
  DfxFinal => /\ "DFX" \in hw.lat => hw.eng = "failed"
              /\ Handled => ~Ended /\ ~Aborted
              /\ Handled /\ "DFX" \in irq.st => hw.eng = "failed"
              /\ Aborted => hw.eng = "failed" /\ (hw.en => hw.lat = {})

Dev  == AtRest /\ HandlerSafe /\ NothingMore
DInv == QInv /\ Dev

\* While the handler thread runs: on one core the hard handler cannot be under
\* way, and on several the NPU must be one that reports nothing after an error.
Calm == DfxFinal \/ ~irq.on

\* Steps that neither move a job nor start the engine.
LEMMA DevSame ==
  ASSUME Dev, UNCHANGED <<irq, cur, reaped>>, state' = "IDLE" => state = "IDLE",
         hw'.eng = hw.eng, hw'.lat \subseteq hw.lat, hw'.en => hw.en \/ hw'.lat = {},
         cur # Nobody => job'[cur].st = job[cur].st
  PROVE  Dev'
  <1>1. (Ended' <=> Ended) /\ (Aborted' <=> Aborted) /\ (Handled' <=> Handled)
    BY DEF Ended, Aborted, Handled
  <1>2. AtRest' BY <1>1 DEF Dev, AtRest, Resting
  <1>3. HandlerSafe' BY DEF Dev, HandlerSafe
  <1>4. NothingMore' BY <1>1 DEF Dev, NothingMore
  <1> QED BY <1>2, <1>3, <1>4 DEF Dev

LEMMA DevEvent ==
  ASSUME TypeOK, Dev, NEW e \in Events, NpuEvent(e) PROVE Dev'
  <1>1. hw \in NpuType /\ hw.eng \in {"run", "failed"} /\ (DfxFinal => hw.eng = "run")
    BY DEF NpuEvent, TypeOK, HwTypes
  <1>2. /\ hw'.lat = hw.lat \cup {e} /\ hw'.en = hw.en
        /\ e = "DONE" => hw'.eng = "rest"
        /\ e = "DFX" => hw'.eng = "failed"
        /\ UNCHANGED <<irq, job, cur, state, reaped>>
    BY <1>1 DEF NpuEvent, Events, NpuType, queueVars, procVars
  <1>3. (Ended' <=> Ended) /\ (Aborted' <=> Aborted) /\ (Handled' <=> Handled)
    BY <1>2 DEF Ended, Aborted, Handled
  <1>4. AtRest' BY <1>1, <1>2, <1>3 DEF Dev, AtRest, Resting
  <1>5. HandlerSafe' BY <1>2 DEF Dev, HandlerSafe
  <1>6. NothingMore' BY <1>1, <1>2, <1>3 DEF Dev, NothingMore
  <1> QED BY <1>4, <1>5, <1>6 DEF Dev

LEMMA DevEnter == ASSUME Dev, HardIrqEnter PROVE Dev'
  <1>1. /\ irq' = [on |-> TRUE, job |-> cur, st |-> hw.lat]
        /\ hw.en /\ hw.lat # {} /\ UNCHANGED <<hw, job, cur, state, reaped>>
    BY DEF HardIrqEnter, queueVars, procVars
  <1>2. (Ended' <=> Ended) /\ (Aborted' <=> Aborted) /\ (Handled' => cur # Nobody)
    BY <1>1 DEF Ended, Aborted, Handled
  <1>3. ~Ended BY <1>1 DEF Dev, AtRest, Resting
  <1>4. AtRest' BY <1>1, <1>2 DEF Dev, AtRest, Resting
  <1>5. HandlerSafe' BY <1>1 DEF HandlerSafe
  <1>6. NothingMore' BY <1>1, <1>2, <1>3 DEF Dev, NothingMore
  <1> QED BY <1>4, <1>5, <1>6 DEF Dev

LEMMA DevIrq == ASSUME IInv, Dev, HardIrqNote \/ HardIrqAbort PROVE Dev'
  <1>1. hw \in NpuType /\ irq.on /\ ~irq'.on
    BY DEF IInv, TypeOK, HwTypes, HardIrqNote, HardIrqAbort, Quiet
  <1>2. /\ hw'.eng = hw.eng /\ hw'.lat \subseteq hw.lat /\ (hw'.en => hw.en)
        /\ HardIrqNote => hw'.lat = hw.lat \ irq.st
        /\ HardIrqAbort => ~hw'.en
    BY <1>1 DEF HardIrqNote, HardIrqAbort, NpuType
  <1>3. UNCHANGED <<cur, reaped>> /\ state' \in {state, "ABORTED"}
    BY IrqEffect
  <1>4. ~Handled' /\ HandlerSafe' BY <1>1 DEF Handled, HandlerSafe
  <1>5. CASE ~Handled
    <2>1. cur # Nobody => job'[cur] = job[cur] BY <1>1, <1>5, IrqEffect DEF Handled
    <2>2. (Ended' <=> Ended) /\ (Aborted' <=> Aborted)
      BY <1>3, <2>1 DEF Ended, Aborted
    <2>3. AtRest' BY <1>2, <1>3, <1>4, <2>2 DEF Dev, AtRest, Resting
    <2>4. NothingMore' BY <1>2, <1>4, <2>2 DEF Dev, NothingMore
    <2> QED BY <1>4, <2>3, <2>4 DEF Dev
  <1>6. CASE Handled /\ HardIrqNote
    <2>1. cur # Nobody /\ job'[cur].st = IrqStatus(job[cur].st, irq.st) /\ "DFX" \notin irq.st
      BY <1>6, IrqEffect DEF Handled
    <2>2. (Ended' => Ended \/ "DONE" \in irq.st) /\ (Aborted' => Aborted)
      BY <1>3, <2>1 DEF Ended, Aborted, IrqStatus
    <2>3. AtRest' BY <1>2, <1>3, <1>4, <1>6, <2>2 DEF Dev, AtRest, Resting
    <2>4. NothingMore' BY <1>2, <1>4, <2>2 DEF Dev, NothingMore
    <2> QED BY <1>4, <2>3, <2>4 DEF Dev
  <1>7. CASE Handled /\ HardIrqAbort
    <2>1. "DFX" \in irq.st /\ state' = "ABORTED" /\ job'[cur].st = "abort"
      BY <1>7, IrqEffect DEF Handled
    <2>2. AtRest' BY <1>2, <1>3, <1>4, <2>1 DEF Dev, AtRest, Resting, Ended
    <2>3. NothingMore' BY <1>2, <1>4, <1>7, <2>1 DEF Dev, NothingMore
    <2> QED BY <1>4, <2>2, <2>3 DEF Dev
  <1> QED BY <1>5, <1>6, <1>7

LEMMA DevSuccess == ASSUME OInv, Dev, Calm, ThreadSuccess PROVE Dev'
  <1>1. /\ Ended /\ Resting(hw) /\ hw \in NpuType /\ UNCHANGED <<irq, reaped>>
    BY DEF ThreadSuccess, Ended, Dev, AtRest, OInv, IInv, TypeOK, HwTypes
  <1>2. irq.on /\ irq.job # Nobody => irq.job = reaped
    BY <1>1 DEF Calm, Dev, HandlerSafe, NothingMore, Handled
  <1>3. HandlerSafe' BY <1>1, <1>2 DEF HandlerSafe
  <1>4. CASE pending = <<>>
    <2>1. cur' = Nobody /\ state' = "IDLE" /\ hw' = hw BY <1>4 DEF ThreadSuccess
    <2>2. ~Ended' /\ ~Aborted' /\ ~Handled' BY <2>1 DEF Ended, Aborted, Handled
    <2>3. AtRest' BY <1>1, <2>1, <2>2 DEF AtRest, Resting
    <2>4. NothingMore' BY <1>1, <2>1, <2>2 DEF NothingMore, Resting
    <2> QED BY <1>3, <2>3, <2>4 DEF Dev
  <1>5. CASE pending # <<>>
    <2>1. /\ cur' # reaped /\ job'[cur'].st = "process" /\ state' = state
          /\ hw' = HwStart(hw)
      BY <1>5, NextEffect
    <2>2. hw'.lat = {} /\ hw'.en = hw.en BY <1>1, <2>1 DEF HwStart, NpuType, Resting
    <2>3. ~Ended' /\ ~Aborted' /\ ~Handled'
      BY <1>1, <1>2, <2>1 DEF Ended, Aborted, Handled
    <2>4. state # "IDLE" BY <1>1 DEF OInv, IInv, IdleHasNone, Ended
    <2>5. AtRest' BY <2>1, <2>2, <2>3, <2>4 DEF AtRest
    <2>6. NothingMore' BY <2>2, <2>3 DEF NothingMore
    <2> QED BY <1>3, <2>5, <2>6 DEF Dev
  <1> QED BY <1>4, <1>5

LEMMA DevAbort == ASSUME QInv, Dev, Calm, ThreadAbort PROVE Dev'
  <1>1. /\ Aborted /\ cur' = Nobody /\ UNCHANGED <<irq, reaped, state, hw>>
    BY DEF ThreadAbort, Aborted
  <1>2. irq.on /\ irq.job # Nobody => irq.job = reaped
    BY <1>1 DEF Calm, Dev, HandlerSafe, NothingMore, Handled
  <1>3. ~Ended' /\ ~Aborted' /\ ~Handled' /\ state # "IDLE"
    BY <1>1 DEF Ended, Aborted, Handled, QInv, Owned, OutOfService
  <1>4. AtRest' BY <1>1, <1>3 DEF Dev, AtRest, Resting
  <1>5. HandlerSafe' BY <1>1, <1>2 DEF HandlerSafe
  <1>6. NothingMore' BY <1>1, <1>3 DEF Dev, NothingMore
  <1> QED BY <1>4, <1>5, <1>6 DEF Dev

LEMMA DevSubmit == ASSUME IInv, Dev, NEW p \in Procs, IocSubmit(p) PROVE Dev'
  <1>1. PICK j \in Jobs :
          /\ j \notin {cur, reaped} /\ \A k \in Jobs \ {j} : job'[k] = job[k]
          /\ \/ /\ state = "IDLE" /\ cur = Nobody /\ cur' = j
                /\ job'[j].st = "process" /\ state' = "BUSY" /\ hw' = HwStart(hw)
             \/ state = "BUSY" /\ cur' = cur /\ UNCHANGED <<state, hw>>
          /\ UNCHANGED reaped
    BY SubmitEffect
  <1>2. irq' = irq /\ hw \in NpuType /\ cur \in Jobs \cup {Nobody}
    BY DEF IocSubmit, Queued, IInv, TypeOK, HwTypes, QueueTypes
  <1>3. CASE state = "BUSY"
    <2>1. UNCHANGED <<cur, state, hw>> BY <1>1, <1>3
    <2>2. cur # Nobody => job'[cur] = job[cur] BY <1>1, <1>2
    <2> QED BY <1>1, <1>2, <2>1, <2>2, DevSame
  <1>4. CASE state = "IDLE"
    <2>1. /\ cur' = j /\ job'[j].st = "process" /\ state' = "BUSY" /\ cur = Nobody
          /\ hw'.lat = {} /\ hw'.en = hw.en
      BY <1>1, <1>2, <1>4 DEF Dev, AtRest, Resting, HwStart, NpuType
    <2>2. irq.on /\ irq.job # Nobody => irq.job = reaped
      BY <2>1 DEF Dev, HandlerSafe
    <2>3. ~Ended' /\ ~Aborted' /\ ~Handled'
      BY <1>1, <1>2, <2>1, <2>2 DEF Ended, Aborted, Handled
    <2>4. AtRest' BY <2>1, <2>3 DEF AtRest
    <2>5. HandlerSafe' BY <1>1, <1>2, <2>2 DEF HandlerSafe
    <2>6. NothingMore' BY <2>1, <2>3 DEF NothingMore
    <2> QED BY <2>4, <2>5, <2>6 DEF Dev
  <1> QED BY <1>1, <1>3, <1>4

\* The calls that give nothing up, and the NPU let past a sync point.
LEMMA DevUse ==
  ASSUME TypeOK, Dev, NEW p \in Procs, UserStep(p), ~IocSubmit(p) PROVE Dev'
  <1>1. hw \in NpuType /\ UNCHANGED <<irq, job, cur, state, reaped>>
    BY UseEffect DEF TypeOK, HwTypes
  <1>2. CASE FopOpen(p)
    <2>1. hw'.eng = hw.eng /\ hw'.lat = hw.lat /\ hw'.en = hw.en
      BY <1>1, <1>2 DEF FopOpen, NpuType
    <2> QED BY <1>1, <2>1, DevSame
  <1>3. CASE IocOpen(p)
    <2>1. hw'.eng = hw.eng /\ (hw'.lat = {} \/ hw' = hw)
      BY <1>1, <1>3 DEF IocOpen, HwOpen, NpuType
    <2> QED BY <1>1, <2>1, DevSame
  <1>4. CASE IocClrWfi(p)
    <2>1. hw.eng = "held" /\ hw'.lat = hw.lat /\ hw'.en = hw.en
      BY <1>1, <1>4 DEF IocClrWfi, NpuType
    <2>2. (Ended' <=> Ended) /\ (Aborted' <=> Aborted) /\ (Handled' <=> Handled)
      BY <1>1 DEF Ended, Aborted, Handled
    <2>3. AtRest' BY <1>1, <2>1, <2>2 DEF Dev, AtRest, Resting
    <2>4. HandlerSafe' BY <1>1 DEF Dev, HandlerSafe
    <2>5. NothingMore' BY <1>1, <2>1, <2>2 DEF Dev, NothingMore
    <2> QED BY <2>3, <2>4, <2>5 DEF Dev
  <1>5. CASE ~FopOpen(p) /\ ~IocOpen(p) /\ ~IocClrWfi(p)
    <2>1. UNCHANGED hw
      BY <1>5 DEF UserStep, FopRelease, IocClose, IocReset, IocCreateQueue,
         IocDestroyQueue, IocQuery, hwVars
    <2> QED BY <1>1, <2>1, DevSame
  <1> QED BY <1>2, <1>3, <1>4, <1>5

LEMMA HwCloseSame ==
  ASSUME NEW h \in NpuType
  PROVE  /\ HwClose(h) \in NpuType /\ HwClose(h).eng = h.eng
         /\ HwClose(h) = h \/ HwClose(h).lat = {}
  BY DEF HwClose, NpuType

LEMMA DevCall ==
  ASSUME IInv, Dev, NEW p \in Procs,
         \/ QueryReady(p) \/ QueryUnready(p) \/ WaitWoken(p) \/ WaitTimeout(p)
         \/ DropQueues(p) \/ DestroyPending(p) \/ DestroyGrace(p) \/ ResetFails(p)
         \/ CloseEnd(p) \/ ReleaseEnd(p)
  PROVE  Dev'
  <1>1. hw \in NpuType BY DEF IInv, TypeOK, HwTypes
  <1>2. /\ hw'.eng = hw.eng /\ hw'.lat \subseteq hw.lat
        /\ hw'.en => hw.en \/ hw'.lat = {}
    <2>1. CASE CloseEnd(p) BY <1>1, <2>1, HwCloseSame DEF CloseEnd
    <2>2. CASE ReleaseEnd(p)
      <3> DEFINE h == IF opened > 0 THEN HwClose(hw) ELSE hw
      <3>1. h \in NpuType /\ h.eng = hw.eng /\ (h = hw \/ h.lat = {})
        BY <1>1, HwCloseSame
      <3>2. hw' = [h EXCEPT !.clk = FALSE] BY <2>2 DEF ReleaseEnd
      <3> HIDE DEF h
      <3> QED BY <3>1, <3>2 DEF NpuType
    <2>3. CASE ~CloseEnd(p) /\ ~ReleaseEnd(p)
      BY <2>3 DEF QueryReady, QueryUnready, WaitWoken, WaitTimeout, DropQueues,
         DestroyPending, DestroyGrace, ResetFails, hwVars
    <2> QED BY <2>1, <2>2, <2>3
  <1> QED BY <1>2, CallEffect, DevSame

LEMMA DevReset ==
  ASSUME IInv, Dev, NEW p \in Procs, ResetStop(p) \/ ResetEnd(p) PROVE Dev'
  <1> USE DEF IInv
  <1>1. hw \in NpuType BY DEF TypeOK, HwTypes
  <1>2. CASE ResetStop(p) /\ NeedsReset
    <2>1. /\ reaped' = cur /\ cur' = Nobody /\ hw' = SoftReset(hw)
          /\ UNCHANGED irq /\ pc[p] = "stop"
      BY <1>2 DEF ResetStop
    <2>2. hw'.eng = "rest" /\ hw'.lat = {} BY <1>1, <2>1 DEF SoftReset, NpuType
    <2>3. reaped = Nobody
      BY <2>1, OneDestroys DEF GivingUp, ReapedInSync, Destroying
    <2>4. irq.on /\ irq.job # Nobody => irq.job = cur BY <2>3 DEF Dev, HandlerSafe
    <2>5. ~Ended' /\ ~Aborted' /\ ~Handled' BY <2>1 DEF Ended, Aborted, Handled
    <2>6. AtRest' BY <2>2, <2>5 DEF AtRest, Resting
    <2>7. HandlerSafe' BY <2>1, <2>4 DEF HandlerSafe
    <2>8. NothingMore' BY <2>2, <2>5 DEF NothingMore
    <2> QED BY <2>6, <2>7, <2>8 DEF Dev
  <1>3. CASE ResetStop(p) /\ ~NeedsReset
    <2>1. UNCHANGED <<irq, reaped, cur, state, hw, job>> BY <1>3 DEF ResetStop
    <2> QED BY <2>1, DevSame
  <1>4. CASE ResetEnd(p)
    <2>1. /\ UNCHANGED <<hw, irq, cur, state>> /\ pc[p] = "sync" /\ reaped' = Nobody
          /\ reaped # Nobody => ~irq.on
      BY <1>4 DEF ResetEnd, hwVars, IrqQuiet
    <2>2. cur = Nobody BY <2>1 DEF GivingUp, AtRestInSync
    <2>3. ~Ended' /\ ~Aborted' /\ ~Handled' BY <2>1, <2>2 DEF Ended, Aborted, Handled
    <2>4. AtRest' BY <2>1, <2>3 DEF Dev, AtRest, Resting
    <2>5. HandlerSafe' BY <2>1 DEF Dev, HandlerSafe
    <2>6. NothingMore' BY <2>1, <2>3 DEF Dev, NothingMore
    <2> QED BY <2>4, <2>5, <2>6 DEF Dev
  <1> QED BY <1>2, <1>3, <1>4

\* One core, where the hard handler cannot be overtaken, or an NPU that is
\* silent after an error.
MachineAssumed == DfxFinal \/ ~SMP

LEMMA DevNext == ASSUME MachineAssumed, QInv, Dev, [Next]_vars PROVE Dev'
  <1> USE DEF QInv, OInv, IInv
  <1>1. CASE HardIrqNote \/ HardIrqAbort BY <1>1, DevIrq
  <1>2. CASE HardIrqEnter BY <1>2, DevEnter
  <1>3. ASSUME NEW e \in Events, NpuEvent(e) PROVE Dev' BY <1>3, DevEvent
  <1>4. CASE Schedulable /\ (ThreadSuccess \/ ThreadAbort)
    <2>1. Calm BY <1>4 DEF MachineAssumed, Calm, Schedulable
    <2> QED BY <1>4, <2>1, DevSuccess, DevAbort
  <1>5. CASE ThreadSpurious \/ ThreadStopped \/ UNCHANGED vars
    <2>1. UNCHANGED <<hw, irq, cur, reaped, job, state>>
      BY <1>5 DEF ThreadSpurious, ThreadStopped, vars, hwVars, queueVars, procVars
    <2> QED BY <2>1, DevSame
  <1>6. ASSUME NEW p \in Procs, UserStep(p) PROVE Dev'
    BY <1>6, DevUse, DevSubmit
  <1>7. ASSUME NEW p \in Procs, DestroyMark(p) \/ DestroyDrain(p) PROVE Dev'
    BY <1>7, OrphanEffect, DevSame
  <1>8. ASSUME NEW p \in Procs, KernelStep(p) \/ WaitTimeout(p) PROVE Dev'
    BY <1>7, <1>8, DevCall, DevReset DEF KernelStep
  <1> QED BY <1>1, <1>2, <1>3, <1>4, <1>5, <1>6, <1>8 DEF Next, HardIrq, IrqThread, Events

LEMMA DInvAlways == ASSUME MachineAssumed PROVE Spec => []DInv
  <1>1. Init => Dev
    BY DEF Init, Dev, AtRest, HandlerSafe, NothingMore, Resting, Ended, Aborted, Handled,
           Quiet
  <1>2. QInv /\ Dev /\ [Next]_vars => Dev' BY DevNext
  <1> QED BY <1>1, <1>2, QInvAlways, PTL DEF Spec, DInv

\* Whatever is submitted, aborted, destroyed and reset, a busy device has a job
\* that a queue owns and an idle one has an NPU at rest (npu_submit,
\* npu_irq_thread, npu_destroy_queue).
THEOREM BusyHasOwner == ASSUME MachineAssumed PROVE Spec => []StateOwnsJob
  <1>1. DInv => StateOwnsJob
    BY DEF DInv, QInv, OInv, IInv, IdleHasNone, WaitsBehind, Dev, AtRest, Resting, Owned,
           BusyOwns, StateOwnsJob
  <1> QED BY <1>1, DInvAlways, PTL

\* The hard handler, which takes no lock, writes to no job that has been freed
\* (npu_irq, npu_retire, synchronize_irq in NPU_IOC_RESET).
THEOREM HandlerHoldsLive == ASSUME MachineAssumed PROVE Spec => []NoUseAfterFree
  <1>1. DInv => NoUseAfterFree
    BY DEF DInv, QInv, OInv, IInv, JobsAccounted, Dev, HandlerSafe, NoUseAfterFree, TypeOK,
           HwTypes, IrqType
  <1> QED BY <1>1, DInvAlways, PTL

\* No job is handed to an NPU that has yet to end another (npu_hw_start in
\* npu_submit and npu_irq_thread).
THEOREM JobsStartAtRest == ASSUME MachineAssumed PROVE Spec => StartsAtRest
  <1>1. ASSUME DInv, [Next]_vars, cur' # cur, cur' # Nobody PROVE hw.eng = "rest"
    <2> USE DEF DInv, Dev, AtRest, Resting
    <2>1. CASE ThreadSuccess BY <1>1, <2>1 DEF ThreadSuccess, Ended
    <2>2. ASSUME NEW p \in Procs, IocSubmit(p) PROVE hw.eng = "rest"
      BY <1>1, <2>2 DEF IocSubmit, Queued
    <2>3. ASSUME NEW p \in Procs, KernelStep(p) PROVE FALSE
      BY <1>1, <2>3 DEF KernelStep, QueryReady, QueryUnready, WaitWoken, DropQueues,
         DestroyPending, DestroyGrace, DestroyMark, DestroyDrain, CloseEnd, ReleaseEnd,
         ResetStop, ResetFails, ResetEnd, queueVars
    <2>4. ASSUME NEW p \in Procs, UserStep(p), ~IocSubmit(p) PROVE FALSE
      BY <1>1, <2>4 DEF UserStep, FopOpen, FopRelease, IocOpen, IocClose, IocReset,
         IocCreateQueue, IocDestroyQueue, IocClrWfi, IocQuery, queueVars
    <2>5. ASSUME NEW p \in Procs, WaitTimeout(p) PROVE FALSE
      BY <1>1, <2>5 DEF WaitTimeout, queueVars
    <2>6. CASE ThreadAbort BY <1>1, <2>6 DEF ThreadAbort
    <2>7. ASSUME UNCHANGED cur PROVE FALSE BY <1>1, <2>7
    <2>8. CASE ThreadSpurious \/ ThreadStopped \/ UNCHANGED vars
      BY <2>7, <2>8 DEF ThreadSpurious, ThreadStopped, vars, queueVars
    <2>9. CASE HardIrq
      BY <2>7, <2>9 DEF HardIrq, HardIrqEnter, HardIrqNote, HardIrqAbort, queueVars
    <2>10. ASSUME NEW e \in Events, NpuEvent(e) PROVE FALSE
      BY <2>7, <2>10 DEF NpuEvent, queueVars
    <2> QED BY <1>1, <2>1, <2>2, <2>3, <2>4, <2>5, <2>6, <2>8, <2>9, <2>10
            DEF Next, IrqThread, Events
  <1>2. DInv /\ [Next]_vars => [cur' # cur /\ cur' # Nobody => hw.eng = "rest"]_vars
    BY <1>1
  <1> QED BY <1>2, DInvAlways, PTL DEF Spec, StartsAtRest

-----------------------------------------------------------------------------
(* The queue that was promised *)

Entry == [id : Nat, st : {"ended", "waiting", "running", "stopped"}]

\* A line of entries, for the jobs of done, for one that may have the NPU, and
\* for the jobs of pending.
Owner(J, c) == c # Nobody /\ ~J[c].orphan
Taken(J, c) == IF Owner(J, c) THEN 1 ELSE 0

StoppedOr(st) == IF st = "stop" THEN "stopped" ELSE "running"

Describes(L, J, d, c, p) ==
  /\ L \in Seq(Entry) /\ Len(L) = Len(d) + Taken(J, c) + Len(p)
  /\ \A i \in 1..Len(d) : L[i].id = J[d[i]].id /\ L[i].st = "ended"
  /\ Owner(J, c) => /\ L[Len(d) + 1].id = J[c].id
                    /\ L[Len(d) + 1].st = StoppedOr(J[c].st)
  /\ \A i \in 1..Len(p) : /\ L[Len(d) + Taken(J, c) + i].id = J[p[i]].id
                           /\ L[Len(d) + Taken(J, c) + i].st = "waiting"

LEMMA LineSeqSame ==
  ASSUME NEW s \in Seq(Entry), NEW t \in Seq(Entry), Len(s) = Len(t),
         \A i \in 1..Len(s) : s[i].id = t[i].id /\ s[i].st = t[i].st
  PROVE  s = t
  <1>1. \A x, y \in Entry : x.id = y.id /\ x.st = y.st => x = y BY DEF Entry
  <1>2. \A i \in 1..Len(s) : s[i] \in Entry /\ t[i] \in Entry OBVIOUS
  <1>3. \A i \in 1..Len(s) : s[i] = t[i] BY <1>1, <1>2
  <1> QED BY <1>3

LEMMA FcnSeq ==
  ASSUME NEW S, NEW n \in Nat, NEW f \in [1..n -> S] PROVE f \in Seq(S) /\ Len(f) = n
  OBVIOUS

LEMMA SetStPoints ==
  ASSUME NEW L \in Seq(Entry), NEW S, NEW st \in {"ended", "waiting", "running", "stopped"}
  PROVE  /\ Queue!SetSt(L, S, st) \in Seq(Entry) /\ Len(Queue!SetSt(L, S, st)) = Len(L)
         /\ \A i \in 1..Len(L) : /\ Queue!SetSt(L, S, st)[i].id = L[i].id
                                 /\ i \in S => Queue!SetSt(L, S, st)[i].st = st
                                 /\ i \notin S => Queue!SetSt(L, S, st)[i].st = L[i].st
  <1> DEFINE N == Queue!SetSt(L, S, st)
  <1>1. N = [i \in 1..Len(L) |-> IF i \in S THEN [L[i] EXCEPT !.st = st] ELSE L[i]]
    BY DEF Queue!SetSt
  <1>2. \A i \in 1..Len(L) : L[i] \in Entry OBVIOUS
  <1>3. \A x \in Entry : /\ [x EXCEPT !.st = st] \in Entry /\ [x EXCEPT !.st = st].st = st
                         /\ [x EXCEPT !.st = st].id = x.id
    BY DEF Entry
  <1>4. N \in [1..Len(L) -> Entry] BY <1>1, <1>2, <1>3
  <1>5. Len(L) \in Nat OBVIOUS
  <1>6. N \in Seq(Entry) /\ Len(N) = Len(L) BY <1>4, <1>5, FcnSeq
  <1>7. \A i \in 1..Len(L) : /\ N[i].id = L[i].id
                             /\ i \in S => N[i].st = st
                             /\ i \notin S => N[i].st = L[i].st
    BY <1>1, <1>2, <1>3
  <1> QED BY <1>6, <1>7

LEMMA ConcatPoints ==
  ASSUME NEW S, NEW s \in Seq(S), NEW t \in Seq(S)
  PROVE  /\ s \o t \in Seq(S) /\ Len(s \o t) = Len(s) + Len(t)
         /\ \A i \in 1..Len(s) : (s \o t)[i] = s[i]
         /\ \A i \in 1..Len(t) : (s \o t)[Len(s) + i] = t[i]
  OBVIOUS

Pieces(l, S, a, b, c) ==
  /\ l \in Seq(S) /\ Len(l) = Len(a) + Len(b) + Len(c)
  /\ \A i \in 1..Len(a) : l[i] = a[i]
  /\ \A i \in 1..Len(b) : l[Len(a) + i] = b[i]
  /\ \A i \in 1..Len(c) : l[Len(a) + Len(b) + i] = c[i]

LEMMA ThreePoints ==
  ASSUME NEW S, NEW a \in Seq(S), NEW b \in Seq(S), NEW c \in Seq(S)
  PROVE  Pieces(a \o b \o c, S, a, b, c)
  <1>0. a \o b \in Seq(S) OBVIOUS
  <1>1. PICK A \in Seq(S) : A = a \o b BY <1>0, Zenon
  <1>2. /\ Len(A) = Len(a) + Len(b)
        /\ \A i \in 1..Len(a) : A[i] = a[i]
        /\ \A i \in 1..Len(b) : A[Len(a) + i] = b[i]
    BY <1>1, ConcatPoints
  <1>3. Len(a) \in Nat /\ Len(b) \in Nat /\ Len(c) \in Nat OBVIOUS
  <1>4. /\ A \o c \in Seq(S) /\ Len(A \o c) = Len(A) + Len(c)
        /\ \A i \in 1..Len(A) : (A \o c)[i] = A[i]
        /\ \A i \in 1..Len(c) : (A \o c)[Len(A) + i] = c[i]
    BY ConcatPoints
  <1>5. /\ \A i \in 1..Len(a) : i \in 1..Len(A)
        /\ \A i \in 1..Len(b) : Len(a) + i \in 1..Len(A)
    BY <1>2, <1>3
  <1>6. /\ \A i \in 1..Len(a) : (A \o c)[i] = a[i]
        /\ \A i \in 1..Len(b) : (A \o c)[Len(a) + i] = b[i]
    BY <1>2, <1>4, <1>5
  <1> QED BY <1>1, <1>2, <1>4, <1>6 DEF Pieces

\* Line and PromisedLine, said once for a state and the state after it.
LEMMA MidOne ==
  ASSUME NEW J, NEW c \in Jobs \cup {Nobody}, NEW M,
         M = IF c # Nobody /\ ~J[c].orphan THEN <<c>> ELSE <<>>
  PROVE  /\ M \in Seq(Jobs) /\ Taken(J, c) \in {0, 1} /\ Len(M) = Taken(J, c)
         /\ Taken(J, c) = 1 => M[1] = c
         /\ Owner(J, c) <=> Taken(J, c) = 1
  <1>1. CASE Owner(J, c) BY <1>1 DEF Owner, Taken
  <1>2. CASE ~Owner(J, c) BY <1>2 DEF Owner, Taken
  <1> QED BY <1>1, <1>2

LEMMA DescribesOne ==
  ASSUME NEW J \in [Jobs -> JobType], NEW d \in Seq(Jobs), NEW p \in Seq(Jobs),
         NEW c \in Jobs \cup {Nobody}, Elems(d) \cap Elems(p) = {},
         c \notin Elems(d) \cup Elems(p), NEW l \in Seq(Jobs), NEW m \in {0, 1},
         m = Taken(J, c), Len(l) = Len(d) + m + Len(p),
         \A i \in 1..Len(d) : l[i] = d[i],
         Owner(J, c) => l[Len(d) + 1] = c,
         \A i \in 1..Len(p) : l[Len(d) + m + i] = p[i],
         NEW L,
         L = [i \in 1..Len(l) |->
                [id |-> J[l[i]].id,
                 st |-> IF l[i] \in Elems(d) THEN "ended"
                        ELSE IF l[i] \in Elems(p) THEN "waiting"
                        ELSE IF J[l[i]].st = "stop" THEN "stopped" ELSE "running"]]
  PROVE  Describes(L, J, d, c, p)
  <1>1. (Owner(J, c) <=> m = 1) /\ Len(d) \in Nat /\ Len(p) \in Nat BY DEF Taken
  <1>2. \A i \in 1..Len(d) : i \in 1..Len(l) /\ d[i] \in Elems(d)
    BY <1>1 DEF Elems
  <1>3. \A i \in 1..Len(p) : Len(d) + m + i \in 1..Len(l) BY <1>1
  <1>4. \A i \in 1..Len(p) : p[i] \in Elems(p) /\ p[i] \notin Elems(d)
    <2>1. \A i \in 1..Len(p) : p[i] \in Elems(p) BY DEF Elems
    <2> QED BY <2>1
  <1>5. L \in Seq(Entry) /\ Len(L) = Len(l)
    <2>1. \A i \in 1..Len(l) : l[i] \in Jobs OBVIOUS
    <2>2. \A j \in Jobs : J[j].id \in Nat BY DEF JobType
    <2>3. \A i \in 1..Len(l) : L[i] \in Entry BY <2>1, <2>2 DEF Entry
    <2>4. L \in [1..Len(l) -> Entry] /\ Len(l) \in Nat BY <2>3
    <2> QED BY <2>4, FcnSeq
  <1>6. \A i \in 1..Len(d) : L[i].id = J[d[i]].id /\ L[i].st = "ended"
    BY <1>2
  <1>7. Owner(J, c) => /\ L[Len(d) + 1].id = J[c].id
                       /\ L[Len(d) + 1].st = StoppedOr(J[c].st)
    <2>1. Owner(J, c) => Len(d) + 1 \in 1..Len(l) BY <1>1
    <2> QED BY <2>1 DEF StoppedOr
  <1>8. \A i \in 1..Len(p) : /\ L[Len(d) + m + i].id = J[p[i]].id
                             /\ L[Len(d) + m + i].st = "waiting"
    BY <1>3, <1>4
  <1> QED BY <1>5, <1>6, <1>7, <1>8 DEF Describes

LEMMA Described ==
  ASSUME TypeOK, JobsAccounted PROVE Describes(PromisedLine, job, done, cur, pending)
  <1>1. /\ job \in [Jobs -> JobType] /\ done \in Seq(Jobs) /\ pending \in Seq(Jobs)
        /\ cur \in Jobs \cup {Nobody}
    BY DEF TypeOK, QueueTypes
  <1>2. Elems(done) \cap Elems(pending) = {} /\ cur \notin Elems(done) \cup Elems(pending)
    BY DEF JobsAccounted
  <1> DEFINE M == IF cur # Nobody /\ ~job[cur].orphan THEN <<cur>> ELSE <<>>
  <1>3. /\ M \in Seq(Jobs) /\ Taken(job, cur) \in {0, 1} /\ Len(M) = Taken(job, cur)
        /\ Taken(job, cur) = 1 => M[1] = cur
        /\ Owner(job, cur) <=> Taken(job, cur) = 1
    BY <1>1, MidOne
  <1>4. Line = done \o M \o pending BY DEF Line
  <1> HIDE DEF M
  <1>6. /\ Line \in Seq(Jobs) /\ Len(Line) = Len(done) + Taken(job, cur) + Len(pending)
        /\ \A i \in 1..Len(done) : Line[i] = done[i]
        /\ Owner(job, cur) => Line[Len(done) + 1] = cur
        /\ \A i \in 1..Len(pending) : Line[Len(done) + Taken(job, cur) + i] = pending[i]
    <2>1. Pieces(Line, Jobs, done, M, pending) BY <1>1, <1>3, <1>4, ThreePoints
    <2>2. Taken(job, cur) = 1 => 1 \in 1..Len(M) BY <1>3
    <2> QED BY <1>3, <2>1, <2>2 DEF Pieces
  <1>5. PromisedLine = [i \in 1..Len(Line) |->
                [id |-> job[Line[i]].id,
                 st |-> IF Line[i] \in Elems(done) THEN "ended"
                        ELSE IF Line[i] \in Elems(pending) THEN "waiting"
                        ELSE IF job[Line[i]].st = "stop" THEN "stopped" ELSE "running"]]
    BY DEF PromisedLine, Promised
  <1> QED BY <1>1, <1>2, <1>3, <1>5, <1>6, DescribesOne

LEMMA DescribedNext ==
  ASSUME TypeOK', JobsAccounted'
  PROVE  Describes(PromisedLine', job', done', cur', pending')
  <1>1. /\ job' \in [Jobs -> JobType] /\ done' \in Seq(Jobs) /\ pending' \in Seq(Jobs)
        /\ cur' \in Jobs \cup {Nobody}
    BY DEF TypeOK, QueueTypes
  <1>2. /\ Elems(done') \cap Elems(pending') = {}
        /\ cur' \notin Elems(done') \cup Elems(pending')
    BY DEF JobsAccounted, Elems
  <1> DEFINE M == IF cur' # Nobody /\ ~job'[cur'].orphan THEN <<cur'>> ELSE <<>>
  <1>3. /\ M \in Seq(Jobs) /\ Taken(job', cur') \in {0, 1} /\ Len(M) = Taken(job', cur')
        /\ Taken(job', cur') = 1 => M[1] = cur'
        /\ Owner(job', cur') <=> Taken(job', cur') = 1
    BY <1>1, MidOne
  <1>4. Line' = done' \o M \o pending' BY DEF Line
  <1> HIDE DEF M
  <1>6. /\ Line' \in Seq(Jobs) /\ Len(Line') = Len(done') + Taken(job', cur') + Len(pending')
        /\ \A i \in 1..Len(done') : Line'[i] = done'[i]
        /\ Owner(job', cur') => Line'[Len(done') + 1] = cur'
        /\ \A i \in 1..Len(pending') : Line'[Len(done') + Taken(job', cur') + i] = pending'[i]
    <2>1. Pieces(Line', Jobs, done', M, pending') BY <1>1, <1>3, <1>4, ThreePoints
    <2>2. Taken(job', cur') = 1 => 1 \in 1..Len(M) BY <1>3
    <2> QED BY <1>3, <2>1, <2>2 DEF Pieces
  <1>5. PromisedLine' = [i \in 1..Len(Line') |->
                [id |-> job'[Line'[i]].id,
                 st |-> IF Line'[i] \in Elems(done') THEN "ended"
                        ELSE IF Line'[i] \in Elems(pending') THEN "waiting"
                        ELSE IF job'[Line'[i]].st = "stop" THEN "stopped" ELSE "running"]]
    BY DEF PromisedLine, Promised, Elems
  <1> QED BY <1>1, <1>2, <1>3, <1>5, <1>6, DescribesOne

\* Where an index of a described line falls.
LEMMA Falls ==
  ASSUME NEW L, NEW J, NEW d \in Seq(Jobs), NEW c, NEW p \in Seq(Jobs),
         Describes(L, J, d, c, p)
  PROVE  /\ Len(d) \in Nat /\ Len(p) \in Nat /\ Taken(J, c) \in {0, 1}
         /\ Owner(J, c) <=> Taken(J, c) = 1
         /\ \A i \in 1..Len(L) :
              \/ i \in 1..Len(d)
              \/ Owner(J, c) /\ i = Len(d) + 1
              \/ i - (Len(d) + Taken(J, c)) \in 1..Len(p)
  <1>1. Len(d) \in Nat /\ Len(p) \in Nat OBVIOUS
  <1>2. Taken(J, c) \in {0, 1} /\ (Owner(J, c) <=> Taken(J, c) = 1) BY DEF Taken
  <1> QED BY <1>1, <1>2 DEF Describes

LEMMA WaitingPoint ==
  ASSUME NEW L, NEW J, NEW d \in Seq(Jobs), NEW c, NEW p \in Seq(Jobs),
         Describes(L, J, d, c, p), NEW k \in 1..Len(p), NEW i,
         i = Len(d) + Taken(J, c) + k
  PROVE  L[i].id = J[p[k]].id /\ L[i].st = "waiting"
  BY DEF Describes

\* The entries past the last ended one.
LEMMA UnfinishedFrom ==
  ASSUME NEW L, NEW J, NEW d \in Seq(Jobs), NEW c, NEW p \in Seq(Jobs),
         Describes(L, J, d, c, p)
  PROVE  /\ L \in Seq(Entry) /\ Len(L) \in Nat
         /\ Queue!Unfinished(L) = (Len(d) + 1)..Len(L)
         /\ Owner(J, c) => Len(d) + 1 \in 1..Len(L)
  <1>0. /\ Len(d) \in Nat /\ Len(p) \in Nat /\ Taken(J, c) \in {0, 1}
        /\ Owner(J, c) <=> Taken(J, c) = 1
    BY Falls
  <1>1. L \in Seq(Entry) /\ Len(L) = Len(d) + Taken(J, c) + Len(p) BY DEF Describes
  <1>2. Len(L) \in Nat BY <1>1
  <1>3. \A i \in 1..Len(d) : i \in 1..Len(L) /\ L[i].st = "ended"
    <2>1. \A i \in 1..Len(d) : i \in 1..Len(L) BY <1>0, <1>1
    <2>2. \A i \in 1..Len(d) : L[i].st = "ended" BY DEF Describes
    <2> QED BY <2>1, <2>2
  <1>4. \A i \in 1..Len(L) : i \notin 1..Len(d) => L[i].st # "ended"
    <2> SUFFICES ASSUME NEW i \in 1..Len(L), i \notin 1..Len(d) PROVE L[i].st # "ended"
      OBVIOUS
    <2>1. CASE Owner(J, c) /\ i = Len(d) + 1
      BY <2>1 DEF Describes, StoppedOr
    <2>2. ASSUME NEW k \in 1..Len(p), i = Len(d) + Taken(J, c) + k PROVE L[i].st # "ended"
      BY <2>2 DEF Describes
    <2>3. \/ Owner(J, c) /\ i = Len(d) + 1
          \/ i - (Len(d) + Taken(J, c)) \in 1..Len(p)
      BY Falls
    <2>4. CASE i - (Len(d) + Taken(J, c)) \in 1..Len(p)
      <3>1. PICK k \in 1..Len(p) : k = i - (Len(d) + Taken(J, c)) BY <2>4
      <3>2. i = Len(d) + Taken(J, c) + k BY <3>1, Falls
      <3> QED BY <2>2, <3>2
    <2> QED BY <2>1, <2>3, <2>4
  <1>5. Queue!Unfinished(L) = (Len(d) + 1)..Len(L)
    <2>1. Len(d) \in Nat BY Falls
    <2>2. \A i \in 1..Len(L) : L[i].st # "ended" <=> i \in (Len(d) + 1)..Len(L)
      BY <1>2, <1>3, <1>4, <2>1
    <2>3. (Len(d) + 1)..Len(L) \subseteq 1..Len(L) BY <1>2, <2>1
    <2> QED BY <2>2, <2>3 DEF Queue!Unfinished
  <1>6. Owner(J, c) => Len(d) + 1 \in 1..Len(L) BY <1>0, <1>1
  <1> QED BY <1>1, <1>2, <1>5, <1>6

LEMMA LineSame ==
  ASSUME NEW L, NEW M, NEW J, NEW K, NEW d \in Seq(Jobs), NEW p \in Seq(Jobs), NEW b, NEW c,
         Describes(L, J, d, b, p), Describes(M, K, d, c, p),
         \A j \in Elems(d) \cup Elems(p) : K[j].id = J[j].id,
         Owner(K, c) <=> Owner(J, b),
         Owner(J, b) => c = b /\ K[b].id = J[b].id
                              /\ (K[b].st = "stop" <=> J[b].st = "stop")
  PROVE  M = L
  <1>1. Taken(K, c) = Taken(J, b) BY DEF Taken
  <1>2. L \in Seq(Entry) /\ M \in Seq(Entry) /\ Len(M) = Len(L)
    BY <1>1 DEF Describes
  <1>3. ASSUME NEW i \in 1..Len(L) PROVE M[i].id = L[i].id /\ M[i].st = L[i].st
    <2>1. CASE i \in 1..Len(d)
      <3>1. d[i] \in Elems(d) BY <2>1 DEF Elems
      <3> QED BY <2>1, <3>1 DEF Describes
    <2>2. CASE Owner(J, b) /\ i = Len(d) + 1 BY <2>2 DEF Describes, StoppedOr
    <2>3. CASE i - (Len(d) + Taken(J, b)) \in 1..Len(p)
      <3>1. PICK k \in 1..Len(p) : k = i - (Len(d) + Taken(J, b)) BY <2>3
      <3>2. i = Len(d) + Taken(J, b) + k BY <3>1, Falls
      <3>3. p[k] \in Elems(p) BY DEF Elems
      <3> QED BY <1>1, <3>2, <3>3 DEF Describes
    <2> QED BY <2>1, <2>2, <2>3, Falls
  <1> QED BY <1>2, <1>3, LineSeqSame

\* HardIrqNote, HardIrqAbort: the job that has the NPU stops or goes on.
LEMMA LineStopOrGo ==
  ASSUME NEW L, NEW M, NEW J, NEW K, NEW d \in Seq(Jobs), NEW p \in Seq(Jobs), NEW c,
         Describes(L, J, d, c, p), Describes(M, K, d, c, p),
         \A j \in Elems(d) \cup Elems(p) : K[j].id = J[j].id,
         Owner(J, c), Owner(K, c), K[c].id = J[c].id,
         ~(K[c].st = "stop" <=> J[c].st = "stop")
  PROVE  /\ Len(d) + 1 \in Queue!Unfinished(L) /\ L[Len(d) + 1].st # "waiting"
         /\ Len(d) + 1 \in 1..Len(L)
         /\ M = Queue!SetSt(L, {Len(d) + 1},
                  IF L[Len(d) + 1].st = "running" THEN "stopped" ELSE "running")
  <1> DEFINE n == Len(d) + 1
             st == IF L[n].st = "running" THEN "stopped" ELSE "running"
             N == Queue!SetSt(L, {n}, st)
  <1>1. /\ n \in 1..Len(L) /\ L \in Seq(Entry) /\ Len(L) \in Nat
        /\ Queue!Unfinished(L) = n..Len(L)
    BY UnfinishedFrom
  <1>2. /\ L[n].id = J[c].id /\ L[n].st = StoppedOr(J[c].st)
        /\ M[n].id = K[c].id /\ M[n].st = StoppedOr(K[c].st)
    BY DEF Describes
  <1>3. Taken(J, c) = 1 /\ Taken(K, c) = 1 BY DEF Taken
  <1>4. M \in Seq(Entry) /\ Len(M) = Len(L) BY <1>3 DEF Describes
  <1>5. M[n].st = st BY <1>2 DEF StoppedOr
  <1>6. st \in {"ended", "waiting", "running", "stopped"} OBVIOUS
  <1> HIDE DEF st
  <1>7. /\ N \in Seq(Entry) /\ Len(N) = Len(L)
        /\ \A i \in 1..Len(L) : /\ N[i].id = L[i].id
                                /\ i \in {n} => N[i].st = st
                                /\ i \notin {n} => N[i].st = L[i].st
    BY <1>1, <1>6, SetStPoints
  <1> HIDE DEF N
  <1>8. ASSUME NEW i \in 1..Len(L) PROVE M[i].id = N[i].id /\ M[i].st = N[i].st
    <2>1. CASE i \in 1..Len(d)
      <3>1. d[i] \in Elems(d) BY <2>1 DEF Elems
      <3>2. M[i].id = L[i].id /\ M[i].st = L[i].st BY <2>1, <3>1 DEF Describes
      <3>3. i # n BY <2>1, Falls
      <3> QED BY <1>7, <3>2, <3>3
    <2>2. CASE i = n BY <1>2, <1>5, <1>7, <2>2
    <2>3. CASE i - (Len(d) + Taken(J, c)) \in 1..Len(p)
      <3>1. PICK k \in 1..Len(p) : k = i - (Len(d) + Taken(J, c)) BY <2>3
      <3>2. i = Len(d) + Taken(J, c) + k BY <3>1, Falls
      <3>3. p[k] \in Elems(p) BY DEF Elems
      <3>4. M[i].id = L[i].id /\ M[i].st = L[i].st
        <4>1. i = Len(d) + Taken(K, c) + k BY <1>3, <3>2
        <4>2. M[i].id = K[p[k]].id /\ M[i].st = "waiting" BY <4>1, WaitingPoint
        <4>3. L[i].id = J[p[k]].id /\ L[i].st = "waiting" BY <3>2, WaitingPoint
        <4> QED BY <3>3, <4>2, <4>3
      <3>5. i # n BY <1>3, <3>2, Falls
      <3> QED BY <1>7, <3>4, <3>5
    <2> QED BY <2>1, <2>2, <2>3, Falls
  <1>9. M = N BY <1>4, <1>7, <1>8, LineSeqSame
  <1>10. L[n].st # "waiting" BY <1>2 DEF StoppedOr
  <1> QED BY <1>1, <1>9, <1>10 DEF N, st

\* ThreadSuccess: the job that has the NPU ends, and the next has it.
LEMMA LineFinish ==
  ASSUME NEW L, NEW M, NEW J, NEW K, NEW d \in Seq(Jobs), NEW p \in Seq(Jobs),
         NEW c \in Jobs, NEW e, NEW q \in Seq(Jobs),
         Describes(L, J, d, c, p), Describes(M, K, Append(d, c), e, q),
         \A j \in Jobs : K[j].id = J[j].id, Owner(J, c),
         \/ p = <<>> /\ q = <<>> /\ ~Owner(K, e)
         \/ p # <<>> /\ q = Tail(p) /\ e = Head(p) /\ Owner(K, e) /\ K[e].st # "stop"
  PROVE  /\ Len(d) + 1 \in Queue!Unfinished(L) /\ L[Len(d) + 1].st # "waiting"
         /\ Len(d) + 1 \in 1..Len(L)
         /\ M = Queue!SetSt(Queue!SetSt(L, {Len(d) + 1}, "ended"),
                            {Len(d) + 1 + 1} \cap 1..Len(L), "running")
  <1> DEFINE n == Len(d) + 1
             m == Taken(K, e)
             N == Queue!SetSt(L, {n}, "ended")
             S == {n + 1} \cap 1..Len(L)
             R == Queue!SetSt(N, S, "running")
  <1>1. /\ n \in 1..Len(L) /\ L \in Seq(Entry) /\ Len(L) \in Nat
        /\ Queue!Unfinished(L) = n..Len(L)
    BY UnfinishedFrom
  <1>2. /\ Len(d) \in Nat /\ Len(p) \in Nat /\ Len(q) \in Nat /\ m \in {0, 1}
        /\ Taken(J, c) = 1
    BY DEF Taken
  <1>3. Append(d, c) \in Seq(Jobs) /\ Len(Append(d, c)) = n
        /\ (\A i \in 1..Len(d) : Append(d, c)[i] = d[i]) /\ Append(d, c)[n] = c
    OBVIOUS
  <1>4. /\ Len(p) = m + Len(q)
        /\ m = 1 => p[1] = e /\ p # <<>> /\ q = Tail(p) /\ Owner(K, e) /\ K[e].st # "stop"
        /\ m = 0 => Len(p) = 0
        /\ \A k \in 1..Len(q) : m = 1 /\ q[k] = p[k + 1] /\ k + 1 \in 1..Len(p)
    <2>1. CASE p = <<>> /\ q = <<>> /\ ~Owner(K, e)
      BY <2>1 DEF Taken
    <2>2. CASE p # <<>> /\ q = Tail(p) /\ e = Head(p) /\ Owner(K, e) /\ K[e].st # "stop"
      <3>1. Len(Tail(p)) = Len(p) - 1 /\ Head(p) = p[1] /\ Len(p) \in Nat \ {0}
            /\ \A k \in 1..(Len(p) - 1) : Tail(p)[k] = p[k + 1]
        BY <2>2
      <3> QED BY <2>2, <3>1 DEF Taken
    <2> QED BY <2>1, <2>2
  <1>5. Len(L) = n + Len(p) BY <1>2 DEF Describes
  <1>6. M \in Seq(Entry) /\ Len(M) = Len(L)
    BY <1>2, <1>3, <1>4, <1>5 DEF Describes
  <1>7. /\ N \in Seq(Entry) /\ Len(N) = Len(L)
        /\ \A i \in 1..Len(L) : /\ N[i].id = L[i].id
                                /\ i \in {n} => N[i].st = "ended"
                                /\ i \notin {n} => N[i].st = L[i].st
    BY <1>1, SetStPoints
  <1> HIDE DEF N
  <1>8. /\ R \in Seq(Entry) /\ Len(R) = Len(L)
        /\ \A i \in 1..Len(L) : /\ R[i].id = L[i].id
                                /\ i = n => R[i].st = "ended"
                                /\ i = n + 1 => R[i].st = "running"
                                /\ i # n /\ i # n + 1 => R[i].st = L[i].st
    <2> HIDE DEF S
    <2>1. /\ R \in Seq(Entry) /\ Len(R) = Len(N)
          /\ \A i \in 1..Len(N) : /\ R[i].id = N[i].id
                                  /\ i \in S => R[i].st = "running"
                                  /\ i \notin S => R[i].st = N[i].st
      BY <1>7, SetStPoints
    <2>2. \A i \in 1..Len(L) : i \in S <=> i = n + 1 BY DEF S
    <2>3. n # n + 1 BY <1>2
    <2> HIDE DEF R
    <2> QED BY <1>7, <2>1, <2>2, <2>3
  <1> HIDE DEF R, S, m
  <1>9. ASSUME NEW i \in 1..Len(L) PROVE M[i].id = R[i].id /\ M[i].st = R[i].st
    <2>1. CASE i \in 1..Len(d)
      <3>1. d[i] \in Jobs /\ i # n /\ i # n + 1 /\ i \in 1..n BY <1>2, <2>1
      <3>2. L[i].id = J[d[i]].id /\ L[i].st = "ended" BY <2>1 DEF Describes
      <3>3. M[i].id = K[d[i]].id /\ M[i].st = "ended"
        BY <1>3, <2>1, <3>1 DEF Describes
      <3> QED BY <1>8, <3>1, <3>2, <3>3
    <2>2. CASE i = n
      <3>1. L[n].id = J[c].id BY DEF Describes
      <3>2. n \in 1..n BY <1>2
      <3>3. M[n].id = K[c].id /\ M[n].st = "ended" BY <1>3, <3>2 DEF Describes
      <3> QED BY <1>8, <2>2, <3>1, <3>3
    <2>3. CASE i = n + 1
      <3>1. m = 1 /\ 1 \in 1..Len(p) BY <1>2, <1>4, <1>5, <2>3
      <3>2. L[n + 1].id = J[p[1]].id BY <1>2, <3>1 DEF Describes
      <3>3. M[n + 1].id = K[e].id /\ M[n + 1].st = "running"
        BY <1>3, <1>4, <3>1 DEF Describes, StoppedOr
      <3>4. e \in Jobs BY <1>4, <3>1
      <3> QED BY <1>4, <1>8, <2>3, <3>1, <3>2, <3>3, <3>4
    <2>4. CASE i > n + 1
      <3>0. i - (n + 1) \in 1..Len(q)
        <4>1. i \in Nat /\ i <= n + Len(p) BY <1>1, <1>5
        <4> HIDE DEF m
        <4> QED BY <1>2, <1>4, <2>4, <4>1
      <3>7. PICK k \in 1..Len(q) : k = i - (n + 1) BY <3>0
      <3>1. i = n + 1 + k BY <1>1, <1>2, <3>7
      <3>2. m = 1 /\ q[k] = p[k + 1] /\ k + 1 \in 1..Len(p) /\ p[k + 1] \in Jobs BY <1>4
      <3>3. L[n + (k + 1)].id = J[p[k + 1]].id /\ L[n + (k + 1)].st = "waiting"
        BY <1>2, <3>2 DEF Describes
      <3>4. M[n + 1 + k].id = K[q[k]].id /\ M[n + 1 + k].st = "waiting"
        BY <1>3, <3>2 DEF Describes, m
      <3>5. n + (k + 1) = n + 1 + k /\ i # n /\ i # n + 1 BY <1>2, <3>1
      <3> QED BY <1>8, <3>1, <3>2, <3>3, <3>4, <3>5
    <2>5. i \in 1..Len(d) \/ i = n \/ i = n + 1 \/ i > n + 1 BY <1>2
    <2> QED BY <2>1, <2>2, <2>3, <2>4, <2>5
  <1>10. M = R BY <1>6, <1>8, <1>9, LineSeqSame
  <1>11. L[n].st # "waiting" BY DEF Describes, StoppedOr
  <1>12. n \in Queue!Unfinished(L) BY <1>1
  <1> QED BY <1>1, <1>10, <1>11, <1>12 DEF R, S, N

\* ThreadAbort: the job that has the NPU fails, and all that waits with it.
LEMMA LineFail ==
  ASSUME NEW L, NEW M, NEW J, NEW K, NEW d \in Seq(Jobs), NEW p \in Seq(Jobs),
         NEW c \in Jobs, NEW e, NEW a \in Seq(Jobs),
         Describes(L, J, d, c, p), Describes(M, K, a, e, <<>>),
         \A j \in Jobs : K[j].id = J[j].id, Owner(J, c), ~Owner(K, e),
         Pieces(a, Jobs, d, <<c>>, p)
  PROVE  Queue!Unfinished(L) # {} /\ M = Queue!SetSt(L, 1..Len(L), "ended")
  <1> DEFINE n == Len(d) + 1
             S == 1..Len(L)
             N == Queue!SetSt(L, S, "ended")
  <1>1. /\ n \in 1..Len(L) /\ L \in Seq(Entry) /\ Len(L) \in Nat
        /\ Queue!Unfinished(L) = n..Len(L)
    BY UnfinishedFrom
  <1>2. Len(d) \in Nat /\ Len(p) \in Nat /\ Taken(J, c) = 1 /\ Taken(K, e) = 0
    BY DEF Taken
  <1>3. /\ Len(a) = n + Len(p) /\ \A i \in 1..Len(d) : a[i] = d[i]
        /\ a[n] = c /\ \A i \in 1..Len(p) : a[n + i] = p[i]
    BY <1>2 DEF Pieces
  <1>4. Len(L) = n + Len(p) BY <1>2 DEF Describes
  <1>5. M \in Seq(Entry) /\ Len(M) = Len(L) BY <1>2, <1>3, <1>4 DEF Describes
  <1>6. \A i \in 1..Len(a) : M[i].id = K[a[i]].id /\ M[i].st = "ended" BY DEF Describes
  <1> HIDE DEF S
  <1>7. /\ N \in Seq(Entry) /\ Len(N) = Len(L)
        /\ \A i \in 1..Len(L) : N[i].id = L[i].id /\ (i \in S => N[i].st = "ended")
    BY <1>1, SetStPoints
  <1> HIDE DEF N
  <1>8. ASSUME NEW i \in 1..Len(L) PROVE M[i].id = N[i].id /\ M[i].st = N[i].st
    <2>1. M[i].id = K[a[i]].id /\ M[i].st = "ended" /\ a[i] \in Jobs
      BY <1>3, <1>4, <1>6
    <2>2. N[i].st = "ended" /\ N[i].id = L[i].id BY <1>7 DEF S
    <2>3. L[i].id = J[a[i]].id
      <3>1. CASE i \in 1..Len(d)
        <4>1. L[i].id = J[d[i]].id BY <3>1 DEF Describes
        <4> QED BY <1>3, <3>1, <4>1
      <3>2. CASE i = n BY <1>3, <3>2 DEF Describes
      <3>3. CASE i - n \in 1..Len(p)
        <4>1. PICK k \in 1..Len(p) : k = i - n BY <3>3
        <4>2. i = n + k BY <1>2, <4>1
        <4>3. i = Len(d) + Taken(J, c) + k BY <1>2, <4>2
        <4> QED BY <1>3, <4>2, <4>3, WaitingPoint
      <3>4. i \in 1..Len(d) \/ i = n \/ i - n \in 1..Len(p) BY <1>2, <1>4
      <3> QED BY <3>1, <3>2, <3>3, <3>4
    <2> QED BY <2>1, <2>2, <2>3
  <1>9. M = N BY <1>5, <1>7, <1>8, LineSeqSame
  <1>10. Queue!Unfinished(L) # {}
    <2>1. n \in n..Len(L) BY <1>1
    <2> QED BY <1>1, <2>1
  <1> QED BY <1>9, <1>10 DEF N, S

LEMMA AppendPoints ==
  ASSUME NEW S, NEW s \in Seq(S), NEW x \in S
  PROVE  /\ Append(s, x) \in Seq(S) /\ Len(Append(s, x)) = Len(s) + 1
         /\ \A i \in 1..Len(s) : Append(s, x)[i] = s[i]
         /\ Append(s, x)[Len(s) + 1] = x
  OBVIOUS

\* j is started at once, or waits behind the job that has the NPU.
Joins(J, K, c, e, p, q, j) ==
  \/ /\ ~Owner(J, c) /\ p = <<>> /\ q = <<>> /\ e = j /\ Owner(K, j)
     /\ K[j].st = "process"
  \/ /\ Owner(J, c) /\ Owner(K, e) /\ e = c /\ K[c].id = J[c].id
     /\ (K[c].st = "stop" <=> J[c].st = "stop") /\ q = Append(p, j)

\* The line it joins.
Joined(L, id) ==
  Append(L, [id |-> id, st |-> IF Queue!Unfinished(L) = {} THEN "running" ELSE "waiting"])

\* IocSubmit: a job joins the line, and has the NPU if nothing else has.
LEMMA LineSubmit ==
  ASSUME NEW L, NEW M, NEW J, NEW K, NEW d \in Seq(Jobs), NEW p \in Seq(Jobs),
         NEW q \in Seq(Jobs), NEW c, NEW e, NEW j \in Jobs,
         Describes(L, J, d, c, p), Describes(M, K, d, e, q),
         \A k \in Elems(d) \cup Elems(p) : K[k].id = J[k].id,
         Joins(J, K, c, e, p, q, j),
         K[j].id \in Nat
  PROVE  M = Joined(L, K[j].id)
  <1> DEFINE st == IF Owner(J, c) THEN "waiting" ELSE "running"
             x == [id |-> K[j].id, st |-> st]
             N == Append(L, x)
             n == Len(L) + 1
  <1>1. /\ L \in Seq(Entry) /\ Len(L) \in Nat /\ Queue!Unfinished(L) = (Len(d) + 1)..Len(L)
        /\ Owner(J, c) => Len(d) + 1 \in 1..Len(L)
    BY UnfinishedFrom
  <1>2. /\ Len(d) \in Nat /\ Len(p) \in Nat /\ Taken(J, c) \in {0, 1}
        /\ Owner(J, c) <=> Taken(J, c) = 1
        /\ Len(L) = Len(d) + Taken(J, c) + Len(p)
        /\ \A i \in 1..Len(L) :
              \/ i \in 1..Len(d)
              \/ Owner(J, c) /\ i = Len(d) + 1
              \/ i - (Len(d) + Taken(J, c)) \in 1..Len(p)
    <2>1. Len(L) = Len(d) + Taken(J, c) + Len(p) BY DEF Describes
    <2> QED BY <2>1, Falls
  <1>3. x \in Entry BY DEF Entry
  <1>4. x.id = K[j].id /\ x.st = st OBVIOUS
  <1> HIDE DEF x
  <1>5. /\ N \in Seq(Entry) /\ Len(N) = n /\ N[n] = x
        /\ \A i \in 1..Len(L) : N[i] = L[i]
    BY <1>1, <1>3, AppendPoints
  <1> HIDE DEF N
  <1>6. /\ Len(M) = n /\ M \in Seq(Entry)
        /\ M[n].id = K[j].id /\ M[n].st = st
        /\ \A i \in 1..Len(L) : M[i].id = L[i].id /\ M[i].st = L[i].st
    <2>1. CASE ~Owner(J, c)
      <3>1. /\ Taken(J, c) = 0 /\ Len(p) = 0 /\ Len(L) = Len(d) /\ Taken(K, e) = 1
            /\ Owner(K, e) /\ e = j /\ Len(q) = 0 /\ K[j].st = "process"
        BY <1>2, <2>1 DEF Taken, Joins
      <3>2. M \in Seq(Entry) /\ Len(M) = n BY <1>2, <3>1 DEF Describes
      <3>3. M[n].id = K[j].id /\ M[n].st = "running"
        BY <3>1 DEF Describes, StoppedOr
      <3>4. \A i \in 1..Len(d) : d[i] \in Elems(d) BY DEF Elems
      <3>5. \A i \in 1..Len(L) : M[i].id = L[i].id /\ M[i].st = L[i].st
        BY <3>1, <3>4 DEF Describes
      <3> QED BY <2>1, <3>2, <3>3, <3>5
    <2>2. CASE Owner(J, c)
      <3>1. /\ Taken(J, c) = 1 /\ Taken(K, e) = 1 /\ Owner(K, e) /\ e = c
            /\ K[c].id = J[c].id /\ (K[c].st = "stop" <=> J[c].st = "stop")
            /\ q = Append(p, j)
        BY <1>2, <2>2 DEF Taken, Joins
      <3>2. /\ Len(q) = Len(p) + 1 /\ q[Len(p) + 1] = j
            /\ \A i \in 1..Len(p) : q[i] = p[i]
        BY <3>1, AppendPoints
      <3>3. M \in Seq(Entry) /\ Len(M) = n BY <1>2, <3>1, <3>2 DEF Describes
      <3>4. M[n].id = K[j].id /\ M[n].st = "waiting"
        <4>1. PICK k \in 1..Len(q) : k = Len(p) + 1 BY <1>2, <3>2
        <4>2. n = Len(d) + Taken(K, e) + k BY <1>2, <3>1, <4>1
        <4> QED BY <3>2, <4>1, <4>2, WaitingPoint
      <3>5. ASSUME NEW i \in 1..Len(L) PROVE M[i].id = L[i].id /\ M[i].st = L[i].st
        <4>1. CASE i \in 1..Len(d)
          <5>1. d[i] \in Elems(d) BY <4>1 DEF Elems
          <5>2. L[i].id = J[d[i]].id /\ L[i].st = "ended" BY <4>1 DEF Describes
          <5>3. M[i].id = K[d[i]].id /\ M[i].st = "ended" BY <4>1 DEF Describes
          <5> QED BY <5>1, <5>2, <5>3
        <4>2. CASE i = Len(d) + 1
          <5>1. L[i].id = J[c].id /\ L[i].st = StoppedOr(J[c].st)
            BY <2>2, <4>2 DEF Describes
          <5>2. M[i].id = K[c].id /\ M[i].st = StoppedOr(K[c].st)
            BY <3>1, <4>2 DEF Describes
          <5> QED BY <3>1, <5>1, <5>2 DEF StoppedOr
        <4>3. CASE i - (Len(d) + Taken(J, c)) \in 1..Len(p)
          <5>1. PICK k \in 1..Len(p) : k = i - (Len(d) + Taken(J, c)) BY <4>3
          <5>2. i = Len(d) + Taken(J, c) + k /\ i = Len(d) + Taken(K, e) + k
            BY <1>2, <3>1, <5>1
          <5>3. p[k] \in Elems(p) BY DEF Elems
          <5>4. L[i].id = J[p[k]].id /\ L[i].st = "waiting" BY <5>2, WaitingPoint
          <5>5. k \in 1..Len(q) /\ q[k] = p[k] BY <1>2, <3>2
          <5>6. M[i].id = K[q[k]].id /\ M[i].st = "waiting" BY <5>2, <5>5, WaitingPoint
          <5> QED BY <5>3, <5>4, <5>5, <5>6
        <4> QED BY <1>2, <4>1, <4>2, <4>3
      <3> QED BY <2>2, <3>3, <3>4, <3>5
    <2> QED BY <2>1, <2>2
  <1>7. ASSUME NEW i \in 1..n PROVE M[i].id = N[i].id /\ M[i].st = N[i].st
    <2>1. CASE i \in 1..Len(L) BY <1>5, <1>6, <2>1
    <2>2. CASE i = n BY <1>4, <1>5, <1>6, <2>2
    <2> QED BY <1>1, <2>1, <2>2
  <1>8. M = N BY <1>5, <1>6, <1>7, LineSeqSame
  <1>9. Owner(J, c) <=> Queue!Unfinished(L) # {}
    <2>1. CASE Owner(J, c)
      <3>1. Len(d) + 1 \in (Len(d) + 1)..Len(L) BY <1>1, <1>2, <2>1
      <3> QED BY <1>1, <2>1, <3>1
    <2>2. CASE ~Owner(J, c)
      <3>1. Len(L) = Len(d) BY <1>2, <2>2 DEF Joins
      <3>2. (Len(d) + 1)..Len(L) = {} BY <1>2, <3>1
      <3> QED BY <1>1, <2>2, <3>2
    <2> QED BY <2>1, <2>2
  <1>10. x = [id |-> K[j].id, st |-> IF Queue!Unfinished(L) = {}
                                      THEN "running" ELSE "waiting"]
    BY <1>9 DEF x
  <1> QED BY <1>8, <1>10 DEF N, Joined

\* QueryReady: a job that has ended leaves the line.
LEMMA LineCollect ==
  ASSUME NEW L, NEW M, NEW J, NEW K, NEW d \in Seq(Jobs), NEW p \in Seq(Jobs), NEW c,
         NEW i \in 1..Len(d), NEW a \in Seq(Jobs), a = DropAt(d, i),
         Describes(L, J, d, c, p), Describes(M, K, a, c, p),
         \A j \in Elems(a) \cup Elems(p) : K[j].id = J[j].id,
         Owner(K, c) <=> Owner(J, c),
         Owner(J, c) => K[c].id = J[c].id /\ (K[c].st = "stop" <=> J[c].st = "stop")
  PROVE  /\ i \in 1..Len(L) /\ L[i].st = "ended"
         /\ M = Queue!Drops(L, i)
  <1> DEFINE N == DropAt(L, i)
             m == Taken(J, c)
  <1>1. /\ Len(d) \in Nat /\ Len(p) \in Nat /\ m \in {0, 1} /\ Taken(K, c) = m
        /\ Owner(J, c) <=> m = 1
    BY DEF Taken
  <1>2. L \in Seq(Entry) /\ Len(L) = Len(d) + m + Len(p) BY DEF Describes
  <1>3. i \in 1..Len(L) /\ L[i].st = "ended" /\ Len(L) \in Nat
    BY <1>1, <1>2 DEF Describes
  <1>4. /\ Len(a) = Len(d) - 1
        /\ \A k \in 1..(Len(d) - 1) : a[k] = IF k < i THEN d[k] ELSE d[k + 1]
    BY DropPoints
  <1>5. /\ N \in Seq(Entry) /\ Len(N) = Len(L) - 1
        /\ \A k \in 1..(Len(L) - 1) : N[k] = IF k < i THEN L[k] ELSE L[k + 1]
    BY <1>2, <1>3, DropPoints
  <1> HIDE DEF N, m
  <1>6. M \in Seq(Entry) /\ Len(M) = Len(L) - 1
    BY <1>1, <1>2, <1>4 DEF Describes
  <1>7. ASSUME NEW k \in 1..(Len(L) - 1) PROVE M[k].id = N[k].id /\ M[k].st = N[k].st
    <2>1. CASE k \in 1..Len(a)
      <3>1. a[k] \in Elems(a) BY <2>1 DEF Elems
      <3>2. M[k].id = K[a[k]].id /\ M[k].st = "ended" BY <2>1 DEF Describes
      <3>3. ASSUME NEW n \in 1..Len(d), N[k] = L[n], a[k] = d[n]
            PROVE  M[k].id = N[k].id /\ M[k].st = N[k].st
        <4>1. L[n].id = J[d[n]].id /\ L[n].st = "ended" BY DEF Describes
        <4> QED BY <3>1, <3>2, <3>3, <4>1
      <3>4. CASE k < i
        <4>1. k \in 1..Len(d) /\ N[k] = L[k] /\ a[k] = d[k]
          BY <1>1, <1>4, <1>5, <2>1, <3>4
        <4> QED BY <3>3, <4>1
      <3>5. CASE ~(k < i)
        <4>1. k + 1 \in 1..Len(d) /\ N[k] = L[k + 1] /\ a[k] = d[k + 1]
          BY <1>1, <1>4, <1>5, <2>1, <3>5
        <4> QED BY <3>3, <4>1
      <3> QED BY <3>4, <3>5
    <2>2. CASE Owner(J, c) /\ k = Len(d)
      <3>1. N[k] = L[Len(d) + 1] BY <1>5, <2>2
      <3>2. L[Len(d) + 1].id = J[c].id /\ L[Len(d) + 1].st = StoppedOr(J[c].st)
        BY <2>2 DEF Describes
      <3>3. M[Len(a) + 1].id = K[c].id /\ M[Len(a) + 1].st = StoppedOr(K[c].st)
        BY <2>2 DEF Describes
      <3>4. Len(a) + 1 = k BY <1>1, <1>4, <2>2
      <3> QED BY <2>2, <3>1, <3>2, <3>3, <3>4 DEF StoppedOr
    <2>3. CASE k + 1 - (Len(d) + m) \in 1..Len(p)
      <3>1. PICK n \in 1..Len(p) : n = k + 1 - (Len(d) + m) BY <2>3
      <3>2. k + 1 = Len(d) + Taken(J, c) + n /\ k = Len(a) + Taken(K, c) + n
        BY <1>1, <1>4, <3>1 DEF m
      <3>3. L[k + 1].id = J[p[n]].id /\ L[k + 1].st = "waiting" BY <3>2, WaitingPoint
      <3>4. M[k].id = K[p[n]].id /\ M[k].st = "waiting" BY <3>2, WaitingPoint
      <3>5. p[n] \in Elems(p) BY DEF Elems
      <3>6. N[k] = L[k + 1]
        <4>1. k >= Len(d) BY <1>1, <2>3
        <4> QED BY <1>5, <4>1
      <3> QED BY <3>3, <3>4, <3>5, <3>6
    <2>4. \/ k \in 1..Len(a)
          \/ Owner(J, c) /\ k = Len(d)
          \/ k + 1 - (Len(d) + m) \in 1..Len(p)
      BY <1>1, <1>2, <1>4
    <2> QED BY <2>1, <2>2, <2>3, <2>4
  <1>8. M = N BY <1>5, <1>6, <1>7, LineSeqSame
  <1>9. N = Queue!Drops(L, i) BY DEF N, DropAt, Queue!Drops
  <1> QED BY <1>3, <1>8, <1>9

\* DestroyPending, DestroyMark, DestroyDrain: the line is cut short.
LEMMA LineCut ==
  ASSUME NEW L, NEW M, NEW J, NEW K, NEW d \in Seq(Jobs), NEW p \in Seq(Jobs), NEW c,
         NEW a \in Seq(Jobs), Describes(L, J, d, c, p), Describes(M, K, a, c, <<>>),
         \/ a = <<>> /\ ~Owner(K, c)
         \/ /\ a = d /\ \A j \in Elems(d) : K[j].id = J[j].id
            /\ Owner(K, c) => Owner(J, c) /\ K[c].id = J[c].id
                                          /\ (K[c].st = "stop" <=> J[c].st = "stop")
  PROVE  \E n \in 0..Len(L) : M = SubSeq(L, 1, n)
  <1> DEFINE n == Len(M)
             N == SubSeq(L, 1, n)
  <1>1. /\ Len(d) \in Nat /\ Len(p) \in Nat /\ Taken(J, c) \in {0, 1}
        /\ Taken(K, c) \in {0, 1} /\ (Owner(K, c) <=> Taken(K, c) = 1)
        /\ (Owner(J, c) <=> Taken(J, c) = 1)
    BY DEF Taken
  <1>2. L \in Seq(Entry) /\ Len(L) = Len(d) + Taken(J, c) + Len(p) BY DEF Describes
  <1>3. M \in Seq(Entry) /\ Len(M) = Len(a) + Taken(K, c) BY <1>1 DEF Describes
  <1>4. n \in 0..Len(L)
    <2>1. CASE a = <<>> /\ ~Owner(K, c) BY <1>1, <1>2, <1>3, <2>1
    <2>2. CASE a = d /\ (Owner(K, c) => Owner(J, c)) BY <1>1, <1>2, <1>3, <2>2
    <2> QED BY <2>1, <2>2
  <1>5. N \in Seq(Entry) /\ Len(N) = n /\ \A i \in 1..n : N[i] = L[i]
    <2>1. PICK k \in 0..Len(L) : k = n BY <1>4
    <2>2. /\ SubSeq(L, 1, k) \in Seq(Entry) /\ Len(SubSeq(L, 1, k)) = k
          /\ \A i \in 1..k : SubSeq(L, 1, k)[i] = L[i]
      BY <1>2
    <2> QED BY <2>1, <2>2
  <1> HIDE DEF N
  <1>6. ASSUME NEW i \in 1..n PROVE M[i].id = L[i].id /\ M[i].st = L[i].st
    <2>1. CASE a = <<>> /\ ~Owner(K, c)
      <3>1. n = 0 BY <1>1, <1>3, <2>1
      <3> QED BY <3>1
    <2>2. CASE /\ a = d /\ \A j \in Elems(d) : K[j].id = J[j].id
               /\ Owner(K, c) => Owner(J, c) /\ K[c].id = J[c].id
                                          /\ (K[c].st = "stop" <=> J[c].st = "stop")
      <3>1. CASE i \in 1..Len(d)
        <4>1. d[i] \in Elems(d) BY <3>1 DEF Elems
        <4>2. L[i].id = J[d[i]].id /\ L[i].st = "ended" BY <3>1 DEF Describes
        <4>3. M[i].id = K[d[i]].id /\ M[i].st = "ended" BY <2>2, <3>1 DEF Describes
        <4> QED BY <2>2, <4>1, <4>2, <4>3
      <3>2. CASE i = Len(d) + 1
        <4>1. Owner(K, c) /\ Owner(J, c) BY <1>1, <1>3, <2>2, <3>2
        <4>2. L[i].id = J[c].id /\ L[i].st = StoppedOr(J[c].st)
          BY <3>2, <4>1 DEF Describes
        <4>3. M[i].id = K[c].id /\ M[i].st = StoppedOr(K[c].st)
          BY <2>2, <3>2, <4>1 DEF Describes
        <4> QED BY <2>2, <4>1, <4>2, <4>3 DEF StoppedOr
      <3>3. i \in 1..Len(d) \/ i = Len(d) + 1 BY <1>1, <1>3, <2>2
      <3> QED BY <3>1, <3>2, <3>3
    <2> QED BY <2>1, <2>2
  <1>7. M = N BY <1>3, <1>5, <1>6, LineSeqSame
  <1> QED BY <1>4, <1>7 DEF N

\* Each step of the driver is one of the promised queue, or none.
Keeps == PromisedLine' = PromisedLine /\ (queues' > 0 <=> queues > 0)
Maps  == Queue!Next \/ Keeps

LEMMA MapSame ==
  ASSUME QInv, IInv', done' = done, pending' = pending, queues' = queues,
         \A j \in Elems(done) \cup Elems(pending) : job'[j].id = job[j].id,
         Owner(job', cur') <=> Owner(job, cur),
         Owner(job, cur) => cur' = cur /\ job'[cur].id = job[cur].id
                            /\ (job'[cur].st = "stop" <=> job[cur].st = "stop")
  PROVE  Keeps
  <1>1. done \in Seq(Jobs) /\ pending \in Seq(Jobs)
    BY DEF QInv, OInv, IInv, TypeOK, QueueTypes
  <1>2. Describes(PromisedLine, job, done, cur, pending)
    BY Described DEF QInv, OInv, IInv
  <1>3. Describes(PromisedLine', job', done, cur', pending)
    <2>1. Describes(PromisedLine', job', done', cur', pending')
      BY DescribedNext DEF IInv
    <2> QED BY <2>1
  <1>4. PromisedLine' = PromisedLine BY <1>1, <1>2, <1>3, LineSame
  <1> QED BY <1>4 DEF Keeps

LEMMA MapIrq ==
  ASSUME QInv, IInv', HardIrqNote \/ HardIrqAbort PROVE Maps
  <1>1. /\ done \in Seq(Jobs) /\ pending \in Seq(Jobs) /\ cur \in Jobs \cup {Nobody}
        /\ TypeOK /\ Elems(done) \subseteq Jobs /\ Elems(pending) \subseteq Jobs
    BY ElemsIn DEF QInv, OInv, IInv, TypeOK, QueueTypes
  <1>2. /\ \A j \in Jobs : job'[j].id = job[j].id /\ job'[j].orphan = job[j].orphan
        /\ UNCHANGED <<cur, pending, done, queues>>
    BY <1>1, IrqKeepsJobs
  <1>3. Owner(job', cur') <=> Owner(job, cur) BY <1>1, <1>2 DEF Owner
  <1>4. Owner(job, cur) => cur \in Jobs BY <1>1 DEF Owner
  <1>5. CASE Owner(job, cur) => (job'[cur].st = "stop" <=> job[cur].st = "stop")
    <2>1. Keeps BY <1>1, <1>2, <1>3, <1>4, <1>5, MapSame
    <2> QED BY <2>1 DEF Maps
  <1>6. CASE Owner(job, cur) /\ ~(job'[cur].st = "stop" <=> job[cur].st = "stop")
    <2>1. Describes(PromisedLine, job, done, cur, pending)
      BY Described DEF QInv, OInv, IInv
    <2>2. Describes(PromisedLine', job', done, cur, pending)
      <3>1. Describes(PromisedLine', job', done', cur', pending')
        BY DescribedNext DEF IInv
      <3> QED BY <1>2, <3>1
    <2>3. Owner(job', cur) /\ job'[cur].id = job[cur].id BY <1>2, <1>3, <1>4, <1>6
    <2>4. \A j \in Elems(done) \cup Elems(pending) : job'[j].id = job[j].id
      BY <1>1, <1>2
    <2> DEFINE n == Len(done) + 1
    <2>5. /\ n \in Queue!Unfinished(PromisedLine) /\ PromisedLine[n].st # "waiting"
          /\ n \in 1..Len(PromisedLine)
          /\ PromisedLine' = Queue!SetSt(PromisedLine, {n},
                  IF PromisedLine[n].st = "running" THEN "stopped" ELSE "running")
      BY <1>1, <1>6, <2>1, <2>2, <2>3, <2>4, LineStopOrGo
    <2> HIDE DEF n
    <2>6. Queue!StopOrGo(n) BY <1>2, <2>5 DEF Queue!StopOrGo
    <2>7. Queue!Next BY <2>5, <2>6 DEF Queue!Next
    <2> QED BY <2>7 DEF Maps
  <1> QED BY <1>5, <1>6

\* A job whose queue is gone ends: nobody was promised anything of it.
LEMMA MapOrphanEnds ==
  ASSUME QInv, IInv', ThreadSuccess \/ ThreadAbort, ~Owner(job, cur) PROVE Keeps
  <1>1. /\ done \in Seq(Jobs) /\ pending \in Seq(Jobs) /\ cur \in Jobs
        /\ job \in [Jobs -> JobType] /\ Elems(done) \subseteq Jobs /\ cur # Nobody
        /\ cur \notin Elems(done)
    BY ElemsIn DEF QInv, OInv, IInv, JobsAccounted, TypeOK, QueueTypes, ThreadSuccess,
       ThreadAbort, AbortedDone
  <1>2. job[cur].orphan BY <1>1 DEF Owner
  <1>3. pending = <<>> BY <1>2 DEF QInv, Owned, BehindOwn, Survivor
  <1>4. RetiredDone = done /\ RetiredJobs = Free({cur})
    BY <1>2 DEF RetiredDone, RetiredJobs
  <1>5. /\ done' = done /\ pending' = pending /\ cur' = Nobody /\ queues' = queues
        /\ \A j \in Jobs \ {cur} : job'[j] = job[j]
    <2>1. CASE ThreadSuccess
      BY <1>1, <1>3, <1>4, <2>1 DEF ThreadSuccess, Free, userVars
    <2>2. CASE ThreadAbort
      <3>1. Elems(pending) = {} /\ done \o pending = done BY <1>1, <1>3, ElemsNone
      <3> QED BY <1>1, <1>3, <1>4, <2>2, <3>1 DEF ThreadAbort, AbortedDone, Free, userVars
    <2> QED BY <2>1, <2>2
  <1>6. Elems(pending) = {} BY <1>3, ElemsNone
  <1>7. \A j \in Elems(done) \cup Elems(pending) : job'[j].id = job[j].id
    BY <1>1, <1>5, <1>6
  <1>8. Owner(job', cur') <=> Owner(job, cur) BY <1>5 DEF Owner
  <1> QED BY <1>5, <1>7, <1>8, MapSame

LEMMA MapSuccess ==
  ASSUME QInv, IInv', ThreadSuccess, Owner(job, cur) PROVE Queue!Next
  <1>1. /\ done \in Seq(Jobs) /\ pending \in Seq(Jobs) /\ cur \in Jobs
        /\ job \in [Jobs -> JobType]
    BY DEF QInv, OInv, IInv, TypeOK, QueueTypes, ThreadSuccess
  <1>2. done' = Append(done, cur) /\ RetiredJobs = job /\ queues' = queues
    BY DEF ThreadSuccess, RetiredDone, RetiredJobs, Owner, userVars
  <1>3. /\ \A j \in Jobs : job'[j].id = job[j].id
        /\ pending' \in Seq(Jobs)
        /\ \/ pending = <<>> /\ pending' = <<>> /\ ~Owner(job', cur')
           \/ /\ pending # <<>> /\ pending' = Tail(pending) /\ cur' = Head(pending)
              /\ Owner(job', cur') /\ job'[cur'].st # "stop"
    <2>1. CASE pending = <<>>
      BY <1>1, <1>2, <2>1 DEF ThreadSuccess, Owner
    <2>2. CASE pending # <<>>
      <3>1. /\ cur' = Head(pending) /\ pending' = Tail(pending) /\ cur' # Nobody
            /\ job'[cur'].st = "process" /\ ~job'[cur'].orphan
        BY <2>2, NextEffect DEF QInv
      <3>2. \A j \in Jobs : job'[j].id = job[j].id
        <4>1. job' = [job EXCEPT ![Head(pending)].st = "process"]
          BY <1>2, <2>2 DEF ThreadSuccess
        <4> QED BY <1>1, <4>1 DEF JobType
      <3>3. Tail(pending) \in Seq(Jobs) BY <1>1, <2>2
      <3> QED BY <2>2, <3>1, <3>2, <3>3 DEF Owner
    <2> QED BY <2>1, <2>2
  <1>4. Describes(PromisedLine, job, done, cur, pending)
    BY Described DEF QInv, OInv, IInv
  <1>5. Describes(PromisedLine', job', Append(done, cur), cur', pending')
    <2>1. Describes(PromisedLine', job', done', cur', pending')
      BY DescribedNext DEF IInv
    <2> QED BY <1>2, <2>1
  <1> DEFINE n == Len(done) + 1
  <1>6. /\ n \in Queue!Unfinished(PromisedLine) /\ PromisedLine[n].st # "waiting"
        /\ n \in 1..Len(PromisedLine)
        /\ PromisedLine' = Queue!SetSt(Queue!SetSt(PromisedLine, {n}, "ended"),
                                       {n + 1} \cap 1..Len(PromisedLine), "running")
    BY <1>1, <1>3, <1>4, <1>5, LineFinish
  <1> HIDE DEF n
  <1>7. Queue!Finish(n) BY <1>2, <1>6 DEF Queue!Finish
  <1> QED BY <1>6, <1>7 DEF Queue!Next

LEMMA MapAbort ==
  ASSUME QInv, IInv', ThreadAbort, Owner(job, cur) PROVE Queue!Next
  <1>1. /\ done \in Seq(Jobs) /\ pending \in Seq(Jobs) /\ cur \in Jobs
        /\ job \in [Jobs -> JobType]
    BY DEF QInv, OInv, IInv, TypeOK, QueueTypes, ThreadAbort, AbortedDone
  <1>2. /\ done' = done \o <<cur>> \o pending /\ RetiredJobs = job /\ queues' = queues
        /\ pending' = <<>> /\ cur' = Nobody
    <2>1. Append(done, cur) = done \o <<cur>> BY <1>1
    <2> QED BY <2>1 DEF ThreadAbort, AbortedDone, RetiredDone, RetiredJobs, Owner, userVars
  <1>3. \A j \in Jobs : job'[j].id = job[j].id
    <2>1. job' = [j \in Jobs |-> IF j \in Elems(pending)
                                THEN [RetiredJobs[j] EXCEPT !.st = "abort"] ELSE RetiredJobs[j]]
      BY DEF ThreadAbort
    <2>2. \A j \in Jobs : [job[j] EXCEPT !.st = "abort"].id = job[j].id BY <1>1 DEF JobType
    <2>3. RetiredJobs = job BY <1>2
    <2> QED BY <2>1, <2>2, <2>3
  <1>4. Pieces(done', Jobs, done, <<cur>>, pending)
    <2>1. <<cur>> \in Seq(Jobs) BY <1>1
    <2> QED BY <1>1, <1>2, <2>1, ThreePoints
  <1>5. Describes(PromisedLine, job, done, cur, pending)
    BY Described DEF QInv, OInv, IInv
  <1>6. Describes(PromisedLine', job', done', cur', <<>>)
    <2>1. Describes(PromisedLine', job', done', cur', pending')
      BY DescribedNext DEF IInv
    <2> QED BY <1>2, <2>1
  <1>7. ~Owner(job', cur') /\ done' \in Seq(Jobs) BY <1>2, <1>4 DEF Owner, Pieces
  <1>8. /\ Queue!Unfinished(PromisedLine) # {}
        /\ PromisedLine' = Queue!SetSt(PromisedLine, 1..Len(PromisedLine), "ended")
    BY <1>1, <1>3, <1>4, <1>5, <1>6, <1>7, LineFail
  <1>9. Queue!Fail BY <1>2, <1>8 DEF Queue!Fail
  <1> QED BY <1>9 DEF Queue!Next

LEMMA MapSubmit ==
  ASSUME QInv, IInv', NEW p \in Procs, IocSubmit(p) PROVE Queue!Next
  <1>1. /\ done \in Seq(Jobs) /\ pending \in Seq(Jobs) /\ cur \in Jobs \cup {Nobody}
        /\ Elems(done) \subseteq Jobs /\ Elems(pending) \subseteq Jobs
        /\ job' \in [Jobs -> JobType] /\ lastId \in Nat /\ IInv /\ StateLockFree /\ queues > 0
    BY ElemsIn DEF QInv, OInv, IInv, TypeOK, QueueTypes, IocSubmit, Queued, Accepts
  <1>2. PICK j \in Jobs :
           /\ j \notin Elems(done) \cup Elems(pending) \cup {cur, reaped}
           /\ \A k \in Jobs \ {j} : job'[k] = job[k]
           /\ job'[j].id = lastId + 1 /\ ~job'[j].orphan
           /\ \/ /\ state = "IDLE" /\ cur = Nobody /\ cur' = j /\ pending' = pending
                 /\ job'[j].st = "process"
              \/ /\ state = "BUSY" /\ cur' = cur /\ pending' = Append(pending, j)
           /\ lastId < MaxId /\ done' = done /\ queues' = queues
    BY <1>1, SubmitEffect
  <1>3. j # Nobody BY NpuAssumption
  <1>4. \A k \in Elems(done) \cup Elems(pending) : job'[k].id = job[k].id
    BY <1>1, <1>2
  <1>5. Joins(job, job', cur, cur', pending, pending', j)
    <2>1. CASE state = "IDLE"
      BY <1>2, <1>3, <2>1 DEF Joins, Owner, QInv, OInv, WaitsBehind
    <2>2. CASE state = "BUSY"
      <3>1. cur # Nobody /\ ~job[cur].orphan
        BY <1>1, <2>2 DEF QInv, Owned, BusyOwns
      <3>2. cur' = cur /\ job'[cur] = job[cur] /\ pending' = Append(pending, j)
        BY <1>1, <1>2, <2>2, <3>1
      <3> QED BY <3>1, <3>2 DEF Joins, Owner
    <2> QED BY <1>2, <2>1, <2>2
  <1>6. Describes(PromisedLine, job, done, cur, pending)
    BY <1>1, Described DEF IInv
  <1>7. Describes(PromisedLine', job', done, cur', pending')
    <2>1. Describes(PromisedLine', job', done', cur', pending')
      BY DescribedNext DEF IInv
    <2> QED BY <1>2, <2>1
  <1>8. pending' \in Seq(Jobs) BY DEF IInv, TypeOK, QueueTypes
  <1>9. PromisedLine' = Joined(PromisedLine, job'[j].id)
    <2>1. job'[j].id \in Nat BY <1>1 DEF JobType
    <2>2. \A q \in Seq(Jobs) : \A L, M, J, K, c, e :
            /\ Describes(L, J, done, c, pending) /\ Describes(M, K, done, e, q)
            /\ \A k \in Elems(done) \cup Elems(pending) : K[k].id = J[k].id
            /\ Joins(J, K, c, e, pending, q, j)
            /\ K[j].id \in Nat
            => M = Joined(L, K[j].id)
      BY <1>1, LineSubmit
    <2> QED BY <1>4, <1>5, <1>6, <1>7, <1>8, <2>1, <2>2
  <1>10. \A i \in 1..Len(PromisedLine) : PromisedLine[i].id < lastId + 1
    <2> SUFFICES ASSUME NEW i \in 1..Len(PromisedLine)
                 PROVE  PromisedLine[i].id < lastId + 1
      OBVIOUS
    <2>0. \A k \in Elems(done) \cup Elems(pending) : job[k].id <= lastId /\ job[k].id \in Nat
      BY <1>1 DEF QInv, OInv, Ordered, IInv, TypeOK, QueueTypes, JobType
    <2>1. CASE i \in 1..Len(done)
      <3>1. done[i] \in Elems(done) BY <2>1 DEF Elems
      <3>2. PromisedLine[i].id = job[done[i]].id BY <1>6, <2>1 DEF Describes
      <3> QED BY <1>1, <2>0, <3>1, <3>2
    <2>2. CASE Owner(job, cur) /\ i = Len(done) + 1
      <3>1. PromisedLine[i].id = job[cur].id BY <1>6, <2>2 DEF Describes
      <3>2. job[cur].id <= lastId /\ job[cur].id \in Nat
        BY <1>1, <2>2 DEF QInv, OInv, Ordered, Survivor, Owner, IInv, TypeOK, QueueTypes, JobType
      <3> QED BY <1>1, <3>1, <3>2
    <2>3. CASE i - (Len(done) + Taken(job, cur)) \in 1..Len(pending)
      <3>1. PICK k \in 1..Len(pending) : k = i - (Len(done) + Taken(job, cur)) BY <2>3
      <3>2. i = Len(done) + Taken(job, cur) + k BY <1>1, <1>6, <3>1, Falls
      <3>3. PromisedLine[i].id = job[pending[k]].id BY <1>1, <1>6, <3>2, WaitingPoint
      <3>4. pending[k] \in Elems(pending) BY DEF Elems
      <3> QED BY <1>1, <2>0, <3>3, <3>4
    <2> QED BY <1>1, <1>6, <2>1, <2>2, <2>3, Falls
  <1>11. Queue!Submit(lastId + 1)
    BY <1>1, <1>2, <1>9, <1>10 DEF Queue!Submit, Joined
  <1>12. lastId + 1 \in 1..MaxId BY <1>1, <1>2, NpuAssumption
  <1> QED BY <1>11, <1>12 DEF Queue!Next

LEMMA MapQuery ==
  ASSUME QInv, IInv', NEW p \in Procs, QueryReady(p) PROVE Maps
  <1>1. /\ done \in Seq(Jobs) /\ pending \in Seq(Jobs) /\ cur \in Jobs \cup {Nobody}
        /\ Elems(done) \subseteq Jobs /\ Elems(pending) \subseteq Jobs /\ IInv
        /\ UNCHANGED <<cur, pending, queues>> /\ done' \in Seq(Jobs)
        /\ job \in [Jobs -> JobType]
    BY ElemsIn DEF QInv, OInv, IInv, TypeOK, QueueTypes, QueryReady, userVars
  <1>2. CASE UNCHANGED <<job, done>>
    <2>1. Keeps BY <1>1, <1>2, MapSame
    <2> QED BY <2>1 DEF Maps
  <1>3. ASSUME NEW i \in 1..Len(done), job' = Free({done[i]}), done' = DropAt(done, i)
        PROVE  Queue!Next
    <2>1. done[i] \in Elems(done) BY DEF Elems
    <2>2. \A j \in Jobs \ {done[i]} : job'[j] = job[j] BY <1>3 DEF Free
    <2>3. done[i] \notin Elems(done') /\ Elems(done') \subseteq Elems(done)
      BY <1>1, <1>3, ElemsDrop DEF IInv, JobsAccounted
    <2>4. done[i] \notin Elems(pending) /\ cur # done[i]
      BY <1>1, <2>1 DEF IInv, JobsAccounted
    <2>5. \A j \in Elems(done') \cup Elems(pending) : job'[j].id = job[j].id
      BY <1>1, <2>2, <2>3, <2>4
    <2>6. cur # Nobody => job'[cur] = job[cur] BY <1>1, <2>2, <2>4
    <2>7. /\ Owner(job', cur) <=> Owner(job, cur)
          /\ Owner(job, cur) => /\ job'[cur].id = job[cur].id
                                /\ (job'[cur].st = "stop" <=> job[cur].st = "stop")
      BY <2>6 DEF Owner
    <2>8. Describes(PromisedLine, job, done, cur, pending)
      BY <1>1, Described DEF IInv
    <2>9. Describes(PromisedLine', job', done', cur, pending)
      <3>1. Describes(PromisedLine', job', done', cur', pending')
        BY DescribedNext DEF IInv
      <3> QED BY <1>1, <3>1
    <2>10. /\ i \in 1..Len(PromisedLine) /\ PromisedLine[i].st = "ended"
           /\ PromisedLine' = Queue!Drops(PromisedLine, i)
      <3>1. \A a \in Seq(Jobs) : \A L, M, J, K, c :
              /\ a = DropAt(done, i)
              /\ Describes(L, J, done, c, pending) /\ Describes(M, K, a, c, pending)
              /\ \A j \in Elems(a) \cup Elems(pending) : K[j].id = J[j].id
              /\ Owner(K, c) <=> Owner(J, c)
              /\ Owner(J, c) => K[c].id = J[c].id /\ (K[c].st = "stop" <=> J[c].st = "stop")
              => /\ i \in 1..Len(L) /\ L[i].st = "ended"
                 /\ M = Queue!Drops(L, i)
        BY <1>1, LineCollect
      <3> QED BY <1>1, <1>3, <2>5, <2>7, <2>8, <2>9, <3>1
    <2>11. Queue!Collect(i) BY <1>1, <2>10 DEF Queue!Collect
    <2> QED BY <2>10, <2>11 DEF Queue!Next
  <1> QED BY <1>2, <1>3 DEF QueryReady, Maps, IsCollected

LEMMA MapGiveUp ==
  ASSUME QInv, IInv', NEW p \in Procs,
         DestroyPending(p) \/ DestroyMark(p) \/ DestroyDrain(p)
  PROVE  Queue!Next
  <1>1. /\ done \in Seq(Jobs) /\ pending \in Seq(Jobs) /\ cur \in Jobs \cup {Nobody}
        /\ Elems(done) \subseteq Jobs /\ IInv /\ done' \in Seq(Jobs)
        /\ job \in [Jobs -> JobType]
    BY ElemsIn DEF QInv, OInv, IInv, TypeOK, QueueTypes
  <1>2. /\ UNCHANGED <<cur, queues>> /\ queues = 0 /\ pending' = <<>>
        /\ \/ done' = <<>> /\ ~Owner(job', cur)
           \/ /\ done' = done /\ \A j \in Elems(done) : job'[j].id = job[j].id
              /\ Owner(job', cur) => Owner(job, cur) /\ job'[cur].id = job[cur].id
                                     /\ (job'[cur].st = "stop" <=> job[cur].st = "stop")
    <2>1. CASE DestroyPending(p)
      <3>1. /\ UNCHANGED <<cur, queues, done>> /\ pending' = <<>> /\ pc[p] = "drop"
            /\ job' = Free(Elems(pending))
        BY <2>1 DEF DestroyPending, userVars
      <3>2. queues = 0 BY <1>1, <3>1 DEF IInv, GivingUp, GivenUp, Destroying
      <3>3. Elems(done) \cap Elems(pending) = {} /\ cur \notin Elems(pending)
        BY <1>1 DEF IInv, JobsAccounted
      <3>4. \A j \in Jobs \ Elems(pending) : job'[j] = job[j] BY <3>1 DEF Free
      <3>5. cur # Nobody => job'[cur] = job[cur] BY <1>1, <3>3, <3>4
      <3>6. \A j \in Elems(done) : job'[j].id = job[j].id BY <1>1, <3>3, <3>4
      <3> QED BY <3>1, <3>2, <3>5, <3>6 DEF Owner
    <2>2. CASE DestroyMark(p) \/ DestroyDrain(p)
      <3>1. /\ pending = <<>> /\ UNCHANGED <<cur, pending, queues>> /\ queues = 0
            /\ ~Survivor'
            /\ \/ done' = done /\ \A j \in Jobs : job'[j].id = job[j].id
               \/ done' = <<>>
        BY <1>1, <2>2, MarkEffect
      <3>2. ~Owner(job', cur) BY <3>1 DEF Survivor, Owner
      <3> QED BY <1>1, <3>1, <3>2
    <2> QED BY <2>1, <2>2
  <1>3. Describes(PromisedLine, job, done, cur, pending)
    BY <1>1, Described DEF IInv
  <1>4. Describes(PromisedLine', job', done', cur, <<>>)
    <2>1. Describes(PromisedLine', job', done', cur', pending')
      BY DescribedNext DEF IInv
    <2> QED BY <1>2, <2>1
  <1>5. \E n \in 0..Len(PromisedLine) : PromisedLine' = SubSeq(PromisedLine, 1, n)
    BY <1>1, <1>2, <1>3, <1>4, LineCut
  <1>6. Queue!GiveUp BY <1>2, <1>5 DEF Queue!GiveUp
  <1> QED BY <1>6 DEF Queue!Next

\* A queue is made of an empty line, and goes before its jobs do.
LEMMA MapQueues ==
  ASSUME QInv, IInv', NEW p \in Procs,
         IocCreateQueue(p) \/ IocDestroyQueue(p) \/ DropQueues(p)
  PROVE  Maps
  <1>1. queues \in Nat /\ UNCHANGED <<job, done, cur, pending>> /\ IInv
    BY DEF QInv, OInv, IInv, TypeOK, UserTypes, IocCreateQueue, IocDestroyQueue,
       DropQueues, queueVars
  <1>2. PromisedLine' = PromisedLine
    BY <1>1 DEF PromisedLine, Promised, Line, Elems
  <1>3. CASE IocCreateQueue(p)
    <2>1. CASE queues = 0
      <3>1. \A q \in Procs : pc[q] \notin Dropping
        BY <1>1, <1>3, NpuAssumption
        DEF IocCreateQueue, IInv, GivingUp, QueueHeld, Dropping, Destroying
      <3>2. done = <<>> /\ pending = <<>> /\ ~Survivor
        BY <1>1, <2>1, <3>1 DEF IInv, GivingUp, Emptied
      <3>3. Describes(PromisedLine, job, done, cur, pending)
        BY <1>1, Described DEF IInv
      <3>4. PromisedLine \in Seq(Entry) /\ Len(PromisedLine) = 0
        BY <3>2, <3>3 DEF Describes, Taken, Owner, Survivor
      <3>5. PromisedLine = <<>> BY <3>4
      <3>6. queues' = 1 BY <1>1, <1>3, <2>1 DEF IocCreateQueue
      <3>7. Queue!Open BY <1>2, <2>1, <3>5, <3>6 DEF Queue!Open
      <3> QED BY <3>7 DEF Queue!Next, Maps
    <2>2. CASE queues > 0
      <3>1. queues' > 0 BY <1>1, <1>3, <2>2 DEF IocCreateQueue
      <3> QED BY <1>2, <2>2, <3>1 DEF Maps, Keeps
    <2> QED BY <1>1, <2>1, <2>2
  <1>4. CASE IocDestroyQueue(p) \/ DropQueues(p)
    <2>1. queues' \in Nat /\ (queues = 0 => queues' = 0)
      BY <1>1, <1>4 DEF IocDestroyQueue, DropQueues, Less
    <2>2. CASE queues > 0 /\ queues' = 0
      <3>1. Queue!Close BY <1>2, <2>2 DEF Queue!Close
      <3> QED BY <3>1 DEF Queue!Next, Maps
    <2>3. CASE queues' > 0 <=> queues > 0 BY <1>2, <2>3 DEF Maps, Keeps
    <2> QED BY <1>1, <2>1, <2>2, <2>3
  <1> QED BY <1>3, <1>4

LEMMA MapReset ==
  ASSUME QInv, IInv', NEW p \in Procs, ResetStop(p) \/ ResetEnd(p) PROVE Keeps
  <1>1. /\ done = <<>> /\ pending = <<>> /\ UNCHANGED <<done, pending, queues>>
        /\ ~Survivor /\ ~Survivor'
    BY ResetEffect DEF QInv, OInv
  <1>2. ~Owner(job, cur) /\ ~Owner(job', cur') BY <1>1 DEF Survivor, Owner
  <1>3. Elems(done) \cup Elems(pending) = {} BY <1>1, ElemsNone
  <1> QED BY <1>1, <1>2, <1>3, MapSame

LEMMA MapStill ==
  ASSUME UNCHANGED <<job, done, cur, pending, queues>> PROVE Keeps
  BY DEF Keeps, PromisedLine, Promised, Line, Elems

LEMMA MapNext == ASSUME QInv, IInv', [Next]_vars PROVE Maps
  <1>1. CASE HardIrqNote \/ HardIrqAbort BY <1>1, MapIrq
  <1>2. CASE ThreadSuccess \/ ThreadAbort
    BY <1>2, MapOrphanEnds, MapSuccess, MapAbort DEF Maps
  <1>3. CASE ThreadSpurious \/ ThreadStopped \/ HardIrqEnter \/ UNCHANGED vars
    <2>1. UNCHANGED <<job, done, cur, pending, queues>>
      BY <1>3 DEF ThreadSpurious, ThreadStopped, HardIrqEnter, vars, queueVars, userVars
    <2> QED BY <2>1, MapStill DEF Maps
  <1>4. ASSUME NEW e \in Events, NpuEvent(e) PROVE Maps
    BY <1>4, MapStill DEF NpuEvent, queueVars, userVars, Maps
  <1>5. ASSUME NEW p \in Procs, UserStep(p) PROVE Maps
    <2>1. CASE IocSubmit(p) BY <2>1, MapSubmit DEF Maps
    <2>2. CASE IocCreateQueue(p) \/ IocDestroyQueue(p) BY <2>2, MapQueues
    <2>3. CASE \/ FopOpen(p) \/ FopRelease(p) \/ IocOpen(p) \/ IocClose(p) \/ IocReset(p)
               \/ IocClrWfi(p) \/ \E c \in {"wait", "query"}, id \in 1..MaxId : IocQuery(p, c, id)
      <3>1. UNCHANGED <<job, done, cur, pending, queues>>
        BY <2>3 DEF FopOpen, FopRelease, IocOpen, IocClose, IocReset, IocClrWfi, IocQuery,
           queueVars, userVars
      <3> QED BY <3>1, MapStill DEF Maps
    <2> QED BY <1>5, <2>1, <2>2, <2>3 DEF UserStep
  <1>6. ASSUME NEW p \in Procs, KernelStep(p) \/ WaitTimeout(p) PROVE Maps
    <2>1. CASE QueryReady(p) BY <2>1, MapQuery
    <2>2. CASE DropQueues(p) BY <2>2, MapQueues
    <2>3. CASE DestroyPending(p) \/ DestroyMark(p) \/ DestroyDrain(p)
      BY <2>3, MapGiveUp DEF Maps
    <2>4. CASE ResetStop(p) \/ ResetEnd(p) BY <2>4, MapReset DEF Maps
    <2>5. CASE \/ QueryUnready(p) \/ WaitWoken(p) \/ DestroyGrace(p) \/ CloseEnd(p)
               \/ ReleaseEnd(p) \/ ResetFails(p) \/ WaitTimeout(p)
      <3>1. UNCHANGED <<job, done, cur, pending, queues>>
        BY <2>5 DEF QueryUnready, WaitWoken, DestroyGrace, CloseEnd, ReleaseEnd, ResetFails,
           WaitTimeout, queueVars, userVars
      <3> QED BY <3>1, MapStill DEF Maps
    <2> QED BY <1>6, <2>1, <2>2, <2>3, <2>4, <2>5 DEF KernelStep
  <1> QED BY <1>1, <1>2, <1>3, <1>4, <1>5, <1>6 DEF Next, HardIrq, IrqThread, Events

\* The driver implements the queue /dev/npu.0 promises, whatever the NPU
\* reports and on however many cores: in every state the jobs of done, cur and
\* pending are the promised line, and each section under state_lock takes one
\* step of it or none (npu_submit, npu_collect, npu_irq_thread,
\* npu_destroy_queue).
THEOREM QueueImplemented == Spec => ImplementsQueue
  <1>1. Init => Queue!Init
    <2> SUFFICES ASSUME Init PROVE PromisedLine = <<>> /\ (queues > 0) = FALSE
      BY DEF Queue!Init
    <2>1. Line = <<>> /\ queues = 0 BY DEF Init, Line
    <2>2. PromisedLine = <<>> BY <2>1 DEF PromisedLine
    <2> QED BY <2>1, <2>2
  <1>2. QInv /\ IInv' /\ [Next]_vars => [Queue!Next]_(Queue!vars)
    <2> SUFFICES ASSUME QInv, IInv', [Next]_vars, ~Queue!Next
                 PROVE  UNCHANGED Queue!vars
      OBVIOUS
    <2>1. Keeps BY MapNext DEF Maps
    <2>2. (queues > 0)' = (queues > 0)
      <3>1. queues \in Nat /\ queues' \in Nat
        BY DEF QInv, OInv, IInv, TypeOK, UserTypes
      <3> QED BY <2>1, <3>1 DEF Keeps
    <2> QED BY <2>1, <2>2 DEF Keeps, Queue!vars
  <1> QED BY <1>1, <1>2, QInvAlways, IInvAlways, PTL DEF Spec, ImplementsQueue, Queue!Spec
=============================================================================
