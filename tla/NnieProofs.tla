----------------------------- MODULE NnieProofs -----------------------------
(***************************************************************************)
(* Proofs about Nnie, for any number of callers, buffers and entries: the  *)
(* registry holds a buffer once, and a Forward that nothing of an earlier  *)
(* task disturbs answers for its own.                                      *)
(***************************************************************************)
EXTENDS Nnie, TLAPS

USE NnieAssumption

TypeOK ==
  /\ entry \in [Entries -> Bufs \cup {None}] /\ list \subseteq Entries
  /\ pc \in [Procs -> Places]
  /\ buf \in [Procs -> Bufs \cup Entries \cup {None}]
  /\ lock \in Procs \cup {None}
  /\ hw \subseteq {"own", "older"} /\ status \subseteq Causes
  /\ irq \in [on : BOOLEAN, st : SUBSET Causes]
  /\ last \subseteq Causes /\ done \in BOOLEAN
  /\ how \in Causes \cup {"none"} /\ alone \in BOOLEAN

\* What the buffer of a call is
CallsOK ==
  \A p \in Procs :
    /\ pc[p] = "user" => buf[p] = None
    /\ pc[p] = "free" => buf[p] \in Entries
    /\ pc[p] \notin {"user", "free"} => buf[p] \in Bufs

\* The registry: each entry on the list has a buffer of its own, each that
\* has left it is freed by one call.
RegistryOK ==
  /\ \A e \in list : entry[e] # None
  /\ \A d, e \in list : entry[d] = entry[e] => d = e
  /\ \A e \in Entries \ list : entry[e] # None =>
       \E p \in Procs : pc[p] = "free" /\ buf[p] = e
  /\ \A p \in Procs : pc[p] = "free" =>
       buf[p] \notin list /\ entry[buf[p]] # None
  /\ \A p, q \in Procs :
       pc[p] = "free" /\ pc[q] = "free" /\ buf[p] = buf[q] => p = q

Inside == {"clear", "start", "wait", "collect", "late"}

\* One call at a time is between the lock and the unlock, and the NNIE has a
\* task of nobody's when there is none.
LockOK ==
  /\ \A p \in Procs : pc[p] \in Inside <=> lock = p
  /\ lock = None => "own" \notin hw /\ how = "none"

\* An undisturbed call: its task runs, or has ended and is being told.
Nothing == hw = {} /\ status = {} /\ ~irq.on /\ ~done /\ last = {}
Runs    == hw = {"own"} /\ how = "none" /\ status = {} /\ ~irq.on /\ ~done
           /\ last = {}
Told    == /\ hw = {} /\ how \in Causes
           /\ \/ status = {how} /\ ~irq.on /\ ~done /\ last = {}
              \/ status = {how} /\ irq.on /\ irq.st = {how} /\ ~done /\ last = {}
              \/ status = {} /\ ~irq.on /\ done /\ last = {how}
Ended   == hw = {} /\ how \in Causes /\ status = {} /\ ~irq.on /\ ~done
           /\ last = {how}
AloneOK ==
  \A p \in Procs : alone /\ lock = p =>
    /\ pc[p] \in {"clear", "start"} => Nothing /\ how = "none"
    /\ pc[p] = "wait" => Runs \/ Told
    /\ pc[p] = "collect" => Ended

IInv == TypeOK /\ CallsOK /\ RegistryOK /\ LockOK /\ AloneOK

-----------------------------------------------------------------------------
(* Every step keeps each part. *)

\* What nnie_add_tskbuf changes
LEMMA AddAdds ==
  ASSUME IInv, NEW b \in Bufs, Add(b)
  PROVE  \/ UNCHANGED <<entry, list>>
         \/ \E e \in Entries \ list :
              /\ entry[e] = None /\ \A d \in list : entry[d] # b
              /\ entry' = [entry EXCEPT ![e] = b]
              /\ list' = list \cup {e}
  BY DEF Add, Found, regVars, IInv, RegistryOK

LEMMA AddKeepsRegistry ==
  ASSUME IInv, NEW b \in Bufs, Add(b),
         \A p \in Procs : pc'[p] = "free" <=> pc[p] = "free",
         \A p \in Procs : pc[p] = "free" => buf'[p] = buf[p]
  PROVE  RegistryOK' /\ entry' \in [Entries -> Bufs \cup {None}]
         /\ list' \subseteq Entries
  <1>. USE DEF IInv, TypeOK, CallsOK, RegistryOK
  <1>1. CASE UNCHANGED <<entry, list>>
    BY <1>1
  <1>2. ASSUME NEW e \in Entries \ list, entry[e] = None,
               \A d \in list : entry[d] # b,
               entry' = [entry EXCEPT ![e] = b], list' = list \cup {e}
        PROVE  RegistryOK' /\ entry' \in [Entries -> Bufs \cup {None}]
               /\ list' \subseteq Entries
    <2>1. entry'[e] = b /\ b # None /\ \A d \in Entries \ {e} : entry'[d] = entry[d]
      BY <1>2
    <2>2. \A d \in list' : entry'[d] # None
      BY <1>2, <2>1
    <2>3. \A c, d \in list' : entry'[c] = entry'[d] => c = d
      BY <1>2, <2>1
    <2>4. \A d \in Entries \ list' : entry'[d] # None =>
            \E p \in Procs : pc'[p] = "free" /\ buf'[p] = d
      BY <1>2, <2>1
    <2>5. \A p \in Procs : pc'[p] = "free" =>
            buf'[p] \notin list' /\ entry'[buf'[p]] # None
      BY <1>2, <2>1
    <2>6. \A p, q \in Procs :
            pc'[p] = "free" /\ pc'[q] = "free" /\ buf'[p] = buf'[q] => p = q
      OBVIOUS
    <2>. QED
      BY <1>2, <2>2, <2>3, <2>4, <2>5, <2>6
  <1>. QED
    BY <1>1, <1>2, AddAdds

LEMMA NextKeepsTypes ==
  ASSUME IInv, [Next]_vars
  PROVE  TypeOK'
  <1>. USE DEF IInv, Goto, Call, regVars, hwVars, waitVars, history
  <1>1. ASSUME UNCHANGED vars PROVE TypeOK'
    BY <1>1 DEF vars, TypeOK, Places, Causes
  <1>2. ASSUME NEW p \in Procs, NEW b \in Bufs, AddTskBuf(p, b) PROVE TypeOK'
    BY <1>2 DEF AddTskBuf, Add, Found, TypeOK, Places, Causes
  <1>3. ASSUME NEW p \in Procs, NEW e \in Entries, RemoveTskBuf(p, e)
        PROVE  TypeOK'
    BY <1>3 DEF RemoveTskBuf, TypeOK, Places, Causes
  <1>4. ASSUME NEW p \in Procs, FreeTskBuf(p) PROVE TypeOK'
    BY <1>4 DEF FreeTskBuf, TypeOK, Places, Causes
  <1>5. ASSUME NEW p \in Procs, NEW b \in Bufs, Forward(p, b) PROVE TypeOK'
    BY <1>5 DEF Forward, TypeOK, Places, Causes
  <1>6. ASSUME NEW p \in Procs, ForwardAdd(p) PROVE TypeOK'
    <2>1. RegistryOK' /\ entry' \in [Entries -> Bufs \cup {None}]
          /\ list' \subseteq Entries
      BY <1>6, AddKeepsRegistry DEF ForwardAdd, TypeOK, CallsOK
    <2>. QED
      BY <1>6, <2>1 DEF ForwardAdd, TypeOK, Places, Causes
  <1>7. ASSUME NEW p \in Procs, ForwardFind(p) PROVE TypeOK'
    BY <1>7 DEF ForwardFind, TypeOK, Places, Causes
  <1>8. ASSUME NEW p \in Procs, Begin(p) PROVE TypeOK'
    BY <1>8 DEF Begin, TypeOK, Places, Causes
  <1>9. ASSUME NEW p \in Procs, BeginFails(p) PROVE TypeOK'
    BY <1>9 DEF BeginFails, TypeOK, Places, Causes
  <1>10. ASSUME NEW p \in Procs, ClearIrqs(p) PROVE TypeOK'
    BY <1>10 DEF ClearIrqs, TypeOK, Places, Causes
  <1>11. ASSUME NEW p \in Procs, Start(p) PROVE TypeOK'
    BY <1>11 DEF Start, TypeOK, Places, Causes
  <1>12. ASSUME NEW p \in Procs, Completed(p) PROVE TypeOK'
    BY <1>12 DEF Completed, TypeOK, Places, Causes
  <1>13. ASSUME NEW p \in Procs, TimesOut(p) PROVE TypeOK'
    BY <1>13 DEF TimesOut, TypeOK, Places, Causes
  <1>14. ASSUME NEW p \in Procs, Collect(p) PROVE TypeOK'
    BY <1>14 DEF Collect, Leaves, TypeOK, Places, Causes
  <1>15. ASSUME NEW t \in {"own", "older"}, NEW c \in Causes, NnieEnds(t, c)
        PROVE  TypeOK'
    BY <1>15 DEF NnieEnds, TypeOK, Places, Causes
  <1>16. ASSUME IrqReads PROVE TypeOK'
    BY <1>16 DEF IrqReads, Off, TypeOK, Places, Causes
  <1>17. ASSUME IrqCompletes PROVE TypeOK'
    BY <1>17 DEF IrqCompletes, Off, TypeOK, Places, Causes
  <1>. QED
    BY <1>1, <1>2, <1>3, <1>4, <1>5, <1>6, <1>7, <1>8, <1>9, <1>10, <1>11, <1>12, <1>13, <1>14, <1>15, <1>16, <1>17
    DEF Next, ProcStep

LEMMA NextKeepsCalls ==
  ASSUME IInv, [Next]_vars
  PROVE  CallsOK'
  <1>. USE DEF IInv, Goto, Call, regVars, hwVars, waitVars, history
  <1>1. ASSUME UNCHANGED vars PROVE CallsOK'
    BY <1>1 DEF vars, TypeOK, CallsOK
  <1>2. ASSUME NEW p \in Procs, NEW b \in Bufs, AddTskBuf(p, b) PROVE CallsOK'
    BY <1>2 DEF AddTskBuf, Add, Found, TypeOK, CallsOK
  <1>3. ASSUME NEW p \in Procs, NEW e \in Entries, RemoveTskBuf(p, e)
        PROVE  CallsOK'
    BY <1>3 DEF RemoveTskBuf, TypeOK, CallsOK
  <1>4. ASSUME NEW p \in Procs, FreeTskBuf(p) PROVE CallsOK'
    BY <1>4 DEF FreeTskBuf, TypeOK, CallsOK
  <1>5. ASSUME NEW p \in Procs, NEW b \in Bufs, Forward(p, b) PROVE CallsOK'
    BY <1>5 DEF Forward, TypeOK, CallsOK
  <1>6. ASSUME NEW p \in Procs, ForwardAdd(p) PROVE CallsOK'
    BY <1>6 DEF ForwardAdd, Add, Found, TypeOK, CallsOK
  <1>7. ASSUME NEW p \in Procs, ForwardFind(p) PROVE CallsOK'
    BY <1>7 DEF ForwardFind, TypeOK, CallsOK
  <1>8. ASSUME NEW p \in Procs, Begin(p) PROVE CallsOK'
    BY <1>8 DEF Begin, TypeOK, CallsOK
  <1>9. ASSUME NEW p \in Procs, BeginFails(p) PROVE CallsOK'
    BY <1>9 DEF BeginFails, TypeOK, CallsOK
  <1>10. ASSUME NEW p \in Procs, ClearIrqs(p) PROVE CallsOK'
    BY <1>10 DEF ClearIrqs, TypeOK, CallsOK
  <1>11. ASSUME NEW p \in Procs, Start(p) PROVE CallsOK'
    BY <1>11 DEF Start, TypeOK, CallsOK
  <1>12. ASSUME NEW p \in Procs, Completed(p) PROVE CallsOK'
    BY <1>12 DEF Completed, TypeOK, CallsOK
  <1>13. ASSUME NEW p \in Procs, TimesOut(p) PROVE CallsOK'
    BY <1>13 DEF TimesOut, TypeOK, CallsOK
  <1>14. ASSUME NEW p \in Procs, Collect(p) PROVE CallsOK'
    BY <1>14 DEF Collect, Leaves, TypeOK, CallsOK
  <1>15. ASSUME NEW t \in {"own", "older"}, NEW c \in Causes, NnieEnds(t, c)
        PROVE  CallsOK'
    BY <1>15 DEF NnieEnds, TypeOK, CallsOK
  <1>16. ASSUME IrqReads PROVE CallsOK'
    BY <1>16 DEF IrqReads, Off, TypeOK, CallsOK
  <1>17. ASSUME IrqCompletes PROVE CallsOK'
    BY <1>17 DEF IrqCompletes, Off, TypeOK, CallsOK
  <1>. QED
    BY <1>1, <1>2, <1>3, <1>4, <1>5, <1>6, <1>7, <1>8, <1>9, <1>10, <1>11, <1>12, <1>13, <1>14, <1>15, <1>16, <1>17
    DEF Next, ProcStep

LEMMA NextKeepsLock ==
  ASSUME IInv, [Next]_vars
  PROVE  LockOK'
  <1>. USE DEF IInv, Goto, Call, regVars, hwVars, waitVars, history
  <1>1. ASSUME UNCHANGED vars PROVE LockOK'
    BY <1>1 DEF vars, TypeOK, LockOK, Inside
  <1>2. ASSUME NEW p \in Procs, NEW b \in Bufs, AddTskBuf(p, b) PROVE LockOK'
    BY <1>2 DEF AddTskBuf, Add, Found, TypeOK, LockOK, Inside
  <1>3. ASSUME NEW p \in Procs, NEW e \in Entries, RemoveTskBuf(p, e)
        PROVE  LockOK'
    BY <1>3 DEF RemoveTskBuf, TypeOK, LockOK, Inside
  <1>4. ASSUME NEW p \in Procs, FreeTskBuf(p) PROVE LockOK'
    BY <1>4 DEF FreeTskBuf, TypeOK, LockOK, Inside
  <1>5. ASSUME NEW p \in Procs, NEW b \in Bufs, Forward(p, b) PROVE LockOK'
    BY <1>5 DEF Forward, TypeOK, LockOK, Inside
  <1>6. ASSUME NEW p \in Procs, ForwardAdd(p) PROVE LockOK'
    BY <1>6 DEF ForwardAdd, Add, Found, TypeOK, LockOK, Inside
  <1>7. ASSUME NEW p \in Procs, ForwardFind(p) PROVE LockOK'
    BY <1>7 DEF ForwardFind, TypeOK, LockOK, Inside
  <1>8. ASSUME NEW p \in Procs, Begin(p) PROVE LockOK'
    BY <1>8 DEF Begin, TypeOK, LockOK, Inside
  <1>9. ASSUME NEW p \in Procs, BeginFails(p) PROVE LockOK'
    BY <1>9 DEF BeginFails, TypeOK, LockOK, Inside
  <1>10. ASSUME NEW p \in Procs, ClearIrqs(p) PROVE LockOK'
    BY <1>10 DEF ClearIrqs, TypeOK, LockOK, Inside
  <1>11. ASSUME NEW p \in Procs, Start(p) PROVE LockOK'
    BY <1>11 DEF Start, TypeOK, LockOK, Inside
  <1>12. ASSUME NEW p \in Procs, Completed(p) PROVE LockOK'
    BY <1>12 DEF Completed, TypeOK, LockOK, Inside
  <1>13. ASSUME NEW p \in Procs, TimesOut(p) PROVE LockOK'
    BY <1>13 DEF TimesOut, TypeOK, LockOK, Inside
  <1>14. ASSUME NEW p \in Procs, Collect(p) PROVE LockOK'
    BY <1>14 DEF Collect, Leaves, TypeOK, LockOK, Inside
  <1>15. ASSUME NEW t \in {"own", "older"}, NEW c \in Causes, NnieEnds(t, c)
        PROVE  LockOK'
    BY <1>15 DEF NnieEnds, TypeOK, LockOK, Inside
  <1>16. ASSUME IrqReads PROVE LockOK'
    BY <1>16 DEF IrqReads, Off, TypeOK, LockOK, Inside
  <1>17. ASSUME IrqCompletes PROVE LockOK'
    BY <1>17 DEF IrqCompletes, Off, TypeOK, LockOK, Inside
  <1>. QED
    BY <1>1, <1>2, <1>3, <1>4, <1>5, <1>6, <1>7, <1>8, <1>9, <1>10, <1>11, <1>12, <1>13, <1>14, <1>15, <1>16, <1>17
    DEF Next, ProcStep

LEMMA NextKeepsRegistry ==
  ASSUME IInv, [Next]_vars
  PROVE  RegistryOK'
  <1>. USE DEF IInv, Goto, Call, regVars, hwVars, waitVars, history
  <1>1. ASSUME UNCHANGED vars PROVE RegistryOK'
    BY <1>1 DEF vars, TypeOK, CallsOK, RegistryOK
  <1>2. ASSUME NEW p \in Procs, NEW b \in Bufs, AddTskBuf(p, b)
        PROVE  RegistryOK'
    BY <1>2, AddKeepsRegistry DEF AddTskBuf
  <1>3. ASSUME NEW p \in Procs, NEW e \in Entries, RemoveTskBuf(p, e)
        PROVE  RegistryOK'
    BY <1>3 DEF RemoveTskBuf, TypeOK, CallsOK, RegistryOK
  <1>4. ASSUME NEW p \in Procs, FreeTskBuf(p) PROVE RegistryOK'
    BY <1>4 DEF FreeTskBuf, TypeOK, CallsOK, RegistryOK
  <1>5. ASSUME NEW p \in Procs, NEW b \in Bufs, Forward(p, b) PROVE RegistryOK'
    BY <1>5 DEF Forward, TypeOK, CallsOK, RegistryOK
  <1>6. ASSUME NEW p \in Procs, ForwardAdd(p) PROVE RegistryOK'
    BY <1>6, AddKeepsRegistry DEF ForwardAdd, TypeOK, CallsOK
  <1>7. ASSUME NEW p \in Procs, ForwardFind(p) PROVE RegistryOK'
    BY <1>7 DEF ForwardFind, TypeOK, CallsOK, RegistryOK
  <1>8. ASSUME NEW p \in Procs, Begin(p) PROVE RegistryOK'
    BY <1>8 DEF Begin, TypeOK, CallsOK, RegistryOK
  <1>9. ASSUME NEW p \in Procs, BeginFails(p) PROVE RegistryOK'
    BY <1>9 DEF BeginFails, TypeOK, CallsOK, RegistryOK
  <1>10. ASSUME NEW p \in Procs, ClearIrqs(p) PROVE RegistryOK'
    BY <1>10 DEF ClearIrqs, TypeOK, CallsOK, RegistryOK
  <1>11. ASSUME NEW p \in Procs, Start(p) PROVE RegistryOK'
    BY <1>11 DEF Start, TypeOK, CallsOK, RegistryOK
  <1>12. ASSUME NEW p \in Procs, Completed(p) PROVE RegistryOK'
    BY <1>12 DEF Completed, TypeOK, CallsOK, RegistryOK
  <1>13. ASSUME NEW p \in Procs, TimesOut(p) PROVE RegistryOK'
    BY <1>13 DEF TimesOut, TypeOK, CallsOK, RegistryOK
  <1>14. ASSUME NEW p \in Procs, Collect(p) PROVE RegistryOK'
    BY <1>14 DEF Collect, Leaves, TypeOK, CallsOK, RegistryOK
  <1>15. ASSUME NEW t \in {"own", "older"}, NEW c \in Causes, NnieEnds(t, c)
        PROVE  RegistryOK'
    BY <1>15 DEF NnieEnds, TypeOK, CallsOK, RegistryOK
  <1>16. ASSUME IrqReads PROVE RegistryOK'
    BY <1>16 DEF IrqReads, Off, TypeOK, CallsOK, RegistryOK
  <1>17. ASSUME IrqCompletes PROVE RegistryOK'
    BY <1>17 DEF IrqCompletes, Off, TypeOK, CallsOK, RegistryOK
  <1>. QED
    BY <1>1, <1>2, <1>3, <1>4, <1>5, <1>6, <1>7, <1>8, <1>9, <1>10, <1>11, <1>12, <1>13, <1>14, <1>15, <1>16, <1>17
    DEF Next, ProcStep

LEMMA NextKeepsAlone ==
  ASSUME IInv, [Next]_vars
  PROVE  AloneOK'
  <1>. USE DEF IInv, Goto, Call, regVars, hwVars, waitVars, history
  <1>1. ASSUME UNCHANGED vars PROVE AloneOK'
    BY <1>1 DEF vars, TypeOK, LockOK, Inside, AloneOK, Nothing, Runs, Told, Ended
  <1>2. ASSUME NEW p \in Procs, NEW b \in Bufs, AddTskBuf(p, b) PROVE AloneOK'
    BY <1>2 DEF AddTskBuf, Add, Found, TypeOK, LockOK, Inside, AloneOK, Nothing, Runs, Told, Ended
  <1>3. ASSUME NEW p \in Procs, NEW e \in Entries, RemoveTskBuf(p, e)
        PROVE  AloneOK'
    BY <1>3 DEF RemoveTskBuf, TypeOK, LockOK, Inside, AloneOK, Nothing, Runs, Told, Ended
  <1>4. ASSUME NEW p \in Procs, FreeTskBuf(p) PROVE AloneOK'
    BY <1>4 DEF FreeTskBuf, TypeOK, LockOK, Inside, AloneOK, Nothing, Runs, Told, Ended
  <1>5. ASSUME NEW p \in Procs, NEW b \in Bufs, Forward(p, b) PROVE AloneOK'
    BY <1>5 DEF Forward, TypeOK, LockOK, Inside, AloneOK, Nothing, Runs, Told, Ended
  <1>6. ASSUME NEW p \in Procs, ForwardAdd(p) PROVE AloneOK'
    BY <1>6 DEF ForwardAdd, Add, Found, TypeOK, LockOK, Inside, AloneOK, Nothing, Runs, Told, Ended
  <1>7. ASSUME NEW p \in Procs, ForwardFind(p) PROVE AloneOK'
    BY <1>7 DEF ForwardFind, TypeOK, LockOK, Inside, AloneOK, Nothing, Runs, Told, Ended
  <1>8. ASSUME NEW p \in Procs, Begin(p) PROVE AloneOK'
    BY <1>8 DEF Begin, TypeOK, LockOK, Inside, AloneOK, Nothing, Runs, Told, Ended
  <1>9. ASSUME NEW p \in Procs, BeginFails(p) PROVE AloneOK'
    BY <1>9 DEF BeginFails, TypeOK, LockOK, Inside, AloneOK, Nothing, Runs, Told, Ended
  <1>10. ASSUME NEW p \in Procs, ClearIrqs(p) PROVE AloneOK'
    BY <1>10 DEF ClearIrqs, TypeOK, LockOK, Inside, AloneOK, Nothing, Runs, Told, Ended
  <1>11. ASSUME NEW p \in Procs, Start(p) PROVE AloneOK'
    <2>1. lock = p /\ pc' = [pc EXCEPT ![p] = "wait"]
      BY <1>11 DEF Start, LockOK, Inside
    <2>2. alone => Nothing /\ how = "none"
      BY <1>11, <2>1 DEF Start, AloneOK
    <2>3. alone => Runs'
      BY <1>11, <2>2 DEF Start, Nothing, Runs
    <2>. QED
      BY <1>11, <2>1, <2>3 DEF Start, AloneOK, TypeOK
  <1>12. ASSUME NEW p \in Procs, Completed(p) PROVE AloneOK'
    BY <1>12 DEF Completed, TypeOK, LockOK, Inside, AloneOK, Nothing, Runs, Told, Ended
  <1>13. ASSUME NEW p \in Procs, TimesOut(p) PROVE AloneOK'
    BY <1>13 DEF TimesOut, TypeOK, LockOK, Inside, AloneOK, Nothing, Runs, Told, Ended
  <1>14. ASSUME NEW p \in Procs, Collect(p) PROVE AloneOK'
    BY <1>14 DEF Collect, Leaves, TypeOK, LockOK, Inside, AloneOK, Nothing, Runs, Told, Ended
  <1>15. ASSUME NEW t \in {"own", "older"}, NEW c \in Causes, NnieEnds(t, c)
        PROVE  AloneOK'
    BY <1>15 DEF NnieEnds, TypeOK, LockOK, Inside, AloneOK, Nothing, Runs, Told, Ended
  <1>16. ASSUME IrqReads PROVE AloneOK'
    BY <1>16 DEF IrqReads, Off, TypeOK, LockOK, Inside, AloneOK, Nothing, Runs, Told, Ended
  <1>17. ASSUME IrqCompletes PROVE AloneOK'
    BY <1>17 DEF IrqCompletes, Off, TypeOK, LockOK, Inside, AloneOK, Nothing, Runs, Told, Ended
  <1>. QED
    BY <1>1, <1>2, <1>3, <1>4, <1>5, <1>6, <1>7, <1>8, <1>9, <1>10, <1>11, <1>12, <1>13, <1>14, <1>15, <1>16, <1>17
    DEF Next, ProcStep

LEMMA InitHolds == Init => IInv
  <1>. SUFFICES ASSUME Init PROVE IInv
    OBVIOUS
  <1>1. TypeOK
    BY DEF Init, TypeOK, Places, Off, Causes
  <1>2. CallsOK /\ RegistryOK
    BY DEF Init, CallsOK, RegistryOK
  <1>3. LockOK
    BY DEF Init, LockOK, Inside
  <1>4. AloneOK
    BY DEF Init, AloneOK
  <1>. QED
    BY <1>1, <1>2, <1>3, <1>4 DEF IInv

LEMMA NextKeepsIInv == IInv /\ [Next]_vars => IInv'
  BY NextKeepsTypes, NextKeepsCalls, NextKeepsLock, NextKeepsRegistry,
     NextKeepsAlone
  DEF IInv

-----------------------------------------------------------------------------
(* The theorems *)

\* Two Forwards that both miss a buffer do not add it twice (nnie_neo.c,
\* nnie_add_tskbuf), and memory off the list is being freed.
THEOREM BuffersOnce == Spec => []OneEntryPerBuffer
  <1>1. IInv => OneEntryPerBuffer
    BY DEF IInv, RegistryOK, OneEntryPerBuffer
  <1>. QED
    BY <1>1, InitHolds, NextKeepsIInv, PTL DEF Spec

\* A Forward that begins when nothing of an older task is left, and is told
\* in time, answers for its own task (nnie_neo.c, nnie_dispatch_forward).
THEOREM AnswersAreOwn == Spec => []AnswerIsOwn
  <1>1. IInv => AnswerIsOwn
    <2>1. SUFFICES ASSUME IInv, NEW p \in Procs, pc[p] = "collect", alone
                   PROVE  /\ how = "FINISH"  <=> Answer = "0"
                          /\ how = "TIMEOUT" <=> Answer = "ETIMEDOUT"
      BY DEF AnswerIsOwn
    <2>2. last = {how} /\ how \in Causes
      BY <2>1 DEF IInv, LockOK, Inside, AloneOK, Ended
    <2>3. CASE how = "FINISH"
      <3>1. Answer = "0"
        BY <2>2, <2>3 DEF Answer
      <3>. QED
        BY <2>3, <3>1
    <2>4. CASE how = "CFG_ERR"
      <3>1. Answer = "EIO"
        BY <2>2, <2>4 DEF Answer
      <3>. QED
        BY <2>4, <3>1
    <2>5. CASE how = "TIMEOUT"
      <3>1. Answer = "ETIMEDOUT"
        BY <2>2, <2>5 DEF Answer
      <3>. QED
        BY <2>5, <3>1
    <2>. QED
      BY <2>2, <2>3, <2>4, <2>5 DEF Causes
  <1>. QED
    BY <1>1, InitHolds, NextKeepsIInv, PTL DEF Spec
=============================================================================
