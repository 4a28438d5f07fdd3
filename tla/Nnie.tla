-------------------------------- MODULE Nnie --------------------------------
(***************************************************************************)
(* The NNIE driver, kernel/nnie_neo/nnie_neo.c: Forward finds or adds the  *)
(* task buffer, writes the task's tail into it, starts the task and waits  *)
(* for its interrupt, five seconds at most.  A task that has timed out is  *)
(* not stopped.                                                            *)
(***************************************************************************)
CONSTANTS
  Procs,     \* callers
  Bufs,      \* physical addresses of task buffers
  Entries,   \* memory for struct nnie_tskbuf
  None       \* NULL

ASSUME NnieAssumption ==
  None \notin Procs \cup Bufs \cup Entries

VARIABLES
  entry,     \* the buffer each piece of memory describes, None when free
  list,      \* g_nnie_tskbuf_list
  pc, buf,   \* where each caller is, and the buffer its call is about
  lock,      \* the caller in g_nnie_forward_lock
  hw,        \* tasks the NNIE has not ended: the caller's own, older ones
  status,    \* its pending interrupt bits
  irq,       \* the handler: what it read
  last,      \* g_nnie_last_status
  done,      \* g_nnie_done: readied by each call, awaited once
  how,       \* history: how the task of the caller in the lock has ended
  alone      \* history: nothing of an older task was left when it began

regVars  == <<entry, list>>
hwVars   == <<hw, status, irq>>
waitVars == <<last, done>>
history  == <<how, alone>>
vars     == <<regVars, pc, buf, lock, hwVars, waitVars, history>>

Causes == {"FINISH", "CFG_ERR", "TIMEOUT"}
Places == {"user", "add", "find", "free", "dispatch", "clear",
           "start", "wait", "collect", "late"}
Off    == [on |-> FALSE, st |-> {}]

Init ==
  /\ entry = [e \in Entries |-> None] /\ list = {}
  /\ pc = [p \in Procs |-> "user"] /\ buf = [p \in Procs |-> None]
  /\ lock = None
  /\ hw = {} /\ status = {} /\ irq = Off
  /\ last = {} /\ done = FALSE
  /\ how = "none" /\ alone = FALSE

Goto(p, l) == pc' = [pc EXCEPT ![p] = l]
Call(p, l, b) == Goto(p, l) /\ buf' = [buf EXCEPT ![p] = b]

\* nnie_find_tskbuf_locked
Found(b) == \E e \in list : entry[e] = b

-----------------------------------------------------------------------------
(* The registry of task buffers *)

\* (seeded fault: a buffer is added without looking for it)
AddBlind(b) ==
  \E e \in Entries :
    /\ entry[e] = None
    /\ entry' = [entry EXCEPT ![e] = b]
    /\ list' = list \cup {e}

\* nnie_add_tskbuf: -EEXIST, -ENOMEM, or one more entry.
Add(b) ==
  \/ UNCHANGED regVars
  \/ /\ ~Found(b)
     /\ \E e \in Entries :
          /\ entry[e] = None
          /\ entry' = [entry EXCEPT ![e] = b]
          /\ list' = list \cup {e}

\* NNIE_IOC_ADD_TSKBUF
AddTskBuf(p, b) ==
  /\ pc[p] = "user"
  /\ Add(b)
  /\ UNCHANGED <<pc, buf, lock, hwVars, waitVars, history>>

\* NNIE_IOC_REMOVE_TSKBUF: off the list, then unmapped without the lock.  A
\* client removes a buffer when no Forward is using it.
RemoveTskBuf(p, e) ==
  /\ pc[p] = "user" /\ e \in list
  /\ \A q \in Procs : buf[q] # entry[e]
  /\ list' = list \ {e}
  /\ Goto(p, "free") /\ buf' = [buf EXCEPT ![p] = e]
  /\ UNCHANGED <<entry, lock, hwVars, waitVars, history>>

FreeTskBuf(p) ==
  /\ pc[p] = "free"
  /\ entry' = [entry EXCEPT ![buf[p]] = None]
  /\ Call(p, "user", None)
  /\ UNCHANGED <<list, lock, hwVars, waitVars, history>>

-----------------------------------------------------------------------------
(* NNIE_IOC_FORWARD *)

\* nnie_op_forward: the arguments, and the first look at the registry.
Forward(p, b) ==
  /\ pc[p] = "user"
  /\ Call(p, IF Found(b) THEN "dispatch" ELSE "add", b)
  /\ UNCHANGED <<regVars, lock, hwVars, waitVars, history>>

\* The entry is missing: it is added, unless another call has been faster.
ForwardAdd(p) ==
  /\ pc[p] = "add"
  /\ Add(buf[p])
  /\ IF Found(buf[p]) \/ list' # list THEN Goto(p, "find") /\ UNCHANGED buf
                                      ELSE Call(p, "user", None)
  /\ UNCHANGED <<lock, hwVars, waitVars, history>>

\* The second look, and the tail written, or not for want of space.
ForwardFind(p) ==
  /\ pc[p] = "find"
  /\ \/ Found(buf[p]) /\ Goto(p, "dispatch") /\ UNCHANGED buf
     \/ Call(p, "user", None)
  /\ UNCHANGED <<regVars, lock, hwVars, waitVars, history>>

\* (seeded fault: the completion is not made ready)
BeginNoReinit(p) ==
  /\ pc[p] = "dispatch" /\ lock = None
  /\ lock' = p
  /\ last' = {}
  /\ alone' = (hw = {} /\ status = {} /\ ~irq.on)
  /\ Goto(p, "clear")
  /\ UNCHANGED <<regVars, buf, hwVars, done, how>>

\* nnie_dispatch_forward: the lock, the status and the completion made ready.
Begin(p) ==
  /\ pc[p] = "dispatch" /\ lock = None
  /\ lock' = p
  /\ last' = {} /\ done' = FALSE
  /\ alone' = (hw = {} /\ status = {} /\ ~irq.on)
  /\ Goto(p, "clear")
  /\ UNCHANGED <<regVars, buf, hwVars, how>>

\* A signal in mutex_lock_interruptible, or no descriptor.
BeginFails(p) ==
  /\ pc[p] = "dispatch"
  /\ Call(p, "user", None)
  /\ UNCHANGED <<regVars, lock, hwVars, waitVars, history>>

\* The registers, and stale interrupt bits written to clear them
ClearIrqs(p) ==
  /\ pc[p] = "clear"
  /\ status' = {}
  /\ Goto(p, "start")
  /\ UNCHANGED <<regVars, buf, lock, hw, irq, waitVars, history>>

\* NNIE_START_GO.  What an NNIE still busy does with the task it had is its
\* own affair: it goes on, or is dropped.
Start(p) ==
  /\ pc[p] = "start"
  /\ \E old \in {hw, {}} : hw' = old \cup {"own"}
  /\ Goto(p, "wait")
  /\ UNCHANGED <<regVars, buf, lock, status, irq, waitVars, history>>

\* wait_for_completion_timeout: answered in time, ...
Completed(p) ==
  /\ pc[p] = "wait" /\ done
  /\ done' = FALSE
  /\ Goto(p, "collect")
  /\ UNCHANGED <<regVars, buf, lock, hwVars, last, history>>

\* ... or not.
TimesOut(p) ==
  /\ pc[p] = "wait" /\ ~done
  /\ Goto(p, "late")
  /\ UNCHANGED <<regVars, buf, lock, hwVars, waitVars, history>>

\* The end of the call: the cause is taken, the answer goes by it.
Answer == CASE "CFG_ERR" \in last -> "EIO"
            [] "CFG_ERR" \notin last /\ "TIMEOUT" \in last -> "ETIMEDOUT"
            [] last = {"FINISH"} -> "0"
            [] last = {} -> "EIO"

\* Its task is an older one from now on.
Leaves ==
  /\ hw' = IF "own" \in hw THEN {"older"} ELSE hw
  /\ how' = "none" /\ alone' = FALSE

\* (seeded fault: a call that times out keeps the lock)
CollectKeepsLock(p) ==
  /\ pc[p] \in {"collect", "late"}
  /\ last' = {} /\ lock' = IF pc[p] = "late" THEN lock ELSE None
  /\ Call(p, "user", None)
  /\ Leaves
  /\ UNCHANGED <<regVars, status, irq, done>>

Collect(p) ==
  /\ pc[p] \in {"collect", "late"}
  /\ last' = {} /\ lock' = None
  /\ Call(p, "user", None)
  /\ Leaves
  /\ UNCHANGED <<regVars, status, irq, done>>

-----------------------------------------------------------------------------
(* The NNIE and its interrupt *)

\* A task ends; there may be more of the older ones.
NnieEnds(t, c) ==
  /\ t \in hw
  /\ hw' \in {hw, hw \ {t}} /\ (t = "own" => hw' # hw)
  /\ status' = status \cup {c}
  /\ how' = IF t = "own" THEN c ELSE how
  /\ UNCHANGED <<regVars, pc, buf, lock, irq, waitVars, alone>>

\* nnie_irq_handler, on a line shared with the GDC: the status is read ...
IrqReads ==
  /\ ~irq.on /\ status # {}
  /\ irq' = [on |-> TRUE, st |-> status]
  /\ UNCHANGED <<regVars, pc, buf, lock, hw, status, waitVars, history>>

\* ... stored, cleared, and the waiter told.
IrqCompletes ==
  /\ irq.on
  /\ last' = irq.st
  /\ status' = status \ irq.st
  /\ done' = TRUE
  /\ irq' = Off
  /\ UNCHANGED <<regVars, pc, buf, lock, hw, history>>

-----------------------------------------------------------------------------
ProcStep(p) ==
  \/ FreeTskBuf(p) \/ ForwardAdd(p) \/ ForwardFind(p)
  \/ Begin(p) \/ ClearIrqs(p) \/ Start(p)
  \/ Completed(p) \/ TimesOut(p) \/ Collect(p)

Next ==
  \/ \E p \in Procs :
       \/ ProcStep(p) \/ BeginFails(p)
       \/ \E b \in Bufs : AddTskBuf(p, b) \/ Forward(p, b)
       \/ \E e \in Entries : RemoveTskBuf(p, e)
  \/ \E t \in {"own", "older"}, c \in Causes : NnieEnds(t, c)
  \/ IrqReads \/ IrqCompletes

Spec == Init /\ [][Next]_vars

\* The kernel runs every call and hands the mutex to each that asks for it
\* again and again; the wait is timed, so that nothing is asked of the NNIE.
FairSpec == Spec /\ \A p \in Procs : SF_vars(ProcStep(p))

-----------------------------------------------------------------------------
(* Properties *)

\* One buffer is on the registry once, and memory off the registry is being
\* freed: two Forwards that both miss the same buffer do not add it twice.
OneEntryPerBuffer ==
  /\ \A d, e \in list : entry[d] = entry[e] => d = e
  /\ \A e \in Entries : entry[e] # None =>
       e \in list \/ \E p \in Procs : pc[p] = "free" /\ buf[p] = e

\* A Forward that starts when nothing of an earlier task is left, and does
\* not time out, answers for the end of its own task.  The tasks that time
\* out are why "nothing is left" must be said.
AnswerIsOwn ==
  \A p \in Procs : pc[p] = "collect" /\ alone =>
    /\ how = "FINISH"  <=> Answer = "0"
    /\ how = "TIMEOUT" <=> Answer = "ETIMEDOUT"

\* Every call ends, whatever the NNIE does.
CallsReturn == \A p \in Procs : pc[p] # "user" ~> pc[p] = "user"
=============================================================================
