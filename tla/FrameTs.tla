------------------------------ MODULE FrameTs ------------------------------
(***************************************************************************)
(* /dev/openipc-frame-ts, kernel/openipc_frame_ts/openipc_frame_ts.c: a    *)
(* ring of frame events per sensor channel, filled by interrupt handlers   *)
(* and drained by the files that have the device open.                     *)
(*                                                                         *)
(* Every section under a channel's spinlock is one step; a reader walks    *)
(* the channels one section at a time, and a handler wakes the readers in  *)
(* a step after the one that filled the ring.  What the handler does to    *)
(* the strobe's GPIO between the two is module Strobe.                     *)
(***************************************************************************)
EXTENDS Integers, FiniteSets

CONSTANTS
  NumChn,     \* channels are 0 .. NumChn - 1
  Types,      \* event types
  Sources,    \* what occurs: events of a type on a channel
  Files,      \* open files, each used by one thread
  Depth,      \* g_ring_depth, a power of two
  MaxSeq,     \* bound: events of one type on one channel
  MaxOver,    \* bound: duplicates of one type on one channel
  MaxRoom,    \* bound: events a read(2) buffer has room for
  Masks,      \* the channel and event masks a file may set
  NoEvent     \* an event buffer that has not been filled in

ASSUME FrameTsAssumption ==
  /\ NumChn \in Nat \ {0} /\ MaxSeq \in Nat /\ MaxOver \in Nat
  /\ MaxRoom \in Nat \ {0}
  /\ Depth \in Nat \ {0, 1} /\ \E k \in 1..16 : Depth = 2 ^ k
  /\ Sources \subseteq (0..(NumChn - 1)) \X Types
  /\ Masks \subseteq [chn : SUBSET (0..(NumChn - 1)), evt : SUBSET Types]

VARIABLES
  slot, head, tail,  \* each channel's ring
  seq,        \* the number the next event of a type on a channel will have
  dropped, coalesced,
  pushing,    \* the sources whose handler has yet to wake the readers
  mask,       \* each file's chn_mask and evt_mask
  pc, op,     \* where each file's thread is, in which call
  at,         \* the channel it looks at next
  room,       \* events its buffer still has room for
  copied,     \* it has copied an event out in this call
  ev,         \* the event it took from a ring and has yet to copy out
  woken,      \* the waiting threads woken since they began to look
  taken       \* history: the events files have taken from the rings

ringVars == <<slot, head, tail, seq, dropped, coalesced>>
callVars == <<pc, op, at, room, copied, ev>>
vars == <<ringVars, pushing, mask, callVars, woken, taken>>

Chns     == 0..(NumChn - 1)
RingMask == Depth - 1
EveryEvent == [chn |-> Chns, evt |-> Types]
Events   == [chn : Chns, type : Types, seq : 0..(MaxSeq - 1)]

Init ==
  /\ slot = [c \in Chns |-> [i \in 0..RingMask |-> NoEvent]]
  /\ head = [c \in Chns |-> 0] /\ tail = [c \in Chns |-> 0]
  /\ seq = [c \in Chns |-> [t \in Types |-> 0]]
  /\ dropped = [c \in Chns |-> 0]
  /\ coalesced = [c \in Chns |-> [t \in Types |-> 0]]
  /\ pushing = {}
  /\ mask = [f \in Files |-> EveryEvent]
  /\ pc = [f \in Files |-> "user"] /\ op = [f \in Files |-> "none"]
  /\ at = [f \in Files |-> 0] /\ room = [f \in Files |-> 0]
  /\ copied = [f \in Files |-> FALSE] /\ ev = [f \in Files |-> NoEvent]
  /\ woken = {} /\ taken = {}

-----------------------------------------------------------------------------
(* The rings *)

\* (seeded fault: the index not masked)
NextUnmasked(i) == i + 1

Next1(i)    == (i + 1) % Depth
Count(c)    == (head[c] - tail[c]) % Depth

\* (seeded fault: a ring that fills its last slot looks empty)
FullAtDepth(c) == Count(c) = Depth

RingFull(c)  == Count(c) = RingMask
RingEmpty(c) == head[c] = tail[c]

\* The events of a ring, the oldest first.
Queue(c) == [i \in 1..Count(c) |-> slot[c][(tail[c] + i - 1) % Depth]]

-----------------------------------------------------------------------------
(* Interrupt handlers: openipc_frame_ts_push *)

\* (seeded fault: a duplicate uses up a sequence number)
PushCountsTwice(c, t) ==
  /\ <<c, t>> \notin pushing /\ seq[c][t] \in 1..(MaxSeq - 1)
  /\ coalesced[c][t] < MaxOver
  /\ coalesced' = [coalesced EXCEPT ![c][t] = @ + 1]
  /\ seq' = [seq EXCEPT ![c][t] = @ + 1]
  /\ UNCHANGED <<slot, head, tail, dropped>>
  /\ UNCHANGED <<pushing, mask, callVars, woken, taken>>

\* A duplicate, an event too soon after the last of its type, is counted and
\* wakes nobody.  How soon is the clock's to say; the first is none.
PushCoalesced(c, t) ==
  /\ <<c, t>> \notin pushing /\ seq[c][t] > 0
  /\ coalesced[c][t] < MaxOver
  /\ coalesced' = [coalesced EXCEPT ![c][t] = @ + 1]
  /\ UNCHANGED <<slot, head, tail, seq, dropped>>
  /\ UNCHANGED <<pushing, mask, callVars, woken, taken>>

\* (seeded fault: the oldest event overwritten without a word)
MakeRoomSilently(c) ==
  IF RingFull(c) THEN tail' = [tail EXCEPT ![c] = Next1(@)] /\ UNCHANGED dropped
  ELSE UNCHANGED <<tail, dropped>>

\* A full ring loses its oldest event.
MakeRoom(c) ==
  IF RingFull(c)
  THEN /\ tail' = [tail EXCEPT ![c] = Next1(@)]
       /\ dropped' = [dropped EXCEPT ![c] = @ + 1]
  ELSE UNCHANGED <<tail, dropped>>

PushEvent(c, t) ==
  /\ <<c, t>> \notin pushing /\ seq[c][t] < MaxSeq
  /\ MakeRoom(c)
  /\ slot' = [slot EXCEPT ![c][head[c]] = [chn |-> c, type |-> t, seq |-> seq[c][t]]]
  /\ seq' = [seq EXCEPT ![c][t] = @ + 1]
  /\ head' = [head EXCEPT ![c] = Next1(@)]
  /\ pushing' = pushing \cup {<<c, t>>}
  /\ UNCHANGED <<coalesced, mask, callVars, woken, taken>>

\* (seeded fault: a thread that looks is not on the wait queue yet)
WaitingAsleep == {f \in Files : pc[f] = "asleep"}

\* Threads on the wait queue.
Waiting == {f \in Files : pc[f] \in {"check", "asleep"}}

\* wake_up_interruptible(&g_wait), after the lock is released.
PushWake(c, t) ==
  /\ <<c, t>> \in pushing
  /\ pushing' = pushing \ {<<c, t>>}
  /\ woken' = woken \cup Waiting
  /\ UNCHANGED <<ringVars, mask, callVars, taken>>

-----------------------------------------------------------------------------
(* Calls on a file *)

Stay(f) == UNCHANGED <<ringVars, pushing, mask, taken>>

\* OPENIPC_FT_IOC_SET_CHANNEL_MASK and OPENIPC_FT_IOC_SET_EVENT_MASK
SetMask(f) ==
  /\ pc[f] = "user"
  /\ \E m \in Masks : mask' = [mask EXCEPT ![f] = m]
  /\ UNCHANGED <<ringVars, pushing, callVars, woken, taken>>

\* The first channel from c on that the file subscribes to, or NumChn.
FromChn(f, c) == CHOOSE d \in c..NumChn :
  /\ d = NumChn \/ d \in mask[f].chn
  /\ \A b \in c..(d - 1) : b \notin mask[f].chn

Return(f) ==
  /\ pc' = [pc EXCEPT ![f] = "user"] /\ op' = [op EXCEPT ![f] = "none"]
  /\ room' = [room EXCEPT ![f] = 0] /\ copied' = [copied EXCEPT ![f] = FALSE]
  /\ ev' = [ev EXCEPT ![f] = NoEvent] /\ at' = [at EXCEPT ![f] = 0]
  /\ woken' = woken \ {f}

\* (seeded fault: a walk goes on where the last one ended)
WalkOn(f, l) == pc' = [pc EXCEPT ![f] = l] /\ UNCHANGED at

\* Begin to walk the channels, to take an event (pop) or to look for one
\* (check).
Walk(f, l) ==
  /\ pc' = [pc EXCEPT ![f] = l] /\ at' = [at EXCEPT ![f] = FromChn(f, 0)]

\* Go on the wait queue, then look.
Look(f) == Walk(f, "check") /\ woken' = woken \ {f}

Read(f) ==
  /\ pc[f] = "user"
  /\ \E n \in 1..MaxRoom : room' = [room EXCEPT ![f] = n]
  /\ op' = [op EXCEPT ![f] = "read"]
  /\ Walk(f, "pop")
  /\ UNCHANGED <<copied, ev, woken>> /\ Stay(f)

Poll(f) ==
  /\ pc[f] = "user"
  /\ op' = [op EXCEPT ![f] = "poll"]
  /\ Look(f)
  /\ UNCHANGED <<room, copied, ev>> /\ Stay(f)

\* event_passes
Passes(f, e) == e.chn \in mask[f].chn /\ e.type \in mask[f].evt

\* (seeded fault: whatever is first is taken)
SkipNothing(f, c) == 0

\* How many events of a channel's ring come before the first for this file.
Skip(f, c) == CHOOSE n \in 0..Count(c) :
  /\ \A i \in 1..n : ~Passes(f, Queue(c)[i])
  /\ n < Count(c) => Passes(f, Queue(c)[n + 1])

\* One channel of pop_one: events the file did not ask for are taken from
\* the ring too.
PopFound(f) ==
  /\ pc[f] = "pop" /\ at[f] < NumChn
  /\ LET c == at[f]
         n == Skip(f, c) IN
     /\ n < Count(c)
     /\ tail' = [tail EXCEPT ![c] = (@ + n + 1) % Depth]
     /\ ev' = [ev EXCEPT ![f] = Queue(c)[n + 1]]
     /\ taken' = taken \cup {Queue(c)[i] : i \in 1..(n + 1)}
  /\ pc' = [pc EXCEPT ![f] = "copy"]
  /\ UNCHANGED <<slot, head, seq, dropped, coalesced, pushing, mask>>
  /\ UNCHANGED <<op, at, room, copied, woken>>

PopNone(f) ==
  /\ pc[f] = "pop" /\ at[f] < NumChn
  /\ LET c == at[f] IN
     /\ Skip(f, c) = Count(c)
     /\ tail' = [tail EXCEPT ![c] = head[c]]
     /\ taken' = taken \cup {Queue(c)[i] : i \in 1..Count(c)}
     /\ at' = [at EXCEPT ![f] = FromChn(f, c + 1)]
  /\ UNCHANGED <<slot, head, seq, dropped, coalesced, pushing, mask>>
  /\ UNCHANGED <<pc, op, room, copied, ev, woken>>

\* No channel had an event: what was copied is the answer; otherwise it is
\* -EAGAIN with O_NONBLOCK, which fcntl(2) may set at any time, and a wait
\* without.
PopEnd(f) ==
  /\ pc[f] = "pop" /\ at[f] = NumChn
  /\ \/ Return(f)
     \/ ~copied[f] /\ Look(f) /\ UNCHANGED <<op, room, copied, ev>>
  /\ Stay(f)

\* copy_to_user
Copy(f) ==
  /\ pc[f] = "copy"
  /\ IF room[f] = 1 THEN Return(f)
     ELSE /\ room' = [room EXCEPT ![f] = @ - 1]
          /\ copied' = [copied EXCEPT ![f] = TRUE]
          /\ ev' = [ev EXCEPT ![f] = NoEvent]
          /\ Walk(f, "pop") /\ UNCHANGED <<op, woken>>
  /\ Stay(f)

\* -EFAULT: the event was taken and reaches nobody.
CopyFault(f) ==
  /\ pc[f] = "copy"
  /\ Return(f) /\ Stay(f)

\* One channel of any_pending: any event will do, whatever its type.
CheckHit(f) ==
  /\ pc[f] = "check" /\ at[f] < NumChn /\ ~RingEmpty(at[f])
  /\ IF op[f] = "poll" THEN Return(f)
     ELSE /\ Walk(f, "pop") /\ woken' = woken \ {f}
          /\ UNCHANGED <<op, room, copied, ev>>
  /\ Stay(f)

CheckMiss(f) ==
  /\ pc[f] = "check" /\ at[f] < NumChn /\ RingEmpty(at[f])
  /\ at' = [at EXCEPT ![f] = FromChn(f, @ + 1)]
  /\ UNCHANGED <<pc, op, room, copied, ev, woken>> /\ Stay(f)

\* (seeded fault: it sleeps even when it was woken while it looked)
FallAsleep(f) ==
  /\ pc' = [pc EXCEPT ![f] = "asleep"]
  /\ woken' = woken \ {f} /\ UNCHANGED <<op, at, room, copied, ev>>

\* schedule(), which a thread woken while it looked does not sleep in.
Sleep(f) ==
  /\ IF f \in woken THEN Look(f)
     ELSE pc' = [pc EXCEPT ![f] = "asleep"] /\ UNCHANGED <<at, woken>>
  /\ UNCHANGED <<op, room, copied, ev>>

CheckEnd(f) ==
  /\ pc[f] = "check" /\ at[f] = NumChn
  /\ Sleep(f) /\ Stay(f)

Wakes(f) ==
  /\ pc[f] = "asleep" /\ f \in woken
  /\ Look(f)
  /\ UNCHANGED <<op, room, copied, ev>> /\ Stay(f)

\* A signal, or poll's own timeout, ends the wait.
Interrupted(f) ==
  /\ pc[f] = "asleep"
  /\ Return(f) /\ Stay(f)

-----------------------------------------------------------------------------
Handlers == \E s \in Sources :
  PushEvent(s[1], s[2]) \/ PushCoalesced(s[1], s[2]) \/ PushWake(s[1], s[2])

Proceeds(f) == PopFound(f) \/ PopNone(f) \/ PopEnd(f) \/ Copy(f)
               \/ CheckHit(f) \/ CheckMiss(f) \/ CheckEnd(f) \/ Wakes(f)

Calls(f) == Read(f) \/ Poll(f) \/ SetMask(f) \/ CopyFault(f) \/ Interrupted(f)

Next == Handlers \/ \E f \in Files : Proceeds(f) \/ Calls(f)

Spec == Init /\ [][Next]_vars

\* A handler runs to its end, and the scheduler runs every thread that can
\* run.
Fairness ==
  /\ \A s \in Sources : WF_vars(PushWake(s[1], s[2]))
  /\ \A f \in Files : WF_vars(Proceeds(f))

FairSpec == Spec /\ Fairness

-----------------------------------------------------------------------------
(* Properties *)

TypeOK ==
  /\ head \in [Chns -> 0..RingMask] /\ tail \in [Chns -> 0..RingMask]
  /\ \A c \in Chns : slot[c] \in [0..RingMask -> Events \cup {NoEvent}]
  /\ \A c \in Chns : \A i \in 1..Count(c) : Queue(c)[i] \in Events
  /\ seq \in [Chns -> [Types -> 0..MaxSeq]]
  /\ dropped \in [Chns -> Nat]
  /\ coalesced \in [Chns -> [Types -> 0..MaxOver]]
  /\ pushing \subseteq Sources
  /\ mask \in [Files -> Masks \cup {EveryEvent}]
  /\ pc \in [Files -> {"user", "pop", "copy", "check", "asleep"}]
  /\ op \in [Files -> {"none", "read", "poll"}]
  /\ at \in [Files -> 0..NumChn] /\ room \in [Files -> 0..MaxRoom]
  /\ copied \in [Files -> BOOLEAN] /\ woken \subseteq Files
  /\ ev \in [Files -> Events \cup {NoEvent}]
  /\ taken \subseteq Events

Numbers(c, t) == {Queue(c)[i].seq : i \in {k \in 1..Count(c) : Queue(c)[k].type = t}}

\* A ring holds the newest events of each type, oldest first and without a
\* gap: what a full ring gives up and what readers take, openipc_frame_ts_push
\* and pop_one, both go from the oldest end.
NewestInOrder ==
  \A c \in Chns :
    /\ \A i, k \in 1..Count(c) :
         i < k /\ Queue(c)[i].type = Queue(c)[k].type => Queue(c)[i].seq < Queue(c)[k].seq
    /\ \A t \in Types : Numbers(c, t) = (seq[c][t] - Cardinality(Numbers(c, t)))..(seq[c][t] - 1)

InRings   == UNION {{Queue(c)[i] : i \in 1..Count(c)} : c \in Chns}
Recorded(c) == {e \in Events : e.chn = c /\ e.seq < seq[c][e.type]}

\* Every event recorded is in its ring, was taken from it by one file, or is
\* counted in what OPENIPC_FT_IOC_GET_DROPPED reports: none can be taken twice,
\* and none is gone that the count leaves out.
Accounted ==
  /\ InRings \cap taken = {}
  /\ \A c \in Chns : dropped[c] = Cardinality(Recorded(c) \ (InRings \cup taken))

\* A thread asleep in read(2) or poll(2) while a channel it subscribes to has
\* an event is about to be woken: the handler fills the ring before it wakes
\* the queue, and a reader is on the queue before it looks.
NoLostWakeup ==
  \A f \in Files :
    pc[f] = "asleep" /\ f \notin woken
      => \A c \in mask[f].chn : RingEmpty(c) \/ \E t \in Types : <<c, t>> \in pushing

TakesFor(f) == ev'[f] # ev[f] /\ ev'[f] # NoEvent

\* A file is given only what it subscribes to, and never an event of a type
\* on a channel after any file was given a later one.
ReadInOrder ==
  [][\A f \in Files : TakesFor(f) =>
       /\ Passes(f, ev'[f])
       /\ \A e \in taken : e.chn = ev'[f].chn /\ e.type = ev'[f].type => e.seq < ev'[f].seq]_vars

\* poll(2) is answered once a channel it asks about has an event, unless other
\* readers take the events first.
PollAnswered ==
  \A f \in Files :
    (op[f] = "poll" /\ \E c \in mask[f].chn : ~RingEmpty(c))
      ~> (op[f] # "poll" \/ \A c \in mask[f].chn : RingEmpty(c))

\* A read(2) that finds an event it asked for comes back with one, unless
\* other readers take it first.
ReadAnswered ==
  \A f \in Files :
    (op[f] = "read" /\ \E e \in InRings : Passes(f, e))
      ~> (op[f] # "read" \/ copied[f] \/ \A e \in InRings : ~Passes(f, e))
=============================================================================
