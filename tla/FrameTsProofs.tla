--------------------------- MODULE FrameTsProofs ---------------------------
(***************************************************************************)
(* Proofs about the frame event device: its types; what a ring holds, what  *)
(* was taken from it and what it lost; the order files are given events in; *)
(* and the wake-ups of the threads that wait for one.                       *)
(***************************************************************************)
EXTENDS FrameTs, FiniteSetTheorems, WellFoundedInduction, TLAPS

USE FrameTsAssumption

-----------------------------------------------------------------------------
(* Arithmetic *)

LEMMA Least ==
  ASSUME NEW S \in SUBSET Nat, S # {}
  PROVE  \E x \in S : \A y \in S : x <= y
  <1> DEFINE R == OpToRel(<, Nat)
  <1>1. \A x, y \in Nat : x < y => <<x, y>> \in R BY DEF OpToRel
  <1>2. IsWellFoundedOn(R, Nat) BY NatLessThanWellFounded
  <1> HIDE DEF R
  <1>3. PICK x \in S : \A y \in S : <<y, x>> \notin R BY <1>2, WFMin
  <1>4. \A y \in S : ~(y < x) BY <1>1, <1>3
  <1>5. \A y \in S : x <= y BY <1>4
  <1> QED BY <1>5

LEMMA ModCases ==
  ASSUME NEW n \in Int, -Depth <= n, n < 2 * Depth
  PROVE  n % Depth = IF n < 0 THEN n + Depth ELSE IF n < Depth THEN n ELSE n - Depth
  OBVIOUS

\* A ring whose next event goes to slot h and whose oldest is in slot t.
Held(h, t) == (h - t) % Depth
Slot(t, i) == (t + i - 1) % Depth

Slots == 0..RingMask

LEMMA HeldCases ==
  ASSUME NEW h \in Slots, NEW t \in Slots
  PROVE  /\ Held(h, t) = IF h < t THEN h - t + Depth ELSE h - t
         /\ Held(h, t) \in 0..RingMask /\ (Held(h, t) = 0 <=> h = t)
  BY ModCases DEF Held, Slots, RingMask

LEMMA SlotCases ==
  ASSUME NEW t \in Slots, NEW i \in 1..Depth
  PROVE  /\ Slot(t, i) = IF t + i - 1 < Depth THEN t + i - 1 ELSE t + i - 1 - Depth
         /\ Slot(t, i) \in Slots
  BY ModCases DEF Slot, Slots, RingMask

LEMMA NextCases ==
  ASSUME NEW h \in Slots
  PROVE  Next1(h) = (IF h = RingMask THEN 0 ELSE h + 1) /\ Next1(h) \in Slots
  BY ModCases DEF Next1, Slots, RingMask

\* The oldest n give way.
LEMMA HeldDrop ==
  ASSUME NEW h \in Slots, NEW t \in Slots, NEW n \in 0..Held(h, t)
  PROVE  /\ (t + n) % Depth \in Slots
         /\ Held(h, (t + n) % Depth) = Held(h, t) - n
         /\ \A i \in 1..(Held(h, t) - n) : Slot((t + n) % Depth, i) = Slot(t, n + i)
  <1> DEFINE u == (t + n) % Depth
  <1>1. /\ Held(h, t) = IF h < t THEN h - t + Depth ELSE h - t
        /\ Held(h, t) \in 0..RingMask
    BY HeldCases
  <1>2. u = (IF t + n < Depth THEN t + n ELSE t + n - Depth) /\ u \in Slots
    BY <1>1, ModCases DEF Slots, RingMask
  <1>3. Held(h, u) = IF h < u THEN h - u + Depth ELSE h - u
    BY <1>2, HeldCases
  <1>4. Held(h, u) = Held(h, t) - n BY <1>1, <1>2, <1>3 DEF Slots, RingMask
  <1>5. ASSUME NEW i \in 1..(Held(h, t) - n) PROVE Slot(u, i) = Slot(t, n + i)
    <2>1. i \in 1..Depth /\ n + i \in 1..Depth BY <1>1 DEF RingMask
    <2>2. Slot(u, i) = IF u + i - 1 < Depth THEN u + i - 1 ELSE u + i - 1 - Depth
      BY <1>2, <2>1, SlotCases
    <2>3. Slot(t, n + i) = IF t + (n + i) - 1 < Depth THEN t + (n + i) - 1
                           ELSE t + (n + i) - 1 - Depth
      BY <2>1, SlotCases
    <2> QED BY <1>1, <1>2, <2>1, <2>2, <2>3 DEF Slots, RingMask
  <1> QED BY <1>2, <1>4, <1>5

\* One more comes.
LEMMA HeldPush ==
  ASSUME NEW h \in Slots, NEW t \in Slots, Held(h, t) < RingMask
  PROVE  /\ Held(Next1(h), t) = Held(h, t) + 1
         /\ Slot(t, Held(h, t) + 1) = h
         /\ \A i \in 1..Held(h, t) : Slot(t, i) # h
  <1>1. /\ Held(h, t) = IF h < t THEN h - t + Depth ELSE h - t
        /\ Held(h, t) \in 0..RingMask
    BY HeldCases
  <1>2. Next1(h) = (IF h = RingMask THEN 0 ELSE h + 1) /\ Next1(h) \in Slots
    BY NextCases
  <1>3. Held(Next1(h), t) = IF Next1(h) < t THEN Next1(h) - t + Depth ELSE Next1(h) - t
    BY <1>2, HeldCases
  <1>4. \A i \in 1..(Held(h, t) + 1) :
          i \in 1..Depth
          /\ Slot(t, i) = IF t + i - 1 < Depth THEN t + i - 1 ELSE t + i - 1 - Depth
    BY <1>1, SlotCases DEF RingMask
  <1>5. Held(Next1(h), t) = Held(h, t) + 1 BY <1>1, <1>2, <1>3 DEF Slots, RingMask
  <1>6. \A i \in 1..(Held(h, t) + 1) : Slot(t, i) = h <=> i = Held(h, t) + 1
    BY <1>1, <1>4 DEF Slots, RingMask
  <1> QED BY <1>1, <1>5, <1>6

-----------------------------------------------------------------------------
(* What a ring holds: Q[1], the oldest, to Q[n], where s[t] is the number the
   next event of type t will have, and T are the events taken so far. *)

Sound(c, Q, n, s) ==
  /\ \A i \in 1..n : Q[i] \in Events /\ Q[i].chn = c /\ Q[i].seq < s[Q[i].type]
  /\ \A i, k \in 1..n : i < k /\ Q[i].type = Q[k].type => Q[i].seq < Q[k].seq
  /\ \A i \in 1..n : \A y \in Nat :
       Q[i].seq <= y /\ y < s[Q[i].type] =>
         \E k \in 1..n : Q[k].type = Q[i].type /\ Q[k].seq = y

After(c, T, Q, n, s) ==
  \A e \in T : e.chn = c =>
    /\ e.seq < s[e.type]
    /\ \A i \in 1..n : Q[i].type = e.type => e.seq < Q[i].seq

\* The events that are neither in the ring nor taken from it.
LostFrom(c, T, Q, n, s) ==
  {e \in Events : /\ e.chn = c /\ e.seq < s[e.type] /\ e \notin T
                  /\ \A i \in 1..n : Q[i] # e}

Numbering == [Types -> 0..MaxSeq]

LEMMA EventTypes ==
  \A e \in Events : e.chn \in Chns /\ e.type \in Types /\ e.seq \in 0..(MaxSeq - 1)
                    /\ e.seq \in Nat
  BY DEF Events

\* The oldest m give way.
LEMMA SoundDrop ==
  ASSUME NEW c, NEW Q, NEW n \in Nat, NEW s \in Numbering, NEW m \in 0..n, NEW R,
         Sound(c, Q, n, s), \A i \in 1..(n - m) : R[i] = Q[m + i]
  PROVE  Sound(c, R, n - m, s)
  <1>1. \A i \in 1..(n - m) : m + i \in 1..n OBVIOUS
  <1>2. \A i \in 1..(n - m) : R[i] \in Events /\ R[i].chn = c /\ R[i].seq < s[R[i].type]
    BY <1>1 DEF Sound
  <1>3. \A i, k \in 1..(n - m) : i < k /\ R[i].type = R[k].type => R[i].seq < R[k].seq
    <2> SUFFICES ASSUME NEW i \in 1..(n - m), NEW k \in 1..(n - m), i < k,
                        R[i].type = R[k].type
                 PROVE  R[i].seq < R[k].seq
      OBVIOUS
    <2>1. m + i \in 1..n /\ m + k \in 1..n /\ m + i < m + k OBVIOUS
    <2>2. Q[m + i].type = Q[m + k].type => Q[m + i].seq < Q[m + k].seq
      BY <2>1 DEF Sound
    <2> QED BY <2>2
  <1>4. ASSUME NEW i \in 1..(n - m), NEW y \in Nat, R[i].seq <= y, y < s[R[i].type]
        PROVE  \E k \in 1..(n - m) : R[k].type = R[i].type /\ R[k].seq = y
    <2>1. m + i \in 1..n /\ R[i] = Q[m + i] OBVIOUS
    <2>2. PICK k \in 1..n : Q[k].type = R[i].type /\ Q[k].seq = y
      BY <1>4, <2>1 DEF Sound
    <2>3. CASE k <= m
      <3>1. k < m + i BY <2>1, <2>3
      <3>2. Q[k].seq < Q[m + i].seq BY <2>1, <2>2, <3>1 DEF Sound
      <3>3. Q[m + i].seq \in Nat BY <2>1, EventTypes DEF Sound
      <3> QED BY <1>4, <2>1, <2>2, <3>2, <3>3
    <2>4. CASE ~(k <= m)
      <3>1. PICK j \in 1..(n - m) : j = k - m BY <2>4
      <3>2. R[j] = Q[k] BY <3>1
      <3> QED BY <2>2, <3>2
    <2> QED BY <2>3, <2>4
  <1> QED BY <1>2, <1>3, <1>4 DEF Sound

\* R is what of Q is left behind the first m, and U is T with these in it.
Behind(R, Q, n, m, k) == k = n - m /\ \A i \in 1..k : R[i] = Q[m + i]
Joined(U, T, Q, m) == U = T \cup {Q[i] : i \in 1..m}

\* Those before a place in the ring are older than those after it.
LEMMA AfterTake ==
  ASSUME NEW c, NEW T, NEW Q, NEW n \in Nat, NEW s \in Numbering, NEW m \in 0..n, NEW R,
         Sound(c, Q, n, s), After(c, T, Q, n, s),
         \A i \in 1..(n - m) : R[i] = Q[m + i], NEW U, Joined(U, T, Q, m)
  PROVE  After(c, U, R, n - m, s)
  <1> SUFFICES ASSUME NEW e \in U, e.chn = c
               PROVE  /\ e.seq < s[e.type]
                      /\ \A i \in 1..(n - m) : R[i].type = e.type => e.seq < R[i].seq
    BY DEF After
  <1>1. \A i \in 1..(n - m) : m + i \in 1..n /\ R[i] = Q[m + i] OBVIOUS
  <1>2. CASE e \in T
    BY <1>1, <1>2 DEF After
  <1>3. ASSUME NEW k \in 1..m, e = Q[k]
        PROVE  /\ e.seq < s[e.type]
               /\ \A i \in 1..(n - m) : R[i].type = e.type => e.seq < R[i].seq
    <2>1. k \in 1..n /\ \A i \in 1..(n - m) : k < m + i OBVIOUS
    <2> QED BY <1>1, <1>3, <2>1 DEF Sound
  <1>4. e \in T \/ \E k \in 1..m : e = Q[k] BY DEF Joined
  <1> QED BY <1>2, <1>3, <1>4

\* What readers take is not lost,
LEMMA LostTake ==
  ASSUME NEW c, NEW T, NEW Q, NEW n \in Nat, NEW s, NEW m \in 0..n, NEW R,
         NEW k \in Nat, Behind(R, Q, n, m, k), NEW U, Joined(U, T, Q, m)
  PROVE  LostFrom(c, U, R, k, s) = LostFrom(c, T, Q, n, s)
  <1>1. ASSUME NEW e
        PROVE  (e \notin U /\ \A i \in 1..k : R[i] # e)
                 <=> (e \notin T /\ \A i \in 1..n : Q[i] # e)
    <2>1. ASSUME e \notin U, \A i \in 1..k : R[i] # e, NEW i \in 1..n, Q[i] = e
          PROVE  FALSE
      <3>1. CASE i <= m
        <4>1. i \in 1..m BY <3>1
        <4> QED BY <2>1, <4>1 DEF Joined
      <3>2. CASE ~(i <= m)
        <4>1. PICK j \in 1..k : j = i - m BY <3>2 DEF Behind
        <4>2. R[j] = Q[i] BY <4>1 DEF Behind
        <4> QED BY <2>1, <4>2
      <3> QED BY <3>1, <3>2
    <2>2. (\A i \in 1..k : m + i \in 1..n) /\ 1..m \subseteq 1..n /\ \A i \in 1..k : R[i] = Q[m + i]
      BY DEF Behind
    <2>3. e \in U <=> e \in T \/ \E i \in 1..m : e = Q[i] BY DEF Joined
    <2> QED BY <2>1, <2>2, <2>3
  <1> QED BY <1>1 DEF LostFrom

\* and what a full ring gives up is.
LEMMA LostDrop ==
  ASSUME NEW c, NEW T, NEW Q, NEW n \in Nat \ {0}, NEW s \in Numbering, NEW R,
         Sound(c, Q, n, s), After(c, T, Q, n, s), c \in Chns,
         \A i \in 1..(n - 1) : R[i] = Q[1 + i]
  PROVE  /\ Q[1] \notin LostFrom(c, T, Q, n, s)
         /\ LostFrom(c, T, R, n - 1, s) = LostFrom(c, T, Q, n, s) \cup {Q[1]}
  <1>1. 1 \in 1..n /\ Q[1] \in Events /\ Q[1].chn = c /\ Q[1].seq < s[Q[1].type]
    BY DEF Sound
  <1>2. Q[1] \notin LostFrom(c, T, Q, n, s) BY <1>1 DEF LostFrom
  <1>3. Q[1].seq \in Nat BY <1>1, EventTypes
  <1>4. Q[1] \notin T
    <2>1. Q[1] \in T => Q[1].seq < Q[1].seq BY <1>1 DEF After
    <2> QED BY <1>3, <2>1
  <1>5. \A i \in 1..(n - 1) : R[i] # Q[1]
    <2> SUFFICES ASSUME NEW i \in 1..(n - 1), R[i] = Q[1] PROVE FALSE OBVIOUS
    <2>1. 1 + i \in 1..n /\ 1 < 1 + i /\ Q[1 + i] = Q[1] OBVIOUS
    <2>2. Q[1].seq < Q[1 + i].seq BY <1>1, <2>1 DEF Sound
    <2> QED BY <1>3, <2>1, <2>2
  <1>6. ASSUME NEW e
        PROVE  (\A i \in 1..(n - 1) : R[i] # e)
                 <=> (e = Q[1] \/ \A i \in 1..n : Q[i] # e)
    <2>1. ASSUME \A i \in 1..(n - 1) : R[i] # e, NEW i \in 1..n, Q[i] = e PROVE e = Q[1]
      <3>1. CASE i = 1 BY <2>1, <3>1
      <3>2. CASE i # 1
        <4>1. PICK j \in 1..(n - 1) : j = i - 1 BY <3>2
        <4>2. R[j] = Q[i] BY <4>1
        <4> QED BY <2>1, <4>2
      <3> QED BY <3>1, <3>2
    <2>2. \A i \in 1..(n - 1) : 1 + i \in 1..n OBVIOUS
    <2> QED BY <1>5, <2>1, <2>2
  <1>7. ASSUME NEW e
        PROVE  e \in LostFrom(c, T, R, n - 1, s)
                 <=> e \in LostFrom(c, T, Q, n, s) \cup {Q[1]}
    BY <1>1, <1>4, <1>6 DEF LostFrom
  <1> QED BY <1>2, <1>7

\* A new event comes behind all others of its type.
LEMMA SoundPush ==
  ASSUME NEW c \in Chns, NEW Q, NEW n \in Nat, NEW s \in Numbering, NEW R, NEW t \in Types,
         s[t] < MaxSeq, Sound(c, Q, n, s), \A i \in 1..n : R[i] = Q[i],
         R[n + 1] = [chn |-> c, type |-> t, seq |-> s[t]]
  PROVE  Sound(c, R, n + 1, [s EXCEPT ![t] = @ + 1])
  <1> DEFINE z == [s EXCEPT ![t] = @ + 1]
  <1>1. /\ z[t] = s[t] + 1 /\ \A u \in Types : u # t => z[u] = s[u]
        /\ \A u \in Types : z[u] \in Nat /\ s[u] \in Nat /\ s[u] <= z[u]
    BY DEF Numbering
  <1> HIDE DEF z
  <1>2. /\ R[n + 1] \in Events /\ R[n + 1].chn = c /\ R[n + 1].type = t
        /\ R[n + 1].seq = s[t]
    BY <1>1 DEF Events
  <1>3. \A i \in 1..n : /\ R[i] \in Events /\ R[i].chn = c /\ R[i].seq < s[R[i].type]
                        /\ R[i].type \in Types /\ R[i].seq \in Nat
    BY EventTypes DEF Sound
  <1>4. \A i \in 1..(n + 1) : i \in 1..n \/ i = n + 1 OBVIOUS
  <1>5. \A i \in 1..(n + 1) : R[i] \in Events /\ R[i].chn = c /\ R[i].seq < z[R[i].type]
    <2>1. \A i \in 1..n : R[i].seq < z[R[i].type] BY <1>1, <1>3
    <2> QED BY <1>1, <1>2, <1>3, <1>4, <2>1
  <1>6. ASSUME NEW i \in 1..(n + 1), NEW k \in 1..(n + 1), i < k, R[i].type = R[k].type
        PROVE  R[i].seq < R[k].seq
    <2>1. CASE k = n + 1
      <3>1. i \in 1..n BY <1>6, <2>1
      <3> QED BY <1>2, <1>3, <1>6, <2>1, <3>1
    <2>2. CASE k \in 1..n
      <3>1. i \in 1..n BY <1>6, <2>2
      <3> QED BY <1>6, <2>2, <3>1 DEF Sound
    <2> QED BY <1>4, <2>1, <2>2
  <1>7. ASSUME NEW i \in 1..(n + 1), NEW y \in Nat, R[i].seq <= y, y < z[R[i].type]
        PROVE  \E k \in 1..(n + 1) : R[k].type = R[i].type /\ R[k].seq = y
    <2>1. CASE R[i].type = t /\ y = s[t]
      BY <1>2, <2>1
    <2>2. CASE i = n + 1 /\ y # s[t]
      <3>1. s[t] <= y /\ y < s[t] + 1 BY <1>1, <1>2, <1>7, <2>2
      <3> QED BY <1>1, <2>2, <3>1
    <2>3. CASE i \in 1..n /\ ~(R[i].type = t /\ y = s[t])
      <3>1. y < s[R[i].type] BY <1>1, <1>3, <1>7, <2>3
      <3>2. PICK k \in 1..n : Q[k].type = Q[i].type /\ Q[k].seq = y
        BY <1>7, <2>3, <3>1 DEF Sound
      <3>3. k \in 1..(n + 1) /\ R[k] = Q[k] /\ R[i] = Q[i] BY <2>3
      <3> QED BY <3>2, <3>3
    <2> QED BY <1>2, <1>4, <2>1, <2>2, <2>3
  <1> QED BY <1>5, <1>6, <1>7 DEF Sound, z

LEMMA AfterPush ==
  ASSUME NEW c \in Chns, NEW T, NEW Q, NEW n \in Nat, NEW s \in Numbering, NEW R,
         NEW t \in Types, T \subseteq Events, After(c, T, Q, n, s),
         \A i \in 1..n : R[i] = Q[i], R[n + 1] = [chn |-> c, type |-> t, seq |-> s[t]]
  PROVE  After(c, T, R, n + 1, [s EXCEPT ![t] = @ + 1])
  <1> DEFINE z == [s EXCEPT ![t] = @ + 1]
  <1>1. \A u \in Types : z[u] \in Nat /\ s[u] \in Nat /\ s[u] <= z[u]
    BY DEF Numbering
  <1> HIDE DEF z
  <1>2. R[n + 1].type = t /\ R[n + 1].seq = s[t] OBVIOUS
  <1> SUFFICES ASSUME NEW e \in T, e.chn = c
               PROVE  /\ e.seq < z[e.type]
                      /\ \A i \in 1..(n + 1) : R[i].type = e.type => e.seq < R[i].seq
    BY DEF After, z
  <1>3. e.seq < s[e.type] /\ e.type \in Types /\ e.seq \in Nat BY EventTypes DEF After
  <1>4. \A i \in 1..n : R[i].type = e.type => e.seq < R[i].seq BY DEF After
  <1>5. \A i \in 1..(n + 1) : i \in 1..n \/ i = n + 1 OBVIOUS
  <1> QED BY <1>1, <1>2, <1>3, <1>4, <1>5

LEMMA LostPush ==
  ASSUME NEW c \in Chns, NEW T, NEW Q, NEW n \in Nat, NEW s \in Numbering, NEW R,
         NEW t \in Types, s[t] < MaxSeq, T \subseteq Events, After(c, T, Q, n, s),
         \A i \in 1..n : R[i] = Q[i], R[n + 1] = [chn |-> c, type |-> t, seq |-> s[t]]
  PROVE  LostFrom(c, T, R, n + 1, [s EXCEPT ![t] = @ + 1]) = LostFrom(c, T, Q, n, s)
  <1> DEFINE z == [s EXCEPT ![t] = @ + 1]
             new == R[n + 1]
  <1>1. /\ z[t] = s[t] + 1 /\ \A u \in Types : u # t => z[u] = s[u]
        /\ \A u \in Types : s[u] \in Nat
    BY DEF Numbering
  <1> HIDE DEF z
  <1>2. new.chn = c /\ new.type = t /\ new.seq = s[t] OBVIOUS
  <1> HIDE DEF new
  <1>3. ASSUME NEW e \in Events, e.chn = c
        PROVE  (e.seq < z[e.type] /\ e # new) <=> e.seq < s[e.type]
    <2>1. e.type \in Types /\ e.seq \in Nat BY EventTypes
    <2>2. e.type = t /\ e.seq = s[t] => e = new
      <3>1. e = [chn |-> e.chn, type |-> e.type, seq |-> e.seq] BY DEF Events
      <3> QED BY <1>3, <3>1 DEF new
    <2> QED BY <1>1, <1>2, <2>1, <2>2
  <1>4. ASSUME NEW e PROVE (\A i \in 1..(n + 1) : R[i] # e) <=>
                             (e # new /\ \A i \in 1..n : Q[i] # e)
    <2>1. \A i \in 1..(n + 1) : i \in 1..n \/ i = n + 1 OBVIOUS
    <2>2. 1..n \subseteq 1..(n + 1) /\ n + 1 \in 1..(n + 1) OBVIOUS
    <2> QED BY <2>1, <2>2 DEF new
  <1>5. LostFrom(c, T, R, n + 1, z) = LostFrom(c, T, Q, n, s)
    BY <1>3, <1>4 DEF LostFrom
  <1> QED BY <1>5 DEF z

\* A ring in order, and a count d that tells of every event it lost.
Keeps(c, T, Q, n, s, d) ==
  /\ Sound(c, Q, n, s) /\ After(c, T, Q, n, s)
  /\ IsFiniteSet(LostFrom(c, T, Q, n, s)) /\ d = Cardinality(LostFrom(c, T, Q, n, s))

LEMMA KeepsDrop ==
  ASSUME NEW c \in Chns, NEW T, NEW Q, NEW n \in Nat \ {0}, NEW s \in Numbering, NEW R,
         NEW d \in Nat, Keeps(c, T, Q, n, s, d), \A i \in 1..(n - 1) : R[i] = Q[1 + i]
  PROVE  Keeps(c, T, R, n - 1, s, d + 1)
  <1> USE DEF Keeps
  <1>1. 1 \in 0..n OBVIOUS
  <1>2. Sound(c, R, n - 1, s) BY <1>1, SoundDrop
  <1>3. After(c, T, R, n - 1, s)
    <2> DEFINE U == T \cup {Q[i] : i \in 1..1}
    <2>1. Joined(U, T, Q, 1) /\ T \subseteq U BY DEF Joined
    <2> HIDE DEF U
    <2>2. After(c, U, R, n - 1, s) BY <1>1, <2>1, AfterTake
    <2> QED BY <2>1, <2>2 DEF After
  <1>4. /\ Q[1] \notin LostFrom(c, T, Q, n, s)
        /\ LostFrom(c, T, R, n - 1, s) = LostFrom(c, T, Q, n, s) \cup {Q[1]}
    BY LostDrop
  <1>5. /\ IsFiniteSet(LostFrom(c, T, Q, n, s) \cup {Q[1]})
        /\ Cardinality(LostFrom(c, T, Q, n, s) \cup {Q[1]})
             = Cardinality(LostFrom(c, T, Q, n, s)) + 1
    BY <1>4, FS_AddElement
  <1> QED BY <1>2, <1>3, <1>4, <1>5

LEMMA KeepsPush ==
  ASSUME NEW c \in Chns, NEW T, NEW Q, NEW n \in Nat, NEW s \in Numbering, NEW R,
         NEW t \in Types, NEW d, s[t] < MaxSeq, T \subseteq Events, Keeps(c, T, Q, n, s, d),
         \A i \in 1..n : R[i] = Q[i], R[n + 1] = [chn |-> c, type |-> t, seq |-> s[t]]
  PROVE  Keeps(c, T, R, n + 1, [s EXCEPT ![t] = @ + 1], d)
  <1> USE DEF Keeps
  <1>1. Sound(c, R, n + 1, [s EXCEPT ![t] = @ + 1]) BY SoundPush
  <1>2. After(c, T, R, n + 1, [s EXCEPT ![t] = @ + 1]) BY AfterPush
  <1>3. LostFrom(c, T, R, n + 1, [s EXCEPT ![t] = @ + 1]) = LostFrom(c, T, Q, n, s)
    BY LostPush
  <1> QED BY <1>1, <1>2, <1>3

LEMMA KeepsTake ==
  ASSUME NEW c, NEW T, NEW Q, NEW n \in Nat, NEW s \in Numbering, NEW m \in 0..n, NEW R,
         NEW d, Keeps(c, T, Q, n, s, d), \A i \in 1..(n - m) : R[i] = Q[m + i],
         NEW U, Joined(U, T, Q, m)
  PROVE  Keeps(c, U, R, n - m, s, d)
  <1>1. Sound(c, R, n - m, s) BY SoundDrop DEF Keeps
  <1>2. After(c, U, R, n - m, s) BY AfterTake DEF Keeps
  <1>3. LostFrom(c, U, R, n - m, s) = LostFrom(c, T, Q, n, s)
    <2> DEFINE k == n - m
    <2>1. k \in Nat /\ Behind(R, Q, n, m, k) BY DEF Behind
    <2> HIDE DEF k
    <2>2. LostFrom(c, U, R, k, s) = LostFrom(c, T, Q, n, s) BY <2>1, LostTake
    <2> QED BY <2>2 DEF k
  <1> QED BY <1>1, <1>2, <1>3 DEF Keeps

LEMMA KeepsOther ==
  ASSUME NEW c, NEW T, NEW Q, NEW n, NEW s, NEW d, Keeps(c, T, Q, n, s, d),
         NEW V, \A e \in V : e.chn # c
  PROVE  Keeps(c, T \cup V, Q, n, s, d)
  <1>1. After(c, T \cup V, Q, n, s) BY DEF Keeps, After
  <1>2. LostFrom(c, T \cup V, Q, n, s) = LostFrom(c, T, Q, n, s) BY DEF LostFrom
  <1> QED BY <1>1, <1>2 DEF Keeps

-----------------------------------------------------------------------------
(* The rings of the device *)

Ring(s, h, t) == [i \in 1..Held(h, t) |-> s[Slot(t, i)]]

LEMMA RingDrop ==
  ASSUME NEW s, NEW h \in Slots, NEW t \in Slots, NEW n \in 0..Held(h, t)
  PROVE  /\ (t + n) % Depth \in Slots
         /\ Held(h, (t + n) % Depth) = Held(h, t) - n /\ Held(h, t) \in 0..RingMask
         /\ \A i \in 1..(Held(h, t) - n) :
              Ring(s, h, (t + n) % Depth)[i] = Ring(s, h, t)[n + i]
  <1> DEFINE u == (t + n) % Depth
  <1>1. /\ u \in Slots /\ Held(h, u) = Held(h, t) - n
        /\ \A i \in 1..(Held(h, t) - n) : Slot(u, i) = Slot(t, n + i)
    BY HeldDrop
  <1>2. Held(h, t) \in 0..RingMask /\ RingMask \in Nat BY HeldCases DEF RingMask
  <1>3. \A i \in 1..(Held(h, t) - n) : n + i \in 1..Held(h, t) BY <1>2
  <1> HIDE DEF u
  <1>4. \A i \in 1..(Held(h, t) - n) : Ring(s, h, u)[i] = Ring(s, h, t)[n + i]
    BY <1>1, <1>3 DEF Ring
  <1> QED BY <1>1, <1>2, <1>4 DEF u

Ends(R, n, e) == R[n + 1] = e

Written(r, s, h, e) == r[h] = e /\ \A i \in Slots : i # h => r[i] = s[i]

LEMMA RingPush ==
  ASSUME NEW s, NEW r, NEW h \in Slots, NEW t \in Slots, NEW e, Held(h, t) < RingMask,
         Written(r, s, h, e)
  PROVE  /\ Held(Next1(h), t) = Held(h, t) + 1
         /\ \A i \in 1..Held(h, t) : Ring(r, Next1(h), t)[i] = Ring(s, h, t)[i]
         /\ Ends(Ring(r, Next1(h), t), Held(h, t), e)
  <1>1. /\ Held(Next1(h), t) = Held(h, t) + 1
        /\ Slot(t, Held(h, t) + 1) = h
        /\ \A i \in 1..Held(h, t) : Slot(t, i) # h
    BY HeldPush
  <1>2. Held(h, t) \in 0..RingMask /\ RingMask \in Nat /\ RingMask < Depth
    BY HeldCases DEF RingMask
  <1>3. \A i \in 1..Held(h, t) : r[Slot(t, i)] = s[Slot(t, i)]
    <2>1. \A i \in 1..Held(h, t) : Slot(t, i) \in Slots BY <1>2, SlotCases
    <2> QED BY <1>1, <2>1 DEF Written
  <1>4. \A i \in 1..Held(h, t) : i \in 1..(Held(h, t) + 1) BY <1>2
  <1>5. Held(h, t) + 1 \in 1..(Held(h, t) + 1) BY <1>2
  <1>6. \A i \in 1..Held(h, t) : Ring(r, Next1(h), t)[i] = Ring(s, h, t)[i]
    BY <1>1, <1>3, <1>4 DEF Ring
  <1>7. Ends(Ring(r, Next1(h), t), Held(h, t), e)
    BY <1>1, <1>5 DEF Ring, Written, Ends
  <1> QED BY <1>1, <1>6, <1>7

RingTypes ==
  /\ head \in [Chns -> Slots] /\ tail \in [Chns -> Slots]
  /\ slot \in [Chns -> [Slots -> Events \cup {NoEvent}]]
  /\ seq \in [Chns -> Numbering] /\ dropped \in [Chns -> Nat]
  /\ taken \subseteq Events

RingOK(c) == Keeps(c, taken, Queue(c), Count(c), seq[c], dropped[c])

RingInv == RingTypes /\ \A c \in Chns : RingOK(c)

LEMMA RingIs ==
  ASSUME NEW c
  PROVE  /\ Count(c) = Held(head[c], tail[c])
         /\ Queue(c) = Ring(slot[c], head[c], tail[c])
         /\ Count(c)' = Held(head'[c], tail'[c])
         /\ Queue(c)' = Ring(slot'[c], head'[c], tail'[c])
  BY DEF Count, Queue, Held, Ring, Slot

LEMMA RingStill ==
  ASSUME RingInv, UNCHANGED <<slot, head, tail, seq, dropped, taken>> PROVE RingInv'
  <1>1. RingTypes' BY DEF RingInv, RingTypes
  <1>2. \A c \in Chns : Count(c)' = Count(c) /\ Queue(c)' = Queue(c)
    BY RingIs DEF Count, Queue
  <1>3. \A c \in Chns : RingOK(c)' BY <1>2 DEF RingInv, RingOK
  <1> QED BY <1>1, <1>3 DEF RingInv

\* openipc_frame_ts_push fills a slot, having made room for it.
LEMMA RingPushEvent ==
  ASSUME RingInv, NEW c \in Chns, NEW t \in Types, PushEvent(c, t) PROVE RingInv'
  <1> DEFINE h == head[c]
             b == tail[c]
             e == [chn |-> c, type |-> t, seq |-> seq[c][t]]
             n == Held(h, b)
  <1>1. /\ head \in [Chns -> Slots] /\ tail \in [Chns -> Slots]
        /\ slot \in [Chns -> [Slots -> Events \cup {NoEvent}]]
        /\ seq \in [Chns -> Numbering] /\ dropped \in [Chns -> Nat]
        /\ taken \subseteq Events /\ h \in Slots /\ b \in Slots
        /\ slot[c] \in [Slots -> Events \cup {NoEvent}] /\ seq[c] \in Numbering
        /\ dropped[c] \in Nat
    BY DEF RingInv, RingTypes
  <1>2. /\ slot' = [slot EXCEPT ![c][h] = e] /\ seq' = [seq EXCEPT ![c][t] = @ + 1]
        /\ head' = [head EXCEPT ![c] = Next1(h)] /\ taken' = taken /\ seq[c][t] < MaxSeq
        /\ MakeRoom(c)
    BY <1>1 DEF PushEvent
  <1>3. n \in 0..RingMask /\ RingMask \in Nat \ {0} /\ Next1(h) \in Slots
    BY <1>1, HeldCases, NextCases DEF RingMask
  <1>4. /\ slot'[c] = [slot[c] EXCEPT ![h] = e] /\ head'[c] = Next1(h)
        /\ seq'[c] = [seq[c] EXCEPT ![t] = @ + 1]
        /\ \A d \in Chns \ {c} : slot'[d] = slot[d] /\ head'[d] = head[d] /\ seq'[d] = seq[d]
    BY <1>1, <1>2
  <1>5. seq[c][t] \in Nat /\ e \in Events
    BY <1>1, <1>2 DEF Numbering, Events
  <1>6. /\ \A d \in Chns \ {c} : tail'[d] = tail[d] /\ dropped'[d] = dropped[d]
        /\ tail' \in [Chns -> Slots] /\ dropped' \in [Chns -> Nat]
        /\ \/ n < RingMask /\ tail'[c] = b /\ dropped'[c] = dropped[c]
           \/ n = RingMask /\ tail'[c] = (b + 1) % Depth /\ dropped'[c] = dropped[c] + 1
    <2>1. n = Count(c) BY DEF Count, Held
    <2>2. Next1(b) \in Slots /\ Next1(b) = (b + 1) % Depth BY <1>1, NextCases DEF Next1
    <2>3. CASE RingFull(c)
      <3>1. tail' = [tail EXCEPT ![c] = Next1(b)] /\ dropped' = [dropped EXCEPT ![c] = @ + 1]
        BY <1>1, <1>2, <2>3 DEF MakeRoom
      <3>2. n = RingMask BY <2>1, <2>3 DEF RingFull
      <3> HIDE DEF b, n
      <3>3. tail'[c] = (b + 1) % Depth /\ dropped'[c] = dropped[c] + 1
        BY <1>1, <2>2, <3>1
      <3>4. \A d \in Chns \ {c} : tail'[d] = tail[d] /\ dropped'[d] = dropped[d]
        BY <1>1, <3>1
      <3>5. tail' \in [Chns -> Slots] /\ dropped' \in [Chns -> Nat]
        BY <1>1, <2>2, <3>1
      <3> QED BY <3>2, <3>3, <3>4, <3>5
    <2>4. CASE ~RingFull(c)
      <3>1. tail' = tail /\ dropped' = dropped BY <1>2, <2>4 DEF MakeRoom
      <3>2. n < RingMask BY <1>3, <2>1, <2>4 DEF RingFull
      <3> QED BY <1>1, <3>1, <3>2
    <2> QED BY <2>3, <2>4
  <1>7. RingTypes'
    <2>1. head' \in [Chns -> Slots] /\ taken' \subseteq Events BY <1>1, <1>2, <1>3
    <2>2. slot' \in [Chns -> [Slots -> Events \cup {NoEvent}]]
      BY <1>1, <1>2, <1>5
    <2>3. seq' \in [Chns -> Numbering]
      BY <1>1, <1>2, <1>5 DEF Numbering
    <2> QED BY <1>6, <2>1, <2>2, <2>3 DEF RingTypes
  <1>8. ASSUME NEW d \in Chns, d # c PROVE RingOK(d)'
    <2>1. Count(d)' = Count(d) /\ Queue(d)' = Queue(d)
      BY <1>4, <1>6, <1>8, RingIs
    <2> QED BY <1>2, <1>4, <1>6, <1>8, <2>1 DEF RingInv, RingOK
  <1>9. RingOK(c)'
    <2> DEFINE u == tail'[c]
               m == Held(h, u)
               Q == Ring(slot[c], h, u)
               R == Ring(slot'[c], Next1(h), u)
    <2>0. u \in Slots BY <1>6
    <2>1. m < RingMask /\ m \in Nat /\ Keeps(c, taken, Q, m, seq[c], dropped'[c])
      <3>1. Keeps(c, taken, Ring(slot[c], h, b), n, seq[c], dropped[c])
        BY RingIs DEF RingInv, RingOK
      <3>2. CASE n < RingMask /\ tail'[c] = b /\ dropped'[c] = dropped[c]
        BY <1>3, <3>1, <3>2
      <3>3. CASE n = RingMask /\ tail'[c] = (b + 1) % Depth /\ dropped'[c] = dropped[c] + 1
        <4>1. 1 \in 0..Held(h, b) BY <1>3, <3>3
        <4>2. /\ m = n - 1
              /\ \A i \in 1..(n - 1) : Q[i] = Ring(slot[c], h, b)[1 + i]
          BY <1>1, <3>3, <4>1, RingDrop
        <4> HIDE DEF Q, m, n
        <4>3. Keeps(c, taken, Q, n - 1, seq[c], dropped[c] + 1)
          BY <1>1, <1>3, <3>1, <3>3, <4>2, KeepsDrop
        <4> QED BY <1>3, <3>3, <4>2, <4>3
      <3> QED BY <1>6, <3>2, <3>3
    <2>2. /\ Held(Next1(h), u) = m + 1
          /\ \A i \in 1..m : R[i] = Q[i]
          /\ R[m + 1] = e
      <3>1. Written(slot'[c], slot[c], h, e) BY <1>1, <1>4 DEF Written
      <3>2. h \in Slots /\ u \in Slots /\ Held(h, u) < RingMask BY <1>1, <2>0, <2>1
      <3> HIDE DEF h, u, e
      <3>3. /\ Held(Next1(h), u) = m + 1 /\ \A i \in 1..m : R[i] = Q[i]
            /\ Ends(R, m, e)
        BY <3>1, <3>2, RingPush
      <3> QED BY <3>3 DEF Ends
    <2>3. Count(c)' = Held(Next1(h), u) /\ Queue(c)' = R BY <1>4, RingIs
    <2> HIDE DEF Q, R, m, u
    <2>4. Keeps(c, taken, R, m + 1, [seq[c] EXCEPT ![t] = @ + 1], dropped'[c])
      BY <1>1, <1>2, <2>1, <2>2, KeepsPush
    <2> QED BY <1>2, <1>4, <2>2, <2>3, <2>4 DEF RingOK
  <1> QED BY <1>7, <1>8, <1>9 DEF RingInv

\* pop_one takes the oldest m of a ring.
LEMMA RingTake ==
  ASSUME RingInv, NEW c \in Chns, NEW m \in 0..Count(c),
         tail' = [tail EXCEPT ![c] = (@ + m) % Depth],
         Joined(taken', taken, Queue(c), m),
         UNCHANGED <<slot, head, seq, dropped>>
  PROVE  RingInv'
  <1> DEFINE h == head[c]
             b == tail[c]
             n == Held(h, b)
             u == (b + m) % Depth
             Q == Ring(slot[c], h, b)
             R == Ring(slot[c], h, u)
  <1>1. /\ head \in [Chns -> Slots] /\ tail \in [Chns -> Slots] /\ h \in Slots /\ b \in Slots
        /\ slot \in [Chns -> [Slots -> Events \cup {NoEvent}]]
        /\ seq \in [Chns -> Numbering] /\ dropped \in [Chns -> Nat]
        /\ taken \subseteq Events /\ seq[c] \in Numbering
    BY DEF RingInv, RingTypes
  <1>2. Count(c) = n /\ Queue(c) = Q BY RingIs
  <1>3. m \in 0..Held(h, b) BY <1>2
  <1>4. /\ u \in Slots /\ Held(h, u) = n - m /\ n \in 0..RingMask
        /\ \A i \in 1..(n - m) : R[i] = Q[m + i]
    <2> HIDE DEF h, b
    <2>1. h \in Slots /\ b \in Slots /\ m \in 0..Held(h, b) BY <1>1, <1>3
    <2>2. /\ (b + m) % Depth \in Slots
          /\ Held(h, (b + m) % Depth) = Held(h, b) - m /\ Held(h, b) \in 0..RingMask
          /\ \A i \in 1..(Held(h, b) - m) :
               Ring(slot[c], h, (b + m) % Depth)[i] = Ring(slot[c], h, b)[m + i]
      BY <2>1, RingDrop
    <2> QED BY <2>2
  <1>5. /\ tail'[c] = u /\ tail' \in [Chns -> Slots]
        /\ \A d \in Chns \ {c} : tail'[d] = tail[d]
    <2>1. tail' = [tail EXCEPT ![c] = u] OBVIOUS
    <2> HIDE DEF u
    <2> QED BY <1>1, <1>4, <2>1
  <1>6. Keeps(c, taken, Q, n, seq[c], dropped[c])
    BY <1>2 DEF RingInv, RingOK
  <1>7. \A e \in taken' : e \in taken \/ (e \in Events /\ e.chn = c)
    <2>1. \A i \in 1..n : Q[i] \in Events /\ Q[i].chn = c BY <1>6 DEF Keeps, Sound
    <2>2. \A i \in 1..m : i \in 1..n BY <1>3, <1>4 DEF RingMask
    <2> HIDE DEF Q, n
    <2> QED BY <1>2, <2>1, <2>2 DEF Joined
  <1>8. RingTypes' BY <1>1, <1>5, <1>7 DEF RingTypes
  <1>9. ASSUME NEW d \in Chns, d # c PROVE RingOK(d)'
    <2>1. Count(d)' = Count(d) /\ Queue(d)' = Queue(d) BY <1>5, <1>9, RingIs
    <2>2. Keeps(d, taken, Queue(d), Count(d), seq[d], dropped[d])
      BY DEF RingInv, RingOK
    <2> DEFINE V == {e \in taken' : e.chn = c}
    <2>3. taken' = taken \cup V /\ \A e \in V : e.chn # d BY <1>7, <1>9 DEF Joined
    <2> HIDE DEF V
    <2>4. Keeps(d, taken \cup V, Queue(d), Count(d), seq[d], dropped[d])
      BY <2>2, <2>3, KeepsOther
    <2> QED BY <2>1, <2>3, <2>4 DEF RingOK
  <1>10. RingOK(c)'
    <2>1. Count(c)' = n - m /\ Queue(c)' = R BY <1>4, <1>5, RingIs
    <2>2. Joined(taken', taken, Q, m) BY <1>2
    <2>3. n \in Nat /\ m \in 0..n BY <1>3, <1>4
    <2> HIDE DEF Q, R, n, u
    <2>4. Keeps(c, taken', R, n - m, seq[c], dropped[c])
      BY <1>1, <1>4, <1>6, <2>2, <2>3, KeepsTake
    <2> QED BY <2>1, <2>4 DEF RingOK
  <1> QED BY <1>8, <1>9, <1>10 DEF RingInv

-----------------------------------------------------------------------------
(* What pop_one and its walk choose *)

\* The first of n places that passes, or the end.
LEMMA FirstPlace ==
  ASSUME NEW n \in Nat, NEW P
  PROVE  \E k \in 0..n : /\ \A i \in 1..k : i \notin P
                         /\ k < n => k + 1 \in P
  <1> DEFINE S == {k \in 0..n : k = n \/ k + 1 \in P}
  <1>1. S \in SUBSET Nat /\ S # {} OBVIOUS
  <1>2. PICK k \in S : \A y \in S : k <= y BY <1>1, Least
  <1>3. ASSUME NEW i \in 1..k, i \in P PROVE FALSE
    <2>1. i - 1 \in 0..n /\ (i - 1) + 1 \in P /\ i - 1 < k BY <1>2, <1>3
    <2>2. i - 1 \in S BY <2>1
    <2> QED BY <1>2, <2>1, <2>2
  <1>4. k \in 0..n /\ (k < n => k + 1 \in P) BY <1>2
  <1> QED BY <1>3, <1>4

LEMMA SkipIs ==
  ASSUME NEW f, NEW c, Count(c) \in Nat
  PROVE  /\ Skip(f, c) \in 0..Count(c)
         /\ \A i \in 1..Skip(f, c) : ~Passes(f, Queue(c)[i])
         /\ Skip(f, c) < Count(c) => Passes(f, Queue(c)[Skip(f, c) + 1])
  <1> DEFINE P == {i \in 1..Count(c) : Passes(f, Queue(c)[i])}
             Good(k) == /\ \A i \in 1..k : ~Passes(f, Queue(c)[i])
                        /\ k < Count(c) => Passes(f, Queue(c)[k + 1])
  <1>1. PICK k \in 0..Count(c) : /\ \A i \in 1..k : i \notin P
                                 /\ k < Count(c) => k + 1 \in P
    <2> HIDE DEF P
    <2> QED BY FirstPlace
  <1>2. \A i \in 1..k : i \in 1..Count(c) OBVIOUS
  <1>3. Good(k) BY <1>1, <1>2
  <1>4. Skip(f, c) = CHOOSE j \in 0..Count(c) : Good(j) BY DEF Skip
  <1> HIDE DEF Good
  <1>5. Skip(f, c) \in 0..Count(c) /\ Good(Skip(f, c)) BY <1>3, <1>4
  <1> QED BY <1>5 DEF Good

LEMMA FromChnIs ==
  ASSUME NEW f, NEW c \in 0..NumChn
  PROVE  /\ FromChn(f, c) \in c..NumChn
         /\ \A b \in c..(FromChn(f, c) - 1) : b \notin mask[f].chn
  <1> DEFINE S == {d \in c..NumChn : d = NumChn \/ d \in mask[f].chn}
             Good(d) == /\ d = NumChn \/ d \in mask[f].chn
                        /\ \A b \in c..(d - 1) : b \notin mask[f].chn
  <1>1. S \in SUBSET Nat /\ S # {} OBVIOUS
  <1>2. PICK d \in S : \A y \in S : d <= y BY <1>1, Least
  <1>3. ASSUME NEW b \in c..(d - 1), b \in mask[f].chn PROVE FALSE
    <2>1. d \in c..NumChn BY <1>2
    <2>2. b \in c..NumChn /\ b < d BY <2>1
    <2>3. b \in S BY <1>3, <2>2
    <2> QED BY <1>2, <2>1, <2>2, <2>3
  <1>4. d \in c..NumChn /\ Good(d) BY <1>2, <1>3
  <1>5. FromChn(f, c) = CHOOSE x \in c..NumChn : Good(x) BY DEF FromChn
  <1> HIDE DEF Good
  <1>6. FromChn(f, c) \in c..NumChn /\ Good(FromChn(f, c)) BY <1>4, <1>5
  <1> QED BY <1>6 DEF Good

-----------------------------------------------------------------------------
(* The files' threads *)

FileTypes ==
  /\ coalesced \in [Chns -> [Types -> 0..MaxOver]]
  /\ pushing \subseteq Sources
  /\ mask \in [Files -> Masks \cup {EveryEvent}]
  /\ pc \in [Files -> {"user", "pop", "copy", "check", "asleep"}]
  /\ op \in [Files -> {"none", "read", "poll"}]
  /\ at \in [Files -> 0..NumChn] /\ room \in [Files -> 0..MaxRoom]
  /\ copied \in [Files -> BOOLEAN] /\ woken \subseteq Files
  /\ ev \in [Files -> Events \cup {NoEvent}]

\* A thread that takes events is in read(2), and its buffer has room for one.
InCall ==
  \A f \in Files :
    /\ pc[f] \in {"pop", "copy"} => op[f] = "read"
    /\ pc[f] \in {"check", "asleep"} => op[f] \in {"read", "poll"}
    /\ op[f] = "read" => room[f] \in 1..MaxRoom

FileInv == FileTypes /\ InCall

LEMMA MaskTypes ==
  ASSUME FileTypes, NEW f \in Files
  PROVE  mask[f].chn \subseteq Chns
  <1>1. mask[f] \in Masks \/ mask[f] = EveryEvent BY DEF FileTypes
  <1>2. \A m \in Masks : m \in [chn : SUBSET Chns, evt : SUBSET Types] BY DEF Chns
  <1>3. \A m \in Masks : m.chn \subseteq Chns BY <1>2
  <1>4. EveryEvent.chn = Chns BY DEF EveryEvent
  <1> QED BY <1>1, <1>3, <1>4

LEMMA RingHolds ==
  ASSUME RingInv, NEW c \in Chns
  PROVE  /\ Count(c) \in Nat /\ (Count(c) = 0 <=> RingEmpty(c)) /\ Count(c) \in 0..RingMask
         /\ \A i \in 1..Count(c) : Queue(c)[i] \in Events /\ Queue(c)[i].chn = c
  <1>1. head[c] \in Slots /\ tail[c] \in Slots BY DEF RingInv, RingTypes
  <1>2. Count(c) = Held(head[c], tail[c]) BY RingIs
  <1>3. Count(c) \in 0..RingMask /\ (Count(c) = 0 <=> RingEmpty(c))
    BY <1>1, <1>2, HeldCases DEF RingEmpty
  <1>4. \A i \in 1..Count(c) : Queue(c)[i] \in Events /\ Queue(c)[i].chn = c
    BY DEF RingInv, RingOK, Keeps, Sound
  <1> QED BY <1>3, <1>4 DEF RingMask

\* What a walk finds in a ring.
LEMMA FoundIs ==
  ASSUME RingInv, FileTypes, NEW f \in Files, PopFound(f)
  PROVE  /\ at[f] \in Chns /\ Skip(f, at[f]) + 1 \in 1..Count(at[f])
         /\ ev' = [ev EXCEPT ![f] = Queue(at[f])[Skip(f, at[f]) + 1]]
         /\ Queue(at[f])[Skip(f, at[f]) + 1] \in Events
         /\ Passes(f, Queue(at[f])[Skip(f, at[f]) + 1])
         /\ tail' = [tail EXCEPT ![at[f]] = (@ + (Skip(f, at[f]) + 1)) % Depth]
         /\ Joined(taken', taken, Queue(at[f]), Skip(f, at[f]) + 1)
  <1> DEFINE c == at[f]
             n == Skip(f, c)
  <1>1. c \in Chns BY DEF PopFound, FileTypes, Chns
  <1>2. /\ n < Count(c) /\ tail' = [tail EXCEPT ![c] = (@ + n + 1) % Depth]
        /\ ev' = [ev EXCEPT ![f] = Queue(c)[n + 1]]
        /\ taken' = taken \cup {Queue(c)[i] : i \in 1..(n + 1)}
    BY DEF PopFound
  <1>3. Count(c) \in Nat /\ \A i \in 1..Count(c) : Queue(c)[i] \in Events
    BY <1>1, RingHolds
  <1>4. n \in 0..Count(c) /\ (n < Count(c) => Passes(f, Queue(c)[n + 1]))
    BY <1>3, SkipIs
  <1>5. tail[c] \in Int BY <1>1 DEF RingInv, RingTypes, Slots
  <1> HIDE DEF c, n
  <1>6. n + 1 \in 1..Count(c) BY <1>2, <1>3, <1>4
  <1>7. tail[c] + n + 1 = tail[c] + (n + 1) BY <1>5, <1>4
  <1>8. tail' = [tail EXCEPT ![c] = (@ + (n + 1)) % Depth] BY <1>2, <1>7
  <1>9. Joined(taken', taken, Queue(c), n + 1) BY <1>2 DEF Joined
  <1>10. Queue(c)[n + 1] \in Events /\ Passes(f, Queue(c)[n + 1]) BY <1>2, <1>3, <1>4, <1>6
  <1> QED BY <1>1, <1>2, <1>6, <1>8, <1>9, <1>10 DEF c, n

LEMMA NoneIs ==
  ASSUME RingInv, FileTypes, NEW f \in Files, PopNone(f)
  PROVE  /\ at[f] \in Chns /\ Count(at[f]) \in 0..Count(at[f])
         /\ tail' = [tail EXCEPT ![at[f]] = (@ + Count(at[f])) % Depth]
         /\ tail' = [tail EXCEPT ![at[f]] = head[at[f]]]
         /\ Joined(taken', taken, Queue(at[f]), Count(at[f]))
  <1> DEFINE c == at[f]
             n == Count(c)
  <1>1. c \in Chns BY DEF PopNone, FileTypes, Chns
  <1>2. tail' = [tail EXCEPT ![c] = head[c]] /\ taken' = taken \cup {Queue(c)[i] : i \in 1..n}
    BY DEF PopNone
  <1>3. n \in Nat BY <1>1, RingHolds
  <1>4. head[c] \in Slots /\ tail[c] \in Slots /\ n = Held(head[c], tail[c])
    BY <1>1, RingIs DEF RingInv, RingTypes
  <1>5. (tail[c] + n) % Depth = head[c]
    <2>1. Held(head[c], tail[c]) \in 0..Held(head[c], tail[c]) BY <1>3, <1>4
    <2> HIDE DEF c, n
    <2>2. \A h, t \in Slots : Held(h, t) \in 0..Held(h, t) =>
            (t + Held(h, t)) % Depth \in Slots /\ Held(h, (t + Held(h, t)) % Depth) = Held(h, t) - Held(h, t)
      BY HeldDrop
    <2>3. \A h, t \in Slots : Held(h, t) = 0 => h = t BY HeldCases
    <2>4. (tail[c] + n) % Depth \in Slots /\ Held(head[c], (tail[c] + n) % Depth) = n - n
      BY <1>4, <2>1, <2>2
    <2> DEFINE u == (tail[c] + n) % Depth
    <2>5. u \in Slots /\ Held(head[c], u) = 0 BY <1>3, <2>4
    <2> HIDE DEF u
    <2>6. head[c] = u BY <1>4, <2>3, <2>5
    <2> QED BY <2>6 DEF u
  <1>6. Joined(taken', taken, Queue(c), n) BY <1>2 DEF Joined
  <1> HIDE DEF n, c
  <1>7. tail' = [tail EXCEPT ![c] = (@ + n) % Depth] BY <1>2, <1>5
  <1>8. n \in 0..n BY <1>3
  <1> QED BY <1>1, <1>2, <1>6, <1>7, <1>8 DEF n, c

\* Every other step leaves the rings as they are.
LEMMA RingStep ==
  ASSUME RingInv, FileTypes, [Next]_vars PROVE RingInv'
  <1>1. ASSUME NEW s \in Sources, PushEvent(s[1], s[2]) PROVE RingInv'
    <2>1. s[1] \in Chns /\ s[2] \in Types BY DEF Chns
    <2> QED BY <1>1, <2>1, RingPushEvent
  <1>2. ASSUME NEW s \in Sources, PushCoalesced(s[1], s[2]) \/ PushWake(s[1], s[2])
        PROVE  RingInv'
    BY <1>2, RingStill DEF PushCoalesced, PushWake, ringVars
  <1>3. ASSUME NEW f \in Files, PopFound(f) PROVE RingInv'
    <2> DEFINE c == at[f]
               m == Skip(f, c) + 1
    <2>1. /\ c \in Chns /\ m \in 0..Count(c)
          /\ tail' = [tail EXCEPT ![c] = (@ + m) % Depth]
          /\ Joined(taken', taken, Queue(c), m)
      <3>1. Count(c) \in Nat BY <1>3, FoundIs, RingHolds
      <3> QED BY <1>3, <3>1, FoundIs
    <2>2. UNCHANGED <<slot, head, seq, dropped>> BY <1>3 DEF PopFound
    <2> HIDE DEF c, m
    <2> QED BY <2>1, <2>2, RingTake
  <1>4. ASSUME NEW f \in Files, PopNone(f) PROVE RingInv'
    <2> DEFINE c == at[f]
               m == Count(c)
    <2>1. /\ c \in Chns /\ m \in 0..Count(c)
          /\ tail' = [tail EXCEPT ![c] = (@ + m) % Depth]
          /\ Joined(taken', taken, Queue(c), m)
      BY <1>4, NoneIs
    <2>2. UNCHANGED <<slot, head, seq, dropped>> BY <1>4 DEF PopNone
    <2> HIDE DEF c, m
    <2> QED BY <2>1, <2>2, RingTake
  <1>5. ASSUME NEW f \in Files,
               \/ PopEnd(f) \/ Copy(f) \/ CheckHit(f) \/ CheckMiss(f) \/ CheckEnd(f)
               \/ Wakes(f) \/ Calls(f)
        PROVE  RingInv'
    BY <1>5, RingStill
    DEF PopEnd, Copy, CheckHit, CheckMiss, CheckEnd, Wakes, Calls, Read, Poll, SetMask,
        CopyFault, Interrupted, Stay, ringVars
  <1>6. ASSUME UNCHANGED vars PROVE RingInv' BY <1>6, RingStill DEF vars, ringVars
  <1> QED BY <1>1, <1>2, <1>3, <1>4, <1>5, <1>6 DEF Next, Handlers, Proceeds

LEMMA RingInit ==
  ASSUME Init PROVE RingInv
  <1>1. RingTypes
    <2>1. 0 \in Slots BY DEF Slots, RingMask
    <2>2. \A c \in Chns : slot[c] \in [Slots -> Events \cup {NoEvent}]
      BY DEF Init, Slots
    <2>3. slot \in [Chns -> [Slots -> Events \cup {NoEvent}]] BY <2>2 DEF Init
    <2>4. seq \in [Chns -> Numbering] BY DEF Init, Numbering
    <2> QED BY <2>1, <2>3, <2>4 DEF Init, RingTypes
  <1>2. ASSUME NEW c \in Chns PROVE RingOK(c)
    <2>1. Count(c) = 0
      <3>1. head[c] = 0 /\ tail[c] = 0 /\ 0 \in Slots BY DEF Init, Slots, RingMask
      <3> QED BY <3>1, HeldCases, RingIs
    <2>2. Sound(c, Queue(c), 0, seq[c]) BY DEF Sound
    <2>3. taken = {} /\ dropped[c] = 0 /\ \A t \in Types : seq[c][t] = 0 BY DEF Init
    <2>4. After(c, taken, Queue(c), 0, seq[c]) BY <2>3 DEF After
    <2>5. LostFrom(c, taken, Queue(c), 0, seq[c]) = {}
      <3>1. \A e \in Events : ~(e.seq < seq[c][e.type])
        BY <2>3, EventTypes
      <3> QED BY <3>1 DEF LostFrom
    <2>6. Keeps(c, taken, Queue(c), 0, seq[c], dropped[c])
      BY <2>2, <2>3, <2>4, <2>5, FS_EmptySet DEF Keeps
    <2> QED BY <2>1, <2>6 DEF RingOK
  <1> QED BY <1>1, <1>2 DEF RingInv

LEMMA FileInit ==
  ASSUME Init PROVE FileInv
  <1>1. FileTypes BY DEF Init, FileTypes, Chns, EveryEvent
  <1>2. InCall BY DEF Init, InCall
  <1> QED BY <1>1, <1>2 DEF FileInv

\* What one thread's step may do to its own state; l is where it goes on, o
\* the call it is in then, a the channel, r the room, b what it has copied, e the event.
Moves(f, l, o, a, r, b, e) ==
  /\ pc' = [pc EXCEPT ![f] = l] /\ op' = [op EXCEPT ![f] = o]
  /\ at' = [at EXCEPT ![f] = a] /\ room' = [room EXCEPT ![f] = r]
  /\ copied' = [copied EXCEPT ![f] = b] /\ ev' = [ev EXCEPT ![f] = e]

LEMMA MovesTyped ==
  ASSUME FileInv, NEW f \in Files, NEW l, NEW o, NEW a, NEW r, NEW b, NEW e,
         Moves(f, l, o, a, r, b, e), woken' \subseteq Files,
         UNCHANGED <<coalesced, pushing, mask>>,
         l \in {"user", "pop", "copy", "check", "asleep"}, o \in {"none", "read", "poll"},
         a \in 0..NumChn, r \in 0..MaxRoom, b \in BOOLEAN, e \in Events \cup {NoEvent},
         l \in {"pop", "copy"} => o = "read",
         l \in {"check", "asleep"} => o \in {"read", "poll"},
         o = "read" => r \in 1..MaxRoom
  PROVE  FileInv'
  <1>1. /\ pc' \in [Files -> {"user", "pop", "copy", "check", "asleep"}]
        /\ op' \in [Files -> {"none", "read", "poll"}]
    BY DEF Moves, FileInv, FileTypes
  <1>2. at' \in [Files -> 0..NumChn] /\ room' \in [Files -> 0..MaxRoom]
    BY DEF Moves, FileInv, FileTypes
  <1>3. copied' \in [Files -> BOOLEAN] /\ ev' \in [Files -> Events \cup {NoEvent}]
    BY DEF Moves, FileInv, FileTypes
  <1>4. FileTypes' BY <1>1, <1>2, <1>3 DEF FileInv, FileTypes
  <1>5. /\ pc'[f] = l /\ op'[f] = o /\ room'[f] = r
        /\ \A g \in Files : g # f => pc'[g] = pc[g] /\ op'[g] = op[g] /\ room'[g] = room[g]
    BY DEF Moves, FileInv, FileTypes
  <1>6. InCall' BY <1>5 DEF FileInv, InCall
  <1> QED BY <1>4, <1>6 DEF FileInv

LEMMA FunStays ==
  ASSUME NEW S, NEW T, NEW g \in [S -> T], NEW x \in S
  PROVE  g = [g EXCEPT ![x] = g[x]]
  OBVIOUS

LEMMA Stays ==
  ASSUME FileTypes, NEW f \in Files
  PROVE  /\ pc = [pc EXCEPT ![f] = pc[f]] /\ op = [op EXCEPT ![f] = op[f]]
         /\ at = [at EXCEPT ![f] = at[f]] /\ room = [room EXCEPT ![f] = room[f]]
         /\ copied = [copied EXCEPT ![f] = copied[f]] /\ ev = [ev EXCEPT ![f] = ev[f]]
  BY FunStays DEF FileTypes

\* A channel is quiet when its ring is empty or a handler that filled it has
\* yet to wake the readers.  A thread on the wait queue that nobody has woken
\* has only quiet channels behind it.
Quiet(c) == RingEmpty(c) \/ \E t \in Types : <<c, t>> \in pushing

Watch ==
  \A f \in Files :
    /\ pc[f] = "asleep" => at[f] = NumChn
    /\ pc[f] \in {"check", "asleep"} /\ f \notin woken
         => \A c \in mask[f].chn : c < at[f] => Quiet(c)

LEMMA WatchMove ==
  ASSUME FileInv, Watch, NEW f \in Files,
         NEW l, NEW o, NEW a, NEW r, NEW b, NEW e, Moves(f, l, o, a, r, b, e),
         UNCHANGED mask, \A g \in Files : g # f => (g \in woken' <=> g \in woken),
         \A c \in Chns : Quiet(c) => Quiet(c)',
         l = "asleep" => a = NumChn,
         l \in {"check", "asleep"} /\ f \notin woken'
           => \A c \in mask[f].chn : c < a => Quiet(c)
  PROVE  Watch'
  <1>1. /\ pc'[f] = l /\ at'[f] = a
        /\ \A g \in Files : g # f => pc'[g] = pc[g] /\ at'[g] = at[g]
    BY DEF Moves, FileInv, FileTypes
  <1>2. \A g \in Files : \A c \in mask[g].chn : Quiet(c) => Quiet(c)'
    BY MaskTypes DEF FileInv
  <1>3. ASSUME NEW g \in Files, g # f
        PROVE  /\ pc'[g] = "asleep" => at'[g] = NumChn
               /\ pc'[g] \in {"check", "asleep"} /\ g \notin woken'
                    => \A c \in mask'[g].chn : c < at'[g] => Quiet(c)'
    BY <1>1, <1>2, <1>3 DEF Watch
  <1>4. /\ pc'[f] = "asleep" => at'[f] = NumChn
        /\ pc'[f] \in {"check", "asleep"} /\ f \notin woken'
             => \A c \in mask'[f].chn : c < at'[f] => Quiet(c)'
    BY <1>1, <1>2
  <1> QED BY <1>3, <1>4 DEF Watch

Steady == FileInv /\ Watch

\* A step of one thread, whose ring operations leave quiet channels quiet.
LEMMA SteadyMove ==
  ASSUME Steady, NEW f \in Files,
         NEW l, NEW o, NEW a, NEW r, NEW b, NEW e, Moves(f, l, o, a, r, b, e),
         UNCHANGED <<coalesced, pushing, mask>>,
         woken' = woken \/ woken' = woken \ {f},
         \A c \in Chns : Quiet(c) => Quiet(c)',
         l \in {"user", "pop", "copy", "check", "asleep"}, o \in {"none", "read", "poll"},
         a \in 0..NumChn, r \in 0..MaxRoom, b \in BOOLEAN, e \in Events \cup {NoEvent},
         l \in {"pop", "copy"} => o = "read",
         l \in {"check", "asleep"} => o \in {"read", "poll"},
         o = "read" => r \in 1..MaxRoom,
         l = "asleep" => a = NumChn,
         l \in {"check", "asleep"} /\ f \notin woken'
           => \A c \in mask[f].chn : c < a => Quiet(c)
  PROVE  Steady'
  <1>1. woken' \subseteq Files BY DEF Steady, FileInv, FileTypes
  <1>2. FileInv' BY <1>1, MovesTyped DEF Steady
  <1>3. Watch' BY WatchMove DEF Steady
  <1> QED BY <1>2, <1>3 DEF Steady

\* What the file's thread holds, field by field.
LEMMA Own ==
  ASSUME Steady, NEW f \in Files
  PROVE  /\ pc[f] \in {"user", "pop", "copy", "check", "asleep"}
         /\ op[f] \in {"none", "read", "poll"} /\ at[f] \in 0..NumChn
         /\ room[f] \in 0..MaxRoom /\ copied[f] \in BOOLEAN
         /\ ev[f] \in Events \cup {NoEvent}
         /\ pc[f] \in {"pop", "copy"} => op[f] = "read"
         /\ pc[f] \in {"check", "asleep"} => op[f] \in {"read", "poll"}
         /\ op[f] = "read" => room[f] \in 1..MaxRoom
  BY DEF Steady, FileInv, FileTypes, InCall

\* A walk begins with no channel behind it that the file subscribes to.
LEMMA WalkIs ==
  ASSUME Steady, NEW f \in Files
  PROVE  /\ FromChn(f, 0) \in 0..NumChn
         /\ \A c \in mask[f].chn : ~(c < FromChn(f, 0))
  <1>1. 0 \in 0..NumChn OBVIOUS
  <1>2. /\ FromChn(f, 0) \in 0..NumChn
        /\ \A b \in 0..(FromChn(f, 0) - 1) : b \notin mask[f].chn
    BY <1>1, FromChnIs
  <1>3. mask[f].chn \subseteq Chns BY MaskTypes DEF Steady, FileInv
  <1>4. \A c \in mask[f].chn : c < FromChn(f, 0) => c \in 0..(FromChn(f, 0) - 1)
    BY <1>2, <1>3 DEF Chns
  <1> QED BY <1>2, <1>4

LEMMA QuietStill ==
  ASSUME UNCHANGED <<head, tail, pushing>>
  PROVE  \A c \in Chns : Quiet(c) => Quiet(c)'
  BY DEF Quiet, RingEmpty

\* Back to user mode.
LEMMA SteadyReturn ==
  ASSUME Steady, NEW f \in Files, Return(f), Stay(f), UNCHANGED coalesced
  PROVE  Steady'
  <1>1. Moves(f, "user", "none", 0, 0, FALSE, NoEvent) BY DEF Return, Moves
  <1>2. woken' = woken \ {f} BY DEF Return
  <1>3. UNCHANGED <<coalesced, pushing, mask, head, tail>> BY DEF Stay, ringVars
  <1>4. \A c \in Chns : Quiet(c) => Quiet(c)' BY <1>3, QuietStill
  <1>5. 0 \in 0..NumChn /\ 0 \in 0..MaxRoom OBVIOUS
  <1>6. \A b \in BOOLEAN : \A a, r, e :
          /\ Moves(f, "user", "none", a, r, b, e) /\ a \in 0..NumChn /\ r \in 0..MaxRoom
          /\ e \in Events \cup {NoEvent}
          => Steady'
    BY <1>2, <1>3, <1>4, SteadyMove
  <1>7. FALSE \in BOOLEAN /\ NoEvent \in Events \cup {NoEvent} OBVIOUS
  <1> QED BY <1>1, <1>5, <1>6, <1>7

\* A thread begins to look.
LEMMA SteadyLook ==
  ASSUME Steady, NEW f \in Files, Look(f), Stay(f),
         NEW o \in {"read", "poll"}, op' = [op EXCEPT ![f] = o],
         o = "read" => op[f] = "read", UNCHANGED <<room, copied, ev>>
  PROVE  Steady'
  <1>1. Moves(f, "check", o, FromChn(f, 0), room[f], copied[f], ev[f])
    BY Stays DEF Look, Walk, Moves, Steady, FileInv
  <1>2. woken' = woken \ {f} BY DEF Look
  <1>3. UNCHANGED <<coalesced, pushing, mask, head, tail>> BY DEF Stay, ringVars
  <1>4. \A c \in Chns : Quiet(c) => Quiet(c)' BY <1>3, QuietStill
  <1>5. FromChn(f, 0) \in 0..NumChn /\ \A c \in mask[f].chn : ~(c < FromChn(f, 0))
    BY WalkIs
  <1>6. /\ room[f] \in 0..MaxRoom /\ copied[f] \in BOOLEAN /\ ev[f] \in Events \cup {NoEvent}
        /\ o = "read" => room[f] \in 1..MaxRoom
    BY Own
  <1>7. /\ o \in {"none", "read", "poll"}
        /\ "check" \in {"user", "pop", "copy", "check", "asleep"}
        /\ "check" \notin {"pop", "copy"} /\ "check" # "asleep"
    OBVIOUS
  <1>8. \A a, r, b, e :
          /\ Moves(f, "check", o, a, r, b, e) /\ a \in 0..NumChn /\ r \in 0..MaxRoom
          /\ b \in BOOLEAN /\ e \in Events \cup {NoEvent} /\ (o = "read" => r \in 1..MaxRoom)
          /\ \A c \in mask[f].chn : ~(c < a)
          => Steady'
    BY <1>2, <1>3, <1>4, <1>7, SteadyMove
  <1> QED BY <1>1, <1>5, <1>6, <1>8

\* A thread that takes events, in read(2).
LEMMA SteadyPop ==
  ASSUME Steady, NEW f \in Files, NEW l \in {"pop", "copy"},
         NEW a \in 0..NumChn, NEW r \in 1..MaxRoom, NEW b \in BOOLEAN,
         NEW e \in Events \cup {NoEvent}, Moves(f, l, "read", a, r, b, e),
         UNCHANGED <<coalesced, pushing, mask>>,
         woken' = woken \/ woken' = woken \ {f},
         \A c \in Chns : Quiet(c) => Quiet(c)'
  PROVE  Steady'
  <1>1. l \in {"user", "pop", "copy", "check", "asleep"} /\ l \notin {"check", "asleep"}
        /\ "read" \in {"none", "read", "poll"} /\ r \in 0..MaxRoom
    OBVIOUS
  <1>2. \A o : Moves(f, l, o, a, r, b, e) /\ o \in {"none", "read", "poll"} /\ o = "read"
               => Steady'
    BY <1>1, SteadyMove
  <1> QED BY <1>1, <1>2

\* A thread on the wait queue goes on looking, or falls asleep.
LEMMA SteadyWait ==
  ASSUME Steady, NEW f \in Files, NEW l \in {"check", "asleep"}, NEW a \in 0..NumChn,
         Moves(f, l, op[f], a, room[f], copied[f], ev[f]), pc[f] = "check",
         UNCHANGED <<coalesced, pushing, mask, woken, head, tail>>,
         l = "asleep" => a = NumChn,
         f \notin woken => \A c \in mask[f].chn : c < a => Quiet(c)
  PROVE  Steady'
  <1>1. \A c \in Chns : Quiet(c) => Quiet(c)' BY QuietStill
  <1>2. l \in {"user", "pop", "copy", "check", "asleep"} /\ l \notin {"pop", "copy"} OBVIOUS
  <1>3. \A o, r, b, e :
          /\ Moves(f, l, o, a, r, b, e) /\ o \in {"read", "poll"} /\ r \in 0..MaxRoom
          /\ b \in BOOLEAN /\ e \in Events \cup {NoEvent} /\ (o = "read" => r \in 1..MaxRoom)
          => Steady'
    BY <1>1, <1>2, SteadyMove
  <1> QED BY <1>3, Own

LEMMA SteadyRead ==
  ASSUME Steady, NEW f \in Files, Read(f) PROVE Steady'
  <1>1. PICK n \in 1..MaxRoom : room' = [room EXCEPT ![f] = n] BY DEF Read
  <1>2. Moves(f, "pop", "read", FromChn(f, 0), n, copied[f], ev[f])
    BY <1>1, Stays DEF Read, Walk, Moves, Steady, FileInv
  <1>3. UNCHANGED <<coalesced, pushing, mask, head, tail, woken>>
    BY DEF Read, Stay, ringVars
  <1>4. \A c \in Chns : Quiet(c) => Quiet(c)' BY <1>3, QuietStill
  <1>5. FromChn(f, 0) \in 0..NumChn /\ copied[f] \in BOOLEAN /\ ev[f] \in Events \cup {NoEvent}
    BY WalkIs, Own
  <1> QED BY <1>2, <1>3, <1>4, <1>5, SteadyPop

LEMMA SteadyCopy ==
  ASSUME Steady, NEW f \in Files, Copy(f) PROVE Steady'
  <1>1. Stay(f) /\ UNCHANGED <<coalesced, pushing, mask, head, tail>>
    BY DEF Copy, Stay, ringVars
  <1>2. CASE room[f] = 1 BY <1>1, <1>2, SteadyReturn DEF Copy
  <1>3. CASE room[f] # 1
    <2>1. op[f] = "read" /\ room[f] \in 1..MaxRoom BY Own DEF Copy
    <2>2. Moves(f, "pop", op[f], FromChn(f, 0), room[f] - 1, TRUE, NoEvent)
      BY <1>3, Stays DEF Copy, Walk, Moves, Steady, FileInv
    <2>3. \A c \in Chns : Quiet(c) => Quiet(c)' BY <1>1, QuietStill
    <2>4. room[f] - 1 \in 1..MaxRoom /\ FromChn(f, 0) \in 0..NumChn BY <1>3, <2>1, WalkIs
    <2>5. woken' = woken BY <1>3 DEF Copy
    <2>6. \A a, r, e : \A b \in BOOLEAN :
            /\ Moves(f, "pop", "read", a, r, b, e) /\ a \in 0..NumChn /\ r \in 1..MaxRoom
            /\ e \in Events \cup {NoEvent}
            => Steady'
      BY <1>1, <2>3, <2>5, SteadyPop
    <2>7. TRUE \in BOOLEAN /\ NoEvent \in Events \cup {NoEvent} OBVIOUS
    <2> QED BY <2>1, <2>2, <2>4, <2>6, <2>7
  <1> QED BY <1>2, <1>3

LEMMA SteadyCheck ==
  ASSUME Steady, NEW f \in Files, CheckHit(f) \/ CheckMiss(f) \/ CheckEnd(f) PROVE Steady'
  <1>1. Stay(f) /\ UNCHANGED <<coalesced, pushing, mask, head, tail>> /\ pc[f] = "check"
    BY DEF CheckHit, CheckMiss, CheckEnd, Stay, ringVars
  <1>2. /\ op[f] \in {"read", "poll"} /\ at[f] \in 0..NumChn /\ room[f] \in 0..MaxRoom
        /\ copied[f] \in BOOLEAN /\ ev[f] \in Events \cup {NoEvent}
        /\ op[f] = "read" => room[f] \in 1..MaxRoom
    BY <1>1, Own
  <1>3. \A c \in Chns : Quiet(c) => Quiet(c)' BY <1>1, QuietStill
  <1>4. FileTypes BY DEF Steady, FileInv
  <1>5. f \notin woken => \A c \in mask[f].chn : c < at[f] => Quiet(c)
    BY <1>1 DEF Steady, Watch
  <1>6. CASE CheckHit(f) /\ op[f] = "poll" BY <1>1, <1>6, SteadyReturn DEF CheckHit
  <1>7. CASE CheckHit(f) /\ op[f] # "poll"
    <2>1. Moves(f, "pop", op[f], FromChn(f, 0), room[f], copied[f], ev[f])
          /\ woken' = woken \ {f}
      BY <1>4, <1>7, Stays DEF CheckHit, Walk, Moves
    <2>2. FromChn(f, 0) \in 0..NumChn BY WalkIs
    <2> QED BY <1>1, <1>2, <1>3, <1>7, <2>1, <2>2, SteadyPop
  <1>8. CASE CheckMiss(f)
    <2> DEFINE a == FromChn(f, at[f] + 1)
    <2>1. Moves(f, "check", op[f], a, room[f], copied[f], ev[f]) /\ woken' = woken
      BY <1>4, <1>8, Stays DEF CheckMiss, Moves
    <2>2. at[f] < NumChn /\ RingEmpty(at[f]) BY <1>8 DEF CheckMiss
    <2>3. at[f] + 1 \in 0..NumChn BY <1>2, <2>2
    <2>4. a \in (at[f] + 1)..NumChn /\ \A b \in (at[f] + 1)..(a - 1) : b \notin mask[f].chn
      BY <2>3, FromChnIs
    <2> HIDE DEF a
    <2>5. ASSUME f \notin woken, NEW c \in mask[f].chn, c < a PROVE Quiet(c)
      <3>1. c \in Nat BY <1>4, MaskTypes DEF Chns
      <3>2. c < at[f] \/ c = at[f] BY <1>2, <2>3, <2>4, <2>5, <3>1
      <3> QED BY <1>5, <2>2, <2>5, <3>2 DEF Quiet
    <2>6. a \in 0..NumChn BY <1>2, <2>3, <2>4
    <2> QED BY <1>1, <2>1, <2>5, <2>6, SteadyWait
  <1>9. CASE CheckEnd(f) /\ f \in woken
    <2>1. op' = [op EXCEPT ![f] = op[f]] BY <1>4, <1>9, Stays DEF CheckEnd, Sleep
    <2>2. Look(f) /\ UNCHANGED <<room, copied, ev>> BY <1>9 DEF CheckEnd, Sleep
    <2> QED BY <1>1, <1>2, <2>1, <2>2, SteadyLook
  <1>10. CASE CheckEnd(f) /\ f \notin woken
    <2>1. Moves(f, "asleep", op[f], at[f], room[f], copied[f], ev[f]) /\ woken' = woken
      BY <1>4, <1>10, Stays DEF CheckEnd, Sleep, Moves
    <2>2. at[f] = NumChn BY <1>10 DEF CheckEnd
    <2> QED BY <1>1, <1>2, <1>5, <2>1, <2>2, SteadyWait
  <1> QED BY <1>6, <1>7, <1>8, <1>9, <1>10

LEMMA SteadyTake ==
  ASSUME RingInv, Steady, NEW f \in Files, PopFound(f) \/ PopNone(f) PROVE Steady'
  <1>1. pc[f] = "pop" /\ UNCHANGED <<coalesced, pushing, mask, head, woken>>
    BY DEF PopFound, PopNone
  <1>2. /\ op[f] = "read" /\ at[f] \in 0..NumChn /\ room[f] \in 1..MaxRoom
        /\ copied[f] \in BOOLEAN /\ ev[f] \in Events \cup {NoEvent}
    BY <1>1, Own
  <1>3. FileTypes BY DEF Steady, FileInv
  <1>4. CASE PopFound(f)
    <2> DEFINE e == Queue(at[f])[Skip(f, at[f]) + 1]
    <2>1. /\ at[f] \in Chns /\ Skip(f, at[f]) + 1 \in 1..Count(at[f]) /\ e \in Events
          /\ ev' = [ev EXCEPT ![f] = e] /\ \A c : c # at[f] => tail'[c] = tail[c] \/ c \notin Chns
      <3>1. /\ at[f] \in Chns /\ Skip(f, at[f]) + 1 \in 1..Count(at[f]) /\ e \in Events
            /\ ev' = [ev EXCEPT ![f] = e]
            /\ tail' = [tail EXCEPT ![at[f]] = (@ + (Skip(f, at[f]) + 1)) % Depth]
        BY <1>3, <1>4, FoundIs
      <3>2. tail \in [Chns -> Slots] BY DEF RingInv, RingTypes
      <3> QED BY <3>1, <3>2
    <2> HIDE DEF e
    <2>2. ~RingEmpty(at[f]) BY <2>1, RingHolds
    <2>3. \A c \in Chns : Quiet(c) => Quiet(c)'
      BY <1>1, <2>1, <2>2 DEF Quiet, RingEmpty
    <2>4. Moves(f, "copy", op[f], at[f], room[f], copied[f], e)
      BY <1>3, <1>4, <2>1, Stays DEF PopFound, Moves
    <2> QED BY <1>1, <1>2, <2>1, <2>3, <2>4, SteadyPop
  <1>5. CASE PopNone(f)
    <2>1. at[f] \in Chns /\ tail' = [tail EXCEPT ![at[f]] = head[at[f]]]
      BY <1>3, <1>5, NoneIs
    <2>2. tail \in [Chns -> Slots] BY DEF RingInv, RingTypes
    <2>3. \A c \in Chns : Quiet(c) => Quiet(c)'
      BY <1>1, <2>1, <2>2 DEF Quiet, RingEmpty
    <2>4. Moves(f, "pop", op[f], FromChn(f, at[f] + 1), room[f], copied[f], ev[f])
      BY <1>3, <1>5, Stays DEF PopNone, Moves
    <2>5. at[f] + 1 \in 0..NumChn BY <2>1 DEF Chns
    <2>6. FromChn(f, at[f] + 1) \in 0..NumChn BY <2>5, FromChnIs
    <2> QED BY <1>1, <1>2, <2>3, <2>4, <2>6, SteadyPop
  <1> QED BY <1>4, <1>5

LEMMA SteadyCall ==
  ASSUME Steady, NEW f \in Files,
         PopEnd(f) \/ Wakes(f) \/ Poll(f) \/ CopyFault(f) \/ Interrupted(f)
  PROVE  Steady'
  <1>1. Stay(f) /\ UNCHANGED coalesced
    BY DEF PopEnd, Wakes, Poll, CopyFault, Interrupted, Stay, ringVars
  <1>2. CASE Return(f) BY <1>1, <1>2, SteadyReturn
  <1>3. CASE ~Return(f)
    <2>1. Look(f) /\ UNCHANGED <<room, copied, ev>>
      BY <1>3 DEF PopEnd, Wakes, Poll, CopyFault, Interrupted
    <2>2. CASE Poll(f)
      <3>1. op' = [op EXCEPT ![f] = "poll"] BY <2>2 DEF Poll
      <3>2. \A o \in {"read", "poll"} : op' = [op EXCEPT ![f] = o] /\ o # "read" => Steady'
        BY <1>1, <2>1, SteadyLook
      <3> QED BY <3>1, <3>2
    <2>3. CASE ~Poll(f)
      <3>1. op' = op /\ pc[f] \in {"pop", "asleep"}
        BY <1>3, <2>3 DEF PopEnd, Wakes, CopyFault, Interrupted
      <3>2. op[f] \in {"read", "poll"} BY <3>1, Own
      <3>3. op' = [op EXCEPT ![f] = op[f]] BY <3>1, Stays DEF Steady, FileInv
      <3> QED BY <1>1, <2>1, <3>2, <3>3, SteadyLook
    <2> QED BY <2>2, <2>3
  <1> QED BY <1>2, <1>3

LEMMA SteadyMask ==
  ASSUME Steady, NEW f \in Files, SetMask(f) PROVE Steady'
  <1>1. PICK m \in Masks : mask' = [mask EXCEPT ![f] = m] BY DEF SetMask
  <1>2. pc[f] = "user" /\ UNCHANGED <<head, tail, coalesced, pushing, pc, op, at, room, copied, ev, woken>>
    BY DEF SetMask, ringVars, callVars
  <1>3. FileTypes' BY <1>1, <1>2 DEF Steady, FileInv, FileTypes
  <1>4. InCall' BY <1>2 DEF Steady, FileInv, InCall
  <1>5. \A g \in Files : g # f => mask'[g] = mask[g]
    BY <1>1 DEF Steady, FileInv, FileTypes
  <1>6. Watch'
    <2>1. \A c : Quiet(c)' <=> Quiet(c) BY <1>2 DEF Quiet, RingEmpty
    <2> QED BY <1>2, <1>5, <2>1 DEF Steady, Watch
  <1> QED BY <1>3, <1>4, <1>6 DEF Steady, FileInv

\* Interrupt handlers change no file's state but who is woken.
LEMMA SteadyPush ==
  ASSUME RingInv, Steady, NEW s \in Sources,
         PushEvent(s[1], s[2]) \/ PushCoalesced(s[1], s[2]) \/ PushWake(s[1], s[2])
  PROVE  Steady'
  <1> DEFINE c == s[1]
             t == s[2]
  <1>1. c \in Chns /\ t \in Types /\ <<c, t>> = s BY DEF Chns
  <1>2. UNCHANGED <<mask, pc, op, at, room, copied, ev>>
    BY DEF PushEvent, PushCoalesced, PushWake, callVars, ringVars
  <1>3. InCall' BY <1>2 DEF Steady, FileInv, InCall
  <1> HIDE DEF c, t
  <1>4. coalesced' \in [Chns -> [Types -> 0..MaxOver]]
    <2>1. coalesced \in [Chns -> [Types -> 0..MaxOver]] BY DEF Steady, FileInv, FileTypes
    <2>2. CASE PushCoalesced(c, t)
      <3>1. /\ coalesced[c] \in [Types -> 0..MaxOver] /\ coalesced[c][t] \in 0..MaxOver
            /\ coalesced[c][t] < MaxOver
            /\ coalesced' = [coalesced EXCEPT ![c][t] = @ + 1]
        BY <1>1, <2>1, <2>2 DEF PushCoalesced
      <3>2. coalesced[c][t] + 1 \in 0..MaxOver BY <3>1
      <3> QED BY <1>1, <2>1, <3>1, <3>2
    <2>3. CASE ~PushCoalesced(c, t)
      <3>1. coalesced' = coalesced BY <2>3 DEF PushEvent, PushWake, ringVars, c, t
      <3> QED BY <2>1, <3>1
    <2> QED BY <2>2, <2>3
  <1>5. pushing' \subseteq Sources /\ woken' \subseteq Files
    BY <1>1 DEF PushEvent, PushCoalesced, PushWake, Steady, FileInv, FileTypes, Waiting, c, t
  <1>6. FileTypes' BY <1>2, <1>4, <1>5 DEF Steady, FileInv, FileTypes
  <1>7. CASE PushWake(c, t)
    <2>1. \A f \in Files : pc[f] \in {"check", "asleep"} => f \in woken'
      BY <1>7 DEF PushWake, Waiting
    <2>2. Watch' BY <1>2, <2>1 DEF Steady, Watch
    <2> QED BY <1>3, <1>6, <2>2 DEF Steady, FileInv
  <1>8. CASE PushCoalesced(c, t)
    <2>1. UNCHANGED <<head, tail, pushing, woken>> BY <1>8 DEF PushCoalesced
    <2>2. \A d : Quiet(d)' <=> Quiet(d) BY <2>1 DEF Quiet, RingEmpty
    <2>3. Watch' BY <1>2, <2>1, <2>2 DEF Steady, Watch
    <2> QED BY <1>3, <1>6, <2>3 DEF Steady, FileInv
  <1>9. CASE PushEvent(c, t)
    <2>1. /\ head' = [head EXCEPT ![c] = Next1(@)] /\ woken' = woken
          /\ pushing' = pushing \cup {<<c, t>>} /\ MakeRoom(c)
      BY <1>9 DEF PushEvent
    <2>2. head \in [Chns -> Slots] /\ tail \in [Chns -> Slots] BY DEF RingInv, RingTypes
    <2>3. \A d \in Chns : d # c => tail'[d] = tail[d] /\ head'[d] = head[d]
      BY <2>1, <2>2 DEF MakeRoom
    <2>4. \A d \in Chns : Quiet(d) => Quiet(d)'
      BY <1>1, <2>1, <2>3 DEF Quiet, RingEmpty
    <2>5. \A f \in Files : mask[f].chn \subseteq Chns BY MaskTypes DEF Steady, FileInv
    <2>6. Watch' BY <1>2, <2>1, <2>4, <2>5 DEF Steady, Watch
    <2> QED BY <1>3, <1>6, <2>6 DEF Steady, FileInv
  <1> QED BY <1>7, <1>8, <1>9 DEF c, t

LEMMA SteadyStep ==
  ASSUME RingInv, Steady, [Next]_vars PROVE Steady'
  <1>1. CASE UNCHANGED vars
    <2>1. UNCHANGED <<head, tail, coalesced, pushing, mask, pc, op, at, room, copied, ev, woken>>
      BY <1>1 DEF vars, ringVars, callVars
    <2>2. FileInv' BY <2>1 DEF Steady, FileInv, FileTypes, InCall
    <2>3. \A c : Quiet(c)' <=> Quiet(c) BY <2>1 DEF Quiet, RingEmpty
    <2>4. Watch' BY <2>1, <2>3 DEF Steady, Watch
    <2> QED BY <2>2, <2>4 DEF Steady
  <1>2. CASE Handlers BY <1>2, SteadyPush DEF Handlers
  <1>3. ASSUME NEW f \in Files, Proceeds(f) \/ Calls(f) PROVE Steady'
    BY <1>3, SteadyTake, SteadyCopy, SteadyCheck, SteadyCall, SteadyRead, SteadyMask
    DEF Proceeds, Calls
  <1> QED BY <1>1, <1>2, <1>3 DEF Next

Inv == RingInv /\ Steady

LEMMA AlwaysInv == Spec => []Inv
  <1>1. Init => Inv
    <2> SUFFICES ASSUME Init PROVE Inv OBVIOUS
    <2>1. \A f \in Files : pc[f] = "user" BY DEF Init
    <2>2. Watch BY <2>1 DEF Watch
    <2> QED BY <2>2, RingInit, FileInit DEF Inv, Steady
  <1>2. Inv /\ [Next]_vars => Inv'
    BY RingStep, SteadyStep DEF Inv, Steady, FileInv
  <1> QED BY <1>1, <1>2, PTL DEF Spec

-----------------------------------------------------------------------------
(* Results *)

\* Every variable keeps its type, and what a ring's queue holds are events that
\* occurred, never a slot openipc_frame_ts_push has not filled.
THEOREM TypeCorrect == Spec => []TypeOK
  <1>1. Inv => TypeOK
    <2> SUFFICES ASSUME Inv PROVE TypeOK OBVIOUS
    <2>1. RingTypes /\ FileTypes BY DEF Inv, RingInv, Steady, FileInv
    <2>2. \A c \in Chns : \A i \in 1..Count(c) : Queue(c)[i] \in Events
      BY RingHolds DEF Inv
    <2>3. \A c \in Chns : slot[c] \in [0..RingMask -> Events \cup {NoEvent}]
      BY <2>1 DEF RingTypes, Slots
    <2> QED BY <2>1, <2>2, <2>3 DEF TypeOK, RingTypes, FileTypes, Numbering, Slots
  <1> QED BY <1>1, AlwaysInv, PTL

\* No thread sleeps in read(2) or poll(2) on a channel that has an event unless
\* the handler that recorded it is about to wake the queue.
THEOREM WakeupsReach == Spec => []NoLostWakeup
  <1>1. Inv => NoLostWakeup
    <2> SUFFICES ASSUME Inv, NEW f \in Files, pc[f] = "asleep", f \notin woken,
                        NEW c \in mask[f].chn
                 PROVE  Quiet(c)
      BY DEF NoLostWakeup, Quiet
    <2>1. c \in Chns BY MaskTypes DEF Inv, Steady, FileInv
    <2>2. c < at[f] BY <2>1 DEF Inv, Steady, Watch, Chns
    <2> QED BY <2>2 DEF Inv, Steady, Watch
  <1> QED BY <1>1, AlwaysInv, PTL

\* Every event recorded is in its ring, was taken from it once, or is counted
\* in what OPENIPC_FT_IOC_GET_DROPPED reports.
THEOREM EventsAccounted == Spec => []Accounted
  <1>1. Inv => Accounted
    <2> SUFFICES ASSUME Inv PROVE Accounted OBVIOUS
    <2>1. ASSUME NEW c \in Chns
          PROVE  /\ Keeps(c, taken, Queue(c), Count(c), seq[c], dropped[c])
                 /\ \A i \in 1..Count(c) : Queue(c)[i] \in Events /\ Queue(c)[i].chn = c
      BY RingHolds DEF Inv, RingInv, RingOK
    <2>2. \A e : e \in InRings <=> \E c \in Chns : \E i \in 1..Count(c) : e = Queue(c)[i]
      BY DEF InRings
    <2>3. ASSUME NEW e \in InRings, e \in taken PROVE FALSE
      <3>1. PICK c \in Chns : \E i \in 1..Count(c) : e = Queue(c)[i] BY <2>2
      <3>2. PICK i \in 1..Count(c) : e = Queue(c)[i] BY <3>1
      <3>3. e \in Events /\ e.chn = c BY <2>1, <3>2
      <3>4. e.seq < e.seq BY <2>1, <2>3, <3>2, <3>3 DEF Keeps, After
      <3> QED BY <3>3, <3>4, EventTypes
    <2>4. ASSUME NEW c \in Chns
          PROVE  Recorded(c) \ (InRings \cup taken)
                   = LostFrom(c, taken, Queue(c), Count(c), seq[c])
      <3>1. ASSUME NEW e \in Events, e.chn = c
            PROVE  e \in InRings <=> \E i \in 1..Count(c) : Queue(c)[i] = e
        <4>1. ASSUME NEW d \in Chns, NEW i \in 1..Count(d), e = Queue(d)[i]
              PROVE  d = c
          BY <2>1, <3>1, <4>1
        <4> QED BY <2>2, <4>1
      <3> QED BY <3>1 DEF Recorded, LostFrom
    <2> QED BY <2>1, <2>3, <2>4 DEF Accounted, Keeps
  <1> QED BY <1>1, AlwaysInv, PTL

\* A set of numbers below n that has every number from its least to n.
LEMMA Interval ==
  ASSUME NEW n \in Nat, NEW S \in SUBSET Nat, \A x \in S : x < n,
         \A x \in S : \A y \in Nat : x <= y /\ y < n => y \in S
  PROVE  S = (n - Cardinality(S))..(n - 1)
  <1>1. CASE S = {}
    <2>1. Cardinality(S) = 0 BY <1>1, FS_EmptySet
    <2> QED BY <1>1, <2>1
  <1>2. CASE S # {}
    <2>1. PICK x \in S : \A y \in S : x <= y BY <1>2, Least
    <2>2. S = x..(n - 1)
      <3>1. \A y \in S : y \in x..(n - 1) BY <2>1
      <3>2. \A y \in x..(n - 1) : y \in S
        <4>1. x \in Nat /\ \A y \in x..(n - 1) : y \in Nat /\ x <= y /\ y < n BY <2>1
        <4> QED BY <2>1, <4>1
      <3> QED BY <3>1, <3>2
    <2>3. Cardinality(x..(n - 1)) = IF x > n - 1 THEN 0 ELSE n - 1 - x + 1
      BY FS_Interval
    <2>4. Cardinality(S) = n - x BY <2>1, <2>2, <2>3
    <2>5. n - (n - x) = x BY <2>1
    <2> QED BY <2>2, <2>4, <2>5
  <1> QED BY <1>1, <1>2

\* A ring holds the newest events of each type, oldest first and without a gap.
THEOREM RingsInOrder == Spec => []NewestInOrder
  <1>1. Inv => NewestInOrder
    <2> SUFFICES ASSUME Inv, NEW c \in Chns
                 PROVE  /\ \A i, k \in 1..Count(c) :
                             i < k /\ Queue(c)[i].type = Queue(c)[k].type
                               => Queue(c)[i].seq < Queue(c)[k].seq
                        /\ \A t \in Types : Numbers(c, t)
                             = (seq[c][t] - Cardinality(Numbers(c, t)))..(seq[c][t] - 1)
      BY DEF NewestInOrder
    <2>1. Sound(c, Queue(c), Count(c), seq[c]) BY DEF Inv, RingInv, RingOK, Keeps
    <2>2. ASSUME NEW t \in Types
          PROVE  Numbers(c, t) = (seq[c][t] - Cardinality(Numbers(c, t)))..(seq[c][t] - 1)
      <3> DEFINE S == Numbers(c, t)
                 n == seq[c][t]
      <3>1. n \in Nat BY DEF Inv, RingInv, RingTypes, Numbering
      <3>2. \A x : x \in S <=> \E i \in 1..Count(c) : Queue(c)[i].type = t /\ Queue(c)[i].seq = x
        BY DEF Numbers
      <3>3. S \in SUBSET Nat /\ \A x \in S : x < n
        BY <2>1, <3>2, EventTypes DEF Sound
      <3>4. ASSUME NEW x \in S, NEW y \in Nat, x <= y, y < n PROVE y \in S
        <4>1. PICK i \in 1..Count(c) : Queue(c)[i].type = t /\ Queue(c)[i].seq = x BY <3>2
        <4>2. \E k \in 1..Count(c) : Queue(c)[k].type = Queue(c)[i].type /\ Queue(c)[k].seq = y
          BY <2>1, <3>4, <4>1 DEF Sound
        <4> QED BY <3>2, <4>1, <4>2
      <3> HIDE DEF S, n
      <3>5. S = (n - Cardinality(S))..(n - 1) BY <3>1, <3>3, <3>4, Interval
      <3> QED BY <3>5 DEF S, n
    <2> QED BY <2>1, <2>2 DEF Sound
  <1> QED BY <1>1, AlwaysInv, PTL

\* pop_one gives a file only what it subscribes to, and never an event of a
\* type on a channel after any file was given a later one.
THEOREM ReadsInOrder == Spec => ReadInOrder
  <1> DEFINE InOrder == \A f \in Files : TakesFor(f) =>
       /\ Passes(f, ev'[f])
       /\ \A e \in taken : e.chn = ev'[f].chn /\ e.type = ev'[f].type => e.seq < ev'[f].seq
  <1>1. Inv /\ [Next]_vars => [InOrder]_vars
    <2> SUFFICES ASSUME Inv, Next, NEW f \in Files, ev'[f] # ev[f], ev'[f] # NoEvent
                 PROVE  /\ Passes(f, ev'[f])
                        /\ \A e \in taken : e.chn = ev'[f].chn /\ e.type = ev'[f].type
                                              => e.seq < ev'[f].seq
      BY DEF TakesFor
    <2>1. ev \in [Files -> Events \cup {NoEvent}] BY DEF Inv, Steady, FileInv, FileTypes
    <2>2. \E g \in Files : PopFound(g) \/ Return(g) \/ ev' = [ev EXCEPT ![g] = NoEvent]
      BY DEF Next, Handlers, PushEvent, PushCoalesced, PushWake, Proceeds, Calls, PopNone,
             PopEnd, Copy, CheckHit, CheckMiss, CheckEnd, Sleep, Wakes, Read, Poll, SetMask,
             CopyFault, Interrupted, callVars
    <2>3. PICK g \in Files : PopFound(g) \/ ev' = [ev EXCEPT ![g] = NoEvent]
      BY <2>2 DEF Return
    <2>4. PopFound(g) BY <2>1, <2>3
    <2> DEFINE c == at[g]
               n == Skip(g, c) + 1
    <2>5. /\ c \in Chns /\ n \in 1..Count(c) /\ Queue(c)[n] \in Events
          /\ ev' = [ev EXCEPT ![g] = Queue(c)[n]] /\ Passes(g, Queue(c)[n])
      BY <2>4, FoundIs DEF Inv, Steady, FileInv
    <2> HIDE DEF c, n
    <2>6. f = g /\ ev'[f] = Queue(c)[n] BY <2>1, <2>5
    <2>7. /\ After(c, taken, Queue(c), Count(c), seq[c])
          /\ Queue(c)[n].chn = c
      BY <2>5, RingHolds DEF Inv, RingInv, RingOK, Keeps
    <2> QED BY <2>5, <2>6, <2>7 DEF After
  <1> QED BY <1>1, AlwaysInv, PTL DEF Spec, ReadInOrder
=============================================================================
