--------------------------- MODULE OrphansProofs ----------------------------
(***************************************************************************)
(* Proofs about OsalDevice and IspOrphans, for any number of files,        *)
(* processes and blocks: osal_users counts the open files, the hook of the *)
(* last close runs alone and takes no reference of a live process, and     *)
(* when it is done no USER reference is left.                              *)
(***************************************************************************)
EXTENDS IspOrphans, FiniteSetTheorems, TLAPS

USE OsalAssumption

\* The device's own invariant
DevInv == DevTypeOK /\ UsersIsCount /\ HookAlone

\* The video buffer's counts and the walk have their kind.
WalkTypeOK ==
  /\ user \in [Blocks -> Nat]
  /\ held \in [Procs -> [Blocks -> Nat]]
  /\ walk \in [todo : SUBSET Blocks, b : Blocks \cup {Nobody}, n : Nat]

\* A process without an open file holds nothing.
HoldersOpen == \A p \in Procs : FilesOf(p) = {} => HoldsNone(p)

\* The walk has left nothing behind it, save on the block it is on; it is
\* nowhere when the hook does not run.
WalkLeavesNone ==
  /\ walk.n > 0 => walk.b \in Blocks \ walk.todo
  /\ usersLock = Nobody => walk = Nowhere
  /\ usersLock # Nobody =>
       \A b \in Blocks \ walk.todo : user[b] = IF b = walk.b THEN walk.n ELSE 0

-----------------------------------------------------------------------------
(* The device's steps *)

\* The files counted are finitely many.
LEMMA CountedFinite ==
  IsFiniteSet(Counted) /\ Cardinality(Counted) \in Nat
  <1>1. Counted \in SUBSET Files
    BY DEF Counted
  <1>. QED
    BY <1>1, FS_Subset, FS_CardinalityType

\* The hook runs in the file that holds the lock, and counts no more.
LEMMA HookIsNotCounted ==
  ASSUME DevTypeOK, NEW f \in Files, st[f] = "hook"
  PROVE  f \notin Counted /\ usersLock = f /\ usersLock # Nobody
  BY DEF DevTypeOK, Counted

\* osal_open counts its file; nobody holds the lock.
LEMMA OpenKeeps ==
  ASSUME DevInv, NEW p \in Procs, NEW f \in Files, Open(p, f)
  PROVE  DevInv'
  <1>. USE DEF DevInv, Open, To
  <1>1. DevTypeOK'
    BY DEF DevTypeOK, States
  <1>2. Counted' = Counted \cup {f} /\ f \notin Counted
    BY DEF DevTypeOK, Counted
  <1>3. UsersIsCount'
    BY <1>2, CountedFinite, FS_AddElement DEF UsersIsCount
  <1>4. HookAlone'
    BY DEF HookAlone
  <1>. QED
    BY <1>1, <1>3, <1>4

\* osal_release before osal_user_put counts nothing.
LEMMA ReleaseKeeps ==
  ASSUME DevInv, NEW f \in Files, st[f] \in {"open", "exiting"}, Release(f)
  PROVE  DevInv'
  <1>. USE DEF DevInv, Release, To
  <1>1. DevTypeOK'
    BY DEF DevTypeOK, States
  <1>2. Counted' = Counted
    BY DEF DevTypeOK, Counted
  <1>. QED
    BY <1>1, <1>2 DEF UsersIsCount, HookAlone

\* osal_user_put counts its file down, and takes the lock over the hook only
\* when it was the last.
LEMMA UserPutKeeps ==
  ASSUME DevInv, NEW f \in Files, UserPut(f)
  PROVE  DevInv'
  <1>. USE DEF DevInv, UserPut, To
  <1>1. f \in Counted /\ Counted' = Counted \ {f}
    BY DEF DevTypeOK, Counted
  <1>2. users > 0 /\ users' = users - 1 /\ users' = Cardinality(Counted')
    <2>1. Cardinality(Counted) # 0
      BY <1>1, CountedFinite, FS_EmptySet
    <2>2. Cardinality(Counted') = Cardinality(Counted) - 1
      BY <1>1, CountedFinite, FS_RemoveElement
    <2>. QED
      BY <2>1, <2>2, CountedFinite DEF UsersIsCount
  <1>3. DevTypeOK'
    BY <1>2 DEF DevTypeOK, States
  <1>4. HookAlone'
    <2>1. SUFFICES ASSUME usersLock' # Nobody PROVE Counted' = {}
      BY DEF HookAlone
    <2>2. users = 1
      BY <2>1
    <2>3. IsFiniteSet(Counted')
      BY <1>1, CountedFinite, FS_RemoveElement
    <2>. QED
      BY <1>2, <2>2, <2>3, FS_EmptySet
  <1>. QED
    BY <1>2, <1>3, <1>4 DEF UsersIsCount

\* The hook returns.
LEMMA HookReturnsKeeps ==
  ASSUME DevInv, NEW f \in Files, HookReturns(f)
  PROVE  DevInv'
  <1>. USE DEF DevInv, HookReturns, To
  <1>1. DevTypeOK'
    BY DEF DevTypeOK, States
  <1>2. Counted' = Counted
    BY DEF DevTypeOK, Counted
  <1>. QED
    BY <1>1, <1>2 DEF UsersIsCount, HookAlone

\* A process dies: its files are counted until they are released.
LEMMA DiesKeeps ==
  ASSUME DevInv, NEW p \in Procs, Dies(p)
  PROVE  DevInv'
  <1>. USE DEF DevInv, Dies
  <1>1. DevTypeOK'
    BY DEF DevTypeOK, States, FilesOf
  <1>2. Counted' = Counted
    BY DEF DevTypeOK, Counted, FilesOf
  <1>. QED
    BY <1>1, <1>2 DEF UsersIsCount, HookAlone

\* Every step of the whole keeps the device's invariant.
LEMMA NextKeepsDev ==
  ASSUME DevInv, [Next]_vars
  PROVE  DevInv'
  <1>1. ASSUME UNCHANGED devVars PROVE DevInv'
    BY <1>1 DEF devVars, DevInv, DevTypeOK, UsersIsCount, HookAlone, Counted
  <1>2. ASSUME NEW p \in Procs, NEW f \in Files, ProcOpens(p, f) PROVE DevInv'
    BY <1>2, OpenKeeps DEF ProcOpens
  <1>3. ASSUME NEW p \in Procs, NEW f \in Files, ProcCloses(p, f) PROVE DevInv'
    BY <1>3, ReleaseKeeps DEF ProcCloses, FilesOf
  <1>4. ASSUME NEW f \in Files, ExitReleases(f) PROVE DevInv'
    BY <1>4, ReleaseKeeps DEF ExitReleases
  <1>5. ASSUME NEW f \in Files, LastClose(f) PROVE DevInv'
    BY <1>5, UserPutKeeps DEF LastClose
  <1>6. ASSUME NEW f \in Files, WalkEnds(f) PROVE DevInv'
    BY <1>6, HookReturnsKeeps DEF WalkEnds
  <1>7. ASSUME OrphansInit \/ OrphansExit PROVE DevInv'
    BY <1>7 DEF OrphansInit, OrphansExit, Register, Unregister,
                DevInv, DevTypeOK, UsersIsCount, HookAlone, Counted
  <1>. QED
    BY <1>1, <1>2, <1>3, <1>4, <1>5, <1>6, <1>7, DiesKeeps
    DEF Next, vars, TakeRef, GiveRef, WalkOn, WalkSub

-----------------------------------------------------------------------------
(* The walk *)

IInv == DevInv /\ WalkTypeOK /\ HoldersOpen /\ WalkLeavesNone

\* While the hook runs no process has a file open, and so none holds anything.
LEMMA HookMeetsNoHolder ==
  ASSUME IInv, usersLock # Nobody, NEW p \in Procs
  PROVE  FilesOf(p) = {} /\ HoldsNone(p)
  BY DEF IInv, DevInv, HookAlone, Counted, FilesOf, HoldersOpen

\* What a step leaves alone stays as it is.
LEMMA UnchangedWalk ==
  /\ WalkTypeOK /\ UNCHANGED <<vbVars, walk>> => WalkTypeOK'
  /\ WalkLeavesNone /\ UNCHANGED <<usersLock, user, walk>> => WalkLeavesNone'
  /\ HoldersOpen /\ UNCHANGED <<owner, st, held>> => HoldersOpen'
  BY DEF vbVars, WalkTypeOK, WalkLeavesNone, HoldersOpen, FilesOf, HoldsNone

LEMMA NextKeepsTypes ==
  ASSUME IInv, [Next]_vars
  PROVE  WalkTypeOK'
  <1>1. ASSUME UNCHANGED <<vbVars, walk>> PROVE WalkTypeOK'
    BY <1>1, UnchangedWalk DEF IInv
  <1>. USE DEF IInv, WalkTypeOK
  <1>2. ASSUME NEW p \in Procs, Dies(p) PROVE WalkTypeOK'
    BY <1>2 DEF Dies
  <1>3. ASSUME NEW p \in Procs, NEW b \in Blocks, TakeRef(p, b)
        PROVE  WalkTypeOK'
    BY <1>3 DEF TakeRef
  <1>4. ASSUME NEW p \in Procs, NEW b \in Blocks, GiveRef(p, b)
        PROVE  WalkTypeOK'
    BY <1>4 DEF GiveRef, UserSub
  <1>5. ASSUME NEW f \in Files, LastClose(f) PROVE WalkTypeOK'
    BY <1>5 DEF LastClose, vbVars, Nowhere
  <1>6. ASSUME NEW b \in Blocks, WalkOn(b) PROVE WalkTypeOK'
    BY <1>6 DEF WalkOn, vbVars
  <1>7. ASSUME WalkSub PROVE WalkTypeOK'
    <2>1. user' \in [Blocks -> Nat] /\ UNCHANGED held
      <3>1. walk.b \in Blocks
        BY <1>7 DEF WalkSub, WalkLeavesNone
      <3>. QED
        BY <1>7, <3>1 DEF WalkSub, UserSub
    <2>2. walk' \in [todo : SUBSET Blocks, b : Blocks \cup {Nobody}, n : Nat]
      BY <1>7 DEF WalkSub
    <2>. QED
      BY <2>1, <2>2
  <1>8. ASSUME NEW f \in Files, WalkEnds(f) PROVE WalkTypeOK'
    BY <1>8 DEF WalkEnds, vbVars, Nowhere
  <1>. QED
    BY <1>1, <1>2, <1>3, <1>4, <1>5, <1>6, <1>7, <1>8
    DEF Next, vars, ProcOpens, ProcCloses, ExitReleases, OrphansInit,
        OrphansExit

\* A process gives everything back before it closes its last file, or dies.
LEMMA NextKeepsHolders ==
  ASSUME IInv, [Next]_vars
  PROVE  HoldersOpen'
  <1>. USE DEF IInv
  <1>1. ASSUME UNCHANGED <<owner, st, held>> PROVE HoldersOpen'
    BY <1>1, UnchangedWalk
  <1>. USE DEF HoldersOpen, FilesOf, HoldsNone
  <1>2. ASSUME NEW p \in Procs, NEW f \in Files, ProcOpens(p, f)
        PROVE  HoldersOpen'
    BY <1>2 DEF ProcOpens, Open, To, DevInv, DevTypeOK, vbVars
  <1>3. ASSUME NEW p \in Procs, NEW f \in Files, ProcCloses(p, f)
        PROVE  HoldersOpen'
    BY <1>3 DEF ProcCloses, Release, To, DevInv, DevTypeOK, vbVars
  <1>4. ASSUME NEW p \in Procs, Dies(p) PROVE HoldersOpen'
    BY <1>4 DEF Dies, WalkTypeOK, DevInv, DevTypeOK
  <1>5. ASSUME NEW p \in Procs, NEW b \in Blocks, TakeRef(p, b)
        PROVE  HoldersOpen'
    BY <1>5 DEF TakeRef, WalkTypeOK, devVars
  <1>6. ASSUME NEW p \in Procs, NEW b \in Blocks, GiveRef(p, b)
        PROVE  HoldersOpen'
    BY <1>6 DEF GiveRef, WalkTypeOK, devVars
  <1>7. ASSUME NEW f \in Files, ExitReleases(f) PROVE HoldersOpen'
    BY <1>7 DEF ExitReleases, Release, To, DevInv, DevTypeOK, vbVars
  <1>8. ASSUME NEW f \in Files, LastClose(f) PROVE HoldersOpen'
    BY <1>8 DEF LastClose, UserPut, To, DevInv, DevTypeOK, vbVars
  <1>9. ASSUME NEW f \in Files, WalkEnds(f) PROVE HoldersOpen'
    BY <1>9 DEF WalkEnds, HookReturns, To, DevInv, DevTypeOK, vbVars
  <1>. QED
    BY <1>1, <1>2, <1>3, <1>4, <1>5, <1>6, <1>7, <1>8, <1>9
    DEF Next, vars, devVars, vbVars, WalkOn, WalkSub, OrphansInit,
        OrphansExit, Register, Unregister

\* No reference appears behind the walk: nobody is there to take one.
LEMMA NextKeepsWalk ==
  ASSUME IInv, [Next]_vars
  PROVE  WalkLeavesNone'
  <1>. USE DEF IInv
  <1>1. ASSUME UNCHANGED <<usersLock, user, walk>> PROVE WalkLeavesNone'
    BY <1>1, UnchangedWalk
  <1>2. ASSUME NEW p \in Procs, NEW b \in Blocks, TakeRef(p, b)
        PROVE  WalkLeavesNone'
    <2>1. usersLock = Nobody
      BY <1>2, HookMeetsNoHolder DEF TakeRef
    <2>. QED
      BY <1>2, <2>1 DEF TakeRef, WalkLeavesNone, devVars, Nowhere
  <1>3. ASSUME NEW p \in Procs, NEW b \in Blocks, GiveRef(p, b)
        PROVE  WalkLeavesNone'
    <2>1. usersLock = Nobody
      BY <1>3, HookMeetsNoHolder DEF GiveRef, HoldsNone, WalkTypeOK
    <2>. QED
      BY <1>3, <2>1 DEF GiveRef, WalkLeavesNone, devVars, Nowhere
  <1>4. ASSUME NEW f \in Files, LastClose(f) PROVE WalkLeavesNone'
    <2>1. usersLock = Nobody /\ walk = Nowhere
      BY <1>4 DEF LastClose, UserPut, WalkLeavesNone
    <2>2. CASE usersLock' = f /\ \E b \in Blocks : user[b] > 0
      BY <1>4, <2>1, <2>2 DEF LastClose, WalkLeavesNone, vbVars, Nowhere
    <2>3. CASE usersLock' = f /\ \A b \in Blocks : user[b] = 0
      BY <1>4, <2>1, <2>3 DEF LastClose, WalkLeavesNone, vbVars, Nowhere
    <2>4. CASE usersLock' # f
      BY <1>4, <2>1, <2>4
      DEF LastClose, UserPut, WalkLeavesNone, vbVars, Nowhere
    <2>. QED
      BY <2>2, <2>3, <2>4 DEF WalkTypeOK
  <1>5. ASSUME NEW b \in Blocks, WalkOn(b) PROVE WalkLeavesNone'
    BY <1>5 DEF WalkOn, WalkLeavesNone, WalkTypeOK, vbVars, devVars, Nowhere
  <1>6. ASSUME WalkSub PROVE WalkLeavesNone'
    BY <1>6 DEF WalkSub, UserSub, WalkLeavesNone, WalkTypeOK, devVars, Nowhere
  <1>7. ASSUME NEW f \in Files, WalkEnds(f) PROVE WalkLeavesNone'
    BY <1>7 DEF WalkEnds, HookReturns, WalkLeavesNone, Nowhere
  <1>. QED
    BY <1>1, <1>2, <1>3, <1>4, <1>5, <1>6, <1>7
    DEF Next, vars, devVars, vbVars, ProcOpens, Open, ProcCloses, Release,
        Dies, ExitReleases, OrphansInit, OrphansExit, Register, Unregister

-----------------------------------------------------------------------------
(* What live processes hold *)

\* The references held are finitely many, and VB counts them all.
Kept ==
  \A b \in Blocks : IsFiniteSet(HeldBy(b)) /\ Cardinality(HeldBy(b)) <= user[b]

LEMMA HeldByIs ==
  ASSUME NEW b
  PROVE  /\ \A r : r \in HeldBy(b) <=> \E p \in Procs : \E i \in 1..held[p][b] : r = <<p, i>>
         /\ \A r : r \in HeldBy(b)' <=> \E p \in Procs : \E i \in 1..held'[p][b] : r = <<p, i>>
  BY DEF HeldBy

\* A step that gives some references up and leaves VB's counts alone
LEMMA FewerKept ==
  ASSUME Kept, UNCHANGED user, \A b \in Blocks : HeldBy(b)' \subseteq HeldBy(b),
         WalkTypeOK
  PROVE  Kept'
  <1>1. SUFFICES ASSUME NEW b \in Blocks
                 PROVE  IsFiniteSet(HeldBy(b)') /\ Cardinality(HeldBy(b)') <= user[b]
    BY DEF Kept
  <1>. DEFINE S == HeldBy(b)
             T == HeldBy(b)'
  <1>2. IsFiniteSet(S) /\ Cardinality(S) <= user[b] /\ T \in SUBSET S /\ user[b] \in Nat
    BY DEF Kept, WalkTypeOK
  <1>. HIDE DEF S, T
  <1>3. IsFiniteSet(T) /\ Cardinality(T) <= Cardinality(S)
    BY <1>2, FS_Subset
  <1>4. Cardinality(T) \in Nat /\ Cardinality(S) \in Nat
    BY <1>2, <1>3, FS_CardinalityType
  <1>. QED
    BY <1>2, <1>3, <1>4 DEF S, T

LEMMA TakeKept ==
  ASSUME IInv, Kept, NEW p \in Procs, NEW b \in Blocks, TakeRef(p, b)
  PROVE  Kept'
  <1>. DEFINE n == held[p][b] + 1
             S == HeldBy(b)
             T == HeldBy(b)'
  <1>1. /\ user \in [Blocks -> Nat] /\ held \in [Procs -> [Blocks -> Nat]]
        /\ user' = [user EXCEPT ![b] = @ + 1]
        /\ held' = [held EXCEPT ![p][b] = n]
    BY DEF IInv, WalkTypeOK, TakeRef
  <1>2. /\ n \in Nat /\ held[p][b] \in Nat /\ n > held[p][b] /\ held'[p][b] = n
        /\ user'[b] = user[b] + 1
        /\ \A q \in Procs : q # p => held'[q][b] = held[q][b]
        /\ \A i : i \in 1..n <=> i \in 1..held[p][b] \/ i = n
    <2>1. held[p][b] \in Nat
      BY <1>1
    <2>2. n \in Nat /\ n > held[p][b] /\ \A i : i \in 1..n <=> i \in 1..held[p][b] \/ i = n
      BY <2>1
    <2>. HIDE DEF n
    <2>. QED
      BY <1>1, <2>2
  <1>3. \A r : r \in T <=> r \in S \/ r = <<p, n>>
    BY <1>2, HeldByIs
  <1>4. <<p, n>> \notin S
    <2>1. n \notin 1..held[p][b]
      BY <1>2
    <2>. HIDE DEF n
    <2>. QED
      BY <2>1 DEF HeldBy
  <1>5. IsFiniteSet(S) /\ Cardinality(S) <= user[b] /\ user[b] \in Nat
    BY <1>1 DEF Kept
  <1>. HIDE DEF S, T, n
  <1>6. T = S \cup {<<p, n>>}
    BY <1>3
  <1>7. IsFiniteSet(T) /\ Cardinality(T) = Cardinality(S) + 1 /\ Cardinality(S) \in Nat
    BY <1>4, <1>5, <1>6, FS_AddElement, FS_CardinalityType
  <1>8. IsFiniteSet(T) /\ Cardinality(T) <= user'[b]
    BY <1>2, <1>5, <1>7
  <1>9. ASSUME NEW c \in Blocks, c # b PROVE HeldBy(c)' = HeldBy(c) /\ user'[c] = user[c]
    <2>1. user'[c] = user[c] /\ \A q \in Procs : held'[q][c] = held[q][c]
      BY <1>1, <1>9
    <2>. QED
      BY <2>1 DEF HeldBy
  <1>. QED
    BY <1>8, <1>9 DEF Kept, T

LEMMA GiveKept ==
  ASSUME IInv, Kept, NEW p \in Procs, NEW b \in Blocks, GiveRef(p, b)
  PROVE  Kept'
  <1>. DEFINE n == held[p][b]
             S == HeldBy(b)
             T == HeldBy(b)'
  <1>1. /\ user \in [Blocks -> Nat] /\ held \in [Procs -> [Blocks -> Nat]] /\ n > 0
        /\ user' = [user EXCEPT ![b] = IF @ > 0 THEN @ - 1 ELSE @]
        /\ held' = [held EXCEPT ![p][b] = n - 1]
    BY DEF IInv, WalkTypeOK, GiveRef, UserSub
  <1>2. /\ n \in Nat /\ held'[p][b] = n - 1 /\ user'[b] = IF user[b] > 0 THEN user[b] - 1 ELSE user[b]
        /\ \A q \in Procs : q # p => held'[q][b] = held[q][b]
        /\ \A i : i \in 1..(n - 1) <=> i \in 1..n /\ i # n
    BY <1>1
  <1>3. \A r : r \in T <=> r \in S /\ r # <<p, n>>
    BY <1>2, HeldByIs
  <1>4. <<p, n>> \in S
    BY <1>1, <1>2, HeldByIs
  <1>5. IsFiniteSet(S) /\ Cardinality(S) <= user[b] /\ user[b] \in Nat
    BY <1>1 DEF Kept
  <1>. HIDE DEF S, T, n
  <1>6. T = S \ {<<p, n>>}
    BY <1>3
  <1>7. /\ IsFiniteSet(T) /\ Cardinality(T) = Cardinality(S) - 1
        /\ Cardinality(T) \in Nat /\ Cardinality(S) \in Nat
    BY <1>4, <1>5, <1>6, FS_RemoveElement, FS_CardinalityType
  <1>8. IsFiniteSet(T) /\ Cardinality(T) <= user'[b]
    BY <1>2, <1>5, <1>7
  <1>9. ASSUME NEW c \in Blocks, c # b PROVE HeldBy(c)' = HeldBy(c) /\ user'[c] = user[c]
    <2>1. user'[c] = user[c] /\ \A q \in Procs : held'[q][c] = held[q][c]
      BY <1>1, <1>9
    <2>. QED
      BY <2>1 DEF HeldBy
  <1>. QED
    BY <1>8, <1>9 DEF Kept, T

\* The hook drops what is left of a block when nobody holds any of it.
LEMMA SubKept ==
  ASSUME IInv, Kept, WalkSub
  PROVE  Kept'
  <1>1. usersLock # Nobody
    BY DEF IInv, WalkLeavesNone, WalkSub, Nowhere
  <1>2. held' = held /\ WalkTypeOK'
    BY NextKeepsTypes DEF WalkSub, Next
  <1>3. \A p \in Procs : \A b \in Blocks : held'[p][b] = 0
    BY <1>1, <1>2, HookMeetsNoHolder DEF HoldsNone
  <1>4. \A b \in Blocks : HeldBy(b)' = {}
    BY <1>3, HeldByIs
  <1>5. \A b \in Blocks : user'[b] \in Nat
    BY <1>2 DEF WalkTypeOK
  <1>. QED
    BY <1>4, <1>5, FS_EmptySet DEF Kept

LEMMA NextKept ==
  ASSUME IInv, Kept, [Next]_vars
  PROVE  Kept'
  <1>1. ASSUME UNCHANGED <<user, held>> PROVE Kept'
    <2>1. \A b \in Blocks : HeldBy(b)' \subseteq HeldBy(b)
      BY <1>1 DEF HeldBy
    <2>. QED
      BY <1>1, <2>1, FewerKept DEF IInv
  <1>2. ASSUME NEW p \in Procs, Dies(p) PROVE Kept'
    <2>1. /\ UNCHANGED user
          /\ held' = [held EXCEPT ![p] = [b \in Blocks |-> 0]]
          /\ held \in [Procs -> [Blocks -> Nat]]
      BY <1>2 DEF Dies, IInv, WalkTypeOK
    <2>2. \A q \in Procs : \A b \in Blocks : held'[q][b] = held[q][b] \/ held'[q][b] = 0
      BY <2>1
    <2>3. \A b \in Blocks : HeldBy(b)' \subseteq HeldBy(b)
      <3>1. \A b \in Blocks : \A q \in Procs : \A i \in 1..held'[q][b] : i \in 1..held[q][b]
        BY <2>2
      <3>. QED
        BY <3>1, HeldByIs
    <2>. QED
      BY <2>1, <2>3, FewerKept DEF IInv
  <1>. QED
    BY <1>1, <1>2, TakeKept, GiveKept, SubKept
    DEF Next, vars, vbVars, ProcOpens, ProcCloses, ExitReleases, LastClose, WalkOn, WalkEnds,
        OrphansInit, OrphansExit

-----------------------------------------------------------------------------
(* The theorems *)

LEMMA InitHolds == Init => IInv
  <1>1. SUFFICES ASSUME Init PROVE IInv
    OBVIOUS
  <1>2. Counted = {}
    BY <1>1 DEF Init, DevInit, Counted
  <1>3. DevInv
    BY <1>1, <1>2, FS_EmptySet
    DEF Init, DevInit, DevInv, DevTypeOK, UsersIsCount, HookAlone, States
  <1>4. WalkTypeOK /\ WalkLeavesNone
    BY <1>1 DEF Init, DevInit, WalkTypeOK, WalkLeavesNone, Nowhere
  <1>5. HoldersOpen
    BY <1>1 DEF Init, HoldersOpen, HoldsNone
  <1>. QED
    BY <1>3, <1>4, <1>5 DEF IInv

LEMMA NextKeepsIInv == IInv /\ [Next]_vars => IInv'
  BY NextKeepsDev, NextKeepsTypes, NextKeepsHolders, NextKeepsWalk DEF IInv

\* osal_users is the number of open files, however opens, closes and deaths
\* come (osal_device.c, osal_user_put).
THEOREM UsersAreCounted == Spec => []UsersIsCount
  <1>1. IInv => UsersIsCount
    BY DEF IInv, DevInv
  <1>. QED
    BY <1>1, InitHolds, NextKeepsIInv, PTL DEF Spec

\* No file is open while the hook runs (osal_device.c, osal_user_put).
THEOREM HookRunsAlone == Spec => []HookAlone
  <1>1. IInv => HookAlone
    BY DEF IInv, DevInv
  <1>. QED
    BY <1>1, InitHolds, NextKeepsIInv, PTL DEF Spec

\* The hook never drops a reference a live process holds (isp_orphans.c, the
\* comment on isp_release_orphan_frames).
THEOREM LiveRefsAreKept == Spec => []LiveRefsKept
  <1>1. Init => Kept
    <2>1. SUFFICES ASSUME Init, NEW b \in Blocks
                   PROVE  IsFiniteSet(HeldBy(b)) /\ Cardinality(HeldBy(b)) <= user[b]
      BY DEF Kept
    <2>2. user[b] = 0 /\ \A p \in Procs : held[p][b] = 0
      BY <2>1 DEF Init
    <2>3. HeldBy(b) = {}
      BY <2>2, HeldByIs
    <2>. QED
      BY <2>2, <2>3, FS_EmptySet
  <1>2. IInv /\ Kept /\ [Next]_vars => IInv' /\ Kept'
    BY NextKeepsIInv, NextKept
  <1>3. IInv /\ Kept => LiveRefsKept
    <2>1. SUFFICES ASSUME IInv, Kept, NEW b \in Blocks PROVE user[b] >= Cardinality(HeldBy(b))
      BY DEF LiveRefsKept
    <2>2. user[b] \in Nat /\ Cardinality(HeldBy(b)) \in Nat /\ Cardinality(HeldBy(b)) <= user[b]
      BY <2>1, FS_CardinalityType DEF Kept, IInv, WalkTypeOK
    <2>. QED
      BY <2>2
  <1>. QED
    BY <1>1, <1>2, <1>3, InitHolds, PTL DEF Spec

\* The hook leaves no reference behind (isp_orphans.c,
\* isp_release_orphan_frames).
THEOREM OrphansAreDropped == Spec => OrphansDropped
  <1>1. ASSUME IInv, [Next]_vars, usersLock # Nobody, usersLock' = Nobody
        PROVE  \A b \in Blocks : user'[b] = 0
    <2>1. PICK f \in Files : WalkEnds(f)
      BY <1>1 DEF Next, vars, devVars, vbVars, ProcOpens, Open, ProcCloses,
         Release, Dies, TakeRef, GiveRef, ExitReleases, LastClose, UserPut,
         WalkOn, WalkSub, OrphansInit, OrphansExit, Register, Unregister
    <2>. QED
      BY <1>1, <2>1 DEF WalkEnds, IInv, WalkLeavesNone, vbVars
  <1>2. IInv /\ [Next]_vars =>
          [usersLock # Nobody /\ usersLock' = Nobody =>
             \A b \in Blocks : user'[b] = 0]_vars
    BY <1>1
  <1>. QED
    BY <1>2, InitHolds, NextKeepsIInv, PTL DEF Spec, OrphansDropped
=============================================================================
