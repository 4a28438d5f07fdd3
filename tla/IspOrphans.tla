----------------------------- MODULE IspOrphans -----------------------------
(***************************************************************************)
(* The frame references of dead processes: kernel/isp/mkp/src/             *)
(* isp_orphans.c on top of osal_device.c.  A process takes VB_UID_USER     *)
(* references through its MPP files; when it dies they stay, and the hook  *)
(* of the last close drops them.                                           *)
(***************************************************************************)
EXTENDS OsalDevice

CONSTANTS
  Blocks,   \* VB blocks
  MaxRefs   \* bound: USER references of a block

ASSUME OrphansAssumption == MaxRefs \in Nat

VARIABLES
  user,     \* the USER references VB counts on each block
  held,     \* the ones each process will give back if it lives
  walk      \* the hook: blocks it has yet to look at, and the one it is on

vbVars == <<user, held>>
vars   == <<devVars, vbVars, walk>>

Nowhere == [todo |-> {}, b |-> Nobody, n |-> 0]

Init ==
  /\ DevInit
  /\ user = [b \in Blocks |-> 0]
  /\ held = [p \in Procs |-> [b \in Blocks |-> 0]]
  /\ walk = Nowhere

FilesOf(p) == {f \in Files : owner[f] = p /\ st[f] = "open"}
HoldsNone(p) == \A b \in Blocks : held[p][b] = 0

-----------------------------------------------------------------------------
(* Processes and the video buffer, both outside the source: VB is a blob   *)

ProcOpens(p, f) == Open(p, f) /\ UNCHANGED <<vbVars, walk>>

\* A process keeps a file open as long as it holds a frame: the libraries
\* open their devices on the first call and keep them.
ProcCloses(p, f) ==
  /\ f \in FilesOf(p)
  /\ FilesOf(p) = {f} => HoldsNone(p)
  /\ Release(f)
  /\ UNCHANGED <<vbVars, walk>>

TakeRef(p, b) ==
  /\ FilesOf(p) # {} /\ user[b] < MaxRefs
  /\ user' = [user EXCEPT ![b] = @ + 1]
  /\ held' = [held EXCEPT ![p][b] = @ + 1]
  /\ UNCHANGED <<devVars, walk>>

\* pfnVB_UserSub, which fails on a block without a USER reference
UserSub(b) == user' = [user EXCEPT ![b] = IF @ > 0 THEN @ - 1 ELSE @]

GiveRef(p, b) ==
  /\ held[p][b] > 0
  /\ UserSub(b)
  /\ held' = [held EXCEPT ![p][b] = @ - 1]
  /\ UNCHANGED <<devVars, walk>>

\* The process dies holding what it holds, and a new one takes its place;
\* its files are released one by one, at any time from now on.
Dies(p) ==
  /\ FilesOf(p) # {}
  /\ st' = [f \in Files |-> IF f \in FilesOf(p) THEN "exiting" ELSE st[f]]
  /\ held' = [held EXCEPT ![p] = [b \in Blocks |-> 0]]
  /\ UNCHANGED <<owner, users, usersLock, hook, user, walk>>

ExitReleases(f) ==
  st[f] = "exiting" /\ Release(f) /\ UNCHANGED <<vbVars, walk>>

-----------------------------------------------------------------------------
(* The last close *)

\* isp_release_orphan_frames begins: with no USER reference it looks no further.
LastClose(f) ==
  /\ UserPut(f)
  /\ walk' = IF usersLock' = f /\ \E b \in Blocks : user[b] > 0
               THEN [Nowhere EXCEPT !.todo = Blocks] ELSE walk
  /\ UNCHANGED vbVars

\* pfnVB_InquireOneUserCnt of the next block
WalkOn(b) ==
  /\ walk.n = 0 /\ b \in walk.todo
  /\ walk' = [todo |-> walk.todo \ {b}, b |-> b, n |-> user[b]]
  /\ UNCHANGED <<devVars, vbVars>>

\* (seeded fault: one reference dropped of each block, not all)
WalkSubOnce ==
  /\ walk.n > 0
  /\ UserSub(walk.b)
  /\ walk' = [walk EXCEPT !.n = 0]
  /\ UNCHANGED <<devVars, held>>

\* One turn for each reference counted, until one fails
WalkSub ==
  /\ walk.n > 0
  /\ UserSub(walk.b)
  /\ walk' = [walk EXCEPT !.n = IF user[walk.b] > 0 THEN @ - 1 ELSE 0]
  /\ UNCHANGED <<devVars, held>>

WalkEnds(f) ==
  /\ walk.n = 0 /\ walk.todo = {}
  /\ HookReturns(f)
  /\ walk' = Nowhere
  /\ UNCHANGED vbVars

\* ISP_OrphansInit and ISP_OrphansExit, when the isp module comes and goes
OrphansInit == Register /\ UNCHANGED <<vbVars, walk>>
OrphansExit == Unregister /\ UNCHANGED <<vbVars, walk>>

Next ==
  \/ \E p \in Procs :
       \/ Dies(p)
       \/ \E f \in Files : ProcOpens(p, f) \/ ProcCloses(p, f)
       \/ \E b \in Blocks : TakeRef(p, b) \/ GiveRef(p, b)
  \/ \E f \in Files : ExitReleases(f) \/ LastClose(f) \/ WalkEnds(f)
  \/ \E b \in Blocks : WalkOn(b)
  \/ WalkSub \/ OrphansInit \/ OrphansExit

Spec == Init /\ [][Next]_vars

-----------------------------------------------------------------------------
(* Properties *)

\* What the live processes hold of block b, each reference by its holder and
\* its number there.
HeldBy(b) == UNION {{p} \X (1..held[p][b]) : p \in Procs}

\* The hook never takes a reference a live process holds: "no live process
\* can be holding a USER reference at that moment" (isp_orphans.c).
LiveRefsKept == \A b \in Blocks : user[b] >= Cardinality(HeldBy(b))

\* When the hook has run, no reference of a dead process is left, so that
\* VB_Exit of the next process finds no busy block (isp_orphans.c).
OrphansDropped ==
  [][usersLock # Nobody /\ usersLock' = Nobody => \A b \in Blocks : user'[b] = 0]_vars
=============================================================================
