----------------------------- MODULE OsalDevice -----------------------------
(***************************************************************************)
(* The device files of the MPP modules, kernel/osal/linux/kernel/          *)
(* osal_device.c: how many are open, and the hook that runs when the last  *)
(* one closes.  Sections under osal_users_lock are one step, save that the *)
(* hook runs in steps of its own with the lock held.                       *)
(***************************************************************************)
EXTENDS Naturals, FiniteSets

CONSTANTS
  Files,    \* struct files of MPP devices
  Procs,    \* processes
  Nobody    \* no process, no file

ASSUME OsalAssumption == Nobody \notin Files \cup Procs /\ IsFiniteSet(Files)

VARIABLES
  owner,      \* the process that opened each file
  st,         \* where each file is between osal_open and the end of its release
  users,      \* osal_users
  usersLock,  \* the file whose release holds osal_users_lock over the hook
  hook        \* osal_last_close_fn is set

devVars == <<owner, st, users, usersLock, hook>>

States == {"none", "open", "exiting", "put", "hook"}

DevInit ==
  /\ owner = [f \in Files |-> Nobody]
  /\ st = [f \in Files |-> "none"]
  /\ users = 0 /\ usersLock = Nobody /\ hook = FALSE

To(f, s) == st' = [st EXCEPT ![f] = s]

\* (seeded fault: the count is raised without the lock)
OpenUnlocked(p, f) ==
  /\ st[f] = "none"
  /\ To(f, "open")
  /\ owner' = [owner EXCEPT ![f] = p]
  /\ users' = users + 1
  /\ UNCHANGED <<usersLock, hook>>

\* osal_open.  One that fails, for want of memory or in the module's own
\* open, counts nothing, and the kernel does not release it.
Open(p, f) ==
  /\ st[f] = "none" /\ usersLock = Nobody
  /\ To(f, "open")
  /\ owner' = [owner EXCEPT ![f] = p]
  /\ users' = users + 1
  /\ UNCHANGED <<usersLock, hook>>

\* osal_release up to osal_user_put, which clears counted before it takes
\* the lock.  The answer of the module's release is not looked at till later.
Release(f) ==
  /\ To(f, "put")
  /\ UNCHANGED <<owner, users, usersLock, hook>>

\* (seeded fault: a release in which the module fails does not count down)
UserPutMayFail(f) ==
  /\ st[f] = "put" /\ usersLock = Nobody
  /\ owner' = [owner EXCEPT ![f] = Nobody]
  /\ \/ UNCHANGED users /\ To(f, "none") /\ UNCHANGED usersLock
     \/ /\ users' = users - 1
        /\ IF users = 1 /\ hook THEN To(f, "hook") /\ usersLock' = f
                                ELSE To(f, "none") /\ UNCHANGED usersLock
  /\ UNCHANGED hook

\* osal_user_put: the last user calls the hook under the lock.
UserPut(f) ==
  /\ st[f] = "put" /\ usersLock = Nobody
  /\ owner' = [owner EXCEPT ![f] = Nobody]
  /\ users' = IF users > 0 THEN users - 1 ELSE users
  /\ IF users = 1 /\ hook THEN To(f, "hook") /\ usersLock' = f
                          ELSE To(f, "none") /\ UNCHANGED usersLock
  /\ UNCHANGED hook

\* The hook returns, and osal_user_put gives the lock back.
HookReturns(f) ==
  /\ st[f] = "hook"
  /\ To(f, "none")
  /\ usersLock' = Nobody
  /\ UNCHANGED <<owner, users, hook>>

\* osal_register_last_close, osal_unregister_last_close.  There is one hook.
Register ==
  /\ usersLock = Nobody /\ ~hook
  /\ hook' = TRUE
  /\ UNCHANGED <<owner, st, users, usersLock>>
Unregister ==
  /\ usersLock = Nobody /\ hook
  /\ hook' = FALSE
  /\ UNCHANGED <<owner, st, users, usersLock>>

-----------------------------------------------------------------------------
(* Properties *)

\* The files that have been opened and not yet counted down.
Counted == {f \in Files : st[f] \in {"open", "exiting", "put"}}

\* Every variable has its kind, and the lock is held exactly over the hook.
DevTypeOK ==
  /\ owner \in [Files -> Procs \cup {Nobody}]
  /\ st \in [Files -> States]
  /\ users \in Nat /\ hook \in BOOLEAN
  /\ usersLock \in Files \cup {Nobody}
  /\ \A f \in Files : st[f] = "hook" <=> usersLock = f

\* osal_users is the number of files open or on their way out, whatever the
\* modules' own open and release answer (osal_device.c, osal_user_put).
UsersIsCount == users = Cardinality(Counted)

\* While the hook runs no file is open and none can be: "a new process
\* cannot start talking to the pipeline while the hook is still walking it"
\* (osal_device.c, at osal_users_lock).
HookAlone == usersLock # Nobody => Counted = {}
=============================================================================
