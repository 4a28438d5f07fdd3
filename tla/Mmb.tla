-------------------------------- MODULE Mmb ---------------------------------
(***************************************************************************)
(* Who holds a block of media memory: kernel/osal/linux/kernel/mmz.  A     *)
(* block (mmz_mmb_t) counts the references of /dev/mmz_userdev's files     *)
(* (phy_ref) and the mappings of kernel modules (map_ref); a file keeps an *)
(* mmb_info for each block it allocated, with counts of its own.           *)
(*                                                                         *)
(* Each section under mmz_lock is one step.  pmu->sem lets one ioctl of a  *)
(* file run at a time, so what an ioctl does to its mmb_info between two   *)
(* such sections goes with the section before it.                          *)
(***************************************************************************)
EXTENDS Naturals

CONSTANTS
  Files,    \* open files of /dev/mmz_userdev
  Blocks,   \* memory for blocks, each with the addresses it covers
  Nobody,   \* no file, no block
  MaxRef,   \* bound: IOC_MMB_ADD_REF and remaps of one block
  MaxMap    \* bound: kernel mappings of one block

ASSUME MmbAssumption ==
  /\ Nobody \notin Files \cup Blocks
  /\ MaxRef \in Nat /\ MaxMap \in Nat

VARIABLES
  mmb,      \* the mmz_mmb_t in each piece of memory
  info,     \* the mmb_info of each block: the file it belongs to, its counts
  vma,      \* blocks mapped in a process, where the mmb_info says and counts
  left,     \* files of which a process has a mapping that an unmap left
  pc,       \* where each file's ioctl or close is, and the block it is about
  closing,  \* files in mmz_userdev_release
  kown,     \* blocks a kernel module allocated and has not freed
  kmap      \* the mappings kernel modules have yet to undo

userVars == <<info, vma, left, pc, closing>>
kernVars == <<kown, kmap>>
vars     == <<mmb, userVars, kernVars>>

NoMmb  == [live |-> FALSE, phy |-> 0, map |-> 0, kern |-> "none", rel |-> FALSE]
NoInfo == [file |-> Nobody, mapped |-> FALSE, cached |-> FALSE,
           map |-> 0, ref |-> 0, delayed |-> FALSE]
Unmaps == {"refused", "failed", "elsewhere", "done"}
Places == {"closed", "idle", "alloc", "put", "free"}

Init ==
  /\ mmb = [b \in Blocks |-> NoMmb]
  /\ info = [b \in Blocks |-> NoInfo]
  /\ vma = {} /\ left = {} /\ closing = {} /\ kown = {}
  /\ pc = [f \in Files |-> [at |-> "closed", b |-> Nobody]]
  /\ kmap = [b \in Blocks |-> 0]

-----------------------------------------------------------------------------
(* What media-mem.c and allocator.c do to a block *)

Fresh == [NoMmb EXCEPT !.live = TRUE]

Get(m) == [m EXCEPT !.phy = @ + 1]

\* mmz_mmb_put: the last reference of a block that was released frees it.
Put(m) == IF m.rel /\ m.phy = 1 /\ m.map = 0 THEN NoMmb
          ELSE [m EXCEPT !.phy = @ - 1]

\* (seeded fault: a kernel mapping does not delay the free)
FreeMapped(m) == IF m.rel THEN m
                 ELSE IF m.phy > 0 THEN [m EXCEPT !.rel = TRUE] ELSE NoMmb

\* mmz_mmb_free: delayed while there is a reference or a kernel mapping.
Release(m) == IF m.rel THEN m
              ELSE IF m.phy > 0 \/ m.kern # "none" THEN [m EXCEPT !.rel = TRUE]
              ELSE NoMmb

\* __mmb_map2kern
Type(cached) == IF cached THEN "cached" ELSE "plain"
Mapped(m, c) == [m EXCEPT !.map = @ + 1, !.kern = Type(c)]

\* __mmb_unmap: the last mapping of a block that was released frees it.
Unmapped(m) == IF m.map > 1 THEN [m EXCEPT !.map = @ - 1]
               ELSE IF m.rel /\ m.phy = 0 THEN NoMmb
               ELSE [m EXCEPT !.map = 0, !.kern = "none"]

Goto(f, l, b)   == pc' = [pc EXCEPT ![f] = [at |-> l, b |-> b]]
SetInfo(b, i)   == info' = [info EXCEPT ![b] = i]
SetMmb(b, m)    == mmb' = [mmb EXCEPT ![b] = m]

\* An ioctl on the file's own block may begin: get_mmbinfo finds it.
Ready(f, b) == pc[f].at = "idle" /\ f \notin closing /\ info[b].file = f

-----------------------------------------------------------------------------
(* /dev/mmz_userdev *)

Open(f) ==
  /\ pc[f].at = "closed"
  /\ Goto(f, "idle", Nobody)
  /\ UNCHANGED <<mmb, info, vma, left, closing, kernVars>>

\* IOC_MMB_ALLOC and _V2: from here on others find the block in its zone.
Alloc(f, b) ==
  /\ pc[f].at = "idle" /\ f \notin closing
  /\ ~mmb[b].live
  /\ SetMmb(b, Fresh)
  /\ Goto(f, "alloc", b)
  /\ UNCHANGED <<info, vma, left, closing, kernVars>>

\* kmalloc, and the file's reference ...
AllocInfo(f) ==
  LET b == pc[f].b IN
  /\ pc[f].at = "alloc"
  /\ SetInfo(b, [NoInfo EXCEPT !.file = f])
  /\ SetMmb(b, Get(mmb[b]))
  /\ Goto(f, "idle", Nobody)
  /\ UNCHANGED <<vma, left, closing, kernVars>>

\* ... or no memory for an mmb_info.
AllocNoInfo(f) ==
  LET b == pc[f].b IN
  /\ pc[f].at = "alloc"
  /\ SetMmb(b, Release(mmb[b]))
  /\ Goto(f, "idle", Nobody)
  /\ UNCHANGED <<info, vma, left, closing, kernVars>>

\* _usrdev_mmb_free, up to mmz_mmb_put
Discard(f, b) == SetInfo(b, NoInfo) /\ Goto(f, "put", b)

\* IOC_MMB_FREE: noted, and put off, while the file has references.
Free(f, b) ==
  /\ Ready(f, b) /\ ~info[b].delayed
  /\ IF info[b].map > 0 \/ info[b].ref > 0
       THEN SetInfo(b, [info[b] EXCEPT !.delayed = TRUE]) /\ UNCHANGED pc
       ELSE Discard(f, b)
  /\ UNCHANGED <<mmb, vma, left, closing, kernVars>>

DiscardPut(f) ==
  LET b == pc[f].b IN
  /\ pc[f].at = "put"
  /\ SetMmb(b, Put(mmb[b]))
  /\ Goto(f, "free", b)
  /\ UNCHANGED <<info, vma, left, closing, kernVars>>

DiscardFree(f) ==
  LET b == pc[f].b IN
  /\ pc[f].at = "free"
  /\ SetMmb(b, Release(mmb[b]))
  /\ Goto(f, "idle", Nobody)
  /\ UNCHANGED <<info, vma, left, closing, kernVars>>

Taken(i) == [i EXCEPT !.map = @ + 1, !.ref = @ + 1]

\* (seeded fault: a mapping more, whatever its type)
RemapAnyway(f, b, c) ==
  LET i == info[b] IN
  /\ Ready(f, b)
  /\ i.mapped /\ i.map > 0 /\ i.ref < MaxRef /\ i.map < MaxRef
  /\ SetInfo(b, Taken([i EXCEPT !.cached = c]))
  /\ SetMmb(b, Get(mmb[b]))
  /\ UNCHANGED <<vma, left, pc, closing, kernVars>>

\* (seeded fault: no reference on the block for a further mapping)
RemapNoGet(f, b, c) ==
  LET i == info[b] IN
  /\ Ready(f, b)
  /\ i.mapped /\ i.map > 0 /\ c = i.cached /\ i.ref < MaxRef /\ i.map < MaxRef
  /\ SetInfo(b, Taken(i))
  /\ UNCHANGED <<mmb, vma, left, pc, closing, kernVars>>

\* IOC_MMB_USER_REMAP(_CACHED) of a mapped block: of the same type only.
Remap(f, b, c) ==
  LET i == info[b] IN
  /\ Ready(f, b)
  /\ i.mapped /\ i.map > 0 /\ c = i.cached /\ i.ref < MaxRef /\ i.map < MaxRef
  /\ SetInfo(b, Taken(i))
  /\ SetMmb(b, Get(mmb[b]))
  /\ UNCHANGED <<vma, left, pc, closing, kernVars>>

\* The first remap goes through vm_mmap.  mmz_userdev_mmap refuses a block
\* that has an address still, and vm_mmap may fail for reasons of its own;
\* map_cached is set either way.
RemapFirst(f, b, c) ==
  LET i == [info[b] EXCEPT !.cached = c] IN
  /\ Ready(f, b)
  /\ ~(i.mapped /\ i.map > 0)
  /\ \/ SetInfo(b, i) /\ UNCHANGED <<mmb, vma>>
     \/ /\ ~i.mapped /\ i.ref < MaxRef
        /\ SetInfo(b, Taken([i EXCEPT !.mapped = TRUE]))
        /\ SetMmb(b, Get(mmb[b]))
        /\ vma' = vma \cup {b}
  /\ UNCHANGED <<left, pc, closing, kernVars>>

\* A process undoes a mapping itself, by munmap(2) or by its end.
Munmap(b) ==
  /\ b \in vma
  /\ vma' = vma \ {b}
  /\ UNCHANGED <<left, mmb, info, pc, closing, kernVars>>

\* The last mapping of a file which an unmap left.
MunmapLeft(f) ==
  /\ f \in left
  /\ left' = left \ {f}
  /\ UNCHANGED <<vma, mmb, info, pc, closing, kernVars>>

\* IOC_MMB_USER_UNMAP.  The counts go down first.  Of a cached mapping the
\* last unmap is refused if mmz_vma_check does not find it in the calling
\* process, and writable: it may have been made with PROT_READ, the default,
\* be undone already, or be another process's.  Then the address stays and a
\* delayed free is not looked at.  vm_munmap may fail and leave the address,
\* too; or it succeeds in a process that is not the one with the mapping.
Unmap(f, b, how) ==
  LET i == [info[b] EXCEPT !.map = @ - 1, !.ref = @ - 1]
      j == [i EXCEPT !.mapped = how \in {"refused", "failed"}] IN
  /\ Ready(f, b)
  /\ info[b].mapped /\ info[b].map > 0 /\ info[b].ref > 0
  /\ SetMmb(b, Put(mmb[b]))
  /\ IF i.map > 0
       THEN SetInfo(b, i) /\ UNCHANGED <<vma, left, pc>>
       ELSE /\ how = "refused" => i.cached
            /\ vma' = vma \ {b}
            /\ left' = IF b \in vma /\ how # "done" THEN left \cup {f}
                       ELSE left
            /\ IF how # "refused" /\ i.delayed /\ i.ref = 0
                 THEN Discard(f, b)
                 ELSE SetInfo(b, j) /\ UNCHANGED pc
  /\ UNCHANGED <<closing, kernVars>>

\* IOC_MMB_ADD_REF
AddRef(f, b) ==
  /\ Ready(f, b) /\ info[b].ref < MaxRef
  /\ SetInfo(b, [info[b] EXCEPT !.ref = @ + 1])
  /\ SetMmb(b, Get(mmb[b]))
  /\ UNCHANGED <<vma, left, pc, closing, kernVars>>

\* (seeded fault: the delayed free is left to the next unmap)
DecRefOnly(f, b) ==
  /\ Ready(f, b) /\ info[b].ref > 0
  /\ SetMmb(b, Put(mmb[b]))
  /\ SetInfo(b, [info[b] EXCEPT !.ref = @ - 1])
  /\ UNCHANGED <<vma, left, pc, closing, kernVars>>

\* IOC_MMB_DEC_REF: the last reference carries a delayed free out.
DecRef(f, b) ==
  LET i == [info[b] EXCEPT !.ref = @ - 1] IN
  /\ Ready(f, b) /\ info[b].ref > 0
  /\ SetMmb(b, Put(mmb[b]))
  /\ IF i.delayed /\ i.ref = 0 /\ i.map = 0
       THEN Discard(f, b)
       ELSE SetInfo(b, i) /\ UNCHANGED pc
  /\ UNCHANGED <<vma, left, closing, kernVars>>

\* The last close.  A mapping holds its file, so none is in place by then.
Close(f) ==
  /\ pc[f].at = "idle" /\ f \notin closing
  /\ f \notin left /\ \A b \in vma : info[b].file # f
  /\ closing' = closing \cup {f}
  /\ UNCHANGED <<mmb, info, vma, left, pc, kernVars>>

\* mmz_userdev_release: the references of each mmb_info, then the block.
\* Under the references there is still the one of the allocation, so that
\* these puts free nothing.
Sweep(f, b) ==
  /\ f \in closing /\ pc[f].at = "idle" /\ info[b].file = f
  /\ SetMmb(b, [mmb[b] EXCEPT !.phy = @ - info[b].ref])
  /\ Discard(f, b)
  /\ UNCHANGED <<vma, left, closing, kernVars>>

Closed(f) ==
  /\ f \in closing /\ pc[f].at = "idle"
  /\ \A b \in Blocks : info[b].file # f
  /\ Goto(f, "closed", Nobody)
  /\ closing' = closing \ {f}
  /\ UNCHANGED <<mmb, info, vma, left, kernVars>>

-----------------------------------------------------------------------------
(* Kernel modules: they free what they allocated and unmap what they mapped *)

KAlloc(b) ==
  /\ ~mmb[b].live
  /\ SetMmb(b, Fresh)
  /\ kown' = kown \cup {b}
  /\ UNCHANGED <<kmap, userVars>>

KFree(b) ==
  /\ b \in kown
  /\ SetMmb(b, Release(mmb[b]))
  /\ kown' = kown \ {b}
  /\ UNCHANGED <<kmap, userVars>>

\* mmz_mmb_map2kern(_cached), of any block mmz_mmb_getby_phys finds, a
\* released one too: one type of mapping at a time.
KMap(b, c) ==
  /\ mmb[b].live /\ kmap[b] < MaxMap
  /\ mmb[b].kern \in {"none", Type(c)}
  /\ SetMmb(b, Mapped(mmb[b], c))
  /\ kmap' = [kmap EXCEPT ![b] = @ + 1]
  /\ UNCHANGED <<kown, userVars>>

KUnmap(b) ==
  /\ kmap[b] > 0
  /\ SetMmb(b, Unmapped(mmb[b]))
  /\ kmap' = [kmap EXCEPT ![b] = @ - 1]
  /\ UNCHANGED <<kown, userVars>>

-----------------------------------------------------------------------------
FileStep(f) ==
  \/ Open(f) \/ AllocInfo(f) \/ AllocNoInfo(f)
  \/ DiscardPut(f) \/ DiscardFree(f)
  \/ Close(f) \/ Closed(f)
  \/ \E b \in Blocks :
       \/ Alloc(f, b) \/ Free(f, b)
       \/ AddRef(f, b) \/ DecRef(f, b) \/ Sweep(f, b)
       \/ \E how \in Unmaps : Unmap(f, b, how)
       \/ \E c \in BOOLEAN : Remap(f, b, c) \/ RemapFirst(f, b, c)

KernStep(b) ==
  \/ KAlloc(b) \/ KFree(b) \/ KUnmap(b)
  \/ \E c \in BOOLEAN : KMap(b, c)

Next ==
  \/ \E f \in Files : FileStep(f) \/ MunmapLeft(f)
  \/ \E b \in Blocks : KernStep(b) \/ Munmap(b)

Spec == Init /\ [][Next]_vars

-----------------------------------------------------------------------------
(* Properties *)

\* Every count is a natural number, every field has its kind.
TypeOK ==
  /\ mmb \in [Blocks -> [live : BOOLEAN, phy : Nat, map : Nat,
                         kern : {"none", "plain", "cached"}, rel : BOOLEAN]]
  /\ info \in [Blocks -> [file : Files \cup {Nobody}, mapped : BOOLEAN,
                          cached : BOOLEAN, map : Nat, ref : Nat,
                          delayed : BOOLEAN]]
  /\ vma \subseteq Blocks /\ kown \subseteq Blocks
  /\ left \subseteq Files /\ closing \subseteq Files
  /\ pc \in [Files -> [at : Places, b : Blocks \cup {Nobody}]]
  /\ kmap \in [Blocks -> Nat]

\* The file that is in the middle of an ioctl or a close on b.
Busy(f, b) == pc[f].b = b
Putting(b) == \E f \in Files : pc[f] = [at |-> "put", b |-> b]

\* What the counts of a block must come to: one for the file it belongs to,
\* one for each reference the mmb_info counts, also while the file is giving
\* the block up; and one for each kernel mapping.
UserRefs(b) == (IF info[b].file # Nobody THEN 1 + info[b].ref ELSE 0)
               + (IF Putting(b) THEN 1 ELSE 0)

\* phy_ref and map_ref of a block are what its file and the kernel modules
\* hold, through failed remaps and unmaps, refused frees and closes.
RefsCounted ==
  \A b \in Blocks : mmb[b].live =>
    mmb[b].phy = UserRefs(b) /\ mmb[b].map = kmap[b]

\* A block exists exactly while somebody holds it, by a record, a pointer or
\* a mapping that is counted: nobody is left with a freed block, and no block
\* outlives its last holder, however the free, the puts, the unmaps and a
\* close follow each other (media-mem.c, mmz_mmb_put and mmz_mmb_free).  Of
\* the mappings an unmap left this is not said: the code no longer counts
\* them, and frees the block under them.
Held(b) ==
  \/ info[b].file # Nobody \/ b \in vma \/ b \in kown \/ kmap[b] > 0
  \/ \E f \in Files : Busy(f, b)
LiveWhileHeld == \A b \in Blocks : mmb[b].live <=> Held(b)

\* A free that was put off waits for a reference; with none left it can only
\* be waiting behind an unmap that mmz_vma_check refused, which leaves the
\* address, whether or not the mapping is there still (mmz-userdev.c,
\* ioctl_mmb_user_unmap).
DelayedFreeWaits ==
  \A b \in Blocks : info[b].delayed =>
    info[b].map > 0 \/ info[b].ref > 0 \/ info[b].mapped

\* While a block is mapped, for a process or for the kernel, a further
\* mapping does not change its cache type: "should not be remapped with
\* confusing cache type" (mmz-userdev.c, ioctl_mmb_user_remap; allocator.c,
\* __mmb_map2kern).
OneCacheType ==
  [][\A b \in Blocks :
       /\ info[b].map > 0 /\ info'[b].map > 0 => info'[b].cached = info[b].cached
       /\ mmb[b].map > 0 /\ mmb'[b].map > 0 => mmb'[b].kern = mmb[b].kern]_vars
=============================================================================
