------------------------------ MODULE MmzAlloc ------------------------------
(***************************************************************************)
(* The allocator of media memory, kernel/osal/linux/kernel/mmz: the zones  *)
(* the module parameter "mmz" lists (media-mem.c) and the best-fit search  *)
(* for blocks in them (allocator.c).  Everything happens under mmz_lock,   *)
(* so that an operation is a step.  Addresses and lengths are unsigned     *)
(* words and wrap.                                                         *)
(*                                                                         *)
(* A zone's list of blocks is kept in the order of their addresses; here   *)
(* it is the set of the blocks.                                            *)
(***************************************************************************)
EXTENDS Integers, Sequences

CONSTANTS
  Word,       \* unsigned long has the values 0 .. Word - 1
  Grain,      \* PAGE_SIZE
  RamStart, RamEnd,  \* the kernel's own memory: PHYS_OFFSET, high_memory
  Tables,     \* the lists of zones the parameter may hold
  Names,      \* what zones are called
  NoName,     \* an empty name
  Sizes, Aligns, Asked,  \* the sizes, alignments and zones callers ask for
  MaxMalloc,  \* what max_malloc_size begins as: 1 GB
  Mmbs        \* bound: what kmalloc has for blocks

ZoneRecords ==
  [name : Names, start : 0..(Word - 1), nbytes : 0..(Word - 1),
   type : {"default", "slab", "eq"}, balign : 0..(Word - 1)]

ASSUME MmzAssumption ==
  /\ Word \in Nat /\ Grain \in 1..(Word - 1)
  /\ RamStart \in 0..(Word - 1) /\ RamEnd \in RamStart..(Word - 1)
  /\ Tables \subseteq Seq(ZoneRecords)
  /\ Sizes \subseteq 0..(Word - 1) /\ Aligns \subseteq 0..(Word - 1)
  /\ Asked \subseteq Names \cup {NoName} /\ MaxMalloc \in 0..(Word - 1)

VARIABLES
  todo,    \* zones of the parameter that are yet to be registered
  loaded,  \* media_mem_init has succeeded
  zones,   \* mmz_list
  maxSize, \* max_malloc_size
  mmb      \* the blocks there are, each with its zone, address and length

vars == <<todo, loaded, zones, maxSize, mmb>>

Init ==
  /\ todo \in Tables /\ loaded = FALSE
  /\ zones = <<>> /\ maxSize = MaxMalloc /\ mmb = [m \in {} |-> 0]

-----------------------------------------------------------------------------
(* Words *)

Add(x, y) == (x + y) % Word
Sub(x, y) == (x - y) % Word

\* mmz_align2: up to a multiple of g
Align2(x, g) == (Add(x, g - 1) \div g) * g

GrainAlign(x) == Align2(x, Grain)

-----------------------------------------------------------------------------
(* Zones *)

End(z) == Add(z.start, z.nbytes)

\* (seeded fault: a zone that begins below another is taken for clear of it)
ApartIfBelow(z, p) == z.start >= End(p) \/ z.start < p.start

\* What _check_mmz takes for two zones that do not overlap.
Apart(z, p) ==
  \/ z.start >= End(p)
  \/ z.start < p.start /\ End(z) <= p.start

ClearOfRam(z) == z.start >= RamEnd \/ (z.start < RamStart /\ End(z) <= RamStart)

\* _check_mmz and, after registering, the test for a zone that wraps
Acceptable(z) ==
  /\ z.nbytes # 0 /\ ClearOfRam(z)
  /\ \A i \in DOMAIN zones : Apart(z, zones[i])
  /\ z.start > End(z) => End(z) = 0

\* (seeded fault: the last page is left in)
Untrimmed(z) == z

\* A zone that ends where the words do gives up its last page.
Trimmed(z) ==
  IF End(z) = 0 /\ z.nbytes >= Grain THEN [z EXCEPT !.nbytes = @ - Grain] ELSE z

\* One zone of __allocator_init, which gives up at the first that is refused:
\* then the module is not loaded.  The largest zone yet is also the most a
\* caller may ask for, if that is more than it was.
AddZone ==
  /\ todo # <<>>
  /\ maxSize' = IF Head(todo).nbytes > maxSize THEN Head(todo).nbytes ELSE maxSize
  /\ IF Acceptable(Head(todo))
     THEN /\ zones' = <<Trimmed(Head(todo))>> \o zones
          /\ todo' = Tail(todo) /\ loaded' = (Tail(todo) = <<>>)
     ELSE /\ zones' = <<>> /\ todo' = <<>> /\ UNCHANGED loaded
  /\ UNCHANGED mmb

-----------------------------------------------------------------------------
(* find_fixed_region *)

Blocks(z) == {mmb[m] : m \in {n \in DOMAIN mmb : mmb[n].zone = z}}
Lowest(B) == {b \in B : \A c \in B : b.addr <= c.addr}
Later(B, b) == {c \in B : c.addr > b.addr}

\* (seeded fault: down to a multiple, not up)
StartAt(b, g) == (Add(b.addr, b.len) \div g) * g

\* Where the gap after a block begins
StartAfter(b, g) == Align2(Add(b.addr, b.len), g)

\* The gaps it looks at, each with the address of the block before it.
FirstGaps(z, g) ==
  {[after |-> -1, start |-> Align2(z.start, g), last |-> FALSE,
    blank |-> Sub(c.addr, Align2(z.start, g))] : c \in Lowest(Blocks(z))}

GapsBetween(z, len, g) ==
  UNION {{[after |-> b.addr, start |-> StartAfter(b, g), last |-> FALSE,
           blank |-> Sub(c.addr, StartAfter(b, g))]
            : c \in {d \in Lowest(Later(Blocks(z), b)) :
                       Add(StartAfter(b, g), len) <= d.addr}}
         : b \in Blocks(z)}

LastGaps(z, g) ==
  {[after |-> b.addr, start |-> StartAfter(b, g), last |-> TRUE,
    blank |-> Sub(End(z), StartAfter(b, g))]
     : b \in {c \in Blocks(z) : Later(Blocks(z), c) = {}}}

\* (seeded fault: a gap just large enough will not do)
Larger(gap, len) == gap.blank < Word - 1 /\ gap.blank > len

\* fixed_len begins as the largest word.
Fits(gap, len) == gap.blank < Word - 1 /\ gap.blank >= len

\* The smallest gap that is large enough, the first of several.
BestGaps(z, len, g) ==
  LET G == {gap \in FirstGaps(z, g) \cup GapsBetween(z, len, g) \cup LastGaps(z, g) :
              Fits(gap, len)}
  IN {gap \in G : \A other \in G :
        \/ gap.blank < other.blank
        \/ gap.blank = other.blank /\ gap.after <= other.after}

\* Looked at only for the zone's first block and in its last gap
EndsIn(z, s, len) ==
  /\ GrainAlign(Add(s, len)) <= End(z)
  /\ s >= z.start /\ s < End(z)

Granule(align) == IF GrainAlign(align) = 0 THEN Grain ELSE GrainAlign(align)

\* The address it returns, if any
Region(z, len, align) ==
  LET g == Granule(align)
      s == Align2(z.start, g)
  IN IF Blocks(z) = {}
     THEN {t \in {s} : t # 0 /\ EndsIn(z, t, len)}
     ELSE {gap.start : gap \in {h \in BestGaps(z, len, g) :
             h.start # 0 /\ (h.last => EndsIn(z, h.start, len))}}

-----------------------------------------------------------------------------
(* Blocks *)

\* begin_list_for_each_mmz: without a name, the zones called "anonymous" (the
\* module is loaded with anony=1)
Matches(z, name) == IF name = NoName THEN z.name = "anonymous" ELSE z.name = name

\* do_mmb_alloc
Enter(m, z, addr, len) ==
  mmb' = [n \in DOMAIN mmb \cup {m} |->
            IF n = m THEN [zone |-> z, addr |-> addr, len |-> len] ELSE mmb[n]]

\* __mmb_alloc: the first zone of that name with room for the block
Alloc(size, align, name) ==
  /\ loaded /\ size # 0 /\ size <= maxSize
  /\ LET len == GrainAlign(size) IN
     \E i \in DOMAIN zones :
       /\ Matches(zones[i], name)
       /\ \A j \in 1..(i - 1) : Matches(zones[j], name) => Region(zones[j], len, align) = {}
       /\ \E s \in Region(zones[i], len, align), m \in Mmbs \ DOMAIN mmb :
            Enter(m, zones[i], s, len)
  /\ UNCHANGED <<todo, loaded, zones, maxSize>>

\* __mmb_free
Free(m) ==
  /\ m \in DOMAIN mmb
  /\ mmb' = [n \in DOMAIN mmb \ {m} |-> mmb[n]]
  /\ UNCHANGED <<todo, loaded, zones, maxSize>>

Next ==
  \/ AddZone
  \/ \E size \in Sizes, align \in Aligns, name \in Asked : Alloc(size, align, name)
  \/ \E m \in Mmbs : Free(m)

Spec == Init /\ [][Next]_vars

-----------------------------------------------------------------------------
(* Properties *)

TypeOK ==
  /\ todo \in Seq(ZoneRecords) /\ loaded \in BOOLEAN
  /\ zones \in Seq(ZoneRecords)
  /\ maxSize \in MaxMalloc..(Word - 1)
  /\ DOMAIN mmb \subseteq Mmbs
  /\ \A m \in DOMAIN mmb :
       /\ mmb[m].zone \in ZoneRecords
       /\ mmb[m].addr \in 0..(Word - 1) /\ mmb[m].len \in 1..(Word - 1)
  /\ \A i \in DOMAIN zones : zones[i].start + zones[i].nbytes < Word

Disjoint(a, alen, b, blen) == a + alen <= b \/ b + blen <= a

\* The zones of a loaded module share no memory, neither with each other nor
\* with the kernel: _check_mmz refuses a list with such a mistake in it.  (A
\* zone that ends where the words do and begins below another or below the
\* kernel is the exception: its end has wrapped to 0, and passes for clear.)
ZonesApart ==
  loaded =>
    /\ \A i, j \in DOMAIN zones : i # j =>
         Disjoint(zones[i].start, zones[i].nbytes, zones[j].start, zones[j].nbytes)
    /\ \A i \in DOMAIN zones :
         Disjoint(zones[i].start, zones[i].nbytes, RamStart, RamEnd - RamStart)

\* No two blocks share memory, and each lies in the zone it was asked of.
NoOverlap ==
  /\ \A m, n \in DOMAIN mmb : m # n =>
       Disjoint(mmb[m].addr, mmb[m].len, mmb[n].addr, mmb[n].len)
  /\ \A m \in DOMAIN mmb :
       LET z == mmb[m].zone IN
       /\ z \in {zones[i] : i \in DOMAIN zones}
       /\ z.start <= mmb[m].addr /\ mmb[m].addr + mmb[m].len <= z.start + z.nbytes

\* What find_fixed_region promises, said of the memory and not of its walk:
\* the aligned addresses where a block would be clear of the others ...
Vacant(z, len, g) ==
  {s \in z.start..(z.start + z.nbytes - len) :
     s % g = 0 /\ \A b \in Blocks(z) : Disjoint(s, len, b.addr, b.len)}

\* ... and what comes after such an address: a block, or the zone's end.
NextTaken(z, s) ==
  LET ends == {b.addr : b \in Blocks(z)} \cup {z.start + z.nbytes}
  IN CHOOSE e \in ends : e > s /\ \A f \in ends : f > s => e <= f

FirstOfGaps(z, V) ==
  {v \in V : \A u \in V : u < v => NextTaken(z, u) # NextTaken(z, v)}

\* It finds an address whenever there is one, and takes it where the least
\* memory is left over: an allocation never fails for want of memory that is
\* there.  (Of the zones that are asked for.)
RegionIsBest ==
  \A z \in {zones[i] : i \in DOMAIN zones}, size \in Sizes \ {0},
     g \in {a \in Aligns : a # 0 /\ a % Grain = 0} :
    LET len == GrainAlign(size)
        V   == Vacant(z, len, g)
        R   == Region(z, len, g)
    IN (\E name \in Asked : Matches(z, name)) =>
       /\ R = {} <=> V = {}
       /\ R \subseteq V
       /\ \A s \in R, v \in FirstOfGaps(z, V) :
            NextTaken(z, s) - s <= NextTaken(z, v) - v

\* allocator.c:219 reports "ERROR: media-mem allocator bad" of a block whose
\* address another block of the zone has.
NeverBad ==
  \A m, n \in DOMAIN mmb :
    m # n /\ mmb[m].zone = mmb[n].zone => mmb[m].addr # mmb[n].addr
=============================================================================
