----------------------------- MODULE MmzAllocV2 -----------------------------
(***************************************************************************)
(* The second way to ask for media memory, __mmb_alloc_v2 of allocator.c,  *)
(* which rounds a size as the zone it looks at wants it.  Only the search  *)
(* from low addresses is modelled: the one from high addresses reads a     *)
(* bitmap that no zone has.                                                *)
(***************************************************************************)
EXTENDS MmzAlloc

PowerOf2(n) == CHOOSE p \in {2 ^ k : k \in 0..30} : p >= n /\ \A k \in 0..30 : 2 ^ k >= n => p <= 2 ^ k

Rounded(z, size) ==
  CASE z.type = "slab" -> PowerOf2(size)
    [] z.type = "eq"   -> Align2(size, z.balign)
    [] OTHER           -> size

\* The size after the first i zones: it is rounded again at every zone that
\* matches, and never set back.
SizeAt(size, name) ==
  LET at[i \in 0..Len(zones)] ==
        IF i = 0 THEN GrainAlign(size)
        ELSE IF Matches(zones[i], name) THEN Rounded(zones[i], at[i - 1])
        ELSE at[i - 1]
  IN at

\* The block has the length rounded for the last zone looked at.  (The most it
\* gives is a constant of its own, which is where max_malloc_size begins.)
AllocV2(size, align, name) ==
  /\ loaded /\ size # 0 /\ size <= MaxMalloc
  /\ LET at == SizeAt(size, name) IN
     \E i \in DOMAIN zones :
       /\ Matches(zones[i], name)
       /\ \A j \in 1..(i - 1) : Matches(zones[j], name) => Region(zones[j], GrainAlign(at[j]), align) = {}
       /\ \E s \in Region(zones[i], GrainAlign(at[i]), align), m \in Mmbs \ DOMAIN mmb :
            Enter(m, zones[i], s, at[Len(zones)])
  /\ UNCHANGED <<todo, loaded, zones, maxSize>>

NextV2 ==
  \/ Next
  \/ \E size \in Sizes, align \in Aligns, name \in Asked : AllocV2(size, align, name)

SpecV2 == Init /\ [][NextV2]_vars
=============================================================================
