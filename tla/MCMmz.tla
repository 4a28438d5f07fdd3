------------------------------- MODULE MCMmz -------------------------------
(* Instances of MmzAllocV2 for TLC. *)
EXTENDS MmzAllocV2, TLC

Zone(n, s, b, t) == [name |-> n, start |-> s, nbytes |-> b, type |-> t, balign |-> 6]

\* Two zones of one name, one of each other kind, and a page at the very end of
\* the words; and lists a mistake was made in.
Mixed == <<Zone("anonymous", 16, 8, "default"), Zone("anonymous", 24, 10, "default"),
           Zone("slab", 36, 12, "slab"), Zone("eq", 48, 10, "eq"),
           Zone("top", 124, 4, "default")>>
Above   == <<Zone("anonymous", 24, 10, "default"), Zone("eq", 30, 8, "eq")>>
Below   == <<Zone("anonymous", 24, 10, "default"), Zone("eq", 20, 6, "eq")>>
Around  == <<Zone("anonymous", 24, 10, "default"), Zone("eq", 20, 20, "eq")>>
Wraps   == <<Zone("anonymous", 24, 10, "default"), Zone("eq", 124, 8, "eq")>>
InRam   == <<Zone("anonymous", 12, 8, "default")>>
Empty   == <<Zone("anonymous", 24, 0, "default")>>
Lists   == {Mixed, Above, Below, Around, Wraps, InRam, Empty}

\* A zone that does not begin at a multiple of every alignment asked for.
Skewed == {<<Zone("anonymous", 18, 10, "default")>>}

AnyButTop == {NoName, "slab", "eq"}

AnyMmb == Permutations(Mmbs)
=============================================================================
