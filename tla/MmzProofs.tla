----------------------------- MODULE MmzProofs -----------------------------
(***************************************************************************)
(* Blocks of media memory never overlap and never leave their zones, and   *)
(* the search takes the best place there is, for every list of zones whose *)
(* ends and starts suit what is asked for; and so it is when sizes are     *)
(* rounded too, if the zones of a name are of one kind.                    *)
(***************************************************************************)
EXTENDS MmzAllocV2, WellFoundedInduction, TLAPS

\* A zone far enough from the largest word for no sum of the search to wrap.
Far(z) ==
  \A size \in Sizes, align \in Aligns :
    z.start + z.nbytes + GrainAlign(size) + Granule(align) + Grain <= Word

\* A zone that begins at a multiple of every alignment asked for.
Aligned(z) == \A align \in Aligns : Align2(z.start, Granule(align)) = z.start

Sound(z) == z \in ZoneRecords /\ z.start + z.nbytes < Word /\ Far(z) /\ Aligned(z)

SoundTables ==
  /\ \A t \in Tables : \A i \in DOMAIN t : Sound(t[i])
  /\ \A size \in Sizes : size + Grain <= Word
  /\ \A align \in Aligns : align + Grain <= Word

-----------------------------------------------------------------------------
(* Words *)

\* A word stays what it is, a difference below 0 wraps once, and any sum is
\* brought back to a word.
LEMMA ModSmall ==
  ASSUME NEW x \in 0..(Word - 1)
  PROVE  x % Word = x
BY MmzAssumption

LEMMA ModBelow ==
  ASSUME NEW x \in Int, -Word < x, x < 0
  PROVE  x % Word = x + Word
BY MmzAssumption

LEMMA ModRange ==
  ASSUME NEW x \in Int, Word > 0
  PROVE  x % Word \in 0..(Word - 1)
BY MmzAssumption

\* Rounding up to a multiple goes up, and by less than the multiple.
LEMMA Align2Up ==
  ASSUME NEW x \in Nat, NEW g \in Nat \ {0}, x + g <= Word
  PROVE  /\ Align2(x, g) \in Nat
         /\ x <= Align2(x, g) /\ Align2(x, g) < x + g
PROOF
<1> DEFINE y == x + g - 1
<1>1. y \in 0..(Word - 1)
  BY MmzAssumption
<1>2. Add(x, g - 1) = y
  BY <1>1, ModSmall DEF Add
<1> DEFINE q == y \div g
<1>3. q \in Int /\ q * g <= y /\ y < q * g + g
  BY <1>1
<1>4. q * g \in Int
  BY <1>3
<1>5. Align2(x, g) = q * g
  BY <1>2 DEF Align2
<1> QED
  BY <1>3, <1>4, <1>5

\* Among some numbers there is a least.
LEMMA Least ==
  ASSUME NEW S \in SUBSET Nat, S # {}
  PROVE  \E x \in S : \A y \in S : x <= y
PROOF
<1> DEFINE R == OpToRel(<, Nat)
<1>1. \A x, y \in Nat : x < y => <<x, y>> \in R
  BY DEF OpToRel
<1>2. IsWellFoundedOn(R, Nat)
  BY NatLessThanWellFounded
<1> HIDE DEF R
<1>3. PICK x \in S : \A y \in S : <<y, x>> \notin R
  BY <1>2, WFMin
<1>4. \A y \in S : ~(y < x)
  BY <1>1, <1>3
<1> QED
  BY <1>4

\* The multiples of g
Multiple(x, g) == \E k \in Int : x = k * g

\* To leave no remainder is to be a multiple.
LEMMA MultipleMod ==
  ASSUME NEW x \in Int, NEW g \in Nat \ {0}
  PROVE  x % g = 0 <=> Multiple(x, g)
PROOF
<1>1. x = ((x \div g) * g) + (x % g) /\ x \div g \in Int
  OBVIOUS
<1>2. ASSUME x % g = 0 PROVE Multiple(x, g)
  <2>1. x = (x \div g) * g
    BY <1>1, <1>2
  <2> QED
    BY <1>1, <2>1 DEF Multiple
<1>3. ASSUME NEW k \in Int, x = k * g PROVE x % g = 0
  <2>1. (k * g) % g = 0
    OBVIOUS
  <2> QED BY <2>1, <1>3
<1> QED
  BY <1>2, <1>3 DEF Multiple

\* What is less than one step above a multiple is at most that multiple.
LEMMA FactorLeq ==
  ASSUME NEW q \in Int, NEW k \in Int, NEW g \in Nat \ {0}, q * g < k * g + g
  PROVE  q * g <= k * g
PROOF
<1>1. CASE q <= k
  BY <1>1
<1>2. CASE q >= k + 1
  <2>1. q * g >= (k + 1) * g BY <1>2
  <2>2. (k + 1) * g = k * g + g OBVIOUS
  <2> QED BY <2>1, <2>2
<1> QED BY <1>1, <1>2

\* Multiples add up to one, and a multiple of a multiple is one.
LEMMA MultipleSum ==
  ASSUME NEW x \in Int, NEW y \in Int, NEW g \in Int, Multiple(x, g), Multiple(y, g)
  PROVE  Multiple(x + y, g)
PROOF
<1>1. PICK k \in Int : x = k * g BY DEF Multiple
<1>2. PICK j \in Int : y = j * g BY DEF Multiple
<1>3. x + y = (k + j) * g /\ k + j \in Int BY <1>1, <1>2
<1> QED BY <1>3 DEF Multiple

LEMMA MultipleTrans ==
  ASSUME NEW x \in Int, NEW g \in Int, NEW h \in Int, Multiple(x, g), Multiple(g, h)
  PROVE  Multiple(x, h)
PROOF
<1>1. PICK k \in Int : x = k * g BY DEF Multiple
<1>2. PICK j \in Int : g = j * h BY DEF Multiple
<1>3. x = (k * j) * h /\ k * j \in Int BY <1>1, <1>2
<1> QED BY <1>3 DEF Multiple

\* Rounding up gives the least multiple that is not below.
LEMMA Align2Least ==
  ASSUME NEW x \in Nat, NEW g \in Nat \ {0}, x + g <= Word
  PROVE  /\ Multiple(Align2(x, g), g)
         /\ \A v \in Nat : Multiple(v, g) /\ x <= v => Align2(x, g) <= v
PROOF
<1> DEFINE y == x + g - 1
           q == y \div g
<1>1. y \in 0..(Word - 1)
  BY MmzAssumption
<1>2. Add(x, g - 1) = y
  BY <1>1, ModSmall DEF Add
<1>3. q \in Int /\ q * g <= y /\ y < q * g + g
  BY <1>1
<1>4. Align2(x, g) = q * g
  BY <1>2 DEF Align2
<1> HIDE DEF q
<1>5. Multiple(Align2(x, g), g) BY <1>3, <1>4 DEF Multiple
<1>6. ASSUME NEW v \in Nat, Multiple(v, g), x <= v PROVE q * g <= v
  <2>1. PICK k \in Int : v = k * g BY <1>6 DEF Multiple
  <2>2. q * g < k * g + g
    <3>1. k * g \in Int /\ q * g \in Int BY <1>3
    <3> QED BY <1>3, <1>6, <2>1, <3>1
  <2> QED BY <1>3, <2>1, <2>2, FactorLeq
<1> QED BY <1>4, <1>5, <1>6

-----------------------------------------------------------------------------
(* The search *)

\* A block that begins at s and is len long would lie in z, clear of others.
Clear(z, s, len) ==
  /\ s \in Nat /\ z.start <= s /\ s + len <= z.start + z.nbytes
  /\ \A b \in Blocks(z) : Disjoint(s, len, b.addr, b.len)

\* The blocks of z are in it and do not overlap.
Orderly(z) ==
  /\ \A b \in Blocks(z) :
       /\ b.addr \in Nat /\ b.len \in Nat \ {0}
       /\ z.start <= b.addr /\ b.addr + b.len <= z.start + z.nbytes
  /\ \A b, c \in Blocks(z) : b # c => Disjoint(b.addr, b.len, c.addr, c.len)

\* find_fixed_region returns an address only where the block fits.
LEMMA RegionIsClear ==
  ASSUME NEW z, Sound(z), Orderly(z),
         NEW align \in Aligns, align + Grain <= Word,
         NEW len \in Nat \ {0}, NEW g, g = Granule(align),
         z.start + z.nbytes + len + g + Grain <= Word,
         NEW s \in Region(z, len, align)
  PROVE  Clear(z, s, len)
PROOF
<1> DEFINE B == Blocks(z)
           top == z.start + z.nbytes
<1>1. /\ z.start \in Nat /\ z.nbytes \in Nat /\ top \in Nat /\ top < Word
      /\ Word \in Nat /\ Grain \in Nat \ {0}
  BY MmzAssumption DEF Sound, ZoneRecords
<1>2. g \in Nat \ {0}
  <2>1. align \in Nat
    BY MmzAssumption
  <2>2. GrainAlign(align) \in Nat
    BY <2>1, <1>1, Align2Up DEF GrainAlign
  <2> QED
    BY <2>2, <1>1 DEF Granule
<1>3. End(z) = top
  BY <1>1, ModSmall DEF End, Add
<1>4. Align2(z.start, g) = z.start
  BY DEF Sound, Aligned
\* what EndsIn shows of an address at most g past the zone's end
<1>5. ASSUME NEW t \in Nat, t < top + g, EndsIn(z, t, len)
      PROVE  z.start <= t /\ t + len <= top
  <2>1. t + len \in 0..(Word - 1)
    BY <1>1, <1>2, <1>5
  <2>2. Add(t, len) = t + len
    BY <2>1, ModSmall DEF Add
  <2>3. t + len <= GrainAlign(t + len)
    BY <1>1, <1>2, <1>5, <2>1, Align2Up DEF GrainAlign
  <2>4. GrainAlign(t + len) \in Nat
    BY <1>1, <1>2, <1>5, <2>1, Align2Up DEF GrainAlign
  <2> QED
    BY <1>1, <1>3, <1>5, <2>1, <2>2, <2>3, <2>4 DEF EndsIn
<1>6. CASE Blocks(z) = {}
  <2>1. s = z.start /\ EndsIn(z, s, len)
    BY <1>4, <1>6 DEF Region
  <2> QED
    BY <2>1, <1>1, <1>2, <1>5, <1>6 DEF Clear
<1>7. CASE Blocks(z) # {}
  <2>1. PICK gap \in BestGaps(z, len, g) : s = gap.start /\ (gap.last => EndsIn(z, s, len))
    BY <1>7 DEF Region
  <2>2. /\ gap \in FirstGaps(z, g) \cup GapsBetween(z, len, g) \cup LastGaps(z, g)
        /\ Fits(gap, len)
    BY <2>1 DEF BestGaps
  \* where a gap begins
  <2>3. ASSUME NEW b \in B
        PROVE  /\ StartAfter(b, g) \in Nat
               /\ b.addr + b.len <= StartAfter(b, g) /\ StartAfter(b, g) < b.addr + b.len + g
    <3>1. b.addr + b.len \in Nat /\ b.addr + b.len <= top
      BY <1>1 DEF Orderly
    <3>2. Add(b.addr, b.len) = b.addr + b.len
      BY <3>1, <1>1, ModSmall DEF Add
    <3>3. b.addr + b.len + g <= Word
      BY <3>1, <1>1, <1>2
    <3> QED
      BY <3>1, <3>2, <3>3, <1>2, Align2Up DEF StartAfter
  <2>4. CASE gap \in FirstGaps(z, g)
    <3>1. PICK c \in Lowest(B) : s = z.start /\ gap.blank = Sub(c.addr, z.start)
      BY <2>1, <2>4, <1>4 DEF FirstGaps
    <3>2. c \in B /\ \A b \in B : c.addr <= b.addr
      BY <3>1 DEF Lowest
    <3>3. c.addr - z.start \in 0..(Word - 1)
      BY <3>2, <1>1 DEF Orderly
    <3>4. len <= c.addr - z.start
      BY <3>1, <3>3, <2>2, ModSmall DEF Fits, Sub
    <3>5. s \in Nat /\ z.start <= s /\ s + len <= c.addr /\ c.addr <= top
      BY <3>1, <3>2, <3>4, <1>1 DEF Orderly
    <3>6. \A b \in B : Disjoint(s, len, b.addr, b.len)
      BY <3>2, <3>5 DEF Disjoint, Orderly
    <3> QED
      BY <3>5, <3>6, <3>2, <1>1 DEF Clear, Orderly
  <2>5. CASE gap \in GapsBetween(z, len, g)
    <3>1. PICK b \in B, c \in B :
             /\ c \in Lowest(Later(B, b))
             /\ s = StartAfter(b, g) /\ Add(StartAfter(b, g), len) <= c.addr
      BY <2>1, <2>5 DEF GapsBetween, Lowest, Later
    <3>2. c \in B /\ b.addr < c.addr /\ \A d \in B : b.addr < d.addr => c.addr <= d.addr
      BY <3>1 DEF Lowest, Later, Orderly
    <3>3. s \in Nat /\ b.addr + b.len <= s /\ s < top + g
      BY <3>1, <2>3, <1>1, <1>2 DEF Orderly
    <3>4. s + len \in 0..(Word - 1)
      BY <3>3, <1>1, <1>2
    <3>5. s + len <= c.addr
      BY <3>1, <3>4, ModSmall DEF Add
    <3>6. \A d \in B : Disjoint(s, len, d.addr, d.len)
      <4> TAKE d \in B
      <4>1. CASE b.addr < d.addr
        BY <4>1, <3>2, <3>3, <3>5 DEF Disjoint, Orderly
      <4>2. CASE d.addr <= b.addr
        <5>1. d.addr + d.len <= b.addr + b.len
          BY <4>2, <3>1 DEF Disjoint, Orderly
        <5> QED
          BY <5>1, <3>3 DEF Disjoint, Orderly
      <4> QED
        BY <4>1, <4>2 DEF Orderly
    <3> QED
      BY <3>2, <3>3, <3>5, <3>6, <1>1 DEF Clear, Orderly
  <2>6. CASE gap \in LastGaps(z, g)
    <3>1. PICK b \in B : s = StartAfter(b, g) /\ Later(B, b) = {} /\ EndsIn(z, s, len)
      BY <2>1, <2>6 DEF LastGaps
    <3>2. \A d \in B : d.addr <= b.addr
      BY <3>1 DEF Later, Orderly
    <3>3. s \in Nat /\ b.addr + b.len <= s /\ s < top + g
      BY <3>1, <2>3, <1>1, <1>2 DEF Orderly
    <3>4. \A d \in B : Disjoint(s, len, d.addr, d.len)
      <4> TAKE d \in B
      <4>1. d.addr + d.len <= b.addr + b.len
        BY <3>1, <3>2 DEF Disjoint, Orderly
      <4> QED
        BY <4>1, <3>3 DEF Disjoint, Orderly
    <3> QED
      BY <3>1, <3>3, <3>4, <1>5 DEF Clear
  <2> QED
    BY <2>2, <2>4, <2>5, <2>6
<1> QED
  BY <1>6, <1>7

-----------------------------------------------------------------------------
(* The gaps, and the addresses in them *)

\* Where a gap may end: at a block or with the zone
Ends(z) == {b.addr : b \in Blocks(z)} \cup {z.start + z.nbytes}

\* e is where what comes after s begins.
NextIs(z, s, e) == e \in Ends(z) /\ e > s /\ \A f \in Ends(z) : f > s => e <= f

\* There is one such end, and NextTaken is it.
LEMMA NextTakenIs ==
  ASSUME NEW z, Ends(z) \subseteq Nat, NEW s, NEW e, NextIs(z, s, e)
  PROVE  NextTaken(z, s) = e
PROOF
<1>1. NextTaken(z, s) = CHOOSE x \in Ends(z) : x > s /\ \A f \in Ends(z) : f > s => x <= f
  BY DEF NextTaken, Ends
<1>2. NextIs(z, s, NextTaken(z, s))
  BY <1>1 DEF NextIs
<1> QED
  BY <1>2 DEF NextIs

\* All the gaps the search looks at
Gaps(z, len, g) == FirstGaps(z, g) \cup GapsBetween(z, len, g) \cup LastGaps(z, g)

\* What the search is asked: len in a zone, from a multiple of g.
Asks(z, len, g) ==
  /\ Sound(z) /\ Orderly(z) /\ z.start # 0
  /\ g \in Nat \ {0} /\ Multiple(g, Grain) /\ Align2(z.start, g) = z.start
  /\ len \in Nat \ {0} /\ Multiple(len, Grain)
  /\ z.start + z.nbytes + len + g + Grain <= Word

\* What a question that suits the zone says of the zone and its blocks: no sum
\* wraps, and the first multiple after a block is the least there is.
LEMMA AsksIs ==
  ASSUME NEW z, NEW len, NEW g, Asks(z, len, g)
  PROVE  /\ z.start \in Nat \ {0} /\ z.nbytes \in Nat /\ Word \in Nat /\ Grain \in Nat \ {0}
         /\ g \in Nat \ {0} /\ len \in Nat \ {0} /\ z.start + z.nbytes \in Nat
         /\ End(z) = z.start + z.nbytes /\ Ends(z) \subseteq Nat
         /\ Multiple(z.start, g)
         /\ \A b \in Blocks(z) :
              /\ b.addr \in Nat /\ b.len \in Nat \ {0}
              /\ z.start <= b.addr /\ b.addr + b.len <= z.start + z.nbytes
              /\ StartAfter(b, g) \in Nat /\ Multiple(StartAfter(b, g), g)
              /\ b.addr + b.len <= StartAfter(b, g) /\ StartAfter(b, g) < b.addr + b.len + g
              /\ \A v \in Nat : Multiple(v, g) /\ b.addr + b.len <= v => StartAfter(b, g) <= v
PROOF
<1>1. /\ z.start \in Nat \ {0} /\ z.nbytes \in Nat /\ Word \in Nat /\ Grain \in Nat \ {0}
      /\ g \in Nat \ {0} /\ len \in Nat \ {0} /\ z.start + z.nbytes \in 0..(Word - 1)
  BY MmzAssumption DEF Asks, Sound, ZoneRecords
<1>2. End(z) = z.start + z.nbytes
  BY <1>1, ModSmall DEF End, Add
<1>3. \A b \in Blocks(z) : /\ b.addr \in Nat /\ b.len \in Nat \ {0}
                           /\ z.start <= b.addr /\ b.addr + b.len <= z.start + z.nbytes
  BY DEF Asks, Orderly
<1>4. Multiple(z.start, g)
  <2>1. z.start + g <= Word
    BY <1>1 DEF Asks
  <2> QED
    BY <1>1, <2>1, Align2Least DEF Asks
<1>5. ASSUME NEW b \in Blocks(z)
      PROVE  /\ StartAfter(b, g) \in Nat /\ Multiple(StartAfter(b, g), g)
             /\ b.addr + b.len <= StartAfter(b, g) /\ StartAfter(b, g) < b.addr + b.len + g
             /\ \A v \in Nat : Multiple(v, g) /\ b.addr + b.len <= v => StartAfter(b, g) <= v
  <2> DEFINE x == b.addr + b.len
  <2>1. x \in 0..(Word - 1) /\ x \in Nat /\ x + g <= Word
    BY <1>1, <1>3 DEF Asks
  <2>2. Add(b.addr, b.len) = x
    BY <2>1, ModSmall DEF Add
  <2> HIDE DEF x
  <2>3. StartAfter(b, g) = Align2(x, g)
    BY <2>2 DEF StartAfter
  <2>4. Align2(x, g) \in Nat /\ x <= Align2(x, g) /\ Align2(x, g) < x + g
    BY <1>1, <2>1, Align2Up
  <2>5. Multiple(Align2(x, g), g) /\ \A v \in Nat : Multiple(v, g) /\ x <= v => Align2(x, g) <= v
    BY <1>1, <2>1, Align2Least
  <2> QED
    BY <2>3, <2>4, <2>5 DEF x
<1>6. Ends(z) \subseteq Nat
  BY <1>1, <1>3 DEF Ends
<1> QED
  BY <1>1, <1>2, <1>3, <1>4, <1>5, <1>6

\* Where a block fits, EndsIn finds no fault; past the zone's end it does.
LEMMA EndsInIs ==
  ASSUME NEW z, NEW len, NEW g, Asks(z, len, g), NEW s \in Nat
  PROVE  /\ Multiple(s, g) /\ z.start <= s /\ s + len <= z.start + z.nbytes => EndsIn(z, s, len)
         /\ EndsIn(z, s, len) => s < z.start + z.nbytes
PROOF
<1>1. /\ z.start \in Nat /\ z.nbytes \in Nat /\ Word \in Nat /\ Grain \in Nat \ {0}
      /\ g \in Nat /\ len \in Nat \ {0} /\ End(z) = z.start + z.nbytes
  BY AsksIs
<1>2. ASSUME Multiple(s, g), z.start <= s, s + len <= z.start + z.nbytes
      PROVE  EndsIn(z, s, len)
  <2> DEFINE x == s + len
  <2>1. x \in 0..(Word - 1) /\ x \in Nat /\ x + Grain <= Word
    BY <1>1, <1>2 DEF Asks
  <2>2. Add(s, len) = x
    BY <2>1, ModSmall DEF Add
  <2>3. Multiple(s, Grain)
    BY <1>1, <1>2, MultipleTrans DEF Asks
  <2>4. Multiple(x, Grain)
    BY <1>1, <2>3, MultipleSum DEF Asks
  <2> HIDE DEF x
  <2>5. GrainAlign(x) <= x
    BY <1>1, <2>1, <2>4, Align2Least DEF GrainAlign
  <2>6. GrainAlign(x) \in Nat
    BY <1>1, <2>1, Align2Up DEF GrainAlign
  <2> QED
    BY <1>1, <1>2, <2>1, <2>2, <2>5, <2>6 DEF EndsIn, x
<1> QED
  BY <1>1, <1>2 DEF EndsIn

\* v is a multiple of g with room for the block from there.
Room(z, len, g, v) ==
  /\ v \in Nat /\ Multiple(v, g) /\ z.start <= v /\ v + len <= z.start + z.nbytes
  /\ \A b \in Blocks(z) : v + len <= b.addr \/ b.addr + b.len <= v

\* Vacant, said with the arithmetic of the proofs
LEMMA VacantIs ==
  ASSUME NEW z, NEW len, NEW g, Asks(z, len, g), NEW v
  PROVE  v \in Vacant(z, len, g) <=> Room(z, len, g, v)
PROOF
<1>1. z.start \in Nat /\ z.nbytes \in Nat /\ len \in Nat /\ g \in Nat \ {0}
  BY AsksIs
<1>2. v \in z.start..(z.start + z.nbytes - len)
        <=> v \in Nat /\ z.start <= v /\ v + len <= z.start + z.nbytes
  BY <1>1
<1>3. v \in Nat => (v % g = 0 <=> Multiple(v, g))
  BY <1>1, MultipleMod
<1> QED
  BY <1>2, <1>3 DEF Vacant, Room, Disjoint

\* A gap whose end does not lie before its start: the block fits where it
\* begins, and the gap goes on to what comes next.
Unwrapped(z, h) == h.last => h.start <= z.start + z.nbytes

LEMMA GapHasRoom ==
  ASSUME NEW z, NEW len, NEW g, Asks(z, len, g), NEW h \in Gaps(z, len, g),
         len <= h.blank, Unwrapped(z, h)
  PROVE  /\ Room(z, len, g, h.start) /\ NextIs(z, h.start, h.start + h.blank)
         /\ h.blank \in 0..(z.start + z.nbytes)
PROOF
<1> DEFINE top == z.start + z.nbytes
           B == Blocks(z)
<1>1. /\ z.start \in Nat \ {0} /\ z.nbytes \in Nat /\ Word \in Nat /\ Grain \in Nat \ {0}
      /\ g \in Nat \ {0} /\ len \in Nat \ {0} /\ top \in Nat /\ top < Word
      /\ End(z) = top /\ Multiple(z.start, g) /\ Align2(z.start, g) = z.start
  <2>1. /\ z.start \in Nat \ {0} /\ z.nbytes \in Nat /\ Word \in Nat /\ Grain \in Nat \ {0}
        /\ g \in Nat \ {0} /\ len \in Nat \ {0} /\ top \in Nat
        /\ End(z) = top /\ Multiple(z.start, g)
    BY AsksIs
  <2>2. top + len + g + Grain <= Word /\ Align2(z.start, g) = z.start
    BY DEF Asks
  <2> QED
    BY <2>1, <2>2
<1>2. \A b \in B :
        /\ b.addr \in Nat /\ b.len \in Nat \ {0}
        /\ z.start <= b.addr /\ b.addr + b.len <= top
        /\ StartAfter(b, g) \in Nat /\ Multiple(StartAfter(b, g), g)
        /\ b.addr + b.len <= StartAfter(b, g)
  BY AsksIs
<1>3. \A b, c \in B : b.addr < c.addr => b.addr + b.len <= c.addr
  BY <1>2 DEF Asks, Orderly, Disjoint
<1>4. \A b, c \in B : b.addr = c.addr => b = c
  BY <1>2 DEF Asks, Orderly, Disjoint
<1>5. \A f : f \in Ends(z) <=> f = top \/ \E b \in B : f = b.addr
  BY DEF Ends
<1> HIDE DEF top, B
<1>6. CASE h \in FirstGaps(z, g)
  <2>1. PICK c \in Lowest(B) : h.start = z.start /\ h.blank = Sub(c.addr, z.start)
    BY <1>1, <1>6 DEF FirstGaps, B
  <2>2. c \in B /\ \A b \in B : c.addr <= b.addr
    BY <2>1 DEF Lowest
  <2>3. c.addr - z.start \in 0..(Word - 1)
    BY <1>1, <1>2, <2>2
  <2>4. h.blank = c.addr - z.start
    BY <2>1, <2>3, ModSmall DEF Sub
  <2>5. /\ h.start + len <= c.addr /\ h.start + h.blank = c.addr /\ h.start \in Nat
        /\ h.blank \in 0..top /\ c.addr <= top /\ c.addr > h.start
    BY <1>1, <1>2, <2>1, <2>2, <2>3, <2>4
  <2>6. \A b \in B : h.start + len <= b.addr
    BY <1>1, <1>2, <2>2, <2>5
  <2>7. Room(z, len, g, h.start)
    BY <1>1, <1>2, <2>1, <2>2, <2>5, <2>6 DEF Room, top, B
  <2>8. NextIs(z, h.start, c.addr)
    BY <1>5, <2>2, <2>5 DEF NextIs
  <2> QED
    BY <2>5, <2>7, <2>8 DEF top
<1>7. CASE h \in GapsBetween(z, len, g)
  <2>1. PICK b \in B : \E c \in Lowest(Later(B, b)) :
           /\ h.start = StartAfter(b, g) /\ h.blank = Sub(c.addr, StartAfter(b, g))
           /\ Add(StartAfter(b, g), len) <= c.addr
    BY <1>7 DEF GapsBetween, B
  <2>2. PICK c \in Lowest(Later(B, b)) :
           /\ h.start = StartAfter(b, g) /\ h.blank = Sub(c.addr, StartAfter(b, g))
           /\ Add(StartAfter(b, g), len) <= c.addr
    BY <2>1
  <2>3. c \in B /\ b.addr < c.addr /\ \A d \in B : b.addr < d.addr => c.addr <= d.addr
    BY <1>2, <2>2 DEF Lowest, Later
  <2>4. StartAfter(b, g) < b.addr + b.len + g
    BY AsksIs DEF B
  <2>5. h.start + len \in 0..(Word - 1) /\ h.start \in Nat
    BY <1>1, <1>2, <2>2, <2>4 DEF Asks, top
  <2>6. h.start + len <= c.addr
    BY <2>2, <2>5, ModSmall DEF Add
  <2>7. c.addr - h.start \in 0..(Word - 1)
    BY <1>1, <1>2, <2>3, <2>5, <2>6
  <2>8. h.blank = c.addr - h.start
    BY <2>2, <2>7, ModSmall DEF Sub
  <2>9. /\ h.start + h.blank = c.addr /\ h.blank \in 0..top /\ c.addr <= top
        /\ c.addr > h.start /\ z.start <= h.start /\ b.addr + b.len <= h.start
    BY <1>1, <1>2, <2>2, <2>3, <2>5, <2>6, <2>8
  <2>10. \A d \in B : h.start + len <= d.addr \/ d.addr + d.len <= h.start
    <3> SUFFICES ASSUME NEW d \in B
                 PROVE  h.start + len <= d.addr \/ d.addr + d.len <= h.start
      OBVIOUS
    <3>1. CASE b.addr < d.addr
      BY <1>1, <1>2, <2>3, <2>5, <2>6, <3>1
    <3>2. CASE d.addr <= b.addr
      <4>1. d.addr + d.len <= b.addr + b.len
        BY <1>2, <1>3, <1>4, <3>2
      <4> QED
        BY <1>2, <2>5, <2>9, <4>1
    <3> QED
      BY <1>2, <3>1, <3>2
  <2>11. Room(z, len, g, h.start)
    BY <1>1, <1>2, <2>2, <2>3, <2>5, <2>6, <2>9, <2>10 DEF Room, top, B
  <2>12. \A d \in B : d.addr > h.start => c.addr <= d.addr
    BY <1>2, <2>3, <2>5, <2>9
  <2>13. NextIs(z, h.start, c.addr)
    BY <1>5, <2>3, <2>9, <2>12 DEF NextIs
  <2> QED
    BY <2>9, <2>11, <2>13 DEF top
<1>8. CASE h \in LastGaps(z, g)
  <2>1. PICK b \in B : /\ Later(B, b) = {} /\ h.start = StartAfter(b, g) /\ h.last
                       /\ h.blank = Sub(End(z), StartAfter(b, g))
    BY <1>8 DEF LastGaps, B
  <2>2. \A d \in B : d.addr <= b.addr
    BY <1>2, <2>1 DEF Later
  <2>3. h.start <= top /\ h.start \in Nat
    BY <1>2, <2>1 DEF Unwrapped, top
  <2>4. top - h.start \in 0..(Word - 1)
    BY <1>1, <2>3
  <2>5. h.blank = top - h.start
    BY <1>1, <2>1, <2>4, ModSmall DEF Sub
  <2>6. /\ h.start + h.blank = top /\ h.blank \in 0..top /\ h.start + len <= top
        /\ top > h.start /\ z.start <= h.start /\ b.addr + b.len <= h.start
    BY <1>1, <1>2, <2>1, <2>3, <2>5
  <2>7. \A d \in B : d.addr + d.len <= h.start
    BY <1>2, <1>3, <1>4, <2>2, <2>3, <2>6
  <2>8. Room(z, len, g, h.start)
    BY <1>2, <2>1, <2>3, <2>6, <2>7 DEF Room, top, B
  <2>9. \A d \in B : ~(d.addr > h.start)
    BY <1>2, <2>3, <2>7
  <2>10. NextIs(z, h.start, top)
    BY <1>1, <1>5, <2>6, <2>9 DEF NextIs
  <2> QED
    BY <2>6, <2>8, <2>10 DEF top
<1> QED
  BY <1>6, <1>7, <1>8 DEF Gaps

\* The other gap is the one at the end, of a length that wrapped.
LEMMA PastEnd ==
  ASSUME NEW z, NEW len, NEW g, Asks(z, len, g), NEW h \in Gaps(z, len, g), ~Unwrapped(z, h)
  PROVE  /\ h.blank \in Nat /\ h.blank > z.start + z.nbytes
         /\ h.last /\ ~EndsIn(z, h.start, len)
PROOF
<1> DEFINE top == z.start + z.nbytes
<1>1. /\ top \in Nat /\ top < Word /\ End(z) = top /\ Word \in Nat /\ g \in Nat /\ len \in Nat
      /\ top + len + g + Grain <= Word /\ Grain \in Nat \ {0}
  <2>1. /\ top \in Nat /\ End(z) = top /\ Word \in Nat /\ g \in Nat \ {0}
        /\ len \in Nat \ {0} /\ Grain \in Nat \ {0}
    BY AsksIs
  <2>2. top + len + g + Grain <= Word
    BY DEF Asks
  <2> QED
    BY <2>1, <2>2
<1>2. h.last /\ ~(h.start <= top)
  BY DEF Unwrapped
<1>3. h \in LastGaps(z, g)
  BY <1>2 DEF Gaps, FirstGaps, GapsBetween
<1>4. PICK b \in Blocks(z) : /\ h.start = StartAfter(b, g)
                             /\ h.blank = Sub(End(z), StartAfter(b, g))
  BY <1>3 DEF LastGaps
<1>5. h.start \in Nat /\ h.start < top + g
  <2>1. /\ StartAfter(b, g) \in Nat /\ StartAfter(b, g) < b.addr + b.len + g
        /\ b.addr + b.len <= top /\ b.addr \in Nat /\ b.len \in Nat
    BY AsksIs
  <2> QED
    BY <1>1, <1>4, <2>1
<1> HIDE DEF top
<1>6. top - h.start \in Int /\ -Word < top - h.start /\ top - h.start < 0
  BY <1>1, <1>2, <1>5
<1>7. h.blank = top - h.start + Word
  BY <1>1, <1>4, <1>6, ModBelow DEF Sub
<1>8. h.blank \in Nat /\ h.blank > top
  BY <1>1, <1>5, <1>6, <1>7
<1>9. ~EndsIn(z, h.start, len)
  BY <1>1, <1>2, <1>5 DEF EndsIn
<1> QED
  BY <1>2, <1>8, <1>9 DEF top

\* Every address with room for the block lies in a gap that is found, at or
\* after where the gap begins.
LEMMA GapOf ==
  ASSUME NEW z, NEW len, NEW g, Asks(z, len, g), Blocks(z) # {}, NEW v, Room(z, len, g, v)
  PROVE  \E h \in Gaps(z, len, g) :
           /\ h.start \in Nat /\ h.start <= v /\ len <= h.blank /\ Unwrapped(z, h)
           /\ NextIs(z, v, h.start + h.blank)
PROOF
<1> DEFINE top == z.start + z.nbytes
           B == Blocks(z)
<1>1. /\ z.start \in Nat \ {0} /\ z.nbytes \in Nat /\ Word \in Nat /\ Grain \in Nat \ {0}
      /\ g \in Nat \ {0} /\ len \in Nat \ {0} /\ top \in Nat /\ top < Word
      /\ End(z) = top /\ Align2(z.start, g) = z.start
  <2>1. /\ z.start \in Nat \ {0} /\ z.nbytes \in Nat /\ Word \in Nat /\ Grain \in Nat \ {0}
        /\ g \in Nat \ {0} /\ len \in Nat \ {0} /\ top \in Nat
        /\ End(z) = top
    BY AsksIs
  <2>2. top + len + g + Grain <= Word /\ Align2(z.start, g) = z.start
    BY DEF Asks
  <2> QED
    BY <2>1, <2>2
<1>2. \A b \in B :
        /\ b.addr \in Nat /\ b.len \in Nat \ {0}
        /\ z.start <= b.addr /\ b.addr + b.len <= top
        /\ StartAfter(b, g) \in Nat /\ b.addr + b.len <= StartAfter(b, g)
        /\ \A u \in Nat : Multiple(u, g) /\ b.addr + b.len <= u => StartAfter(b, g) <= u
  BY AsksIs
<1>3. /\ v \in Nat /\ Multiple(v, g) /\ z.start <= v /\ v + len <= top
      /\ \A b \in B : v + len <= b.addr \/ b.addr + b.len <= v
  BY DEF Room
<1>4. \A f : f \in Ends(z) <=> f = top \/ \E b \in B : f = b.addr
  BY DEF Ends
\* the lowest block of some
<1>5. ASSUME NEW S \in SUBSET B, S # {} PROVE Lowest(S) # {}
  <2> DEFINE A == {b.addr : b \in S}
  <2>1. A \in SUBSET Nat /\ A # {}
    BY <1>2, <1>5
  <2>2. PICK a \in A : \A y \in A : a <= y
    BY <2>1, Least
  <2>3. PICK b \in S : a = b.addr
    BY <2>2
  <2>4. b \in Lowest(S)
    BY <2>2, <2>3 DEF Lowest
  <2> QED
    BY <2>4
<1> HIDE DEF top
<1>6. CASE \A b \in B : v + len <= b.addr
  <2>1. PICK c : c \in Lowest(B)
    BY <1>5
  <2>2. c \in B /\ \A b \in B : c.addr <= b.addr
    BY <2>1 DEF Lowest
  <2> DEFINE h == [after |-> -1, start |-> z.start, last |-> FALSE, blank |-> Sub(c.addr, z.start)]
  <2>3. h \in Gaps(z, len, g)
    <3>1. h \in FirstGaps(z, g)
      BY <1>1, <2>1 DEF FirstGaps
    <3> QED
      BY <3>1 DEF Gaps
  <2>4. h.start = z.start /\ h.last = FALSE /\ h.blank = Sub(c.addr, z.start)
    OBVIOUS
  <2> HIDE DEF h
  <2>5. c.addr - z.start \in 0..(Word - 1)
    BY <1>1, <1>2, <2>2
  <2>6. h.blank = c.addr - z.start
    BY <2>4, <2>5, ModSmall DEF Sub
  <2>7. h.start + h.blank = c.addr /\ v + len <= c.addr /\ len <= h.blank /\ c.addr > v
    BY <1>1, <1>2, <1>3, <1>6, <2>2, <2>4, <2>6
  <2>8. NextIs(z, v, c.addr)
    <3>1. c.addr \in Ends(z) /\ c.addr \in Nat /\ c.addr <= top
      BY <1>1, <1>2, <1>4, <2>2
    <3>2. \A f \in Ends(z) : c.addr <= f
      BY <1>4, <2>2, <3>1
    <3> QED
      BY <2>7, <3>1, <3>2 DEF NextIs
  <2>9. Unwrapped(z, h)
    BY <2>4 DEF Unwrapped
  <2> QED
    BY <1>1, <1>3, <2>3, <2>4, <2>7, <2>8, <2>9
<1>7. CASE ~(\A b \in B : v + len <= b.addr)
  <2> DEFINE S == {b \in B : b.addr + b.len <= v}
             A == {top - b.addr : b \in S}
  <2>1. A \in SUBSET Nat /\ A # {}
    BY <1>1, <1>2, <1>3, <1>7
  <2>2. PICK a \in A : \A y \in A : a <= y
    BY <2>1, Least
  <2>3. PICK b \in S : a = top - b.addr
    BY <2>2
  <2>4. b \in B /\ b.addr + b.len <= v /\ \A d \in B : d.addr + d.len <= v => d.addr <= b.addr
    BY <1>1, <1>2, <2>2, <2>3
  <2>5. \A d \in B : d.addr > b.addr <=> d.addr >= v + len
    BY <1>1, <1>2, <1>3, <2>4
  <2> DEFINE s == StartAfter(b, g)
  <2>6. s \in Nat /\ s <= v /\ b.addr + b.len <= s
    BY <1>2, <1>3, <2>4
  <2> HIDE DEF S, A
  <2>7. CASE Later(B, b) = {}
    <3> DEFINE h == [after |-> b.addr, start |-> s, last |-> TRUE, blank |-> Sub(End(z), s)]
    <3>1. h \in Gaps(z, len, g)
      <4>1. h \in LastGaps(z, g)
        BY <2>4, <2>7 DEF LastGaps
      <4> QED
        BY <4>1 DEF Gaps
    <3>2. h.start = s /\ h.blank = Sub(End(z), s)
      OBVIOUS
    <3> HIDE DEF h, s
    <3>3. top - s \in 0..(Word - 1)
      BY <1>1, <1>3, <2>6
    <3>4. h.blank = top - s
      BY <1>1, <3>2, <3>3, ModSmall DEF Sub
    <3>5. h.start + h.blank = top /\ len <= h.blank /\ top > v /\ h.start <= top
      BY <1>1, <1>3, <2>6, <3>2, <3>4
    <3>6. \A d \in B : ~(d.addr > v)
      <4>1. \A d \in B : ~(d.addr > b.addr)
        BY <2>7 DEF Later
      <4> QED
        BY <1>2, <1>3, <2>4, <4>1
    <3>7. NextIs(z, v, top)
      BY <1>1, <1>4, <3>5, <3>6 DEF NextIs
    <3>8. Unwrapped(z, h)
      BY <3>5 DEF Unwrapped, top
    <3> QED
      BY <2>6, <3>1, <3>2, <3>5, <3>7, <3>8
  <2>8. CASE Later(B, b) # {}
    <3>1. PICK c : c \in Lowest(Later(B, b))
      <4>1. Later(B, b) \in SUBSET B
        BY DEF Later
      <4> QED
        BY <1>5, <2>8, <4>1
    <3>2. c \in B /\ c.addr > b.addr /\ \A d \in B : d.addr > b.addr => c.addr <= d.addr
      BY <3>1 DEF Lowest, Later
    <3>3. v + len <= c.addr /\ c.addr <= top
      BY <1>1, <1>2, <1>3, <2>5, <3>2
    <3> HIDE DEF s
    <3>4. s + len \in 0..(Word - 1)
      BY <1>1, <1>2, <1>3, <2>6, <3>2, <3>3
    <3>5. Add(s, len) <= c.addr
      <4>1. Add(s, len) = s + len
        BY <3>4, ModSmall DEF Add
      <4> QED
        BY <1>1, <1>2, <1>3, <2>6, <3>2, <3>3, <4>1
    <3> DEFINE h == [after |-> b.addr, start |-> s, last |-> FALSE, blank |-> Sub(c.addr, s)]
    <3>6. h \in Gaps(z, len, g)
      <4> DEFINE Near == {d \in Lowest(Later(B, b)) : Add(s, len) <= d.addr}
                 After == {[after |-> b.addr, start |-> s, last |-> FALSE,
                            blank |-> Sub(d.addr, s)] : d \in Near}
      <4>1. h \in After
        BY <3>1, <3>5
      <4>2. After \in {{[after |-> e.addr, start |-> StartAfter(e, g), last |-> FALSE,
                         blank |-> Sub(d.addr, StartAfter(e, g))]
                          : d \in {f \in Lowest(Later(B, e)) :
                                     Add(StartAfter(e, g), len) <= f.addr}}
                       : e \in B}
        BY <2>4 DEF s
      <4>3. h \in GapsBetween(z, len, g)
        BY <4>1, <4>2 DEF GapsBetween
      <4> QED
        BY <4>3 DEF Gaps
    <3>7. h.start = s /\ h.last = FALSE /\ h.blank = Sub(c.addr, s)
      OBVIOUS
    <3> HIDE DEF h
    <3>8. c.addr - s \in 0..(Word - 1)
      BY <1>1, <1>2, <1>3, <2>6, <3>2, <3>3
    <3>9. h.blank = c.addr - s
      BY <3>7, <3>8, ModSmall DEF Sub
    <3>10. h.start + h.blank = c.addr /\ len <= h.blank /\ c.addr > v
      BY <1>1, <1>2, <1>3, <2>6, <3>2, <3>3, <3>7, <3>9
    <3>11. \A d \in B : d.addr > v => c.addr <= d.addr
      BY <1>2, <1>3, <2>4, <3>2
    <3>12. NextIs(z, v, c.addr)
      BY <1>4, <3>2, <3>3, <3>10, <3>11 DEF NextIs
    <3>13. Unwrapped(z, h)
      BY <3>7 DEF Unwrapped
    <3> QED
      BY <2>6, <3>6, <3>7, <3>10, <3>12, <3>13
  <2> QED
    BY <2>7, <2>8
<1> QED
  BY <1>6, <1>7

\* The lengths of gaps and the addresses before them can be compared.
LEMMA GapTyped ==
  ASSUME NEW z, NEW len, NEW g, Asks(z, len, g), NEW h \in Gaps(z, len, g)
  PROVE  h.after \in Int /\ h.after + 1 \in Nat /\ h.blank \in Nat
PROOF
<1>1. /\ z.start \in Nat /\ End(z) \in Nat /\ Word \in Nat \ {0}
      /\ Align2(z.start, g) = z.start
      /\ \A b \in Blocks(z) : b.addr \in Nat /\ StartAfter(b, g) \in Nat
  <2>1. Word \in Nat \ {0}
    BY MmzAssumption
  <2> QED
    BY <2>1, AsksIs DEF Asks
<1>2. \A x, y \in Int : Sub(x, y) \in Nat
  BY <1>1, ModRange DEF Sub
<1> SUFFICES ASSUME NEW x \in Int, NEW y \in Int, NEW n \in Nat,
                    h.after = n - 1, h.blank = Sub(x, y)
             PROVE  h.after \in Int /\ h.after + 1 \in Nat /\ h.blank \in Nat
  <2>1. CASE h \in FirstGaps(z, g)
    <3>1. PICK c \in Blocks(z) : h.after = -1 /\ h.blank = Sub(c.addr, z.start)
      BY <1>1, <2>1 DEF FirstGaps, Lowest
    <3>2. h.after = 0 - 1 /\ c.addr \in Int /\ z.start \in Int
      BY <1>1, <3>1
    <3> QED
      BY <3>1, <3>2
  <2>2. CASE h \in GapsBetween(z, len, g)
    <3>1. PICK b \in Blocks(z), c \in Blocks(z) :
            h.after = b.addr /\ h.blank = Sub(c.addr, StartAfter(b, g))
      BY <2>2 DEF GapsBetween, Lowest, Later
    <3>2. /\ b.addr + 1 \in Nat /\ h.after = (b.addr + 1) - 1
          /\ c.addr \in Int /\ StartAfter(b, g) \in Int
      BY <1>1, <3>1
    <3> QED
      BY <3>1, <3>2
  <2>3. CASE h \in LastGaps(z, g)
    <3>1. PICK b \in Blocks(z) :
            h.after = b.addr /\ h.blank = Sub(End(z), StartAfter(b, g))
      BY <2>3 DEF LastGaps
    <3>2. /\ b.addr + 1 \in Nat /\ h.after = (b.addr + 1) - 1
          /\ End(z) \in Int /\ StartAfter(b, g) \in Int
      BY <1>1, <3>1
    <3> QED
      BY <3>1, <3>2
  <2> QED
    BY <2>1, <2>2, <2>3 DEF Gaps
<1>3. h.after \in Int /\ h.after + 1 \in Nat
  OBVIOUS
<1> QED
  BY <1>2, <1>3

\* When some gap is large enough one of them is the best.
LEMMA BestExists ==
  ASSUME NEW z, NEW len, NEW g, Asks(z, len, g),
         NEW k \in Gaps(z, len, g), Fits(k, len)
  PROVE  BestGaps(z, len, g) # {}
PROOF
<1> DEFINE G == {h \in Gaps(z, len, g) : Fits(h, len)}
           A == {h.blank : h \in G}
<1>1. k \in G
  OBVIOUS
<1>2. \A h \in G : h.after \in Int /\ h.after + 1 \in Nat /\ h.blank \in Nat
  BY GapTyped
<1>3. BestGaps(z, len, g) = {h \in G : \A o \in G : \/ h.blank < o.blank
                                                    \/ h.blank = o.blank /\ h.after <= o.after}
  BY DEF BestGaps, Gaps
<1> HIDE DEF G
<1>4. A \in SUBSET Nat /\ A # {}
  BY <1>1, <1>2
<1>5. PICK a \in A : \A y \in A : a <= y
  BY <1>4, Least
<1> DEFINE C == {h.after + 1 : h \in {o \in G : o.blank = a}}
<1>6. C \in SUBSET Nat /\ C # {}
  BY <1>2, <1>5
<1>7. PICK c \in C : \A y \in C : c <= y
  BY <1>6, Least
<1>8. PICK h \in G : h.blank = a /\ c = h.after + 1
  BY <1>7
<1>9. \A o \in G : o.blank = a => h.after + 1 <= o.after + 1
  BY <1>7, <1>8
<1>10. ASSUME NEW o \in G
       PROVE  \/ h.blank < o.blank
              \/ h.blank = o.blank /\ h.after <= o.after
  <2>1. a <= o.blank
    BY <1>5
  <2> QED
    BY <1>2, <1>8, <1>9, <1>10, <2>1
<1> QED
  BY <1>3, <1>8, <1>10

\* A best gap is a gap that is large enough, and none such is smaller.
LEMMA BestIs ==
  ASSUME NEW z, NEW len, NEW g, Asks(z, len, g), NEW h \in BestGaps(z, len, g)
  PROVE  /\ h \in Gaps(z, len, g) /\ len <= h.blank
         /\ \A o \in Gaps(z, len, g) : Fits(o, len) => h.blank <= o.blank
PROOF
<1>1. h \in Gaps(z, len, g) /\ Fits(h, len)
  BY DEF BestGaps, Gaps
<1>2. \A o \in Gaps(z, len, g) : Fits(o, len) => h.blank < o.blank \/ h.blank = o.blank
  BY DEF BestGaps, Gaps
<1>3. \A o \in Gaps(z, len, g) : o.blank \in Nat
  BY GapTyped
<1>4. len \in Nat
  BY AsksIs
<1> QED
  BY <1>1, <1>2, <1>3, <1>4 DEF Fits

\* find_fixed_region returns an address with room for the block whenever there
\* is one, the first of the smallest gap.
LEMMA RegionIsLeast ==
  ASSUME NEW z, NEW len, NEW align, NEW g, g = Granule(align), Asks(z, len, g)
  PROVE  LET V == Vacant(z, len, g)
             R == Region(z, len, align)
         IN /\ R = {} <=> V = {}
            /\ R \subseteq V
            /\ \A s \in R, v \in FirstOfGaps(z, V) :
                 NextTaken(z, s) - s <= NextTaken(z, v) - v
PROOF
<1> DEFINE V == Vacant(z, len, g)
           R == Region(z, len, align)
           top == z.start + z.nbytes
<1>1. /\ z.start \in Nat \ {0} /\ top \in Nat /\ top + 2 < Word /\ End(z) = top
      /\ Word \in Nat /\ Grain \in Nat \ {0} /\ g \in Nat \ {0} /\ len \in Nat \ {0}
      /\ Multiple(z.start, g) /\ Align2(z.start, g) = z.start
      /\ top + len + g + Grain <= Word
  <2>1. /\ z.start \in Nat \ {0} /\ top \in Nat /\ End(z) = top
        /\ Word \in Nat /\ Grain \in Nat \ {0} /\ g \in Nat \ {0} /\ len \in Nat \ {0}
        /\ Multiple(z.start, g)
    BY AsksIs
  <2>2. top + len + g + Grain <= Word /\ Align2(z.start, g) = z.start
    BY DEF Asks
  <2> QED
    BY <2>1, <2>2
<1>2. \A v : v \in V <=> Room(z, len, g, v)
  BY VacantIs
<1>3. \A s, e : NextIs(z, s, e) => NextTaken(z, s) = e
  BY AsksIs, NextTakenIs
<1>4. \A v, u \in V : v \in FirstOfGaps(z, V) /\ u < v => NextTaken(z, u) # NextTaken(z, v)
  BY DEF FirstOfGaps
<1>5. FirstOfGaps(z, V) \subseteq V
  BY DEF FirstOfGaps
<1> HIDE DEF V, top
<1>6. CASE Blocks(z) = {}
  <2>1. R = {t \in {z.start} : t # 0 /\ EndsIn(z, t, len)}
    BY <1>1, <1>6 DEF Region
  <2> HIDE DEF R
  <2>2. \A v \in V : v \in Nat /\ z.start <= v /\ v + len <= top
    BY <1>2 DEF Room, top
  <2>3. \A v \in V : NextTaken(z, v) = top
    <3>1. Ends(z) = {top}
      BY <1>6 DEF Ends, top
    <3>2. \A v \in V : NextIs(z, v, top)
      BY <1>1, <2>2, <3>1 DEF NextIs
    <3> QED
      BY <1>3, <3>2
  <2>4. ASSUME NEW s \in R PROVE s = z.start /\ s \in V
    <3>1. s = z.start /\ EndsIn(z, s, len)
      BY <2>1
    <3>2. s < top /\ GrainAlign(Add(s, len)) <= top
      BY <1>1, <3>1 DEF EndsIn
    <3> DEFINE x == s + len
    <3>3. x \in 0..(Word - 1) /\ x \in Nat /\ x + Grain <= Word
      BY <1>1, <3>1, <3>2
    <3>4. Add(s, len) = x
      BY <3>3, ModSmall DEF Add
    <3> HIDE DEF x
    <3>5. x <= GrainAlign(x) /\ GrainAlign(x) \in Nat
      BY <1>1, <3>3, Align2Up DEF GrainAlign
    <3>6. x <= top
      BY <1>1, <3>2, <3>3, <3>4, <3>5
    <3>7. Room(z, len, g, s)
      BY <1>1, <1>6, <3>1, <3>6 DEF Room, x, top
    <3> QED
      BY <1>2, <3>1, <3>7
  <2>5. ASSUME V # {} PROVE z.start \in R
    <3>1. z.start + len <= top
      BY <1>1, <2>2, <2>5
    <3>2. EndsIn(z, z.start, len)
      BY <1>1, <3>1, EndsInIs DEF top
    <3> QED
      BY <1>1, <2>1, <3>2
  <2>6. ASSUME NEW s \in R, NEW v \in FirstOfGaps(z, V)
        PROVE  NextTaken(z, s) - s <= NextTaken(z, v) - v
    <3>1. s \in V /\ v \in V /\ s = z.start
      BY <1>5, <2>4
    <3>2. v = s
      BY <1>1, <1>4, <2>2, <2>3, <3>1
    <3> QED
      BY <1>1, <2>2, <2>3, <3>1, <3>2
  <2> QED
    BY <2>4, <2>5, <2>6 DEF R, V
<1>7. CASE Blocks(z) # {}
  <2>1. R = {h.start : h \in {k \in BestGaps(z, len, g) :
                                k.start # 0 /\ (k.last => EndsIn(z, k.start, len))}}
    BY <1>7 DEF Region
  <2> HIDE DEF R
  \* of a gap that fits
  <2>2. ASSUME NEW h \in Gaps(z, len, g), len <= h.blank, Unwrapped(z, h)
        PROVE  /\ h.start \in V /\ h.start \in Nat /\ z.start <= h.start
               /\ NextIs(z, h.start, h.start + h.blank)
               /\ h.blank \in 0..top /\ Fits(h, len) /\ EndsIn(z, h.start, len)
    <3>1. /\ Room(z, len, g, h.start) /\ NextIs(z, h.start, h.start + h.blank)
          /\ h.blank \in 0..top
      BY <2>2, GapHasRoom DEF top
    <3>2. Fits(h, len)
      BY <1>1, <2>2, <3>1 DEF Fits
    <3>3. /\ h.start \in Nat /\ Multiple(h.start, g) /\ z.start <= h.start
          /\ h.start + len <= z.start + z.nbytes
      BY <3>1 DEF Room
    <3>4. EndsIn(z, h.start, len)
      BY <3>3, EndsInIs
    <3> QED
      BY <1>2, <3>1, <3>2, <3>3, <3>4
  \* and of what it returns
  <2>3. ASSUME NEW s \in R
        PROVE  \E h \in BestGaps(z, len, g) : s = h.start /\ Unwrapped(z, h)
    <3>1. PICK h \in BestGaps(z, len, g) : s = h.start /\ (h.last => EndsIn(z, h.start, len))
      BY <2>1
    <3>2. h \in Gaps(z, len, g)
      BY BestIs
    <3>3. Unwrapped(z, h)
      BY <3>1, <3>2, PastEnd
    <3> QED
      BY <3>1, <3>3
  <2>4. ASSUME NEW s \in R
        PROVE  /\ s \in V
               /\ \A o \in Gaps(z, len, g) : Fits(o, len) => NextTaken(z, s) - s <= o.blank
    <3>1. PICK h \in BestGaps(z, len, g) : s = h.start /\ Unwrapped(z, h)
      BY <2>3
    <3>2. /\ h \in Gaps(z, len, g) /\ len <= h.blank
          /\ \A o \in Gaps(z, len, g) : Fits(o, len) => h.blank <= o.blank
      BY BestIs
    <3>3. /\ s \in V /\ s \in Nat /\ NextTaken(z, s) = s + h.blank /\ h.blank \in Int
      BY <1>3, <2>2, <3>1, <3>2
    <3> QED
      BY <3>2, <3>3
  <2>5. ASSUME NEW v \in V
        PROVE  \E k \in Gaps(z, len, g) :
                 /\ k.start \in V /\ k.start \in Nat /\ k.start <= v /\ v \in Nat
                 /\ Fits(k, len) /\ k.blank \in 0..top
                 /\ NextTaken(z, k.start) = k.start + k.blank
                 /\ NextTaken(z, v) = k.start + k.blank
    <3>1. Room(z, len, g, v) /\ v \in Nat
      BY <1>2 DEF Room
    <3>2. PICK k \in Gaps(z, len, g) :
             /\ k.start \in Nat /\ k.start <= v /\ len <= k.blank /\ Unwrapped(z, k)
             /\ NextIs(z, v, k.start + k.blank)
      BY <1>7, <3>1, GapOf
    <3>3. /\ k.start \in V /\ NextIs(z, k.start, k.start + k.blank)
          /\ k.blank \in 0..top /\ Fits(k, len)
      BY <2>2, <3>2
    <3> QED
      BY <1>3, <3>1, <3>2, <3>3
  <2>6. ASSUME V # {} PROVE R # {}
    <3>1. PICK v : v \in V
      BY <2>6
    <3>2. PICK k \in Gaps(z, len, g) : Fits(k, len) /\ k.blank \in 0..top
      BY <2>5, <3>1
    <3>3. PICK h : h \in BestGaps(z, len, g)
      BY <3>2, BestExists
    <3>4. h \in Gaps(z, len, g) /\ len <= h.blank /\ h.blank <= k.blank
      BY <3>2, <3>3, BestIs
    <3>5. h.blank \in Nat
      BY <3>4, GapTyped
    <3>6. Unwrapped(z, h)
      <4>1. ~Unwrapped(z, h) => h.blank > top
        BY <3>4, PastEnd DEF top
      <4> QED
        BY <1>1, <3>2, <3>4, <3>5, <4>1
    <3>7. h.start \in Nat /\ z.start <= h.start /\ EndsIn(z, h.start, len)
      BY <2>2, <3>4, <3>6
    <3>8. h.start # 0
      BY <1>1, <3>7
    <3>9. h.start \in R
      BY <2>1, <3>3, <3>7, <3>8
    <3> QED
      BY <3>9
  <2>7. ASSUME NEW s \in R, NEW v \in FirstOfGaps(z, V)
        PROVE  NextTaken(z, s) - s <= NextTaken(z, v) - v
    <3>1. PICK k \in Gaps(z, len, g) :
             /\ k.start \in V /\ k.start \in Nat /\ k.start <= v /\ v \in Nat
             /\ Fits(k, len) /\ k.blank \in 0..top
             /\ NextTaken(z, k.start) = k.start + k.blank
             /\ NextTaken(z, v) = k.start + k.blank
      BY <1>5, <2>5
    <3>2. ~(k.start < v)
      BY <1>4, <1>5, <3>1
    <3>3. NextTaken(z, v) - v = k.blank
      BY <1>1, <3>1, <3>2
    <3>4. NextTaken(z, s) - s <= k.blank
      BY <2>4, <3>1
    <3> QED
      BY <3>3, <3>4
  <2> QED
    BY <2>4, <2>6, <2>7 DEF R, V
<1> QED
  BY <1>6, <1>7

-----------------------------------------------------------------------------
(* The inductive invariant *)

Zones == {zones[i] : i \in DOMAIN zones}

TodoSound  == todo \in Seq(ZoneRecords) /\ \A i \in DOMAIN todo : Sound(todo[i])
ZonesSound == zones \in Seq(ZoneRecords) /\ \A i \in DOMAIN zones : Sound(zones[i])

\* Blocks are asked for once the module is loaded, zones are added before.
NoneYet == loaded \in BOOLEAN /\ (todo # <<>> => ~loaded) /\ (~loaded => DOMAIN mmb = {})

Separate(z, p) == Disjoint(z.start, z.nbytes, p.start, p.nbytes)

ZonesSeparate ==
  /\ \A i, j \in DOMAIN zones : i # j => Separate(zones[i], zones[j])
  /\ \A z \in Zones : Disjoint(z.start, z.nbytes, RamStart, RamEnd - RamStart)

\* The zones there are and those to come are of one list.
FromTable ==
  \E t \in Tables :
    Zones \cup {todo[i] : i \in DOMAIN todo} \subseteq {t[i] : i \in DOMAIN t}

\* A zone only ever raises what a caller may ask for, and is no more than a word.
LimitSound == maxSize \in MaxMalloc..(Word - 1)

BlocksSound ==
  \A m \in DOMAIN mmb :
    m \in Mmbs /\ mmb[m].zone \in Zones /\ mmb[m].addr \in Nat /\ mmb[m].len \in Nat \ {0}

IInv ==
  /\ SoundTables /\ TodoSound /\ ZonesSound /\ FromTable
  /\ NoneYet /\ ZonesSeparate /\ LimitSound /\ BlocksSound /\ NoOverlap

\* No zone is registered and there is no block.
LEMMA InitIInv == ASSUME SoundTables, Init PROVE IInv
PROOF
<1>1. TodoSound
  BY MmzAssumption DEF Init, SoundTables, TodoSound
<1>2. zones = <<>> /\ DOMAIN zones = {} /\ DOMAIN mmb = {} /\ loaded = FALSE
  BY DEF Init
<1>3. ZonesSound
  BY <1>2 DEF ZonesSound
<1>4. NoneYet /\ ZonesSeparate /\ BlocksSound /\ NoOverlap
  BY <1>2 DEF NoneYet, ZonesSeparate, Zones, BlocksSound, NoOverlap
<1>5. FromTable
  BY <1>2 DEF Init, FromTable, Zones
<1>6. LimitSound
  BY MmzAssumption DEF Init, LimitSound
<1> QED
  BY <1>1, <1>3, <1>4, <1>5, <1>6 DEF IInv

\* What _check_mmz accepts is apart from what is there.
LEMMA AcceptableApart ==
  ASSUME IInv, NEW z, Sound(z), Acceptable(z)
  PROVE  /\ Trimmed(z) = z
         /\ \A p \in Zones : Separate(z, p) /\ Separate(p, z)
         /\ Disjoint(z.start, z.nbytes, RamStart, RamEnd - RamStart)
PROOF
<1>1. \A p : Sound(p) => /\ p.start \in Nat /\ p.nbytes \in Nat
                        /\ End(p) = p.start + p.nbytes
  <2> TAKE p
  <2> HAVE Sound(p)
  <2>1. p.start \in Nat /\ p.nbytes \in Nat /\ p.start + p.nbytes < Word
    BY DEF Sound, ZoneRecords
  <2>2. End(p) = p.start + p.nbytes
    BY <2>1, MmzAssumption, ModSmall DEF End, Add
  <2> QED
    BY <2>1, <2>2
<1>2. z.nbytes # 0 /\ ClearOfRam(z) /\ \A p \in Zones : Apart(z, p)
  BY DEF Acceptable, Zones
<1>3. \A p \in Zones : Sound(p)
  BY DEF IInv, ZonesSound, Zones
<1>4. Trimmed(z) = z
  BY <1>1, <1>2 DEF Trimmed
<1>5. ASSUME NEW p \in Zones PROVE Separate(z, p) /\ Separate(p, z)
  BY <1>1, <1>2, <1>3 DEF Separate, Disjoint, Apart
<1>6. Disjoint(z.start, z.nbytes, RamStart, RamEnd - RamStart)
  BY <1>1, <1>2, MmzAssumption DEF Disjoint, ClearOfRam
<1> QED
  BY <1>4, <1>5, <1>6

\* A zone is added apart from those there are, or all are dropped.
LEMMA AddZoneIInv == ASSUME IInv, AddZone PROVE IInv'
PROOF
<1>1. todo # <<>> /\ loaded = FALSE /\ DOMAIN mmb = {} /\ mmb' = mmb
  BY DEF IInv, NoneYet, AddZone
<1>2. BlocksSound' /\ NoOverlap'
  BY <1>1 DEF BlocksSound, NoOverlap
<1>3. LimitSound'
  <2>1. Head(todo) \in ZoneRecords
    BY <1>1 DEF IInv, TodoSound
  <2>2. Head(todo).nbytes \in 0..(Word - 1)
    BY <2>1 DEF ZoneRecords
  <2> QED
    BY <2>2, MmzAssumption DEF IInv, LimitSound, AddZone
<1>4. CASE Acceptable(Head(todo))
  <2> DEFINE z == Head(todo)
  <2>1. Sound(z) /\ Tail(todo) \in Seq(ZoneRecords) /\ \A i \in DOMAIN Tail(todo) : Sound(Tail(todo)[i])
    BY <1>1 DEF IInv, TodoSound
  <2>2. /\ zones' = <<z>> \o zones /\ todo' = Tail(todo)
        /\ loaded' = (Tail(todo) = <<>>)
    BY <1>4, <2>1, AcceptableApart DEF AddZone
  <2>3. /\ zones' \in Seq(ZoneRecords) /\ Len(zones') = Len(zones) + 1
        /\ \A i \in DOMAIN zones' : zones'[i] = IF i = 1 THEN z ELSE zones[i - 1]
        /\ \A i \in DOMAIN zones' : i # 1 => i - 1 \in DOMAIN zones
    BY <2>1, <2>2 DEF IInv, ZonesSound, Sound
  <2>4. ZonesSound' /\ TodoSound' /\ NoneYet'
    <3>1. \A i \in DOMAIN zones' : Sound(zones'[i])
      BY <2>1, <2>3 DEF IInv, ZonesSound
    <3>2. ZonesSound'
      BY <2>3, <3>1 DEF ZonesSound
    <3>3. TodoSound'
      BY <2>1, <2>2 DEF TodoSound
    <3>4. NoneYet'
      BY <1>1, <2>2 DEF NoneYet
    <3> QED
      BY <3>2, <3>3, <3>4
  <2>5. \A i \in DOMAIN zones' : zones'[i] = z \/ (i # 1 /\ zones'[i] \in Zones)
    BY <2>3 DEF Zones
  <2>6. ASSUME NEW i \in DOMAIN zones', NEW j \in DOMAIN zones', i # j
        PROVE  Separate(zones'[i], zones'[j])
    <3>1. CASE i = 1
      BY <3>1, <2>1, <2>3, <2>6, <1>4, AcceptableApart DEF Zones
    <3>2. CASE j = 1
      BY <3>2, <2>1, <2>3, <2>6, <1>4, AcceptableApart DEF Zones
    <3>3. CASE i # 1 /\ j # 1
      <4>1. i - 1 # j - 1
        BY <2>3, <2>6
      <4> QED
        BY <3>3, <4>1, <2>3 DEF IInv, ZonesSeparate
    <3> QED
      BY <3>1, <3>2, <3>3
  <2>7. \A p \in Zones' : Disjoint(p.start, p.nbytes, RamStart, RamEnd - RamStart)
    BY <2>1, <2>5, <1>4, AcceptableApart DEF IInv, ZonesSeparate, Zones
  <2>8. FromTable'
    <3>1. {todo'[i] : i \in DOMAIN todo'} \cup {z} \subseteq {todo[i] : i \in DOMAIN todo}
      BY <1>1, <2>2 DEF IInv, TodoSound
    <3>2. Zones' \subseteq Zones \cup {z}
      BY <2>5 DEF Zones
    <3> QED
      BY <3>1, <3>2 DEF IInv, FromTable
  <2> QED
    BY <1>2, <1>3, <2>4, <2>6, <2>7, <2>8 DEF IInv, ZonesSeparate, Separate, SoundTables
<1>5. CASE ~Acceptable(Head(todo))
  <2>1. zones' = <<>> /\ todo' = <<>> /\ DOMAIN zones' = {} /\ loaded' = loaded
    BY <1>5 DEF AddZone
  <2>2. ZonesSound' /\ TodoSound'
    BY <2>1 DEF ZonesSound, TodoSound
  <2>3. NoneYet'
    BY <1>1, <2>1 DEF NoneYet
  <2>4. ZonesSeparate'
    BY <2>1 DEF ZonesSeparate, Zones
  <2>5. FromTable'
    BY <2>1 DEF IInv, FromTable, Zones
  <2> QED
    BY <1>2, <1>3, <2>2, <2>3, <2>4, <2>5 DEF IInv, SoundTables
<1> QED
  BY <1>4, <1>5

\* A block where there is room for it is clear of those in other zones too.
LEMMA EnterIInv ==
  ASSUME IInv, loaded, NEW z \in Zones, NEW s, NEW len \in Nat \ {0}, Clear(z, s, len),
         NEW m \in Mmbs \ DOMAIN mmb, Enter(m, z, s, len),
         UNCHANGED <<todo, loaded, zones, maxSize>>
  PROVE  IInv'
PROOF
<1>1. Sound(z)
  BY DEF IInv, ZonesSound, Zones
<1>2. /\ DOMAIN mmb' = DOMAIN mmb \cup {m} /\ m \notin DOMAIN mmb
      /\ mmb'[m] = [zone |-> z, addr |-> s, len |-> len]
      /\ \A n \in DOMAIN mmb : mmb'[n] = mmb[n]
  BY DEF Enter
<1>3. \A n \in DOMAIN mmb : Disjoint(s, len, mmb[n].addr, mmb[n].len)
  <2> TAKE n \in DOMAIN mmb
  <2>1. CASE mmb[n].zone = z
    BY <2>1 DEF Clear, Blocks
  <2>2. CASE mmb[n].zone # z
    <3>1. PICK j \in DOMAIN zones : mmb[n].zone = zones[j]
      BY DEF IInv, BlocksSound, Zones
    <3>2. Separate(z, zones[j]) /\ Sound(zones[j])
      <4>1. PICK k \in DOMAIN zones : z = zones[k]
        BY DEF Zones
      <4> QED
        BY <2>2, <3>1, <4>1 DEF IInv, ZonesSeparate, ZonesSound
    <3>3. /\ zones[j].start <= mmb[n].addr /\ mmb[n].addr \in Nat /\ mmb[n].len \in Nat
          /\ mmb[n].addr + mmb[n].len <= zones[j].start + zones[j].nbytes
      BY <3>1 DEF IInv, NoOverlap, BlocksSound
    <3>4. /\ z.start \in Nat /\ z.nbytes \in Nat
          /\ zones[j].start \in Nat /\ zones[j].nbytes \in Nat
      BY <1>1, <3>2 DEF Sound, ZoneRecords
    <3>5. s \in Nat /\ z.start <= s /\ s + len <= z.start + z.nbytes
      BY DEF Clear
    <3> QED
      BY <3>2, <3>3, <3>4, <3>5 DEF Separate, Disjoint
  <2> QED
    BY <2>1, <2>2
<1>4. Zones' = Zones
  BY DEF Zones
<1>5. BlocksSound'
  BY <1>1, <1>2, <1>4 DEF IInv, BlocksSound, Clear
<1>6. NoOverlap'
  <2>1. \A a, b \in DOMAIN mmb' : a # b =>
          Disjoint(mmb'[a].addr, mmb'[a].len, mmb'[b].addr, mmb'[b].len)
    BY <1>2, <1>3 DEF IInv, NoOverlap, Disjoint
  <2>2. ASSUME NEW n \in DOMAIN mmb'
        PROVE  /\ mmb'[n].zone \in Zones'
               /\ mmb'[n].zone.start <= mmb'[n].addr
               /\ mmb'[n].addr + mmb'[n].len <= mmb'[n].zone.start + mmb'[n].zone.nbytes
    <3>1. CASE n = m
      BY <3>1, <1>1, <1>2, <1>4 DEF Clear
    <3>2. CASE n # m
      BY <3>2, <1>2, <1>4 DEF IInv, NoOverlap, Zones
    <3> QED
      BY <3>1, <3>2
  <2> QED
    BY <2>1, <2>2 DEF NoOverlap, Zones
<1>7. SoundTables' /\ TodoSound' /\ ZonesSound' /\ FromTable' /\ ZonesSeparate'
  BY <1>4 DEF IInv, SoundTables, TodoSound, ZonesSound, FromTable, ZonesSeparate
<1>8. NoneYet' /\ LimitSound'
  BY DEF IInv, NoneYet, LimitSound
<1> QED
  BY <1>5, <1>6, <1>7, <1>8 DEF IInv

\* In its own zone the search saw to it that there is room.
LEMMA AllocIInv ==
  ASSUME IInv, NEW size \in Sizes, NEW align \in Aligns, NEW name, Alloc(size, align, name)
  PROVE  IInv'
PROOF
<1> DEFINE len == GrainAlign(size)
<1>0. PICK i \in DOMAIN zones :
         \E s \in Region(zones[i], len, align), m \in Mmbs \ DOMAIN mmb :
            Enter(m, zones[i], s, len)
  BY DEF Alloc
<1> DEFINE z == zones[i]
<1>1. PICK s \in Region(z, len, align), m \in Mmbs \ DOMAIN mmb : Enter(m, z, s, len)
  BY <1>0
<1>2. loaded /\ size # 0 /\ UNCHANGED <<todo, loaded, zones, maxSize>>
  BY DEF Alloc
<1>3. Sound(z) /\ z \in Zones
  BY DEF IInv, ZonesSound, Zones
<1>4. len \in Nat \ {0}
  <2>1. size \in Nat \ {0} /\ size + Grain <= Word
    BY <1>2, MmzAssumption DEF IInv, SoundTables
  <2> QED
    BY <2>1, Align2Up, MmzAssumption DEF GrainAlign
<1>5. Orderly(z)
  BY DEF IInv, Orderly, Blocks, BlocksSound, NoOverlap
<1>6. Clear(z, s, len)
  <2>1. z.start + z.nbytes + len + Granule(align) + Grain <= Word
    BY <1>3 DEF Sound, Far
  <2>2. align + Grain <= Word
    BY DEF IInv, SoundTables
  <2> QED
    BY <1>1, <1>3, <1>4, <1>5, <2>1, <2>2, RegionIsClear
<1> QED
  BY <1>1, <1>2, <1>3, <1>4, <1>6, EnterIInv

\* Fewer blocks are apart as they were.
LEMMA FreeIInv == ASSUME IInv, NEW m, Free(m) PROVE IInv'
PROOF
<1>1. /\ DOMAIN mmb' = DOMAIN mmb \ {m} /\ UNCHANGED <<todo, loaded, zones, maxSize>>
      /\ \A n \in DOMAIN mmb' : mmb'[n] = mmb[n]
  BY DEF Free
<1>2. BlocksSound' /\ NoOverlap'
  BY <1>1 DEF IInv, BlocksSound, NoOverlap, Zones
<1> QED
  BY <1>1, <1>2
     DEF IInv, SoundTables, TodoSound, ZonesSound, FromTable, NoneYet, ZonesSeparate,
         LimitSound, Zones

-----------------------------------------------------------------------------
(* Rounding *)

\* A length that can be rounded as the zone wants it without leaving the words.
Roundable(z, x) ==
  /\ z.type = "slab" => x <= 2 ^ 30
  /\ z.type = "eq" => z.balign # 0 /\ x + z.balign + z.balign <= Word

\* A power of two is its own round-up.
LEMMA PowerOf2Is ==
  ASSUME NEW n \in Nat, n <= 2 ^ 30
  PROVE  /\ PowerOf2(n) \in Nat /\ n <= PowerOf2(n)
         /\ PowerOf2(PowerOf2(n)) = PowerOf2(n)
PROOF
<1> DEFINE P == {2 ^ k : k \in 0..30}
           Best(p, x) == p \in P /\ p >= x /\ \A q \in P : q >= x => p <= q
<1>1. \A q \in P : q \in Int
  BY SMT
<1>2. 2 ^ 30 \in P
  OBVIOUS
<1>3. \A x : PowerOf2(x) = CHOOSE p : Best(p, x)
  BY DEF PowerOf2
<1> HIDE DEF P
<1>4. ASSUME NEW x \in Nat, NEW q \in P, q >= x PROVE Best(PowerOf2(x), x)
  <2> DEFINE S == {p \in P : p >= x}
  <2>1. S \in SUBSET Nat /\ S # {}
    BY <1>1, <1>4
  <2>2. PICK p \in S : \A y \in S : p <= y
    BY <2>1, Least
  <2>3. Best(p, x)
    BY <2>2
  <2> HIDE DEF Best
  <2> QED
    BY <2>3, <1>3
<1>5. Best(PowerOf2(n), n)
  BY <1>2, <1>4
<1>6. PowerOf2(n) \in P /\ PowerOf2(n) \in Nat /\ n <= PowerOf2(n)
  BY <1>1, <1>5
<1>7. Best(PowerOf2(PowerOf2(n)), PowerOf2(n))
  BY <1>4, <1>6
<1>8. PowerOf2(PowerOf2(n)) \in Int
  BY <1>1, <1>7
<1> QED
  BY <1>6, <1>7, <1>8

\* Rounding goes up, and does nothing the second time.
LEMMA RoundedTwice ==
  ASSUME NEW z \in ZoneRecords, NEW x \in Nat, Roundable(z, x)
  PROVE  /\ Rounded(z, x) \in Nat /\ x <= Rounded(z, x)
         /\ Rounded(z, Rounded(z, x)) = Rounded(z, x)
PROOF
<1>1. CASE z.type = "slab"
  BY <1>1, PowerOf2Is DEF Rounded, Roundable
<1>2. CASE z.type = "eq"
  <2> DEFINE g == z.balign
             y == Align2(x, g)
  <2>1. g \in Nat \ {0} /\ x + g + g <= Word /\ Word \in Nat
    BY <1>2, MmzAssumption DEF ZoneRecords, Roundable
  <2> HIDE DEF g
  <2>2. y \in Nat /\ x <= y /\ y < x + g /\ Multiple(y, g)
    BY <2>1, Align2Up, Align2Least
  <2> HIDE DEF y
  <2>3. y <= Align2(y, g) /\ Align2(y, g) <= y /\ Align2(y, g) \in Nat
    BY <2>1, <2>2, Align2Up, Align2Least
  <2>4. \A v : Rounded(z, v) = Align2(v, g)
    BY <1>2 DEF Rounded, g
  <2> QED
    BY <2>2, <2>3, <2>4 DEF y
<1>3. CASE z.type = "default"
  BY <1>3 DEF Rounded
<1> QED
  BY <1>1, <1>2, <1>3 DEF ZoneRecords

\* The length the search has after i zones, when each zone that matches rounds
\* to the same: that length from the first such zone on.
LEMMA SizeAtIs ==
  ASSUME zones \in Seq(ZoneRecords), NEW size, NEW name, NEW F,
         \A i \in DOMAIN zones : Matches(zones[i], name) =>
            Rounded(zones[i], GrainAlign(size)) = F /\ Rounded(zones[i], F) = F
  PROVE  \A i \in 0..Len(zones) :
           SizeAt(size, name)[i] =
             IF \E j \in 1..i : Matches(zones[j], name) THEN F ELSE GrainAlign(size)
PROOF
<1> DEFINE a == GrainAlign(size)
           M(i) == Matches(zones[i], name)
           N == Len(zones)
           Step(f) == [i \in 0..N |-> IF i = 0 THEN a
                                      ELSE IF M(i) THEN Rounded(zones[i], f[i - 1])
                                      ELSE f[i - 1]]
           h == [i \in 0..N |-> IF \E j \in 1..i : M(j) THEN F ELSE a]
           at == SizeAt(size, name)
<1>1. at = CHOOSE f : f = Step(f)
  BY DEF SizeAt
<1>2. N \in Nat /\ DOMAIN zones = 1..N
  OBVIOUS
<1>3. \A i \in 1..N : M(i) => Rounded(zones[i], a) = F /\ Rounded(zones[i], F) = F
  BY <1>2
<1> HIDE DEF a, M, N, at
<1>4. \A i \in 1..N : h[i] = IF M(i) THEN F ELSE h[i - 1]
  <2> TAKE i \in 1..N
  <2>1. i \in 0..N /\ i - 1 \in 0..N /\ \A j \in Int : j \in 1..i <=> j \in 1..(i - 1) \/ j = i
    BY <1>2
  <2> QED
    BY <2>1
<1>5. h[0] = a
  BY <1>2
<1>6. \A i \in 0..N : h[i] = a \/ h[i] = F
  OBVIOUS
<1>7. h = Step(h)
  <2>1. ASSUME NEW i \in 1..N PROVE h[i] = Step(h)[i]
    <3>1. i \in 0..N /\ i # 0 /\ i - 1 \in 0..N BY <1>2
    <3>2. Step(h)[i] = IF M(i) THEN Rounded(zones[i], h[i - 1]) ELSE h[i - 1]
      BY <3>1
    <3> QED BY <1>3, <1>4, <1>6, <3>1, <3>2
  <2>2. h[0] = Step(h)[0]
    BY <1>2, <1>5
  <2>3. \A i \in 0..N : h[i] = Step(h)[i]
    <3>1. \A i \in 0..N : i = 0 \/ i \in 1..N BY <1>2
    <3> HIDE DEF h, Step
    <3> QED BY <2>1, <2>2, <3>1
  <2>4. h = [i \in 0..N |-> h[i]] /\ Step(h) = [i \in 0..N |-> Step(h)[i]]
    OBVIOUS
  <2> HIDE DEF h, Step
  <2> QED
    BY <2>3, <2>4
<1>8. at = Step(at)
  <2> HIDE DEF h, Step
  <2> QED BY <1>1, <1>7
<1>9. \A i \in 0..N : at[i] = h[i]
  <2> DEFINE D == {i \in 0..N : at[i] # h[i]}
  <2>1. SUFFICES ASSUME D # {} PROVE FALSE
    OBVIOUS
  <2>2. D \in SUBSET Nat
    BY <1>2
  <2>3. PICK d \in D : \A y \in D : d <= y
    BY <2>1, <2>2, Least
  <2>4. at[0] = a
    <3>1. 0 \in 0..N BY <1>2
    <3>2. Step(at)[0] = a BY <3>1
    <3> QED BY <3>2, <1>8
  <2>5. d \in 1..N
    BY <1>2, <1>5, <2>3, <2>4
  <2>6. at[d - 1] = h[d - 1]
    BY <1>2, <2>3, <2>5
  <2>7. at[d] = IF M(d) THEN Rounded(zones[d], at[d - 1]) ELSE at[d - 1]
    <3>1. d \in 0..N /\ d # 0 BY <1>2, <2>5
    <3>2. Step(at)[d] = IF M(d) THEN Rounded(zones[d], at[d - 1]) ELSE at[d - 1]
      BY <3>1
    <3> QED BY <3>2, <1>8
  <2>8. h[d] = IF M(d) THEN Rounded(zones[d], h[d - 1]) ELSE h[d - 1]
    <3>1. d \in 0..N /\ d # 0 BY <1>2, <2>5
    <3>2. Step(h)[d] = IF M(d) THEN Rounded(zones[d], h[d - 1]) ELSE h[d - 1]
      BY <3>1
    <3> QED BY <3>2, <1>7
  <2> QED
    BY <2>3, <2>6, <2>7, <2>8
<1> QED
  BY <1>9 DEF at, M, a, N

\* What a zone's blocks are rounded to leaves no word either.
RoundsWell(z) ==
  \A size \in Sizes \ {0} :
    LET a == GrainAlign(size)
        r == Rounded(z, a)
    IN size <= MaxMalloc =>
         /\ Roundable(z, a) /\ r + Grain <= Word
         /\ \A align \in Aligns :
              z.start + z.nbytes + GrainAlign(r) + Granule(align) + Grain <= Word

\* The zones of one name are of one kind: __mmb_alloc_v2 goes on rounding
\* after it has found the block's address, and would give it a length that
\* was never looked for.
SoundKinds ==
  \A t \in Tables :
    /\ \A i, j \in DOMAIN t :
         t[i].name = t[j].name => t[i].type = t[j].type /\ t[i].balign = t[j].balign
    /\ \A i \in DOMAIN t : RoundsWell(t[i])

\* The length found room for is the length the block is given.
LEMMA AllocV2IInv ==
  ASSUME SoundKinds, IInv, NEW size \in Sizes, NEW align \in Aligns, NEW name,
         AllocV2(size, align, name)
  PROVE  IInv'
PROOF
<1> DEFINE at == SizeAt(size, name)
           a == GrainAlign(size)
<1>1. /\ loaded /\ size # 0 /\ size <= MaxMalloc /\ UNCHANGED <<todo, loaded, zones, maxSize>>
      /\ \E i \in DOMAIN zones :
           /\ Matches(zones[i], name)
           /\ \E s \in Region(zones[i], GrainAlign(at[i]), align), m \in Mmbs \ DOMAIN mmb :
                Enter(m, zones[i], s, at[Len(zones)])
  BY DEF AllocV2
<1>2. PICK i \in DOMAIN zones :
        /\ Matches(zones[i], name)
        /\ \E s \in Region(zones[i], GrainAlign(at[i]), align), m \in Mmbs \ DOMAIN mmb :
             Enter(m, zones[i], s, at[Len(zones)])
  BY <1>1
<1> DEFINE z == zones[i]
           F == Rounded(z, a)
<1>3. Sound(z) /\ z \in Zones /\ z \in ZoneRecords /\ zones \in Seq(ZoneRecords)
  BY DEF IInv, ZonesSound, Zones, Sound
<1>4. /\ RoundsWell(z)
      /\ \A p \in Zones : p.name = z.name => p.type = z.type /\ p.balign = z.balign
  BY <1>3 DEF IInv, FromTable, SoundKinds
<1>5. /\ Roundable(z, a) /\ F + Grain <= Word
      /\ z.start + z.nbytes + GrainAlign(F) + Granule(align) + Grain <= Word
  BY <1>1, <1>4 DEF RoundsWell
<1>6. a \in Nat \ {0}
  <2>1. size \in Nat \ {0} /\ size + Grain <= Word
    BY <1>1, MmzAssumption DEF IInv, SoundTables
  <2> QED
    BY <2>1, Align2Up, MmzAssumption DEF GrainAlign
<1>7. F \in Nat \ {0} /\ Rounded(z, F) = F
  BY <1>3, <1>5, <1>6, RoundedTwice
<1>8. at[i] = F /\ at[Len(zones)] = F
  <2>1. \A j \in DOMAIN zones : Matches(zones[j], name) =>
           Rounded(zones[j], a) = F /\ Rounded(zones[j], F) = F
    <3> TAKE j \in DOMAIN zones
    <3> HAVE Matches(zones[j], name)
    <3>1. zones[j].type = z.type /\ zones[j].balign = z.balign
      BY <1>2, <1>4 DEF Matches, Zones
    <3>2. \A x : Rounded(zones[j], x) = Rounded(z, x)
      BY <3>1 DEF Rounded
    <3> QED
      BY <1>7, <3>2
  <2>2. \A k \in 0..Len(zones) :
          at[k] = IF \E j \in 1..k : Matches(zones[j], name) THEN F ELSE a
    BY <1>3, <2>1, SizeAtIs
  <2>3. i \in 1..i /\ i \in 0..Len(zones) /\ i \in 1..Len(zones) /\ Len(zones) \in 0..Len(zones)
    BY <1>3
  <2> QED
    BY <1>2, <2>2, <2>3
<1>9. PICK s \in Region(z, GrainAlign(F), align), m \in Mmbs \ DOMAIN mmb : Enter(m, z, s, F)
  BY <1>2, <1>8
<1>10. F <= GrainAlign(F) /\ GrainAlign(F) \in Nat \ {0}
  <2> HIDE DEF F
  <2> QED
    BY <1>5, <1>7, Align2Up, MmzAssumption DEF GrainAlign
<1>11. Clear(z, s, GrainAlign(F))
  <2>1. Orderly(z)
    BY DEF IInv, Orderly, Blocks, BlocksSound, NoOverlap
  <2>2. align + Grain <= Word
    BY DEF IInv, SoundTables
  <2> QED
    BY <1>3, <1>5, <1>9, <1>10, <2>1, <2>2, RegionIsClear
<1>12. Clear(z, s, F)
  <2>1. z.start \in Nat /\ z.nbytes \in Nat
    BY <1>3 DEF ZoneRecords
  <2>2. \A b \in Blocks(z) : b.addr \in Nat /\ b.len \in Nat
    BY DEF IInv, Blocks, BlocksSound
  <2> HIDE DEF F, z
  <2> QED
    BY <1>7, <1>10, <1>11, <2>1, <2>2 DEF Clear, Disjoint
<1> QED
  BY <1>1, <1>3, <1>7, <1>9, <1>12, EnterIInv

-----------------------------------------------------------------------------
(* Every step *)

\* From the steps: the invariant holds in every state.
LEMMA NextIInv == ASSUME IInv, [Next]_vars PROVE IInv'
PROOF
<1>1. CASE AddZone
  BY <1>1, AddZoneIInv
<1>2. CASE \E size \in Sizes, align \in Aligns, name \in Asked : Alloc(size, align, name)
  BY <1>2, AllocIInv
<1>3. CASE \E m \in Mmbs : Free(m)
  BY <1>3, FreeIInv
<1>4. CASE UNCHANGED vars
  BY <1>4 DEF vars, IInv, SoundTables, TodoSound, ZonesSound, FromTable, NoneYet,
              ZonesSeparate, LimitSound, BlocksSound, NoOverlap, Zones
<1> QED
  BY <1>1, <1>2, <1>3, <1>4 DEF Next

LEMMA Always == SoundTables => (Spec => []IInv)
PROOF
<1>1. SoundTables /\ Init => IInv
  BY InitIInv
<1>2. IInv /\ [Next]_vars => IInv'
  BY NextIInv
<1> QED
  BY <1>1, <1>2, PTL DEF Spec

LEMMA AlwaysV2 == SoundTables /\ SoundKinds => (SpecV2 => []IInv)
PROOF
<1> SUFFICES ASSUME SoundKinds PROVE SoundTables => (SpecV2 => []IInv)
  OBVIOUS
<1>1. SoundTables /\ Init => IInv
  BY InitIInv
<1>2. IInv /\ [NextV2]_vars => IInv'
  <2> SUFFICES ASSUME IInv, [NextV2]_vars PROVE IInv'
    OBVIOUS
  <2>1. CASE [Next]_vars
    BY <2>1, NextIInv
  <2>2. CASE \E size \in Sizes, align \in Aligns, name \in Asked : AllocV2(size, align, name)
    BY <2>2, AllocV2IInv
  <2> QED
    BY <2>1, <2>2 DEF NextV2
<1> QED
  BY <1>1, <1>2, PTL DEF SpecV2

\* Zones of a loaded module lie apart, in the words of the property.
LEMMA IInvZonesApart == ASSUME IInv PROVE ZonesApart
BY DEF IInv, ZonesSeparate, Zones, Separate, ZonesApart

\* Addresses and lengths are words because blocks lie in their zones.
LEMMA IInvTyped == ASSUME IInv PROVE TypeOK
PROOF
<1>1. \A z \in Zones : /\ z \in ZoneRecords /\ z.start + z.nbytes < Word
                      /\ z.start \in Nat /\ z.nbytes \in Nat
  BY DEF IInv, ZonesSound, Zones, Sound, ZoneRecords
<1>2. ASSUME NEW m \in DOMAIN mmb
      PROVE  /\ m \in Mmbs /\ mmb[m].zone \in ZoneRecords
             /\ mmb[m].addr \in 0..(Word - 1) /\ mmb[m].len \in 1..(Word - 1)
  <2>1. /\ m \in Mmbs /\ mmb[m].zone \in Zones
        /\ mmb[m].addr \in Nat /\ mmb[m].len \in Nat \ {0}
        /\ mmb[m].addr + mmb[m].len <= mmb[m].zone.start + mmb[m].zone.nbytes
    BY DEF IInv, BlocksSound, NoOverlap
  <2> QED
    BY <1>1, <2>1, MmzAssumption
<1>3. loaded \in BOOLEAN
  BY DEF IInv, NoneYet
<1> QED
  BY <1>1, <1>2, <1>3 DEF TypeOK, IInv, TodoSound, ZonesSound, LimitSound, Zones

\* Address 0 is what find_fixed_region returns when it finds none.
NoZoneAtZero == \A t \in Tables : \A i \in DOMAIN t : t[i].start # 0

\* What is asked for, once rounded up, suits a sound zone.
LEMMA AsksSound ==
  ASSUME SoundTables, NEW z, Sound(z), Orderly(z), z.start # 0,
         NEW size \in Sizes \ {0}, NEW g \in Aligns, g # 0, g % Grain = 0
  PROVE  Granule(g) = g /\ Asks(z, GrainAlign(size), g)
PROOF
<1>1. /\ Grain \in Nat \ {0} /\ Word \in Nat /\ g \in Nat \ {0} /\ size \in Nat \ {0}
      /\ g + Grain <= Word /\ size + Grain <= Word
  BY MmzAssumption DEF SoundTables
<1>2. Multiple(g, Grain)
  BY <1>1, MultipleMod
<1>3. Granule(g) = g
  <2>1. g <= GrainAlign(g) /\ GrainAlign(g) <= g /\ GrainAlign(g) \in Nat
    BY <1>1, <1>2, Align2Up, Align2Least DEF GrainAlign
  <2> QED
    BY <1>1, <2>1 DEF Granule
<1>4. GrainAlign(size) \in Nat \ {0} /\ Multiple(GrainAlign(size), Grain)
  <2>1. size <= GrainAlign(size) /\ GrainAlign(size) \in Nat
    BY <1>1, Align2Up DEF GrainAlign
  <2>2. Multiple(GrainAlign(size), Grain)
    BY <1>1, Align2Least DEF GrainAlign
  <2> QED
    BY <1>1, <2>1, <2>2
<1>5. z.start + z.nbytes + GrainAlign(size) + g + Grain <= Word
  BY <1>3 DEF Sound, Far
<1>6. Align2(z.start, g) = z.start
  BY <1>3 DEF Sound, Aligned
<1> QED
  BY <1>1, <1>2, <1>3, <1>4, <1>5, <1>6 DEF Asks

\* The region found in a zone is the best there is.
LEMMA IInvRegionIsBest == ASSUME NoZoneAtZero, IInv PROVE RegionIsBest
PROOF
<1> SUFFICES ASSUME NEW z \in {zones[i] : i \in DOMAIN zones}, NEW size \in Sizes \ {0},
                    NEW g \in {a \in Aligns : a # 0 /\ a % Grain = 0}
             PROVE  LET len == GrainAlign(size)
                        V   == Vacant(z, len, g)
                        R   == Region(z, len, g)
                    IN /\ R = {} <=> V = {}
                       /\ R \subseteq V
                       /\ \A s \in R, v \in FirstOfGaps(z, V) :
                            NextTaken(z, s) - s <= NextTaken(z, v) - v
  BY DEF RegionIsBest
<1>1. Sound(z) /\ z.start # 0
  BY DEF IInv, ZonesSound, FromTable, NoZoneAtZero, Zones
<1>2. Orderly(z)
  BY DEF IInv, Orderly, Blocks, BlocksSound, NoOverlap
<1>3. g = Granule(g) /\ Asks(z, GrainAlign(size), g)
  BY <1>1, <1>2, AsksSound DEF IInv
<1> QED
  BY <1>3, RegionIsLeast

-----------------------------------------------------------------------------
(* Theorems *)

\* find_fixed_region: whatever is allocated and freed in whatever order, no
\* two blocks share memory and each lies in the zone it was asked of.
THEOREM BlocksNeverOverlap == SoundTables => (Spec => []NoOverlap)
PROOF
<1>1. IInv => NoOverlap
  BY DEF IInv
<1> QED
  BY <1>1, Always, PTL

\* _check_mmz: the zones of a loaded module share no memory with each other
\* or with the kernel.
THEOREM ZonesNeverMeet == SoundTables => (Spec => []ZonesApart)
BY IInvZonesApart, Always, PTL

\* Addresses, lengths and zones stay words, and no zone wraps.
THEOREM MmzTyped == SoundTables => (Spec => []TypeOK)
BY IInvTyped, Always, PTL

\* find_fixed_region: whatever was allocated and freed before, it finds an
\* address whenever one is clear, a clear one, and where the least memory is
\* left over, although it walks the blocks of a zone once and looks only at
\* the gaps between them.
THEOREM RegionsAreBest == SoundTables /\ NoZoneAtZero => (Spec => []RegionIsBest)
PROOF
<1> SUFFICES ASSUME NoZoneAtZero PROVE SoundTables => (Spec => []RegionIsBest)
  OBVIOUS
<1>1. IInv => RegionIsBest
  BY IInvRegionIsBest
<1> QED
  BY <1>1, Always, PTL

\* __mmb_alloc_v2: all this is so of callers that have sizes rounded too, in
\* any order with the others, when the zones of a name are of one kind.
THEOREM RoundingIsSafe ==
  SoundTables /\ SoundKinds => (SpecV2 => [](TypeOK /\ ZonesApart /\ NoOverlap))
PROOF
<1>1. IInv => TypeOK /\ ZonesApart /\ NoOverlap
  BY IInvTyped, IInvZonesApart DEF IInv
<1> QED
  BY <1>1, AlwaysV2, PTL

\* And the search is as good after blocks of rounded lengths.
THEOREM RegionsAreBestV2 ==
  SoundTables /\ SoundKinds /\ NoZoneAtZero => (SpecV2 => []RegionIsBest)
PROOF
<1> SUFFICES ASSUME NoZoneAtZero
             PROVE  SoundTables /\ SoundKinds => (SpecV2 => []RegionIsBest)
  OBVIOUS
<1>1. IInv => RegionIsBest
  BY IInvRegionIsBest
<1> QED
  BY <1>1, AlwaysV2, PTL
=============================================================================
