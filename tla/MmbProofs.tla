----------------------------- MODULE MmbProofs ------------------------------
(***************************************************************************)
(* Proofs about Mmb, for any number of files and blocks and any bounds:    *)
(* the counts of a block are what is held of it, it exists exactly while   *)
(* it is held, a free put off is waited for, cache types do not mix.       *)
(***************************************************************************)
EXTENDS Mmb, TLAPS

USE MmbAssumption

NobodyBusy(b) == \A f \in Files : ~Busy(f, b)

\* A block belongs to a file, or to a kernel module, or is between a file's
\* two looks at it; a block that was released is none of these, and waits
\* for its kernel mappings only.
OneHolder(b) ==
  /\ \A f, g \in Files : Busy(f, b) /\ Busy(g, b) => f = g
  /\ info[b].file # Nobody => b \notin kown /\ NobodyBusy(b)
  /\ b \in kown => NobodyBusy(b)
  /\ mmb[b].rel => info[b].file = Nobody /\ b \notin kown /\ NobodyBusy(b)

\* Somebody holds the block otherwise than by a kernel mapping.
Holder(b) ==
  \/ info[b].file # Nobody \/ b \in kown
  \/ \E f \in Files : Busy(f, b)

\* Somebody holds the block, mappings of processes apart.
Counted(b) == Holder(b) \/ kmap[b] > 0

\* What the counts of one block come to
CountsOK(b) ==
  /\ mmb[b].live /\ ~mmb[b].rel => Holder(b)
  /\ mmb[b].live <=> Counted(b)
  /\ mmb[b].live => mmb[b].phy = UserRefs(b) /\ mmb[b].map = kmap[b]
  /\ ~mmb[b].live => mmb[b] = NoMmb
  /\ mmb[b].kern = "none" <=> mmb[b].map = 0

\* What its mmb_info says
InfoOK(b) ==
  /\ info[b].map > 0 => info[b].mapped
  /\ b \in vma => info[b].map > 0 /\ info[b].file \in Files \ closing
  /\ info[b].delayed => info[b].map > 0 \/ info[b].ref > 0 \/ info[b].mapped

BlockOK(b) == OneHolder(b) /\ CountsOK(b) /\ InfoOK(b)

\* A file is about a block exactly in the middle of an ioctl or a close.
PcOK == \A f \in Files : pc[f].b = Nobody <=> pc[f].at \in {"closed", "idle"}

IInv == TypeOK /\ PcOK /\ \A b \in Blocks : BlockOK(b)

-----------------------------------------------------------------------------
(* What a step is about *)

\* A step about block c leaves the other blocks as they are.
OnlyAbout(c) ==
  /\ \A b \in Blocks \ {c} :
       /\ mmb'[b] = mmb[b] /\ info'[b] = info[b] /\ kmap'[b] = kmap[b]
       /\ b \in kown' <=> b \in kown
       /\ b \in vma' => b \in vma
  /\ closing' = closing
  /\ \A f \in Files : \/ pc'[f] = pc[f]
                      \/ pc[f].b \in {c, Nobody} /\ pc'[f].b \in {c, Nobody}

LEMMA OthersKeep ==
  ASSUME IInv, NEW c \in Blocks, OnlyAbout(c), NEW b \in Blocks \ {c}
  PROVE  BlockOK(b)'
  <1>1. BlockOK(b) /\ b # Nobody
    BY DEF IInv
  <1>2. /\ mmb'[b] = mmb[b] /\ info'[b] = info[b] /\ kmap'[b] = kmap[b]
        /\ b \in kown' <=> b \in kown
        /\ b \in vma' => b \in vma
        /\ closing' = closing
    BY DEF OnlyAbout
  <1>3. \A f \in Files : /\ Busy(f, b)' <=> Busy(f, b)
                         /\ Busy(f, b) => pc'[f] = pc[f]
                         /\ Busy(f, b)' => pc'[f] = pc[f]
    BY <1>1 DEF OnlyAbout, Busy
  <1>4. Putting(b)' <=> Putting(b)
    BY <1>3 DEF Putting, Busy
  <1>5. NobodyBusy(b)' <=> NobodyBusy(b)
    BY <1>3 DEF NobodyBusy
  <1>6. Counted(b)' <=> Counted(b)
    BY <1>2, <1>3 DEF Counted, Holder
  <1>7. UserRefs(b)' = UserRefs(b)
    BY <1>2, <1>4 DEF UserRefs
  <1>8. OneHolder(b)'
    BY <1>1, <1>2, <1>3, <1>5 DEF OneHolder, BlockOK
  <1>9. CountsOK(b)'
    BY <1>1, <1>2, <1>3, <1>6, <1>7 DEF CountsOK, BlockOK, Holder
  <1>10. InfoOK(b)'
    BY <1>1, <1>2 DEF InfoOK, BlockOK
  <1>. QED
    BY <1>8, <1>9, <1>10 DEF BlockOK

\* So that a step is to be looked at for its own block.
LEMMA OneBlock ==
  ASSUME IInv, NEW c \in Blocks, OnlyAbout(c), TypeOK', PcOK', BlockOK(c)'
  PROVE  IInv'
  <1>1. \A b \in Blocks : BlockOK(b)'
    BY OthersKeep
  <1>. QED
    BY <1>1 DEF IInv

\* A file that moves on
LEMMA GotoKeeps ==
  ASSUME TypeOK, PcOK, NEW f \in Files, NEW l \in Places,
         NEW b \in Blocks \cup {Nobody}, Goto(f, l, b),
         b = Nobody <=> l \in {"closed", "idle"}
  PROVE  /\ pc' \in [Files -> [at : Places, b : Blocks \cup {Nobody}]]
         /\ PcOK'
         /\ pc'[f] = [at |-> l, b |-> b]
         /\ \A g \in Files \ {f} : pc'[g] = pc[g]
  BY DEF Goto, TypeOK, PcOK

\* A file that comes to c, where nobody else is
LEMMA Comes ==
  ASSUME NEW c \in Blocks, NEW f \in Files, NEW l,
         \A g \in Files \ {f} : ~Busy(g, c) /\ pc'[g] = pc[g],
         pc'[f] = [at |-> l, b |-> c]
  PROVE  /\ \A g \in Files : Busy(g, c)' <=> g = f
         /\ Putting(c)' <=> l = "put"
         /\ ~NobodyBusy(c)'
  <1>1. \A g \in Files : Busy(g, c)' <=> g = f
    BY DEF Busy
  <1>2. ASSUME NEW g \in Files, pc'[g] = [at |-> "put", b |-> c] PROVE g = f
    BY <1>1, <1>2 DEF Busy
  <1>3. Putting(c)' <=> l = "put"
    BY <1>2 DEF Putting
  <1>. QED
    BY <1>1, <1>3 DEF NobodyBusy

\* A file that leaves c
LEMMA Goes ==
  ASSUME NEW c \in Blocks, NEW f \in Files,
         \A g \in Files \ {f} : ~Busy(g, c) /\ pc'[g] = pc[g],
         pc'[f] = [at |-> "idle", b |-> Nobody]
  PROVE  /\ NobodyBusy(c)' /\ \A g \in Files : ~Busy(g, c)'
         /\ ~Putting(c)'
  <1>1. \A g \in Files : ~Busy(g, c)'
    BY DEF Busy
  <1>2. ~Putting(c)'
    BY <1>1 DEF Putting, Busy
  <1>. QED
    BY <1>1, <1>2 DEF NobodyBusy

\* A block on which nobody is busy is not being put.
LEMMA NoPut ==
  ASSUME NEW c \in Blocks, NobodyBusy(c)
  PROVE  ~Putting(c)
  BY DEF NobodyBusy, Putting, Busy

\* The files stay where they are.
LEMMA PcStays ==
  ASSUME UNCHANGED pc, NEW c \in Blocks
  PROVE  /\ PcOK => PcOK'
         /\ \A f \in Files : Busy(f, c)' <=> Busy(f, c)
         /\ NobodyBusy(c)' <=> NobodyBusy(c)
         /\ Putting(c)' <=> Putting(c)
  BY DEF PcOK, Busy, NobodyBusy, Putting

-----------------------------------------------------------------------------
(* What the helpers make of a record *)

MmbType  == [live : BOOLEAN, phy : Nat, map : Nat,
             kern : {"none", "plain", "cached"}, rel : BOOLEAN]
InfoType == [file : Files \cup {Nobody}, mapped : BOOLEAN, cached : BOOLEAN,
             map : Nat, ref : Nat, delayed : BOOLEAN]

LEMMA NoMmbIs ==
  /\ NoMmb \in MmbType
  /\ ~NoMmb.live /\ NoMmb.phy = 0 /\ NoMmb.map = 0 /\ NoMmb.kern = "none"
  /\ ~NoMmb.rel
  BY DEF NoMmb, MmbType

LEMMA FreshIs ==
  /\ Fresh \in MmbType
  /\ Fresh.live /\ Fresh.phy = 0 /\ Fresh.map = 0 /\ Fresh.kern = "none"
  /\ ~Fresh.rel
  BY DEF Fresh, NoMmb, MmbType

LEMMA NoInfoIs ==
  /\ NoInfo \in InfoType
  /\ NoInfo.file = Nobody /\ NoInfo.map = 0 /\ ~NoInfo.delayed
  BY DEF NoInfo, InfoType

LEMMA GetIs ==
  ASSUME NEW m \in MmbType
  PROVE  /\ Get(m) \in MmbType
         /\ Get(m).live = m.live /\ Get(m).phy = m.phy + 1
         /\ Get(m).map = m.map /\ Get(m).kern = m.kern /\ Get(m).rel = m.rel
  BY DEF Get, MmbType

LEMMA PutIs ==
  ASSUME NEW m \in MmbType, m.phy > 0, ~m.rel
  PROVE  /\ Put(m) \in MmbType
         /\ Put(m).live = m.live /\ Put(m).phy = m.phy - 1
         /\ Put(m).map = m.map /\ Put(m).kern = m.kern /\ Put(m).rel = m.rel
  BY DEF Put, MmbType

LEMMA ReleaseIs ==
  ASSUME NEW m \in MmbType, m.phy = 0, ~m.rel
  PROVE  /\ Release(m) \in MmbType
         /\ m.kern = "none" => Release(m) = NoMmb
         /\ m.kern # "none" =>
              /\ Release(m).live = m.live /\ Release(m).phy = 0
              /\ Release(m).map = m.map /\ Release(m).kern = m.kern
              /\ Release(m).rel
  <1>1. CASE m.kern = "none"
    <2>1. Release(m) = NoMmb
      BY <1>1, SMT DEF Release
    <2>. QED
      BY <1>1, <2>1, NoMmbIs
  <1>2. CASE m.kern # "none"
    <2>1. Release(m) = [m EXCEPT !.rel = TRUE]
      BY <1>2, Zenon DEF Release
    <2>. QED
      BY <1>2, <2>1 DEF MmbType
  <1>. QED
    BY <1>1, <1>2

LEMMA UnmappedIs ==
  ASSUME NEW m \in MmbType, m.map > 0
  PROVE  /\ Unmapped(m) \in MmbType
         /\ m.map = 1 /\ m.rel /\ m.phy = 0 => Unmapped(m) = NoMmb
         /\ ~(m.map = 1 /\ m.rel /\ m.phy = 0) =>
              /\ Unmapped(m).live = m.live /\ Unmapped(m).phy = m.phy
              /\ Unmapped(m).map = m.map - 1
              /\ Unmapped(m).kern = (IF m.map = 1 THEN "none" ELSE m.kern)
              /\ Unmapped(m).rel = m.rel
  <1>1. m.map > 1 \/ (m.map = 1 /\ ~(m.map > 1))
    BY DEF MmbType
  <1>2. CASE m.map > 1
    <2>1. Unmapped(m) = [m EXCEPT !.map = @ - 1]
      BY <1>2, Zenon DEF Unmapped
    <2>. QED
      BY <1>2, <2>1 DEF MmbType
  <1>3. CASE m.map = 1 /\ ~(m.map > 1) /\ m.rel /\ m.phy = 0
    <2>1. Unmapped(m) = NoMmb
      BY <1>3, Zenon DEF Unmapped
    <2>. QED
      BY <1>3, <2>1, NoMmbIs
  <1>4. CASE m.map = 1 /\ ~(m.map > 1) /\ ~(m.rel /\ m.phy = 0)
    <2>. DEFINE n == [m EXCEPT !.map = 0]
    <2>1. Unmapped(m) = [n EXCEPT !.kern = "none"]
      BY <1>4, Zenon DEF Unmapped
    <2>2. /\ n \in MmbType
          /\ n.live = m.live /\ n.phy = m.phy /\ n.rel = m.rel /\ n.map = 0
      BY DEF MmbType
    <2>. HIDE DEF n
    <2>3. [n EXCEPT !.kern = "none"] \in MmbType
      BY <2>2 DEF MmbType
    <2>4. /\ Unmapped(m).live = n.live /\ Unmapped(m).phy = n.phy
          /\ Unmapped(m).rel = n.rel /\ Unmapped(m).map = n.map
          /\ Unmapped(m).kern = "none"
      BY <2>1, <2>2 DEF MmbType
    <2>. QED
      BY <1>4, <2>1, <2>2, <2>3, <2>4
  <1>. QED
    BY <1>1, <1>2, <1>3, <1>4

LEMMA MappedIs ==
  ASSUME NEW m \in MmbType, NEW c \in BOOLEAN
  PROVE  /\ Mapped(m, c) \in MmbType
         /\ Mapped(m, c).live = m.live /\ Mapped(m, c).phy = m.phy
         /\ Mapped(m, c).map = m.map + 1 /\ Mapped(m, c).rel = m.rel
         /\ Mapped(m, c).kern = Type(c)
         /\ Mapped(m, c).kern # "none" /\ Mapped(m, c).map # 0
  <1>. DEFINE h == [m EXCEPT !.map = m.map + 1]
  <1>1. PICK k \in {"plain", "cached"} : k = Type(c)
    BY DEF Type
  <1>2. Mapped(m, c) = [h EXCEPT !.kern = k]
    BY <1>1, Zenon DEF Mapped
  <1>3. /\ h \in MmbType /\ h.live = m.live /\ h.phy = m.phy
        /\ h.map = m.map + 1 /\ h.rel = m.rel /\ h.map # 0
    BY DEF MmbType
  <1>. HIDE DEF h
  <1>4. [h EXCEPT !.kern = k] \in MmbType
    BY <1>3 DEF MmbType
  <1>5. PICK n : n = [h EXCEPT !.kern = k]
    OBVIOUS
  <1>6. /\ n.live = h.live /\ n.phy = h.phy /\ n.map = h.map /\ n.rel = h.rel
        /\ n.kern = k /\ n.kern # "none"
    BY <1>3, <1>5 DEF MmbType
  <1>. QED
    BY <1>1, <1>2, <1>3, <1>4, <1>5, <1>6

LEMMA TakenIs ==
  ASSUME NEW i \in InfoType
  PROVE  /\ Taken(i) \in InfoType
         /\ Taken(i).file = i.file /\ Taken(i).mapped = i.mapped
         /\ Taken(i).cached = i.cached /\ Taken(i).delayed = i.delayed
         /\ Taken(i).map = i.map + 1 /\ Taken(i).ref = i.ref + 1
  <1>. DEFINE j == [i EXCEPT !.map = i.map + 1]
  <1>1. Taken(i) = [j EXCEPT !.ref = i.ref + 1]
    BY Zenon DEF Taken
  <1>2. j \in InfoType /\ i.ref + 1 \in Nat
    BY DEF InfoType
  <1>3. /\ j.file = i.file /\ j.mapped = i.mapped /\ j.cached = i.cached
        /\ j.delayed = i.delayed /\ j.map = i.map + 1
    BY DEF InfoType
  <1>. HIDE DEF j
  <1>4. [j EXCEPT !.ref = i.ref + 1] \in InfoType
    BY <1>2 DEF InfoType
  <1>5. /\ Taken(i).file = j.file /\ Taken(i).mapped = j.mapped
        /\ Taken(i).cached = j.cached /\ Taken(i).delayed = j.delayed
        /\ Taken(i).map = j.map /\ Taken(i).ref = i.ref + 1
    BY <1>1, <1>2 DEF InfoType
  <1>. QED
    BY <1>1, <1>3, <1>4, <1>5

LEMMA SetMmbIs ==
  ASSUME TypeOK, NEW b \in Blocks, NEW m \in MmbType, SetMmb(b, m)
  PROVE  /\ mmb' \in [Blocks -> MmbType]
         /\ mmb'[b] = m
         /\ \A c \in Blocks \ {b} : mmb'[c] = mmb[c]
  BY DEF TypeOK, SetMmb, MmbType

LEMMA SetInfoIs ==
  ASSUME TypeOK, NEW b \in Blocks, NEW i \in InfoType, SetInfo(b, i)
  PROVE  /\ info' \in [Blocks -> InfoType]
         /\ info'[b] = i
         /\ \A c \in Blocks \ {b} : info'[c] = info[c]
  BY DEF TypeOK, SetInfo, InfoType

\* What IInv says of block b
LEMMA Parts ==
  ASSUME IInv, NEW b \in Blocks
  PROVE  /\ TypeOK /\ PcOK /\ OneHolder(b) /\ CountsOK(b) /\ InfoOK(b)
         /\ mmb \in [Blocks -> MmbType] /\ mmb[b] \in MmbType
         /\ info \in [Blocks -> InfoType] /\ info[b] \in InfoType
         /\ kmap[b] \in Nat
  BY DEF IInv, BlockOK, TypeOK, MmbType, InfoType

-----------------------------------------------------------------------------
(* Allocation *)

\* A file that comes or goes and is about no block
LEMMA NewPlace ==
  ASSUME IInv, NEW f \in Files, pc[f].b = Nobody, pc'[f].b = Nobody,
         \A g \in Files \ {f} : pc'[g] = pc[g],
         UNCHANGED <<mmb, info, vma, kernVars>>, closing' \subseteq closing,
         NEW b \in Blocks
  PROVE  BlockOK(b)'
  <1>. USE DEF kernVars
  <1>1. \A g \in Files : Busy(g, b)' <=> Busy(g, b)
    BY DEF Busy
  <1>2. pc'[f] # [at |-> "put", b |-> b] /\ pc[f] # [at |-> "put", b |-> b]
    OBVIOUS
  <1>3. Putting(b)' <=> Putting(b)
    BY <1>2 DEF Putting
  <1>. QED
    BY <1>1, <1>3, Parts
    DEF BlockOK, OneHolder, CountsOK, InfoOK, Counted, Holder, UserRefs, NobodyBusy

LEMMA OpenKeeps ==
  ASSUME IInv, NEW f \in Files, Open(f) PROVE IInv'
  <1>. USE DEF Open
  <1>1. /\ pc' \in [Files -> [at : Places, b : Blocks \cup {Nobody}]]
        /\ PcOK' /\ pc'[f] = [at |-> "idle", b |-> Nobody]
        /\ \A g \in Files \ {f} : pc'[g] = pc[g]
    BY GotoKeeps DEF Places, IInv
  <1>2. TypeOK'
    BY <1>1 DEF IInv, TypeOK, kernVars
  <1>3. pc[f].b = Nobody
    BY DEF IInv, PcOK
  <1>4. ASSUME NEW b \in Blocks PROVE BlockOK(b)'
    BY <1>1, <1>3, NewPlace
  <1>. QED
    BY <1>1, <1>2, <1>4 DEF IInv

LEMMA AllocKeeps ==
  ASSUME IInv, NEW f \in Files, NEW b \in Blocks, Alloc(f, b) PROVE IInv'
  <1>. USE DEF Alloc, kernVars
  <1>1. /\ mmb' \in [Blocks -> MmbType] /\ mmb'[b] = Fresh
        /\ \A c \in Blocks \ {b} : mmb'[c] = mmb[c]
    BY Parts, SetMmbIs, FreshIs
  <1>2. /\ pc' \in [Files -> [at : Places, b : Blocks \cup {Nobody}]]
        /\ PcOK' /\ pc'[f] = [at |-> "alloc", b |-> b]
        /\ \A g \in Files \ {f} : pc'[g] = pc[g]
    BY Parts, GotoKeeps DEF Places
  <1>3. TypeOK'
    BY <1>1, <1>2, Parts DEF TypeOK, MmbType
  <1>4. pc[f].b = Nobody
    BY Parts DEF PcOK
  <1>5. OnlyAbout(b)
    BY <1>1, <1>2, <1>4 DEF OnlyAbout
  <1>6. /\ ~Counted(b) /\ NobodyBusy(b) /\ info[b].file = Nobody /\ b \notin kown
        /\ kmap[b] = 0
    BY Parts DEF CountsOK, Counted, Holder, NobodyBusy
  <1>7. /\ \A g \in Files : Busy(g, b)' <=> g = f
        /\ ~Putting(b)'
    BY <1>2, <1>6, Comes DEF NobodyBusy
  <1>8. OneHolder(b)'
    BY <1>1, <1>6, <1>7, FreshIs DEF OneHolder
  <1>9. CountsOK(b)'
    BY <1>1, <1>6, <1>7, FreshIs DEF CountsOK, Counted, Holder, UserRefs
  <1>10. InfoOK(b)'
    BY Parts DEF InfoOK
  <1>. QED
    BY <1>2, <1>3, <1>5, <1>8, <1>9, <1>10, OneBlock DEF BlockOK

\* The block a file is on: it is live, and the file's alone.
LEMMA OnBlock ==
  ASSUME IInv, NEW f \in Files, pc[f].at \in {"alloc", "put", "free"},
         NEW b, b = pc[f].b
  PROVE  /\ b \in Blocks
         /\ Busy(f, b) /\ \A g \in Files \ {f} : ~Busy(g, b)
         /\ b \notin kown /\ info[b].file = Nobody
         /\ mmb[b].live /\ ~mmb[b].rel /\ mmb[b].map = kmap[b]
         /\ mmb[b].phy = IF pc[f].at = "put" THEN 1 ELSE 0
         /\ pc[f].at # "put" => ~Putting(b)
  <1>1. b \in Blocks
    BY DEF IInv, TypeOK, PcOK
  <1>2. Busy(f, b)
    BY DEF Busy
  <1>3. \A g \in Files \ {f} : ~Busy(g, b)
    BY <1>1, <1>2, Parts DEF OneHolder
  <1>4. b \notin kown /\ info[b].file = Nobody /\ ~mmb[b].rel
    BY <1>1, <1>2, Parts DEF OneHolder, NobodyBusy, MmbType
  <1>5. Putting(b) <=> pc[f].at = "put"
    <2>1. pc[f] = [at |-> pc[f].at, b |-> b]
      BY DEF IInv, TypeOK
    <2>2. \A g \in Files \ {f} : pc[g] # [at |-> "put", b |-> b]
      <3>1. ASSUME NEW g \in Files, pc[g] = [at |-> "put", b |-> b]
            PROVE  Busy(g, b)
        BY <3>1 DEF Busy
      <3>. QED
        BY <1>3, <3>1
    <2>3. pc[f].at = "put" => Putting(b)
      BY <2>1 DEF Putting
    <2>4. Putting(b) => pc[f].at = "put"
      BY <2>1, <2>2 DEF Putting
    <2>. QED
      BY <2>3, <2>4
  <1>6. mmb[b].live
    BY <1>1, <1>2, Parts DEF CountsOK, Counted, Holder
  <1>. QED
    BY <1>1, <1>2, <1>3, <1>4, <1>5, <1>6, Parts DEF CountsOK, UserRefs

LEMMA AllocInfoKeeps ==
  ASSUME IInv, NEW f \in Files, AllocInfo(f) PROVE IInv'
  <1>. USE DEF AllocInfo, kernVars
  <1>. DEFINE i == [NoInfo EXCEPT !.file = f]
  <1>1. PICK b \in Blocks : b = pc[f].b
    BY OnBlock
  <1>2. /\ i \in InfoType /\ i.file = f /\ i.ref = 0 /\ i.map = 0
        /\ ~i.delayed
    BY DEF NoInfo, InfoType
  <1>3. /\ mmb' \in [Blocks -> MmbType] /\ mmb'[b] = Get(mmb[b])
        /\ \A c \in Blocks \ {b} : mmb'[c] = mmb[c]
    BY <1>1, Parts, SetMmbIs, GetIs
  <1>4. /\ info' \in [Blocks -> InfoType] /\ info'[b] = i
        /\ \A c \in Blocks \ {b} : info'[c] = info[c]
    BY <1>1, <1>2, Parts, SetInfoIs
  <1>. HIDE DEF i
  <1>5. /\ pc' \in [Files -> [at : Places, b : Blocks \cup {Nobody}]]
        /\ PcOK' /\ pc'[f] = [at |-> "idle", b |-> Nobody]
        /\ \A g \in Files \ {f} : pc'[g] = pc[g]
    BY <1>1, Parts, GotoKeeps DEF Places
  <1>6. TypeOK'
    BY <1>1, <1>3, <1>4, <1>5, Parts DEF TypeOK, MmbType, InfoType
  <1>7. OnlyAbout(b)
    BY <1>1, <1>3, <1>4, <1>5 DEF OnlyAbout
  <1>8. /\ b \notin kown /\ info[b].file = Nobody /\ ~mmb[b].rel
        /\ mmb[b].live /\ mmb[b].phy = 0 /\ mmb[b].map = kmap[b]
        /\ \A g \in Files \ {f} : ~Busy(g, b)
    BY <1>1, OnBlock
  <1>9. NobodyBusy(b)' /\ ~Putting(b)' /\ \A g \in Files : ~Busy(g, b)'
    BY <1>5, <1>8, Goes
  <1>10. OneHolder(b)'
    BY <1>3, <1>8, <1>9, GetIs, Parts DEF OneHolder
  <1>11. CountsOK(b)'
    BY <1>2, <1>3, <1>4, <1>8, <1>9, GetIs, Parts DEF CountsOK, Counted, Holder, UserRefs
  <1>12. InfoOK(b)'
    <2>1. b \notin vma
      BY <1>8, Parts DEF InfoOK
    <2>. QED
      BY <1>2, <1>4, <2>1 DEF InfoOK
  <1>. QED
    BY <1>5, <1>6, <1>7, <1>10, <1>11, <1>12, OneBlock DEF BlockOK

\* A block that is released when no file has it: AllocNoInfo, DiscardFree
LEMMA ReleasedKeeps ==
  ASSUME IInv, NEW b \in Blocks, mmb[b].live, mmb[b].phy = 0, ~mmb[b].rel,
         mmb[b].map = kmap[b], info[b].file = Nobody, mmb'[b] = Release(mmb[b]),
         b \notin kown', NobodyBusy(b)', ~Putting(b)',
         info'[b] = info[b], kmap'[b] = kmap[b], vma' = vma, closing' = closing
  PROVE  BlockOK(b)'
  <1>1. \A g \in Files : ~Busy(g, b)'
    BY DEF NobodyBusy
  <1>2. OneHolder(b)'
    BY <1>1 DEF OneHolder
  <1>3. CountsOK(b)'
    <2>1. CASE mmb[b].kern = "none"
      BY <1>1, <2>1, Parts, ReleaseIs, NoMmbIs DEF CountsOK, Counted, Holder
    <2>2. CASE mmb[b].kern # "none"
      <3>1. mmb[b].map > 0
        BY <2>2, Parts DEF CountsOK, MmbType
      <3>. QED
        BY <1>1, <2>2, <3>1, Parts, ReleaseIs DEF CountsOK, Counted, Holder, UserRefs
    <2>. QED
      BY <2>1, <2>2
  <1>4. InfoOK(b)'
    BY Parts DEF InfoOK
  <1>. QED
    BY <1>2, <1>3, <1>4 DEF BlockOK

LEMMA ReleaseKeeps ==
  ASSUME IInv, NEW f \in Files, AllocNoInfo(f) \/ DiscardFree(f) PROVE IInv'
  <1>. USE DEF AllocNoInfo, DiscardFree, kernVars
  <1>1. PICK b \in Blocks : b = pc[f].b
    BY OnBlock
  <1>2. /\ b \notin kown /\ info[b].file = Nobody /\ ~mmb[b].rel
        /\ mmb[b].live /\ mmb[b].phy = 0 /\ mmb[b].map = kmap[b]
        /\ \A g \in Files \ {f} : ~Busy(g, b)
    BY <1>1, OnBlock
  <1>3. /\ mmb' \in [Blocks -> MmbType] /\ mmb'[b] = Release(mmb[b])
        /\ \A c \in Blocks \ {b} : mmb'[c] = mmb[c]
    BY <1>1, <1>2, Parts, SetMmbIs, ReleaseIs
  <1>4. /\ pc' \in [Files -> [at : Places, b : Blocks \cup {Nobody}]]
        /\ PcOK' /\ pc'[f] = [at |-> "idle", b |-> Nobody]
        /\ \A g \in Files \ {f} : pc'[g] = pc[g]
    BY <1>1, Parts, GotoKeeps DEF Places
  <1>5. TypeOK'
    BY <1>1, <1>3, <1>4, Parts DEF TypeOK, MmbType
  <1>6. OnlyAbout(b)
    BY <1>1, <1>3, <1>4 DEF OnlyAbout
  <1>7. NobodyBusy(b)' /\ ~Putting(b)'
    BY <1>2, <1>4, Goes
  <1>8. BlockOK(b)'
    BY <1>2, <1>3, <1>7, ReleasedKeeps
  <1>. QED
    BY <1>4, <1>5, <1>6, <1>8, OneBlock

-----------------------------------------------------------------------------
(* A file and its own block *)

\* What IInv says of a block that belongs to an idle file
LEMMA OwnBlock ==
  ASSUME IInv, NEW f \in Files, NEW b \in Blocks, info[b].file = f
  PROVE  /\ b \notin kown /\ NobodyBusy(b) /\ ~Putting(b)
         /\ \A g \in Files : ~Busy(g, b)
         /\ mmb[b].live /\ ~mmb[b].rel /\ mmb[b].map = kmap[b]
         /\ mmb[b].phy = 1 + info[b].ref /\ mmb[b].phy > 0
         /\ info[b].file # Nobody
  <1>1. info[b].file # Nobody /\ b \notin kown /\ NobodyBusy(b) /\ ~mmb[b].rel
    BY Parts DEF OneHolder, MmbType
  <1>2. ~Putting(b) /\ mmb[b].live
    BY <1>1, NoPut, Parts DEF CountsOK, Counted, Holder
  <1>3. mmb[b].phy = 1 + info[b].ref /\ mmb[b].map = kmap[b]
    BY <1>1, <1>2, Parts DEF CountsOK, UserRefs, InfoType
  <1>. QED
    BY <1>1, <1>2, <1>3, Parts DEF NobodyBusy, InfoType

\* The counts of mmb[b], save phy_ref, are as they were.
SameMmb(b) ==
  /\ mmb'[b].live = mmb[b].live /\ mmb'[b].map = mmb[b].map
  /\ mmb'[b].kern = mmb[b].kern /\ mmb'[b].rel = mmb[b].rel

\* A step after which the block is still the file's
LEMMA StillOwn ==
  ASSUME IInv, NEW f \in Files, NEW b \in Blocks, info[b].file = f,
         mmb' \in [Blocks -> MmbType], info' \in [Blocks -> InfoType],
         \A c \in Blocks \ {b} : mmb'[c] = mmb[c] /\ info'[c] = info[c],
         SameMmb(b), mmb'[b].phy = 1 + info'[b].ref, info'[b].file = f,
         vma' \subseteq vma \cup {b}, left' \subseteq left \cup {f}, InfoOK(b)',
         UNCHANGED <<pc, closing, kernVars>>
  PROVE  IInv'
  <1>. USE DEF kernVars
  <1>1. TypeOK'
    BY Parts DEF TypeOK, MmbType, InfoType
  <1>2. OnlyAbout(b)
    BY DEF OnlyAbout
  <1>3. PcOK' /\ NobodyBusy(b)' /\ ~Putting(b)' /\ \A g \in Files : ~Busy(g, b)'
    BY OwnBlock, PcStays, Parts
  <1>4. OneHolder(b)'
    BY <1>3, OwnBlock DEF OneHolder, SameMmb
  <1>5. CountsOK(b)'
    BY <1>3, OwnBlock, Parts DEF CountsOK, Counted, Holder, UserRefs, SameMmb, InfoType
  <1>. QED
    BY <1>1, <1>2, <1>3, <1>4, <1>5, OneBlock DEF BlockOK

\* A step by which the file begins to give the block up
LEMMA DiscardKeeps ==
  ASSUME IInv, NEW f \in Files, NEW b \in Blocks, info[b].file = f,
         pc[f].at = "idle", Discard(f, b),
         mmb' \in [Blocks -> MmbType],
         \A c \in Blocks \ {b} : mmb'[c] = mmb[c],
         SameMmb(b), mmb'[b].phy = 1, vma' \subseteq vma \ {b},
         left' \subseteq left \cup {f},
         UNCHANGED <<closing, kernVars>>
  PROVE  IInv'
  <1>. USE DEF kernVars
  <1>1. /\ info' \in [Blocks -> InfoType] /\ info'[b] = NoInfo
        /\ \A c \in Blocks \ {b} : info'[c] = info[c]
    BY Parts, SetInfoIs, NoInfoIs DEF Discard
  <1>2. /\ pc' \in [Files -> [at : Places, b : Blocks \cup {Nobody}]]
        /\ PcOK' /\ pc'[f] = [at |-> "put", b |-> b]
        /\ \A g \in Files \ {f} : pc'[g] = pc[g]
    BY Parts, GotoKeeps DEF Places, Discard
  <1>3. TypeOK'
    BY <1>1, <1>2, Parts DEF TypeOK, MmbType, InfoType
  <1>4. pc[f].b = Nobody
    BY Parts DEF PcOK
  <1>5. OnlyAbout(b)
    BY <1>1, <1>2, <1>4 DEF OnlyAbout
  <1>6. /\ \A g \in Files : Busy(g, b)' <=> g = f
        /\ Putting(b)'
    BY <1>2, OwnBlock, Comes
  <1>7. OneHolder(b)'
    BY <1>1, <1>6, OwnBlock, NoInfoIs DEF OneHolder, SameMmb
  <1>8. CountsOK(b)'
    BY <1>1, <1>6, OwnBlock, Parts, NoInfoIs
    DEF CountsOK, Counted, Holder, UserRefs, SameMmb
  <1>9. InfoOK(b)'
    BY <1>1, NoInfoIs DEF InfoOK
  <1>. QED
    BY <1>2, <1>3, <1>5, <1>7, <1>8, <1>9, OneBlock DEF BlockOK

LEMMA FreeKeeps ==
  ASSUME IInv, NEW f \in Files, NEW b \in Blocks, Free(f, b) PROVE IInv'
  <1>. USE DEF Free, Ready
  <1>. DEFINE i == [info[b] EXCEPT !.delayed = TRUE]
  <1>1. /\ mmb' \in [Blocks -> MmbType] /\ SameMmb(b) /\ vma' = vma
        /\ \A c \in Blocks \ {b} : mmb'[c] = mmb[c]
    BY Parts DEF SameMmb
  <1>2. CASE info[b].map > 0 \/ info[b].ref > 0
    <2>1. i \in InfoType /\ i.file = f /\ i.ref = info[b].ref
          /\ i.map = info[b].map /\ i.mapped = info[b].mapped
      BY Parts DEF InfoType
    <2>2. SetInfo(b, i) /\ UNCHANGED pc
      BY <1>2
    <2>. HIDE DEF i
    <2>3. /\ info' \in [Blocks -> InfoType] /\ info'[b] = i
          /\ \A c \in Blocks \ {b} : info'[c] = info[c]
      BY <2>1, <2>2, Parts, SetInfoIs
    <2>4. InfoOK(b)'
      BY <1>1, <1>2, <2>1, <2>3, Parts DEF InfoOK
    <2>. QED
      BY <1>1, <2>1, <2>2, <2>3, <2>4, OwnBlock, StillOwn
  <1>3. CASE ~(info[b].map > 0 \/ info[b].ref > 0)
    <2>1. info[b].ref = 0 /\ Discard(f, b)
      BY <1>3, Parts DEF InfoType
    <2>2. vma' \subseteq vma \ {b} /\ left' \subseteq left \cup {f}
      BY <1>3, Parts DEF InfoOK
    <2>. QED
      BY <1>1, <2>1, <2>2, OwnBlock, DiscardKeeps
  <1>. QED
    BY <1>2, <1>3

LEMMA DiscardPutKeeps ==
  ASSUME IInv, NEW f \in Files, DiscardPut(f) PROVE IInv'
  <1>. USE DEF DiscardPut, kernVars
  <1>1. PICK b \in Blocks : b = pc[f].b
    BY OnBlock
  <1>2. /\ b \notin kown /\ info[b].file = Nobody /\ ~mmb[b].rel
        /\ mmb[b].live /\ mmb[b].phy = 1 /\ mmb[b].map = kmap[b]
        /\ \A g \in Files \ {f} : ~Busy(g, b)
    BY <1>1, OnBlock
  <1>3. /\ mmb' \in [Blocks -> MmbType] /\ mmb'[b] = Put(mmb[b])
        /\ \A c \in Blocks \ {b} : mmb'[c] = mmb[c]
    BY <1>1, <1>2, Parts, SetMmbIs, PutIs
  <1>4. /\ pc' \in [Files -> [at : Places, b : Blocks \cup {Nobody}]]
        /\ PcOK' /\ pc'[f] = [at |-> "free", b |-> b]
        /\ \A g \in Files \ {f} : pc'[g] = pc[g]
    BY <1>1, Parts, GotoKeeps DEF Places
  <1>5. TypeOK'
    BY <1>1, <1>3, <1>4, Parts DEF TypeOK, MmbType
  <1>6. OnlyAbout(b)
    BY <1>1, <1>3, <1>4 DEF OnlyAbout
  <1>7. (\A g \in Files : Busy(g, b)' <=> g = f) /\ ~Putting(b)'
    BY <1>2, <1>4, Comes
  <1>8. OneHolder(b)'
    BY <1>2, <1>3, <1>7, Parts, PutIs DEF OneHolder
  <1>9. CountsOK(b)'
    BY <1>2, <1>3, <1>7, Parts, PutIs DEF CountsOK, Counted, Holder, UserRefs
  <1>10. InfoOK(b)'
    BY Parts DEF InfoOK
  <1>. QED
    BY <1>4, <1>5, <1>6, <1>8, <1>9, <1>10, OneBlock DEF BlockOK

\* One reference more, on both sides
LEMMA TakenKeeps ==
  ASSUME IInv, NEW f \in Files, NEW b \in Blocks, info[b].file = f,
         NEW i \in InfoType, i.file = f, i.ref = info[b].ref + 1,
         i.map > 0 => i.mapped, f \notin closing,
         SetInfo(b, i), SetMmb(b, Get(mmb[b])),
         vma' \subseteq vma \cup {b}, b \in vma' => i.map > 0,
         UNCHANGED <<left, pc, closing, kernVars>>
  PROVE  IInv'
  <1>1. /\ mmb' \in [Blocks -> MmbType] /\ mmb'[b] = Get(mmb[b])
        /\ \A c \in Blocks \ {b} : mmb'[c] = mmb[c]
    BY Parts, SetMmbIs, GetIs
  <1>2. /\ info' \in [Blocks -> InfoType] /\ info'[b] = i
        /\ \A c \in Blocks \ {b} : info'[c] = info[c]
    BY Parts, SetInfoIs
  <1>3. SameMmb(b) /\ mmb'[b].phy = 1 + info'[b].ref
    BY <1>1, <1>2, OwnBlock, Parts, GetIs DEF SameMmb, InfoType
  <1>4. i.ref > 0
    BY Parts DEF InfoType
  <1>5. InfoOK(b)'
    BY <1>2, <1>4 DEF InfoOK
  <1>. QED
    BY <1>1, <1>2, <1>3, <1>5, StillOwn

LEMMA RemapKeeps ==
  ASSUME IInv, NEW f \in Files, NEW b \in Blocks, NEW c \in BOOLEAN,
         Remap(f, b, c)
  PROVE  IInv'
  <1>1. /\ Taken(info[b]) \in InfoType /\ Taken(info[b]).file = f
        /\ Taken(info[b]).ref = info[b].ref + 1 /\ Taken(info[b]).mapped
        /\ Taken(info[b]).map > 0
    BY Parts, TakenIs DEF Remap, Ready, InfoType
  <1>. QED
    BY <1>1, TakenKeeps DEF Remap, Ready

LEMMA AddRefKeeps ==
  ASSUME IInv, NEW f \in Files, NEW b \in Blocks, AddRef(f, b) PROVE IInv'
  <1>. DEFINE i == [info[b] EXCEPT !.ref = @ + 1]
  <1>1. /\ i \in InfoType /\ i.file = f /\ i.ref = info[b].ref + 1
        /\ i.map > 0 => i.mapped
        /\ b \in vma => i.map > 0
    BY Parts DEF AddRef, Ready, InfoType, InfoOK
  <1>2. SetInfo(b, i)
    BY DEF AddRef
  <1>. HIDE DEF i
  <1>. QED
    BY <1>1, <1>2, TakenKeeps DEF AddRef, Ready

LEMMA RemapFirstKeeps ==
  ASSUME IInv, NEW f \in Files, NEW b \in Blocks, NEW c \in BOOLEAN,
         RemapFirst(f, b, c)
  PROVE  IInv'
  <1>. DEFINE i == [info[b] EXCEPT !.cached = c]
              j == [i EXCEPT !.mapped = TRUE]
  <1>1. /\ i \in InfoType /\ i.file = f /\ i.ref = info[b].ref
        /\ i.map = info[b].map /\ i.mapped = info[b].mapped
        /\ i.delayed = info[b].delayed
    BY Parts DEF RemapFirst, Ready, InfoType
  <1>2. \/ SetInfo(b, i) /\ UNCHANGED <<mmb, vma>>
        \/ /\ SetInfo(b, Taken(j)) /\ SetMmb(b, Get(mmb[b]))
           /\ vma' = vma \cup {b}
    BY DEF RemapFirst
  <1>. HIDE DEF i
  <1>3. j \in InfoType /\ j.file = f /\ j.ref = info[b].ref /\ j.mapped
    BY <1>1 DEF InfoType
  <1>. HIDE DEF j
  <1>4. CASE SetInfo(b, i) /\ UNCHANGED <<mmb, vma>>
    <2>1. /\ info' \in [Blocks -> InfoType] /\ info'[b] = i
          /\ \A d \in Blocks \ {b} : info'[d] = info[d]
      BY <1>1, <1>4, Parts, SetInfoIs
    <2>2. SameMmb(b) /\ mmb'[b].phy = 1 + info'[b].ref
      BY <1>1, <1>4, <2>1, OwnBlock DEF SameMmb, RemapFirst, Ready
    <2>3. InfoOK(b)' /\ left' \subseteq left \cup {f}
      BY <1>1, <1>4, <2>1, Parts DEF InfoOK, RemapFirst, Ready
    <2>. QED
      BY <1>1, <1>4, <2>1, <2>2, <2>3, Parts, StillOwn DEF RemapFirst, Ready
  <1>5. CASE /\ SetInfo(b, Taken(j)) /\ SetMmb(b, Get(mmb[b]))
             /\ vma' = vma \cup {b}
    <2>1. /\ Taken(j) \in InfoType /\ Taken(j).file = f
          /\ Taken(j).ref = info[b].ref + 1 /\ Taken(j).mapped
          /\ Taken(j).map > 0
      BY <1>3, TakenIs DEF InfoType
    <2>. QED
      BY <1>5, <2>1, TakenKeeps DEF RemapFirst, Ready
  <1>. QED
    BY <1>2, <1>4, <1>5

\* One reference less, and the file keeps the block
LEMMA GivenKeeps ==
  ASSUME IInv, NEW f \in Files, NEW b \in Blocks, info[b].file = f,
         info[b].ref > 0, NEW i \in InfoType, i.file = f,
         i.ref = info[b].ref - 1, i.map > 0 => i.mapped,
         i.delayed => i.map > 0 \/ i.ref > 0 \/ i.mapped,
         SetInfo(b, i), SetMmb(b, Put(mmb[b])), left' \subseteq left \cup {f},
         vma' \subseteq vma, b \in vma' => i.map > 0, UNCHANGED <<pc, closing, kernVars>>
  PROVE  IInv'
  <1>1. /\ mmb' \in [Blocks -> MmbType] /\ mmb'[b] = Put(mmb[b])
        /\ \A c \in Blocks \ {b} : mmb'[c] = mmb[c]
    BY Parts, SetMmbIs, PutIs, OwnBlock
  <1>2. /\ info' \in [Blocks -> InfoType] /\ info'[b] = i
        /\ \A c \in Blocks \ {b} : info'[c] = info[c]
    BY Parts, SetInfoIs
  <1>3. SameMmb(b) /\ mmb'[b].phy = 1 + info'[b].ref
    BY <1>1, <1>2, OwnBlock, Parts, PutIs DEF SameMmb, InfoType
  <1>4. InfoOK(b)'
    BY <1>2, Parts DEF InfoOK
  <1>. QED
    BY <1>1, <1>2, <1>3, <1>4, StillOwn

\* The last reference goes, and with it the block
LEMMA LastKeeps ==
  ASSUME IInv, NEW f \in Files, NEW b \in Blocks, info[b].file = f,
         pc[f].at = "idle", info[b].ref = 1, Discard(f, b),
         SetMmb(b, Put(mmb[b])), vma' \subseteq vma \ {b},
         left' \subseteq left \cup {f}, UNCHANGED <<closing, kernVars>>
  PROVE  IInv'
  <1>1. /\ mmb' \in [Blocks -> MmbType] /\ mmb'[b] = Put(mmb[b])
        /\ \A c \in Blocks \ {b} : mmb'[c] = mmb[c]
    BY Parts, SetMmbIs, PutIs, OwnBlock
  <1>2. SameMmb(b) /\ mmb'[b].phy = 1
    BY <1>1, OwnBlock, Parts, PutIs DEF SameMmb
  <1>. QED
    BY <1>1, <1>2, DiscardKeeps

LEMMA DecRefKeeps ==
  ASSUME IInv, NEW f \in Files, NEW b \in Blocks, DecRef(f, b) PROVE IInv'
  <1>. DEFINE i == [info[b] EXCEPT !.ref = @ - 1]
  <1>1. /\ i \in InfoType /\ i.file = f /\ i.ref = info[b].ref - 1
        /\ i.map = info[b].map /\ i.mapped = info[b].mapped
        /\ i.delayed = info[b].delayed
    BY Parts DEF DecRef, Ready, InfoType
  <1>2. IF i.delayed /\ i.ref = 0 /\ i.map = 0
          THEN Discard(f, b) ELSE SetInfo(b, i) /\ UNCHANGED pc
    BY DEF DecRef
  <1>. HIDE DEF i
  <1>3. CASE i.delayed /\ i.ref = 0 /\ i.map = 0
    <2>1. info[b].ref = 1 /\ Discard(f, b)
      BY <1>1, <1>2, <1>3, Parts DEF InfoType
    <2>2. b \notin vma
      <3>1. info[b].map = 0
        BY <1>1, <1>3
      <3>2. b \in vma => info[b].map > 0
        BY Parts DEF InfoOK
      <3>. QED
        BY <3>1, <3>2
    <2>3. vma' \subseteq vma \ {b} /\ left' \subseteq left \cup {f}
      BY <2>2 DEF DecRef
    <2>. QED
      BY <2>1, <2>3, LastKeeps DEF DecRef, Ready
  <1>4. CASE ~(i.delayed /\ i.ref = 0 /\ i.map = 0)
    <2>1. SetInfo(b, i) /\ UNCHANGED pc
      BY <1>2, <1>4
    <2>2. i.delayed => i.map > 0 \/ i.ref > 0
      <3>1. i.map \in Nat /\ i.ref \in Nat
        BY <1>1 DEF InfoType
      <3>. QED
        BY <1>4, <3>1
    <2>3. (i.map > 0 => i.mapped) /\ (b \in vma => i.map > 0)
      BY <1>1, Parts DEF InfoOK
    <2>. QED
      BY <1>1, <2>1, <2>2, <2>3, GivenKeeps DEF DecRef, Ready
  <1>. QED
    BY <1>3, <1>4

\* The mmb_info with a mapping and a reference less
LEMMA GivenIs ==
  ASSUME NEW i \in InfoType, NEW j, j = [i EXCEPT !.map = @ - 1, !.ref = @ - 1],
         i.map > 0, i.ref > 0
  PROVE  /\ j \in InfoType
         /\ j.file = i.file /\ j.mapped = i.mapped
         /\ j.cached = i.cached /\ j.delayed = i.delayed
         /\ j.map = i.map - 1 /\ j.ref = i.ref - 1
  <1>. DEFINE h == [i EXCEPT !.map = i.map - 1]
  <1>1. j = [h EXCEPT !.ref = i.ref - 1]
    BY Zenon
  <1>2. h \in InfoType /\ i.ref - 1 \in Nat
    BY DEF InfoType
  <1>3. /\ h.file = i.file /\ h.mapped = i.mapped /\ h.cached = i.cached
        /\ h.delayed = i.delayed /\ h.map = i.map - 1
    BY DEF InfoType
  <1>. HIDE DEF h
  <1>4. [h EXCEPT !.ref = i.ref - 1] \in InfoType
    BY <1>2 DEF InfoType
  <1>5. /\ j.file = h.file /\ j.mapped = h.mapped /\ j.cached = h.cached
        /\ j.delayed = h.delayed /\ j.map = h.map /\ j.ref = i.ref - 1
    BY <1>1, <1>2 DEF InfoType
  <1>. QED
    BY <1>1, <1>3, <1>4, <1>5

\* The address, kept by an unmap that is refused or fails
LEMMA AddressIs ==
  ASSUME NEW i \in InfoType, NEW how,
         NEW j, j = [i EXCEPT !.mapped = how \in {"refused", "failed"}]
  PROVE  /\ j \in InfoType
         /\ j.file = i.file /\ j.cached = i.cached /\ j.delayed = i.delayed
         /\ j.map = i.map /\ j.ref = i.ref
         /\ how = "refused" => j.mapped
  <1>. DEFINE k == how \in {"refused", "failed"}
  <1>1. k \in BOOLEAN /\ (how = "refused" => k)
    OBVIOUS
  <1>2. j = [i EXCEPT !.mapped = k]
    BY Zenon
  <1>. HIDE DEF k
  <1>. QED
    BY <1>1, <1>2, SMT DEF InfoType

LessOne(b) == [info[b] EXCEPT !.map = @ - 1, !.ref = @ - 1]
Address(b, how) ==
  [LessOne(b) EXCEPT !.mapped = how \in {"refused", "failed"}]

\* The ends of an unmap
LEMMA UnmapIs ==
  ASSUME NEW f \in Files, NEW b \in Blocks, NEW how \in Unmaps,
         Unmap(f, b, how),
         NEW i, i = LessOne(b), NEW j, j = Address(b, how)
  PROVE  /\ left' \subseteq left \cup {f}
         /\ IF i.map > 0
              THEN SetInfo(b, i) /\ UNCHANGED <<vma, pc>>
              ELSE /\ vma' = vma \ {b}
                   /\ IF how # "refused" /\ i.delayed /\ i.ref = 0
                        THEN Discard(f, b)
                        ELSE SetInfo(b, j) /\ UNCHANGED pc
  <1>1. left' \subseteq left \cup {f}
    BY DEF Unmap
  <1>2. i.map > 0 => SetInfo(b, i) /\ UNCHANGED <<vma, pc>>
    BY Zenon DEF Unmap, LessOne, Address
  <1>3. ~(i.map > 0) =>
          /\ vma' = vma \ {b}
          /\ IF how # "refused" /\ i.delayed /\ i.ref = 0
               THEN Discard(f, b)
               ELSE SetInfo(b, j) /\ UNCHANGED pc
    BY Zenon DEF Unmap, LessOne, Address
  <1>. QED
    BY <1>1, <1>2, <1>3, Zenon

LEMMA UnmapKeeps ==
  ASSUME IInv, NEW f \in Files, NEW b \in Blocks, NEW how \in Unmaps,
         Unmap(f, b, how)
  PROVE  IInv'
  <1>1. /\ info[b].file = f /\ pc[f].at = "idle" /\ info[b].mapped
        /\ info[b].map > 0 /\ info[b].ref > 0
        /\ SetMmb(b, Put(mmb[b])) /\ UNCHANGED <<closing, kernVars>>
    BY DEF Unmap, Ready
  <1>2. PICK i : i = LessOne(b)
    OBVIOUS
  <1>3. PICK j : j = Address(b, how)
    OBVIOUS
  <1>4. /\ i \in InfoType /\ i.file = f /\ i.mapped
        /\ i.ref = info[b].ref - 1
    BY <1>1, <1>2, Parts, GivenIs DEF LessOne
  <1>5. /\ j \in InfoType /\ j.file = f /\ j.ref = i.ref /\ j.map = i.map
        /\ j.delayed = i.delayed /\ (how = "refused" => j.mapped)
    <2>1. j = [i EXCEPT !.mapped = how \in {"refused", "failed"}]
      BY <1>2, <1>3, Zenon DEF Address
    <2>2. /\ j \in InfoType
          /\ j.file = i.file /\ j.delayed = i.delayed
          /\ j.map = i.map /\ j.ref = i.ref
          /\ how = "refused" => j.mapped
      BY <1>4, <2>1, AddressIs
    <2>. QED
      BY <1>4, <2>2
  <1>6. left' \subseteq left \cup {f}
    BY <1>2, <1>3, UnmapIs
  <1>7. CASE i.map > 0
    <2>1. SetInfo(b, i) /\ UNCHANGED <<vma, pc>>
      BY <1>2, <1>3, <1>7, UnmapIs
    <2>. QED
      BY <1>1, <1>4, <1>6, <1>7, <2>1, GivenKeeps
  <1>8. CASE ~(i.map > 0) /\ how # "refused" /\ i.delayed /\ i.ref = 0
    <2>1. Discard(f, b) /\ vma' = vma \ {b}
      BY <1>2, <1>3, <1>8, UnmapIs
    <2>2. info[b].ref = 1
      BY <1>4, <1>8, Parts DEF InfoType
    <2>. QED
      BY <1>1, <1>6, <2>1, <2>2, LastKeeps
  <1>9. CASE ~(i.map > 0) /\ ~(how # "refused" /\ i.delayed /\ i.ref = 0)
    <2>1. SetInfo(b, j) /\ UNCHANGED pc /\ vma' = vma \ {b}
      BY <1>2, <1>3, <1>9, UnmapIs
    <2>2. ~(j.map > 0) /\ (j.delayed => j.ref > 0 \/ j.mapped)
      <3>1. i.ref \in Nat
        BY <1>4 DEF InfoType
      <3>. QED
        BY <1>5, <1>9, <3>1
    <2>. QED
      BY <1>1, <1>4, <1>5, <1>6, <2>1, <2>2, GivenKeeps
  <1>. QED
    BY <1>7, <1>8, <1>9

LEMMA MunmapLeftKeeps ==
  ASSUME IInv, NEW f \in Files, MunmapLeft(f) PROVE IInv'
  <1>. USE DEF MunmapLeft, kernVars
  <1>1. TypeOK'
    BY DEF IInv, TypeOK
  <1>2. ASSUME NEW b \in Blocks PROVE BlockOK(b)'
    <2>1. /\ (\A g \in Files : Busy(g, b)' <=> Busy(g, b))
          /\ NobodyBusy(b)' <=> NobodyBusy(b)
          /\ Putting(b)' <=> Putting(b)
      BY PcStays
    <2>. QED
      BY <2>1, Parts
      DEF BlockOK, OneHolder, CountsOK, InfoOK, Counted, Holder, UserRefs
  <1>. QED
    BY <1>1, <1>2 DEF IInv, PcOK

LEMMA MunmapKeeps ==
  ASSUME IInv, NEW b \in Blocks, Munmap(b) PROVE IInv'
  <1>. USE DEF Munmap, kernVars
  <1>1. TypeOK'
    BY DEF IInv, TypeOK
  <1>2. OnlyAbout(b)
    BY DEF OnlyAbout
  <1>3. /\ PcOK' /\ (\A g \in Files : Busy(g, b)' <=> Busy(g, b))
        /\ NobodyBusy(b)' <=> NobodyBusy(b)
        /\ Putting(b)' <=> Putting(b)
    BY PcStays, Parts
  <1>4. BlockOK(b)'
    BY <1>3, Parts DEF BlockOK, OneHolder, CountsOK, InfoOK, Counted, Holder, UserRefs
  <1>. QED
    BY <1>1, <1>2, <1>3, <1>4, OneBlock

-----------------------------------------------------------------------------
(* The close *)

LEMMA CloseKeeps ==
  ASSUME IInv, NEW f \in Files, Close(f) PROVE IInv'
  <1>. USE DEF Close, kernVars
  <1>1. TypeOK'
    BY DEF IInv, TypeOK
  <1>2. ASSUME NEW b \in Blocks PROVE BlockOK(b)'
    <2>1. /\ (\A g \in Files : Busy(g, b)' <=> Busy(g, b))
          /\ NobodyBusy(b)' <=> NobodyBusy(b)
          /\ Putting(b)' <=> Putting(b)
      BY PcStays
    <2>. QED
      BY <2>1, Parts DEF BlockOK, OneHolder, CountsOK, InfoOK, Counted, Holder, UserRefs
  <1>. QED
    BY <1>1, <1>2 DEF IInv, PcOK

LEMMA SweepKeeps ==
  ASSUME IInv, NEW f \in Files, NEW b \in Blocks, Sweep(f, b) PROVE IInv'
  <1>. USE DEF Sweep
  <1>1. PICK m : m = [mmb[b] EXCEPT !.phy = @ - info[b].ref]
    OBVIOUS
  <1>2. /\ m \in MmbType /\ m.phy = 1 /\ m.live = mmb[b].live
        /\ m.map = mmb[b].map /\ m.kern = mmb[b].kern /\ m.rel = mmb[b].rel
    BY <1>1, Parts, OwnBlock DEF MmbType, InfoType
  <1>3. /\ mmb' \in [Blocks -> MmbType] /\ mmb'[b] = m
        /\ \A c \in Blocks \ {b} : mmb'[c] = mmb[c]
    BY <1>1, <1>2, Parts, SetMmbIs
  <1>4. SameMmb(b)
    BY <1>2, <1>3 DEF SameMmb
  <1>5. b \notin vma
    BY Parts DEF InfoOK
  <1>6. vma' \subseteq vma \ {b} /\ left' \subseteq left \cup {f}
    BY <1>5
  <1>. QED
    BY <1>2, <1>3, <1>4, <1>6, DiscardKeeps

LEMMA ClosedKeeps ==
  ASSUME IInv, NEW f \in Files, Closed(f) PROVE IInv'
  <1>. USE DEF Closed, kernVars
  <1>1. /\ pc' \in [Files -> [at : Places, b : Blocks \cup {Nobody}]]
        /\ PcOK' /\ pc'[f] = [at |-> "closed", b |-> Nobody]
        /\ \A g \in Files \ {f} : pc'[g] = pc[g]
    BY GotoKeeps DEF Places, IInv
  <1>2. TypeOK'
    BY <1>1 DEF IInv, TypeOK
  <1>3. pc[f].b = Nobody
    BY DEF IInv, PcOK
  <1>4. ASSUME NEW b \in Blocks PROVE BlockOK(b)'
    BY <1>1, <1>3, NewPlace
  <1>. QED
    BY <1>1, <1>2, <1>4 DEF IInv

-----------------------------------------------------------------------------
(* Kernel modules *)

\* A kernel module's step on block b, after which b is as IInv asks
LEMMA KernKeeps ==
  ASSUME IInv, NEW b \in Blocks, mmb' \in [Blocks -> MmbType],
         \A c \in Blocks \ {b} : mmb'[c] = mmb[c] /\ kmap'[c] = kmap[c],
         kmap' \in [Blocks -> Nat], kown' \subseteq Blocks,
         kown' \ {b} = kown \ {b},
         OneHolder(b)', CountsOK(b)', UNCHANGED userVars
  PROVE  IInv'
  <1>. USE DEF userVars
  <1>1. TypeOK'
    BY DEF IInv, TypeOK, MmbType
  <1>2. OnlyAbout(b)
    BY DEF OnlyAbout
  <1>3. PcOK' /\ InfoOK(b)'
    BY Parts DEF PcOK, InfoOK
  <1>. QED
    BY <1>1, <1>2, <1>3, OneBlock DEF BlockOK

LEMMA KAllocKeeps ==
  ASSUME IInv, NEW b \in Blocks, KAlloc(b) PROVE IInv'
  <1>. USE DEF KAlloc, userVars
  <1>1. /\ mmb' \in [Blocks -> MmbType] /\ mmb'[b] = Fresh
        /\ \A c \in Blocks \ {b} : mmb'[c] = mmb[c]
    BY Parts, SetMmbIs, FreshIs
  <1>2. /\ NobodyBusy(b) /\ info[b].file = Nobody /\ kmap[b] = 0
    BY Parts DEF CountsOK, Counted, Holder, NobodyBusy
  <1>3. /\ NobodyBusy(b)' /\ ~Putting(b)' /\ \A g \in Files : ~Busy(g, b)'
    BY <1>2, NoPut, PcStays DEF NobodyBusy
  <1>4. OneHolder(b)'
    BY <1>1, <1>2, <1>3, FreshIs DEF OneHolder
  <1>5. CountsOK(b)'
    BY <1>1, <1>2, <1>3, FreshIs DEF CountsOK, Counted, Holder, UserRefs
  <1>. QED
    BY <1>1, <1>4, <1>5, Parts, KernKeeps DEF TypeOK

LEMMA KFreeKeeps ==
  ASSUME IInv, NEW b \in Blocks, KFree(b) PROVE IInv'
  <1>. USE DEF KFree, userVars
  <1>1. /\ NobodyBusy(b) /\ info[b].file = Nobody /\ ~mmb[b].rel
    BY Parts DEF OneHolder, MmbType
  <1>2. ~Putting(b) /\ mmb[b].live
    BY <1>1, NoPut, Parts DEF CountsOK, Counted, Holder
  <1>3. mmb[b].phy = 0 /\ mmb[b].map = kmap[b]
    BY <1>1, <1>2, Parts DEF CountsOK, UserRefs
  <1>4. /\ mmb' \in [Blocks -> MmbType] /\ mmb'[b] = Release(mmb[b])
        /\ \A c \in Blocks \ {b} : mmb'[c] = mmb[c]
    BY <1>1, <1>3, Parts, SetMmbIs, ReleaseIs
  <1>5. NobodyBusy(b)' /\ ~Putting(b)'
    BY <1>1, <1>2, PcStays
  <1>6. BlockOK(b)'
    BY <1>1, <1>2, <1>3, <1>4, <1>5, ReleasedKeeps
  <1>. QED
    BY <1>4, <1>6, Parts, KernKeeps DEF TypeOK, BlockOK

LEMMA KMapKeeps ==
  ASSUME IInv, NEW b \in Blocks, NEW c \in BOOLEAN, KMap(b, c) PROVE IInv'
  <1>. USE DEF KMap, userVars
  <1>1. PICK m \in MmbType : m = Mapped(mmb[b], c)
    BY Parts, MappedIs
  <1>2. /\ m.live = mmb[b].live /\ m.phy = mmb[b].phy
        /\ m.map = mmb[b].map + 1 /\ m.rel = mmb[b].rel
        /\ m.kern # "none" /\ m.map # 0
    BY <1>1, Parts, MappedIs
  <1>3. /\ mmb' \in [Blocks -> MmbType] /\ mmb'[b] = m
        /\ \A d \in Blocks \ {b} : mmb'[d] = mmb[d]
    BY <1>1, <1>2, Parts, SetMmbIs
  <1>4. /\ kmap' \in [Blocks -> Nat] /\ kmap'[b] = kmap[b] + 1 /\ kmap'[b] > 0
        /\ \A d \in Blocks \ {b} : kmap'[d] = kmap[d]
    BY Parts DEF TypeOK
  <1>5. /\ (\A g \in Files : Busy(g, b)' <=> Busy(g, b))
        /\ NobodyBusy(b)' <=> NobodyBusy(b)
        /\ Putting(b)' <=> Putting(b)
    BY PcStays
  <1>6. OneHolder(b)'
    BY <1>2, <1>3, <1>5, Parts DEF OneHolder
  <1>7. CountsOK(b)'
    BY <1>2, <1>3, <1>4, <1>5, Parts DEF CountsOK, Counted, Holder, UserRefs
  <1>. QED
    BY <1>3, <1>4, <1>6, <1>7, Parts, KernKeeps DEF TypeOK

LEMMA KUnmapKeeps ==
  ASSUME IInv, NEW b \in Blocks, KUnmap(b) PROVE IInv'
  <1>. USE DEF KUnmap, userVars
  <1>1. mmb[b].live /\ mmb[b].map = kmap[b] /\ mmb[b].map > 0
        /\ mmb[b].phy = UserRefs(b) /\ mmb[b].kern # "none"
    BY Parts DEF CountsOK, Counted, Holder, MmbType
  <1>2. /\ mmb' \in [Blocks -> MmbType] /\ mmb'[b] = Unmapped(mmb[b])
        /\ \A d \in Blocks \ {b} : mmb'[d] = mmb[d]
    BY <1>1, Parts, SetMmbIs, UnmappedIs
  <1>3. /\ kmap' \in [Blocks -> Nat] /\ kmap'[b] = kmap[b] - 1
        /\ \A d \in Blocks \ {b} : kmap'[d] = kmap[d]
    BY Parts DEF TypeOK
  <1>4. /\ (\A g \in Files : Busy(g, b)' <=> Busy(g, b))
        /\ NobodyBusy(b)' <=> NobodyBusy(b)
        /\ Putting(b)' <=> Putting(b)
    BY PcStays
  <1>5. UserRefs(b)' = UserRefs(b)
    BY <1>4 DEF UserRefs
  <1>6. CASE mmb[b].map = 1 /\ mmb[b].rel /\ mmb[b].phy = 0
    <2>1. mmb'[b] = NoMmb /\ kmap'[b] = 0
      BY <1>1, <1>2, <1>3, <1>6, Parts, UnmappedIs
    <2>2. /\ info[b].file = Nobody /\ b \notin kown /\ NobodyBusy(b)
      BY <1>6, Parts DEF OneHolder
    <2>3. ~Counted(b)'
      BY <1>4, <2>1, <2>2 DEF Counted, Holder, NobodyBusy
    <2>4. OneHolder(b)'
      BY <1>4, <2>1, <2>2, NoMmbIs, Parts DEF OneHolder
    <2>5. CountsOK(b)'
      BY <2>1, <2>3, NoMmbIs DEF CountsOK
    <2>. QED
      BY <1>2, <1>3, <2>4, <2>5, Parts, KernKeeps DEF TypeOK
  <1>7. CASE ~(mmb[b].map = 1 /\ mmb[b].rel /\ mmb[b].phy = 0)
    <2>1. /\ mmb'[b].live /\ mmb'[b].phy = mmb[b].phy
          /\ mmb'[b].map = kmap'[b] /\ mmb'[b].rel = mmb[b].rel
          /\ mmb'[b].kern = "none" <=> mmb'[b].map = 0
      BY <1>1, <1>2, <1>3, <1>7, Parts, UnmappedIs DEF MmbType
    <2>2. OneHolder(b)'
      BY <1>4, <2>1, Parts DEF OneHolder
    <2>3. mmb[b].phy > 0 => Holder(b)
      BY <1>1 DEF UserRefs, Putting, Busy, Holder
    <2>4. mmb[b].map = 1 /\ ~Holder(b) => FALSE
      BY <1>1, <1>7, <2>3, Parts DEF CountsOK, MmbType
    <2>5. Holder(b)' <=> Holder(b)
      BY <1>4 DEF Holder
    <2>6. Counted(b)'
      BY <1>1, <1>3, <2>4, <2>5, Parts DEF Counted, Holder
    <2>7. CountsOK(b)'
      BY <1>1, <1>5, <2>1, <2>5, <2>6, Parts DEF CountsOK
    <2>. QED
      BY <1>2, <1>3, <2>2, <2>7, Parts, KernKeeps DEF TypeOK
  <1>. QED
    BY <1>6, <1>7

-----------------------------------------------------------------------------
(* The theorems *)

LEMMA InitHolds == Init => IInv
  <1>. SUFFICES ASSUME Init PROVE IInv
    OBVIOUS
  <1>. USE DEF Init
  <1>1. TypeOK
    BY NoMmbIs, NoInfoIs DEF TypeOK, MmbType, InfoType, Places
  <1>2. PcOK
    BY DEF PcOK
  <1>3. ASSUME NEW b \in Blocks PROVE BlockOK(b)
    <2>1. \A f \in Files : ~Busy(f, b)
      BY DEF Busy
    <2>2. ~Putting(b)
      BY <2>1 DEF Putting, Busy
    <2>3. mmb[b] = NoMmb /\ info[b] = NoInfo /\ kmap[b] = 0
      OBVIOUS
    <2>. QED
      BY <2>1, <2>2, <2>3, NoMmbIs, NoInfoIs
      DEF BlockOK, OneHolder, CountsOK, InfoOK, Counted, Holder, NobodyBusy
  <1>. QED
    BY <1>1, <1>2, <1>3 DEF IInv

LEMMA NextKeepsIInv == IInv /\ [Next]_vars => IInv'
  <1>1. SUFFICES ASSUME IInv, [Next]_vars PROVE IInv'
    OBVIOUS
  <1>2. ASSUME UNCHANGED vars PROVE IInv'
    BY <1>1, <1>2
    DEF vars, userVars, kernVars, IInv, TypeOK, PcOK, BlockOK, OneHolder,
        CountsOK, InfoOK, Counted, Holder, UserRefs, Putting, Busy, NobodyBusy
  <1>3. ASSUME NEW f \in Files, FileStep(f) \/ MunmapLeft(f) PROVE IInv'
    BY <1>1, <1>3, MunmapLeftKeeps, OpenKeeps, AllocInfoKeeps, ReleaseKeeps, DiscardPutKeeps,
       CloseKeeps, ClosedKeeps, AllocKeeps, FreeKeeps, UnmapKeeps, AddRefKeeps,
       DecRefKeeps, SweepKeeps, RemapKeeps, RemapFirstKeeps
    DEF FileStep
  <1>4. ASSUME NEW b \in Blocks, KernStep(b) \/ Munmap(b) PROVE IInv'
    BY <1>1, <1>4, KAllocKeeps, KFreeKeeps, KMapKeeps, KUnmapKeeps, MunmapKeeps
    DEF KernStep
  <1>. QED
    BY <1>1, <1>2, <1>3, <1>4 DEF Next

\* phy_ref and map_ref are what files and kernel modules hold (media-mem.c,
\* mmz_mmb_get and mmz_mmb_put; allocator.c, __mmb_map2kern).
THEOREM RefsAreCounted == Spec => []RefsCounted
  <1>1. IInv => RefsCounted
    BY DEF IInv, BlockOK, CountsOK, RefsCounted
  <1>. QED
    BY <1>1, InitHolds, NextKeepsIInv, PTL DEF Spec

\* A block is freed exactly when its last holder lets it go: a file, a kernel
\* module, or a mapping of a process that its file counts (media-mem.c,
\* mmz_mmb_put and mmz_mmb_free; allocator.c, __mmb_unmap).  Nothing is said of
\* mappings that an unmap left in place and no longer counts.
THEOREM LivesWhileHeld == Spec => []LiveWhileHeld
  <1>1. IInv => LiveWhileHeld
    <2>1. SUFFICES ASSUME IInv, NEW b \in Blocks PROVE mmb[b].live <=> Held(b)
      BY DEF LiveWhileHeld
    <2>2. b \in vma => info[b].file # Nobody
      BY <2>1, Parts DEF InfoOK
    <2>3. Held(b) <=> Counted(b)
      BY <2>2 DEF Held, Counted, Holder
    <2>. QED
      BY <2>1, <2>3, Parts DEF CountsOK
  <1>. QED
    BY <1>1, InitHolds, NextKeepsIInv, PTL DEF Spec

\* A free put off waits for a mapping or a reference that is counted, and
\* whoever gives up the last one carries it out; only behind an unmap that
\* mmz_vma_check refused, which leaves the block its address, may it wait with
\* nothing counted (mmz-userdev.c, ioctl_mmb_free, ioctl_mmb_user_unmap).
THEOREM DelayedFreesWait == Spec => []DelayedFreeWaits
  <1>1. IInv => DelayedFreeWaits
    BY DEF IInv, BlockOK, InfoOK, DelayedFreeWaits
  <1>. QED
    BY <1>1, InitHolds, NextKeepsIInv, PTL DEF Spec

\* The cache types of one block
LEMMA FileKeepsType ==
  ASSUME IInv, NEW f \in Files, FileStep(f), NEW b \in Blocks,
         info[b].map > 0, info'[b].map > 0
  PROVE  info'[b].cached = info[b].cached
  <1>1. CASE info'[b] = info[b]
    BY <1>1
  <1>2. ASSUME NEW c \in Blocks, NEW i \in InfoType, SetInfo(c, i),
               i.cached = info[c].cached \/ i.map = 0 \/ info[c].map = 0
        PROVE  info'[b].cached = info[b].cached
    <2>1. /\ info'[c] = i
          /\ \A d \in Blocks \ {c} : info'[d] = info[d]
      BY <1>2, Parts, SetInfoIs
    <2>. QED
      BY <1>2, <2>1
  <1>3. ASSUME NEW c \in Blocks, Discard(f, c)
        PROVE  info'[b].cached = info[b].cached
    BY <1>2, <1>3, NoInfoIs DEF Discard
  <1>4. ASSUME AllocInfo(f) PROVE info'[b].cached = info[b].cached
    <2>1. PICK c \in Blocks : c = pc[f].b
      BY <1>4, OnBlock DEF AllocInfo
    <2>2. PICK i : i = [NoInfo EXCEPT !.file = f]
      OBVIOUS
    <2>3. i \in InfoType /\ i.map = 0
      BY <2>2 DEF NoInfo, InfoType
    <2>. QED
      BY <1>2, <1>4, <2>1, <2>2, <2>3 DEF AllocInfo
  <1>5. ASSUME NEW c \in Blocks, Free(f, c)
        PROVE  info'[b].cached = info[b].cached
    <2>1. PICK i : i = [info[c] EXCEPT !.delayed = TRUE]
      OBVIOUS
    <2>2. i \in InfoType /\ i.cached = info[c].cached
      BY <2>1, Parts DEF InfoType
    <2>. QED
      BY <1>2, <1>3, <1>5, <2>1, <2>2 DEF Free
  <1>6. ASSUME NEW c \in Blocks, NEW how \in Unmaps, Unmap(f, c, how)
        PROVE  info'[b].cached = info[b].cached
    <2>1. info[c].map > 0 /\ info[c].ref > 0
      BY <1>6 DEF Unmap
    <2>2. PICK i : i = LessOne(c)
      OBVIOUS
    <2>3. i \in InfoType /\ i.cached = info[c].cached
      BY <2>1, <2>2, Parts, GivenIs DEF LessOne
    <2>4. PICK j : j = Address(c, how)
      OBVIOUS
    <2>5. j \in InfoType /\ j.cached = info[c].cached
      BY <2>2, <2>3, <2>4, AddressIs DEF Address
    <2>6. SetInfo(c, i) \/ SetInfo(c, j) \/ Discard(f, c)
      BY <1>6, <2>2, <2>4, UnmapIs
    <2>. QED
      BY <1>2, <1>3, <2>3, <2>5, <2>6
  <1>7. ASSUME NEW c \in Blocks, DecRef(f, c)
        PROVE  info'[b].cached = info[b].cached
    <2>1. PICK i : i = [info[c] EXCEPT !.ref = @ - 1]
      OBVIOUS
    <2>2. i \in InfoType /\ i.cached = info[c].cached
      BY <1>7, <2>1, Parts DEF DecRef, InfoType
    <2>3. SetInfo(c, i) \/ Discard(f, c)
      BY <1>7, <2>1 DEF DecRef
    <2>. QED
      BY <1>2, <1>3, <2>2, <2>3
  <1>8. ASSUME NEW c \in Blocks, AddRef(f, c)
        PROVE  info'[b].cached = info[b].cached
    <2>1. PICK i : i = [info[c] EXCEPT !.ref = @ + 1]
      OBVIOUS
    <2>2. i \in InfoType /\ i.cached = info[c].cached
      BY <2>1, Parts DEF InfoType
    <2>. QED
      BY <1>2, <1>8, <2>1, <2>2 DEF AddRef
  <1>9. ASSUME NEW c \in Blocks, NEW d \in BOOLEAN, Remap(f, c, d)
        PROVE  info'[b].cached = info[b].cached
    <2>1. /\ Taken(info[c]) \in InfoType
          /\ Taken(info[c]).cached = info[c].cached
      BY Parts, TakenIs
    <2>. QED
      BY <1>2, <1>9, <2>1 DEF Remap
  <1>10. ASSUME NEW c \in Blocks, NEW d \in BOOLEAN, RemapFirst(f, c, d)
         PROVE  info'[b].cached = info[b].cached
    <2>1. ~(info[c].mapped /\ info[c].map > 0)
      BY <1>10 DEF RemapFirst
    <2>2. info[c].map = 0
      BY <2>1, Parts DEF InfoOK, InfoType
    <2>3. info'[b] = info[b]
      <3>1. b # c
        BY <2>2
      <3>. QED
        BY <1>10, <3>1, Parts DEF RemapFirst, SetInfo, TypeOK
    <2>. QED
      BY <2>3
  <1>. QED
    BY <1>1, <1>3, <1>4, <1>5, <1>6, <1>7, <1>8, <1>9, <1>10
    DEF FileStep, Open, Alloc, AllocNoInfo, DiscardPut, DiscardFree, Close,
        Closed, Sweep

LEMMA StepKeepsKern ==
  ASSUME IInv, [Next]_vars, NEW b \in Blocks, mmb[b].map > 0, mmb'[b].map > 0
  PROVE  mmb'[b].kern = mmb[b].kern
  <1>1. CASE mmb'[b] = mmb[b]
    BY <1>1
  <1>2. ASSUME NEW c \in Blocks, NEW m \in MmbType, SetMmb(c, m),
               m.kern = mmb[c].kern \/ m.map = 0 \/ mmb[c].map = 0
        PROVE  mmb'[b].kern = mmb[b].kern
    <2>1. /\ mmb'[c] = m
          /\ \A d \in Blocks \ {c} : mmb'[d] = mmb[d]
      BY <1>2, Parts, SetMmbIs
    <2>. QED
      BY <1>2, <2>1
  <1>3. ASSUME NEW c \in Blocks, SetMmb(c, Fresh)
        PROVE  mmb'[b].kern = mmb[b].kern
    BY <1>2, <1>3, FreshIs
  <1>4. ASSUME NEW c \in Blocks, SetMmb(c, Get(mmb[c]))
        PROVE  mmb'[b].kern = mmb[b].kern
    BY <1>2, <1>4, Parts, GetIs
  <1>5. ASSUME NEW c \in Blocks, SetMmb(c, Put(mmb[c])),
               mmb[c].phy > 0, ~mmb[c].rel
        PROVE  mmb'[b].kern = mmb[b].kern
    BY <1>2, <1>5, Parts, PutIs
  <1>6. ASSUME NEW c \in Blocks, SetMmb(c, Release(mmb[c])),
               mmb[c].phy = 0, ~mmb[c].rel
        PROVE  mmb'[b].kern = mmb[b].kern
    BY <1>2, <1>6, Parts, ReleaseIs, NoMmbIs
  <1>7. ASSUME NEW f \in Files, FileStep(f)
        PROVE  mmb'[b].kern = mmb[b].kern
    <2>1. CASE AllocInfo(f) \/ AllocNoInfo(f) \/ DiscardFree(f) \/ DiscardPut(f)
      <3>1. PICK c \in Blocks : c = pc[f].b
        BY <2>1, OnBlock DEF AllocInfo, AllocNoInfo, DiscardFree, DiscardPut
      <3>. QED
        BY <1>4, <1>5, <1>6, <2>1, <3>1, OnBlock
        DEF AllocInfo, AllocNoInfo, DiscardFree, DiscardPut
    <2>2. ASSUME NEW c \in Blocks,
                 DecRef(f, c) \/ \E how \in Unmaps : Unmap(f, c, how)
          PROVE  mmb'[b].kern = mmb[b].kern
      <3>1. SetMmb(c, Put(mmb[c])) /\ info[c].file = f
        BY <2>2 DEF Unmap, DecRef, Ready
      <3>. QED
        BY <1>5, <3>1, OwnBlock
    <2>3. ASSUME NEW c \in Blocks, Sweep(f, c)
          PROVE  mmb'[b].kern = mmb[b].kern
      <3>1. PICK m : m = [mmb[c] EXCEPT !.phy = @ - info[c].ref]
        OBVIOUS
      <3>2. SetMmb(c, m)
        BY <2>3, <3>1 DEF Sweep
      <3>3. m \in MmbType /\ m.kern = mmb[c].kern
        BY <2>3, <3>1, Parts, OwnBlock DEF Sweep, MmbType, InfoType
      <3>. QED
        BY <1>2, <3>2, <3>3
    <2>4. ASSUME NEW c \in Blocks, NEW d \in BOOLEAN,
                 Remap(f, c, d) \/ RemapFirst(f, c, d)
          PROVE  mmb'[b].kern = mmb[b].kern
      BY <1>1, <1>4, <2>4 DEF Remap, RemapFirst
    <2>. QED
      BY <1>1, <1>3, <1>4, <1>7, <2>1, <2>2, <2>3, <2>4
      DEF FileStep, Open, Alloc, Free, AddRef, Close, Closed
  <1>8. ASSUME NEW c \in Blocks, KernStep(c) \/ Munmap(c)
        PROVE  mmb'[b].kern = mmb[b].kern
    <2>1. CASE KAlloc(c) \/ Munmap(c)
      BY <1>1, <1>3, <2>1 DEF KAlloc, Munmap
    <2>2. CASE KFree(c)
      <3>1. NobodyBusy(c) /\ info[c].file = Nobody /\ ~mmb[c].rel
        BY <2>2, Parts DEF KFree, OneHolder, MmbType
      <3>2. mmb[c].phy = 0
        BY <2>2, <3>1, NoPut, Parts DEF KFree, CountsOK, UserRefs, Counted, Holder
      <3>. QED
        BY <1>6, <2>2, <3>1, <3>2 DEF KFree
    <2>3. ASSUME NEW d \in BOOLEAN, KMap(c, d)
          PROVE  mmb'[b].kern = mmb[b].kern
      <3>1. PICK m \in MmbType : m = Mapped(mmb[c], d)
        BY Parts, MappedIs
      <3>2. m.kern = Type(d)
        BY <3>1, Parts, MappedIs
      <3>3. SetMmb(c, m) /\ mmb[c].kern \in {"none", Type(d)}
        BY <2>3, <3>1 DEF KMap
      <3>4. mmb[c].kern = "none" => mmb[c].map = 0
        BY Parts DEF CountsOK
      <3>. QED
        BY <1>2, <3>2, <3>3, <3>4
    <2>4. CASE KUnmap(c)
      <3>1. mmb[c].map > 0
        BY <2>4, Parts DEF KUnmap, CountsOK, Counted, Holder
      <3>2. /\ Unmapped(mmb[c]) \in MmbType
            /\ \/ Unmapped(mmb[c]).map = 0
               \/ Unmapped(mmb[c]).kern = mmb[c].kern
        BY <3>1, Parts, UnmappedIs, NoMmbIs DEF MmbType
      <3>. QED
        BY <1>2, <2>4, <3>2 DEF KUnmap
    <2>. QED
      BY <1>8, <2>1, <2>2, <2>3, <2>4 DEF KernStep
  <1>9. ASSUME NEW f \in Files, MunmapLeft(f)
        PROVE  mmb'[b].kern = mmb[b].kern
    BY <1>1, <1>9 DEF MunmapLeft
  <1>. QED
    BY <1>1, <1>7, <1>8, <1>9 DEF Next, vars

\* No mapping of another cache type is added to a mapped block (mmz-userdev.c,
\* ioctl_mmb_user_remap; allocator.c, __mmb_map2kern).
THEOREM CacheTypesStay == Spec => OneCacheType
  <1>1. ASSUME IInv, [Next]_vars, NEW b \in Blocks,
               info[b].map > 0, info'[b].map > 0
        PROVE  info'[b].cached = info[b].cached
    BY <1>1, FileKeepsType
    DEF Next, vars, userVars, MunmapLeft, KernStep, KAlloc, KFree, KMap, KUnmap,
        Munmap
  <1>2. IInv /\ [Next]_vars =>
          [\A b \in Blocks :
             /\ info[b].map > 0 /\ info'[b].map > 0 =>
                  info'[b].cached = info[b].cached
             /\ mmb[b].map > 0 /\ mmb'[b].map > 0 =>
                  mmb'[b].kern = mmb[b].kern]_vars
    BY <1>1, StepKeepsKern
  <1>. QED
    BY <1>2, InitHolds, NextKeepsIInv, PTL DEF Spec, OneCacheType
=============================================================================
