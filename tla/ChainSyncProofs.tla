--------------------------- MODULE ChainSyncProofs ---------------------------
(***************************************************************************)
(* The safety of ChainSync for every tree of blocks, every number of peers *)
(* and every order of their commits, with any number of crashes and failed *)
(* fetches.                                                                *)
(***************************************************************************)
EXTENDS ChainSync, TLAPS

-----------------------------------------------------------------------------
(* The tree.                                                               *)

\* What the assumption says of a block and its parent.
LEMMA ParentFacts ==
    ASSUME NEW b \in Blocks \ {Genesis}
    PROVE  /\ Parent[b] \in Blocks
           /\ Height[b] = Height[Parent[b]] + 1
           /\ Height[Parent[b]] \in Nat
           /\ Parent[b] # b
BY ChainSyncAssumption

\* The order of the blocks of a tree (LastBlockRef).
LEMMA DescendsRefl == ASSUME NEW b \in Blocks PROVE Descends(b, b)
BY DEF Descends, Ancestors

LEMMA DescendsTrans ==
    ASSUME NEW a \in Blocks, NEW b \in Blocks, NEW c \in Blocks,
           Descends(a, b), Descends(b, c)
    PROVE  Descends(a, c)
<1>1. \A B \in SUBSET Blocks : b \in B /\ Closed(B) => a \in B
  BY DEF Descends, Ancestors
<1>2. \A B \in SUBSET Blocks : c \in B /\ Closed(B) => b \in B
  BY DEF Descends, Ancestors
<1>3. \A B \in SUBSET Blocks : c \in B /\ Closed(B) => a \in B
  BY <1>1, <1>2
<1> QED BY <1>3 DEF Descends, Ancestors

LEMMA DescendsParent ==
    ASSUME NEW b \in Blocks \ {Genesis}
    PROVE  Descends(Parent[b], b)
<1>1. Parent[b] \in Blocks
  BY ParentFacts
<1>2. \A B \in SUBSET Blocks : b \in B /\ Closed(B) => Parent[b] \in B
  BY DEF Closed
<1> QED BY <1>1, <1>2 DEF Descends, Ancestors

\* A block is no higher than what descends from it.
LEMMA DescendsHeight ==
    ASSUME NEW a \in Blocks, NEW b \in Blocks, Descends(a, b)
    PROVE  Height[a] <= Height[b] /\ Height[a] \in Nat /\ Height[b] \in Nat
<1>0. \A x \in Blocks : Height[x] \in Nat
  BY ChainSyncAssumption
<1> DEFINE B == {x \in Blocks : Height[x] <= Height[b]}
<1>1. b \in B
  BY <1>0
<1>2. Closed(B)
  <2> SUFFICES ASSUME NEW x \in B \ {Genesis} PROVE Parent[x] \in B
    BY DEF Closed
  <2>1. Parent[x] \in Blocks /\ Height[x] = Height[Parent[x]] + 1 /\ Height[Parent[x]] \in Nat
    BY ParentFacts
  <2> QED BY <1>0, <2>1
<1>3. a \in B
  <2>1. B \in SUBSET Blocks
    OBVIOUS
  <2> HIDE DEF B
  <2> QED BY <1>1, <1>2, <2>1 DEF Descends, Ancestors
<1> QED BY <1>0, <1>3

-----------------------------------------------------------------------------
(* The invariant by owner: what is shared, and what each goroutine knows.  *)

Ids == 1..Len(seg)

Data ==
    /\ blk \in [Blocks -> BlockRecord] /\ seg \in Seq(Segment) /\ Len(seg) <= MaxSegs
    /\ \A b \in Blocks : blk[b].seg = NoSeg => blk[b] = NoRecord

RecordsKnown ==
    /\ \A b \in Blocks : blk[b].seg # NoSeg => Known(blk[b].seg)
    /\ \A id \in Ids : /\ seg[id].prev # NoSeg => Known(seg[id].prev)
                       /\ seg[id].next # NoSeg => Known(seg[id].next)

SharedInv ==
    Data /\ RecordsKnown /\ MembersFromTail /\ OneOpen /\ LinksStable /\ SegmentsOrdered

HeadInv ==
    /\ stateSegment \in Nat /\ lastBlock \in Blocks \cup {None}
    /\ stateSegment # NoSeg => Known(stateSegment)
    /\ lastBlock # None => stateSegment # NoSeg

QueueInv == queue \in Seq(Nat) /\ \A i \in 1..Len(queue) : Known(queue[i])

PType ==
    /\ p \in [pc: PStates, b: Blocks \cup {None}, own: BlockRecord, parent: BlockRecord]
    /\ p.pc # "idle" => p.own = NoRecord /\ p.b \in Blocks \ {Genesis}

PKnown ==
    /\ p.pc \in {"append parent", "append block", "append head"} => Known(p.parent.seg)
    /\ p.pc = "append head" => blk[p.b].seg # NoSeg
    /\ p.pc = "new block" => p.parent.seg \in Ids /\ seg[p.parent.seg].head = p.b

PInv == PType /\ PKnown /\ AppendsAtEnd /\ StaleRecords

RType ==
    r \in [pc: RStates, seg: 0..MaxSegs, prev: 0..MaxSegs, b: Blocks \cup {None},
           bseg: 0..MaxSegs]

RKnown ==
    /\ r.pc # "idle" => Known(r.seg)
    /\ r.pc \in {"append segment", "append next"} => Known(r.prev)
    /\ r.pc \in {"mark head", "set head"} => Known(r.bseg) /\ r.b \in Blocks

RInv == RType /\ RKnown /\ RewindsTail

SInv ==
    /\ s \in [pc: {"idle", "head"}, b: Blocks \cup {None}, seg: 0..MaxSegs]
    /\ s.pc = "head" => Known(s.seg) /\ s.b \in Blocks

CountInv ==
    /\ seen \in [Peers -> Nat] /\ \A q \in Peers : seen[q] \in 0..Len(Sent[q])
    /\ crashes \in Nat /\ fails \in Nat

Parts == SharedInv /\ HeadInv /\ QueueInv /\ PInv /\ RInv /\ SInv /\ CountInv

LEMMA Forms == IInv <=> Parts
<1> USE DEF Ids
<1>1. ASSUME IInv PROVE Parts
  <2>1. SharedInv
    BY <1>1 DEF IInv, SharedInv, TypeOK, Memory, ReferencesKnown, Data, RecordsKnown
  <2>2. HeadInv
    <3>1. Len(seg) \in Nat /\ stateSegment \in 0..Len(seg)
      BY <1>1 DEF IInv, TypeOK
    <3>2. stateSegment \in Nat
      BY <3>1
    <3> QED BY <1>1, <3>2 DEF IInv, HeadInv, TypeOK, ReferencesKnown
  <2>3. QueueInv
    <3>1. queue \in Seq(Nat)
      BY <1>1 DEF IInv, TypeOK
    <3> QED BY <1>1, <3>1 DEF IInv, QueueInv, ReferencesKnown
  <2>4. PInv
    BY <1>1 DEF IInv, PInv, PType, PKnown, TypeOK, Memory, ReferencesKnown
  <2>5. RInv
    BY <1>1 DEF IInv, RInv, RType, RKnown, Memory, ReferencesKnown
  <2>6. SInv /\ CountInv
    BY <1>1 DEF IInv, SInv, CountInv, TypeOK, Memory, ReferencesKnown
  <2> QED BY <2>1, <2>2, <2>3, <2>4, <2>5, <2>6 DEF Parts
<1>2. ASSUME Parts PROVE IInv
  <2>1. Memory
    BY <1>2 DEF Parts, SharedInv, Data, PInv, PType, RInv, RType, SInv, CountInv, Memory
  <2>2. ReferencesKnown
    BY <1>2 DEF Parts, SharedInv, RecordsKnown, HeadInv, QueueInv, PInv, PType, PKnown,
                RInv, RKnown, SInv, ReferencesKnown
  <2>3. TypeOK
    <3>1. stateSegment \in 0..Len(seg)
      BY <1>2 DEF Parts, SharedInv, Data, HeadInv, Known, NoSeg
    <3>2. queue \in Seq(1..Len(seg))
      <4>1. queue \in Seq(Nat) /\ \A i \in 1..Len(queue) : queue[i] \in 1..Len(seg)
        BY <1>2 DEF Parts, QueueInv, Known
      <4> QED BY <4>1
    <3>3. p.pc \in PStates /\ r.pc \in RStates /\ s.pc \in {"idle", "head"}
      BY <1>2 DEF Parts, PInv, PType, RInv, RType, SInv
    <3>4. r.pc # "idle" => r.seg \in 1..Len(seg)
      BY <1>2 DEF Parts, RInv, RKnown, Known
    <3>5. s.pc = "head" => s.seg \in 1..Len(seg)
      BY <1>2 DEF Parts, SInv, Known
    <3> QED BY <1>2, <3>1, <3>2, <3>3, <3>4, <3>5
            DEF Parts, SharedInv, Data, HeadInv, PInv, PType, CountInv, TypeOK
  <2> QED BY <1>2, <2>1, <2>2, <2>3 DEF Parts, SharedInv, PInv, RInv, IInv
<1> QED BY <1>1, <1>2

-----------------------------------------------------------------------------
(* What a goroutine knows stays true while another one moves.              *)

KnownStays == \A id : Known(id) => Known(id)'

LEMMA HeadStays ==
    ASSUME HeadInv, KnownStays, UNCHANGED <<stateSegment, lastBlock>>
    PROVE  HeadInv'
<1>1. stateSegment # NoSeg => Known(stateSegment)'
  BY DEF HeadInv, KnownStays
<1> QED BY <1>1 DEF HeadInv, Known

LEMMA QueueStays == ASSUME QueueInv, KnownStays, queue' = queue PROVE QueueInv'
<1>1. \A i \in 1..Len(queue) : Known(queue[i])'
  BY DEF QueueInv, KnownStays
<1> QED BY <1>1 DEF QueueInv, Known

LEMMA SStays == ASSUME SInv, KnownStays, s' = s PROVE SInv'
<1>1. s.pc = "head" => Known(s.seg)'
  BY DEF SInv, KnownStays
<1> QED BY <1>1 DEF SInv, Known

LEMMA CountStays == ASSUME CountInv, UNCHANGED <<seen, crashes, fails>> PROVE CountInv'
BY DEF CountInv

\* The fields of a segment.
LEMMA SegFacts ==
    ASSUME Data, NEW id \in Ids
    PROVE  /\ seg[id] \in Segment
           /\ seg[id].head \in Blocks /\ seg[id].tail \in Blocks
           /\ seg[id].prev \in 0..MaxSegs /\ seg[id].next \in 0..MaxSegs
           /\ Height[seg[id].head] \in Nat /\ Height[seg[id].tail] \in Nat
<1>1. seg[id] \in Segment
  BY DEF Data, Ids
<1> QED BY <1>1, ChainSyncAssumption DEF Segment

LEMMA IdsBounded ==
    ASSUME Data, NEW id \in Ids
    PROVE  id \in 0..MaxSegs /\ id # NoSeg /\ 0 \in 0..MaxSegs
<1>1. Len(seg) \in Nat /\ Len(seg) <= MaxSegs /\ MaxSegs \in Nat
  BY ChainSyncAssumption DEF Data
<1> QED BY <1>1 DEF Ids, NoSeg

LEMMA KnownId == \A id : Known(id) => id \in Ids /\ id # NoSeg
BY DEF Known, Ids, NoSeg

\* The rewind loop has the tails and links to itself.  Heads may get higher, and a
\* record may be changed if its block is inside its segment.
RKept ==
    /\ \A id \in Ids : /\ id \in Ids'
                       /\ seg'[id].tail = seg[id].tail /\ seg'[id].prev = seg[id].prev
                       /\ Height[seg'[id].head] >= Height[seg[id].head]
    /\ \A id \in Ids' \ Ids : seg'[id].prev = NoSeg
    /\ \A b \in Blocks : blk[b].seg # NoSeg /\ blk'[b].seg # blk[b].seg => Inside(b, blk[b].seg)

LEMMA UnlinkedKept ==
    ASSUME RKept, NEW b, Unlinked(b)
    PROVE  Unlinked(b)'
BY DEF RKept, Unlinked, Ids

LEMMA InsideKept ==
    ASSUME Data, Data', RKept, NEW b \in Blocks, NEW id \in Ids, Inside(b, id)
    PROVE  Inside(b, id)'
<1>1. Height[b] \in Nat /\ Height[seg[id].head] \in Nat
  BY SegFacts, ChainSyncAssumption
<1>2. Height[seg'[id].head] \in Nat
  <2>1. seg'[id] \in Segment
    BY DEF Data, RKept, Ids
  <2> QED BY <2>1, ChainSyncAssumption DEF Segment
<1> QED BY <1>1, <1>2 DEF RKept, Inside

LEMMA RStays ==
    ASSUME Data, Data', RInv, KnownStays, RKept, r' = r
    PROVE  RInv'
<1>1. RType'
  BY DEF RInv, RType
<1>2. RKnown'
  <2>1. r.pc # "idle" => Known(r.seg)'
    BY DEF RInv, RKnown, KnownStays
  <2>2. r.pc \in {"append segment", "append next"} => Known(r.prev)'
    BY DEF RInv, RKnown, KnownStays
  <2>3. r.pc \in {"mark head", "set head"} => Known(r.bseg)'
    BY DEF RInv, RKnown, KnownStays
  <2> QED BY <2>1, <2>2, <2>3 DEF RInv, RKnown, Known
<1>3. RewindsTail'
  <2>1. r.pc # "idle" => r.seg \in Ids /\ seg'[r.seg].tail = seg[r.seg].tail
                         /\ seg'[r.seg].prev = seg[r.seg].prev
    BY DEF RInv, RKnown, Known, Ids, RKept
  <2>2. (r.pc = "include block" => Unlinked(Parent[r.b]))'
    <3>1. r.pc = "include block" => Unlinked(Parent[r.b])
      BY DEF RInv, RewindsTail
    <3>2. PICK x : x = Parent[r.b]
      OBVIOUS
    <3>3. Unlinked(x) => Unlinked(x)'
      BY UnlinkedKept
    <3> QED BY <3>1, <3>2, <3>3 DEF Unlinked
  <2>3. ASSUME r.pc = "append segment"
        PROVE  /\ FromTail(Parent[r.b], r.prev)'
               /\ (blk[Parent[r.b]].seg = r.prev)' \/ Inside(Parent[r.b], r.prev)'
    <3>1. PICK x \in Blocks, id \in Ids : x = Parent[r.b] /\ id = r.prev
      <4>1. r.seg \in Ids /\ r.b = seg[r.seg].tail /\ r.b # Genesis /\ r.prev \in Ids
        BY <2>3 DEF RInv, RKnown, RewindsTail, Known, Ids
      <4>2. r.b \in Blocks
        BY <4>1, SegFacts
      <4> QED BY <4>1, <4>2, ParentFacts
    <3>2. FromTail(x, id) /\ (blk[x].seg = id \/ Inside(x, id)) /\ id # NoSeg
      <4>1. id # NoSeg
        BY DEF Ids, NoSeg
      <4> QED BY <2>3, <3>1, <4>1 DEF RInv, RewindsTail
    <3>3. FromTail(x, id)'
      BY <3>2 DEF FromTail, Descends, RKept
    <3>4. (blk[x].seg = id)' \/ Inside(x, id)'
      BY <3>2, InsideKept DEF RKept
    <3> QED BY <3>1, <3>3, <3>4 DEF FromTail, Inside
  <2> QED BY <2>1, <2>2, <2>3 DEF RInv, RewindsTail
<1> QED BY <1>1, <1>2, <1>3 DEF RInv

\* The commit handler has the heads and the open blocks to itself.  Tails may get
\* lower, and a record may be changed if its block is then inside a segment and
\* no link depends on it.
PKept ==
    /\ Ids' = Ids
    /\ \A id \in Ids : /\ seg'[id].head = seg[id].head
                       /\ Descends(seg'[id].tail, seg[id].tail)
                       /\ OpenIn(id)' \subseteq OpenIn(id)
    /\ \A b \in Blocks : blk'[b].seg # blk[b].seg =>
          blk'[b].seg # NoSeg /\ Inside(b, blk[b].seg)' /\ Unlinked(b)'
    /\ \A b \in Blocks : Unlinked(b) /\ (blk[b].seg # NoSeg => Inside(b, blk[b].seg)) =>
          Unlinked(b)'

LEMMA PStays ==
    ASSUME Data, Data', RecordsKnown, PInv, KnownStays, PKept, p' = p
    PROVE  PInv'
<1>1. PType'
  BY DEF PInv, PType
<1>2. PKnown'
  <2>1. p.pc \in {"append parent", "append block", "append head"} => Known(p.parent.seg)'
    BY DEF PInv, PKnown, KnownStays
  <2>2. p.pc = "append head" => blk'[p.b].seg # NoSeg
    <3>1. p.pc = "append head" => p.b \in Blocks /\ blk[p.b].seg # NoSeg
      BY DEF PInv, PType, PKnown
    <3> QED BY <3>1 DEF PKept
  <2>3. p.pc = "new block" => p.parent.seg \in Ids' /\ seg'[p.parent.seg].head = p.b
    BY DEF PInv, PKnown, PKept
  <2> QED BY <2>1, <2>2, <2>3 DEF PKnown, Known, Ids
<1>3. AppendsAtEnd'
  <2>1. CASE p.pc \in {"idle", "parent", "new segment"}
    BY <2>1 DEF AppendsAtEnd
  <2>2. CASE p.pc \notin {"idle", "parent", "new segment"}
    <3>1. PICK id \in Ids, b \in Blocks \ {Genesis} : id = p.parent.seg /\ b = p.b
      BY <2>2 DEF PInv, PType, PStates, PKnown, Known, Ids
    <3>2. /\ seg'[id].head = seg[id].head /\ Descends(seg'[id].tail, seg[id].tail)
          /\ OpenIn(id)' \subseteq OpenIn(id)
      BY DEF PKept
    <3>3. seg[id].tail \in Blocks /\ seg'[id].tail \in Blocks /\ Parent[b] \in Blocks
      <4>1. seg'[id] \in Segment
        BY DEF Data, PKept, Ids
      <4> QED BY <4>1, SegFacts, ParentFacts DEF Segment
    <3>4. \A x \in Blocks : Descends(seg[id].tail, x) => Descends(seg'[id].tail, x)
      BY <3>2, <3>3, DescendsTrans
    <3>5. /\ p.pc \in {"append parent", "append block", "append head"} =>
                /\ Descends(seg'[id].tail, Parent[b])
                /\ Height[Parent[b]] >= Height[seg'[id].head]
          /\ p.pc = "new block" => Descends(seg'[id].tail, b)
      BY <3>1, <3>2, <3>3, <3>4 DEF PInv, AppendsAtEnd
    <3>6. /\ p.pc = "append parent" => OpenIn(id)' \subseteq {Parent[b]}
          /\ p.pc \in {"append block", "new block"} => OpenIn(id)' = {}
          /\ p.pc = "append head" => OpenIn(id)' \subseteq {b}
      BY <3>1, <3>2 DEF PInv, AppendsAtEnd
    <3> QED BY <3>1, <3>5, <3>6 DEF AppendsAtEnd, Descends, OpenIn
  <2> QED BY <2>1, <2>2
<1>4. StaleRecords'
  <2>0. ASSUME NEW b \in Blocks, blk'[b].seg = blk[b].seg, blk[b].seg # NoSeg,
               Inside(b, blk[b].seg)
        PROVE  Inside(b, blk[b].seg)'
    <3>1. blk[b].seg \in Ids
      BY <2>0 DEF RecordsKnown, Known, Ids
    <3> QED BY <2>0, <3>1 DEF PKept, Inside
  <2>1. ASSUME p.pc \in {"parent", "append parent", "append block", "new segment", "new block"}
        PROVE  /\ blk'[p.b].seg # NoSeg => Inside(p.b, blk[p.b].seg)'
               /\ Unlinked(p.b)'
    <3>1. PICK b \in Blocks : b = p.b
      BY <2>1 DEF PInv, PType
    <3>2. Unlinked(b) /\ (blk[b].seg # NoSeg => Inside(b, blk[b].seg))
      BY <2>1, <3>1 DEF PInv, StaleRecords
    <3>3. Unlinked(b)'
      BY <3>2 DEF PKept
    <3>4. blk'[b].seg # NoSeg => Inside(b, blk[b].seg)'
      BY <2>0, <3>2 DEF PKept
    <3> QED BY <3>1, <3>3, <3>4 DEF Unlinked, Inside
  <2>2. ASSUME p.pc = "append parent"
        PROVE  /\ blk'[Parent[p.b]].seg # NoSeg
               /\ \/ blk'[Parent[p.b]].seg = p.parent.seg
                  \/ /\ Inside(Parent[p.b], blk[Parent[p.b]].seg)'
                     /\ Unlinked(Parent[p.b])'
    <3>1. PICK x \in Blocks : x = Parent[p.b]
      BY <2>2, ParentFacts DEF PInv, PType
    <3>2. /\ blk[x].seg # NoSeg
          /\ \/ blk[x].seg = p.parent.seg
             \/ Inside(x, blk[x].seg) /\ Unlinked(x)
      BY <2>2, <3>1 DEF PInv, StaleRecords
    <3>3. CASE blk'[x].seg # blk[x].seg
      <4>1. blk'[x].seg # NoSeg /\ Inside(x, blk[x].seg)' /\ Unlinked(x)'
        BY <3>3 DEF PKept
      <4> QED BY <3>1, <4>1 DEF Inside, Unlinked
    <3>4. CASE blk'[x].seg = blk[x].seg /\ blk[x].seg = p.parent.seg
      BY <3>1, <3>2, <3>4
    <3>5. CASE blk'[x].seg = blk[x].seg /\ Inside(x, blk[x].seg) /\ Unlinked(x)
      <4>1. Inside(x, blk[x].seg)' /\ Unlinked(x)'
        BY <2>0, <3>2, <3>5 DEF PKept
      <4> QED BY <3>1, <3>2, <3>5, <4>1 DEF Inside, Unlinked
    <3> QED BY <3>2, <3>3, <3>4, <3>5
  <2> QED BY <2>1, <2>2 DEF StaleRecords
<1> QED BY <1>1, <1>2, <1>3, <1>4 DEF PInv

\* A step that writes neither a record nor a head, tail or link.
SameChain ==
    /\ blk' = blk /\ seg' \in Seq(Segment) /\ Len(seg') = Len(seg)
    /\ \A id \in Ids : /\ seg'[id].head = seg[id].head /\ seg'[id].tail = seg[id].tail
                       /\ seg'[id].prev = seg[id].prev /\ seg'[id].next = seg[id].next

LEMMA SharedStays ==
    ASSUME SharedInv, SameChain
    PROVE  SharedInv' /\ KnownStays /\ RKept /\ PKept
<1>0. Data /\ RecordsKnown
  BY DEF SharedInv
<1>1. Data' /\ Ids' = Ids
  BY DEF SharedInv, Data, SameChain, Ids
<1>2. \A id : Known(id)' <=> Known(id)
  BY DEF Known, SameChain, Ids
<1>3. RecordsKnown'
  <2>1. ASSUME NEW b \in Blocks, blk'[b].seg # NoSeg PROVE Known(blk[b].seg)'
    <3>1. PICK id : id = blk[b].seg
      OBVIOUS
    <3>2. Known(id)'
      BY <1>0, <1>2, <2>1, <3>1 DEF RecordsKnown, SameChain
    <3> QED BY <3>1, <3>2 DEF SameChain, Known
  <2>2. ASSUME NEW id \in Ids'
        PROVE  (/\ seg[id].prev # NoSeg => Known(seg[id].prev)
                /\ seg[id].next # NoSeg => Known(seg[id].next))'
    <3>1. PICK i, j : i = seg[id].prev /\ j = seg[id].next
      OBVIOUS
    <3>2. /\ i # NoSeg => Known(i)'
          /\ j # NoSeg => Known(j)'
          /\ i = seg'[id].prev /\ j = seg'[id].next
      BY <1>0, <1>1, <1>2, <3>1 DEF RecordsKnown, SameChain
    <3> QED BY <3>2 DEF Known
  <2> QED BY <2>1, <2>2 DEF RecordsKnown
<1>4. MembersFromTail'
  <2> SUFFICES ASSUME NEW b \in Blocks, blk[b].seg # NoSeg
               PROVE  (/\ FromTail(b, blk[b].seg)
                       /\ blk[b].next = None => Descends(seg[blk[b].seg].tail, b))'
    BY DEF MembersFromTail, SameChain
  <2>1. blk[b].seg \in Ids
    BY <1>0 DEF RecordsKnown, Known, Ids
  <2> QED BY <2>1 DEF SharedInv, MembersFromTail, FromTail, Descends, SameChain
<1>5. OneOpen'
  <2>1. \A id : OpenIn(id)' = OpenIn(id)
    BY DEF OpenIn, SameChain
  <2> QED BY <1>1, <2>1 DEF SharedInv, OneOpen, SameChain, Ids
<1>6. LinksStable'
  BY <1>1 DEF SharedInv, LinksStable, SameChain, Ids
<1>7. SegmentsOrdered'
  <2> SUFFICES ASSUME NEW id \in Ids
               PROVE  (/\ Descends(seg[id].tail, seg[id].head)
                       /\ seg[id].prev # NoSeg =>
                             /\ Descends(seg[seg[id].prev].tail, seg[id].tail)
                             /\ seg[seg[id].prev].tail # seg[id].tail
                       /\ seg[id].next # NoSeg => seg[seg[id].next].prev = id)'
    BY <1>1 DEF SegmentsOrdered, Ids
  <2>1. /\ seg[id].prev # NoSeg => seg[id].prev \in Ids
        /\ seg[id].next # NoSeg => seg[id].next \in Ids
    BY <1>0 DEF RecordsKnown, Known, Ids
  <2>2. /\ Descends(seg[id].tail, seg[id].head)
        /\ seg[id].prev # NoSeg =>
              /\ Descends(seg[seg[id].prev].tail, seg[id].tail)
              /\ seg[seg[id].prev].tail # seg[id].tail
        /\ seg[id].next # NoSeg => seg[seg[id].next].prev = id
    BY DEF SharedInv, SegmentsOrdered, Ids
  <2> QED BY <2>1, <2>2 DEF SameChain, Descends
<1>8. RKept
  BY <1>0, <1>1, SegFacts DEF RKept, SameChain
<1>9. PKept
  <2>1. \A id \in Ids : Descends(seg'[id].tail, seg[id].tail)
    BY <1>0, SegFacts, DescendsRefl DEF SameChain
  <2>2. \A b : Unlinked(b)' <=> Unlinked(b)
    BY DEF Unlinked, SameChain, Ids
  <2>3. \A id : OpenIn(id)' = OpenIn(id)
    BY DEF OpenIn, SameChain
  <2> QED BY <1>1, <2>1, <2>2, <2>3 DEF PKept, SameChain
<1> QED BY <1>1, <1>2, <1>3, <1>4, <1>5, <1>6, <1>7, <1>8, <1>9 DEF SharedInv, KnownStays

\* What is left to show of a step that writes neither: the goroutine that moves.
LEMMA ControlStep ==
    ASSUME Parts, SameChain
    PROVE  /\ SharedInv' /\ Data /\ Data' /\ KnownStays
           /\ p' = p => PInv'
           /\ r' = r => RInv'
           /\ s' = s => SInv'
           /\ queue' = queue => QueueInv'
           /\ UNCHANGED <<stateSegment, lastBlock>> => HeadInv'
           /\ UNCHANGED <<seen, crashes, fails>> => CountInv'
<1>1. SharedInv' /\ KnownStays /\ RKept /\ PKept
  BY SharedStays DEF Parts
<1>2. Data /\ Data' /\ RecordsKnown
  BY <1>1 DEF Parts, SharedInv
<1> QED BY <1>1, <1>2, PStays, RStays, SStays, QueueStays, HeadStays, CountStays DEF Parts

LEMMA SameChainOf == ASSUME Data, UNCHANGED <<blk, seg>> PROVE SameChain
BY DEF Data, SameChain

\* An idle goroutine knows nothing.
LEMMA IdleKnows ==
    /\ p' = IdleP => PInv'
    /\ r' = IdleR => RInv'
    /\ s' = IdleS => SInv'
<1>0. NoRecord \in BlockRecord /\ 0 \in 0..MaxSegs
  BY ChainSyncAssumption DEF NoRecord, BlockRecord, NoSeg
<1>1. ASSUME p' = IdleP PROVE PInv'
  <2>1. p'.pc = "idle" /\ PType'
    BY <1>0, <1>1 DEF IdleP, PType, PStates
  <2> QED BY <2>1 DEF PInv, PKnown, AppendsAtEnd, StaleRecords
<1>2. ASSUME r' = IdleR PROVE RInv'
  <2>1. r'.pc = "idle" /\ RType'
    BY <1>0, <1>2 DEF IdleR, RType, RStates, NoSeg
  <2> QED BY <2>1 DEF RInv, RKnown, RewindsTail
<1>3. ASSUME s' = IdleS PROVE SInv'
  BY <1>0, <1>3 DEF IdleS, SInv, NoSeg
<1> QED BY <1>1, <1>2, <1>3

\* Nothing is linked at a block that has no record.
LEMMA UnrecordedUnlinked ==
    ASSUME SharedInv, NEW b, blk[b].seg = NoSeg
    PROVE  Unlinked(b)
BY DEF SharedInv, LinksStable, Unlinked, NoSeg

-----------------------------------------------------------------------------
(* The commit handler.                                                     *)

\* A commit arrives (peer.go:143-213, chain.go:435-462).
LEMMA DeliverStep ==
    ASSUME Parts, NEW q \in Peers, NEW i \in 1..Len(Sent[q]), Deliver(q, i)
    PROVE  Parts'
<1>0. SharedInv /\ Data /\ UNCHANGED <<blk, seg>>
  BY DEF Parts, SharedInv, Deliver, dbVars
<1>1. SameChain
  BY <1>0, SameChainOf
<1>2. SharedInv' /\ RInv' /\ SInv' /\ QueueInv' /\ HeadInv' /\ (p' = p => PInv')
  BY <1>1, ControlStep DEF Deliver, dbVars
<1>3. CountInv'
  BY ChainSyncAssumption DEF Parts, CountInv, Deliver
<1>4. PICK b \in Blocks \ {Genesis} : b = Sent[q][i]
  BY ChainSyncAssumption
<1>5. ASSUME blk[b].seg = NoSeg,
             p' = [pc |-> "parent", b |-> b, own |-> blk[b], parent |-> NoRecord]
      PROVE  PInv'
  <2>1. blk[b] = NoRecord /\ NoRecord \in BlockRecord
    BY <1>0, <1>5 DEF Data
  <2>2. PType' /\ p'.pc = "parent" /\ p'.b = b
    BY <1>5, <2>1 DEF PType, PStates
  <2>3. Unlinked(b)'
    BY <1>0, <1>5, UnrecordedUnlinked DEF Unlinked
  <2>4. StaleRecords'
    BY <1>0, <1>5, <2>2, <2>3 DEF StaleRecords, Unlinked
  <2> QED BY <2>2, <2>4 DEF PInv, PKnown, AppendsAtEnd
<1> QED BY <1>2, <1>3, <1>4, <1>5 DEF Parts, Deliver, HandleBlockCommit

\* The parent is looked up; its segment is at its end (chain.go:463-503).
LEMMA LookupParentStep == ASSUME Parts, LookupParent PROVE Parts'
<1>0. SharedInv /\ Data /\ UNCHANGED <<blk, seg>> /\ PInv /\ p.pc = "parent"
  BY DEF Parts, SharedInv, LookupParent, dbVars
<1>1. SameChain
  BY <1>0, SameChainOf
<1>2. SharedInv' /\ RInv' /\ SInv' /\ QueueInv' /\ HeadInv' /\ CountInv'
  BY <1>1, ControlStep DEF LookupParent, dbVars
<1>3. PICK b \in Blocks \ {Genesis}, x \in Blocks : b = p.b /\ x = Parent[b]
  BY <1>0, ParentFacts DEF PInv, PType
<1>4. Unlinked(b) /\ (blk[b].seg # NoSeg => Inside(b, blk[b].seg))
  BY <1>0, <1>3 DEF PInv, StaleRecords
<1>5. Unlinked(b)' /\ (blk'[b].seg # NoSeg => Inside(b, blk[b].seg)')
  BY <1>0, <1>4 DEF Unlinked, Inside
<1>6. ASSUME NEW pc \in {"append parent", "new segment"},
             p' = [p EXCEPT !.pc = pc, !.parent = blk[x]]
      PROVE  PType' /\ p'.pc = pc /\ p'.b = b /\ p'.parent = blk[x]
  BY <1>0, <1>3, <1>6 DEF PInv, PType, PStates, Data
<1>7. CASE p' = IdleP
  BY <1>7, IdleKnows, <1>2 DEF Parts
<1>8. CASE blk[x].seg # NoSeg /\ CanAppend(blk[x], b)
           /\ p' = [p EXCEPT !.pc = "append parent", !.parent = blk[x]]
  <2>1. PType' /\ p'.pc = "append parent" /\ p'.b = b /\ p'.parent = blk[x]
    BY <1>6, <1>8
  <2>2. PICK id \in Ids : id = blk[x].seg /\ Known(id)
    BY <1>0, <1>8 DEF SharedInv, RecordsKnown, Known, Ids
  <2>3. blk[x].next = None /\ x \in OpenIn(id)
    BY <1>8, <2>2 DEF CanAppend, OpenIn
  <2>4. PKnown'
    BY <1>0, <2>1, <2>2 DEF PKnown, Known
  <2>5. Descends(seg[id].tail, x) /\ Height[x] >= Height[seg[id].head] /\ OpenIn(id) \subseteq {x}
    BY <1>0, <1>8, <2>2, <2>3 DEF SharedInv, MembersFromTail, OneOpen, Ids
  <2>6. AppendsAtEnd'
    BY <1>0, <1>3, <2>1, <2>2, <2>5 DEF AppendsAtEnd, Descends, OpenIn
  <2>7. StaleRecords'
    BY <1>0, <1>3, <1>5, <1>8, <2>1 DEF StaleRecords, Unlinked, Inside
  <2> QED BY <1>2, <2>1, <2>4, <2>6, <2>7 DEF Parts, PInv
<1>9. CASE p' = [p EXCEPT !.pc = "new segment", !.parent = blk[x]]
  <2>1. PType' /\ p'.pc = "new segment" /\ p'.b = b
    BY <1>6, <1>9
  <2>2. StaleRecords'
    BY <1>5, <2>1 DEF StaleRecords, Unlinked, Inside
  <2> QED BY <1>2, <2>1, <2>2 DEF Parts, PInv, PKnown, AppendsAtEnd
<1> QED BY <1>3, <1>7, <1>8, <1>9 DEF LookupParent

-----------------------------------------------------------------------------
(* The rewind loop, where it only reads.                                   *)

\* What is left in the queue was in it (segment_queue.go:35-66).
LEMMA PopFacts ==
    ASSUME NEW S, NEW q \in Seq(S), q # <<>>
    PROVE  /\ PopRest(q) \in Seq(S)
           /\ \A i \in 1..Len(PopRest(q)) : \E j \in 1..Len(q) : PopRest(q)[i] = q[j]
           /\ Head(q) = q[1] /\ 1 \in 1..Len(q)
<1>0. Len(q) \in Nat \ {0} /\ Head(q) = q[1] /\ 1 \in 1..Len(q)
  OBVIOUS
<1>1. CASE Len(q) = 1
  BY <1>0, <1>1 DEF PopRest
<1>2. CASE Len(q) # 1
  <2>0. PICK n \in Nat \ {0} : n = Len(q)
    BY <1>0, Zenon
  <2>1. n \in Nat /\ n = Len(q) /\ n >= 2
    <3>1. n # 1
      BY <1>2, <2>0, Zenon
    <3>2. n >= 2
      BY <3>1
    <3> QED BY <2>0, <3>2
  <2>2. /\ SubSeq(q, 2, n - 1) \in Seq(S) /\ Len(SubSeq(q, 2, n - 1)) = n - 2
        /\ \A i \in 1..(n - 2) : SubSeq(q, 2, n - 1)[i] = q[i + 1]
    BY <2>1
  <2>3. q[n] \in S /\ <<q[n]>> \in Seq(S)
    BY <2>1
  <2>4. PopRest(q) = <<q[n]>> \o SubSeq(q, 2, n - 1)
    BY <1>2, <2>1 DEF PopRest, Last
  <2>5. PICK t \in Seq(S) : t = SubSeq(q, 2, n - 1)
    BY <2>2
  <2>6. /\ <<q[n]>> \o t \in Seq(S) /\ Len(<<q[n]>> \o t) = 1 + Len(t)
        /\ (<<q[n]>> \o t)[1] = q[n]
        /\ \A i \in 1..Len(t) : (<<q[n]>> \o t)[i + 1] = t[i]
    BY <2>3
  <2>7. ASSUME NEW i \in 1..(n - 1)
        PROVE  \E j \in 1..n : (<<q[n]>> \o t)[i] = q[j]
    <3>1. CASE i = 1
      BY <2>1, <2>6, <3>1
    <3>2. CASE i # 1
      <4>1. PICK k \in 1..(n - 2) : i = k + 1
        BY <2>1, <3>2
      <4>2. (<<q[n]>> \o t)[i] = q[k + 1]
        BY <2>2, <2>5, <2>6, <4>1
      <4>3. k + 1 \in 1..n
        BY <2>1
      <4> QED BY <4>2, <4>3, Zenon
    <3> QED BY <3>1, <3>2
  <2>8. Len(<<q[n]>> \o t) = n - 1
    BY <2>1, <2>2, <2>5, <2>6
  <2> QED BY <1>0, <2>1, <2>4, <2>5, <2>6, <2>7, <2>8
<1> QED BY <1>1, <1>2

LEMMA PopKeeps ==
    ASSUME Parts, KnownStays, queue # <<>>, queue' = PopRest(queue)
    PROVE  QueueInv' /\ Known(Head(queue))
<1>1. queue \in Seq(Nat) /\ \A j \in 1..Len(queue) : Known(queue[j])
  BY DEF Parts, QueueInv
<1>2. PICK q \in Seq(Nat) : q = queue
  BY <1>1
<1>3. /\ PopRest(q) \in Seq(Nat)
      /\ \A i \in 1..Len(PopRest(q)) : \E j \in 1..Len(q) : PopRest(q)[i] = q[j]
      /\ Head(q) = q[1] /\ 1 \in 1..Len(q)
  BY <1>2, PopFacts
<1>4. \A i \in 1..Len(queue') : Known(queue'[i])
  BY <1>1, <1>2, <1>3
<1>5. QueueInv'
  <2>1. ASSUME NEW i \in 1..Len(queue') PROVE Known(queue[i])'
    <3>1. PICK k : k = queue'[i]
      OBVIOUS
    <3>2. Known(k)'
      BY <1>4, <2>1, <3>1 DEF KnownStays
    <3> QED BY <3>1, <3>2 DEF Known
  <2> QED BY <1>2, <1>3, <2>1 DEF QueueInv
<1> QED BY <1>1, <1>2, <1>3, <1>5

LEMMA PushKeeps ==
    ASSUME Parts, KnownStays, NEW id \in Nat, Known(id)', queue' = Push(queue, id)
    PROVE  QueueInv'
<1>1. queue \in Seq(Nat) /\ \A j \in 1..Len(queue) : Known(queue[j])
  BY DEF Parts, QueueInv
<1>2. CASE queue' = queue
  BY <1>2, QueueStays DEF Parts
<1>3. CASE queue' = Append(queue, id)
  <2>1. /\ queue' \in Seq(Nat) /\ Len(queue') = Len(queue) + 1 /\ queue'[Len(queue) + 1] = id
        /\ \A j \in 1..Len(queue) : queue'[j] = queue[j]
        /\ Len(queue) \in Nat
    BY <1>1, <1>3
  <2>2. ASSUME NEW i \in 1..Len(queue') PROVE Known(queue[i])'
    <3>1. PICK k : k = queue'[i]
      OBVIOUS
    <3>2. k = id \/ \E j \in 1..Len(queue) : k = queue[j]
      BY <2>1, <2>2, <3>1
    <3>3. Known(k)'
      BY <1>1, <3>2 DEF KnownStays
    <3> QED BY <3>1, <3>3 DEF Known
  <2> QED BY <2>1, <2>2 DEF QueueInv
<1> QED BY <1>2, <1>3 DEF Push


\* The first segment of the queue is looked at (segment.go:144-197).
LEMMA RewindStartStep == ASSUME Parts, RewindStart PROVE Parts'
<1>0. /\ SharedInv /\ Data /\ blk' = blk /\ seg' = seg
      /\ queue # <<>> /\ queue' = PopRest(queue)
  BY DEF Parts, SharedInv, RewindStart, dbVars
<1>1. SameChain
  BY <1>0, SameChainOf
<1>2. SharedInv' /\ PInv' /\ SInv' /\ HeadInv' /\ KnownStays
  BY <1>1, ControlStep DEF RewindStart, dbVars
<1>3. CountInv'
  BY <1>1, ControlStep DEF RewindStart, dbVars
<1>4. QueueInv' /\ Known(Head(queue))
  BY <1>0, <1>2, PopKeeps
<1>5. PICK id \in Ids : id = Head(queue) /\ Known(id)
  BY <1>4 DEF Known, Ids
<1>6. PICK t \in Blocks : t = seg[id].tail
  BY <1>0, SegFacts
<1>7. id \in 0..MaxSegs /\ 0 \in 0..MaxSegs
  BY <1>0, IdsBounded
<1> DEFINE At(pc, to) == [IdleR EXCEPT !.pc = pc, !.seg = id, !.b = t, !.prev = to]
<1>8. ASSUME NEW pc \in RStates, NEW to \in 0..MaxSegs, r' = At(pc, to)
      PROVE  RType' /\ r'.pc = pc /\ r'.seg = id /\ r'.b = t /\ r'.prev = to
  BY <1>7, <1>8 DEF IdleR, NoSeg, RType
<1>9. Known(id)'
  BY <1>2, <1>5 DEF KnownStays
<1>10. CASE r' = IdleR
  BY <1>2, <1>3, <1>4, <1>10, IdleKnows DEF Parts
<1>11. CASE r' = At("rewound", NoSeg)
  <2>1. RType' /\ r'.pc = "rewound" /\ r'.seg = id
    BY <1>7, <1>8, <1>11 DEF RStates, NoSeg
  <2>2. RKnown' /\ RewindsTail'
    BY <1>9, <2>1 DEF RKnown, RewindsTail, Known
  <2> QED BY <1>2, <1>3, <1>4, <2>1, <2>2 DEF Parts, RInv
<1>12. CASE /\ t # Genesis /\ blk[Parent[t]].seg \notin {id, NoSeg}
            /\ r' = At("append segment", blk[Parent[t]].seg)
  <2>1. PICK x \in Blocks, j \in Ids : x = Parent[t] /\ j = blk[x].seg /\ Known(j) /\ j # NoSeg
    <3>1. PICK x \in Blocks : x = Parent[t]
      BY <1>12, ParentFacts
    <3>2. Known(blk[x].seg) /\ blk[x].seg \in Ids
      BY <1>0, <1>12, <3>1 DEF SharedInv, RecordsKnown, Known, Ids
    <3> QED BY <1>12, <3>1, <3>2
  <2>2. j \in 0..MaxSegs
    BY <1>0, IdsBounded
  <2>3. RType' /\ r'.pc = "append segment" /\ r'.seg = id /\ r'.b = t /\ r'.prev = j
    BY <1>8, <1>12, <2>1, <2>2 DEF RStates
  <2>4. RKnown'
    BY <1>0, <1>9, <2>1, <2>3 DEF RKnown, Known
  <2>5. FromTail(x, j) /\ blk[x].seg = j
    BY <1>0, <2>1 DEF SharedInv, MembersFromTail
  <2>6. seg[id].prev \in {NoSeg, j}
    BY <1>0, <1>6, <2>1 DEF SharedInv, LinksStable, Ids
  <2>7. RewindsTail'
    BY <1>0, <1>6, <1>12, <2>1, <2>3, <2>5, <2>6 DEF RewindsTail, FromTail, Inside, Descends
  <2> QED BY <1>2, <1>3, <1>4, <2>3, <2>4, <2>7 DEF Parts, RInv
<1>13. CASE t # Genesis /\ blk[Parent[t]].seg = NoSeg /\ r' = At("include block", NoSeg)
  <2>1. RType' /\ r'.pc = "include block" /\ r'.seg = id /\ r'.b = t
    BY <1>7, <1>8, <1>13 DEF RStates, NoSeg
  <2>2. RKnown'
    BY <1>9, <2>1 DEF RKnown, Known
  <2>3. seg[id].prev = NoSeg
    BY <1>0, <1>6, <1>13 DEF SharedInv, LinksStable, Ids
  <2>4. PICK x : x = Parent[t]
    OBVIOUS
  <2>5. Unlinked(x)
    BY <1>0, <1>13, <2>4, UnrecordedUnlinked
  <2>6. RewindsTail'
    BY <1>0, <1>6, <1>13, <2>1, <2>3, <2>4, <2>5 DEF RewindsTail, Unlinked
  <2> QED BY <1>2, <1>3, <1>4, <2>1, <2>2, <2>6 DEF Parts, RInv
<1> QED BY <1>5, <1>6, <1>10, <1>11, <1>12, <1>13 DEF RewindStart

\* A failed fetch loses the segment (segment_store.go:76-98).
LEMMA RewindFailsStep == ASSUME Parts, RewindFails PROVE Parts'
<1>0. SharedInv /\ Data /\ blk' = blk /\ seg' = seg /\ r' = IdleR
  BY DEF Parts, SharedInv, RewindFails, dbVars
<1>1. SameChain
  BY <1>0, SameChainOf
<1>2. SharedInv' /\ PInv' /\ SInv' /\ HeadInv' /\ KnownStays /\ (queue' = queue => QueueInv')
  BY <1>1, ControlStep DEF RewindFails, dbVars
<1>3. CountInv'
  <2>1. UNCHANGED <<seen, crashes>> /\ fails' = fails + 1
    BY DEF RewindFails
  <2> QED BY <2>1 DEF Parts, CountInv
<1>4. QueueInv'
  BY <1>2, PopKeeps DEF RewindFails
<1> QED BY <1>0, <1>2, <1>3, <1>4, IdleKnows DEF Parts

\* A step that writes nothing but the status of a segment.
LEMMA StatusWrite ==
    ASSUME Data, NEW id \in Ids, NEW status \in {"DISJOINTED", "VALID", "INVALID"},
           blk' = blk, seg' = [seg EXCEPT ![id].status = status]
    PROVE  SameChain
<1>1. seg[id] \in Segment /\ seg \in Seq(Segment)
  BY SegFacts DEF Data
<1>2. [seg[id] EXCEPT !.status = status] \in Segment
  BY <1>1 DEF Segment
<1>3. /\ seg' \in Seq(Segment) /\ Len(seg') = Len(seg)
      /\ seg'[id] = [seg[id] EXCEPT !.status = status]
      /\ \A i \in Ids \ {id} : seg'[i] = seg[i]
  BY <1>1, <1>2 DEF Ids
<1>4. /\ seg'[id].head = seg[id].head /\ seg'[id].tail = seg[id].tail
      /\ seg'[id].prev = seg[id].prev /\ seg'[id].next = seg[id].next
  BY <1>1, <1>3 DEF Segment
<1> QED BY <1>3, <1>4 DEF SameChain

\* The rewind loop goes on with the segment it has.
LEMMA MoveOn ==
    ASSUME RInv, KnownStays, r.pc # "idle", NEW pc \in {"rewound", "push"},
           r' = [r EXCEPT !.pc = pc]
    PROVE  RInv'
<1>1. RType' /\ r'.pc = pc /\ r'.seg = r.seg
  BY DEF RInv, RType, RStates
<1>2. PICK id : id = r.seg
  OBVIOUS
<1>3. Known(id)'
  BY <1>2 DEF RInv, RKnown, KnownStays
<1>4. RKnown' /\ RewindsTail'
  BY <1>1, <1>2, <1>3 DEF RKnown, RewindsTail, Known
<1> QED BY <1>1, <1>4 DEF RInv

\* The head of a known segment is in a known segment.
LEMMA KnownHead ==
    ASSUME SharedInv, NEW id, Known(id)
    PROVE  /\ id \in Ids /\ seg[id].head \in Blocks
           /\ Known(blk[seg[id].head].seg)
           /\ blk[seg[id].head].seg \in Ids
<1>1. id \in Ids /\ Data
  BY DEF Known, Ids, SharedInv
<1>2. seg[id].head \in Blocks
  BY <1>1, SegFacts
<1>3. Known(blk[seg[id].head].seg)
  BY <1>2 DEF SharedInv, RecordsKnown, Known
<1> QED BY <1>1, <1>2, <1>3 DEF Known, Ids

\* HandleSegmentUpdated reads the segment it may make the head (chain.go:535-573).
LEMMA SegmentUpdatedStep == ASSUME Parts, SegmentUpdated PROVE Parts'
<1>0. SharedInv /\ Data /\ blk' = blk /\ seg' = seg /\ r.pc = "rewound" /\ RInv
  BY DEF Parts, SharedInv, SegmentUpdated, dbVars
<1>1. SameChain
  BY <1>0, SameChainOf
<1>2. SharedInv' /\ PInv' /\ SInv' /\ HeadInv' /\ QueueInv' /\ CountInv' /\ KnownStays
  BY <1>1, ControlStep DEF SegmentUpdated, dbVars
<1>3. PICK id : id = IF seg[r.seg].prev # NoSeg THEN seg[r.seg].prev ELSE r.seg
  OBVIOUS
<1>4. Known(id)
  <2>1. Known(r.seg)
    BY <1>0 DEF RInv, RKnown
  <2>2. seg[r.seg].prev # NoSeg => Known(seg[r.seg].prev)
    BY <1>0, <2>1 DEF SharedInv, RecordsKnown, Known, Ids
  <2> QED BY <1>3, <2>1, <2>2
<1>5. PICK b \in Blocks, j \in Ids : b = seg[id].head /\ j = blk[b].seg /\ Known(j) /\ id \in Ids
  BY <1>0, <1>4, KnownHead
<1>6. PICK pc \in {"mark head", "push"} :
          r' = [r EXCEPT !.pc = pc, !.seg = id, !.b = b, !.bseg = j]
  BY <1>3, <1>5 DEF SegmentUpdated
<1>7. RType' /\ r'.pc = pc /\ r'.seg = id /\ r'.b = b /\ r'.bseg = j
  <2>1. id \in 0..MaxSegs /\ j \in 0..MaxSegs
    BY <1>0, <1>5, IdsBounded
  <2> QED BY <1>0, <1>6, <2>1 DEF RInv, RType, RStates
<1>8. Known(id)' /\ Known(j)'
  BY <1>2, <1>4, <1>5 DEF KnownStays
<1>9. RKnown' /\ RewindsTail'
  BY <1>7, <1>8 DEF RKnown, RewindsTail, Known
<1> QED BY <1>2, <1>7, <1>9 DEF Parts, RInv

\* A failed fetch in it leaves the segment as it is (chain.go:895-909, 948-958).
LEMMA LookupFailsStep == ASSUME Parts, LookupFails PROVE Parts'
<1>0. SharedInv /\ Data /\ blk' = blk /\ seg' = seg /\ r.pc = "rewound" /\ RInv
  BY DEF Parts, SharedInv, LookupFails, dbVars
<1>1. SameChain
  BY <1>0, SameChainOf
<1>2. SharedInv' /\ PInv' /\ SInv' /\ HeadInv' /\ QueueInv' /\ KnownStays
  BY <1>1, ControlStep DEF LookupFails, dbVars
<1>3. PICK id : id = IF seg[r.seg].prev # NoSeg THEN seg[r.seg].prev ELSE r.seg
  OBVIOUS
<1>4. Known(id)
  <2>1. Known(r.seg)
    BY <1>0 DEF RInv, RKnown
  <2>2. seg[r.seg].prev # NoSeg => Known(seg[r.seg].prev)
    BY <1>0, <2>1 DEF SharedInv, RecordsKnown, Known, Ids
  <2> QED BY <1>3, <2>1, <2>2
<1>5. id \in Ids /\ id \in 0..MaxSegs
  BY <1>0, <1>4, IdsBounded DEF Known, Ids
<1>6. r' = [r EXCEPT !.pc = "push", !.seg = id]
  BY <1>3 DEF LookupFails
<1>7. RType' /\ r'.pc = "push" /\ r'.seg = id
  BY <1>0, <1>5, <1>6 DEF RInv, RType, RStates
<1>8. Known(id)'
  BY <1>2, <1>4 DEF KnownStays
<1>9. RKnown' /\ RewindsTail'
  BY <1>7, <1>8 DEF RKnown, RewindsTail, Known
<1>10. CountInv'
  <2>1. UNCHANGED <<seen, crashes>> /\ fails' = fails + 1
    BY DEF LookupFails
  <2> QED BY <2>1 DEF Parts, CountInv
<1> QED BY <1>2, <1>7, <1>9, <1>10 DEF Parts, RInv

\* The segment is marked as valid before it becomes the head (segment.go:334-341).
LEMMA MarkValidStep == ASSUME Parts, MarkValid PROVE Parts'
<1>0. SharedInv /\ Data /\ blk' = blk /\ r.pc = "mark head" /\ RInv
  BY DEF Parts, SharedInv, MarkValid
<1>1. PICK id \in Ids, j \in Ids : id = r.seg /\ j = r.bseg /\ Known(id) /\ Known(j)
  BY <1>0 DEF RInv, RKnown, Known, Ids
<1>2. SameChain
  BY <1>0, <1>1, StatusWrite DEF MarkValid
<1>3. SharedInv' /\ PInv' /\ SInv' /\ HeadInv' /\ QueueInv' /\ CountInv' /\ KnownStays
  BY <1>2, ControlStep DEF MarkValid
<1>4. Known(id)' /\ Known(j)'
  BY <1>1, <1>3 DEF KnownStays
<1>5. RType' /\ r'.pc = "set head" /\ r'.seg = id /\ r'.bseg = j /\ r'.b = r.b /\ r.b \in Blocks
  BY <1>0, <1>1 DEF MarkValid, RInv, RType, RStates, RKnown
<1>6. RKnown' /\ RewindsTail'
  BY <1>4, <1>5 DEF RKnown, RewindsTail, Known
<1> QED BY <1>3, <1>5, <1>6 DEF Parts, RInv

\* The segment becomes the head (chain.go:574-616, 665-696).
LEMMA MarkAsHeadStep == ASSUME Parts, MarkAsHead PROVE Parts'
<1>0. SharedInv /\ Data /\ blk' = blk /\ seg' = seg /\ r.pc = "set head" /\ RInv
  BY DEF Parts, SharedInv, MarkAsHead
<1>1. PICK j \in Ids : j = r.bseg /\ Known(j)
  BY <1>0 DEF RInv, RKnown, Known, Ids
<1>2. SameChain
  BY <1>0, SameChainOf
<1>3. SharedInv' /\ PInv' /\ SInv' /\ QueueInv' /\ CountInv' /\ KnownStays
  BY <1>2, ControlStep DEF MarkAsHead
<1>4. RInv'
  BY <1>0, <1>3, MoveOn DEF MarkAsHead
<1>5. HeadInv'
  <2>1. stateSegment' = j /\ lastBlock' = r.b /\ r.b \in Blocks
    BY <1>0, <1>1 DEF MarkAsHead, RInv, RKnown
  <2>2. Known(j)' /\ j # NoSeg /\ j \in Nat
    BY <1>1, <1>3 DEF KnownStays, Ids, NoSeg
  <2> QED BY <2>1, <2>2 DEF HeadInv, Known
<1> QED BY <1>3, <1>4, <1>5 DEF Parts

\* A disjointed segment goes back to the queue (segment_store.go:88-98).
LEMMA PushSegmentStep == ASSUME Parts, PushSegment PROVE Parts'
<1>0. SharedInv /\ Data /\ blk' = blk /\ seg' = seg /\ r.pc = "push" /\ RInv /\ r' = IdleR
  BY DEF Parts, SharedInv, PushSegment, dbVars
<1>1. SameChain
  BY <1>0, SameChainOf
<1>2. SharedInv' /\ PInv' /\ SInv' /\ HeadInv' /\ CountInv' /\ KnownStays
      /\ (queue' = queue => QueueInv')
  BY <1>1, ControlStep DEF PushSegment, dbVars
<1>3. QueueInv'
  <2>1. PICK id \in Nat : id = r.seg /\ Known(id)
    BY <1>0 DEF RInv, RKnown, Known
  <2>2. Known(id)'
    BY <1>2, <2>1 DEF KnownStays
  <2>3. CASE queue' = Push(queue, id)
    BY <1>2, <2>2, <2>3, PushKeeps
  <2> QED BY <1>2, <2>1, <2>3 DEF PushSegment
<1> QED BY <1>0, <1>2, <1>3, IdleKnows DEF Parts

-----------------------------------------------------------------------------
(* The state loop, and the crashes.                                        *)

\* The state segment moves to the next one (chain.go:617-662).
LEMMA FastForwardStep == ASSUME Parts, FastForward PROVE Parts'
<1>0. SharedInv /\ Data /\ blk' = blk /\ seg' = seg /\ HeadInv /\ stateSegment # NoSeg
  BY DEF Parts, SharedInv, FastForward
<1>1. SameChain
  BY <1>0, SameChainOf
<1>2. SharedInv' /\ PInv' /\ RInv' /\ QueueInv' /\ CountInv' /\ KnownStays
  BY <1>1, ControlStep DEF FastForward
<1>3. PICK id : id = IF seg[stateSegment].next # NoSeg THEN seg[stateSegment].next
                     ELSE stateSegment
  OBVIOUS
<1>4. Known(id)
  <2>1. Known(stateSegment)
    BY <1>0 DEF HeadInv
  <2>2. seg[stateSegment].next # NoSeg => Known(seg[stateSegment].next)
    BY <1>0, <2>1 DEF SharedInv, RecordsKnown, Known, Ids
  <2> QED BY <1>3, <2>1, <2>2
<1>5. PICK b \in Blocks, j \in Ids : b = seg[id].head /\ j = blk[b].seg /\ Known(j) /\ id \in Ids
  BY <1>0, <1>4, KnownHead
<1>6. stateSegment' = id /\ s' = [pc |-> "head", b |-> b, seg |-> j] /\ lastBlock' = lastBlock
  BY <1>3, <1>5 DEF FastForward
<1>7. Known(id)' /\ Known(j)' /\ id # NoSeg /\ id \in Nat /\ j \in 0..MaxSegs
  <2>1. j \in 0..MaxSegs
    BY <1>0, IdsBounded
  <2> QED BY <1>2, <1>4, <1>5, <2>1 DEF KnownStays, Ids, NoSeg
<1>8. HeadInv' /\ SInv'
  <2>1. s'.pc = "head" /\ s'.b = b /\ s'.seg = j
        /\ s' \in [pc: {"idle", "head"}, b: Blocks \cup {None}, seg: 0..MaxSegs]
    BY <1>6, <1>7
  <2> QED BY <1>0, <1>6, <1>7, <2>1 DEF HeadInv, SInv, Known
<1> QED BY <1>2, <1>8 DEF Parts

\* The head moves to the block that was read (chain.go:663-696).
LEMMA SetHeadBlockStep == ASSUME Parts, SetHeadBlock PROVE Parts'
<1>0. SharedInv /\ Data /\ blk' = blk /\ seg' = seg /\ s.pc = "head" /\ s' = IdleS /\ SInv
  BY DEF Parts, SharedInv, SetHeadBlock
<1>1. SameChain
  BY <1>0, SameChainOf
<1>2. SharedInv' /\ PInv' /\ RInv' /\ QueueInv' /\ CountInv' /\ KnownStays
      /\ (UNCHANGED <<stateSegment, lastBlock>> => HeadInv')
  BY <1>1, ControlStep DEF SetHeadBlock
<1>3. ASSUME lastBlock' = s.b, stateSegment' = s.seg PROVE HeadInv'
  <2>1. PICK j : j = s.seg /\ Known(j) /\ s.b \in Blocks
    BY <1>0 DEF SInv
  <2>2. Known(j)' /\ j # NoSeg /\ j \in Nat
    BY <1>2, <2>1 DEF KnownStays, Known, NoSeg
  <2> QED BY <1>3, <2>1, <2>2 DEF HeadInv, Known
<1> QED BY <1>0, <1>2, <1>3, IdleKnows DEF Parts, SetHeadBlock

\* What is in memory is lost, the database is kept (chain.go:137-216).
LEMMA RestartStep ==
    ASSUME Parts, Restart, UNCHANGED fails, crashes' \in Nat
    PROVE  Parts'
<1>0. /\ SharedInv /\ Data /\ blk' = blk /\ seg' = seg
      /\ stateSegment' = stateSegment /\ lastBlock' = None /\ queue' = <<>>
      /\ p' = IdleP /\ r' = IdleR /\ s' = IdleS /\ seen' = seen
  BY DEF Parts, SharedInv, Restart, dbVars
<1>1. SameChain
  BY <1>0, SameChainOf
<1>2. SharedInv' /\ KnownStays
  BY <1>1, ControlStep
<1>3. HeadInv'
  <2>1. stateSegment # NoSeg => Known(stateSegment)'
    BY <1>0, <1>2 DEF Parts, HeadInv, KnownStays
  <2> QED BY <1>0, <2>1 DEF Parts, HeadInv, Known
<1>4. QueueInv' /\ CountInv'
  BY <1>0 DEF Parts, QueueInv, CountInv
<1> QED BY <1>0, <1>2, <1>3, <1>4, IdleKnows DEF Parts

-----------------------------------------------------------------------------
(* The writes of a record.                                                 *)

\* A record may be written if its block is at the end of its segment, or goes on,
\* and no link leads to the segment that it was in.
LEMMA RecordWrite ==
    ASSUME SharedInv, NEW y \in Blocks, NEW rec \in BlockRecord,
           blk' = [blk EXCEPT ![y] = rec], seg' = seg,
           rec.seg \in Ids, Known(rec.seg) \/ seg[rec.seg].head = y,
           FromTail(y, rec.seg),
           rec.next = None => /\ Descends(seg[rec.seg].tail, y)
                              /\ OpenIn(rec.seg) \subseteq {y}
                              /\ Height[y] >= Height[seg[rec.seg].head],
           rec.seg # blk[y].seg => Unlinked(y)
    PROVE  /\ SharedInv' /\ Data /\ Data' /\ RecordsKnown /\ KnownStays /\ Known(rec.seg)'
           /\ \A i : OpenIn(i)' \subseteq OpenIn(i) \cup (IF rec.next = None THEN {y} ELSE {})
           /\ blk'[y] = rec /\ \A c \in Blocks \ {y} : blk'[c] = blk[c]
<1>0. Data /\ RecordsKnown /\ rec.seg # NoSeg /\ blk \in [Blocks -> BlockRecord]
  BY IdsBounded DEF SharedInv, Data
<1>1. blk'[y] = rec /\ \A c \in Blocks \ {y} : blk'[c] = blk[c]
  BY <1>0
<1>2. Data'
  <2>1. blk' \in [Blocks -> BlockRecord]
    BY <1>0
  <2> QED BY <1>0, <1>1, <2>1 DEF Data
<1>3. KnownStays
  <2> SUFFICES ASSUME NEW id, Known(id) PROVE Known(id)'
    BY DEF KnownStays
  <2>1. id \in Ids /\ blk[seg[id].head].seg # NoSeg
    BY DEF Known, Ids
  <2>2. seg[id].head \in Blocks
    BY <1>0, <2>1, SegFacts
  <2>3. blk'[seg[id].head].seg # NoSeg
    BY <1>0, <1>1, <2>1, <2>2
  <2> QED BY <2>1, <2>3 DEF Known, Ids
<1>4. Known(rec.seg)'
  <2>1. CASE Known(rec.seg)
    BY <1>3, <2>1 DEF KnownStays
  <2>2. CASE seg[rec.seg].head = y
    BY <1>0, <1>1, <2>2 DEF Known, Ids
  <2> QED BY <2>1, <2>2
<1>5. RecordsKnown'
  <2>1. ASSUME NEW c \in Blocks, blk'[c].seg # NoSeg PROVE Known(blk[c].seg)'
    <3>1. PICK id : id = blk'[c].seg
      OBVIOUS
    <3>2. Known(id)'
      <4>1. CASE c = y
        BY <1>1, <1>4, <3>1, <4>1
      <4>2. CASE c # y
        BY <1>0, <1>1, <1>3, <2>1, <3>1, <4>2 DEF RecordsKnown, KnownStays
      <4> QED BY <4>1, <4>2
    <3> QED BY <3>1, <3>2 DEF Known
  <2>2. ASSUME NEW id \in Ids
        PROVE  (/\ seg[id].prev # NoSeg => Known(seg[id].prev)
                /\ seg[id].next # NoSeg => Known(seg[id].next))'
    <3>1. PICK i, j : i = seg[id].prev /\ j = seg[id].next
      OBVIOUS
    <3>2. /\ i # NoSeg => Known(i)'
          /\ j # NoSeg => Known(j)'
      BY <1>0, <1>3, <3>1 DEF RecordsKnown, KnownStays
    <3> QED BY <3>1, <3>2 DEF Known
  <2> QED BY <2>1, <2>2 DEF RecordsKnown, Ids
<1>6. MembersFromTail'
  <2> SUFFICES ASSUME NEW c \in Blocks, blk'[c].seg # NoSeg
               PROVE  (/\ FromTail(c, blk[c].seg)
                       /\ blk[c].next = None => Descends(seg[blk[c].seg].tail, c))'
    BY DEF MembersFromTail
  <2>1. CASE c = y
    BY <1>1, <2>1 DEF FromTail, Descends
  <2>2. CASE c # y
    BY <1>1, <2>2 DEF SharedInv, MembersFromTail, FromTail, Descends
  <2> QED BY <2>1, <2>2
<1>7. \A i : OpenIn(i)' \subseteq OpenIn(i) \cup (IF rec.next = None THEN {y} ELSE {})
  BY <1>1 DEF OpenIn
<1>8. OneOpen'
  <2>1. ASSUME NEW id \in Ids
        PROVE  /\ \A a, b \in OpenIn(id)' : a = b
               /\ \A b \in OpenIn(id)' : Height[b] >= Height[seg[id].head]
    <3>1. CASE rec.next = None /\ id = rec.seg
      <4>1. OpenIn(id)' \subseteq {y} /\ Height[y] >= Height[seg[id].head]
        BY <1>7, <3>1
      <4> QED BY <4>1
    <3>2. CASE ~(rec.next = None /\ id = rec.seg)
      <4>1. OpenIn(id)' \subseteq OpenIn(id)
        BY <1>1, <3>2 DEF OpenIn
      <4> QED BY <4>1 DEF SharedInv, OneOpen, Ids
    <3> QED BY <3>1, <3>2
  <2> QED BY <2>1 DEF OneOpen, Ids
<1>9. LinksStable'
  <2> SUFFICES ASSUME NEW id \in Ids, seg[id].prev # NoSeg
               PROVE  seg[id].tail # Genesis /\ blk'[Parent[seg[id].tail]].seg = seg[id].prev
    BY DEF LinksStable, Ids
  <2>1. seg[id].tail # Genesis /\ blk[Parent[seg[id].tail]].seg = seg[id].prev
    BY DEF SharedInv, LinksStable, Ids
  <2>2. PICK x \in Blocks : x = Parent[seg[id].tail]
    BY <1>0, <2>1, SegFacts, ParentFacts
  <2>3. CASE x = y /\ rec.seg # blk[y].seg
    BY <2>2, <2>3 DEF Unlinked, Ids
  <2>4. CASE ~(x = y /\ rec.seg # blk[y].seg)
    BY <1>1, <2>1, <2>2, <2>4
  <2> QED BY <2>3, <2>4
<1>10. SegmentsOrdered'
  BY DEF SharedInv, SegmentsOrdered, Descends
<1> QED BY <1>0, <1>1, <1>2, <1>3, <1>4, <1>5, <1>6, <1>7, <1>8, <1>9, <1>10 DEF SharedInv

\* The handler may overwrite a record that is inside its segment.
LEMMA RecordRKept ==
    ASSUME Data, NEW y \in Blocks, seg' = seg,
           \A c \in Blocks \ {y} : blk'[c] = blk[c],
           blk[y].seg # NoSeg /\ blk'[y].seg # blk[y].seg => Inside(y, blk[y].seg)
    PROVE  RKept
<1>1. \A id \in Ids : Height[seg[id].head] \in Nat
  BY SegFacts
<1> QED BY <1>1 DEF RKept, Ids

\* The block after the parent is written first (segment.go:97-122).
LEMMA AppendParentStep == ASSUME Parts, AppendParent PROVE Parts'
<1>0. SharedInv /\ Data /\ seg' = seg /\ PInv /\ p.pc = "append parent"
  BY DEF Parts, SharedInv, AppendParent
<1>1. PICK b \in Blocks \ {Genesis}, x \in Blocks : b = p.b /\ x = Parent[b] /\ x # b
  BY <1>0, ParentFacts DEF PInv, PType
<1>2. PICK id \in Ids : id = p.parent.seg /\ Known(id) /\ id # NoSeg
  <2>1. Known(p.parent.seg)
    BY <1>0 DEF PInv, PKnown
  <2> QED BY <2>1, KnownId
<1>3. PICK rec \in BlockRecord : /\ rec = [p.parent EXCEPT !.next = b]
                                 /\ rec.seg = id /\ rec.next = b /\ rec.next # None
  <2>1. p.parent \in BlockRecord
    BY <1>0 DEF PInv, PType
  <2>2. [p.parent EXCEPT !.next = b] \in BlockRecord
    BY <2>1 DEF BlockRecord
  <2> QED BY <1>2, <2>1, <2>2, ChainSyncAssumption DEF BlockRecord
<1>4. blk' = [blk EXCEPT ![x] = rec]
  BY <1>1, <1>3 DEF AppendParent
<1>5. /\ Descends(seg[id].tail, x) /\ Height[x] >= Height[seg[id].head]
      /\ OpenIn(id) \subseteq {x}
  BY <1>0, <1>1, <1>2 DEF PInv, AppendsAtEnd
<1>6. /\ blk[x].seg # NoSeg
      /\ blk[x].seg # id => Inside(x, blk[x].seg) /\ Unlinked(x)
      /\ Unlinked(b) /\ (blk[b].seg # NoSeg => Inside(b, blk[b].seg))
  BY <1>0, <1>1, <1>2 DEF PInv, StaleRecords
<1>7. FromTail(x, id)
  BY <1>5 DEF FromTail
<1>8. /\ SharedInv' /\ Data' /\ KnownStays /\ Known(id)'
      /\ \A i : OpenIn(i)' \subseteq OpenIn(i) \cup (IF rec.next = None THEN {x} ELSE {})
      /\ blk'[x] = rec /\ \A c \in Blocks \ {x} : blk'[c] = blk[c]
  <2>1. rec.seg # blk[x].seg => Unlinked(x)
    BY <1>3, <1>6
  <2>2. rec.seg \in Ids /\ Known(rec.seg) /\ FromTail(x, rec.seg) /\ rec.next # None
    BY <1>2, <1>3, <1>7
  <2> QED BY <1>0, <1>3, <1>4, <2>1, <2>2, RecordWrite
<1>9. RKept
  BY <1>0, <1>3, <1>6, <1>8, RecordRKept
<1>10. RInv' /\ SInv' /\ QueueInv' /\ HeadInv' /\ CountInv'
  BY <1>0, <1>8, <1>9, RStays, SStays, QueueStays, HeadStays, CountStays DEF Parts, AppendParent
<1>11. PType' /\ p'.pc = "append block" /\ p'.b = b /\ p'.parent.seg = id
  BY <1>0, <1>1, <1>2 DEF PInv, PType, PStates, AppendParent
<1>12. PKnown'
  BY <1>8, <1>11 DEF PKnown, Known
<1>13. AppendsAtEnd'
  <2>1. OpenIn(id)' = {}
    <3>1. x \notin OpenIn(id)'
      BY <1>3, <1>8 DEF OpenIn
    <3>2. OpenIn(id)' \subseteq OpenIn(id)
      BY <1>3, <1>8
    <3> QED BY <1>5, <3>1, <3>2
  <2> QED BY <1>0, <1>1, <1>5, <1>11, <2>1 DEF AppendsAtEnd, Descends, OpenIn
<1>14. StaleRecords'
  BY <1>0, <1>1, <1>6, <1>8, <1>11 DEF StaleRecords, Unlinked, Inside
<1> QED BY <1>8, <1>10, <1>11, <1>12, <1>13, <1>14 DEF Parts, PInv

\* Then the block itself (segment.go:123-133).
LEMMA AppendOwnStep == ASSUME Parts, AppendOwn PROVE Parts'
<1>0. SharedInv /\ Data /\ seg' = seg /\ PInv /\ p.pc = "append block"
  BY DEF Parts, SharedInv, AppendOwn
<1>1. PICK b \in Blocks \ {Genesis}, x \in Blocks : b = p.b /\ x = Parent[b]
  BY <1>0, ParentFacts DEF PInv, PType
<1>2. PICK id \in Ids : id = p.parent.seg /\ Known(id) /\ id # NoSeg
  <2>1. Known(p.parent.seg)
    BY <1>0 DEF PInv, PKnown
  <2> QED BY <2>1, KnownId
<1>3. PICK rec \in BlockRecord : /\ rec = [p.own EXCEPT !.seg = id]
                                 /\ rec.seg = id /\ rec.next = None
  <2>1. p.own = NoRecord /\ id \in 0..MaxSegs
    BY <1>0, IdsBounded DEF PInv, PType
  <2>2. [p.own EXCEPT !.seg = id] = [seg |-> id, next |-> None]
    BY <2>1 DEF NoRecord
  <2> QED BY <2>1, <2>2 DEF BlockRecord
<1>4. blk' = [blk EXCEPT ![b] = rec]
  BY <1>1, <1>2, <1>3 DEF AppendOwn
<1>5. Descends(seg[id].tail, x) /\ Height[x] >= Height[seg[id].head] /\ OpenIn(id) = {}
  BY <1>0, <1>1, <1>2 DEF PInv, AppendsAtEnd
<1>6. Unlinked(b) /\ (blk[b].seg # NoSeg => Inside(b, blk[b].seg))
  BY <1>0, <1>1 DEF PInv, StaleRecords
<1>7. Descends(seg[id].tail, b) /\ Height[b] >= Height[seg[id].head]
  <2>1. seg[id].tail \in Blocks /\ Height[seg[id].head] \in Nat
    BY <1>0, SegFacts
  <2>2. Descends(x, b) /\ Height[b] = Height[x] + 1 /\ Height[x] \in Nat
    BY <1>1, DescendsParent, ParentFacts
  <2>3. Descends(seg[id].tail, b)
    BY <1>5, <2>1, <2>2, DescendsTrans
  <2> QED BY <1>5, <2>1, <2>2, <2>3
<1>8. FromTail(b, id)
  BY <1>7 DEF FromTail
<1>9. /\ SharedInv' /\ Data' /\ KnownStays /\ Known(id)'
      /\ \A i : OpenIn(i)' \subseteq OpenIn(i) \cup {b}
      /\ blk'[b] = rec /\ \A c \in Blocks \ {b} : blk'[c] = blk[c]
  <2>1. OpenIn(id) \subseteq {b}
    BY <1>5
  <2> QED BY <1>0, <1>2, <1>3, <1>4, <1>6, <1>7, <1>8, <2>1, RecordWrite
<1>10. RKept
  BY <1>0, <1>6, <1>9, RecordRKept
<1>11. RInv' /\ SInv' /\ QueueInv' /\ HeadInv' /\ CountInv'
  BY <1>0, <1>9, <1>10, RStays, SStays, QueueStays, HeadStays, CountStays DEF Parts, AppendOwn
<1>12. PType' /\ p'.pc = "append head" /\ p'.b = b /\ p'.parent.seg = id
  BY <1>0, <1>1, <1>2 DEF PInv, PType, PStates, AppendOwn
<1>13. PKnown'
  BY <1>2, <1>3, <1>9, <1>12 DEF PKnown, Known
<1>14. AppendsAtEnd'
  <2>1. OpenIn(id)' \subseteq {b}
    BY <1>5, <1>9
  <2> QED BY <1>0, <1>1, <1>5, <1>12, <2>1 DEF AppendsAtEnd, Descends, OpenIn
<1>15. StaleRecords'
  BY <1>12 DEF StaleRecords
<1> QED BY <1>9, <1>11, <1>12, <1>13, <1>14, <1>15 DEF Parts, PInv

\* The block of a new segment is written, and the segment queued
\* (segment_store.go:130-175).
LEMMA QueueSegmentStep == ASSUME Parts, QueueSegment PROVE Parts'
<1>0. SharedInv /\ Data /\ seg' = seg /\ PInv /\ p.pc = "new block" /\ p' = IdleP
  BY DEF Parts, SharedInv, QueueSegment
<1>1. PICK b \in Blocks \ {Genesis} : b = p.b
  BY <1>0 DEF PInv, PType
<1>2. PICK id \in Ids : id = p.parent.seg /\ seg[id].head = b /\ id # NoSeg
  <2>1. p.parent.seg \in Ids /\ seg[p.parent.seg].head = b
    BY <1>0, <1>1 DEF PInv, PKnown
  <2> QED BY <1>0, <2>1, IdsBounded
<1>3. PICK rec \in BlockRecord : /\ rec = [p.own EXCEPT !.seg = id]
                                 /\ rec.seg = id /\ rec.next = None
  <2>1. p.own = NoRecord /\ id \in 0..MaxSegs
    BY <1>0, IdsBounded DEF PInv, PType
  <2>2. [p.own EXCEPT !.seg = id] = [seg |-> id, next |-> None]
    BY <2>1 DEF NoRecord
  <2> QED BY <2>1, <2>2 DEF BlockRecord
<1>4. blk' = [blk EXCEPT ![b] = rec]
  BY <1>1, <1>2, <1>3 DEF QueueSegment
<1>5. OpenIn(id) = {} /\ Descends(seg[id].tail, b)
  BY <1>0, <1>1, <1>2 DEF PInv, AppendsAtEnd
<1>6. Unlinked(b) /\ (blk[b].seg # NoSeg => Inside(b, blk[b].seg))
  BY <1>0, <1>1 DEF PInv, StaleRecords
<1>7. Height[b] >= Height[seg[id].head] /\ FromTail(b, id) /\ OpenIn(id) \subseteq {b}
  <2>1. Height[b] \in Nat
    BY ChainSyncAssumption
  <2> QED BY <1>2, <1>5, <2>1 DEF FromTail
<1>8. /\ SharedInv' /\ Data' /\ KnownStays /\ Known(id)'
      /\ blk'[b] = rec /\ \A c \in Blocks \ {b} : blk'[c] = blk[c]
  BY <1>0, <1>2, <1>3, <1>4, <1>5, <1>6, <1>7, RecordWrite
<1>9. RKept
  BY <1>0, <1>6, <1>8, RecordRKept
<1>10. RInv' /\ SInv' /\ HeadInv' /\ CountInv'
  BY <1>0, <1>8, <1>9, RStays, SStays, HeadStays, CountStays DEF Parts, QueueSegment
<1>11. QueueInv'
  <2>1. id \in Nat
    BY DEF Ids
  <2> QED BY <1>2, <1>8, <2>1, PushKeeps DEF QueueSegment
<1> QED BY <1>0, <1>8, <1>10, <1>11, IdleKnows DEF Parts

\* The block before the tail joins the segment (segment.go:198-218).
LEMMA IncludeBlockStep == ASSUME Parts, IncludeBlock PROVE Parts'
<1>0. SharedInv /\ Data /\ seg' = seg /\ RInv /\ r.pc = "include block"
  BY DEF Parts, SharedInv, IncludeBlock
<1>1. PICK id \in Ids : id = r.seg /\ Known(id) /\ id # NoSeg
  <2>1. Known(r.seg)
    BY <1>0 DEF RInv, RKnown
  <2> QED BY <2>1, KnownId
<1>2. r.b = seg[id].tail /\ r.b # Genesis /\ seg[id].prev = NoSeg
  BY <1>0, <1>1 DEF RInv, RewindsTail
<1>3. PICK t \in Blocks \ {Genesis}, y \in Blocks : t = r.b /\ t = seg[id].tail /\ y = Parent[t]
  BY <1>0, <1>2, SegFacts, ParentFacts
<1>4. Unlinked(y)
  BY <1>0, <1>3 DEF RInv, RewindsTail
<1>5. PICK rec \in BlockRecord : /\ rec = [seg |-> id, next |-> t]
                                 /\ rec.seg = id /\ rec.next = t /\ rec.next # None
  <2>1. id \in 0..MaxSegs /\ t # None
    BY <1>0, IdsBounded, ChainSyncAssumption
  <2>2. [seg |-> id, next |-> t] \in BlockRecord
    BY <2>1 DEF BlockRecord
  <2> QED BY <2>1, <2>2
<1>6. blk' = [blk EXCEPT ![y] = rec]
  BY <1>1, <1>3, <1>5 DEF IncludeBlock
<1>7. FromTail(y, id)
  BY <1>3 DEF FromTail
<1>8. /\ SharedInv' /\ Data' /\ RecordsKnown /\ KnownStays /\ Known(id)'
      /\ \A i : OpenIn(i)' \subseteq OpenIn(i)
      /\ blk'[y] = rec /\ \A c \in Blocks \ {y} : blk'[c] = blk[c]
  BY <1>0, <1>1, <1>4, <1>5, <1>6, <1>7, RecordWrite
<1>9. PKept
  <2>1. Inside(y, id)
    <3>1. Height[t] = Height[y] + 1 /\ Height[y] \in Nat
      BY <1>3, ParentFacts
    <3>2. Descends(t, seg[id].head) /\ seg[id].head \in Blocks
      BY <1>0, <1>3, SegFacts DEF SharedInv, SegmentsOrdered, Ids
    <3>3. Height[t] <= Height[seg[id].head] /\ Height[seg[id].head] \in Nat
      BY <3>2, DescendsHeight
    <3> QED BY <3>1, <3>3 DEF Inside
  <2>2. \A i \in Ids : Descends(seg[i].tail, seg[i].tail)
    BY <1>0, SegFacts, DescendsRefl
  <2>3. \A c : Unlinked(c) => Unlinked(c)'
    BY <1>0 DEF Unlinked
  <2>4. Inside(y, blk[y].seg)' /\ Unlinked(y)' /\ blk'[y].seg # NoSeg
    BY <1>0, <1>1, <1>4, <1>5, <1>8, <2>1, <2>3 DEF Inside
  <2>5. \A c \in Blocks : blk'[c].seg # blk[c].seg =>
            blk'[c].seg # NoSeg /\ Inside(c, blk[c].seg)' /\ Unlinked(c)'
    BY <1>8, <2>4
  <2> QED BY <1>0, <1>8, <2>2, <2>3, <2>5 DEF PKept, Ids
<1>10. PInv' /\ SInv' /\ QueueInv' /\ HeadInv' /\ CountInv'
  BY <1>0, <1>8, <1>9, PStays, SStays, QueueStays, HeadStays, CountStays DEF Parts, IncludeBlock
<1>11. RType' /\ r'.pc = "include tail" /\ r'.b = t /\ r'.seg = id
  BY <1>0, <1>1, <1>3 DEF RInv, RType, RStates, IncludeBlock
<1>12. RKnown' /\ RewindsTail'
  BY <1>0, <1>2, <1>3, <1>8, <1>11 DEF RKnown, RewindsTail, Known
<1> QED BY <1>8, <1>10, <1>11, <1>12 DEF Parts, RInv

-----------------------------------------------------------------------------
(* The writes of a segment.                                                *)

\* The hypotheses of the following lemmas: segment id is replaced by sg.
Replaced(id, sg) ==
    /\ blk' = blk /\ Len(seg') = Len(seg) /\ seg' \in Seq(Segment)
    /\ seg'[id] = sg /\ \A i \in Ids \ {id} : seg'[i] = seg[i]

LEMMA SegReplaced ==
    ASSUME Data, NEW id \in Ids, NEW sg \in Segment, blk' = blk, seg' = [seg EXCEPT ![id] = sg]
    PROVE  Replaced(id, sg) /\ Data' /\ Ids' = Ids
<1>1. seg \in Seq(Segment)
  BY DEF Data
<1>2. Replaced(id, sg)
  BY <1>1 DEF Replaced, Ids
<1> QED BY <1>2 DEF Replaced, Data, Ids

\* What a write of a segment may do: its head becomes the last block, its tail the
\* parent of the tail as long as there is no link, and a link is made where the
\* tail's parent is in a segment.
SegChange(id, sg) ==
    /\ blk[sg.head].seg # NoSeg
    /\ sg.prev # NoSeg => Known(sg.prev)
    /\ sg.next # NoSeg => Known(sg.next)
    /\ \/ sg.tail = seg[id].tail
       \/ seg[id].tail # Genesis /\ sg.tail = Parent[seg[id].tail] /\ sg.prev = NoSeg
    /\ sg.head = seg[id].head \/ OpenIn(id) \subseteq {sg.head}
    /\ Descends(sg.tail, sg.head)
    /\ sg.prev # NoSeg => /\ sg.tail # Genesis /\ blk[Parent[sg.tail]].seg = sg.prev
                          /\ Descends(seg[sg.prev].tail, sg.tail)
                          /\ seg[sg.prev].tail # sg.tail
    /\ seg[id].prev \in {NoSeg, sg.prev}
    /\ sg.next # NoSeg => sg.next = seg[id].next \/ seg[sg.next].prev = id

LEMMA SegWriteKnown ==
    ASSUME Data, NEW id \in Ids, NEW sg \in Segment, Replaced(id, sg), SegChange(id, sg),
           RecordsKnown
    PROVE  KnownStays /\ RecordsKnown'
<1>1. KnownStays
  <2> SUFFICES ASSUME NEW i, Known(i) PROVE Known(i)'
    BY DEF KnownStays
  <2>1. CASE i = id
    BY <2>1 DEF Known, Replaced, SegChange
  <2>2. CASE i # id
    BY <2>2 DEF Known, Replaced, Ids
  <2> QED BY <2>1, <2>2
<1>2. RecordsKnown'
  <2>1. ASSUME NEW c \in Blocks, blk'[c].seg # NoSeg PROVE Known(blk[c].seg)'
    <3>1. PICK i : i = blk[c].seg /\ i = blk'[c].seg
      BY DEF Replaced
    <3>2. Known(i)'
      BY <1>1, <2>1, <3>1 DEF RecordsKnown, KnownStays
    <3> QED BY <3>1, <3>2 DEF Known
  <2>2. ASSUME NEW i \in Ids
        PROVE  (/\ seg[i].prev # NoSeg => Known(seg[i].prev)
                /\ seg[i].next # NoSeg => Known(seg[i].next))'
    <3>1. PICK j, k : j = seg'[i].prev /\ k = seg'[i].next
      OBVIOUS
    <3>2. (j # NoSeg => Known(j)) /\ (k # NoSeg => Known(k))
      <4>1. CASE i = id
        BY <3>1, <4>1 DEF Replaced, SegChange
      <4>2. CASE i # id
        BY <3>1, <4>2 DEF Replaced, RecordsKnown
      <4> QED BY <4>1, <4>2
    <3>3. (j # NoSeg => Known(j)') /\ (k # NoSeg => Known(k)')
      BY <1>1, <3>2 DEF KnownStays
    <3> QED BY <3>1, <3>3 DEF Known
  <2> QED BY <2>1, <2>2 DEF RecordsKnown, Ids, Replaced
<1> QED BY <1>1, <1>2

LEMMA SegWriteMembers ==
    ASSUME Data, Data', NEW id \in Ids, NEW sg \in Segment, Replaced(id, sg), SegChange(id, sg),
           RecordsKnown, MembersFromTail
    PROVE  MembersFromTail'
<1> SUFFICES ASSUME NEW c \in Blocks, blk[c].seg # NoSeg
             PROVE  (/\ FromTail(c, blk[c].seg)
                     /\ blk[c].next = None => Descends(seg[blk[c].seg].tail, c))'
  BY DEF MembersFromTail, Replaced
<1>1. PICK i \in Ids : i = blk[c].seg /\ blk'[c] = blk[c]
  BY KnownId DEF RecordsKnown, Replaced
<1>2. FromTail(c, i) /\ (blk[c].next = None => Descends(seg[i].tail, c))
  BY <1>1 DEF MembersFromTail
<1>3. CASE seg'[i].tail = seg[i].tail
  BY <1>1, <1>2, <1>3 DEF FromTail, Descends
<1>4. CASE seg'[i].tail # seg[i].tail
  <2>1. PICK t \in Blocks \ {Genesis}, y \in Blocks :
            t = seg[i].tail /\ y = Parent[t] /\ y = seg'[i].tail
    <3>1. i = id /\ seg'[i] = sg
      BY <1>4 DEF Replaced
    <3>2. seg[i].tail # Genesis /\ sg.tail = Parent[seg[i].tail]
      BY <1>4, <3>1 DEF SegChange
    <3> QED BY <3>1, <3>2, SegFacts, ParentFacts
  <2>2. Descends(t, c) \/ c = y
    BY <1>2, <2>1 DEF FromTail
  <2>3. Descends(y, c)
    <3>1. CASE Descends(t, c)
      <4>1. Descends(y, t)
        BY <2>1, DescendsParent
      <4> QED BY <3>1, <4>1, DescendsTrans
    <3>2. CASE c = y
      BY <3>2, DescendsRefl
    <3> QED BY <2>2, <3>1, <3>2
  <2> QED BY <1>1, <2>1, <2>3 DEF FromTail, Descends
<1> QED BY <1>3, <1>4

LEMMA SegWriteOpen ==
    ASSUME Data, Data', NEW id \in Ids, NEW sg \in Segment, Replaced(id, sg), SegChange(id, sg),
           OneOpen
    PROVE  OneOpen'
<1>1. \A i : OpenIn(i)' = OpenIn(i)
  BY DEF OpenIn, Replaced
<1>2. ASSUME NEW i \in Ids, NEW c \in OpenIn(i)
      PROVE  Height[c] >= Height[seg'[i].head]
  <2>1. CASE seg'[i].head = seg[i].head
    BY <2>1 DEF OneOpen, Ids
  <2>2. CASE seg'[i].head # seg[i].head
    <3>1. c = sg.head /\ seg'[i] = sg
      BY <2>2 DEF Replaced, SegChange
    <3>2. Height[sg.head] \in Nat
      BY ChainSyncAssumption DEF Segment
    <3> QED BY <3>1, <3>2
  <2> QED BY <2>1, <2>2
<1>3. Ids' = Ids
  BY DEF Ids, Replaced
<1> QED BY <1>1, <1>2, <1>3 DEF OneOpen, Ids

LEMMA SegWriteLinks ==
    ASSUME Data, NEW id \in Ids, NEW sg \in Segment, Replaced(id, sg), SegChange(id, sg),
           LinksStable
    PROVE  LinksStable'
<1> SUFFICES ASSUME NEW i \in Ids, seg'[i].prev # NoSeg
             PROVE  seg'[i].tail # Genesis /\ blk[Parent[seg'[i].tail]].seg = seg'[i].prev
  BY DEF LinksStable, Ids, Replaced
<1>1. CASE i = id
  BY <1>1 DEF Replaced, SegChange
<1>2. CASE i # id
  BY <1>2 DEF Replaced, LinksStable, Ids
<1> QED BY <1>1, <1>2

LEMMA SegWriteOrdered ==
    ASSUME Data, Data', NEW id \in Ids, NEW sg \in Segment, Replaced(id, sg), SegChange(id, sg),
           RecordsKnown, SegmentsOrdered
    PROVE  SegmentsOrdered'
<1> SUFFICES ASSUME NEW i \in Ids
             PROVE  /\ Descends(seg'[i].tail, seg'[i].head)
                    /\ seg'[i].prev # NoSeg =>
                          /\ Descends(seg'[seg'[i].prev].tail, seg'[i].tail)
                          /\ seg'[seg'[i].prev].tail # seg'[i].tail
                    /\ seg'[i].next # NoSeg => seg'[seg'[i].next].prev = i
  BY DEF SegmentsOrdered, Ids, Replaced, Descends
<1>0. /\ Descends(seg[i].tail, seg[i].head)
      /\ seg[i].prev # NoSeg => /\ Descends(seg[seg[i].prev].tail, seg[i].tail)
                                /\ seg[seg[i].prev].tail # seg[i].tail
      /\ seg[i].next # NoSeg => seg[seg[i].next].prev = i
  BY DEF SegmentsOrdered, Ids
<1>1. Descends(seg'[i].tail, seg'[i].head)
  BY <1>0 DEF Replaced, SegChange
<1>2. ASSUME seg'[i].prev # NoSeg
      PROVE  /\ Descends(seg'[seg'[i].prev].tail, seg'[i].tail)
             /\ seg'[seg'[i].prev].tail # seg'[i].tail
  <2>1. PICK j \in Ids : j = seg'[i].prev
    <3>1. CASE i = id
      BY <1>2, <3>1, KnownId DEF Replaced, SegChange
    <3>2. CASE i # id
      BY <1>2, <3>2, KnownId DEF Replaced, RecordsKnown
    <3> QED BY <3>1, <3>2
  <2>2. Descends(seg[j].tail, seg[i].tail) /\ seg[j].tail # seg[i].tail /\ seg'[i].tail = seg[i].tail
    <3>1. CASE i = id
      BY <1>2, <2>1, <3>1 DEF Replaced, SegChange
    <3>2. CASE i # id
      BY <1>0, <1>2, <2>1, <3>2 DEF Replaced
    <3> QED BY <3>1, <3>2
  <2>3. CASE seg'[j].tail = seg[j].tail
    BY <2>1, <2>2, <2>3
  <2>4. CASE seg'[j].tail # seg[j].tail
    <3>1. PICK t \in Blocks \ {Genesis}, y \in Blocks, u \in Blocks :
              t = seg[j].tail /\ y = Parent[t] /\ y = seg'[j].tail /\ u = seg[i].tail
      <4>1. j = id /\ seg'[j] = sg
        BY <2>4 DEF Replaced
      <4>2. seg[j].tail # Genesis /\ sg.tail = Parent[seg[j].tail]
        BY <2>4, <4>1 DEF SegChange
      <4> QED BY <4>1, <4>2, SegFacts, ParentFacts
    <3>2. Descends(t, u)
      BY <2>2, <3>1
    <3>3. Descends(y, u)
      BY <3>1, <3>2, DescendsParent, DescendsTrans
    <3>4. y # u
      <4>1. Height[t] <= Height[u] /\ Height[t] = Height[y] + 1 /\ Height[y] \in Nat
        BY <3>1, <3>2, DescendsHeight, ParentFacts
      <4> QED BY <4>1
    <3> QED BY <2>1, <2>2, <3>1, <3>3, <3>4
  <2> QED BY <2>3, <2>4
<1>3. ASSUME seg'[i].next # NoSeg PROVE seg'[seg'[i].next].prev = i
  <2>1. PICK k \in Ids : k = seg'[i].next
    <3>1. CASE i = id
      BY <1>3, <3>1, KnownId DEF Replaced, SegChange
    <3>2. CASE i # id
      BY <1>3, <3>2, KnownId DEF Replaced, RecordsKnown
    <3> QED BY <3>1, <3>2
  <2>2. seg[k].prev = i
    <3>1. CASE i = id
      BY <1>0, <1>3, <2>1, <3>1 DEF Replaced, SegChange
    <3>2. CASE i # id
      BY <1>0, <1>3, <2>1, <3>2 DEF Replaced
    <3> QED BY <3>1, <3>2
  <2>3. i # NoSeg
    BY IdsBounded
  <2>4. seg'[k].prev = i
    <3>1. CASE k = id
      BY <2>2, <2>3, <3>1 DEF Replaced, SegChange
    <3>2. CASE k # id
      BY <2>2, <3>2 DEF Replaced
    <3> QED BY <3>1, <3>2
  <2> QED BY <2>1, <2>4
<1> QED BY <1>1, <1>2, <1>3

LEMMA SegWrite ==
    ASSUME SharedInv, NEW id \in Ids, NEW sg \in Segment, blk' = blk,
           seg' = [seg EXCEPT ![id] = sg], SegChange(id, sg)
    PROVE  /\ SharedInv' /\ Data /\ Data' /\ RecordsKnown /\ KnownStays
           /\ Replaced(id, sg) /\ Ids' = Ids
<1>1. Data /\ RecordsKnown /\ MembersFromTail /\ OneOpen /\ LinksStable /\ SegmentsOrdered
  BY DEF SharedInv
<1>2. Replaced(id, sg) /\ Data' /\ Ids' = Ids
  BY <1>1, SegReplaced
<1>3. KnownStays /\ RecordsKnown'
  BY <1>1, <1>2, SegWriteKnown
<1>4. MembersFromTail' /\ OneOpen' /\ LinksStable'
  BY <1>1, <1>2, SegWriteMembers, SegWriteOpen, SegWriteLinks
<1>5. SegmentsOrdered'
  BY <1>1, <1>2, SegWriteOrdered
<1> QED BY <1>1, <1>2, <1>3, <1>4, <1>5 DEF SharedInv

\* The rewind loop keeps the heads, and links a segment only after the last block
\* of another one.
LEMMA SegPKept ==
    ASSUME Data, Data', NEW id \in Ids, NEW sg \in Segment, Replaced(id, sg), SegChange(id, sg),
           sg.head = seg[id].head,
           \A c \in Blocks : /\ Unlinked(c) /\ sg.prev # NoSeg
                             /\ blk[c].seg # NoSeg => Inside(c, blk[c].seg)
                             => Parent[sg.tail] # c
    PROVE  PKept
<1>1. Ids' = Ids /\ blk' = blk
  BY DEF Replaced, Ids
<1>2. \A i \in Ids : seg'[i].head = seg[i].head
  BY DEF Replaced
<1>3. \A i : OpenIn(i)' = OpenIn(i)
  BY <1>1 DEF OpenIn
<1>4. ASSUME NEW i \in Ids PROVE Descends(seg'[i].tail, seg[i].tail)
  <2>1. CASE seg'[i].tail = seg[i].tail
    BY <2>1, SegFacts, DescendsRefl
  <2>2. CASE seg'[i].tail # seg[i].tail
    <3>1. i = id /\ seg'[i] = sg
      BY <2>2 DEF Replaced
    <3>2. seg[i].tail # Genesis /\ sg.tail = Parent[seg[i].tail]
      BY <2>2, <3>1 DEF SegChange
    <3>3. PICK t \in Blocks \ {Genesis} : t = seg[i].tail
      BY <3>2, SegFacts
    <3> QED BY <3>1, <3>2, <3>3, DescendsParent
  <2> QED BY <2>1, <2>2
<1>5. ASSUME NEW c \in Blocks, Unlinked(c), blk[c].seg # NoSeg => Inside(c, blk[c].seg)
      PROVE  Unlinked(c)'
  <2> SUFFICES ASSUME NEW i \in Ids, seg'[i].prev # NoSeg PROVE Parent[seg'[i].tail] # c
    BY <1>1 DEF Unlinked, Ids
  <2>1. CASE i = id
    BY <1>5, <2>1 DEF Replaced
  <2>2. CASE i # id
    BY <1>5, <2>2 DEF Replaced, Unlinked, Ids
  <2> QED BY <2>1, <2>2
<1> QED BY <1>1, <1>2, <1>3, <1>4, <1>5 DEF PKept

\* At last the block becomes the head of the segment (segment.go:134-141).
LEMMA AppendHeadStep == ASSUME Parts, AppendHead PROVE Parts'
<1>0. SharedInv /\ Data /\ blk' = blk /\ PInv /\ p.pc = "append head" /\ p' = IdleP
  BY DEF Parts, SharedInv, AppendHead
<1>1. PICK b \in Blocks \ {Genesis}, x \in Blocks : b = p.b /\ x = Parent[b]
  BY <1>0, ParentFacts DEF PInv, PType
<1>2. PICK id \in Ids : id = p.parent.seg /\ Known(id) /\ id # NoSeg
  <2>1. Known(p.parent.seg)
    BY <1>0 DEF PInv, PKnown
  <2> QED BY <2>1, KnownId
<1>3. seg[id] \in Segment /\ seg[id].tail \in Blocks /\ Height[seg[id].head] \in Nat
  BY <1>0, SegFacts
<1>4. PICK sg \in Segment : /\ seg' = [seg EXCEPT ![id] = sg]
                            /\ sg.head = b /\ sg.tail = seg[id].tail
                            /\ sg.prev = seg[id].prev /\ sg.next = seg[id].next
  <2>1. PICK status \in {"DISJOINTED", "VALID", "INVALID"} :
            seg' = [seg EXCEPT ![id] = [seg[id] EXCEPT !.head = b, !.status = status]]
    <3>1. seg[id].status \in {"DISJOINTED", "VALID", "INVALID"}
      BY <1>3 DEF Segment
    <3> QED BY <1>1, <1>2, <3>1 DEF AppendHead
  <2>2. [seg[id] EXCEPT !.head = b, !.status = status] \in Segment
    BY <1>3 DEF Segment
  <2> QED BY <1>3, <2>1, <2>2 DEF Segment
<1>5. Descends(seg[id].tail, x) /\ Height[x] >= Height[seg[id].head] /\ OpenIn(id) \subseteq {b}
  BY <1>0, <1>1, <1>2 DEF PInv, AppendsAtEnd
<1>6. Height[b] = Height[x] + 1 /\ Height[x] \in Nat /\ Descends(x, b)
  BY <1>1, ParentFacts, DescendsParent
<1>7. Descends(seg[id].tail, b)
  BY <1>3, <1>5, <1>6, DescendsTrans
<1>8. SegChange(id, sg)
  <2>1. blk[b].seg # NoSeg
    BY <1>0, <1>1 DEF PInv, PKnown
  <2>2. /\ seg[id].prev # NoSeg =>
              /\ Known(seg[id].prev) /\ seg[id].tail # Genesis
              /\ blk[Parent[seg[id].tail]].seg = seg[id].prev
              /\ Descends(seg[seg[id].prev].tail, seg[id].tail)
              /\ seg[seg[id].prev].tail # seg[id].tail
        /\ seg[id].next # NoSeg => Known(seg[id].next)
    BY <1>0 DEF SharedInv, RecordsKnown, LinksStable, SegmentsOrdered, Ids
  <2> QED BY <1>4, <1>5, <1>7, <2>1, <2>2 DEF SegChange
<1>9. SharedInv' /\ Data' /\ KnownStays /\ Replaced(id, sg) /\ Ids' = Ids
  BY <1>0, <1>4, <1>8, SegWrite
<1>10. RKept
  <2>1. \A i \in Ids : Height[seg[i].head] \in Nat
    BY <1>0, SegFacts
  <2>2. Height[b] >= Height[seg[id].head]
    BY <1>3, <1>5, <1>6
  <2>3. \A i \in Ids : /\ seg'[i].tail = seg[i].tail /\ seg'[i].prev = seg[i].prev
                       /\ Height[seg'[i].head] >= Height[seg[i].head]
    BY <1>4, <1>9, <2>1, <2>2 DEF Replaced
  <2> QED BY <1>0, <1>9, <2>3 DEF RKept
<1>11. RInv' /\ SInv' /\ QueueInv' /\ HeadInv' /\ CountInv'
  BY <1>0, <1>9, <1>10, RStays, SStays, QueueStays, HeadStays, CountStays DEF Parts, AppendHead
<1> QED BY <1>0, <1>9, <1>11, IdleKnows DEF Parts

\* The tail moves to the block before it, valid or not (segment.go:219-267).
LEMMA TailStep ==
    ASSUME Parts, r.pc = "include tail", NEW status \in {"DISJOINTED", "VALID", "INVALID"},
           seg' = [seg EXCEPT ![r.seg] = [@ EXCEPT !.tail = Parent[r.b], !.status = status]],
           r' = [r EXCEPT !.pc = "rewound"], blk' = blk
    PROVE  /\ SharedInv' /\ KnownStays /\ RInv'
           /\ p' = p => PInv'
<1>0. SharedInv /\ Data /\ RInv
  BY DEF Parts, SharedInv
<1>1. PICK id \in Ids : id = r.seg /\ Known(id)
  BY <1>0, KnownId DEF RInv, RKnown
<1>2. r.b = seg[id].tail /\ r.b # Genesis /\ seg[id].prev = NoSeg
  BY <1>0, <1>1 DEF RInv, RewindsTail
<1>3. PICK t \in Blocks \ {Genesis}, y \in Blocks : t = r.b /\ t = seg[id].tail /\ y = Parent[t]
  BY <1>0, <1>2, SegFacts, ParentFacts
<1>4. seg[id] \in Segment /\ seg[id].head \in Blocks
  BY <1>0, SegFacts
<1>5. PICK sg \in Segment : /\ seg' = [seg EXCEPT ![id] = sg]
                            /\ sg.head = seg[id].head /\ sg.tail = y
                            /\ sg.prev = NoSeg /\ sg.next = seg[id].next
  <2>1. seg' = [seg EXCEPT ![id] = [seg[id] EXCEPT !.tail = y, !.status = status]]
    BY <1>1, <1>3
  <2>2. [seg[id] EXCEPT !.tail = y, !.status = status] \in Segment
    BY <1>4 DEF Segment
  <2> QED BY <1>2, <1>4, <2>1, <2>2 DEF Segment
<1>6. SegChange(id, sg)
  <2>1. Descends(t, seg[id].head) /\ Descends(y, t)
    BY <1>0, <1>3, DescendsParent DEF SharedInv, SegmentsOrdered, Ids
  <2>2. Descends(y, seg[id].head)
    BY <1>3, <1>4, <2>1, DescendsTrans
  <2>3. blk[seg[id].head].seg # NoSeg /\ (seg[id].next # NoSeg => Known(seg[id].next))
    BY <1>0, <1>1 DEF SharedInv, RecordsKnown, Known
  <2> QED BY <1>2, <1>3, <1>5, <2>2, <2>3 DEF SegChange
<1>7. SharedInv' /\ Data' /\ RecordsKnown /\ KnownStays /\ Replaced(id, sg)
  BY <1>0, <1>5, <1>6, SegWrite
<1>8. PKept
  BY <1>0, <1>5, <1>6, <1>7, SegPKept
<1>9. RInv'
  BY <1>0, <1>7, MoveOn
<1>10. p' = p => PInv'
  BY <1>0, <1>7, <1>8, PStays DEF Parts
<1> QED BY <1>7, <1>9, <1>10

LEMMA IncludeTailStep == ASSUME Parts, IncludeTail PROVE Parts'
<1>1. PICK status \in {"DISJOINTED", "VALID", "INVALID"} :
          seg' = [seg EXCEPT ![r.seg] = [@ EXCEPT !.tail = Parent[r.b], !.status = status]]
  <2>1. seg[r.seg].status \in {"DISJOINTED", "VALID", "INVALID"}
    <3>1. r.seg \in Ids /\ Data
      BY KnownId DEF Parts, SharedInv, RInv, RKnown, IncludeTail
    <3>2. seg[r.seg] \in Segment
      BY <3>1, SegFacts
    <3> QED BY <3>2 DEF Segment
  <2> QED BY <2>1 DEF IncludeTail
<1>2. SharedInv' /\ KnownStays /\ RInv' /\ PInv'
  BY <1>1, TailStep DEF IncludeTail
<1> QED BY <1>2, SStays, QueueStays, HeadStays, CountStays DEF Parts, IncludeTail

\* Where ValidateChild accepts the tail t of a segment after the head h of another,
\* whose tail is u, the parent of t is as high as h.
LEMMA LinkPlace ==
    ASSUME NEW t \in Blocks \ {Genesis}, NEW h \in Blocks, NEW u \in Blocks,
           Descends(u, h), Height[t] = Height[h] + 1
    PROVE  /\ ~ (Height[h] > Height[Parent[t]])
           /\ ~ (u # Genesis /\ Parent[t] = Parent[u])
           /\ Descends(u, Parent[t]) => Descends(u, t) /\ u # t
<1>1. /\ Parent[t] \in Blocks /\ Height[Parent[t]] \in Nat
      /\ Height[t] = Height[Parent[t]] + 1
      /\ Height[u] <= Height[h] /\ Height[u] \in Nat /\ Height[h] \in Nat
  BY ParentFacts, DescendsHeight
<1>2. Height[h] = Height[Parent[t]]
  BY <1>1
<1>3. ASSUME u # Genesis, Parent[t] = Parent[u] PROVE FALSE
  <2>1. Height[u] = Height[Parent[t]] + 1
    BY <1>3, ParentFacts
  <2> QED BY <1>1, <1>2, <2>1
<1>4. ASSUME Descends(u, Parent[t]) PROVE Descends(u, t) /\ u # t
  <2>1. Descends(u, t)
    BY <1>1, <1>4, DescendsParent, DescendsTrans
  <2>2. u # t
    BY <1>1
  <2> QED BY <2>1, <2>2
<1> QED BY <1>1, <1>2, <1>3, <1>4

\* A segment is linked to the one that its tail's parent ends (segment.go:270-312).
LEMMA LinkStep ==
    ASSUME Parts, r.pc = "append segment", NEW status \in {"DISJOINTED", "VALID", "INVALID"},
           ValidateChild(seg[r.prev].head, seg[r.seg].tail),
           seg' = [seg EXCEPT ![r.seg] = [@ EXCEPT !.status = status, !.prev = r.prev]],
           r' = [r EXCEPT !.pc = "append next"], blk' = blk
    PROVE  /\ SharedInv' /\ KnownStays /\ RInv'
           /\ p' = p => PInv'
<1>0. SharedInv /\ Data /\ RInv
  BY DEF Parts, SharedInv
<1>1. PICK id \in Ids : id = r.seg /\ Known(id)
  BY <1>0, KnownId DEF RInv, RKnown
<1>2. PICK j \in Ids : j = r.prev /\ Known(j) /\ j # NoSeg
  BY <1>0, KnownId DEF RInv, RKnown
<1>3. PICK t \in Blocks \ {Genesis}, x \in Blocks : t = r.b /\ t = seg[id].tail /\ x = Parent[t]
  <2>1. r.b = seg[id].tail /\ r.b # Genesis
    BY <1>0, <1>1 DEF RInv, RewindsTail
  <2> QED BY <1>0, <2>1, SegFacts, ParentFacts
<1>4. FromTail(x, j) /\ (blk[x].seg = j \/ Inside(x, j)) /\ seg[id].prev \in {NoSeg, j}
  BY <1>0, <1>1, <1>2, <1>3 DEF RInv, RewindsTail
<1>5. PICK u \in Blocks, h \in Blocks : u = seg[j].tail /\ h = seg[j].head /\ Descends(u, h)
  BY <1>0, SegFacts DEF SharedInv, SegmentsOrdered, Ids
<1>6. Height[t] = Height[h] + 1
  BY <1>1, <1>2, <1>3, <1>5 DEF ValidateChild
<1>7. /\ ~ (Height[h] > Height[x])
      /\ ~ (u # Genesis /\ x = Parent[u])
      /\ Descends(u, x) => Descends(u, t) /\ u # t
  BY <1>3, <1>5, <1>6, LinkPlace
<1>8. ~ Inside(x, j) /\ blk[x].seg = j
  <2>1. ~ Inside(x, j)
    BY <1>5, <1>7 DEF Inside
  <2> QED BY <1>4, <2>1
<1>9. Descends(u, t) /\ u # t
  BY <1>4, <1>5, <1>7 DEF FromTail
<1>10. seg[id] \in Segment /\ seg[id].head \in Blocks /\ j \in 0..MaxSegs
  BY <1>0, SegFacts, IdsBounded
<1>11. PICK sg \in Segment : /\ seg' = [seg EXCEPT ![id] = sg]
                             /\ sg.head = seg[id].head /\ sg.tail = t
                             /\ sg.prev = j /\ sg.next = seg[id].next
  <2>1. seg' = [seg EXCEPT ![id] = [seg[id] EXCEPT !.status = status, !.prev = j]]
    BY <1>1, <1>2
  <2>2. [seg[id] EXCEPT !.status = status, !.prev = j] \in Segment
    BY <1>10 DEF Segment
  <2> QED BY <1>3, <1>10, <2>1, <2>2 DEF Segment
<1>12. SegChange(id, sg)
  <2>1. /\ blk[seg[id].head].seg # NoSeg /\ Descends(t, seg[id].head)
        /\ seg[id].next # NoSeg => Known(seg[id].next)
    BY <1>0, <1>1, <1>3 DEF SharedInv, RecordsKnown, Known, SegmentsOrdered, Ids
  <2> QED BY <1>2, <1>3, <1>4, <1>5, <1>8, <1>9, <1>11, <2>1 DEF SegChange
<1>13. SharedInv' /\ Data' /\ RecordsKnown /\ KnownStays /\ Replaced(id, sg)
  BY <1>0, <1>11, <1>12, SegWrite
<1>14. PKept
  <2>1. \A c \in Blocks : /\ Unlinked(c) /\ sg.prev # NoSeg
                          /\ blk[c].seg # NoSeg => Inside(c, blk[c].seg)
                          => Parent[sg.tail] # c
    BY <1>2, <1>3, <1>8, <1>11
  <2> QED BY <1>0, <1>11, <1>12, <1>13, <2>1, SegPKept
<1>15. RInv'
  <2>1. RType' /\ r'.pc = "append next" /\ r'.seg = id /\ r'.prev = j
    BY <1>0, <1>1, <1>2 DEF RInv, RType, RStates
  <2>2. Known(id)' /\ Known(j)' /\ seg'[id].prev = j
    BY <1>1, <1>2, <1>11, <1>13 DEF KnownStays, Replaced
  <2>3. RKnown' /\ RewindsTail'
    BY <2>1, <2>2 DEF RKnown, RewindsTail, Known
  <2> QED BY <2>1, <2>3 DEF RInv
<1>16. p' = p => PInv'
  BY <1>0, <1>13, <1>14, PStays DEF Parts
<1> QED BY <1>13, <1>15, <1>16

\* The rewind loop gives up on a segment, or finds it invalid.
LEMMA StatusStep ==
    ASSUME Parts, r.pc = "append segment", blk' = blk,
           \/ seg' = seg /\ r' = IdleR
           \/ /\ seg' = [seg EXCEPT ![r.seg].status = "INVALID"]
              /\ r' = [r EXCEPT !.pc = "rewound"]
    PROVE  /\ SharedInv' /\ KnownStays /\ RInv'
           /\ p' = p => PInv'
<1>0. SharedInv /\ Data /\ RInv
  BY DEF Parts, SharedInv
<1>1. PICK id \in Ids : id = r.seg /\ Known(id)
  BY <1>0, KnownId DEF RInv, RKnown
<1>2. SameChain
  <2>1. CASE seg' = seg
    BY <1>0, <2>1, SameChainOf
  <2>2. CASE seg' = [seg EXCEPT ![id].status = "INVALID"]
    BY <1>0, <2>2, StatusWrite
  <2> QED BY <1>1, <2>1, <2>2
<1>3. SharedInv' /\ KnownStays /\ (p' = p => PInv')
  BY <1>2, ControlStep
<1>4. RInv'
  BY <1>0, <1>3, IdleKnows, MoveOn
<1> QED BY <1>3, <1>4

LEMMA AppendSegmentPrevStep == ASSUME Parts, AppendSegmentPrev PROVE Parts'
<1>0. UNCHANGED <<blk, stateSegment, queue, lastBlock, p, s, seen, crashes, fails>>
      /\ r.pc = "append segment"
  BY DEF AppendSegmentPrev
<1>1. SharedInv' /\ KnownStays /\ RInv' /\ PInv'
  <2>1. CASE \/ seg' = seg /\ r' = IdleR
             \/ /\ seg' = [seg EXCEPT ![r.seg].status = "INVALID"]
                /\ r' = [r EXCEPT !.pc = "rewound"]
    BY <1>0, <2>1, StatusStep
  <2>2. CASE /\ ValidateChild(seg[r.prev].head, seg[r.seg].tail)
             /\ seg' = [seg EXCEPT ![r.seg] =
                          [@ EXCEPT !.status = seg[r.prev].status, !.prev = r.prev]]
             /\ r' = [r EXCEPT !.pc = "append next"]
    <3>1. PICK status \in {"DISJOINTED", "VALID", "INVALID"} : status = seg[r.prev].status
      <4>1. r.prev \in Ids /\ Data
        BY <1>0, KnownId DEF Parts, SharedInv, RInv, RKnown
      <4>2. seg[r.prev] \in Segment
        BY <4>1, SegFacts
      <4> QED BY <4>2 DEF Segment
    <3> QED BY <1>0, <2>2, <3>1, LinkStep
  <2> QED BY <2>1, <2>2 DEF AppendSegmentPrev
<1> QED BY <1>0, <1>1, SStays, QueueStays, HeadStays, CountStays DEF Parts

LEMMA ValidationFailsStep == ASSUME Parts, ValidationFails PROVE Parts'
<1>0. UNCHANGED <<blk, stateSegment, queue, lastBlock, p, s, seen, crashes>> /\ fails' = fails + 1
      /\ r' = [r EXCEPT !.pc = "rewound"]
  BY DEF ValidationFails
<1>1. SharedInv' /\ KnownStays /\ RInv' /\ PInv'
  <2>1. CASE /\ r.pc = "include tail"
             /\ seg' = [seg EXCEPT ![r.seg] = [@ EXCEPT !.tail = Parent[r.b], !.status = "INVALID"]]
    BY <1>0, <2>1, TailStep
  <2>2. CASE r.pc = "append segment" /\ seg' = [seg EXCEPT ![r.seg].status = "INVALID"]
    BY <1>0, <2>2, StatusStep
  <2> QED BY <2>1, <2>2 DEF ValidationFails
<1>2. CountInv'
  BY <1>0 DEF Parts, CountInv
<1> QED BY <1>0, <1>1, <1>2, SStays, QueueStays, HeadStays DEF Parts

\* The earlier segment learns of the later one (segment.go:313-331).
LEMMA AppendSegmentNextStep == ASSUME Parts, AppendSegmentNext PROVE Parts'
<1>0. SharedInv /\ Data /\ RInv /\ r.pc = "append next" /\ blk' = blk
  BY DEF Parts, SharedInv, AppendSegmentNext
<1>1. PICK id \in Ids : id = r.seg /\ Known(id)
  BY <1>0, KnownId DEF RInv, RKnown
<1>2. PICK j \in Ids : j = r.prev /\ Known(j) /\ seg[id].prev = j
  BY <1>0, <1>1, KnownId DEF RInv, RKnown, RewindsTail
<1>3. seg[j] \in Segment /\ seg[j].tail \in Blocks /\ id \in 0..MaxSegs
  BY <1>0, SegFacts, IdsBounded
<1>4. PICK sg \in Segment : /\ seg' = [seg EXCEPT ![j] = sg]
                            /\ sg.head = seg[j].head /\ sg.tail = seg[j].tail
                            /\ sg.prev = seg[j].prev /\ sg.next = id
  <2>1. seg' = [seg EXCEPT ![j] = [seg[j] EXCEPT !.next = id]]
    BY <1>1, <1>2 DEF AppendSegmentNext
  <2>2. [seg[j] EXCEPT !.next = id] \in Segment
    BY <1>3 DEF Segment
  <2> QED BY <1>3, <2>1, <2>2 DEF Segment
<1>5. SegChange(j, sg)
  <2>1. /\ seg[j].prev # NoSeg =>
              /\ Known(seg[j].prev) /\ seg[j].tail # Genesis
              /\ blk[Parent[seg[j].tail]].seg = seg[j].prev
              /\ Descends(seg[seg[j].prev].tail, seg[j].tail)
              /\ seg[seg[j].prev].tail # seg[j].tail
        /\ Descends(seg[j].tail, seg[j].head)
    BY <1>0 DEF SharedInv, RecordsKnown, LinksStable, SegmentsOrdered, Ids
  <2>2. blk[seg[j].head].seg # NoSeg
    BY <1>2 DEF Known
  <2> QED BY <1>1, <1>2, <1>4, <2>1, <2>2 DEF SegChange
<1>6. SharedInv' /\ Data' /\ RecordsKnown /\ KnownStays /\ Replaced(j, sg)
  BY <1>0, <1>4, <1>5, SegWrite
<1>7. PKept
  <2>1. \A c \in Blocks : Unlinked(c) /\ sg.prev # NoSeg => Parent[sg.tail] # c
    BY <1>4 DEF Unlinked, Ids
  <2> QED BY <1>0, <1>4, <1>5, <1>6, <2>1, SegPKept
<1>8. RInv'
  BY <1>0, <1>6, MoveOn DEF AppendSegmentNext
<1>9. PInv' /\ SInv' /\ QueueInv' /\ HeadInv' /\ CountInv'
  BY <1>0, <1>6, <1>7, PStays, SStays, QueueStays, HeadStays, CountStays
     DEF Parts, AppendSegmentNext
<1> QED BY <1>6, <1>8, <1>9 DEF Parts

\* A block without a known parent starts a segment (segment_store.go:100-129).
LEMMA CreateFacts ==
    ASSUME Parts, CreateSegment
    PROVE  \E b \in Blocks \ {Genesis}, n \in Nat, sg \in Segment :
              /\ b = p.b /\ n <= MaxSegs
              /\ sg.status = "DISJOINTED" /\ sg.head = b /\ sg.tail = b
              /\ sg.prev = NoSeg /\ sg.next = NoSeg
              /\ seg' \in Seq(Segment) /\ Len(seg') = n /\ seg'[n] = sg
              /\ \A i \in Ids : seg'[i] = seg[i]
              /\ Ids' = Ids \cup {n} /\ n \notin Ids /\ n # NoSeg
              /\ PType' /\ p'.pc = "new block" /\ p'.b = b /\ p'.parent.seg = n
<1>0. Data /\ PInv /\ p.pc = "new segment"
  BY DEF Parts, SharedInv, CreateSegment
<1>1. PICK b \in Blocks \ {Genesis} : b = p.b
  BY <1>0 DEF PInv, PType
<1>2. PICK n \in Nat : n = Len(seg) + 1 /\ n <= MaxSegs
  <2>1. Len(seg) < MaxSegs
    BY Zenon DEF CreateSegment
  <2>2. PICK m \in Nat, k \in Nat : m = Len(seg) /\ k = MaxSegs
    <3>1. seg \in Seq(Segment)
      BY <1>0 DEF Data
    <3>2. Len(seg) \in Nat
      BY <3>1
    <3>3. MaxSegs \in Nat
      BY ChainSyncAssumption
    <3> QED BY <3>2, <3>3, Zenon
  <2>3. m < k
    BY <2>1, <2>2
  <2>4. m + 1 \in Nat /\ m + 1 <= k
    BY <2>3
  <2> QED BY <2>2, <2>4
<1>3. PICK sg \in Segment : /\ sg = NewSegment(b) /\ sg.status = "DISJOINTED"
                            /\ sg.head = b /\ sg.tail = b /\ sg.prev = NoSeg /\ sg.next = NoSeg
  <2>1. NewSegment(b) \in Segment
    BY ChainSyncAssumption DEF NewSegment, Segment, NoSeg
  <2> QED BY <2>1 DEF NewSegment
<1>4. /\ seg' \in Seq(Segment) /\ Len(seg') = n /\ seg'[n] = sg
      /\ \A i \in Ids : seg'[i] = seg[i]
      /\ Ids' = Ids \cup {n} /\ n \notin Ids /\ n # NoSeg
  <2>1. seg' = Append(seg, sg) /\ seg \in Seq(Segment)
    BY <1>0, <1>1, <1>3 DEF CreateSegment, Data
  <2>2. /\ seg' \in Seq(Segment) /\ Len(seg') = n /\ seg'[n] = sg
        /\ \A i \in Ids : seg'[i] = seg[i]
    BY <1>2, <2>1 DEF Ids
  <2>3. Len(seg) \in Nat
    BY <2>1
  <2> QED BY <1>2, <2>2, <2>3 DEF Ids, NoSeg
<1>5. PType' /\ p'.pc = "new block" /\ p'.b = b /\ p'.parent.seg = n
  <2>0. MaxSegs \in Nat
    BY ChainSyncAssumption
  <2>1. p' = [p EXCEPT !.pc = "new block", !.parent.seg = n] /\ n \in 0..MaxSegs
    <3>1. p' = [p EXCEPT !.pc = "new block", !.parent.seg = n]
      BY <1>2, Zenon DEF CreateSegment
    <3> QED BY <1>2, <2>0, <3>1
  <2>2. p.parent \in BlockRecord /\ PType
    BY <1>0 DEF PInv, PType
  <2>3. [p.parent EXCEPT !.seg = n] \in BlockRecord
    BY <2>1, <2>2 DEF BlockRecord
  <2> QED BY <1>0, <1>1, <2>1, <2>2, <2>3 DEF PType, PStates, BlockRecord
<1> QED BY <1>1, <1>2, <1>3, <1>4, <1>5

LEMMA CreateSegmentStep == ASSUME Parts, CreateSegment PROVE Parts'
<1>0. /\ SharedInv /\ Data /\ RecordsKnown /\ PInv /\ p.pc = "new segment" /\ blk' = blk
      /\ MembersFromTail /\ OneOpen /\ LinksStable /\ SegmentsOrdered
  BY DEF Parts, SharedInv, CreateSegment
<1>1. PICK b \in Blocks \ {Genesis}, n \in Nat, sg \in Segment :
          /\ b = p.b /\ n <= MaxSegs
          /\ sg.status = "DISJOINTED" /\ sg.head = b /\ sg.tail = b
          /\ sg.prev = NoSeg /\ sg.next = NoSeg
          /\ seg' \in Seq(Segment) /\ Len(seg') = n /\ seg'[n] = sg
          /\ \A i \in Ids : seg'[i] = seg[i]
          /\ Ids' = Ids \cup {n} /\ n \notin Ids /\ n # NoSeg
          /\ PType' /\ p'.pc = "new block" /\ p'.b = b /\ p'.parent.seg = n
  BY CreateFacts, Zenon
<1>2. n <= MaxSegs
  BY <1>1
<1>3. sg.head = b /\ sg.tail = b /\ sg.prev = NoSeg /\ sg.next = NoSeg
  BY <1>1
<1>4. /\ seg' \in Seq(Segment) /\ Len(seg') = n /\ seg'[n] = sg
      /\ \A i \in Ids : seg'[i] = seg[i]
      /\ Ids' = Ids \cup {n} /\ n \notin Ids /\ n # NoSeg
  BY <1>1
<1>5. Data'
  BY <1>0, <1>2, <1>4 DEF Data
<1>6. KnownStays
  BY <1>0, <1>4 DEF KnownStays, Known, Ids
<1>7. RecordsKnown'
  <2>1. ASSUME NEW c \in Blocks, blk'[c].seg # NoSeg PROVE Known(blk[c].seg)'
    <3>1. PICK i : i = blk[c].seg /\ i = blk'[c].seg
      BY <1>0
    <3>2. Known(i)'
      BY <1>0, <1>6, <2>1, <3>1 DEF RecordsKnown, KnownStays
    <3> QED BY <3>1, <3>2 DEF Known
  <2>2. ASSUME NEW i \in Ids'
        PROVE  (/\ seg[i].prev # NoSeg => Known(seg[i].prev)
                /\ seg[i].next # NoSeg => Known(seg[i].next))'
    <3>1. PICK j, k : j = seg'[i].prev /\ k = seg'[i].next
      OBVIOUS
    <3>2. (j # NoSeg => Known(j)) /\ (k # NoSeg => Known(k))
      BY <1>0, <1>3, <1>4, <3>1 DEF RecordsKnown
    <3>3. (j # NoSeg => Known(j)') /\ (k # NoSeg => Known(k)')
      BY <1>6, <3>2 DEF KnownStays
    <3> QED BY <3>1, <3>3 DEF Known
  <2> QED BY <2>1, <2>2 DEF RecordsKnown
<1>8. MembersFromTail'
  <2> SUFFICES ASSUME NEW c \in Blocks, blk[c].seg # NoSeg
               PROVE  (/\ FromTail(c, blk[c].seg)
                       /\ blk[c].next = None => Descends(seg[blk[c].seg].tail, c))'
    BY <1>0 DEF MembersFromTail
  <2>1. PICK i \in Ids : i = blk[c].seg
    BY <1>0, KnownId DEF RecordsKnown
  <2>2. FromTail(c, i) /\ (blk[c].next = None => Descends(seg[i].tail, c))
    BY <1>0, <2>1 DEF MembersFromTail
  <2> QED BY <1>0, <1>4, <2>1, <2>2 DEF FromTail, Descends
<1>9. OpenIn(n)' = {} /\ \A i : OpenIn(i)' = OpenIn(i)
  <2>1. \A i : OpenIn(i)' = OpenIn(i)
    BY <1>0 DEF OpenIn
  <2>2. \A c \in Blocks : blk[c].seg # n
    BY <1>0, <1>4, KnownId DEF RecordsKnown
  <2> QED BY <2>1, <2>2 DEF OpenIn
<1>10. OneOpen'
  <2>1. ASSUME NEW i \in Ids'
        PROVE  /\ \A a, c \in OpenIn(i)' : a = c
               /\ \A c \in OpenIn(i)' : Height[c] >= Height[seg'[i].head]
    <3>1. CASE i = n
      BY <1>9, <3>1
    <3>2. CASE i \in Ids
      BY <1>0, <1>4, <1>9, <3>2 DEF OneOpen, Ids
    <3> QED BY <1>4, <3>1, <3>2
  <2> QED BY <2>1 DEF OneOpen, Ids
<1>11. LinksStable'
  <2> SUFFICES ASSUME NEW i \in Ids', seg'[i].prev # NoSeg
               PROVE  seg'[i].tail # Genesis /\ blk[Parent[seg'[i].tail]].seg = seg'[i].prev
    BY <1>0 DEF LinksStable, Ids
  <2>1. i \in Ids /\ seg'[i] = seg[i]
    BY <1>3, <1>4
  <2> QED BY <1>0, <2>1 DEF LinksStable, Ids
<1>12. SegmentsOrdered'
  <2> SUFFICES ASSUME NEW i \in Ids'
               PROVE  /\ Descends(seg'[i].tail, seg'[i].head)
                      /\ seg'[i].prev # NoSeg =>
                            /\ Descends(seg'[seg'[i].prev].tail, seg'[i].tail)
                            /\ seg'[seg'[i].prev].tail # seg'[i].tail
                      /\ seg'[i].next # NoSeg => seg'[seg'[i].next].prev = i
    BY DEF SegmentsOrdered, Ids, Descends
  <2>1. CASE i = n
    BY <1>3, <1>4, <2>1, DescendsRefl
  <2>2. CASE i \in Ids
    <3>1. /\ Descends(seg[i].tail, seg[i].head)
          /\ seg[i].prev # NoSeg => /\ Descends(seg[seg[i].prev].tail, seg[i].tail)
                                    /\ seg[seg[i].prev].tail # seg[i].tail
          /\ seg[i].next # NoSeg => seg[seg[i].next].prev = i
      BY <1>0, <2>2 DEF SegmentsOrdered, Ids
    <3>2. /\ seg[i].prev # NoSeg => seg[i].prev \in Ids
          /\ seg[i].next # NoSeg => seg[i].next \in Ids
      BY <1>0, <2>2, KnownId DEF RecordsKnown
    <3> QED BY <1>4, <2>2, <3>1, <3>2
  <2> QED BY <1>4, <2>1, <2>2
<1>13. SharedInv'
  BY <1>5, <1>7, <1>8, <1>10, <1>11, <1>12 DEF SharedInv
<1>14. RKept
  <2>1. \A i \in Ids : Height[seg[i].head] \in Nat
    BY <1>0, SegFacts
  <2>2. \A i \in Ids' \ Ids : seg'[i].prev = NoSeg
    BY <1>3, <1>4
  <2>3. \A i \in Ids : i \in Ids' /\ seg'[i] = seg[i] /\ Height[seg'[i].head] >= Height[seg[i].head]
    BY <1>4, <2>1
  <2>4. \A c \in Blocks : blk'[c].seg = blk[c].seg
    BY <1>0
  <2> QED BY <2>2, <2>3, <2>4 DEF RKept
<1>15. RInv' /\ SInv' /\ QueueInv' /\ HeadInv' /\ CountInv'
  BY <1>0, <1>5, <1>6, <1>14, RStays, SStays, QueueStays, HeadStays, CountStays
     DEF Parts, CreateSegment
<1>16. PType' /\ p'.pc = "new block" /\ p'.b = b /\ p'.parent.seg = n
  BY <1>1
<1>17. PKnown' /\ AppendsAtEnd'
  BY <1>1, <1>3, <1>4, <1>9, <1>16, DescendsRefl DEF PKnown, AppendsAtEnd, Descends, OpenIn
<1>18. StaleRecords'
  <2>1. Unlinked(b) /\ (blk[b].seg # NoSeg => Inside(b, blk[b].seg))
    BY <1>0, <1>1 DEF PInv, StaleRecords
  <2>2. Unlinked(b)'
    BY <1>14, <2>1, UnlinkedKept
  <2>3. blk[b].seg # NoSeg => Inside(b, blk[b].seg)'
    <3>1. blk[b].seg # NoSeg => blk[b].seg \in Ids
      BY <1>0, <1>1, KnownId DEF RecordsKnown
    <3> QED BY <1>0, <1>4, <2>1, <3>1 DEF Inside
  <2> QED BY <1>0, <1>16, <2>2, <2>3 DEF StaleRecords, Unlinked, Inside
<1> QED BY <1>13, <1>15, <1>16, <1>17, <1>18 DEF Parts, PInv

-----------------------------------------------------------------------------
(* The theorems.                                                           *)

LEMMA PartsInit == ASSUME Init PROVE Parts
<1>0. /\ NoRecord \in BlockRecord /\ NoRecord.seg = NoSeg /\ NoRecord.next = None
      /\ NoSeg \in Nat /\ 0 \in 0..MaxSegs
  BY ChainSyncAssumption DEF NoRecord, BlockRecord, NoSeg
<1>1. SInv /\ QueueInv /\ CountInv
  BY <1>0, ChainSyncAssumption DEF Init, IdleS, SInv, QueueInv, CountInv, NoSeg
<1>2. PInv /\ RInv
  <2>1. p.pc = "idle" /\ PType /\ r.pc = "idle" /\ RType
    BY <1>0 DEF Init, IdleP, IdleR, PType, PStates, RType, RStates, NoSeg
  <2> QED BY <2>1 DEF PInv, PKnown, AppendsAtEnd, StaleRecords, RInv, RKnown, RewindsTail
<1>3. CASE ~ Founder
  <2>1. blk = [b \in Blocks |-> NoRecord] /\ seg = <<>> /\ stateSegment = NoSeg /\ lastBlock = None
    BY <1>3 DEF Init
  <2>2. Len(seg) = 0 /\ seg \in Seq(Segment) /\ \A b \in Blocks : blk[b] = NoRecord
    BY <2>1
  <2>3. Data /\ Ids = {}
    BY <1>0, <2>1, <2>2, ChainSyncAssumption DEF Data, Ids
  <2>4. SharedInv
    BY <1>0, <2>2, <2>3
       DEF SharedInv, RecordsKnown, MembersFromTail, OneOpen, LinksStable, SegmentsOrdered, Ids
  <2>5. HeadInv
    BY <1>0, <2>1 DEF HeadInv
  <2> QED BY <1>1, <1>2, <2>4, <2>5 DEF Parts
<1>4. CASE Founder /\ MaxSegs >= 1
  <2>1. PICK sg \in Segment : /\ sg = NewSegment(Genesis)
                              /\ sg.head = Genesis /\ sg.tail = Genesis
                              /\ sg.prev = NoSeg /\ sg.next = NoSeg
    <3>1. NewSegment(Genesis) \in Segment
      BY ChainSyncAssumption DEF NewSegment, Segment, NoSeg
    <3> QED BY <3>1 DEF NewSegment
  <2>2. /\ blk = [b \in Blocks |-> IF b = Genesis THEN [seg |-> 1, next |-> None] ELSE NoRecord]
        /\ seg = <<sg>> /\ stateSegment = 1 /\ lastBlock = None
    BY <1>4, <2>1 DEF Init
  <2>3. Len(seg) = 1 /\ seg \in Seq(Segment) /\ seg[1] = sg /\ Genesis \in Blocks
    BY <2>2, ChainSyncAssumption
  <2>4. /\ blk[Genesis].seg = 1 /\ blk[Genesis].next = None
        /\ \A b \in Blocks \ {Genesis} : blk[b] = NoRecord
    BY <2>2, <2>3
  <2>5. Ids = {1} /\ 1 # NoSeg
    BY <2>3 DEF Ids, NoSeg
  <2>6. Data
    <3>1. [seg |-> 1, next |-> None] \in BlockRecord
      BY <1>4, ChainSyncAssumption DEF BlockRecord
    <3>2. blk \in [Blocks -> BlockRecord]
      BY <1>0, <2>2, <3>1
    <3> QED BY <1>4, <2>3, <2>4, <2>5, <3>2, ChainSyncAssumption DEF Data
  <2>7. Known(1)
    BY <2>1, <2>3, <2>4, <2>5 DEF Known, Ids
  <2>8. RecordsKnown
    BY <1>0, <2>1, <2>3, <2>4, <2>5, <2>7 DEF RecordsKnown
  <2>9. MembersFromTail
    BY <1>0, <2>1, <2>3, <2>4, DescendsRefl DEF MembersFromTail, FromTail
  <2>10. OneOpen
    <3>1. Height[Genesis] \in Nat
      BY ChainSyncAssumption
    <3>2. \A i \in Ids : OpenIn(i) \subseteq {Genesis}
      BY <1>0, <2>4, <2>5 DEF OpenIn
    <3>3. \A i \in Ids : seg[i].head = Genesis
      BY <2>1, <2>3, <2>5
    <3> QED BY <3>1, <3>2, <3>3 DEF OneOpen, Ids
  <2>11. LinksStable /\ SegmentsOrdered
    <3>1. \A i \in Ids : seg[i] = sg
      BY <2>3, <2>5
    <3> QED BY <2>1, <2>3, <3>1, DescendsRefl DEF LinksStable, SegmentsOrdered, Ids
  <2>12. HeadInv
    BY <2>2, <2>7 DEF HeadInv
  <2> QED BY <1>1, <1>2, <2>6, <2>8, <2>9, <2>10, <2>11, <2>12 DEF Parts, SharedInv
<1>5. MaxSegs >= 1
  BY ChainSyncAssumption
<1> QED BY <1>3, <1>4, <1>5

LEMMA PartsNext == ASSUME Parts, [Next]_vars PROVE Parts'
<1>1. CASE UNCHANGED vars
  <2>1. UNCHANGED <<blk, seg, stateSegment, queue, lastBlock, p, r, s, seen, crashes, fails>>
    BY <1>1 DEF vars, dbVars
  <2>2. SameChain
    BY <2>1, SameChainOf DEF Parts, SharedInv
  <2> QED BY <2>1, <2>2, ControlStep DEF Parts
<1>2. ASSUME NEW q \in Peers, NEW i \in 1..Len(Sent[q]), Deliver(q, i) PROVE Parts'
  BY <1>2, DeliverStep
<1>3. CASE PNext
  BY <1>3, LookupParentStep, AppendParentStep, AppendOwnStep, AppendHeadStep,
     CreateSegmentStep, QueueSegmentStep DEF PNext
<1>4. CASE RewindPanics
  BY <1>4, RestartStep DEF RewindPanics, Parts, CountInv
<1>5. CASE RNext
  BY <1>4, <1>5, RewindStartStep, IncludeBlockStep, IncludeTailStep, AppendSegmentPrevStep,
     AppendSegmentNextStep, SegmentUpdatedStep, MarkValidStep, MarkAsHeadStep, PushSegmentStep
     DEF RNext
<1>6. CASE RewindFails \/ ValidationFails \/ LookupFails
  BY <1>6, RewindFailsStep, ValidationFailsStep, LookupFailsStep
<1>7. CASE SNext
  BY <1>7, FastForwardStep, SetHeadBlockStep DEF SNext
<1>8. CASE Crash
  <2>1. Restart /\ UNCHANGED fails /\ crashes' = crashes + 1
    BY <1>8 DEF Crash
  <2>2. crashes' \in Nat
    BY <2>1 DEF Parts, CountInv
  <2> QED BY <2>1, <2>2, RestartStep
<1> QED BY <1>1, <1>2, <1>3, <1>5, <1>6, <1>7, <1>8 DEF Next

\* The inductive invariant holds in every state: what the goroutines have read is
\* out of date only in ways that do no harm.
THEOREM Invariance == Spec => []IInv
<1>1. Init => IInv
  BY PartsInit, Forms
<1>2. IInv /\ [Next]_vars => IInv'
  BY PartsNext, Forms, PTL
<1> QED BY <1>1, <1>2, PTL DEF Spec

\* Every reference the three goroutines and the database hold is to a block and a
\* segment that exist, for every tree, with any number of crashes
\* (chain.go:435-503, 665-696, segment_store.go:65-98).
THEOREM TypeCorrect == Spec => []TypeOK
<1>1. IInv => TypeOK
  BY DEF IInv
<1> QED BY <1>1, Invariance, PTL

\* The links between segments lead along one branch of the tree, forwards, whatever
\* the interleaving of the commit handler, the rewind loop and the state loop, the
\* forks, the failed fetches and the crashes (segment.go:97-141, 226-331).
THEOREM SegmentsStayOrdered == Spec => []SegmentsOrdered
<1>1. IInv => SegmentsOrdered
  BY DEF IInv
<1> QED BY <1>1, Invariance, PTL
=============================================================================
