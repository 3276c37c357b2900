------------------------ MODULE ChainSyncLineProofs ------------------------
(***************************************************************************)
(* What the segments of ChainSync are when one proposer makes every block: *)
(* stretches of one line, linked end to end, of which the invalid blocks   *)
(* never get onto the node's chain.  For every length of the line, every   *)
(* loss of commits, and any number of crashes and failed fetches.          *)
(***************************************************************************)
EXTENDS ChainSyncProofs

-----------------------------------------------------------------------------
(* The invariant.                                                          *)

Recorded(b) == blk[b].seg # NoSeg

\* What may still be delivered.
Coming(q) == {i \in 1..Len(Sent[q]) : i >= seen[q]}

\* The node has nothing above what the commit handler holds, and nothing above
\* what is to come.
Arrivals ==
    /\ \A b \in Blocks : Recorded(b) =>
          /\ \A q \in Peers : \A i \in Coming(q) : Height[b] <= Height[Sent[q][i]]
          /\ p.pc # "idle" => Height[b] <= Height[p.b]
          /\ p.pc \notin {"idle", "append head"} => b # p.b
    /\ p.pc # "idle" => \A q \in Peers : \A i \in Coming(q) : Height[p.b] <= Height[Sent[q][i]]

\* The ends of a segment are in it.  A segment that was forgotten in a crash
\* before its block was written is the only other kind.
Owned(id) == id \in Ids /\ blk[seg[id].head].seg = id /\ blk[seg[id].tail].seg = id

SegsOwned ==
    /\ \A b \in Blocks : Recorded(b) => Owned(blk[b].seg)
    /\ \A id \in Ids : seg[id].prev # NoSeg => Owned(id)

HeadOwned ==
    /\ stateSegment # NoSeg => Owned(stateSegment)
    /\ s.pc = "head" => Owned(s.seg)

QueueOwned == \A i \in 1..Len(queue) : Owned(queue[i])

\* What lies between the tail of a segment and a block of it is in the segment,
\* also above the head, which lags behind after a crash.
Convex ==
    \A b \in Blocks : Recorded(b) =>
        \A c \in Blocks :
            Height[seg[blk[b].seg].tail] <= Height[c] /\ Height[c] <= Height[b]
                => blk[c].seg = blk[b].seg

\* A link crosses from a head to its child.
LinksCross ==
    \A id \in Ids : seg[id].prev # NoSeg => Parent[seg[id].tail] = seg[seg[id].prev].head

\* A segment that starts with an invalid stretch.
Foul(id) == seg[id].status = "INVALID" /\ seg[id].prev = NoSeg

\* An invalid block is the tail of its segment, or about to be, or the segment is
\* marked; and no link leads to it.
Clean ==
    /\ \A b \in Blocks \cap Rejected : Recorded(b) =>
          \/ b = seg[blk[b].seg].tail
          \/ seg[blk[b].seg].tail # Genesis /\ b = Parent[seg[blk[b].seg].tail]
          \/ Foul(blk[b].seg)
    /\ \A id \in Ids : seg[id].prev # NoSeg => seg[id].tail \notin Rejected

Line == SegsOwned /\ Convex /\ LinksCross /\ Clean

\* What the commit handler has read still is so.
Appending == p.pc \in {"append parent", "append block", "append head"}
PLine ==
    /\ Appending => blk[Parent[p.b]].seg = p.parent.seg /\ p.b \notin Rejected
    /\ p.pc = "append head" => blk[p.b].seg = p.parent.seg
    /\ p.pc = "new block" => seg[p.parent.seg].tail = p.b

\* What the rewind loop has read still is so.
Including == r.pc \in {"include block", "include tail"}
RLine ==
    /\ r.pc # "idle" => Owned(r.seg)
    /\ r.pc = "include block" => ~ Recorded(Parent[r.b])
    /\ r.pc = "include tail" => blk[Parent[r.b]].seg = r.seg
    /\ r.pc = "append segment" => blk[Parent[r.b]].seg = r.prev
    /\ r.pc = "mark head" => r.bseg = r.seg /\ seg[r.seg].status # "INVALID"
    /\ r.pc = "set head" => r.bseg = r.seg /\ seg[r.seg].status = "VALID"

\* A segment that is not foul and will not become so.
Settled(id) ==
    \/ seg[id].prev # NoSeg
    \/ seg[id].tail = Genesis /\ seg[id].status # "INVALID"
    \/ seg[id].status = "VALID" /\ ~(Including /\ r.seg = id)

HeadSettled ==
    /\ stateSegment # NoSeg => Settled(stateSegment)
    /\ s.pc = "head" => Settled(s.seg)

LineInv ==
    Arrivals /\ Line /\ HeadOwned /\ QueueOwned /\ PLine /\ RLine /\ HeadSettled

-----------------------------------------------------------------------------
(* What follows for the links and for the head.                            *)

\* Links match (segment.go:270-331).
LEMMA LinesMatch == ASSUME Parts, LineInv PROVE LinksMatch
<1>0. Data /\ RecordsKnown /\ SegmentsOrdered /\ LinksCross
  BY DEF Parts, SharedInv, LineInv, Line
<1> SUFFICES ASSUME NEW id \in Ids, seg[id].next # NoSeg
             PROVE  /\ seg[seg[id].next].prev = id
                    /\ Parent[seg[seg[id].next].tail] = seg[id].head
  BY DEF LinksMatch, Ids
<1>1. PICK j \in Ids : j = seg[id].next
  BY <1>0, KnownId DEF RecordsKnown
<1>2. seg[j].prev = id
  BY <1>0, <1>1 DEF SegmentsOrdered, Ids
<1>3. id # NoSeg
  BY <1>0, IdsBounded
<1> QED BY <1>0, <1>1, <1>2, <1>3 DEF LinksCross

\* The blocks from the tail to the head of a segment are in it (segment.go:88-267).
LEMMA PathOwned ==
    ASSUME Parts, LineInv, NEW id, Owned(id)
    PROVE  PathOf(seg[id]) \subseteq Members(id)
<1>0. Data /\ Convex /\ id \in Ids /\ blk[seg[id].head].seg = id /\ id # NoSeg
  BY IdsBounded DEF Parts, SharedInv, LineInv, Line, Owned
<1>1. PICK h \in Blocks, t \in Blocks : h = seg[id].head /\ t = seg[id].tail
  BY <1>0, SegFacts
<1> SUFFICES ASSUME NEW b \in Ancestors[h], Descends(t, b) PROVE b \in Blocks /\ blk[b].seg = id
  BY <1>1 DEF PathOf, Members
<1>2. b \in Blocks /\ Descends(b, h)
  BY DEF Ancestors, Descends
<1>3. Height[t] <= Height[b] /\ Height[b] <= Height[h]
  BY <1>2, DescendsHeight
<1> QED BY <1>0, <1>1, <1>2, <1>3 DEF Convex, Recorded

\* No invalid block is on the chain (segment.go:88-141, 219-235, 293-312).
LEMMA LineValidated == ASSUME Parts, LineInv PROVE HeadValidated
<1> SUFFICES ASSUME lastBlock # None,
                    NEW b \in PathOf(seg[stateSegment]), b \in Rejected,
                    seg[stateSegment].prev = NoSeg => b # seg[stateSegment].tail
             PROVE  FALSE
  BY DEF HeadValidated
<1>1. PICK id : id = stateSegment
  OBVIOUS
<1>2. Owned(id) /\ Settled(id)
  BY <1>1 DEF Parts, HeadInv, LineInv, HeadOwned, HeadSettled
<1>3. Data /\ id \in Ids /\ id # NoSeg /\ Clean
  BY <1>2, IdsBounded DEF Parts, SharedInv, LineInv, Line, Owned
<1>4. b \in Blocks /\ blk[b].seg = id
  BY <1>1, <1>2, PathOwned DEF Members
<1>5. PICK t \in Blocks : t = seg[id].tail
  BY <1>3, SegFacts
<1>6. Height[t] <= Height[b] /\ Height[b] \in Nat
  BY <1>1, <1>4, <1>5, DescendsHeight DEF PathOf
<1>7. CASE b = t
  BY <1>1, <1>3, <1>5, <1>7 DEF Clean
<1>8. CASE t # Genesis /\ b = Parent[t]
  BY <1>6, <1>8, ParentFacts
<1>9. CASE Foul(id)
  <2>1. seg[id].prev = NoSeg /\ seg[id].status = "INVALID"
    BY <1>9 DEF Foul
  <2> QED BY <1>2, <2>1 DEF Settled
<1> QED BY <1>3, <1>4, <1>5, <1>7, <1>8, <1>9 DEF Clean, Recorded

-----------------------------------------------------------------------------
(* What a step leaves alone.                                               *)

OwnedStays == \A id : Owned(id) => Owned(id)'
RecordsStay == \A b \in Blocks : Recorded(b) => blk'[b].seg = blk[b].seg

\* A step that moves no block to another segment, no end and no link back.
SameLine ==
    /\ \A b \in Blocks : blk'[b].seg = blk[b].seg
    /\ Ids' = Ids
    /\ \A id \in Ids :
          /\ seg'[id].head = seg[id].head /\ seg'[id].tail = seg[id].tail
          /\ seg'[id].prev = seg[id].prev
          /\ seg[id].status = "INVALID" => seg'[id].status = "INVALID"

LEMMA LineStays ==
    ASSUME Data, RecordsKnown, Line, SameLine
    PROVE  Line' /\ OwnedStays /\ RecordsStay
<1>0. /\ SegsOwned /\ Convex /\ LinksCross /\ Clean
      /\ \A b \in Blocks : Recorded(b) => blk[b].seg \in Ids
      /\ \A id \in Ids : seg[id].head \in Blocks /\ seg[id].tail \in Blocks
      /\ \A id \in Ids : seg[id].prev # NoSeg => seg[id].prev \in Ids
  BY SegFacts, KnownId DEF Line, RecordsKnown, Recorded
<1>1. OwnedStays
  BY <1>0 DEF OwnedStays, Owned, SameLine
<1>2. RecordsStay
  BY DEF RecordsStay, SameLine
<1>3. SegsOwned'
  <2>1. ASSUME NEW b \in Blocks, Recorded(b)' PROVE Owned(blk[b].seg)'
    <3>1. PICK id : id = blk[b].seg
      OBVIOUS
    <3>2. Owned(id)' /\ blk'[b].seg = id
      BY <1>0, <1>1, <2>1, <3>1 DEF SegsOwned, OwnedStays, SameLine, Recorded
    <3> QED BY <3>2 DEF Owned
  <2>2. ASSUME NEW id \in Ids', seg'[id].prev # NoSeg PROVE Owned(id)'
    BY <1>0, <1>1, <2>2 DEF SegsOwned, OwnedStays, SameLine
  <2> QED BY <2>1, <2>2 DEF SegsOwned
<1>4. Convex'
  <2> SUFFICES ASSUME NEW b \in Blocks, Recorded(b)', NEW c \in Blocks,
                      Height[seg'[blk'[b].seg].tail] <= Height[c], Height[c] <= Height[b]
               PROVE  blk'[c].seg = blk'[b].seg
    BY DEF Convex
  <2>1. Recorded(b) /\ seg'[blk'[b].seg].tail = seg[blk[b].seg].tail
    BY <1>0 DEF Recorded, SameLine
  <2> QED BY <1>0, <2>1 DEF Convex, SameLine
<1>5. LinksCross'
  BY <1>0 DEF LinksCross, SameLine
<1>6. Clean'
  <2>1. ASSUME NEW b \in Blocks \cap Rejected, Recorded(b)'
        PROVE  (\/ b = seg[blk[b].seg].tail
                \/ seg[blk[b].seg].tail # Genesis /\ b = Parent[seg[blk[b].seg].tail]
                \/ Foul(blk[b].seg))'
    <3>1. PICK id \in Ids : id = blk[b].seg /\ id = blk'[b].seg /\ Recorded(b)
      BY <1>0, <2>1 DEF SameLine, Recorded
    <3>2. \/ b = seg[id].tail
          \/ seg[id].tail # Genesis /\ b = Parent[seg[id].tail]
          \/ Foul(id)
      BY <1>0, <3>1 DEF Clean
    <3> QED BY <3>1, <3>2 DEF SameLine, Foul
  <2>2. ASSUME NEW id \in Ids', seg'[id].prev # NoSeg PROVE seg'[id].tail \notin Rejected
    BY <1>0, <2>2 DEF Clean, SameLine
  <2> QED BY <2>1, <2>2 DEF Clean
<1> QED BY <1>1, <1>2, <1>3, <1>4, <1>5, <1>6 DEF Line

\* A block that had no segment gets one that it belongs to.
LEMMA LineGrows ==
    ASSUME Data, Data', RecordsKnown, Line, NEW y \in Blocks, NEW n \in Ids,
           ~ Recorded(y), seg' = seg, blk'[y].seg = n,
           \A c \in Blocks \ {y} : blk'[c].seg = blk[c].seg,
           Owned(n) \/ (seg[n].head = y /\ seg[n].tail = y),
           \A c \in Blocks \ {y} :
               Height[seg[n].tail] <= Height[c] /\ Height[c] <= Height[y] => blk[c].seg = n,
           y \in Rejected => \/ y = seg[n].tail
                             \/ seg[n].tail # Genesis /\ y = Parent[seg[n].tail]
    PROVE  Line' /\ OwnedStays /\ RecordsStay /\ Owned(n)'
<1>0. /\ SegsOwned /\ Convex /\ LinksCross /\ Clean
      /\ \A b \in Blocks : Recorded(b) => blk[b].seg \in Ids
      /\ \A id \in Ids : seg[id].head \in Blocks /\ seg[id].tail \in Blocks
      /\ \A id \in Ids : seg[id].prev # NoSeg => seg[id].prev \in Ids
      /\ Ids' = Ids /\ n # NoSeg /\ blk[y].seg = NoSeg
      /\ \A id \in Ids : id # NoSeg
  BY SegFacts, KnownId, IdsBounded DEF Line, RecordsKnown, Recorded, Ids
<1>1. RecordsStay
  BY DEF RecordsStay
<1>2. OwnedStays
  BY <1>0, <1>1 DEF OwnedStays, Owned, RecordsStay, Recorded
<1>3. Owned(n)'
  <2>1. CASE Owned(n)
    BY <1>2, <2>1 DEF OwnedStays
  <2>2. CASE seg[n].head = y /\ seg[n].tail = y
    BY <1>0, <2>2 DEF Owned
  <2> QED BY <2>1, <2>2
<1>4. SegsOwned'
  <2>1. ASSUME NEW b \in Blocks, Recorded(b)' PROVE Owned(blk[b].seg)'
    <3>1. PICK id : id = blk'[b].seg
      OBVIOUS
    <3>2. Owned(id)'
      BY <1>0, <1>2, <1>3, <2>1, <3>1 DEF SegsOwned, OwnedStays, Recorded
    <3> QED BY <3>1, <3>2 DEF Owned
  <2>2. ASSUME NEW id \in Ids', seg'[id].prev # NoSeg PROVE Owned(id)'
    BY <1>0, <1>2, <2>2 DEF SegsOwned, OwnedStays
  <2> QED BY <2>1, <2>2 DEF SegsOwned
<1>5. Convex'
  <2> SUFFICES ASSUME NEW b \in Blocks, Recorded(b)', NEW c \in Blocks,
                      Height[seg[blk'[b].seg].tail] <= Height[c], Height[c] <= Height[b]
               PROVE  blk'[c].seg = blk'[b].seg
    BY DEF Convex
  <2>1. CASE b = y
    BY <2>1
  <2>2. CASE b # y
    <3>1. Recorded(b) /\ blk[c].seg = blk[b].seg
      BY <1>0, <2>2 DEF Convex, Recorded
    <3>2. c # y
      BY <3>1 DEF Recorded
    <3> QED BY <2>2, <3>1, <3>2
  <2> QED BY <2>1, <2>2
<1>6. LinksCross'
  BY <1>0 DEF LinksCross
<1>7. Clean'
  <2>1. ASSUME NEW b \in Blocks \cap Rejected, Recorded(b)'
        PROVE  (\/ b = seg[blk[b].seg].tail
                \/ seg[blk[b].seg].tail # Genesis /\ b = Parent[seg[blk[b].seg].tail]
                \/ Foul(blk[b].seg))'
    <3>1. CASE b = y
      BY <3>1
    <3>2. CASE b # y
      BY <1>0, <2>1, <3>2 DEF Clean, Recorded, Foul
    <3> QED BY <3>1, <3>2
  <2> QED BY <1>0, <2>1 DEF Clean
<1> QED BY <1>1, <1>2, <1>3, <1>4, <1>5, <1>6, <1>7 DEF Line

\* What the goroutines hold while another one moves.
LEMMA HeadOwnedStays ==
    ASSUME OwnedStays, HeadOwned, UNCHANGED <<stateSegment, s>>
    PROVE  HeadOwned'
<1>1. /\ stateSegment # NoSeg => Owned(stateSegment)'
      /\ s.pc = "head" => Owned(s.seg)'
  BY DEF OwnedStays, HeadOwned
<1> QED BY <1>1 DEF HeadOwned, Owned

LEMMA QueueOwnedStays ==
    ASSUME OwnedStays, QueueOwned, queue' = queue
    PROVE  QueueOwned'
<1>1. \A i \in 1..Len(queue) : Owned(queue[i])'
  BY DEF OwnedStays, QueueOwned
<1> QED BY <1>1 DEF QueueOwned, Owned

LEMMA PFacts ==
    ASSUME Parts
    PROVE  /\ p.pc # "idle" => /\ p.b \in Blocks \ {Genesis} /\ Parent[p.b] \in Blocks
                               /\ Height[p.b] \in Nat /\ Height[Parent[p.b]] \in Nat
                               /\ Height[p.b] = Height[Parent[p.b]] + 1
           /\ Appending \/ p.pc = "new block" => p.parent.seg \in Ids /\ p.parent.seg # NoSeg
           /\ p.pc = "idle" => ~ Appending
<1>1. p.pc # "idle" => p.b \in Blocks \ {Genesis}
  BY DEF Parts, PInv, PType
<1>2. p.pc # "idle" => /\ Parent[p.b] \in Blocks /\ Height[Parent[p.b]] \in Nat
                       /\ Height[p.b] = Height[Parent[p.b]] + 1 /\ Height[p.b] \in Nat
  BY <1>1, ParentFacts, ChainSyncAssumption
<1>3. Appending \/ p.pc = "new block" => p.parent.seg \in Ids
  BY KnownId DEF Parts, PInv, PKnown, Appending
<1> QED BY <1>1, <1>2, <1>3, IdsBounded DEF Appending, Parts, SharedInv

LEMMA RFacts ==
    ASSUME Parts
    PROVE  /\ r.pc # "idle" => r.seg \in Ids /\ r.seg # NoSeg
           /\ Including \/ r.pc = "append segment" =>
                /\ r.b \in Blocks \ {Genesis} /\ r.b = seg[r.seg].tail /\ Parent[r.b] \in Blocks
                /\ Height[r.b] \in Nat /\ Height[Parent[r.b]] \in Nat
                /\ Height[r.b] = Height[Parent[r.b]] + 1
           /\ Including => seg[r.seg].prev = NoSeg
           /\ r.pc = "append segment" => r.prev \in Ids /\ r.prev # NoSeg
           /\ r.pc = "idle" => ~ Including
<1>0. Data
  BY DEF Parts, SharedInv
<1>1. r.pc # "idle" => r.seg \in Ids /\ r.seg # NoSeg
  BY KnownId DEF Parts, RInv, RKnown
<1>2. Including \/ r.pc = "append segment" =>
        r.b \in Blocks \ {Genesis} /\ r.b = seg[r.seg].tail
  BY <1>0, <1>1, SegFacts DEF Parts, RInv, RewindsTail, Including
<1>3. Including \/ r.pc = "append segment" =>
        /\ Parent[r.b] \in Blocks /\ Height[r.b] = Height[Parent[r.b]] + 1
        /\ Height[Parent[r.b]] \in Nat /\ Height[r.b] \in Nat
  BY <1>2, ParentFacts, ChainSyncAssumption
<1>4. r.pc = "append segment" => r.prev \in Ids /\ r.prev # NoSeg
  BY KnownId DEF Parts, RInv, RKnown
<1>5. Including => seg[r.seg].prev = NoSeg
  BY DEF Parts, RInv, RewindsTail, Including
<1>6. r.pc = "idle" => ~ Including
  BY DEF Including
<1> QED BY <1>1, <1>2, <1>3, <1>4, <1>5, <1>6

LEMMA PLineStays ==
    ASSUME Parts, PLine, RecordsStay, p' = p,
           p.pc = "new block" => seg'[p.parent.seg].tail = seg[p.parent.seg].tail
    PROVE  PLine'
<1>1. Appending => /\ blk'[Parent[p.b]].seg = p.parent.seg /\ p.b \notin Rejected
  BY PFacts DEF PLine, RecordsStay, Recorded
<1>2. p.pc = "append head" => blk'[p.b].seg = p.parent.seg
  BY PFacts DEF PLine, RecordsStay, Recorded, Appending
<1> QED BY <1>1, <1>2 DEF PLine, Appending

LEMMA RLineStays ==
    ASSUME Parts, RLine, OwnedStays, RecordsStay, r' = r,
           r.pc = "include block" => ~ Recorded(Parent[r.b])',
           r.pc # "idle" =>
               seg'[r.seg].status = seg[r.seg].status \/ seg'[r.seg].status = "VALID"
    PROVE  RLine'
<1>1. r.pc # "idle" => Owned(r.seg)'
  BY DEF RLine, OwnedStays
<1>2. r.pc = "include tail" => blk'[Parent[r.b]].seg = r.seg
  <2>1. ASSUME r.pc = "include tail"
        PROVE  r.seg # NoSeg /\ Parent[r.b] \in Blocks /\ blk[Parent[r.b]].seg = r.seg
    <3>1. Including
      BY <2>1 DEF Including
    <3> QED BY <2>1, <3>1, RFacts DEF RLine
  <2> QED BY <2>1 DEF RecordsStay, Recorded
<1>3. r.pc = "append segment" => blk'[Parent[r.b]].seg = r.prev
  BY RFacts DEF RLine, RecordsStay, Recorded
<1> QED BY <1>1, <1>2, <1>3 DEF RLine, Owned, Recorded

\* A segment stays settled unless it is rewound, which a settled one is not.
LEMMA SettledStays ==
    ASSUME Parts, HeadOwned, HeadSettled, UNCHANGED <<stateSegment, s>>,
           \A id \in Ids : Settled(id) => Settled(id)'
    PROVE  HeadSettled'
<1>1. /\ stateSegment # NoSeg => Settled(stateSegment)'
      /\ s.pc = "head" => Settled(s.seg)'
  BY DEF HeadSettled, HeadOwned, Owned
<1> QED BY <1>1 DEF HeadSettled, Settled, Including

LEMMA SettledKept ==
    ASSUME \A id \in Ids :
              /\ seg'[id].tail = seg[id].tail /\ seg'[id].prev = seg[id].prev
              /\ seg'[id].status = seg[id].status \/ seg'[id].status = "VALID",
           Including' => Including /\ r'.seg = r.seg
    PROVE  \A id \in Ids : Settled(id) => Settled(id)'
<1> SUFFICES ASSUME NEW id \in Ids, Settled(id) PROVE Settled(id)'
  OBVIOUS
<1>1. CASE seg[id].prev # NoSeg
  BY <1>1 DEF Settled
<1>2. CASE seg[id].tail = Genesis /\ seg[id].status # "INVALID"
  BY <1>2 DEF Settled
<1>3. CASE seg[id].status = "VALID" /\ ~(Including /\ r.seg = id)
  BY <1>3 DEF Settled
<1> QED BY <1>1, <1>2, <1>3 DEF Settled

LEMMA ArrivalsStay ==
    ASSUME Arrivals, seen' = seen, \A b \in Blocks : Recorded(b)' => Recorded(b),
           p'.pc # "idle" => /\ p'.b = p.b /\ p.pc # "idle"
                             /\ p.pc = "append head" => p'.pc = "append head"
    PROVE  Arrivals'
BY DEF Arrivals, Coming

\* A step that leaves the line as it is, and makes no segment invalid.
LEMMA LineControl ==
    ASSUME Parts, LineInv, SameLine,
           \A id \in Ids : seg'[id].status = seg[id].status \/ seg'[id].status = "VALID"
    PROVE  /\ Line' /\ OwnedStays /\ RecordsStay
           /\ queue' = queue => QueueOwned'
           /\ p' = p => PLine'
           /\ seen' = seen /\ (p' = p \/ p'.pc = "idle") => Arrivals'
           /\ r' = r => RLine'
           /\ UNCHANGED <<stateSegment, s>> => HeadOwned'
           /\ UNCHANGED <<stateSegment, s>> /\ (r' = r \/ ~ Including') => HeadSettled'
<1>0. /\ Data /\ RecordsKnown /\ Line /\ HeadOwned /\ QueueOwned /\ PLine /\ RLine
      /\ HeadSettled /\ Arrivals
  BY DEF Parts, SharedInv, LineInv
<1>1. Line' /\ OwnedStays /\ RecordsStay
  BY <1>0, LineStays
<1>2. /\ queue' = queue => QueueOwned'
      /\ UNCHANGED <<stateSegment, s>> => HeadOwned'
  BY <1>0, <1>1, QueueOwnedStays, HeadOwnedStays
<1>3. p' = p => PLine'
  <2>1. p.pc = "new block" => seg'[p.parent.seg].tail = seg[p.parent.seg].tail
    BY PFacts DEF SameLine
  <2> QED BY <1>0, <1>1, <2>1, PLineStays
<1>4. seen' = seen /\ (p' = p \/ p'.pc = "idle") => Arrivals'
  <2>1. \A b \in Blocks : Recorded(b)' => Recorded(b)
    BY DEF SameLine, Recorded
  <2> QED BY <1>0, <2>1, ArrivalsStay
<1>5. r' = r => RLine'
  <2>1. r.pc = "include block" /\ r' = r => ~ Recorded(Parent[r.b])'
    <3> SUFFICES ASSUME r.pc = "include block", r' = r PROVE ~ Recorded(Parent[r.b])'
      OBVIOUS
    <3>1. Including
      BY DEF Including
    <3>2. PICK x \in Blocks : x = Parent[r.b]
      BY <3>1, RFacts
    <3>3. ~ Recorded(x)
      BY <1>0, <3>2 DEF RLine
    <3> QED BY <3>2, <3>3 DEF SameLine, Recorded
  <2>2. r.pc # "idle" => seg'[r.seg].status = seg[r.seg].status \/ seg'[r.seg].status = "VALID"
    BY <1>0 DEF RLine, Owned
  <2> QED BY <1>0, <1>1, <2>1, <2>2, RLineStays
<1>6. UNCHANGED <<stateSegment, s>> /\ (r' = r \/ ~ Including') => HeadSettled'
  <2> SUFFICES ASSUME UNCHANGED <<stateSegment, s>>, r' = r \/ ~ Including'
               PROVE  HeadSettled'
    OBVIOUS
  <2>1. Including' => Including /\ r'.seg = r.seg
    BY DEF Including
  <2>2. \A id \in Ids : Settled(id) => Settled(id)'
    BY <2>1, SettledKept DEF SameLine
  <2> QED BY <1>0, <2>2, SettledStays
<1> QED BY <1>1, <1>2, <1>3, <1>4, <1>5, <1>6

LEMMA SameLineOf ==
    ASSUME Data, UNCHANGED <<blk, seg>>
    PROVE  SameLine /\ \A id \in Ids : seg'[id].status = seg[id].status
BY DEF SameLine, Ids

-----------------------------------------------------------------------------
(* The steps that only read.                                               *)

\* A commit arrives, above all that the node has (chain.go:435-459).
LEMMA DeliverLine ==
    ASSUME OneProposer, Parts, LineInv, NEW q \in Peers, NEW i \in 1..Len(Sent[q]), Deliver(q, i)
    PROVE  LineInv'
<1>0. Data /\ UNCHANGED <<blk, seg, stateSegment, queue, r, s>> /\ p.pc = "idle" /\ Arrivals
  BY DEF Parts, SharedInv, Deliver, dbVars, LineInv
<1>1. SameLine /\ \A id \in Ids : seg'[id].status = seg[id].status
  BY <1>0, SameLineOf
<1>2. Line' /\ QueueOwned' /\ RLine' /\ HeadOwned' /\ HeadSettled' /\ (p' = p => PLine')
  BY <1>0, <1>1, LineControl
<1>3. PICK b \in Blocks : b = Sent[q][i]
  BY ChainSyncAssumption
<1>4. \A c \in Blocks : Height[c] \in Nat
  BY ChainSyncAssumption
<1>5. i \in Coming(q) /\ seen[q] \in Nat /\ seen \in [Peers -> Nat]
  BY DEF Deliver, Coming, Parts, CountInv
<1>6. ASSUME NEW x \in Peers, NEW j \in Coming(x)'
      PROVE  x = q /\ j \in Coming(x) /\ Height[b] <= Height[Sent[x][j]]
  <2>1. x = q
    BY DEF OneProposer
  <2>2. seen'[q] = i
    BY <1>5 DEF Deliver
  <2>3. j \in 1..Len(Sent[q]) /\ j >= i /\ i >= seen[q]
    BY <2>1, <2>2 DEF Coming, Deliver
  <2>4. j \in Coming(q)
    BY <1>5, <2>3 DEF Coming
  <2>5. \A k, l \in 1..Len(Sent[q]) : k < l => Height[Sent[q][k]] < Height[Sent[q][l]]
    BY DEF OneProposer
  <2>6. Sent[q][j] \in Blocks
    BY <2>3, ChainSyncAssumption
  <2>7. Height[b] <= Height[Sent[q][j]]
    <3>1. CASE j = i
      BY <1>3, <1>4, <3>1
    <3>2. CASE i < j
      BY <1>3, <1>4, <2>3, <2>5, <2>6, <3>2
    <3> QED BY <2>3, <3>1, <3>2
  <2> QED BY <2>1, <2>4, <2>7
<1>7. \A c \in Blocks : Recorded(c)' <=> Recorded(c)
  BY <1>0 DEF Recorded
<1>8. CASE p' = p
  <2>1. Arrivals'
    BY <1>0, <1>6, <1>7, <1>8 DEF Arrivals
  <2> QED BY <1>2, <1>8, <2>1 DEF LineInv
<1>9. CASE blk[b].seg = NoSeg /\ p'.pc = "parent" /\ p'.b = b
  <2>1. PLine'
    BY <1>9 DEF PLine, Appending
  <2>2. \A c \in Blocks : Recorded(c) => Height[c] <= Height[b] /\ c # b
    BY <1>0, <1>3, <1>5, <1>9 DEF Arrivals, Recorded
  <2>3. Arrivals'
    BY <1>0, <1>6, <1>7, <1>9, <2>2 DEF Arrivals
  <2> QED BY <1>2, <2>1, <2>3 DEF LineInv
<1>10. p' = p \/ (blk[b].seg = NoSeg /\ p'.pc = "parent" /\ p'.b = b)
  BY <1>3 DEF Deliver, HandleBlockCommit
<1> QED BY <1>8, <1>9, <1>10

\* The parent's record is read (chain.go:460-503).
LEMMA LookupParentLine == ASSUME Parts, LineInv, LookupParent PROVE LineInv'
<1>0. /\ Data /\ UNCHANGED <<blk, seg, stateSegment, queue, r, s, seen>> /\ p.pc = "parent"
      /\ Arrivals /\ PType
  BY DEF Parts, SharedInv, LookupParent, dbVars, LineInv, PInv
<1>1. SameLine /\ \A id \in Ids : seg'[id].status = seg[id].status
  BY <1>0, SameLineOf
<1>2. /\ Line' /\ QueueOwned' /\ RLine' /\ HeadOwned' /\ HeadSettled'
      /\ p'.pc = "idle" => Arrivals'
  BY <1>0, <1>1, LineControl
<1>3. CASE p' = IdleP
  <2>1. p'.pc = "idle"
    BY <1>3 DEF IdleP
  <2> QED BY <1>2, <2>1 DEF LineInv, PLine, Appending
<1>4. ASSUME NEW pc \in {"append parent", "new segment"},
             p' = [p EXCEPT !.pc = pc, !.parent = blk[Parent[p.b]]],
             pc = "append parent" => CanAppend(blk[Parent[p.b]], p.b)
      PROVE  LineInv'
  <2>1. p'.pc = pc /\ p'.b = p.b /\ p'.parent = blk[Parent[p.b]]
    BY <1>0, <1>4 DEF PType
  <2>2. PLine'
    <3>1. pc = "append parent" => p.b \notin Rejected
      BY <1>4 DEF CanAppend, ValidateChild
    <3> QED BY <1>0, <1>4, <2>1, <3>1 DEF PLine, Appending
  <2>3. Arrivals'
    <3>1. \A b \in Blocks : Recorded(b)' => Recorded(b)
      BY <1>0 DEF Recorded
    <3> QED BY <1>0, <2>1, <3>1, ArrivalsStay
  <2> QED BY <1>2, <2>2, <2>3 DEF LineInv
<1> QED BY <1>3, <1>4 DEF LookupParent

\* What is left in the queue, or put there.
LEMMA PopOwned ==
    ASSUME Parts, LineInv, OwnedStays, queue # <<>>, queue' = PopRest(queue)
    PROVE  QueueOwned' /\ Owned(Head(queue))
<1>1. queue \in Seq(Nat) /\ \A j \in 1..Len(queue) : Owned(queue[j])
  BY DEF Parts, QueueInv, LineInv, QueueOwned
<1>2. PICK q \in Seq(Nat) : q = queue
  BY <1>1
<1>3. /\ PopRest(q) \in Seq(Nat)
      /\ \A i \in 1..Len(PopRest(q)) : \E j \in 1..Len(q) : PopRest(q)[i] = q[j]
      /\ Head(q) = q[1] /\ 1 \in 1..Len(q)
  BY <1>2, PopFacts
<1>4. \A i \in 1..Len(queue') : Owned(queue'[i])
  BY <1>1, <1>2, <1>3
<1>5. ASSUME NEW i \in 1..Len(queue') PROVE Owned(queue[i])'
  <2>1. PICK k : k = queue'[i]
    OBVIOUS
  <2>2. Owned(k)'
    BY <1>4, <1>5, <2>1 DEF OwnedStays
  <2> QED BY <2>1, <2>2 DEF Owned
<1> QED BY <1>1, <1>2, <1>3, <1>5 DEF QueueOwned

LEMMA PushOwned ==
    ASSUME Parts, LineInv, OwnedStays, NEW id \in Nat, Owned(id)', queue' = Push(queue, id)
    PROVE  QueueOwned'
<1>1. queue \in Seq(Nat) /\ \A j \in 1..Len(queue) : Owned(queue[j])
  BY DEF Parts, QueueInv, LineInv, QueueOwned
<1>2. CASE queue' = queue
  BY <1>2, QueueOwnedStays DEF LineInv
<1>3. CASE queue' = Append(queue, id)
  <2>1. /\ Len(queue') = Len(queue) + 1 /\ queue'[Len(queue) + 1] = id
        /\ \A j \in 1..Len(queue) : queue'[j] = queue[j]
        /\ Len(queue) \in Nat
    BY <1>1, <1>3
  <2>2. ASSUME NEW i \in 1..Len(queue') PROVE Owned(queue[i])'
    <3>1. PICK k : k = queue'[i]
      OBVIOUS
    <3>2. k = id \/ \E j \in 1..Len(queue) : k = queue[j]
      BY <2>1, <2>2, <3>1
    <3>3. Owned(k)'
      BY <1>1, <3>2 DEF OwnedStays
    <3> QED BY <3>1, <3>3 DEF Owned
  <2> QED BY <2>2 DEF QueueOwned
<1> QED BY <1>2, <1>3 DEF Push

\* The rewind loop starts with a segment that is disjointed, so not settled.
\* (segment.go:144-197).
LEMMA RewindStartLine == ASSUME Parts, LineInv, RewindStart PROVE LineInv'
<1>0. /\ Data /\ UNCHANGED <<blk, seg, stateSegment, p, s, seen>> /\ r.pc = "idle"
      /\ queue # <<>> /\ queue' = PopRest(queue) /\ HeadOwned /\ HeadSettled
  BY DEF Parts, SharedInv, RewindStart, dbVars, LineInv
<1>1. SameLine /\ \A id \in Ids : seg'[id].status = seg[id].status
  BY <1>0, SameLineOf
<1>2. /\ Line' /\ PLine' /\ Arrivals' /\ HeadOwned' /\ OwnedStays
      /\ ~ Including' => HeadSettled'
  BY <1>0, <1>1, LineControl
<1>3. QueueOwned' /\ Owned(Head(queue))
  BY <1>0, <1>2, PopOwned
<1>4. PICK id \in Ids : id = Head(queue) /\ Owned(id)
  BY <1>3 DEF Owned
<1>5. Owned(id)'
  BY <1>2, <1>4 DEF OwnedStays
<1>6. PICK t \in Blocks : t = seg[id].tail
  BY <1>0, SegFacts
<1>7. CASE r' = IdleR
  <2>1. r'.pc = "idle"
    BY <1>7 DEF IdleR
  <2> QED BY <1>2, <1>3, <2>1 DEF LineInv, RLine, Including
<1>8. ASSUME NEW pc \in {"rewound", "append segment", "include block"}, NEW to,
             r' = [IdleR EXCEPT !.pc = pc, !.seg = id, !.b = t, !.prev = to],
             pc = "append segment" => to = blk[Parent[t]].seg,
             pc = "include block" => blk[Parent[t]].seg = NoSeg /\ seg[id].status = "DISJOINTED"
      PROVE  LineInv'
  <2>1. r'.pc = pc /\ r'.seg = id /\ r'.b = t /\ r'.prev = to
    BY <1>8 DEF IdleR
  <2>2. RLine'
    BY <1>0, <1>5, <1>8, <2>1 DEF RLine, Recorded, Owned
  <2>3. HeadSettled'
    <3>1. CASE pc # "include block"
      BY <1>2, <1>8, <2>1, <3>1 DEF Including
    <3>2. CASE pc = "include block"
      <4>1. seg[id].status = "DISJOINTED"
        BY <1>8, <3>2
      <4>2. ASSUME NEW j \in Ids, Settled(j) PROVE Settled(j)'
        <5>1. CASE seg[j].prev # NoSeg
          BY <1>0, <5>1 DEF Settled
        <5>2. CASE seg[j].tail = Genesis /\ seg[j].status # "INVALID"
          BY <1>0, <5>2 DEF Settled
        <5>3. CASE seg[j].status = "VALID"
          BY <1>0, <2>1, <4>1, <5>3 DEF Settled
        <5> QED BY <4>2, <5>1, <5>2, <5>3 DEF Settled
      <4> QED BY <1>0, <4>2, SettledStays
    <3> QED BY <3>1, <3>2
  <2> QED BY <1>2, <1>3, <2>2, <2>3 DEF LineInv
<1> QED BY <1>4, <1>6, <1>7, <1>8 DEF RewindStart

\* A fetch fails and the segment is gone from the queue (segment_store.go:65-87).
LEMMA RewindFailsLine == ASSUME Parts, LineInv, RewindFails PROVE LineInv'
<1>0. Data /\ UNCHANGED <<blk, seg, stateSegment, p, s, seen>> /\ r' = IdleR
  BY DEF Parts, SharedInv, RewindFails, dbVars
<1>1. SameLine /\ \A id \in Ids : seg'[id].status = seg[id].status
  BY <1>0, SameLineOf
<1>2. r'.pc = "idle" /\ ~ Including'
  BY <1>0 DEF IdleR, Including
<1>3. /\ Line' /\ PLine' /\ Arrivals' /\ HeadOwned' /\ OwnedStays /\ HeadSettled'
      /\ queue' = queue => QueueOwned'
  BY <1>0, <1>1, <1>2, LineControl
<1>4. QueueOwned'
  BY <1>3, PopOwned DEF RewindFails
<1> QED BY <1>2, <1>3, <1>4 DEF LineInv, RLine

\* The segment that was rewound, or the one it was linked to, has its head block.
LEMMA UpdatedOwned ==
    ASSUME Data, SegsOwned, LinksStable, NEW j \in Ids, Owned(j),
           NEW id, id = IF seg[j].prev # NoSeg THEN seg[j].prev ELSE j
    PROVE  Owned(id)
<1>1. CASE seg[j].prev # NoSeg
  <2>1. seg[j].tail \in Blocks \ {Genesis} /\ blk[Parent[seg[j].tail]].seg = seg[j].prev
    BY <1>1, SegFacts DEF LinksStable, Ids
  <2>2. PICK x \in Blocks : x = Parent[seg[j].tail]
    BY <2>1, ParentFacts
  <2> QED BY <1>1, <2>1, <2>2 DEF SegsOwned, Recorded
<1>2. CASE seg[j].prev = NoSeg
  BY <1>2
<1> QED BY <1>1, <1>2

\* The segment that may become the head is not invalid (chain.go:535-573).
LEMMA SegmentUpdatedLine == ASSUME Parts, LineInv, SegmentUpdated PROVE LineInv'
<1>0. /\ Data /\ UNCHANGED <<blk, seg, stateSegment, p, s, seen, queue>> /\ r.pc = "rewound"
      /\ RecordsKnown /\ SegsOwned /\ RLine /\ RType /\ LinksStable
  BY DEF Parts, SharedInv, SegmentUpdated, dbVars, LineInv, Line, RInv
<1>1. SameLine /\ \A id \in Ids : seg'[id].status = seg[id].status
  BY <1>0, SameLineOf
<1>2. PICK id : id = IF seg[r.seg].prev # NoSeg THEN seg[r.seg].prev ELSE r.seg
  OBVIOUS
<1>3. PICK j \in Ids : j = r.seg /\ Owned(j)
  BY <1>0 DEF RLine, Owned
<1>4. Owned(id)
  BY <1>0, <1>2, <1>3, UpdatedOwned
<1>5. PICK pc \in {"mark head", "push"} :
          /\ r' = [r EXCEPT !.pc = pc, !.seg = id, !.b = seg[id].head,
                            !.bseg = blk[seg[id].head].seg]
          /\ pc = "mark head" => seg[id].status = "DISJOINTED"
  BY <1>2 DEF SegmentUpdated
<1>6. r'.pc = pc /\ r'.seg = id /\ r'.bseg = id
  BY <1>0, <1>4, <1>5 DEF RType, Owned
<1>7. /\ Line' /\ PLine' /\ Arrivals' /\ HeadOwned' /\ OwnedStays /\ QueueOwned' /\ HeadSettled'
  <2>1. ~ Including'
    BY <1>6 DEF Including
  <2> QED BY <1>0, <1>1, <2>1, LineControl
<1>8. Owned(id)'
  BY <1>4, <1>7 DEF OwnedStays
<1>9. RLine'
  BY <1>0, <1>5, <1>6, <1>8 DEF RLine, Owned
<1> QED BY <1>7, <1>9 DEF LineInv

\* A step that writes the status of a segment.
LEMMA StatusLine ==
    ASSUME Data, NEW id \in Ids, NEW status \in {"DISJOINTED", "VALID", "INVALID"},
           blk' = blk, seg' = [seg EXCEPT ![id].status = status],
           status = "INVALID" \/ seg[id].status # "INVALID"
    PROVE  /\ SameLine /\ seg'[id].status = status
           /\ \A j \in Ids \ {id} : seg'[j].status = seg[j].status
<1>1. seg[id] \in Segment /\ seg \in Seq(Segment)
  BY SegFacts DEF Data
<1>2. [seg[id] EXCEPT !.status = status] \in Segment
  BY <1>1 DEF Segment
<1>3. /\ Len(seg') = Len(seg) /\ seg'[id] = [seg[id] EXCEPT !.status = status]
      /\ \A i \in Ids \ {id} : seg'[i] = seg[i]
  BY <1>1, <1>2 DEF Ids
<1>4. /\ seg'[id].head = seg[id].head /\ seg'[id].tail = seg[id].tail
      /\ seg'[id].prev = seg[id].prev /\ seg'[id].status = status
  BY <1>1, <1>3 DEF Segment
<1> QED BY <1>3, <1>4 DEF SameLine, Ids

\* A fetch fails: the segment is pushed again (chain.go:895-909, 948-958).
LEMMA LookupFailsLine == ASSUME Parts, LineInv, LookupFails PROVE LineInv'
<1>0. /\ Data /\ UNCHANGED <<blk, seg, stateSegment, p, s, seen, queue>> /\ r.pc = "rewound"
      /\ RecordsKnown /\ SegsOwned /\ RLine /\ RType /\ LinksStable
  BY DEF Parts, SharedInv, LookupFails, dbVars, LineInv, Line, RInv
<1>1. SameLine /\ \A id \in Ids : seg'[id].status = seg[id].status
  BY <1>0, SameLineOf
<1>2. PICK id : id = IF seg[r.seg].prev # NoSeg THEN seg[r.seg].prev ELSE r.seg
  OBVIOUS
<1>3. PICK j \in Ids : j = r.seg /\ Owned(j)
  BY <1>0 DEF RLine, Owned
<1>4. Owned(id)
  BY <1>0, <1>2, <1>3, UpdatedOwned
<1>5. r'.pc = "push" /\ r'.seg = id
  BY <1>0, <1>2 DEF LookupFails, RType
<1>6. /\ Line' /\ PLine' /\ Arrivals' /\ HeadOwned' /\ OwnedStays /\ QueueOwned' /\ HeadSettled'
  <2>1. ~ Including'
    BY <1>5 DEF Including
  <2> QED BY <1>0, <1>1, <2>1, LineControl
<1>7. Owned(id)'
  BY <1>4, <1>6 DEF OwnedStays
<1>8. RLine'
  BY <1>5, <1>7 DEF RLine, Owned
<1> QED BY <1>6, <1>8 DEF LineInv

\* The segment that becomes the head is valid first (segment.go:334-341).
LEMMA MarkValidLine == ASSUME Parts, LineInv, MarkValid PROVE LineInv'
<1>0. /\ Data /\ UNCHANGED <<blk, p, s, seen, queue, stateSegment>> /\ r.pc = "mark head"
      /\ RLine /\ RType
  BY DEF Parts, SharedInv, MarkValid, LineInv, RInv
<1>1. PICK id \in Ids : id = r.seg /\ id = r.bseg /\ Owned(id) /\ seg[id].status # "INVALID"
  BY <1>0 DEF RLine, Owned
<1>2. /\ SameLine /\ seg'[id].status = "VALID"
      /\ \A j \in Ids : seg'[j].status = seg[j].status \/ seg'[j].status = "VALID"
  BY <1>0, <1>1, StatusLine DEF MarkValid
<1>3. r'.pc = "set head" /\ r'.seg = id /\ r'.bseg = id
  BY <1>0, <1>1 DEF MarkValid, RType
<1>4. ~ Including'
  BY <1>3 DEF Including
<1>5. Line' /\ PLine' /\ Arrivals' /\ OwnedStays /\ QueueOwned' /\ HeadOwned' /\ HeadSettled'
  BY <1>0, <1>2, <1>4, LineControl
<1>6. Owned(id)'
  BY <1>1, <1>5 DEF OwnedStays
<1>7. RLine'
  BY <1>2, <1>3, <1>6 DEF RLine, Owned
<1> QED BY <1>5, <1>7 DEF LineInv

\* The segment becomes the head: it is valid, and stays so (chain.go:665-696).
LEMMA MarkAsHeadLine == ASSUME Parts, LineInv, MarkAsHead PROVE LineInv'
<1>0. /\ Data /\ UNCHANGED <<blk, seg, p, s, seen, queue>> /\ r.pc = "set head"
      /\ RLine /\ RType /\ HeadSettled /\ HeadOwned
  BY DEF Parts, SharedInv, MarkAsHead, LineInv, RInv
<1>1. PICK id \in Ids : id = r.seg /\ id = r.bseg /\ Owned(id) /\ seg[id].status = "VALID"
  BY <1>0 DEF RLine, Owned
<1>2. SameLine /\ \A j \in Ids : seg'[j].status = seg[j].status
  BY <1>0, SameLineOf
<1>3. Line' /\ PLine' /\ Arrivals' /\ OwnedStays /\ QueueOwned'
  BY <1>0, <1>2, LineControl
<1>4. r'.pc = "push" /\ r'.seg = id /\ stateSegment' = id
  BY <1>0, <1>1 DEF MarkAsHead, RType
<1>5. Owned(id)' /\ (s.pc = "head" => Owned(s.seg)')
  BY <1>0, <1>1, <1>3 DEF OwnedStays, HeadOwned
<1>6. RLine' /\ HeadOwned'
  BY <1>0, <1>4, <1>5 DEF RLine, HeadOwned, Owned
<1>7. HeadSettled'
  <2>1. \A j \in Ids : Settled(j) => Settled(j)'
    <3>1. ~ Including'
      BY <1>4 DEF Including
    <3> QED BY <1>2, <3>1, SettledKept DEF SameLine
  <2>2. Settled(id)'
    BY <1>1, <1>2, <1>4 DEF Settled, Including
  <2>3. s.pc = "head" => Settled(s.seg)'
    BY <1>0, <2>1 DEF HeadSettled, HeadOwned, Owned
  <2> QED BY <1>0, <1>4, <2>2, <2>3 DEF HeadSettled, Settled, Including
<1> QED BY <1>3, <1>6, <1>7 DEF LineInv

\* A disjointed segment goes back to the queue (segment_store.go:88-98).
LEMMA PushSegmentLine == ASSUME Parts, LineInv, PushSegment PROVE LineInv'
<1>0. /\ Data /\ UNCHANGED <<blk, seg, stateSegment, p, s, seen>> /\ r' = IdleR
      /\ r.pc = "push" /\ RLine
  BY DEF Parts, SharedInv, PushSegment, dbVars, LineInv
<1>1. SameLine /\ \A id \in Ids : seg'[id].status = seg[id].status
  BY <1>0, SameLineOf
<1>2. r'.pc = "idle" /\ ~ Including'
  BY <1>0 DEF IdleR, Including
<1>3. /\ Line' /\ PLine' /\ Arrivals' /\ HeadOwned' /\ OwnedStays /\ HeadSettled'
      /\ queue' = queue => QueueOwned'
  BY <1>0, <1>1, <1>2, LineControl
<1>4. QueueOwned'
  <2>1. PICK id \in Nat : id = r.seg /\ Owned(id)
    BY <1>0 DEF RLine, Owned, Ids
  <2>2. Owned(id)'
    BY <1>3, <2>1 DEF OwnedStays
  <2>3. CASE queue' = Push(queue, id)
    BY <1>3, <2>2, <2>3, PushOwned
  <2> QED BY <1>3, <2>1, <2>3 DEF PushSegment
<1> QED BY <1>2, <1>3, <1>4 DEF LineInv, RLine

\* The next segment has one before it, so it is settled (chain.go:617-662).
LEMMA FastForwardLine == ASSUME Parts, LineInv, FastForward PROVE LineInv'
<1>0. /\ Data /\ UNCHANGED <<blk, seg, queue, p, r, seen>> /\ stateSegment # NoSeg
      /\ RecordsKnown /\ SegmentsOrdered /\ SegsOwned /\ HeadOwned /\ HeadSettled
  BY DEF Parts, SharedInv, FastForward, LineInv, Line
<1>1. SameLine /\ \A id \in Ids : seg'[id].status = seg[id].status
  BY <1>0, SameLineOf
<1>2. Line' /\ PLine' /\ Arrivals' /\ OwnedStays /\ QueueOwned' /\ RLine'
  BY <1>0, <1>1, LineControl
<1>3. PICK id : id = IF seg[stateSegment].next # NoSeg THEN seg[stateSegment].next
                     ELSE stateSegment
  OBVIOUS
<1>4. PICK st \in Ids : st = stateSegment /\ Owned(st) /\ Settled(st)
  BY <1>0 DEF HeadOwned, HeadSettled, Owned
<1>5. Owned(id) /\ Settled(id)
  <2>1. CASE seg[st].next # NoSeg
    <3>1. id \in Ids /\ seg[id].prev = st /\ st # NoSeg
      BY <1>0, <1>3, <1>4, <2>1, KnownId, IdsBounded DEF RecordsKnown, SegmentsOrdered, Ids
    <3> QED BY <1>0, <3>1 DEF SegsOwned, Settled
  <2>2. CASE seg[st].next = NoSeg
    BY <1>3, <1>4, <2>2
  <2> QED BY <2>1, <2>2
<1>6. Owned(id)' /\ Settled(id)'
  BY <1>0, <1>2, <1>5 DEF OwnedStays, Settled, Including
<1>7. stateSegment' = id /\ s'.seg = id
  BY <1>3, <1>5 DEF FastForward, Owned
<1>8. HeadOwned' /\ HeadSettled'
  BY <1>6, <1>7 DEF HeadOwned, HeadSettled, Owned, Settled, Including
<1> QED BY <1>2, <1>8 DEF LineInv

\* The head moves to the block that was read (chain.go:663-696).
LEMMA SetHeadBlockLine == ASSUME Parts, LineInv, SetHeadBlock PROVE LineInv'
<1>0. /\ Data /\ UNCHANGED <<blk, seg, queue, p, r, seen>> /\ s.pc = "head" /\ s' = IdleS
      /\ HeadOwned /\ HeadSettled
  BY DEF Parts, SharedInv, SetHeadBlock, LineInv
<1>1. SameLine /\ \A id \in Ids : seg'[id].status = seg[id].status
  BY <1>0, SameLineOf
<1>2. Line' /\ PLine' /\ Arrivals' /\ OwnedStays /\ QueueOwned' /\ RLine'
  BY <1>0, <1>1, LineControl
<1>3. PICK id : id = stateSegment'
  OBVIOUS
<1>4. id # NoSeg => Owned(id) /\ Settled(id)
  BY <1>0, <1>3 DEF SetHeadBlock, HeadOwned, HeadSettled
<1>5. id # NoSeg => Owned(id)' /\ Settled(id)'
  BY <1>0, <1>2, <1>4 DEF OwnedStays, Settled, Including
<1>6. s'.pc = "idle"
  BY <1>0 DEF IdleS
<1>7. HeadOwned' /\ HeadSettled'
  BY <1>3, <1>5, <1>6 DEF HeadOwned, HeadSettled, Owned, Settled, Including
<1> QED BY <1>2, <1>7 DEF LineInv

\* What is in memory is lost, the database is kept (chain.go:137-216).
LEMMA RestartLine == ASSUME Parts, LineInv, Restart PROVE LineInv'
<1>0. /\ Data /\ UNCHANGED <<blk, seg, stateSegment, seen>> /\ queue' = <<>>
      /\ p' = IdleP /\ r' = IdleR /\ s' = IdleS /\ HeadOwned /\ HeadSettled
  BY DEF Parts, SharedInv, Restart, dbVars, LineInv
<1>1. SameLine /\ \A id \in Ids : seg'[id].status = seg[id].status
  BY <1>0, SameLineOf
<1>2. p'.pc = "idle" /\ r'.pc = "idle" /\ s'.pc = "idle" /\ ~ Including'
  BY <1>0 DEF IdleP, IdleR, IdleS, Including
<1>3. Line' /\ Arrivals' /\ OwnedStays
  BY <1>0, <1>1, <1>2, LineControl
<1>4. PLine' /\ RLine' /\ QueueOwned'
  BY <1>0, <1>2 DEF PLine, RLine, Appending, QueueOwned
<1>5. HeadOwned'
  <2>1. stateSegment # NoSeg => Owned(stateSegment)'
    BY <1>0, <1>3 DEF HeadOwned, OwnedStays
  <2> QED BY <1>0, <1>2, <2>1 DEF HeadOwned, Owned
<1>6. HeadSettled'
  <2>1. stateSegment # NoSeg => Settled(stateSegment)
    BY <1>0 DEF HeadSettled
  <2> QED BY <1>0, <1>2, <2>1 DEF HeadSettled, Settled, Including
<1> QED BY <1>3, <1>4, <1>5, <1>6 DEF LineInv

-----------------------------------------------------------------------------
(* The writes of a record.                                                 *)

\* The parent's record is written with the segment it has (segment.go:88-141).
LEMMA AppendParentLine == ASSUME Parts, LineInv, AppendParent PROVE LineInv'
<1>0. /\ Data /\ UNCHANGED <<seg, stateSegment, queue, r, s, seen>> /\ p.pc = "append parent"
      /\ PLine /\ Arrivals /\ PType
  BY DEF Parts, SharedInv, AppendParent, LineInv, PInv
<1>1. p'.pc = "append block" /\ p'.b = p.b /\ p'.parent = p.parent
  BY <1>0 DEF AppendParent, PType
<1>2. PICK x \in Blocks : x = Parent[p.b]
  BY <1>0, PFacts
<1>3. \A b \in Blocks : blk'[b].seg = blk[b].seg
  <2>1. blk[x].seg = p.parent.seg
    BY <1>0, <1>2 DEF PLine, Appending
  <2>2. blk' = [blk EXCEPT ![x] = [p.parent EXCEPT !.next = p.b]] /\ blk \in [Blocks -> BlockRecord]
    BY <1>0, <1>2 DEF AppendParent, Data
  <2>3. p.parent \in BlockRecord
    BY <1>0 DEF PType
  <2>4. [p.parent EXCEPT !.next = p.b].seg = p.parent.seg
    BY <2>3 DEF BlockRecord
  <2> QED BY <2>1, <2>2, <2>4
<1>4. SameLine /\ \A id \in Ids : seg'[id].status = seg[id].status
  BY <1>0, <1>3 DEF SameLine, Ids
<1>5. Line' /\ QueueOwned' /\ RLine' /\ HeadOwned' /\ HeadSettled'
  BY <1>0, <1>4, LineControl
<1>6. Arrivals'
  <2>1. \A b \in Blocks : Recorded(b)' => Recorded(b)
    BY <1>3 DEF Recorded
  <2> QED BY <1>0, <1>1, <2>1, ArrivalsStay
<1>7. PLine'
  BY <1>0, <1>1, <1>2, <1>3 DEF PLine, Appending
<1> QED BY <1>5, <1>6, <1>7 DEF LineInv

LEMMA NatOrder ==
    \A h, k \in Nat : h <= h /\ (h + 1 <= k => h # k)
OBVIOUS

\* The rewind loop works below the commit handler.
LEMMA RewindsBelow ==
    ASSUME Parts, LineInv, r.pc = "include block", p.pc # "idle"
    PROVE  Parent[r.b] # p.b
<1>1. Including
  BY DEF Including
<1>2. /\ r.b \in Blocks /\ Height[r.b] = Height[Parent[r.b]] + 1 /\ Height[Parent[r.b]] \in Nat
      /\ r.b = seg[r.seg].tail /\ r.seg # NoSeg
  BY <1>1, RFacts
<1>3. Recorded(r.b)
  BY <1>2 DEF LineInv, RLine, Owned, Recorded
<1>4. Height[r.b] <= Height[p.b]
  BY <1>2, <1>3 DEF LineInv, Arrivals
<1>5. PICK h \in Nat, k \in Nat : h = Height[Parent[r.b]] /\ k = Height[p.b]
  BY <1>2, PFacts
<1>6. h + 1 <= k
  BY <1>2, <1>4, <1>5
<1>7. h # k
  BY <1>6, NatOrder, Zenon
<1> QED BY <1>5, <1>7

\* The commit handler writes the record of a block it did not have.
LEMMA HandlerWrites ==
    ASSUME Parts, Parts', LineInv, p.pc \in {"append block", "new block"},
           NEW n \in Ids, n = p.parent.seg,
           blk' = [blk EXCEPT ![p.b] = [p.own EXCEPT !.seg = p.parent.seg]],
           UNCHANGED <<seg, stateSegment, r, s, seen>>,
           Owned(n) \/ (seg[n].head = p.b /\ seg[n].tail = p.b),
           \A c \in Blocks \ {p.b} :
               Height[seg[n].tail] <= Height[c] /\ Height[c] <= Height[p.b] => blk[c].seg = n,
           p.b \in Rejected => p.b = seg[n].tail,
           p'.pc \in {"idle", "append head"}, p'.pc = "append head" => p'.b = p.b
    PROVE  /\ Line' /\ OwnedStays /\ RecordsStay /\ Owned(n)' /\ RLine' /\ HeadOwned'
           /\ HeadSettled' /\ Arrivals' /\ blk'[p.b].seg = n
<1>0. /\ Data /\ Data' /\ RecordsKnown /\ Line /\ RLine /\ HeadOwned /\ HeadSettled
      /\ Arrivals /\ PType /\ p.pc # "idle"
  BY DEF Parts, SharedInv, LineInv, PInv
<1>1. PICK y \in Blocks : y = p.b /\ Height[y] \in Nat
  BY <1>0, PFacts
<1>2. blk'[y].seg = n /\ \A c \in Blocks \ {y} : blk'[c] = blk[c]
  <2>1. p.own \in BlockRecord /\ blk \in [Blocks -> BlockRecord]
    BY <1>0 DEF PType, Data
  <2>2. [p.own EXCEPT !.seg = p.parent.seg].seg = n
    BY <2>1 DEF BlockRecord
  <2> QED BY <1>1, <2>1, <2>2
<1>3. ~ Recorded(y)
  BY <1>0, <1>1 DEF Arrivals
<1>4. Line' /\ OwnedStays /\ RecordsStay /\ Owned(n)'
  BY <1>0, <1>1, <1>2, <1>3, LineGrows
<1>5. HeadOwned'
  BY <1>0, <1>4, HeadOwnedStays
<1>6. RLine'
  <2>1. ASSUME r.pc = "include block" PROVE ~ Recorded(Parent[r.b])'
    <3>1. Including
      BY <2>1 DEF Including
    <3>2. PICK x \in Blocks : x = Parent[r.b]
      BY <3>1, RFacts
    <3>3. x # y /\ ~ Recorded(x)
      BY <1>0, <1>1, <2>1, <3>2, RewindsBelow DEF RLine
    <3> QED BY <1>2, <3>2, <3>3 DEF Recorded
  <2> QED BY <1>0, <1>4, <2>1, RLineStays
<1>7. HeadSettled'
  <2>1. \A id \in Ids : Settled(id) => Settled(id)'
    BY DEF Settled, Including
  <2> QED BY <1>0, <2>1, SettledStays
<1>8. Arrivals'
  <2>1. \A c \in Blocks : Recorded(c)' => Recorded(c) \/ c = y
    BY <1>2 DEF Recorded
  <2>2. \A q \in Peers : Coming(q)' = Coming(q)
    BY DEF Coming
  <2>3. \A q \in Peers : \A i \in Coming(q) : Height[y] <= Height[Sent[q][i]]
    BY <1>0, <1>1 DEF Arrivals
  <2>4. \A c \in Blocks : Recorded(c)' =>
            \A q \in Peers : \A i \in Coming(q) : Height[c] <= Height[Sent[q][i]]
    BY <1>0, <2>1, <2>3 DEF Arrivals
  <2>5. \A c \in Blocks : Recorded(c)' => Height[c] <= Height[y]
    <3>1. \A c \in Blocks : Recorded(c) => Height[c] <= Height[y]
      BY <1>0, <1>1 DEF Arrivals
    <3>2. Height[y] <= Height[y]
      BY <1>1, NatOrder, Zenon
    <3> QED BY <2>1, <3>1, <3>2
  <2> QED BY <1>1, <2>2, <2>3, <2>4, <2>5 DEF Arrivals
<1> QED BY <1>1, <1>2, <1>4, <1>5, <1>6, <1>7, <1>8

\* A block joins the segment of its parent (segment.go:88-141).
LEMMA AppendOwnLine == ASSUME OneProposer, Parts, Parts', LineInv, AppendOwn PROVE LineInv'
<1>0. /\ Data /\ UNCHANGED <<seg, stateSegment, queue, r, s, seen>> /\ p.pc = "append block"
      /\ PLine /\ SegsOwned /\ Convex /\ PType /\ Appending
  BY DEF Parts, SharedInv, AppendOwn, LineInv, Line, PInv, Appending
<1>1. p'.pc = "append head" /\ p'.b = p.b /\ p'.parent = p.parent
  BY <1>0 DEF AppendOwn, PType
<1>2. PICK n \in Ids, x \in Blocks, y \in Blocks :
          /\ n = p.parent.seg /\ n # NoSeg /\ x = Parent[p.b] /\ y = p.b
          /\ Height[y] = Height[x] + 1 /\ Height[x] \in Nat
  BY <1>0, PFacts
<1>3. blk[x].seg = n /\ p.b \notin Rejected
  BY <1>0, <1>2 DEF PLine
<1>4. Owned(n)
  BY <1>0, <1>2, <1>3 DEF SegsOwned, Recorded
<1>5. ASSUME NEW c \in Blocks \ {y}, Height[seg[n].tail] <= Height[c], Height[c] <= Height[y]
      PROVE  blk[c].seg = n
  <2>1. Height[c] # Height[y] /\ Height[c] \in Nat
    BY <1>5, ChainSyncAssumption DEF OneProposer
  <2>2. Height[c] <= Height[x]
    BY <1>2, <1>5, <2>1
  <2> QED BY <1>0, <1>2, <1>3, <1>5, <2>2 DEF Convex, Recorded
<1>6. /\ Line' /\ OwnedStays /\ RecordsStay /\ RLine' /\ HeadOwned'
      /\ HeadSettled' /\ Arrivals' /\ blk'[p.b].seg = n
  <2>1. \A c \in Blocks \ {p.b} :
            Height[seg[n].tail] <= Height[c] /\ Height[c] <= Height[p.b] => blk[c].seg = n
    BY <1>2, <1>5
  <2>2. blk' = [blk EXCEPT ![p.b] = [p.own EXCEPT !.seg = p.parent.seg]]
    BY DEF AppendOwn
  <2> QED BY <1>0, <1>1, <1>2, <1>3, <1>4, <2>1, <2>2, HandlerWrites
<1>7. QueueOwned'
  BY <1>0, <1>6, QueueOwnedStays DEF LineInv
<1>8. PLine'
  <2>1. blk'[x].seg = n
    BY <1>2, <1>3, <1>6 DEF RecordsStay, Recorded
  <2> QED BY <1>1, <1>2, <1>3, <1>6, <2>1 DEF PLine
<1> QED BY <1>6, <1>7, <1>8 DEF LineInv

\* A block starts a segment (segment_store.go:100-129).
LEMMA QueueSegmentLine == ASSUME OneProposer, Parts, Parts', LineInv, QueueSegment PROVE LineInv'
<1>0. /\ Data /\ UNCHANGED <<seg, stateSegment, r, s, seen>> /\ p.pc = "new block"
      /\ PLine /\ PKnown /\ p' = IdleP
  BY DEF Parts, SharedInv, QueueSegment, LineInv, PInv
<1>1. p'.pc = "idle"
  BY <1>0 DEF IdleP
<1>2. PICK n \in Ids, y \in Blocks :
          n = p.parent.seg /\ y = p.b /\ seg[n].head = y /\ seg[n].tail = y
  BY <1>0, PFacts DEF PLine, PKnown
<1>3. ASSUME NEW c \in Blocks \ {y}, Height[seg[n].tail] <= Height[c], Height[c] <= Height[y]
      PROVE  blk[c].seg = n
  <2>1. Height[c] # Height[y] /\ Height[c] \in Nat /\ Height[y] \in Nat
    BY <1>3, ChainSyncAssumption DEF OneProposer
  <2> QED BY <1>2, <1>3, <2>1
<1>4. /\ Line' /\ OwnedStays /\ RLine' /\ HeadOwned' /\ Owned(n)'
      /\ HeadSettled' /\ Arrivals'
  <2>1. \A c \in Blocks \ {p.b} :
            Height[seg[n].tail] <= Height[c] /\ Height[c] <= Height[p.b] => blk[c].seg = n
    BY <1>2, <1>3
  <2>2. blk' = [blk EXCEPT ![p.b] = [p.own EXCEPT !.seg = p.parent.seg]]
    BY DEF QueueSegment
  <2> QED BY <1>0, <1>1, <1>2, <2>1, <2>2, HandlerWrites
<1>5. QueueOwned'
  <2>1. n \in Nat
    BY DEF Ids
  <2>2. queue' = Push(queue, n)
    BY <1>2 DEF QueueSegment
  <2> QED BY <1>4, <2>1, <2>2, PushOwned
<1>6. PLine'
  BY <1>1 DEF PLine, Appending
<1> QED BY <1>4, <1>5, <1>6 DEF LineInv

\* The block before the tail joins the segment (segment.go:198-218).
LEMMA IncludeBlockLine == ASSUME Parts, Parts', LineInv, IncludeBlock PROVE LineInv'
<1>0. /\ Data /\ Data' /\ UNCHANGED <<seg, stateSegment, queue, p, s, seen>>
      /\ r.pc = "include block" /\ Including /\ RType
      /\ RecordsKnown /\ Line /\ RLine /\ HeadOwned /\ HeadSettled /\ Arrivals /\ PLine
  BY DEF Parts, SharedInv, IncludeBlock, LineInv, Including, RInv
<1>1. r'.pc = "include tail" /\ r'.seg = r.seg /\ r'.b = r.b
  BY <1>0 DEF IncludeBlock, RType
<1>2. PICK n \in Ids, t \in Blocks \ {Genesis}, y \in Blocks :
          /\ n = r.seg /\ n # NoSeg /\ t = r.b /\ t = seg[n].tail /\ y = Parent[t]
          /\ Height[t] = Height[y] + 1 /\ Height[y] \in Nat
  BY <1>0, RFacts
<1>3. blk' = [blk EXCEPT ![y] = [seg |-> n, next |-> t]]
  BY <1>2 DEF IncludeBlock
<1>4. blk'[y].seg = n /\ \A c \in Blocks \ {y} : blk'[c] = blk[c]
  BY <1>0, <1>3 DEF Data
<1>5. ~ Recorded(y) /\ Owned(n)
  BY <1>0, <1>2 DEF RLine
<1>6. \A c \in Blocks : ~ (Height[seg[n].tail] <= Height[c] /\ Height[c] <= Height[y])
  <2> SUFFICES ASSUME NEW c \in Blocks
               PROVE  ~ (Height[t] <= Height[c] /\ Height[c] <= Height[y])
    BY <1>2
  <2>1. Height[c] \in Nat
    BY ChainSyncAssumption
  <2> QED BY <1>2, <2>1
<1>7. Line' /\ OwnedStays /\ RecordsStay /\ Owned(n)'
  <2>1. \A c \in Blocks \ {y} :
            Height[seg[n].tail] <= Height[c] /\ Height[c] <= Height[y] => blk[c].seg = n
    BY <1>6
  <2>2. \A c \in Blocks \ {y} : blk'[c].seg = blk[c].seg
    BY <1>4
  <2>3. seg[n].tail # Genesis /\ y = Parent[seg[n].tail]
    BY <1>2
  <2> QED BY <1>0, <1>4, <1>5, <2>1, <2>2, <2>3, LineGrows
<1>8. HeadOwned' /\ QueueOwned'
  BY <1>0, <1>7, HeadOwnedStays, QueueOwnedStays DEF LineInv
<1>9. PLine'
  BY <1>0, <1>7, PLineStays
<1>10. RLine'
  BY <1>1, <1>2, <1>4, <1>7 DEF RLine, Owned
<1>11. HeadSettled'
  <2>1. \A id \in Ids : Settled(id) => Settled(id)'
    BY <1>0, <1>1 DEF Settled, Including
  <2> QED BY <1>0, <2>1, SettledStays
<1>12. Arrivals'
  <2>1. Recorded(t)
    BY <1>2, <1>5 DEF Owned, Recorded
  <2>2. \A c \in Blocks : Recorded(c)' => Recorded(c) \/ c = y
    BY <1>4 DEF Recorded
  <2>3. \A q \in Peers : Coming(q)' = Coming(q)
    BY <1>0 DEF Coming
  <2>4. \A q \in Peers : \A i \in Coming(q) : Height[y] <= Height[Sent[q][i]]
    <3> SUFFICES ASSUME NEW q \in Peers, NEW i \in Coming(q)
                 PROVE  Height[y] <= Height[Sent[q][i]]
      OBVIOUS
    <3>1. Height[t] <= Height[Sent[q][i]]
      BY <1>0, <2>1 DEF Arrivals
    <3>2. Height[Sent[q][i]] \in Nat
      BY ChainSyncAssumption DEF Coming
    <3> QED BY <1>2, <3>1, <3>2
  <2>5. p.pc # "idle" => Height[y] <= Height[p.b] /\ y # p.b
    <3> SUFFICES ASSUME p.pc # "idle" PROVE Height[y] <= Height[p.b] /\ y # p.b
      OBVIOUS
    <3>1. Height[t] <= Height[p.b] /\ Height[p.b] \in Nat
      BY <1>0, <2>1, PFacts DEF Arrivals
    <3> QED BY <1>2, <3>1
  <2>6. \A c \in Blocks : Recorded(c)' =>
            \A q \in Peers : \A i \in Coming(q) : Height[c] <= Height[Sent[q][i]]
    BY <1>0, <2>2, <2>4 DEF Arrivals
  <2>7. \A c \in Blocks : Recorded(c)' =>
            /\ p.pc # "idle" => Height[c] <= Height[p.b]
            /\ p.pc \notin {"idle", "append head"} => c # p.b
    BY <1>0, <2>2, <2>5 DEF Arrivals
  <2>8. p.pc # "idle" => \A q \in Peers : \A i \in Coming(q) : Height[p.b] <= Height[Sent[q][i]]
    BY <1>0 DEF Arrivals
  <2> QED BY <1>0, <2>3, <2>6, <2>7, <2>8 DEF Arrivals
<1> QED BY <1>7, <1>8, <1>9, <1>10, <1>11, <1>12 DEF LineInv

-----------------------------------------------------------------------------
(* The writes of a segment.                                                *)

\* On a line, what is not below a block and is not the block is not below its child.
LEMMA HigherUp ==
    ASSUME OneProposer, NEW t \in Blocks \ {Genesis}, NEW c \in Blocks,
           Height[Parent[t]] <= Height[c], c # Parent[t]
    PROVE  Height[t] <= Height[c]
<1>1. /\ Parent[t] \in Blocks /\ Height[t] = Height[Parent[t]] + 1
      /\ Height[Parent[t]] \in Nat /\ Height[c] \in Nat
  BY ParentFacts, ChainSyncAssumption
<1>2. Height[c] # Height[Parent[t]]
  BY <1>1 DEF OneProposer
<1> QED BY <1>1, <1>2

\* The block that is appended is above the head.
LEMMA HeadBelow ==
    ASSUME Parts, Appending
    PROVE  LET h == seg[p.parent.seg].head
           IN  /\ p.b \in Blocks /\ Height[p.b] \in Nat /\ Height[h] \in Nat
               /\ Height[h] + 1 <= Height[p.b]
<1>1. /\ p.b \in Blocks /\ Height[p.b] \in Nat /\ Height[Parent[p.b]] \in Nat
      /\ Height[p.b] = Height[Parent[p.b]] + 1 /\ p.parent.seg \in Ids
  BY PFacts
<1>2. Height[Parent[p.b]] >= Height[seg[p.parent.seg].head]
  BY DEF Parts, PInv, AppendsAtEnd, Appending
<1>3. Height[seg[p.parent.seg].head] \in Nat
  BY <1>1, SegFacts DEF Parts, SharedInv
<1> QED BY <1>1, <1>2, <1>3

\* The head goes up.  A segment that another one follows has no block left to
\* go up to (segment.go:120-141).
LEMMA HeadLine ==
    ASSUME Parts, LineInv, p.pc = "append head", NEW id \in Ids, NEW sg \in Segment,
           id = p.parent.seg, Replaced(id, sg), sg.head = p.b, sg.tail = seg[id].tail,
           sg.prev = seg[id].prev, seg[id].status = "INVALID" => sg.status = "INVALID"
    PROVE  Line' /\ OwnedStays /\ RecordsStay
<1>0. /\ Data /\ RecordsKnown /\ SegsOwned /\ Convex /\ LinksCross /\ Clean /\ PLine
      /\ SegmentsOrdered /\ AppendsAtEnd /\ Appending /\ id # NoSeg
  BY IdsBounded DEF Parts, SharedInv, LineInv, Line, PInv, Appending
<1>1. PICK b \in Blocks : /\ b = p.b /\ blk[b].seg = id
                          /\ Height[b] \in Nat /\ Height[seg[id].head] \in Nat
                          /\ Height[seg[id].head] + 1 <= Height[b]
  <2>1. blk[p.b].seg = id
    BY DEF LineInv, PLine
  <2>2. /\ p.b \in Blocks /\ Height[p.b] \in Nat /\ Height[seg[id].head] \in Nat
        /\ Height[seg[id].head] + 1 <= Height[p.b]
    BY <1>0, HeadBelow
  <2> QED BY <2>1, <2>2
<1>2. /\ blk' = blk /\ Ids' = Ids /\ seg'[id] = sg /\ \A i \in Ids \ {id} : seg'[i] = seg[i]
      /\ \A i \in Ids : seg'[i].tail = seg[i].tail /\ seg'[i].prev = seg[i].prev
      /\ \A i \in Ids : seg[i].status = "INVALID" => seg'[i].status = "INVALID"
  BY DEF Replaced, Ids
<1>3. /\ \A c \in Blocks : Recorded(c) => blk[c].seg \in Ids
      /\ \A i \in Ids : seg[i].head \in Blocks /\ seg[i].tail \in Blocks
      /\ \A i \in Ids : seg[i].prev # NoSeg => seg[i].prev \in Ids
  BY <1>0, SegFacts, KnownId DEF RecordsKnown, Recorded
<1>4. OwnedStays
  BY <1>1, <1>2 DEF OwnedStays, Owned
<1>5. RecordsStay
  BY <1>2 DEF RecordsStay
<1>6. SegsOwned'
  <2>1. ASSUME NEW c \in Blocks, Recorded(c)' PROVE Owned(blk[c].seg)'
    <3>1. PICK i : i = blk[c].seg
      OBVIOUS
    <3>2. Owned(i)'
      BY <1>0, <1>2, <1>4, <2>1, <3>1 DEF SegsOwned, OwnedStays, Recorded
    <3> QED BY <1>2, <3>1, <3>2 DEF Owned
  <2>2. ASSUME NEW i \in Ids', seg'[i].prev # NoSeg PROVE Owned(i)'
    BY <1>0, <1>2, <1>4, <2>2 DEF SegsOwned, OwnedStays
  <2> QED BY <2>1, <2>2 DEF SegsOwned
<1>7. Convex'
  <2>1. \A c \in Blocks : Recorded(c)' => Recorded(c) /\ seg'[blk'[c].seg].tail = seg[blk[c].seg].tail
    BY <1>2, <1>3 DEF Recorded
  <2> QED BY <1>0, <1>2, <2>1 DEF Convex
<1>8. LinksCross'
  <2> SUFFICES ASSUME NEW j \in Ids, seg[j].prev # NoSeg
               PROVE  Parent[seg[j].tail] = seg'[seg[j].prev].head
    BY <1>2 DEF LinksCross
  <2>1. Parent[seg[j].tail] = seg[seg[j].prev].head
    BY <1>0 DEF LinksCross
  <2>2. seg[j].prev # id
    <3> SUFFICES ASSUME seg[j].prev = id PROVE FALSE
      OBVIOUS
    <3>1. /\ Descends(seg[id].tail, seg[j].tail) /\ seg[id].tail # seg[j].tail
      BY <1>0 DEF SegmentsOrdered, Ids
    <3>2. PICK t \in Blocks, u \in Blocks : t = seg[j].tail /\ u = seg[id].tail
      BY <1>3
    <3>3. t # Genesis
      BY <1>0, <3>2 DEF Parts, SharedInv, LinksStable, Ids
    <3>4. Height[t] = Height[seg[id].head] + 1
      <4>1. Parent[t] = seg[id].head /\ t \in Blocks \ {Genesis}
        BY <2>1, <3>2, <3>3
      <4>2. Height[t] = Height[Parent[t]] + 1
        BY <4>1, ParentFacts, Zenon
      <4> QED BY <4>1, <4>2, Zenon
    <3>5. Height[u] <= Height[t] /\ Height[t] <= Height[b]
      <4>1. Height[u] <= Height[t]
        BY <3>1, <3>2, DescendsHeight
      <4>2. Height[t] <= Height[b]
        BY <1>1, <3>4, Zenon
      <4> QED BY <4>1, <4>2
    <3>6. blk[t].seg = id
      BY <1>0, <1>1, <3>2, <3>5 DEF Convex, Recorded
    <3>7. blk[t].seg = j
      BY <1>0, <3>2 DEF SegsOwned, Owned
    <3> QED BY <3>1, <3>6, <3>7
  <2> QED BY <1>2, <1>3, <2>1, <2>2
<1>9. Clean'
  <2>1. ASSUME NEW c \in Blocks \cap Rejected, Recorded(c)
        PROVE  (\/ c = seg[blk[c].seg].tail
                \/ seg[blk[c].seg].tail # Genesis /\ c = Parent[seg[blk[c].seg].tail]
                \/ Foul(blk[c].seg))'
    <3>1. PICK i \in Ids : i = blk[c].seg
      BY <1>3, <2>1
    <3>2. c = seg[i].tail \/ (seg[i].tail # Genesis /\ c = Parent[seg[i].tail]) \/ Foul(i)
      BY <1>0, <2>1, <3>1 DEF Clean
    <3> QED BY <1>2, <3>1, <3>2 DEF Foul
  <2> QED BY <1>0, <1>2, <2>1 DEF Clean, Recorded
<1> QED BY <1>4, <1>5, <1>6, <1>7, <1>8, <1>9 DEF Line

LEMMA AppendHeadLine == ASSUME Parts, Parts', LineInv, AppendHead PROVE LineInv'
<1>0. /\ Data /\ UNCHANGED <<blk, stateSegment, queue, r, s, seen>> /\ p.pc = "append head"
      /\ Appending /\ p' = IdleP /\ HeadOwned /\ QueueOwned /\ RLine /\ HeadSettled /\ Arrivals
  BY DEF Parts, SharedInv, AppendHead, LineInv, Appending
<1>1. PICK id \in Ids, b \in Blocks : id = p.parent.seg /\ b = p.b
  BY <1>0, PFacts
<1>2. seg[id] \in Segment
  BY <1>0, SegFacts
<1>3. PICK sg \in Segment : /\ seg' = [seg EXCEPT ![id] = sg]
                            /\ sg.head = b /\ sg.tail = seg[id].tail /\ sg.prev = seg[id].prev
                            /\ sg.status = seg[id].status
                               \/ (sg.status = "VALID" /\ seg[id].status # "INVALID")
  <2>1. PICK status \in {"DISJOINTED", "VALID", "INVALID"} :
            /\ seg' = [seg EXCEPT ![id] = [seg[id] EXCEPT !.head = b, !.status = status]]
            /\ status = seg[id].status \/ (status = "VALID" /\ seg[id].status # "INVALID")
    <3>1. seg[id].status \in {"DISJOINTED", "VALID", "INVALID"}
      BY <1>2 DEF Segment
    <3> QED BY <1>1, <3>1 DEF AppendHead
  <2>2. [seg[id] EXCEPT !.head = b, !.status = status] \in Segment
    BY <1>2 DEF Segment
  <2> QED BY <1>2, <2>1, <2>2 DEF Segment
<1>4. Replaced(id, sg) /\ Ids' = Ids
  BY <1>0, <1>3, SegReplaced
<1>5. Line' /\ OwnedStays /\ RecordsStay
  BY <1>0, <1>1, <1>3, <1>4, HeadLine
<1>6. HeadOwned' /\ QueueOwned'
  BY <1>0, <1>5, HeadOwnedStays, QueueOwnedStays
<1>7. \A i \in Ids : /\ seg'[i].tail = seg[i].tail /\ seg'[i].prev = seg[i].prev
                     /\ seg'[i].status = seg[i].status \/ seg'[i].status = "VALID"
  BY <1>3, <1>4 DEF Replaced
<1>8. RLine'
  <2>1. r.pc = "include block" => ~ Recorded(Parent[r.b])'
    BY <1>0 DEF RLine, Recorded
  <2>2. r.pc # "idle" => seg'[r.seg].status = seg[r.seg].status \/ seg'[r.seg].status = "VALID"
    BY <1>0, <1>7 DEF RLine, Owned
  <2> QED BY <1>0, <1>5, <2>1, <2>2, RLineStays
<1>9. HeadSettled'
  <2>1. Including' => Including /\ r'.seg = r.seg
    BY <1>0 DEF Including
  <2>2. \A i \in Ids : Settled(i) => Settled(i)'
    BY <1>7, <2>1, SettledKept
  <2> QED BY <1>0, <2>2, SettledStays
<1>10. p'.pc = "idle"
  BY <1>0 DEF IdleP
<1>11. Arrivals' /\ PLine'
  <2>1. \A c \in Blocks : Recorded(c)' => Recorded(c)
    BY <1>0 DEF Recorded
  <2>2. Arrivals'
    BY <1>0, <1>10, <2>1, ArrivalsStay
  <2> QED BY <1>10, <2>2 DEF PLine, Appending
<1> QED BY <1>5, <1>6, <1>8, <1>9, <1>11 DEF LineInv

\* The tail goes down to a block that is in the segment.  If the old tail is
\* invalid the segment is marked (segment.go:219-267).
Bad(sg) == sg.status = "INVALID"

LEMMA TailDown ==
    ASSUME OneProposer, Data, RecordsKnown, Line, NEW id \in Ids, NEW sg \in Segment,
           NEW t \in Blocks \ {Genesis}, NEW y \in Blocks, y = Parent[t], t = seg[id].tail,
           id # NoSeg, blk[y].seg = id, seg[id].prev = NoSeg,
           Replaced(id, sg), sg.head = seg[id].head, sg.tail = y, sg.prev = NoSeg,
           t \in Rejected \/ Bad(seg[id]) => Bad(sg)
    PROVE  Line' /\ OwnedStays /\ RecordsStay
<1>0. SegsOwned /\ Convex /\ LinksCross /\ Clean /\ blk' = blk
  BY DEF Line, Replaced
<1>4. /\ Ids' = Ids /\ seg'[id] = sg /\ \A i \in Ids \ {id} : seg'[i] = seg[i]
      /\ \A i \in Ids : seg'[i].head = seg[i].head /\ seg'[i].prev = seg[i].prev
  BY DEF Replaced, Ids
<1>5. /\ \A c \in Blocks : Recorded(c) => blk[c].seg \in Ids
      /\ \A i \in Ids : seg[i].prev # NoSeg => seg[i].prev \in Ids
  BY <1>0, KnownId DEF RecordsKnown, Recorded
<1>6. OwnedStays /\ RecordsStay
  BY <1>0, <1>4 DEF OwnedStays, Owned, RecordsStay
<1>7. SegsOwned'
  <2>1. ASSUME NEW c \in Blocks, Recorded(c)' PROVE Owned(blk[c].seg)'
    <3>1. PICK i : i = blk[c].seg /\ i = blk'[c].seg
      BY <1>0
    <3>2. Owned(i)'
      BY <1>0, <1>6, <2>1, <3>1 DEF SegsOwned, OwnedStays, Recorded
    <3> QED BY <3>1, <3>2 DEF Owned
  <2>2. ASSUME NEW i \in Ids', seg'[i].prev # NoSeg PROVE Owned(i)'
    BY <1>0, <1>4, <1>6, <2>2 DEF SegsOwned, OwnedStays
  <2> QED BY <2>1, <2>2 DEF SegsOwned
<1>8. Convex'
  <2> SUFFICES ASSUME NEW b \in Blocks, Recorded(b), NEW c \in Blocks,
                      Height[seg'[blk[b].seg].tail] <= Height[c], Height[c] <= Height[b]
               PROVE  blk[c].seg = blk[b].seg
    BY <1>0 DEF Convex, Recorded
  <2>1. CASE blk[b].seg # id
    BY <1>0, <1>4, <1>5, <2>1 DEF Convex
  <2>2. CASE blk[b].seg = id
    <3>1. Height[y] <= Height[c]
      BY <1>4, <2>2
    <3>2. CASE c = y
      BY <2>2, <3>2
    <3>3. CASE c # y
      <4>1. Height[t] <= Height[c]
        BY <3>1, <3>3, HigherUp
      <4> QED BY <1>0, <2>2, <4>1 DEF Convex
    <3> QED BY <3>2, <3>3
  <2> QED BY <2>1, <2>2
<1>9. LinksCross'
  <2> SUFFICES ASSUME NEW j \in Ids, seg[j].prev # NoSeg
               PROVE  Parent[seg'[j].tail] = seg'[seg[j].prev].head
    BY <1>0, <1>4 DEF LinksCross
  <2>1. j # id
    OBVIOUS
  <2> QED BY <1>0, <1>4, <1>5, <2>1 DEF LinksCross
<1>10. Clean'
  <2>1. ASSUME NEW c \in Blocks \cap Rejected, Recorded(c)
        PROVE  (\/ c = seg[blk[c].seg].tail
                \/ seg[blk[c].seg].tail # Genesis /\ c = Parent[seg[blk[c].seg].tail]
                \/ Foul(blk[c].seg))'
    <3>1. PICK i \in Ids : i = blk[c].seg
      BY <1>5, <2>1
    <3>2. c = seg[i].tail \/ (seg[i].tail # Genesis /\ c = Parent[seg[i].tail]) \/ Foul(i)
      BY <1>0, <2>1, <3>1 DEF Clean
    <3>3. CASE i # id
      BY <1>0, <1>4, <3>1, <3>2, <3>3 DEF Foul
    <3>4. CASE i = id /\ (c = t \/ Foul(id))
      <4>1. Bad(sg)
        BY <2>1, <3>4 DEF Foul, Bad
      <4> QED BY <1>0, <1>4, <3>1, <3>4, <4>1 DEF Foul, Bad
    <3>5. CASE i = id /\ c = y
      BY <1>0, <1>4, <3>1, <3>5
    <3> QED BY <3>2, <3>3, <3>4, <3>5
  <2>2. ASSUME NEW i \in Ids', seg'[i].prev # NoSeg PROVE seg'[i].tail \notin Rejected
    <3>1. i \in Ids /\ i # id
      BY <1>4, <2>2
    <3> QED BY <1>0, <1>4, <2>2, <3>1 DEF Clean
  <2>3. \A c \in Blocks : Recorded(c)' => Recorded(c)
    BY <1>0 DEF Recorded
  <2> QED BY <2>1, <2>2, <2>3 DEF Clean
<1> QED BY <1>6, <1>7, <1>8, <1>9, <1>10 DEF Line

LEMMA TailLine ==
    ASSUME OneProposer, Parts, LineInv, r.pc = "include tail", NEW sg \in Segment,
           Replaced(r.seg, sg), sg.head = seg[r.seg].head, sg.tail = Parent[r.b],
           sg.prev = seg[r.seg].prev,
           r.b \in Rejected \/ Bad(seg[r.seg]) => Bad(sg),
           r'.pc = "rewound", r'.seg = r.seg,
           UNCHANGED <<stateSegment, queue, p, s, seen>>
    PROVE  LineInv'
<1>0. /\ Data /\ RecordsKnown /\ Line /\ PLine /\ RLine /\ HeadOwned /\ QueueOwned
      /\ HeadSettled /\ Arrivals /\ Including /\ blk' = blk
  BY DEF Parts, SharedInv, LineInv, Including, Replaced
<1>1. PICK id \in Ids, t \in Blocks \ {Genesis}, y \in Blocks :
          /\ id = r.seg /\ id # NoSeg /\ t = r.b /\ t = seg[id].tail /\ y = Parent[t]
          /\ seg[id].prev = NoSeg
  BY <1>0, RFacts
<1>2. blk[y].seg = id /\ Owned(id)
  BY <1>0, <1>1 DEF RLine
<1>3. /\ Replaced(id, sg) /\ sg.head = seg[id].head /\ sg.tail = y /\ sg.prev = NoSeg
      /\ t \in Rejected \/ Bad(seg[id]) => Bad(sg)
  BY <1>1
<1>4. Ids' = Ids /\ \A i \in Ids \ {id} : seg'[i] = seg[i]
  BY <1>3 DEF Replaced, Ids
<1>6. Line' /\ OwnedStays /\ RecordsStay
  BY <1>0, <1>1, <1>2, <1>3, TailDown
<1>11. HeadOwned' /\ QueueOwned'
  BY <1>0, <1>6, HeadOwnedStays, QueueOwnedStays
<1>12. PLine'
  <2>1. p.pc = "new block" => seg'[p.parent.seg].tail = seg[p.parent.seg].tail
    <3> SUFFICES ASSUME p.pc = "new block" PROVE seg'[p.parent.seg] = seg[p.parent.seg]
      OBVIOUS
    <3>1. p.parent.seg \in Ids /\ seg[p.parent.seg].head = p.b /\ p.b \in Blocks
      BY PFacts DEF Parts, PInv, PKnown
    <3>2. ~ Recorded(p.b)
      BY <1>0, <3>1 DEF Arrivals
    <3>3. p.parent.seg # id
      BY <1>1, <1>2, <3>1, <3>2 DEF Owned, Recorded
    <3> QED BY <1>4, <3>1, <3>3
  <2> QED BY <1>0, <1>6, <2>1, PLineStays
<1>13. r'.pc = "rewound" /\ r'.seg = id
  BY <1>1
<1>14. RLine'
  <2>1. Owned(id)'
    BY <1>2, <1>6 DEF OwnedStays
  <2>2. Owned(r.seg)'
    BY <1>13, <2>1 DEF Owned
  <2> QED BY <1>13, <2>2 DEF RLine
<1>15. HeadSettled'
  <2>1. ~ Settled(id)
    BY <1>0, <1>1 DEF Settled
  <2>2. \A i \in Ids : Settled(i) => Settled(i)'
    BY <1>4, <1>13, <2>1 DEF Settled, Including
  <2> QED BY <1>0, <2>2, SettledStays
<1>16. Arrivals'
  <2>1. \A c \in Blocks : Recorded(c)' => Recorded(c)
    BY <1>0 DEF Recorded
  <2> QED BY <1>0, <2>1, ArrivalsStay
<1> QED BY <1>6, <1>11, <1>12, <1>14, <1>15, <1>16 DEF LineInv

LEMMA TailWriteLine ==
    ASSUME OneProposer, Parts, LineInv, r.pc = "include tail",
           NEW status \in {"DISJOINTED", "VALID", "INVALID"},
           seg' = [seg EXCEPT ![r.seg] = [@ EXCEPT !.tail = Parent[r.b], !.status = status]],
           r.b \in Rejected \/ seg[r.seg].status = "INVALID" => status = "INVALID",
           r' = [r EXCEPT !.pc = "rewound"],
           UNCHANGED <<blk, stateSegment, queue, p, s, seen>>
    PROVE  LineInv'
<1>1. PICK id \in Ids, t \in Blocks, y \in Blocks : id = r.seg /\ t = r.b /\ y = Parent[t]
  BY RFacts DEF Including
<1>2. seg[id] \in Segment /\ Data /\ RType
  BY SegFacts DEF Parts, SharedInv, RInv
<1>3. /\ seg' = [seg EXCEPT ![id] = [seg[id] EXCEPT !.tail = y, !.status = status]]
      /\ t \in Rejected \/ seg[id].status = "INVALID" => status = "INVALID"
  BY <1>1
<1>4. PICK sg : sg = [seg[id] EXCEPT !.tail = y, !.status = status]
  OBVIOUS
<1>7. /\ sg \in Segment /\ sg.head = seg[id].head /\ sg.tail = y
      /\ sg.prev = seg[id].prev /\ sg.status = status
  <2>1. PICK old \in Segment : old = seg[id]
    BY <1>2
  <2>2. sg = [old EXCEPT !.tail = y, !.status = status]
    BY <1>4, <2>1
  <2>3. /\ sg \in Segment /\ sg.head = old.head /\ sg.tail = y
        /\ sg.prev = old.prev /\ sg.status = status
    BY <2>2 DEF Segment
  <2> QED BY <2>1, <2>3
<1>5. Replaced(id, sg)
  BY <1>2, <1>3, <1>4, <1>7, SegReplaced
<1>6. r'.pc = "rewound" /\ r'.seg = r.seg
  BY <1>2 DEF RType
<1> QED BY <1>1, <1>3, <1>5, <1>6, <1>7, TailLine DEF Bad

LEMMA IncludeTailLine == ASSUME OneProposer, Parts, LineInv, IncludeTail PROVE LineInv'
<1>0. /\ UNCHANGED <<blk, stateSegment, queue, p, s, seen>> /\ r.pc = "include tail"
      /\ r' = [r EXCEPT !.pc = "rewound"]
  BY DEF IncludeTail
<1>1. seg[r.seg].status \in {"DISJOINTED", "VALID", "INVALID"}
  <2>1. r.seg \in Ids
    BY <1>0, RFacts
  <2>2. seg[r.seg] \in Segment
    BY <2>1, SegFacts DEF Parts, SharedInv
  <2> QED BY <2>2 DEF Segment
<1>2. PICK status \in {"DISJOINTED", "VALID", "INVALID"} :
          /\ seg' = [seg EXCEPT ![r.seg] = [@ EXCEPT !.tail = Parent[r.b], !.status = status]]
          /\ r.b \in Rejected \/ seg[r.seg].status = "INVALID" => status = "INVALID"
  BY <1>1 DEF IncludeTail, ValidateChild
<1> QED BY <1>0, <1>2, TailWriteLine

\* A segment that could not be linked is marked (segment.go:293-302).
LEMMA MarkInvalidLine ==
    ASSUME Parts, LineInv, r.pc = "append segment", seg[r.seg].status = "DISJOINTED",
           seg' = [seg EXCEPT ![r.seg].status = "INVALID"], r' = [r EXCEPT !.pc = "rewound"],
           UNCHANGED <<blk, stateSegment, queue, p, s, seen>>
    PROVE  LineInv'
<1>0. /\ Data /\ RecordsKnown /\ Line /\ RLine /\ HeadOwned /\ QueueOwned /\ HeadSettled
      /\ Arrivals /\ PLine /\ RType
  BY DEF Parts, SharedInv, LineInv, RInv
<1>1. PICK id \in Ids : id = r.seg /\ Owned(id) /\ seg[id].tail # Genesis
  BY <1>0, RFacts DEF RLine
<1>2. /\ SameLine /\ \A j \in Ids \ {id} : seg'[j].status = seg[j].status
  BY <1>0, <1>1, StatusLine
<1>3. Line' /\ OwnedStays /\ RecordsStay
  BY <1>0, <1>2, LineStays
<1>4. HeadOwned' /\ QueueOwned'
  BY <1>0, <1>3, HeadOwnedStays, QueueOwnedStays
<1>5. PLine'
  <2>1. p.pc = "new block" => seg'[p.parent.seg].tail = seg[p.parent.seg].tail
    BY <1>2, PFacts DEF SameLine
  <2> QED BY <1>0, <1>3, <2>1, PLineStays
<1>6. r'.pc = "rewound" /\ r'.seg = id
  BY <1>0, <1>1 DEF RType
<1>7. RLine'
  <2>1. Owned(id)'
    BY <1>1, <1>3 DEF OwnedStays
  <2>2. Owned(r.seg)'
    BY <1>6, <2>1 DEF Owned
  <2> QED BY <1>6, <2>2 DEF RLine
<1>8. HeadSettled'
  <2>1. ASSUME NEW j \in Ids, Settled(j) PROVE Settled(j)'
    <3>1. CASE j = id
      <4>1. seg[id].prev # NoSeg
        BY <1>1, <2>1, <3>1 DEF Settled
      <4> QED BY <1>2, <3>1, <4>1 DEF Settled, SameLine
    <3>2. CASE j # id
      BY <1>2, <1>6, <2>1, <3>2 DEF Settled, Including, SameLine
    <3> QED BY <3>1, <3>2
  <2> QED BY <1>0, <2>1, SettledStays
<1>9. Arrivals'
  <2>1. \A c \in Blocks : Recorded(c)' => Recorded(c)
    BY DEF Recorded
  <2> QED BY <1>0, <2>1, ArrivalsStay
<1> QED BY <1>3, <1>4, <1>5, <1>7, <1>8, <1>9 DEF LineInv

LEMMA ValidationFailsLine == ASSUME OneProposer, Parts, LineInv, ValidationFails PROVE LineInv'
<1>0. /\ UNCHANGED <<blk, stateSegment, queue, p, s, seen>> /\ r' = [r EXCEPT !.pc = "rewound"]
  BY DEF ValidationFails
<1>1. CASE /\ r.pc = "include tail"
           /\ seg' = [seg EXCEPT ![r.seg] = [@ EXCEPT !.tail = Parent[r.b], !.status = "INVALID"]]
  BY <1>0, <1>1, TailWriteLine
<1>2. CASE /\ r.pc = "append segment" /\ seg[r.seg].status = "DISJOINTED"
           /\ seg' = [seg EXCEPT ![r.seg].status = "INVALID"]
  BY <1>0, <1>2, MarkInvalidLine
<1> QED BY <1>1, <1>2 DEF ValidationFails

\* A segment is linked to the one that its tail's parent is the head of.
LEMMA LinkCrosses ==
    ASSUME OneProposer, Data, RecordsKnown, Line, NEW id \in Ids, NEW j \in Ids, NEW sg \in Segment,
           NEW t \in Blocks \ {Genesis}, t = seg[id].tail, t \notin Rejected, j # NoSeg, Owned(id),
           Height[t] = Height[seg[j].head] + 1, ~ Bad(seg[id]),
           Replaced(id, sg), sg.head = seg[id].head, sg.tail = t, sg.prev = j
    PROVE  Line' /\ OwnedStays /\ RecordsStay
<1>0. SegsOwned /\ Convex /\ LinksCross /\ Clean /\ blk' = blk
  BY DEF Line, Replaced
<1>1. /\ Ids' = Ids /\ seg'[id] = sg /\ \A i \in Ids \ {id} : seg'[i] = seg[i]
      /\ \A i \in Ids : seg'[i].head = seg[i].head /\ seg'[i].tail = seg[i].tail
  BY DEF Replaced, Ids
<1>2. /\ \A c \in Blocks : Recorded(c) => blk[c].seg \in Ids
      /\ \A i \in Ids : seg[i].prev # NoSeg => seg[i].prev \in Ids
      /\ \A i \in Ids : seg[i].head \in Blocks
  BY SegFacts, KnownId DEF RecordsKnown, Recorded
<1>3. OwnedStays /\ RecordsStay
  BY <1>0, <1>1 DEF OwnedStays, Owned, RecordsStay
<1>4. SegsOwned'
  <2>1. ASSUME NEW c \in Blocks, Recorded(c)' PROVE Owned(blk[c].seg)'
    <3>1. PICK i : i = blk[c].seg /\ i = blk'[c].seg
      BY <1>0
    <3>2. Owned(i)'
      BY <1>0, <1>3, <2>1, <3>1 DEF SegsOwned, OwnedStays, Recorded
    <3> QED BY <3>1, <3>2 DEF Owned
  <2>2. ASSUME NEW i \in Ids', seg'[i].prev # NoSeg PROVE Owned(i)'
    <3>1. Owned(i)
      BY <1>0, <1>1, <2>2 DEF SegsOwned
    <3> QED BY <1>3, <3>1 DEF OwnedStays
  <2> QED BY <2>1, <2>2 DEF SegsOwned
<1>5. Convex'
  <2>1. \A c \in Blocks : Recorded(c)' => Recorded(c) /\ seg'[blk'[c].seg].tail = seg[blk[c].seg].tail
    BY <1>0, <1>1, <1>2 DEF Recorded
  <2> QED BY <1>0, <2>1 DEF Convex
<1>6. LinksCross'
  <2>1. Parent[t] = seg[j].head
    <3>1. PICK y \in Blocks, h \in Blocks : y = Parent[t] /\ h = seg[j].head
      BY <1>2, ParentFacts
    <3>2. Height[t] = Height[y] + 1 /\ Height[y] \in Nat /\ Height[h] \in Nat
      BY <3>1, ParentFacts, ChainSyncAssumption
    <3>3. Height[y] = Height[h]
      BY <3>1, <3>2
    <3> QED BY <3>1, <3>3 DEF OneProposer
  <2>2. ASSUME NEW i \in Ids', seg'[i].prev # NoSeg
        PROVE  Parent[seg'[i].tail] = seg'[seg'[i].prev].head
    <3>1. CASE i = id
      BY <1>1, <2>1, <3>1
    <3>2. CASE i # id
      BY <1>0, <1>1, <1>2, <2>2, <3>2 DEF LinksCross
    <3> QED BY <3>1, <3>2
  <2> QED BY <2>2 DEF LinksCross
<1>7. Clean'
  <2>1. ASSUME NEW c \in Blocks \cap Rejected, Recorded(c)
        PROVE  (\/ c = seg[blk[c].seg].tail
                \/ seg[blk[c].seg].tail # Genesis /\ c = Parent[seg[blk[c].seg].tail]
                \/ Foul(blk[c].seg))'
    <3>1. PICK i \in Ids : i = blk[c].seg
      BY <1>2, <2>1
    <3>2. c = seg[i].tail \/ (seg[i].tail # Genesis /\ c = Parent[seg[i].tail]) \/ Foul(i)
      BY <1>0, <2>1, <3>1 DEF Clean
    <3>3. Foul(i) => i # id
      BY DEF Foul, Bad
    <3> QED BY <1>0, <1>1, <3>1, <3>2, <3>3 DEF Foul
  <2>2. ASSUME NEW i \in Ids', seg'[i].prev # NoSeg PROVE seg'[i].tail \notin Rejected
    BY <1>0, <1>1, <2>2 DEF Clean
  <2>3. \A c \in Blocks : Recorded(c)' => Recorded(c)
    BY <1>0 DEF Recorded
  <2> QED BY <2>1, <2>2, <2>3 DEF Clean
<1> QED BY <1>3, <1>4, <1>5, <1>6, <1>7 DEF Line

LEMMA LinkLine ==
    ASSUME OneProposer, Parts, LineInv, r.pc = "append segment", NEW sg \in Segment,
           Replaced(r.seg, sg), sg.head = seg[r.seg].head, sg.tail = seg[r.seg].tail,
           sg.prev = r.prev, ~ Bad(seg[r.seg]), ValidateChild(seg[r.prev].head, seg[r.seg].tail),
           r'.pc = "append next", r'.seg = r.seg,
           UNCHANGED <<stateSegment, queue, p, s, seen>>
    PROVE  LineInv'
<1>0. /\ Data /\ RecordsKnown /\ Line /\ PLine /\ RLine /\ HeadOwned /\ QueueOwned
      /\ HeadSettled /\ Arrivals /\ blk' = blk
  BY DEF Parts, SharedInv, LineInv, Replaced
<1>1. PICK id \in Ids, j \in Ids, t \in Blocks \ {Genesis} :
          id = r.seg /\ j = r.prev /\ j # NoSeg /\ t = seg[id].tail /\ Owned(id)
  BY <1>0, RFacts DEF RLine
<1>2. /\ Replaced(id, sg) /\ sg.head = seg[id].head /\ sg.tail = t /\ sg.prev = j
      /\ t \notin Rejected /\ Height[t] = Height[seg[j].head] + 1 /\ ~ Bad(seg[id])
  BY <1>1 DEF ValidateChild
<1>3. Line' /\ OwnedStays /\ RecordsStay
  BY <1>0, <1>1, <1>2, LinkCrosses
<1>4. /\ Ids' = Ids /\ seg'[id] = sg /\ \A i \in Ids \ {id} : seg'[i] = seg[i]
      /\ \A i \in Ids : seg'[i].tail = seg[i].tail
  BY <1>1, <1>2 DEF Replaced, Ids
<1>5. HeadOwned' /\ QueueOwned'
  BY <1>0, <1>3, HeadOwnedStays, QueueOwnedStays
<1>6. PLine'
  <2>1. p.pc = "new block" => seg'[p.parent.seg].tail = seg[p.parent.seg].tail
    BY <1>4, PFacts
  <2> QED BY <1>0, <1>3, <2>1, PLineStays
<1>7. RLine'
  <2>1. Owned(id)'
    BY <1>1, <1>3 DEF OwnedStays
  <2>2. Owned(r.seg)'
    BY <1>1, <2>1 DEF Owned
  <2> QED BY <2>2 DEF RLine
<1>8. HeadSettled'
  <2>1. ASSUME NEW i \in Ids, Settled(i) PROVE Settled(i)'
    <3>1. CASE i = id
      BY <1>1, <1>2, <1>4, <3>1 DEF Settled
    <3>2. CASE i # id
      BY <1>4, <2>1, <3>2 DEF Settled, Including
    <3> QED BY <3>1, <3>2
  <2> QED BY <1>0, <2>1, SettledStays
<1>9. Arrivals'
  <2>1. \A c \in Blocks : Recorded(c)' => Recorded(c)
    BY <1>0 DEF Recorded
  <2> QED BY <1>0, <2>1, ArrivalsStay
<1> QED BY <1>3, <1>5, <1>6, <1>7, <1>8, <1>9 DEF LineInv

LEMMA AppendSegmentPrevLine ==
    ASSUME OneProposer, Parts, LineInv, AppendSegmentPrev PROVE LineInv'
<1>0. /\ UNCHANGED <<blk, stateSegment, queue, p, s, seen>> /\ r.pc = "append segment"
      /\ Data /\ RType
  BY DEF AppendSegmentPrev, Parts, SharedInv, RInv
<1>1. CASE seg' = seg /\ r' = IdleR
  <2>1. SameLine /\ \A id \in Ids : seg'[id].status = seg[id].status
    BY <1>0, <1>1, SameLineOf
  <2>2. r'.pc = "idle" /\ ~ Including'
    BY <1>1 DEF IdleR, Including
  <2>3. Line' /\ QueueOwned' /\ PLine' /\ Arrivals' /\ HeadOwned' /\ HeadSettled'
    BY <1>0, <2>1, <2>2, LineControl
  <2>4. RLine'
    BY <2>2 DEF RLine
  <2> QED BY <2>3, <2>4 DEF LineInv
<1>2. CASE /\ seg[r.seg].status = "DISJOINTED"
           /\ seg' = [seg EXCEPT ![r.seg].status = "INVALID"]
           /\ r' = [r EXCEPT !.pc = "rewound"]
  BY <1>0, <1>2, MarkInvalidLine
<1>3. CASE /\ seg[r.seg].status = "DISJOINTED"
           /\ ValidateChild(seg[r.prev].head, seg[r.seg].tail)
           /\ seg' = [seg EXCEPT ![r.seg] =
                        [@ EXCEPT !.status = seg[r.prev].status, !.prev = r.prev]]
           /\ r' = [r EXCEPT !.pc = "append next"]
  <2>1. PICK id \in Ids, j \in Ids : id = r.seg /\ j = r.prev
    BY <1>0, RFacts
  <2>2. PICK old \in Segment, other \in Segment : old = seg[id] /\ other = seg[j]
    BY <1>0, SegFacts
  <2>3. PICK sg : sg = [old EXCEPT !.status = other.status, !.prev = j]
    OBVIOUS
  <2>4. j \in 0..MaxSegs
    BY <1>0, <2>1 DEF RType
  <2>5. sg \in Segment /\ sg.head = old.head /\ sg.tail = old.tail /\ sg.prev = j
    BY <2>3, <2>4 DEF Segment
  <2>6. seg' = [seg EXCEPT ![id] = sg]
    BY <1>3, <2>1, <2>2, <2>3
  <2>7. Replaced(id, sg)
    BY <1>0, <2>5, <2>6, SegReplaced
  <2>8. r'.pc = "append next" /\ r'.seg = r.seg
    BY <1>0, <1>3 DEF RType
  <2>9. ~ Bad(seg[r.seg])
    BY <1>3 DEF Bad
  <2> QED BY <1>0, <1>3, <2>1, <2>2, <2>5, <2>7, <2>8, <2>9, LinkLine
<1> QED BY <1>1, <1>2, <1>3 DEF AppendSegmentPrev

\* The link forwards (segment.go:313-331).
LEMMA AppendSegmentNextLine == ASSUME Parts, LineInv, AppendSegmentNext PROVE LineInv'
<1>0. /\ UNCHANGED <<blk, stateSegment, queue, p, s, seen>> /\ r.pc = "append next"
      /\ Data /\ RType /\ RLine
  BY DEF AppendSegmentNext, Parts, SharedInv, RInv, LineInv
<1>1. PICK id \in Ids, j \in Ids : id = r.seg /\ j = r.prev /\ Owned(id)
  BY <1>0, KnownId DEF RLine, Owned, Parts, RInv, RKnown
<1>2. PICK old \in Segment : old = seg[j]
  BY <1>0, SegFacts
<1>3. PICK sg : sg = [old EXCEPT !.next = id]
  OBVIOUS
<1>4. id \in 0..MaxSegs
  BY <1>0, <1>1 DEF RType
<1>5. /\ sg \in Segment /\ sg.head = old.head /\ sg.tail = old.tail /\ sg.prev = old.prev
      /\ sg.status = old.status
  BY <1>3, <1>4 DEF Segment
<1>6. seg' = [seg EXCEPT ![j] = sg]
  BY <1>1, <1>2, <1>3 DEF AppendSegmentNext
<1>7. Replaced(j, sg) /\ Ids' = Ids
  BY <1>0, <1>5, <1>6, SegReplaced
<1>8. SameLine /\ \A i \in Ids : seg'[i].status = seg[i].status
  BY <1>2, <1>5, <1>7 DEF Replaced, SameLine
<1>9. r'.pc = "rewound" /\ r'.seg = id /\ ~ Including'
  BY <1>0, <1>1 DEF AppendSegmentNext, RType, Including
<1>10. Line' /\ OwnedStays /\ QueueOwned' /\ PLine' /\ Arrivals' /\ HeadOwned' /\ HeadSettled'
  BY <1>0, <1>8, <1>9, LineControl
<1>11. RLine'
  <2>1. Owned(id)'
    BY <1>1, <1>10 DEF OwnedStays
  <2>2. Owned(r.seg)'
    BY <1>9, <2>1 DEF Owned
  <2> QED BY <1>9, <2>2 DEF RLine
<1> QED BY <1>10, <1>11 DEF LineInv

\* A new segment, whose block is written later (segment_store.go:35-64).
LEMMA CreateSegmentLine == ASSUME Parts, LineInv, CreateSegment PROVE LineInv'
<1>0. /\ UNCHANGED <<blk, stateSegment, queue, r, s, seen>> /\ p.pc = "new segment" /\ Data
      /\ RecordsKnown /\ SegsOwned /\ Convex /\ LinksCross /\ Clean /\ RLine /\ HeadOwned
      /\ QueueOwned /\ HeadSettled /\ Arrivals
  BY DEF CreateSegment, Parts, SharedInv, LineInv, Line
<1>1. PICK b \in Blocks \ {Genesis}, n \in Nat, sg \in Segment :
          /\ b = p.b /\ n <= MaxSegs
          /\ sg.status = "DISJOINTED" /\ sg.head = b /\ sg.tail = b
          /\ sg.prev = NoSeg /\ sg.next = NoSeg
          /\ seg' \in Seq(Segment) /\ Len(seg') = n /\ seg'[n] = sg
          /\ \A i \in Ids : seg'[i] = seg[i]
          /\ Ids' = Ids \cup {n} /\ n \notin Ids /\ n # NoSeg
          /\ PType' /\ p'.pc = "new block" /\ p'.b = b /\ p'.parent.seg = n
  BY CreateFacts, Zenon
<1>2. /\ \A i \in Ids : seg'[i] = seg[i] /\ i \in Ids'
      /\ \A i \in Ids' : seg'[i].prev # NoSeg => i \in Ids
  BY <1>1
<1>3. /\ \A c \in Blocks : Recorded(c) => blk[c].seg \in Ids
      /\ \A i \in Ids : seg[i].prev # NoSeg => seg[i].prev \in Ids
  BY <1>0, KnownId DEF RecordsKnown, Recorded
<1>4. OwnedStays /\ RecordsStay
  BY <1>0, <1>2 DEF OwnedStays, Owned, RecordsStay
<1>5. SegsOwned'
  <2>1. ASSUME NEW c \in Blocks, Recorded(c)' PROVE Owned(blk[c].seg)'
    <3>1. PICK i : i = blk[c].seg /\ i = blk'[c].seg
      BY <1>0
    <3>2. Owned(i)'
      BY <1>0, <1>4, <2>1, <3>1 DEF SegsOwned, OwnedStays, Recorded
    <3> QED BY <3>1, <3>2 DEF Owned
  <2>2. ASSUME NEW i \in Ids', seg'[i].prev # NoSeg PROVE Owned(i)'
    <3>1. Owned(i)
      BY <1>0, <1>2, <2>2 DEF SegsOwned
    <3> QED BY <1>4, <3>1 DEF OwnedStays
  <2> QED BY <2>1, <2>2 DEF SegsOwned
<1>6. Convex'
  <2>1. \A c \in Blocks : Recorded(c)' => Recorded(c) /\ seg'[blk'[c].seg].tail = seg[blk[c].seg].tail
    BY <1>0, <1>2, <1>3 DEF Recorded
  <2> QED BY <1>0, <2>1 DEF Convex
<1>7. LinksCross'
  <2> SUFFICES ASSUME NEW i \in Ids', seg'[i].prev # NoSeg
               PROVE  Parent[seg'[i].tail] = seg'[seg'[i].prev].head
    BY DEF LinksCross
  <2>1. i \in Ids /\ seg'[i] = seg[i]
    BY <1>2
  <2>2. seg[i].prev \in Ids
    BY <1>3, <2>1
  <2> QED BY <1>0, <1>2, <2>1, <2>2 DEF LinksCross
<1>8. Clean'
  <2>1. ASSUME NEW c \in Blocks \cap Rejected, Recorded(c)
        PROVE  (\/ c = seg[blk[c].seg].tail
                \/ seg[blk[c].seg].tail # Genesis /\ c = Parent[seg[blk[c].seg].tail]
                \/ Foul(blk[c].seg))'
    <3>1. PICK i \in Ids : i = blk[c].seg
      BY <1>3, <2>1
    <3>2. c = seg[i].tail \/ (seg[i].tail # Genesis /\ c = Parent[seg[i].tail]) \/ Foul(i)
      BY <1>0, <2>1, <3>1 DEF Clean
    <3> QED BY <1>0, <1>2, <3>1, <3>2 DEF Foul
  <2>2. ASSUME NEW i \in Ids', seg'[i].prev # NoSeg PROVE seg'[i].tail \notin Rejected
    BY <1>0, <1>2, <2>2 DEF Clean
  <2>3. \A c \in Blocks : Recorded(c)' => Recorded(c)
    BY <1>0 DEF Recorded
  <2> QED BY <2>1, <2>2, <2>3 DEF Clean
<1>9. HeadOwned' /\ QueueOwned'
  BY <1>0, <1>4, HeadOwnedStays, QueueOwnedStays
<1>10. PLine'
  BY <1>1 DEF PLine, Appending
<1>11. RLine'
  <2>1. r.pc = "include block" => ~ Recorded(Parent[r.b])'
    BY <1>0 DEF RLine, Recorded
  <2>2. r.pc # "idle" => seg'[r.seg].status = seg[r.seg].status \/ seg'[r.seg].status = "VALID"
    BY <1>0, <1>2 DEF RLine, Owned
  <2> QED BY <1>0, <1>4, <2>1, <2>2, RLineStays
<1>12. HeadSettled'
  <2>1. \A i \in Ids : Settled(i) => Settled(i)'
    BY <1>0, <1>2 DEF Settled, Including
  <2> QED BY <1>0, <2>1, SettledStays
<1>13. Arrivals'
  <2>1. \A c \in Blocks : Recorded(c)' => Recorded(c)
    BY <1>0 DEF Recorded
  <2> QED BY <1>0, <1>1, <2>1, ArrivalsStay
<1> QED BY <1>5, <1>6, <1>7, <1>8, <1>9, <1>10, <1>11, <1>12, <1>13 DEF LineInv, Line

-----------------------------------------------------------------------------
(* The invariant is one.                                                   *)

LEMMA LineInit == ASSUME OneProposer, Init PROVE LineInv
<1>0. NoRecord.seg = NoSeg
  BY DEF NoRecord
<1>1. /\ queue = <<>> /\ p.pc = "idle" /\ r.pc = "idle" /\ s.pc = "idle"
  BY DEF Init, IdleP, IdleR, IdleS
<1>2. QueueOwned /\ PLine /\ RLine
  BY <1>1 DEF QueueOwned, PLine, RLine, Appending
<1>3. CASE ~ Founder
  <2>1. blk = [b \in Blocks |-> NoRecord] /\ seg = <<>> /\ stateSegment = NoSeg
    BY <1>3 DEF Init
  <2>2. Len(seg) = 0 /\ \A b \in Blocks : ~ Recorded(b)
    BY <1>0, <2>1 DEF Recorded
  <2>3. Ids = {}
    BY <2>2 DEF Ids
  <2>4. Line
    BY <2>2, <2>3 DEF Line, SegsOwned, Convex, LinksCross, Clean
  <2>5. Arrivals
    BY <1>1, <2>2 DEF Arrivals
  <2>6. HeadOwned /\ HeadSettled
    BY <1>1, <2>1 DEF HeadOwned, HeadSettled
  <2> QED BY <1>2, <2>4, <2>5, <2>6 DEF LineInv
<1>4. CASE Founder
  <2>0. PICK sg : sg = NewSegment(Genesis)
    OBVIOUS
  <2>1. /\ sg = NewSegment(Genesis) /\ sg.head = Genesis /\ sg.tail = Genesis
        /\ sg.prev = NoSeg /\ sg.status = "DISJOINTED"
    BY <2>0 DEF NewSegment
  <2>2. /\ blk = [b \in Blocks |-> IF b = Genesis THEN [seg |-> 1, next |-> None] ELSE NoRecord]
        /\ seg = <<sg>> /\ stateSegment = 1
    BY <1>4, <2>1 DEF Init
  <2>3. Len(seg) = 1 /\ seg[1] = sg /\ Genesis \in Blocks /\ 1 # NoSeg
    BY <2>2, ChainSyncAssumption DEF NoSeg
  <2>4. blk[Genesis].seg = 1 /\ \A b \in Blocks : Recorded(b) <=> b = Genesis
    BY <1>0, <2>2, <2>3 DEF Recorded
  <2>5. Ids = {1}
    BY <2>3 DEF Ids
  <2>6. Owned(1) /\ Settled(1)
    BY <2>1, <2>3, <2>4, <2>5 DEF Owned, Settled
  <2>7. Height[Genesis] = 0 /\ \A c \in Blocks : Height[c] \in Nat
    BY ChainSyncAssumption
  <2>8. SegsOwned /\ LinksCross
    BY <2>1, <2>3, <2>4, <2>5, <2>6 DEF SegsOwned, LinksCross
  <2>9. Clean
    BY <2>1, <2>3, <2>4, <2>5 DEF Clean
  <2>10. HeadOwned /\ HeadSettled
    BY <1>1, <2>2, <2>6 DEF HeadOwned, HeadSettled
  <2>11. Arrivals
    <3> SUFFICES ASSUME NEW q \in Peers, NEW i \in Coming(q)
                 PROVE  Height[Genesis] <= Height[Sent[q][i]]
      BY <1>1, <2>4 DEF Arrivals
    <3>1. Sent[q][i] \in Blocks
      BY ChainSyncAssumption DEF Coming
    <3> QED BY <2>7, <3>1
  <2>12. Convex
    <3>1. ASSUME NEW c \in Blocks, Height[c] <= Height[Genesis] PROVE c = Genesis
      <4>1. Height[c] = Height[Genesis]
        BY <2>7, <3>1
      <4> QED BY <2>3, <4>1 DEF OneProposer
    <3> QED BY <2>4, <3>1 DEF Convex
  <2> QED BY <1>2, <2>8, <2>9, <2>10, <2>11, <2>12 DEF LineInv, Line
<1> QED BY <1>3, <1>4

LEMMA LineNext ==
    ASSUME OneProposer, Parts, LineInv, [Next]_vars
    PROVE  LineInv'
<1>0. Parts'
  BY PartsNext
<1>1. CASE UNCHANGED vars
  <2>1. UNCHANGED <<blk, seg, stateSegment, queue, p, r, s, seen>> /\ Data
    BY <1>1 DEF vars, dbVars, Parts, SharedInv
  <2>2. SameLine /\ \A id \in Ids : seg'[id].status = seg[id].status
    BY <2>1, SameLineOf
  <2> QED BY <2>1, <2>2, LineControl DEF LineInv
<1>2. ASSUME NEW q \in Peers, NEW i \in 1..Len(Sent[q]), Deliver(q, i) PROVE LineInv'
  BY <1>2, DeliverLine
<1>3. CASE PNext
  BY <1>0, <1>3, LookupParentLine, AppendParentLine, AppendOwnLine, AppendHeadLine,
     CreateSegmentLine, QueueSegmentLine DEF PNext
<1>4. CASE RewindPanics \/ Crash
  BY <1>4, RestartLine DEF RewindPanics, Crash
<1>5. CASE RNext
  BY <1>0, <1>4, <1>5, RewindStartLine, IncludeBlockLine, IncludeTailLine, AppendSegmentPrevLine,
     AppendSegmentNextLine, SegmentUpdatedLine, MarkValidLine, MarkAsHeadLine, PushSegmentLine
     DEF RNext
<1>6. CASE RewindFails \/ ValidationFails \/ LookupFails
  BY <1>6, RewindFailsLine, ValidationFailsLine, LookupFailsLine
<1>7. CASE SNext
  BY <1>7, FastForwardLine, SetHeadBlockLine DEF SNext
<1> QED BY <1>1, <1>2, <1>3, <1>4, <1>5, <1>6, <1>7 DEF Next

\* With one proposer the segments are stretches of a line in every state.
THEOREM LineInvariance == ASSUME OneProposer PROVE Spec => [](IInv /\ LineInv)
<1>1. Init => IInv /\ LineInv
  BY PartsInit, LineInit, Forms
<1>2. IInv /\ LineInv /\ [Next]_vars => (IInv /\ LineInv)'
  <2>1. IInv /\ [Next]_vars => IInv'
    BY PartsNext, Forms, PTL
  <2>2. IInv /\ LineInv /\ [Next]_vars => LineInv'
    BY LineNext, Forms
  <2> QED BY <2>1, <2>2
<1> QED BY <1>1, <1>2, PTL DEF Spec

\* With one proposer every link to a next segment is matched by one back, and
\* crosses from a block to its child: for every length of the chain, every loss and
\* repetition of commits, and any number of crashes, panics of the rewind loop and
\* failed fetches (segment.go:270-331).
THEOREM LinksMatchOnLine == ASSUME OneProposer PROVE Spec => []LinksMatch
<1>1. IInv /\ LineInv => LinksMatch
  BY Forms, LinesMatch
<1> QED BY <1>1, LineInvariance, PTL

\* With one proposer no block that fails validation gets onto the node's chain,
\* whatever the commit handler, the rewind loop and the state loop have read before
\* and the process survives (segment.go:88-141, 219-235, 293-312).
THEOREM HeadValidatedOnLine == ASSUME OneProposer PROVE Spec => []HeadValidated
<1>1. IInv /\ LineInv => HeadValidated
  BY Forms, LineValidated
<1> QED BY <1>1, LineInvariance, PTL

=============================================================================
