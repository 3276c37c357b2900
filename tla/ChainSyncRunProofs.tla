------------------------ MODULE ChainSyncRunProofs -------------------------
(***************************************************************************)
(* What ChainSync guarantees as long as the process runs: no segment that  *)
(* waits for its parent is forgotten, for every tree of blocks; and with   *)
(* one proposer a segment is the path from its tail to its head, and the   *)
(* node's head only goes up.  A crash, and a panic of the rewind loop,     *)
(* which is one, is what these do not survive.                             *)
(***************************************************************************)
EXTENDS ChainSyncLineProofs

\* The process runs on.
Uninterrupted == [][~ Crash /\ ~ RewindPanics]_vars

\* And no fetch of the rewind loop fails before it has found the parent.
Undisturbed == [][~ Crash /\ ~ RewindPanics /\ ~ RewindFails]_vars

-----------------------------------------------------------------------------
(* What each step writes.                                                  *)

EndsStay == \A id \in Ids : seg'[id].head = seg[id].head /\ seg'[id].tail = seg[id].tail

HandlerStays ==
    p' = p \/ (p.pc \notin {"append head", "new block"} /\ p'.pc \notin {"append head", "new block"})
RewindStays == r' = r \/ (r.pc # "include tail" /\ r'.pc # "include tail")

\* Neither a record, an end of a segment nor what a goroutine is adding.
Quiet ==
    /\ \A b \in Blocks : blk'[b].seg = blk[b].seg
    /\ Ids' = Ids /\ EndsStay /\ HandlerStays /\ RewindStays

\* The record of a block.
Records(b, id) ==
    /\ blk'[b].seg = id /\ \A c \in Blocks \ {b} : blk'[c].seg = blk[c].seg
    /\ seg' = seg /\ Ids' = Ids

\* A tail.
TailMoves ==
    /\ r.pc = "include tail" /\ r'.pc # "include tail" /\ r'.pc # "idle" /\ r'.seg = r.seg
    /\ p' = p /\ blk' = blk /\ Ids' = Ids
    /\ seg'[r.seg].head = seg[r.seg].head /\ seg'[r.seg].tail = Parent[r.b]
    /\ \A id \in Ids \ {r.seg} : seg'[id] = seg[id]

LEMMA QuietSegs ==
    ASSUME Data, SameChain, HandlerStays, RewindStays
    PROVE  Quiet
BY DEF SameChain, Quiet, EndsStay, Ids

\* HandleBlockCommit (chain.go:435-503, segment.go:88-141).
LEMMA HandlerReads ==
    ASSUME Parts,
           (\E q \in Peers : \E i \in 1..Len(Sent[q]) : Deliver(q, i)) \/ LookupParent
    PROVE  Quiet
<1>1. Data /\ UNCHANGED <<blk, seg, r>> /\ PType
  BY DEF Parts, SharedInv, PInv, Deliver, LookupParent, dbVars
<1>2. SameChain
  BY <1>1, SameChainOf
<1>3. HandlerStays
  <2>1. CASE \E q \in Peers : \E i \in 1..Len(Sent[q]) : Deliver(q, i)
    <3>1. p.pc = "idle" /\ (p' = p \/ p'.pc = "parent")
      BY <2>1 DEF Deliver, HandleBlockCommit
    <3> QED BY <3>1 DEF HandlerStays
  <2>2. CASE LookupParent
    <3>1. \/ p' = IdleP
          \/ p' = [p EXCEPT !.pc = "append parent", !.parent = blk[Parent[p.b]]]
          \/ p' = [p EXCEPT !.pc = "new segment", !.parent = blk[Parent[p.b]]]
      BY <2>2 DEF LookupParent
    <3>2. p'.pc \in {"idle", "append parent", "new segment"}
      <4>1. CASE p' = IdleP
        BY <4>1 DEF IdleP
      <4>2. CASE p' = [p EXCEPT !.pc = "append parent", !.parent = blk[Parent[p.b]]]
        BY <1>1, <4>2 DEF PType
      <4>3. CASE p' = [p EXCEPT !.pc = "new segment", !.parent = blk[Parent[p.b]]]
        BY <1>1, <4>3 DEF PType
      <4> QED BY <3>1, <4>1, <4>2, <4>3
    <3> QED BY <2>2, <3>2 DEF HandlerStays, LookupParent
  <2> QED BY <2>1, <2>2
<1>4. RewindStays
  BY <1>1 DEF RewindStays
<1> QED BY <1>1, <1>2, <1>3, <1>4, QuietSegs

LEMMA AppendParentWrites ==
    ASSUME Parts, AppendParent
    PROVE  /\ Records(Parent[p.b], p.parent.seg) /\ r' = r /\ p.pc = "append parent"
           /\ p'.pc = "append block" /\ p'.b = p.b
<1>1. /\ Data /\ PType /\ r' = r /\ seg' = seg /\ p.pc = "append parent"
      /\ p' = [p EXCEPT !.pc = "append block"]
  BY DEF Parts, SharedInv, PInv, AppendParent
<1>2. PICK y \in Blocks : y = Parent[p.b]
  BY <1>1, PFacts
<1>3. PICK rec \in BlockRecord : rec = p.parent
  BY <1>1 DEF PType
<1>4. PICK new : new = [rec EXCEPT !.next = p.b]
  OBVIOUS
<1>5. new.seg = rec.seg
  BY <1>4 DEF BlockRecord
<1>6. blk' = [blk EXCEPT ![y] = new] /\ blk \in [Blocks -> BlockRecord]
  BY <1>1, <1>2, <1>3, <1>4 DEF AppendParent, Data
<1>7. blk'[y].seg = rec.seg /\ \A c \in Blocks \ {y} : blk'[c].seg = blk[c].seg
  BY <1>5, <1>6
<1>8. p'.pc = "append block" /\ p'.b = p.b
  BY <1>1 DEF PType
<1> QED BY <1>1, <1>2, <1>3, <1>7, <1>8 DEF Records, Ids

LEMMA OwnWrites ==
    ASSUME Parts, p.pc # "idle", seg' = seg,
           blk' = [blk EXCEPT ![p.b] = [p.own EXCEPT !.seg = p.parent.seg]]
    PROVE  Records(p.b, p.parent.seg)
<1>1. Data /\ PType
  BY DEF Parts, SharedInv, PInv
<1>2. PICK y \in Blocks : y = p.b
  BY <1>1, PFacts
<1>3. PICK own \in BlockRecord : own = p.own
  BY <1>1 DEF PType
<1>4. PICK new : new = [own EXCEPT !.seg = p.parent.seg]
  OBVIOUS
<1>5. new.seg = p.parent.seg
  BY <1>4 DEF BlockRecord
<1>6. blk' = [blk EXCEPT ![y] = new] /\ blk \in [Blocks -> BlockRecord]
  BY <1>1, <1>2, <1>3, <1>4 DEF Data
<1>7. blk'[y].seg = p.parent.seg /\ \A c \in Blocks \ {y} : blk'[c].seg = blk[c].seg
  BY <1>5, <1>6
<1> QED BY <1>2, <1>7 DEF Records, Ids

LEMMA AppendOwnWrites ==
    ASSUME Parts, AppendOwn
    PROVE  /\ Records(p.b, p.parent.seg) /\ r' = r /\ p.pc = "append block"
           /\ p'.pc = "append head" /\ p'.b = p.b
<1>1. /\ PType /\ r' = r /\ seg' = seg /\ p.pc = "append block"
      /\ p' = [p EXCEPT !.pc = "append head"]
      /\ blk' = [blk EXCEPT ![p.b] = [p.own EXCEPT !.seg = p.parent.seg]]
  BY DEF Parts, PInv, AppendOwn
<1>2. p'.pc = "append head" /\ p'.b = p.b
  BY <1>1 DEF PType
<1> QED BY <1>1, <1>2, OwnWrites

LEMMA QueueSegmentWrites ==
    ASSUME Parts, QueueSegment
    PROVE  /\ Records(p.b, p.parent.seg) /\ r' = r /\ p.pc = "new block" /\ p'.pc = "idle"
<1>1. /\ r' = r /\ seg' = seg /\ p.pc = "new block" /\ p'.pc = "idle"
      /\ blk' = [blk EXCEPT ![p.b] = [p.own EXCEPT !.seg = p.parent.seg]]
  BY DEF QueueSegment, IdleP
<1> QED BY <1>1, OwnWrites

LEMMA AppendHeadWrites ==
    ASSUME Parts, AppendHead
    PROVE  LET id == p.parent.seg
           IN  /\ p.pc = "append head" /\ p'.pc = "idle" /\ r' = r /\ blk' = blk
               /\ id \in Ids /\ Ids' = Ids /\ \A i \in Ids \ {id} : seg'[i] = seg[i]
               /\ seg'[id].head = p.b /\ seg'[id].tail = seg[id].tail
               /\ seg'[id].prev = seg[id].prev
               /\ seg'[id].status = "DISJOINTED" => seg[id].status = "DISJOINTED"
<1>0. /\ Data /\ blk' = blk /\ r' = r /\ p.pc = "append head" /\ p'.pc = "idle"
  BY DEF Parts, SharedInv, AppendHead, IdleP
<1>1. PICK id \in Ids, b \in Blocks : id = p.parent.seg /\ b = p.b
  BY <1>0, PFacts DEF Appending
<1>2. PICK old \in Segment : old = seg[id]
  BY <1>0, SegFacts
<1>3. PICK status \in {"DISJOINTED", "VALID", "INVALID"} :
          /\ seg' = [seg EXCEPT ![id] = [old EXCEPT !.head = b, !.status = status]]
          /\ status = "DISJOINTED" => old.status = "DISJOINTED"
  <2>1. old.status \in {"DISJOINTED", "VALID", "INVALID"}
    BY DEF Segment
  <2> QED BY <1>1, <1>2, <2>1 DEF AppendHead
<1>4. PICK sg : sg = [old EXCEPT !.head = b, !.status = status]
  OBVIOUS
<1>5. /\ sg \in Segment /\ sg.head = b /\ sg.tail = old.tail /\ sg.prev = old.prev
      /\ sg.status = status
  BY <1>4 DEF Segment
<1>6. Replaced(id, sg) /\ Ids' = Ids
  BY <1>0, <1>3, <1>4, <1>5, SegReplaced
<1> QED BY <1>0, <1>1, <1>2, <1>3, <1>5, <1>6 DEF Replaced

\* Segment.RewindOnce (segment.go:144-331).
LEMMA IncludeBlockWrites ==
    ASSUME Parts, IncludeBlock
    PROVE  /\ Records(Parent[r.b], r.seg) /\ p' = p /\ r.pc = "include block"
           /\ r'.pc = "include tail" /\ r'.seg = r.seg /\ r'.b = r.b
<1>1. /\ Data /\ RType /\ p' = p /\ seg' = seg /\ r.pc = "include block"
      /\ r' = [r EXCEPT !.pc = "include tail"]
  BY DEF Parts, SharedInv, RInv, IncludeBlock
<1>2. PICK y \in Blocks : y = Parent[r.b]
  BY <1>1, RFacts DEF Including
<1>3. PICK new : new = [seg |-> r.seg, next |-> r.b]
  OBVIOUS
<1>4. new.seg = r.seg
  BY <1>3
<1>5. blk' = [blk EXCEPT ![y] = new] /\ blk \in [Blocks -> BlockRecord]
  BY <1>1, <1>2, <1>3 DEF IncludeBlock, Data
<1>6. blk'[y].seg = r.seg /\ \A c \in Blocks \ {y} : blk'[c].seg = blk[c].seg
  BY <1>4, <1>5
<1>7. r'.pc = "include tail" /\ r'.seg = r.seg /\ r'.b = r.b
  BY <1>1 DEF RType
<1> QED BY <1>1, <1>2, <1>6, <1>7 DEF Records, Ids

LEMMA TailWrites ==
    ASSUME Parts, IncludeTail \/ (ValidationFails /\ r.pc = "include tail")
    PROVE  TailMoves
<1>0. /\ Data /\ RType /\ p' = p /\ blk' = blk /\ r.pc = "include tail"
      /\ r' = [r EXCEPT !.pc = "rewound"]
  BY DEF Parts, SharedInv, RInv, IncludeTail, ValidationFails
<1>1. PICK id \in Ids, y \in Blocks : id = r.seg /\ y = Parent[r.b]
  BY <1>0, RFacts DEF Including
<1>2. PICK old \in Segment : old = seg[id]
  BY <1>0, SegFacts
<1>3. PICK status \in {"DISJOINTED", "VALID", "INVALID"} :
          seg' = [seg EXCEPT ![id] = [old EXCEPT !.tail = y, !.status = status]]
  <2>1. old.status \in {"DISJOINTED", "VALID", "INVALID"}
    BY DEF Segment
  <2> QED BY <1>0, <1>1, <1>2, <2>1 DEF IncludeTail, ValidationFails
<1>4. PICK sg : sg = [old EXCEPT !.tail = y, !.status = status]
  OBVIOUS
<1>5. sg \in Segment /\ sg.head = old.head /\ sg.tail = y
  BY <1>4 DEF Segment
<1>6. Replaced(id, sg) /\ Ids' = Ids
  BY <1>0, <1>3, <1>4, <1>5, SegReplaced
<1>7. r'.pc = "rewound" /\ r'.seg = r.seg
  BY <1>0 DEF RType
<1> QED BY <1>0, <1>1, <1>2, <1>5, <1>6, <1>7 DEF Replaced, TailMoves

\* A step of the rewind loop that changes only the segment it has.
OthersStay == Ids' = Ids /\ \A id \in Ids \ {r.seg} : seg'[id] = seg[id]

LEMMA RewindQuiet ==
    ASSUME Data, NEW id \in Ids, NEW sg \in Segment, blk' = blk, p' = p,
           seg' = [seg EXCEPT ![id] = sg], sg.head = seg[id].head, sg.tail = seg[id].tail,
           r.pc # "include tail", r'.pc # "include tail"
    PROVE  Quiet /\ Ids' = Ids /\ seg'[id] = sg /\ \A i \in Ids \ {id} : seg'[i] = seg[i]
<1>1. Replaced(id, sg) /\ Ids' = Ids
  BY SegReplaced
<1> QED BY <1>1 DEF Replaced, Quiet, EndsStay, HandlerStays, RewindStays

LEMMA InvalidWrites ==
    ASSUME Parts, r.pc = "append segment", seg' = [seg EXCEPT ![r.seg].status = "INVALID"],
           r' = [r EXCEPT !.pc = "rewound"], UNCHANGED <<blk, p>>
    PROVE  Quiet /\ OthersStay /\ r'.pc = "rewound" /\ r'.seg = r.seg
<1>0. Data /\ RType
  BY DEF Parts, SharedInv, RInv
<1>1. PICK id \in Ids : id = r.seg
  BY RFacts
<1>2. PICK old \in Segment : old = seg[id]
  BY <1>0, SegFacts
<1>3. PICK sg : sg = [old EXCEPT !.status = "INVALID"]
  OBVIOUS
<1>4. sg \in Segment /\ sg.head = old.head /\ sg.tail = old.tail
  BY <1>3 DEF Segment
<1>5. seg' = [seg EXCEPT ![id] = sg]
  BY <1>1, <1>2, <1>3
<1>6. r'.pc = "rewound" /\ r'.seg = r.seg
  BY <1>0 DEF RType
<1>7. r.pc # "include tail" /\ r'.pc # "include tail"
  BY <1>6
<1>8. Quiet /\ Ids' = Ids /\ \A i \in Ids \ {id} : seg'[i] = seg[i]
  BY <1>0, <1>2, <1>4, <1>5, <1>7, RewindQuiet
<1> QED BY <1>1, <1>6, <1>8 DEF OthersStay

LEMMA AppendSegmentPrevWrites ==
    ASSUME Parts, AppendSegmentPrev
    PROVE  /\ Quiet /\ OthersStay
           /\ \/ seg' = seg /\ r'.seg = NoSeg /\ r' = IdleR /\ seg[r.seg].status # "DISJOINTED"
              \/ r'.seg = r.seg /\ r'.pc \notin {"idle", "mark head", "set head"}
<1>0. Data /\ RType /\ r.pc = "append segment" /\ UNCHANGED <<blk, p>>
  BY DEF Parts, SharedInv, RInv, AppendSegmentPrev
<1>1. CASE seg' = seg /\ r' = IdleR /\ seg[r.seg].status # "DISJOINTED"
  <2>1. r'.pc = "idle" /\ r'.seg = NoSeg
    BY <1>1 DEF IdleR
  <2>2. SameChain /\ Ids' = Ids
    BY <1>0, <1>1, SameChainOf DEF Ids
  <2>3. HandlerStays /\ RewindStays
    BY <1>0, <2>1 DEF HandlerStays, RewindStays
  <2> QED BY <1>0, <1>1, <2>1, <2>2, <2>3, QuietSegs DEF OthersStay
<1>2. CASE seg' = [seg EXCEPT ![r.seg].status = "INVALID"] /\ r' = [r EXCEPT !.pc = "rewound"]
  <2>1. Quiet /\ OthersStay /\ r'.pc = "rewound" /\ r'.seg = r.seg
    BY <1>0, <1>2, InvalidWrites
  <2> QED BY <2>1
<1>3. CASE /\ seg' = [seg EXCEPT ![r.seg] =
                        [@ EXCEPT !.status = seg[r.prev].status, !.prev = r.prev]]
           /\ r' = [r EXCEPT !.pc = "append next"]
  <2>1. PICK id \in Ids, j \in Ids : id = r.seg /\ j = r.prev /\ j \in 0..MaxSegs
    BY <1>0, RFacts DEF RType
  <2>2. PICK old \in Segment, other \in Segment : old = seg[id] /\ other = seg[j]
    BY <1>0, SegFacts
  <2>3. PICK sg : sg = [old EXCEPT !.status = other.status, !.prev = j]
    OBVIOUS
  <2>4. sg \in Segment /\ sg.head = old.head /\ sg.tail = old.tail
    BY <2>1, <2>3 DEF Segment
  <2>5. seg' = [seg EXCEPT ![id] = sg]
    BY <1>3, <2>1, <2>2, <2>3
  <2>6. r'.pc = "append next" /\ r'.seg = r.seg
    BY <1>0, <1>3 DEF RType
  <2>7. r.pc # "include tail" /\ r'.pc # "include tail"
    BY <1>0, <2>6
  <2>8. Quiet /\ Ids' = Ids /\ \A i \in Ids \ {id} : seg'[i] = seg[i]
    BY <1>0, <2>2, <2>4, <2>5, <2>7, RewindQuiet
  <2> QED BY <2>1, <2>6, <2>8 DEF OthersStay
<1> QED BY <1>1, <1>2, <1>3 DEF AppendSegmentPrev

LEMMA ValidationFailsWrites ==
    ASSUME Parts, ValidationFails
    PROVE  /\ TailMoves \/ Quiet
           /\ OthersStay /\ r'.pc = "rewound" /\ r'.seg = r.seg
<1>0. RType /\ r' = [r EXCEPT !.pc = "rewound"] /\ UNCHANGED <<blk, p>>
  BY DEF Parts, RInv, ValidationFails
<1>1. r'.pc = "rewound" /\ r'.seg = r.seg
  BY <1>0 DEF RType
<1>2. CASE r.pc = "include tail"
  BY <1>1, <1>2, TailWrites DEF TailMoves, OthersStay
<1>3. CASE r.pc # "include tail"
  <2>1. r.pc = "append segment" /\ seg' = [seg EXCEPT ![r.seg].status = "INVALID"]
    BY <1>3 DEF ValidationFails
  <2> QED BY <1>0, <2>1, InvalidWrites
<1> QED BY <1>2, <1>3

LEMMA AppendSegmentNextWrites ==
    ASSUME Parts, AppendSegmentNext
    PROVE  /\ Quiet /\ r'.pc = "rewound" /\ r'.seg = r.seg
           /\ \A id \in Ids : seg'[id].status = seg[id].status /\ seg'[id].prev = seg[id].prev
<1>0. Data /\ RType /\ RKnown /\ r.pc = "append next" /\ UNCHANGED <<blk, p>>
  BY DEF Parts, SharedInv, RInv, AppendSegmentNext
<1>1. PICK id \in Ids, j \in Ids : id = r.seg /\ j = r.prev /\ id \in 0..MaxSegs
  BY <1>0, KnownId DEF RKnown, RType
<1>2. PICK old \in Segment : old = seg[j]
  BY <1>0, SegFacts
<1>3. PICK sg : sg = [old EXCEPT !.next = id]
  OBVIOUS
<1>4. /\ sg \in Segment /\ sg.head = old.head /\ sg.tail = old.tail
      /\ sg.status = old.status /\ sg.prev = old.prev
  BY <1>1, <1>3 DEF Segment
<1>5. seg' = [seg EXCEPT ![j] = sg]
  BY <1>1, <1>2, <1>3 DEF AppendSegmentNext
<1>6. r'.pc = "rewound" /\ r'.seg = r.seg
  BY <1>0 DEF RType, AppendSegmentNext
<1>7. r.pc # "include tail" /\ r'.pc # "include tail"
  BY <1>0, <1>6
<1>8. Quiet /\ Ids' = Ids /\ seg'[j] = sg /\ \A i \in Ids \ {j} : seg'[i] = seg[i]
  BY <1>0, <1>2, <1>4, <1>5, <1>7, RewindQuiet
<1> QED BY <1>2, <1>4, <1>6, <1>8

\* HandleSegmentUpdated and what follows (chain.go:535-616, segment_store.go:65-98).
LEMMA SegmentUpdatedWrites ==
    ASSUME Parts, SegmentUpdated
    PROVE  /\ Quiet /\ seg' = seg /\ r'.pc \in {"mark head", "push"}
           /\ r'.seg = r.seg \/ seg[r.seg].prev # NoSeg
           /\ r'.pc = "mark head" => lastBlock = None
           /\ r'.seg \in Ids /\ r'.b = seg[r'.seg].head
<1>0. Data /\ RType /\ RKnown /\ r.pc = "rewound" /\ UNCHANGED <<blk, seg, p>> /\ RecordsKnown
  BY DEF Parts, SharedInv, RInv, SegmentUpdated, dbVars
<1>1. PICK id : id = IF seg[r.seg].prev # NoSeg THEN seg[r.seg].prev ELSE r.seg
  OBVIOUS
<1>2. id \in Ids
  BY <1>0, <1>1, KnownId, RFacts DEF RecordsKnown
<1>3. PICK pc \in {"mark head", "push"} :
          /\ r' = [r EXCEPT !.pc = pc, !.seg = id, !.b = seg[id].head, !.bseg = blk[seg[id].head].seg]
          /\ pc = "mark head" => lastBlock = None
  BY <1>1 DEF SegmentUpdated
<1>4. r'.pc = pc /\ r'.seg = id /\ r'.b = seg[id].head
  BY <1>0, <1>3 DEF RType
<1>5. SameChain
  BY <1>0, SameChainOf
<1>6. HandlerStays /\ RewindStays
  BY <1>0, <1>4 DEF HandlerStays, RewindStays
<1>7. Quiet
  BY <1>0, <1>5, <1>6, QuietSegs
<1> QED BY <1>0, <1>1, <1>2, <1>3, <1>4, <1>7

LEMMA LookupFailsWrites ==
    ASSUME Parts, LookupFails
    PROVE  /\ Quiet /\ seg' = seg /\ r'.pc = "push"
           /\ r'.seg = r.seg \/ seg[r.seg].prev # NoSeg
<1>0. Data /\ RType /\ r.pc = "rewound" /\ UNCHANGED <<blk, seg, p>>
  BY DEF Parts, SharedInv, RInv, LookupFails, dbVars
<1>1. PICK id : id = IF seg[r.seg].prev # NoSeg THEN seg[r.seg].prev ELSE r.seg
  OBVIOUS
<1>2. r' = [r EXCEPT !.pc = "push", !.seg = id]
  BY <1>1 DEF LookupFails
<1>3. r'.pc = "push" /\ r'.seg = id
  BY <1>0, <1>2 DEF RType
<1>4. SameChain
  BY <1>0, SameChainOf
<1>5. HandlerStays /\ RewindStays
  BY <1>0, <1>3 DEF HandlerStays, RewindStays
<1>6. Quiet
  BY <1>0, <1>4, <1>5, QuietSegs
<1> QED BY <1>0, <1>1, <1>3, <1>6

\* markAsHead: the segment, then the head (chain.go:917-926).
LEMMA MarkAsHeadReads ==
    ASSUME Parts, MarkAsHead
    PROVE  Quiet /\ seg' = seg /\ r'.pc = "push" /\ r'.seg = r.seg
<1>0. Data /\ RType /\ r.pc = "set head" /\ UNCHANGED <<blk, seg, p>>
  BY DEF Parts, SharedInv, RInv, MarkAsHead
<1>1. r'.pc = "push" /\ r'.seg = r.seg
  BY <1>0 DEF RType, MarkAsHead
<1>2. SameChain
  BY <1>0, SameChainOf
<1>3. HandlerStays /\ RewindStays
  BY <1>0, <1>1 DEF HandlerStays, RewindStays
<1> QED BY <1>0, <1>1, <1>2, <1>3, QuietSegs

LEMMA MarkValidWrites ==
    ASSUME Parts, MarkValid
    PROVE  Quiet /\ OthersStay /\ r'.pc = "set head" /\ r'.seg = r.seg /\ r'.b = r.b
<1>0. Data /\ RType /\ r.pc = "mark head" /\ UNCHANGED <<blk, p>>
  BY DEF Parts, SharedInv, RInv, MarkValid
<1>1. PICK id \in Ids : id = r.seg
  BY <1>0, RFacts
<1>2. PICK old \in Segment : old = seg[id]
  BY <1>0, SegFacts
<1>3. PICK sg : sg = [old EXCEPT !.status = "VALID"]
  OBVIOUS
<1>4. sg \in Segment /\ sg.head = old.head /\ sg.tail = old.tail
  BY <1>3 DEF Segment
<1>5. seg' = [seg EXCEPT ![id] = sg]
  BY <1>1, <1>2, <1>3 DEF MarkValid
<1>6. r'.pc = "set head" /\ r'.seg = r.seg /\ r'.b = r.b
  BY <1>0 DEF RType, MarkValid
<1>7. r.pc # "include tail" /\ r'.pc # "include tail"
  BY <1>0, <1>6
<1>8. Quiet /\ Ids' = Ids /\ \A i \in Ids \ {id} : seg'[i] = seg[i]
  BY <1>0, <1>2, <1>4, <1>5, <1>7, RewindQuiet
<1> QED BY <1>1, <1>6, <1>8 DEF OthersStay

\* The steps that only read.
LEMMA RewindStartReads ==
    ASSUME Parts, RewindStart
    PROVE  \/ r'.pc \in {"rewound", "append segment", "include block"} /\ r'.seg = Head(queue)
           \/ /\ r' = IdleR /\ r'.pc = "idle" /\ seg[Head(queue)].tail # Genesis
              /\ blk[Parent[seg[Head(queue)].tail]].seg = Head(queue)
<1>1. CASE /\ r' = IdleR /\ seg[Head(queue)].tail # Genesis
           /\ blk[Parent[seg[Head(queue)].tail]].seg = Head(queue)
  BY <1>1 DEF IdleR
<1>2. ASSUME NEW pc \in {"rewound", "append segment", "include block"}, NEW b, NEW prev,
             r' = [IdleR EXCEPT !.pc = pc, !.seg = Head(queue), !.b = b, !.prev = prev]
      PROVE  r'.pc = pc /\ r'.seg = Head(queue)
  BY <1>2 DEF IdleR
<1> QED BY <1>1, <1>2 DEF RewindStart

LEMMA RewindReads ==
    ASSUME Parts, RewindStart \/ RewindFails \/ PushSegment
    PROVE  Quiet /\ seg' = seg /\ r'.pc \notin {"mark head", "set head"}
<1>0. Data /\ RType /\ UNCHANGED <<blk, seg, p>>
  BY DEF Parts, SharedInv, RInv, RewindStart, RewindFails, PushSegment, dbVars
<1>1. r.pc # "include tail" /\ r'.pc \notin {"include tail", "mark head", "set head"}
  <2>1. CASE RewindStart
    <3>1. r'.pc \in {"rewound", "append segment", "include block"} \/ r'.pc = "idle"
      BY <2>1, RewindStartReads, Zenon
    <3> QED BY <2>1, <3>1 DEF RewindStart
  <2>2. CASE RewindFails \/ PushSegment
    <3>1. r' = IdleR
      BY <2>2, Zenon DEF RewindFails, PushSegment
    <3>2. r'.pc = "idle"
      BY <3>1 DEF IdleR
    <3>3. r.pc # "include tail"
      BY <2>2 DEF RewindFails, PushSegment
    <3> QED BY <3>2, <3>3
  <2> QED BY <2>1, <2>2
<1>2. SameChain
  BY <1>0, SameChainOf
<1>3. HandlerStays /\ RewindStays
  BY <1>0, <1>1 DEF HandlerStays, RewindStays
<1> QED BY <1>0, <1>1, <1>2, <1>3, QuietSegs

LEMMA StateReads ==
    ASSUME Parts, SNext \/ UNCHANGED vars
    PROVE  Quiet /\ UNCHANGED <<seg, blk, p, r, queue>>
<1>0. Data /\ UNCHANGED <<blk, seg, p, r, queue>>
  BY DEF Parts, SharedInv, SNext, FastForward, SetHeadBlock, vars, dbVars
<1>1. SameChain /\ HandlerStays /\ RewindStays
  BY <1>0, SameChainOf DEF HandlerStays, RewindStays
<1> QED BY <1>0, <1>1, QuietSegs

\* Every step is one of these.
LEMMA StepKinds ==
    ASSUME Parts, [Next]_vars, ~ Crash, ~ RewindPanics
    PROVE  \/ AppendParent \/ AppendOwn \/ AppendHead \/ CreateSegment \/ QueueSegment
           \/ IncludeBlock \/ TailMoves \/ Quiet
<1>1. CASE (\E q \in Peers : \E i \in 1..Len(Sent[q]) : Deliver(q, i)) \/ LookupParent
  BY <1>1, HandlerReads
<1>2. CASE IncludeTail \/ ValidationFails
  BY <1>2, TailWrites, ValidationFailsWrites
<1>3. CASE \/ AppendSegmentPrev \/ AppendSegmentNext
           \/ SegmentUpdated \/ LookupFails \/ MarkValid \/ MarkAsHead
  BY <1>3, AppendSegmentPrevWrites, AppendSegmentNextWrites, SegmentUpdatedWrites,
     LookupFailsWrites, MarkValidWrites, MarkAsHeadReads
<1>4. CASE RewindStart \/ RewindFails \/ PushSegment
  BY <1>4, RewindReads
<1>5. CASE SNext \/ UNCHANGED vars
  BY <1>5, StateReads
<1> QED BY <1>1, <1>2, <1>3, <1>4, <1>5 DEF Next, PNext, RNext

-----------------------------------------------------------------------------
(* Tails come first.                                                       *)

\* A block of a segment descends from its tail, but for the one that is about to
\* become the tail.
FirstIs(b, id) ==
    \/ Descends(seg[id].tail, b)
    \/ r.pc = "include tail" /\ r.seg = id /\ b = Parent[seg[id].tail]
TailFirst == \A b \in Blocks : Recorded(b) => FirstIs(b, blk[b].seg)

\* A step of the rest of the system that moves no tail.
LEMMA FirstStays ==
    ASSUME NEW b, NEW id \in Ids, FirstIs(b, id), seg'[id].tail = seg[id].tail, RewindStays
    PROVE  FirstIs(b, id)'
BY DEF FirstIs, RewindStays, Descends

LEMMA FirstOfRecord ==
    ASSUME Parts, TailFirst, NEW x \in Blocks, NEW n \in Ids, Records(x, n), FirstIs(x, n)',
           RewindStays
    PROVE  TailFirst'
<1> SUFFICES ASSUME NEW b \in Blocks, Recorded(b)' PROVE FirstIs(b, blk[b].seg)'
  BY DEF TailFirst
<1>1. CASE b = x
  BY <1>1 DEF Records, FirstIs
<1>2. CASE b # x
  <2>1. PICK id : id = blk[b].seg /\ id = blk'[b].seg
    BY <1>2 DEF Records
  <2>2. Recorded(b) /\ id \in Ids /\ seg' = seg
    BY <2>1, KnownId DEF Recorded, Parts, SharedInv, RecordsKnown, Records
  <2>3. FirstIs(b, id)
    BY <2>1, <2>2 DEF TailFirst
  <2>4. FirstIs(b, id)'
    BY <2>2, <2>3, FirstStays
  <2> QED BY <2>1, <2>4 DEF FirstIs
<1> QED BY <1>1, <1>2

LEMMA FirstQuiet == ASSUME Parts, TailFirst, Quiet PROVE TailFirst'
<1> SUFFICES ASSUME NEW b \in Blocks, Recorded(b)' PROVE FirstIs(b, blk[b].seg)'
  BY DEF TailFirst
<1>1. PICK id : id = blk[b].seg /\ id = blk'[b].seg
  BY DEF Quiet
<1>2. Recorded(b) /\ id \in Ids
  BY <1>1, KnownId DEF Recorded, Parts, SharedInv, RecordsKnown
<1>3. FirstIs(b, id) /\ seg'[id].tail = seg[id].tail /\ RewindStays
  BY <1>1, <1>2 DEF TailFirst, Quiet, EndsStay
<1>4. FirstIs(b, id)'
  BY <1>2, <1>3, FirstStays
<1> QED BY <1>1, <1>4 DEF FirstIs

LEMMA TailMoved == ASSUME Parts, TailFirst, TailMoves PROVE TailFirst'
<1>0. Including /\ Data
  BY DEF TailMoves, Including, Parts, SharedInv
<1>1. PICK n \in Ids, t \in Blocks \ {Genesis}, y \in Blocks :
          n = r.seg /\ t = r.b /\ t = seg[n].tail /\ y = Parent[t]
  BY <1>0, RFacts
<1> SUFFICES ASSUME NEW b \in Blocks, Recorded(b)' PROVE FirstIs(b, blk[b].seg)'
  BY DEF TailFirst
<1>2. PICK id : id = blk[b].seg /\ id = blk'[b].seg
  BY DEF TailMoves
<1>3. Recorded(b) /\ id \in Ids
  BY <1>2, KnownId DEF Recorded, Parts, SharedInv, RecordsKnown
<1>4. FirstIs(b, id)
  BY <1>2, <1>3 DEF TailFirst
<1>5. CASE id = n
  <2>1. Descends(t, b) \/ b = y
    BY <1>1, <1>4, <1>5 DEF FirstIs
  <2>2. Descends(y, b)
    <3>1. CASE Descends(t, b)
      <4>1. Descends(y, t)
        BY <1>1, DescendsParent
      <4> QED BY <3>1, <4>1, DescendsTrans
    <3>2. CASE b = y
      BY <3>2, DescendsRefl
    <3> QED BY <2>1, <3>1, <3>2
  <2>3. seg'[id].tail = y
    BY <1>1, <1>5 DEF TailMoves
  <2> QED BY <1>2, <2>2, <2>3 DEF FirstIs, Descends
<1>6. CASE id # n
  <2>1. Descends(seg[id].tail, b) /\ seg'[id] = seg[id]
    BY <1>1, <1>3, <1>4, <1>6 DEF FirstIs, TailMoves
  <2> QED BY <1>2, <2>1 DEF FirstIs, Descends
<1> QED BY <1>5, <1>6

LEMMA TailFirstNext ==
    ASSUME Parts, TailFirst, [Next]_vars, ~ Crash, ~ RewindPanics
    PROVE  TailFirst'
<1>1. CASE Quiet
  BY <1>1, FirstQuiet
<1>2. CASE AppendParent
  <2>1. /\ Records(Parent[p.b], p.parent.seg) /\ r' = r /\ p.pc = "append parent"
    BY <1>2, AppendParentWrites
  <2>2. PICK x \in Blocks, n \in Ids : x = Parent[p.b] /\ n = p.parent.seg
    BY <2>1, PFacts DEF Appending
  <2>3. Descends(seg[n].tail, x) /\ seg' = seg /\ Records(x, n) /\ RewindStays
    BY <2>1, <2>2 DEF Parts, PInv, AppendsAtEnd, Records, RewindStays
  <2>4. FirstIs(x, n)'
    BY <2>3 DEF FirstIs, Descends
  <2> QED BY <2>3, <2>4, FirstOfRecord
<1>3. CASE AppendOwn
  <2>1. /\ Records(p.b, p.parent.seg) /\ r' = r /\ p.pc = "append block"
    BY <1>3, AppendOwnWrites
  <2>2. PICK x \in Blocks \ {Genesis}, y \in Blocks, n \in Ids :
            x = p.b /\ y = Parent[x] /\ n = p.parent.seg
    BY <2>1, PFacts DEF Appending
  <2>3. Descends(seg[n].tail, y) /\ seg' = seg /\ Records(x, n) /\ RewindStays
    BY <2>1, <2>2 DEF Parts, PInv, AppendsAtEnd, Records, RewindStays
  <2>4. Descends(seg[n].tail, x)
    <3>1. PICK t \in Blocks : t = seg[n].tail
      BY SegFacts DEF Parts, SharedInv
    <3>2. Descends(y, x)
      BY <2>2, DescendsParent
    <3> QED BY <2>3, <3>1, <3>2, DescendsTrans
  <2>5. FirstIs(x, n)'
    BY <2>3, <2>4 DEF FirstIs, Descends
  <2> QED BY <2>3, <2>5, FirstOfRecord
<1>4. CASE QueueSegment
  <2>1. /\ Records(p.b, p.parent.seg) /\ r' = r /\ p.pc = "new block"
    BY <1>4, QueueSegmentWrites
  <2>2. PICK x \in Blocks, n \in Ids : x = p.b /\ n = p.parent.seg
    BY <2>1, PFacts
  <2>3. Descends(seg[n].tail, x) /\ seg' = seg /\ Records(x, n) /\ RewindStays
    BY <2>1, <2>2 DEF Parts, PInv, AppendsAtEnd, Records, RewindStays
  <2>4. FirstIs(x, n)'
    BY <2>3 DEF FirstIs, Descends
  <2> QED BY <2>3, <2>4, FirstOfRecord
<1>5. CASE IncludeBlock
  <2>1. /\ Records(Parent[r.b], r.seg) /\ r.pc = "include block"
        /\ r'.pc = "include tail" /\ r'.seg = r.seg
    BY <1>5, IncludeBlockWrites
  <2>2. PICK x \in Blocks, n \in Ids : x = Parent[r.b] /\ n = r.seg /\ r.b = seg[n].tail
    BY <2>1, RFacts DEF Including
  <2>3. Records(x, n) /\ seg' = seg
    BY <2>1, <2>2 DEF Records
  <2> SUFFICES ASSUME NEW b \in Blocks, Recorded(b)' PROVE FirstIs(b, blk[b].seg)'
    BY DEF TailFirst
  <2>4. CASE b = x
    BY <2>1, <2>2, <2>3, <2>4 DEF FirstIs, Records
  <2>5. CASE b # x
    <3>1. PICK id : id = blk[b].seg /\ id = blk'[b].seg
      BY <2>3, <2>5 DEF Records
    <3>2. Recorded(b) /\ FirstIs(b, id)
      BY <3>1 DEF Recorded, TailFirst
    <3>3. Descends(seg[id].tail, b)
      BY <2>1, <3>2 DEF FirstIs
    <3> QED BY <2>3, <3>1, <3>3 DEF FirstIs, Descends
  <2> QED BY <2>4, <2>5
<1>6. CASE AppendHead
  <2>1. PICK n : n = p.parent.seg
    OBVIOUS
  <2>2. /\ r' = r /\ blk' = blk /\ n \in Ids /\ Ids' = Ids /\ \A i \in Ids \ {n} : seg'[i] = seg[i]
        /\ seg'[n].tail = seg[n].tail
    BY <1>6, <2>1, AppendHeadWrites
  <2>3. RewindStays
    BY <2>2 DEF RewindStays
  <2> SUFFICES ASSUME NEW b \in Blocks, Recorded(b)' PROVE FirstIs(b, blk[b].seg)'
    BY DEF TailFirst
  <2>4. PICK id : id = blk[b].seg /\ id = blk'[b].seg
    BY <2>2
  <2>5. Recorded(b) /\ id \in Ids
    BY <2>4, KnownId DEF Recorded, Parts, SharedInv, RecordsKnown
  <2>6. FirstIs(b, id) /\ seg'[id].tail = seg[id].tail
    BY <2>2, <2>4, <2>5 DEF TailFirst
  <2>7. FirstIs(b, id)'
    BY <2>3, <2>5, <2>6, FirstStays
  <2> QED BY <2>4, <2>7 DEF FirstIs
<1>7. CASE CreateSegment
  <2>1. r' = r /\ blk' = blk /\ \A i \in Ids : seg'[i] = seg[i]
    <3>1. \A i \in Ids : seg'[i] = seg[i]
      BY <1>7, CreateFacts, Zenon
    <3> QED BY <1>7, <3>1 DEF CreateSegment
  <2>2. RewindStays
    BY <2>1 DEF RewindStays
  <2> SUFFICES ASSUME NEW b \in Blocks, Recorded(b)' PROVE FirstIs(b, blk[b].seg)'
    BY DEF TailFirst
  <2>4. PICK id : id = blk[b].seg /\ id = blk'[b].seg
    BY <2>1
  <2>5. Recorded(b) /\ id \in Ids
    BY <2>4, KnownId DEF Recorded, Parts, SharedInv, RecordsKnown
  <2>6. FirstIs(b, id) /\ seg'[id].tail = seg[id].tail
    BY <2>1, <2>4, <2>5 DEF TailFirst
  <2>7. FirstIs(b, id)'
    BY <2>2, <2>5, <2>6, FirstStays
  <2> QED BY <2>4, <2>7 DEF FirstIs
<1>8. CASE TailMoves
  BY <1>8, TailMoved
<1>9. \/ AppendParent \/ AppendOwn \/ AppendHead \/ CreateSegment \/ QueueSegment
      \/ IncludeBlock \/ TailMoves \/ Quiet
  BY StepKinds
<1> QED BY <1>1, <1>2, <1>3, <1>4, <1>5, <1>6, <1>7, <1>8, <1>9

-----------------------------------------------------------------------------
(* Nothing leaves the queue but its first element (segment_queue.go:35-66).  *)

LEMMA PopLeaves ==
    ASSUME NEW S, NEW q \in Seq(S), q # <<>>, NEW x, Contains(q, x), x # Head(q)
    PROVE  Contains(PopRest(q), x)
<1>1. PICK n \in Nat : n = Len(q)
  OBVIOUS
<1>2. PICK i \in 1..n : q[i] = x
  BY <1>1 DEF Contains
<1>3. i # 1 /\ n >= 2
  <2>1. Head(q) = q[1]
    OBVIOUS
  <2>2. i # 1
    BY <1>2, <2>1
  <2> QED BY <1>2, <2>2
<1>4. /\ SubSeq(q, 2, n - 1) \in Seq(S) /\ Len(SubSeq(q, 2, n - 1)) = n - 2
      /\ \A k \in 1..(n - 2) : SubSeq(q, 2, n - 1)[k] = q[k + 1]
  BY <1>1, <1>3
<1>5. q[n] \in S /\ <<q[n]>> \in Seq(S)
  BY <1>1, <1>3
<1>6. PICK t \in Seq(S) : t = SubSeq(q, 2, n - 1)
  BY <1>4
<1>7. PICK u : u = <<q[n]>> \o t
  OBVIOUS
<1>8. /\ Len(u) = 1 + Len(t) /\ u[1] = q[n]
      /\ \A k \in 1..Len(t) : u[k + 1] = t[k]
  BY <1>5, <1>7
<1>9. Len(t) = n - 2 /\ Len(u) = n - 1
  BY <1>1, <1>3, <1>4, <1>6, <1>8
<1>10. \E k \in 1..(n - 1) : u[k] = x
  <2>1. CASE i = n
    <3>1. 1 \in 1..(n - 1) /\ u[1] = x
      BY <1>2, <1>3, <1>8, <2>1
    <3> QED BY <3>1, Zenon
  <2>2. CASE i # n
    <3>1. PICK k \in 1..(n - 2) : i = k + 1
      BY <1>1, <1>3, <2>2
    <3>2. u[i] = x
      BY <1>2, <1>4, <1>6, <1>8, <1>9, <3>1
    <3>3. i \in 1..(n - 1)
      BY <1>1, <2>2
    <3> QED BY <3>2, <3>3, Zenon
  <2> QED BY <2>1, <2>2
<1>11. PopRest(q) = u
  <2>1. Len(q) # 1
    BY <1>1, <1>3
  <2> QED BY <1>1, <1>6, <1>7, <2>1 DEF PopRest, Last
<1> QED BY <1>9, <1>10, <1>11 DEF Contains

LEMMA PushLeaves ==
    ASSUME NEW S, NEW q \in Seq(S), NEW x \in S
    PROVE  Contains(Push(q, x), x) /\ \A y : Contains(q, y) => Contains(Push(q, x), y)
<1>1. CASE Contains(q, x)
  BY <1>1 DEF Push
<1>2. CASE ~ Contains(q, x)
  <2>1. PICK u : u = Append(q, x)
    OBVIOUS
  <2>2. PICK n \in Nat : n = Len(q)
    OBVIOUS
  <2>3. Len(u) = n + 1 /\ u[n + 1] = x /\ \A i \in 1..n : u[i] = q[i]
    BY <2>1, <2>2
  <2>4. n + 1 \in 1..(n + 1) /\ \A i \in 1..n : i \in 1..(n + 1)
    OBVIOUS
  <2>5. Contains(u, x)
    BY <2>3, <2>4 DEF Contains
  <2>6. \A y : Contains(q, y) => Contains(u, y)
    BY <2>2, <2>3, <2>4 DEF Contains
  <2> QED BY <1>2, <2>1, <2>5, <2>6 DEF Push
<1> QED BY <1>1, <1>2

-----------------------------------------------------------------------------
(* No segment is forgotten.                                                *)

\* A segment without a known parent waits, or is worked on.
Waits(id) == seg[id].status = "DISJOINTED" /\ seg[id].prev = NoSeg
Kept(id) ==
    Contains(queue, id) \/ r.seg = id \/ (p.pc = "new block" /\ p.parent.seg = id)

IdleRewind == r.pc = "idle" => r.seg = NoSeg

QueueKeeps == TailFirst /\ IdleRewind /\ \A id \in Ids : Waits(id) => Kept(id)

LEMMA KeepsQueued == QueueKeeps => DisjointedQueued
BY DEF QueueKeeps, DisjointedQueued, Waits, Kept, Ids

\* What is kept while another goroutine moves.
LEMMA KeptStays ==
    ASSUME NEW id, Kept(id), \A x : Contains(queue, x) => Contains(queue', x),
           r'.seg = r.seg, p' = p \/ p.pc # "new block"
    PROVE  Kept(id)'
BY DEF Kept

LEMMA RewindStartKeeps == ASSUME Parts, QueueKeeps, RewindStart PROVE QueueKeeps'
<1>0. /\ seg' = seg /\ p' = p /\ blk' = blk /\ queue' = PopRest(queue) /\ queue # <<>>
      /\ r.pc = "idle" /\ queue \in Seq(Nat) /\ TailFirst /\ Data
  BY DEF RewindStart, dbVars, Parts, SharedInv, QueueInv, QueueKeeps
<1>1. TailFirst'
  BY <1>0, RewindReads, FirstQuiet
<1>2. PICK n \in Ids : n = Head(queue) /\ n # NoSeg
  <2>1. Known(Head(queue))
    <3>1. KnownStays
      BY <1>0 DEF KnownStays, Known
    <3> QED BY <1>0, <3>1, PopKeeps
  <2> QED BY <2>1, KnownId
<1>3. r'.seg = n /\ r'.pc # "idle"
  <2>1. CASE r'.pc \in {"rewound", "append segment", "include block"} /\ r'.seg = Head(queue)
    BY <1>2, <2>1
  <2>2. CASE seg[n].tail # Genesis /\ blk[Parent[seg[n].tail]].seg = n
    <3>1. PICK t \in Blocks \ {Genesis}, y \in Blocks : t = seg[n].tail /\ y = Parent[t]
      BY <1>0, <2>2, SegFacts, ParentFacts
    <3>2. Descends(t, y)
      BY <1>0, <1>2, <2>2, <3>1 DEF TailFirst, FirstIs, Recorded
    <3>3. Height[t] <= Height[y]
      BY <3>2, DescendsHeight
    <3> QED BY <3>1, <3>3, ParentFacts, ChainSyncAssumption
  <2> QED BY <1>2, <2>1, <2>2, RewindStartReads
<1>4. r.seg = NoSeg
  BY <1>0 DEF QueueKeeps, IdleRewind
<1>5. ASSUME NEW id \in Ids, Waits(id) PROVE Kept(id)'
  <2>1. CASE id = n
    BY <1>3, <2>1 DEF Kept
  <2>2. CASE id # n
    <3>1. Kept(id) /\ id # NoSeg
      BY <1>0, <1>5, IdsBounded DEF QueueKeeps
    <3>2. CASE Contains(queue, id)
      <4>1. Contains(queue', id)
        BY <1>0, <1>2, <2>2, <3>2, PopLeaves
      <4> QED BY <4>1 DEF Kept
    <3>3. CASE p.pc = "new block" /\ p.parent.seg = id
      BY <1>0, <3>3 DEF Kept
    <3> QED BY <1>4, <3>1, <3>2, <3>3 DEF Kept
  <2> QED BY <2>1, <2>2
<1>6. \A id \in Ids' : Waits(id)' => Kept(id)'
  BY <1>0, <1>5 DEF Ids, Waits
<1> QED BY <1>1, <1>3, <1>6 DEF QueueKeeps, IdleRewind

\* A step of the rewind loop that goes on with the segment it has, or is done with it.
LEMMA RewindKeeps ==
    ASSUME Parts, QueueKeeps, TailFirst', r.pc # "idle", p' = p,
           queue' = queue, r'.pc = "idle" => r'.seg = NoSeg, Ids' = Ids,
           \A id \in Ids : Waits(id)' => /\ id = r.seg => r'.seg = id
                                         /\ id # r.seg => Waits(id)
    PROVE  QueueKeeps'
<1>1. ASSUME NEW id \in Ids, Waits(id)' PROVE Kept(id)'
  <2>1. CASE id = r.seg
    BY <1>1, <2>1 DEF Kept
  <2>2. CASE id # r.seg
    <3>1. Kept(id)
      BY <1>1, <2>2 DEF QueueKeeps
    <3> QED BY <2>2, <3>1 DEF Kept
  <2> QED BY <2>1, <2>2
<1> QED BY <1>1 DEF QueueKeeps, IdleRewind

LEMMA PushSegmentKeeps ==
    ASSUME Parts, QueueKeeps, TailFirst', PushSegment PROVE QueueKeeps'
<1>0. /\ seg' = seg /\ p' = p /\ r' = IdleR /\ r.pc = "push" /\ queue \in Seq(Nat)
      /\ queue' = IF seg[r.seg].status = "DISJOINTED" THEN Push(queue, r.seg) ELSE queue
  BY DEF PushSegment, dbVars, Parts, QueueInv
<1>1. r'.pc = "idle" /\ r'.seg = NoSeg
  BY <1>0 DEF IdleR
<1>2. PICK n \in Ids : n = r.seg /\ n \in Nat
  BY <1>0, RFacts DEF Ids
<1>3. /\ \A x : Contains(queue, x) => Contains(queue', x)
      /\ seg[n].status = "DISJOINTED" => Contains(queue', n)
  <2>1. CASE queue' = queue /\ seg[n].status # "DISJOINTED"
    BY <2>1
  <2>2. CASE queue' = Push(queue, n)
    BY <1>0, <1>2, <2>2, PushLeaves
  <2> QED BY <1>0, <1>2, <2>1, <2>2
<1>4. ASSUME NEW id \in Ids, Waits(id) PROVE Kept(id)'
  <2>1. CASE id = n
    BY <1>3, <1>4, <2>1 DEF Waits, Kept
  <2>2. CASE id # n
    <3>1. Kept(id)
      BY <1>4 DEF QueueKeeps
    <3> QED BY <1>0, <1>2, <1>3, <2>2, <3>1 DEF Kept
  <2> QED BY <2>1, <2>2
<1>5. \A id \in Ids' : Waits(id)' => Kept(id)'
  BY <1>0, <1>4 DEF Ids, Waits
<1> QED BY <1>1, <1>5 DEF QueueKeeps, IdleRewind

\* A step of the commit handler or of the state loop.
LEMMA OtherKeeps ==
    ASSUME QueueKeeps, TailFirst', r' = r, p' = p \/ p.pc # "new block", queue' = queue,
           Ids' = Ids, \A id \in Ids : Waits(id)' => Waits(id)
    PROVE  QueueKeeps'
<1>1. ASSUME NEW id \in Ids, Waits(id)' PROVE Kept(id)'
  <2>1. Kept(id)
    BY <1>1 DEF QueueKeeps
  <2> QED BY <2>1 DEF Kept
<1> QED BY <1>1 DEF QueueKeeps, IdleRewind

LEMMA CreateSegmentKeeps ==
    ASSUME Parts, QueueKeeps, TailFirst', CreateSegment PROVE QueueKeeps'
<1>0. r' = r /\ queue' = queue /\ p.pc = "new segment"
  BY DEF CreateSegment
<1>1. PICK n : /\ \A i \in Ids : seg'[i] = seg[i]
               /\ Ids' = Ids \cup {n} /\ p'.pc = "new block" /\ p'.parent.seg = n
  BY CreateFacts, Zenon
<1>2. ASSUME NEW id \in Ids', Waits(id)' PROVE Kept(id)'
  <2>1. CASE id = n
    BY <1>1, <2>1 DEF Kept
  <2>2. CASE id \in Ids
    <3>1. Kept(id)
      BY <1>1, <1>2, <2>2 DEF QueueKeeps, Waits
    <3> QED BY <1>0, <3>1 DEF Kept
  <2> QED BY <1>1, <2>1, <2>2
<1> QED BY <1>0, <1>2 DEF QueueKeeps, IdleRewind

LEMMA QueueSegmentKeeps ==
    ASSUME Parts, QueueKeeps, TailFirst', QueueSegment PROVE QueueKeeps'
<1>0. /\ r' = r /\ seg' = seg /\ p.pc = "new block" /\ queue \in Seq(Nat)
      /\ queue' = Push(queue, p.parent.seg)
  BY DEF QueueSegment, Parts, QueueInv
<1>a. p.parent.seg \in Ids
  BY PFacts DEF QueueSegment
<1>1. PICK n \in Ids : n = p.parent.seg
  BY <1>a
<1>1a. n \in Nat /\ queue' = Push(queue, n)
  <2>1. n \in Nat
    BY DEF Ids
  <2> QED BY <1>0, <1>1, <2>1
<1>2. Contains(queue', n) /\ \A x : Contains(queue, x) => Contains(queue', x)
  <2>1. PICK q \in Seq(Nat) : q = queue
    BY <1>0
  <2>2. Contains(Push(q, n), n) /\ \A x : Contains(q, x) => Contains(Push(q, n), x)
    BY <1>1a, PushLeaves
  <2> QED BY <1>1a, <2>1, <2>2, Zenon
<1>3. ASSUME NEW id \in Ids, Waits(id) PROVE Kept(id)'
  <2>1. Kept(id)
    BY <1>3 DEF QueueKeeps
  <2> QED BY <1>0, <1>1, <1>2, <2>1 DEF Kept
<1>4. \A id \in Ids' : Waits(id)' => Kept(id)'
  BY <1>0, <1>3 DEF Ids, Waits
<1> QED BY <1>0, <1>4 DEF QueueKeeps, IdleRewind

LEMMA QueueKeepsNext ==
    ASSUME Parts, QueueKeeps, [Next]_vars, ~ Crash, ~ RewindPanics, ~ RewindFails
    PROVE  QueueKeeps'
<1>0. TailFirst'
  BY TailFirstNext DEF QueueKeeps
<1>1. CASE SNext \/ UNCHANGED vars
  <2>1. UNCHANGED <<seg, p, r, queue>>
    BY <1>1, StateReads
  <2> QED BY <1>0, <2>1, OtherKeeps DEF Ids, Waits
<1>2. CASE \/ \E q \in Peers : \E i \in 1..Len(Sent[q]) : Deliver(q, i)
           \/ LookupParent \/ AppendParent \/ AppendOwn
  <2>1. UNCHANGED <<seg, r, queue>> /\ p.pc # "new block"
    BY <1>2 DEF Deliver, LookupParent, AppendParent, AppendOwn, dbVars
  <2> QED BY <1>0, <2>1, OtherKeeps DEF Ids, Waits
<1>3. CASE AppendHead
  <2>1. PICK n : n = p.parent.seg
    OBVIOUS
  <2>2. /\ p.pc = "append head" /\ r' = r /\ Ids' = Ids /\ \A i \in Ids \ {n} : seg'[i] = seg[i]
        /\ seg'[n].prev = seg[n].prev
        /\ seg'[n].status = "DISJOINTED" => seg[n].status = "DISJOINTED"
    BY <1>3, <2>1, AppendHeadWrites
  <2>3. \A id \in Ids : Waits(id)' => Waits(id)
    BY <2>2 DEF Waits
  <2>4. queue' = queue /\ p.pc # "new block"
    BY <1>3 DEF AppendHead
  <2> QED BY <1>0, <2>2, <2>3, <2>4, OtherKeeps
<1>4. CASE CreateSegment \/ QueueSegment
  BY <1>0, <1>4, CreateSegmentKeeps, QueueSegmentKeeps
<1>5. CASE RewindStart \/ PushSegment
  BY <1>0, <1>5, RewindStartKeeps, PushSegmentKeeps
<1>6. CASE IncludeBlock
  <2>1. r.pc = "include block" /\ r'.pc = "include tail" /\ r'.seg = r.seg /\ p' = p /\ seg' = seg
    BY <1>6, IncludeBlockWrites DEF Records
  <2>2. r.pc # "idle" /\ r'.pc # "idle"
    BY <2>1
  <2>3. queue' = queue
    BY <1>6 DEF IncludeBlock
  <2> QED BY <1>0, <2>1, <2>2, <2>3, RewindKeeps DEF Ids, Waits
<1>7. ASSUME OthersStay, r.pc # "idle", r'.pc # "idle", r'.seg = r.seg, UNCHANGED <<p, queue>>
      PROVE  QueueKeeps'
  <2>1. Ids' = Ids /\ \A id \in Ids : id # r.seg => (Waits(id)' => Waits(id))
    BY <1>7 DEF OthersStay, Waits
  <2> QED BY <1>0, <1>7, <2>1, RewindKeeps
<1>8. CASE IncludeTail \/ ValidationFails \/ MarkValid \/ MarkAsHead
  <2>1. UNCHANGED <<p, queue>> /\ r.pc # "idle"
    BY <1>8 DEF IncludeTail, ValidationFails, MarkValid, MarkAsHead
  <2>2. OthersStay /\ r'.seg = r.seg /\ r'.pc # "idle"
    <3>1. CASE IncludeTail
      BY <3>1, TailWrites DEF TailMoves, OthersStay
    <3>2. CASE ValidationFails
      BY <3>2, ValidationFailsWrites
    <3>3. CASE MarkValid
      BY <3>3, MarkValidWrites
    <3>4. CASE MarkAsHead
      BY <3>4, MarkAsHeadReads DEF OthersStay, Ids
    <3> QED BY <1>8, <3>1, <3>2, <3>3, <3>4
  <2> QED BY <1>7, <2>1, <2>2
<1>9. CASE AppendSegmentPrev
  <2>1. UNCHANGED <<p, queue>> /\ r.pc # "idle"
    BY <1>9 DEF AppendSegmentPrev
  <2>2. CASE seg' = seg /\ r'.seg = NoSeg /\ seg[r.seg].status # "DISJOINTED"
    <3>1. Ids' = Ids /\ \A id \in Ids : Waits(id)' => id # r.seg /\ Waits(id)
      BY <2>2 DEF Ids, Waits
    <3> QED BY <1>0, <2>1, <2>2, <3>1, RewindKeeps
  <2>3. CASE OthersStay /\ r'.seg = r.seg /\ r'.pc # "idle"
    BY <1>7, <2>1, <2>3
  <2>4. \/ seg' = seg /\ r'.seg = NoSeg /\ seg[r.seg].status # "DISJOINTED"
        \/ OthersStay /\ r'.seg = r.seg /\ r'.pc # "idle"
    BY <1>9, AppendSegmentPrevWrites
  <2> QED BY <2>2, <2>3, <2>4
<1>10. CASE AppendSegmentNext
  <2>1. UNCHANGED <<p, queue>> /\ r.pc # "idle"
    BY <1>10 DEF AppendSegmentNext
  <2>2. /\ r'.pc = "rewound" /\ r'.seg = r.seg /\ Ids' = Ids
        /\ \A id \in Ids : seg'[id].status = seg[id].status /\ seg'[id].prev = seg[id].prev
    BY <1>10, AppendSegmentNextWrites DEF Quiet
  <2>3. r'.pc # "idle" /\ \A id \in Ids : Waits(id)' => Waits(id)
    BY <2>2 DEF Waits
  <2> QED BY <1>0, <2>1, <2>2, <2>3, RewindKeeps
<1>11. CASE SegmentUpdated \/ LookupFails
  <2>1. UNCHANGED <<p, queue>> /\ r.pc # "idle"
    BY <1>11 DEF SegmentUpdated, LookupFails
  <2>2. seg' = seg /\ (r'.seg = r.seg \/ seg[r.seg].prev # NoSeg) /\ r'.pc # "idle"
    BY <1>11, SegmentUpdatedWrites, LookupFailsWrites
  <2>3. /\ Ids' = Ids
        /\ \A id \in Ids : Waits(id)' => /\ id = r.seg => r'.seg = id
                                         /\ id # r.seg => Waits(id)
    BY <2>2 DEF Ids, Waits
  <2> QED BY <1>0, <2>1, <2>2, <2>3, RewindKeeps
<1> QED BY <1>1, <1>2, <1>3, <1>4, <1>5, <1>6, <1>8, <1>9, <1>10, <1>11 DEF Next, PNext, RNext

LEMMA QueueKeepsInit == ASSUME ~ Founder, Init PROVE QueueKeeps
<1>1. blk = [b \in Blocks |-> NoRecord] /\ seg = <<>> /\ r = IdleR
  BY DEF Init
<1>2. NoRecord.seg = NoSeg /\ r.seg = NoSeg
  BY <1>1 DEF NoRecord, IdleR
<1>3. \A b \in Blocks : ~ Recorded(b)
  BY <1>1, <1>2 DEF Recorded
<1>4. Ids = {}
  <2>1. Len(seg) = 0
    BY <1>1
  <2> QED BY <2>1 DEF Ids
<1> QED BY <1>2, <1>3, <1>4 DEF QueueKeeps, TailFirst, IdleRewind

\* No block is skipped for good: as long as the process runs and can fetch blocks, a
\* segment of a node that joined the chain waits in the queue until its parent is
\* known, whatever the forks and the interleaving of the handler, the rewind loop and
\* the state loop, and also if validation fails for want of a config
\* (segment_store.go:65-98).
THEOREM WaitingIsQueued ==
    ASSUME ~ Founder PROVE Spec /\ Undisturbed => []DisjointedQueued
<1>1. Init => IInv /\ QueueKeeps
  BY PartsInit, QueueKeepsInit, Forms
<1>2. /\ IInv /\ QueueKeeps /\ [Next]_vars
      /\ [~ Crash /\ ~ RewindPanics /\ ~ RewindFails]_vars
      => (IInv /\ QueueKeeps)'
  <2>1. IInv /\ [Next]_vars => IInv'
    BY PartsNext, Forms, PTL
  <2>2. ASSUME IInv, QueueKeeps, [Next]_vars,
               [~ Crash /\ ~ RewindPanics /\ ~ RewindFails]_vars
        PROVE  QueueKeeps'
    <3>1. Parts
      BY <2>2, Forms
    <3>2. CASE UNCHANGED vars
      <4>1. UNCHANGED <<blk, seg, queue, p, r>>
        BY <3>2 DEF vars, dbVars
      <4> QED BY <2>2, <4>1
              DEF QueueKeeps, TailFirst, FirstIs, Recorded, Descends, IdleRewind, Waits, Kept, Ids
    <3>3. CASE ~ Crash /\ ~ RewindPanics /\ ~ RewindFails
      BY <2>2, <3>1, <3>3, QueueKeepsNext
    <3> QED BY <2>2, <3>2, <3>3
  <2> QED BY <2>1, <2>2
<1>3. QueueKeeps => DisjointedQueued
  BY KeepsQueued
<1> QED BY <1>1, <1>2, <1>3, PTL DEF Spec, Undisturbed

-----------------------------------------------------------------------------
(* Heads come last, with one proposer.                                     *)

\* A block of a segment has the segment's head after it, but for the one that is
\* about to become the head.
LastIs(b, id) == Descends(b, seg[id].head) \/ (p.pc = "append head" /\ b = p.b)
HeadLast == \A b \in Blocks : Recorded(b) => LastIs(b, blk[b].seg)

\* Every segment has its ends, but for the one that is being stored.
AllOwned == \A id \in Ids : Owned(id) \/ (p.pc = "new block" /\ id = p.parent.seg)

PathInv == TailFirst /\ HeadLast /\ AllOwned

\* No block changes its segment.
LEMMA RecordsKept ==
    ASSUME Parts, LineInv, [Next]_vars, ~ Crash, ~ RewindPanics
    PROVE  RecordsStay
<1>0. PLine /\ RLine /\ Arrivals
  BY DEF LineInv
<1>1. CASE Quiet
  BY <1>1 DEF Quiet, RecordsStay
<1>2. CASE TailMoves \/ AppendHead \/ CreateSegment
  <2>1. blk' = blk
    BY <1>2 DEF TailMoves, AppendHead, CreateSegment
  <2> QED BY <2>1 DEF RecordsStay
<1>3. CASE AppendParent
  <2>1. Records(Parent[p.b], p.parent.seg) /\ p.pc = "append parent"
    BY <1>3, AppendParentWrites
  <2>2. blk[Parent[p.b]].seg = p.parent.seg
    BY <1>0, <2>1 DEF PLine, Appending
  <2> QED BY <2>1, <2>2 DEF Records, RecordsStay
<1>4. CASE AppendOwn \/ QueueSegment
  <2>1. Records(p.b, p.parent.seg) /\ p.pc \in {"append block", "new block"}
    BY <1>4, AppendOwnWrites, QueueSegmentWrites
  <2>2. \A b \in Blocks : Recorded(b) => b # p.b
    BY <1>0, <2>1 DEF Arrivals
  <2> QED BY <2>1, <2>2 DEF Records, RecordsStay
<1>5. CASE IncludeBlock
  <2>1. Records(Parent[r.b], r.seg) /\ r.pc = "include block"
    BY <1>5, IncludeBlockWrites
  <2>2. ~ Recorded(Parent[r.b])
    BY <1>0, <2>1 DEF RLine
  <2> QED BY <2>1, <2>2 DEF Records, RecordsStay
<1> QED BY <1>1, <1>2, <1>3, <1>4, <1>5, StepKinds

LEMMA OwnedKept ==
    ASSUME Parts, LineInv, LineInv', RecordsStay, NEW id, Owned(id)
    PROVE  Owned(id)'
<1>1. Data /\ id \in Ids /\ id # NoSeg
  BY IdsBounded DEF Parts, SharedInv, Owned
<1>2. PICK h \in Blocks : h = seg[id].head
  BY <1>1, SegFacts
<1>3. blk'[h].seg = id
  BY <1>1, <1>2 DEF Owned, RecordsStay, Recorded
<1>4. SegsOwned' /\ Recorded(h)'
  BY <1>1, <1>3 DEF LineInv, Line, Recorded
<1>5. Owned(blk[h].seg)'
  BY <1>4 DEF SegsOwned
<1> QED BY <1>3, <1>5 DEF Owned

LEMMA AllOwnedNext ==
    ASSUME Parts, LineInv, LineInv', AllOwned, [Next]_vars, ~ Crash, ~ RewindPanics
    PROVE  AllOwned'
<1>0. RecordsStay
  BY RecordsKept
<1>1. ASSUME NEW id, Owned(id) PROVE Owned(id)'
  BY <1>0, <1>1, OwnedKept
<1>2. CASE Ids' = Ids /\ (p' = p \/ p.pc # "new block")
  <2> SUFFICES ASSUME NEW id \in Ids PROVE Owned(id)' \/ (p'.pc = "new block" /\ id = p'.parent.seg)
    BY <1>2 DEF AllOwned
  <2> QED BY <1>1, <1>2 DEF AllOwned
<1>3. CASE Quiet
  BY <1>2, <1>3 DEF Quiet, HandlerStays
<1>4. CASE TailMoves
  BY <1>2, <1>4 DEF TailMoves
<1>5. CASE AppendParent \/ AppendOwn \/ AppendHead
  <2>1. Ids' = Ids
    BY <1>5, AppendParentWrites, AppendOwnWrites, AppendHeadWrites DEF Records
  <2>2. p.pc # "new block"
    BY <1>5 DEF AppendParent, AppendOwn, AppendHead
  <2> QED BY <1>2, <2>1, <2>2
<1>6. CASE IncludeBlock
  BY <1>2, <1>6, IncludeBlockWrites DEF Records
<1>7. CASE QueueSegment
  <2>1. Records(p.b, p.parent.seg) /\ p.pc = "new block" /\ Ids' = Ids
    BY <1>7, QueueSegmentWrites DEF Records
  <2>2. PICK x \in Blocks, n \in Ids : x = p.b /\ n = p.parent.seg /\ n # NoSeg
    BY <2>1, PFacts
  <2>3. blk'[x].seg = n /\ Recorded(x)' /\ SegsOwned'
    BY <2>1, <2>2 DEF Records, Recorded, LineInv, Line
  <2>4. Owned(blk[x].seg)'
    BY <2>3 DEF SegsOwned
  <2>5. Owned(n)'
    BY <2>3, <2>4 DEF Owned
  <2> SUFFICES ASSUME NEW id \in Ids PROVE Owned(id)'
    BY <2>1 DEF AllOwned
  <2> QED BY <1>1, <2>2, <2>5 DEF AllOwned
<1>8. CASE CreateSegment
  <2>1. PICK n : Ids' = Ids \cup {n} /\ p'.pc = "new block" /\ p'.parent.seg = n
    BY <1>8, CreateFacts, Zenon
  <2>2. p.pc # "new block"
    BY <1>8 DEF CreateSegment
  <2>3. \A id \in Ids : Owned(id)'
    BY <1>1, <2>2 DEF AllOwned
  <2> QED BY <2>1, <2>3 DEF AllOwned
<1> QED BY <1>3, <1>4, <1>5, <1>6, <1>7, <1>8, StepKinds

LEMMA LastStays ==
    ASSUME NEW b, NEW id, LastIs(b, id), seg'[id].head = seg[id].head,
           p' = p \/ p.pc # "append head"
    PROVE  LastIs(b, id)'
BY DEF LastIs, Descends

\* A step that moves no head.
LEMMA LastKept ==
    ASSUME Parts, HeadLast, p' = p \/ p.pc # "append head",
           \A id \in Ids : seg'[id].head = seg[id].head,
           \A b \in Blocks : Recorded(b)' => blk'[b].seg = blk[b].seg \/ LastIs(b, blk[b].seg)'
    PROVE  HeadLast'
<1> SUFFICES ASSUME NEW b \in Blocks, Recorded(b)', blk'[b].seg = blk[b].seg
             PROVE  LastIs(b, blk[b].seg)'
  BY DEF HeadLast
<1>1. PICK id : id = blk[b].seg /\ id = blk'[b].seg
  OBVIOUS
<1>2. Recorded(b) /\ id \in Ids
  BY <1>1, KnownId DEF Recorded, Parts, SharedInv, RecordsKnown
<1>3. LastIs(b, id)
  BY <1>1, <1>2 DEF HeadLast
<1>4. LastIs(b, id)'
  BY <1>2, <1>3, LastStays
<1> QED BY <1>1, <1>4 DEF LastIs

LEMMA TopIs ==
    ASSUME OneProposer, NEW a \in Blocks, NEW b \in Blocks, Descends(a, b), Height[a] >= Height[b]
    PROVE  a = b
<1>1. Height[a] <= Height[b] /\ Height[a] \in Nat /\ Height[b] \in Nat
  BY DescendsHeight
<1>2. Height[a] = Height[b]
  BY <1>1
<1> QED BY <1>2 DEF OneProposer

\* A block is appended to its parent.
LEMMA HeadIsParent ==
    ASSUME OneProposer, Parts, LineInv, HeadLast, p.pc = "append head"
    PROVE  seg[p.parent.seg].head = Parent[p.b]
<1>0. Appending /\ Data /\ PLine /\ AppendsAtEnd
  BY DEF Appending, Parts, SharedInv, PInv, LineInv
<1>1. PICK n \in Ids, x \in Blocks \ {Genesis}, y \in Blocks :
          n = p.parent.seg /\ n # NoSeg /\ x = p.b /\ y = Parent[x]
  BY <1>0, PFacts
<1>2. PICK h \in Blocks : h = seg[n].head
  BY <1>0, SegFacts
<1>3. blk[y].seg = n /\ Height[y] >= Height[h]
  <2>1. blk[y].seg = n
    BY <1>0, <1>1 DEF PLine
  <2>2. Height[y] >= Height[h]
    BY <1>1, <1>2 DEF Parts, PInv, AppendsAtEnd
  <2> QED BY <2>1, <2>2
<1>4. LastIs(y, n) /\ y # x
  BY <1>1, <1>3, ParentFacts DEF HeadLast, Recorded
<1>5. Descends(y, h)
  BY <1>1, <1>2, <1>4 DEF LastIs
<1>6. y = h
  BY <1>3, <1>5, TopIs
<1> QED BY <1>1, <1>2, <1>6

LEMMA HeadLastNext ==
    ASSUME OneProposer, Parts, LineInv, HeadLast, [Next]_vars, ~ Crash, ~ RewindPanics
    PROVE  HeadLast'
<1>1. CASE Quiet
  BY <1>1, LastKept DEF Quiet, EndsStay, HandlerStays
<1>2. CASE TailMoves
  <2>1. p' = p /\ blk' = blk /\ \A id \in Ids : seg'[id].head = seg[id].head
    BY <1>2 DEF TailMoves
  <2> QED BY <2>1, LastKept
<1>3. CASE AppendParent
  <2>1. /\ Records(Parent[p.b], p.parent.seg) /\ p.pc = "append parent" /\ seg' = seg
    BY <1>3, AppendParentWrites DEF Records
  <2>2. blk[Parent[p.b]].seg = p.parent.seg
    BY <2>1 DEF LineInv, PLine, Appending
  <2>3. \A b \in Blocks : blk'[b].seg = blk[b].seg
    BY <2>1, <2>2 DEF Records
  <2>4. p.pc # "append head"
    BY <2>1
  <2> QED BY <2>1, <2>3, <2>4, LastKept
<1>4. CASE AppendOwn
  <2>1. /\ Records(p.b, p.parent.seg) /\ p.pc = "append block" /\ seg' = seg
        /\ p'.pc = "append head" /\ p'.b = p.b
    BY <1>4, AppendOwnWrites DEF Records
  <2>2. \A b \in Blocks : blk'[b].seg = blk[b].seg \/ LastIs(b, blk[b].seg)'
    BY <2>1 DEF Records, LastIs
  <2>3. p.pc # "append head"
    BY <2>1
  <2> QED BY <2>1, <2>2, <2>3, LastKept
<1>5. CASE QueueSegment
  <2>1. Records(p.b, p.parent.seg) /\ p.pc = "new block" /\ seg' = seg
    BY <1>5, QueueSegmentWrites DEF Records
  <2>2. PICK x \in Blocks, n \in Ids : x = p.b /\ n = p.parent.seg /\ seg[n].head = x
    BY <2>1, PFacts DEF Parts, PInv, PKnown
  <2>3. Descends(x, x)
    BY DescendsRefl
  <2>4. \A b \in Blocks : blk'[b].seg = blk[b].seg \/ LastIs(b, blk[b].seg)'
    BY <2>1, <2>2, <2>3 DEF Records, LastIs, Descends
  <2>5. p.pc # "append head"
    BY <2>1
  <2> QED BY <2>1, <2>4, <2>5, LastKept
<1>6. CASE IncludeBlock
  <2>1. Records(Parent[r.b], r.seg) /\ r.pc = "include block" /\ p' = p /\ seg' = seg
    BY <1>6, IncludeBlockWrites DEF Records
  <2>2. PICK t \in Blocks \ {Genesis}, x \in Blocks, n \in Ids :
            x = Parent[t] /\ t = r.b /\ n = r.seg /\ t = seg[n].tail
    BY <2>1, RFacts DEF Including
  <2>3. PICK h \in Blocks : h = seg[n].head
    BY SegFacts DEF Parts, SharedInv
  <2>4. Descends(t, h)
    BY <2>2, <2>3 DEF Parts, SharedInv, SegmentsOrdered, Ids
  <2>5. Descends(x, h)
    <3>1. Descends(x, t)
      BY <2>2, DescendsParent
    <3> QED BY <2>4, <3>1, DescendsTrans
  <2>6. \A b \in Blocks : blk'[b].seg = blk[b].seg \/ LastIs(b, blk[b].seg)'
    BY <2>1, <2>2, <2>3, <2>5 DEF Records, LastIs, Descends
  <2> QED BY <2>1, <2>6, LastKept
<1>7. CASE CreateSegment
  <2>1. \A i \in Ids : seg'[i] = seg[i]
    BY <1>7, CreateFacts, Zenon
  <2>2. p.pc # "append head" /\ blk' = blk
    BY <1>7 DEF CreateSegment
  <2> QED BY <2>1, <2>2, LastKept
<1>8. CASE AppendHead
  <2>1. PICK n : n = p.parent.seg
    OBVIOUS
  <2>2. /\ p.pc = "append head" /\ blk' = blk /\ n \in Ids /\ \A i \in Ids \ {n} : seg'[i] = seg[i]
        /\ seg'[n].head = p.b
    BY <1>8, <2>1, AppendHeadWrites
  <2>3. PICK x \in Blocks \ {Genesis}, y \in Blocks : x = p.b /\ y = Parent[x]
    BY <2>2, PFacts
  <2>4. seg[n].head = y
    BY <2>1, <2>2, <2>3, HeadIsParent
  <2>5. Descends(y, x) /\ Descends(x, x)
    BY <2>3, DescendsParent, DescendsRefl
  <2>6. blk[x].seg = n
    BY <2>1, <2>2, <2>3 DEF LineInv, PLine
  <2> SUFFICES ASSUME NEW b \in Blocks, Recorded(b)' PROVE LastIs(b, blk[b].seg)'
    BY DEF HeadLast
  <2>7. PICK id : id = blk[b].seg /\ id = blk'[b].seg
    BY <2>2
  <2>8. Recorded(b) /\ id \in Ids
    BY <2>7, KnownId DEF Recorded, Parts, SharedInv, RecordsKnown
  <2>9. LastIs(b, id)
    BY <2>7, <2>8 DEF HeadLast
  <2>10. CASE b = x
    BY <2>2, <2>3, <2>5, <2>6, <2>7, <2>10 DEF LastIs, Descends
  <2>11. CASE b # x /\ id # n
    BY <2>2, <2>3, <2>7, <2>8, <2>9, <2>11 DEF LastIs, Descends
  <2>12. CASE b # x /\ id = n
    <3>1. Descends(b, y)
      BY <2>3, <2>4, <2>9, <2>12 DEF LastIs
    <3>2. Descends(b, x)
      BY <2>5, <3>1, DescendsTrans
    <3> QED BY <2>2, <2>3, <2>7, <2>12, <3>2 DEF LastIs, Descends
  <2> QED BY <2>10, <2>11, <2>12
<1> QED BY <1>1, <1>2, <1>3, <1>4, <1>5, <1>6, <1>7, <1>8, StepKinds

-----------------------------------------------------------------------------
(* A segment is a path.                                                    *)

LEMMA PathIs == ASSUME OneProposer, Parts, LineInv, PathInv PROVE SegmentIsPath
<1>0. /\ Data /\ SegmentsOrdered /\ PLine /\ PKnown /\ PInv
      /\ TailFirst /\ HeadLast /\ AllOwned
  BY DEF Parts, SharedInv, PInv, LineInv, PathInv
<1> SUFFICES ASSUME NEW id \in Ids
             PROVE  /\ Descends(seg[id].tail, seg[id].head)
                    /\ PathOf(seg[id]) \ {p.b} \subseteq Members(id)
                    /\ p = IdleP /\ r = IdleR => Members(id) = PathOf(seg[id])
  BY DEF SegmentIsPath, Ids
<1>1. id # NoSeg
  BY <1>0, IdsBounded
<1>2. PICK h \in Blocks, t \in Blocks : h = seg[id].head /\ t = seg[id].tail
  BY <1>0, SegFacts
<1>3. Descends(t, h)
  BY <1>0, <1>2 DEF SegmentsOrdered, Ids
<1>4. PathOf(seg[id]) \ {p.b} \subseteq Members(id)
  <2>1. CASE Owned(id)
    BY <2>1, PathOwned
  <2>2. CASE p.pc = "new block" /\ id = p.parent.seg
    <3>1. h = p.b /\ t = p.b
      BY <1>0, <1>2, <2>2 DEF PLine, PKnown
    <3> SUFFICES ASSUME NEW b \in Ancestors[h], Descends(t, b) PROVE b = h
      BY <1>2, <3>1 DEF PathOf
    <3>2. b \in Blocks /\ Descends(b, h) /\ Descends(h, b)
      BY <3>1 DEF Ancestors, Descends
    <3>3. Height[b] >= Height[h]
      <4>1. Height[h] <= Height[b] /\ Height[h] \in Nat /\ Height[b] \in Nat
        BY <3>2, DescendsHeight
      <4> QED BY <4>1
    <3> QED BY <3>2, <3>3, TopIs
  <2> QED BY <1>0, <2>1, <2>2 DEF AllOwned
<1>5. ASSUME p = IdleP, r = IdleR PROVE Members(id) = PathOf(seg[id])
  <2>1. p.pc = "idle" /\ r.pc = "idle"
    BY <1>5 DEF IdleP, IdleR
  <2>2. Owned(id)
    BY <1>0, <2>1 DEF AllOwned
  <2>3. PathOf(seg[id]) \subseteq Members(id)
    BY <2>2, PathOwned
  <2>4. ASSUME NEW b \in Members(id) PROVE b \in PathOf(seg[id])
    <3>1. b \in Blocks /\ blk[b].seg = id /\ Recorded(b)
      BY <1>1, <2>4 DEF Members, Recorded
    <3>2. FirstIs(b, id) /\ LastIs(b, id)
      BY <1>0, <3>1 DEF TailFirst, HeadLast
    <3>3. Descends(t, b) /\ Descends(b, h)
      BY <1>2, <2>1, <3>2 DEF FirstIs, LastIs
    <3> QED BY <1>2, <3>3 DEF PathOf, Descends
  <2> QED BY <2>3, <2>4
<1> QED BY <1>2, <1>3, <1>4, <1>5

LEMMA PathInit == ASSUME Init PROVE PathInv
<1>0. NoRecord.seg = NoSeg
  BY DEF NoRecord
<1>1. CASE ~ Founder
  <2>1. blk = [b \in Blocks |-> NoRecord] /\ seg = <<>>
    BY <1>1 DEF Init
  <2>2. Len(seg) = 0 /\ \A b \in Blocks : ~ Recorded(b)
    BY <1>0, <2>1 DEF Recorded
  <2>3. Ids = {}
    BY <2>2 DEF Ids
  <2> QED BY <2>2, <2>3 DEF PathInv, TailFirst, HeadLast, AllOwned
<1>2. CASE Founder
  <2>1. PICK sg : sg = NewSegment(Genesis)
    OBVIOUS
  <2>2. sg.head = Genesis /\ sg.tail = Genesis
    BY <2>1 DEF NewSegment
  <2>3. seg = <<sg>> /\ Genesis \in Blocks
    BY <1>2, <2>1, ChainSyncAssumption DEF Init
  <2>4. Ids = {1} /\ seg[1] = sg
    BY <2>3 DEF Ids
  <2>5. \A b \in Blocks : Recorded(b) => b = Genesis /\ blk[b].seg = 1
    BY <1>0, <1>2 DEF Init, Recorded
  <2>6. blk[Genesis].seg = 1
    BY <1>2, <2>3 DEF Init
  <2>7. Descends(Genesis, Genesis)
    BY <2>3, DescendsRefl
  <2>8. TailFirst /\ HeadLast
    BY <2>2, <2>4, <2>5, <2>7 DEF TailFirst, FirstIs, HeadLast, LastIs
  <2>9. AllOwned
    BY <2>2, <2>4, <2>6 DEF AllOwned, Owned
  <2> QED BY <2>8, <2>9 DEF PathInv
<1> QED BY <1>1, <1>2

LEMMA PathNext ==
    ASSUME OneProposer, Parts, LineInv, PathInv, [Next]_vars, ~ Crash, ~ RewindPanics
    PROVE  PathInv'
<1>1. LineInv'
  BY LineNext
<1>2. TailFirst' /\ HeadLast' /\ AllOwned'
  BY <1>1, TailFirstNext, HeadLastNext, AllOwnedNext DEF PathInv
<1> QED BY <1>2 DEF PathInv

LEMMA PathUnchanged == ASSUME PathInv, UNCHANGED vars PROVE PathInv'
<1>1. UNCHANGED <<blk, seg, p, r>>
  BY DEF vars, dbVars
<1> QED BY <1>1
        DEF PathInv, TailFirst, FirstIs, HeadLast, LastIs, AllOwned, Owned, Recorded, Descends, Ids

\* With one proposer the invariant behind SegmentIsPath holds as long as the process
\* runs: tails come first, heads last, and a segment has its ends (segment.go:88-267).
THEOREM PathInvariance ==
    ASSUME OneProposer PROVE Spec /\ Uninterrupted => [](IInv /\ LineInv /\ PathInv)
<1>1. Init => PathInv
  BY PathInit
<1>2. /\ IInv /\ LineInv /\ PathInv /\ [Next]_vars
      /\ [~ Crash /\ ~ RewindPanics]_vars
      => PathInv'
  <2> SUFFICES ASSUME IInv, LineInv, PathInv, [Next]_vars, [~ Crash /\ ~ RewindPanics]_vars
               PROVE  PathInv'
    OBVIOUS
  <2>1. Parts
    BY Forms
  <2>2. CASE UNCHANGED vars
    BY <2>2, PathUnchanged
  <2>3. CASE ~ Crash /\ ~ RewindPanics
    BY <2>1, <2>3, PathNext
  <2> QED BY <2>2, <2>3
<1> QED BY <1>1, <1>2, LineInvariance, PTL DEF Spec, Uninterrupted

\* With one proposer a segment is the path from its tail to its head, and nothing
\* else when no goroutine is at work: for every length of the chain, every loss of
\* commits and every failed fetch, as long as the process runs (segment.go:88-141,
\* 144-267).
THEOREM SegmentIsPathOnLine ==
    ASSUME OneProposer PROVE Spec /\ Uninterrupted => []SegmentIsPath
<1>1. IInv /\ LineInv /\ PathInv => SegmentIsPath
  BY Forms, PathIs
<1> QED BY <1>1, PathInvariance, PTL

-----------------------------------------------------------------------------
(* The head of a node that joined the chain only goes up.                  *)

\* Until there is a head nobody has a segment for it, and only the rewind loop can
\* choose one; from then on only the state loop moves it, to heads of segments.
NoHeadYet == lastBlock = None => stateSegment = NoSeg /\ s.pc = "idle"
Marking == r.pc \in {"mark head", "set head"}
Choosing == Marking => lastBlock = None /\ Descends(r.b, seg[r.seg].head)
Following ==
    /\ lastBlock # None => Descends(lastBlock, seg[stateSegment].head)
    /\ s.pc = "head" => /\ s.seg = stateSegment
                        /\ Descends(lastBlock, s.b) /\ Descends(s.b, seg[stateSegment].head)

HeadRises == NoHeadYet /\ Choosing /\ Following

\* The heads of segments go up.
SegHeadsRise == \A id \in Ids : id \in Ids' /\ Descends(seg[id].head, seg'[id].head)

LEMMA SameHeads ==
    ASSUME Data, \A id \in Ids : id \in Ids' /\ seg'[id].head = seg[id].head
    PROVE  SegHeadsRise
<1> SUFFICES ASSUME NEW id \in Ids PROVE id \in Ids' /\ Descends(seg[id].head, seg'[id].head)
  BY DEF SegHeadsRise
<1>1. PICK h \in Blocks : h = seg[id].head /\ h = seg'[id].head
  BY SegFacts
<1>2. Descends(h, h)
  BY DescendsRefl
<1> QED BY <1>1, <1>2

LEMMA SegHeadsRiseNext ==
    ASSUME OneProposer, Parts, LineInv, HeadLast, [Next]_vars, ~ Crash, ~ RewindPanics
    PROVE  SegHeadsRise
<1>0. Data
  BY DEF Parts, SharedInv
<1>1. CASE Quiet \/ TailMoves
  <2>1. \A id \in Ids : id \in Ids' /\ seg'[id].head = seg[id].head
    BY <1>1 DEF Quiet, EndsStay, TailMoves
  <2> QED BY <1>0, <2>1, SameHeads
<1>2. CASE AppendParent \/ AppendOwn \/ QueueSegment \/ IncludeBlock
  <2>1. seg' = seg
    BY <1>2 DEF AppendParent, AppendOwn, QueueSegment, IncludeBlock
  <2>2. \A id \in Ids : id \in Ids' /\ seg'[id].head = seg[id].head
    BY <2>1 DEF Ids
  <2> QED BY <1>0, <2>2, SameHeads
<1>3. CASE CreateSegment
  <2>1. PICK n : Ids' = Ids \cup {n} /\ \A i \in Ids : seg'[i] = seg[i]
    BY <1>3, CreateFacts, Zenon
  <2>2. \A id \in Ids : id \in Ids' /\ seg'[id].head = seg[id].head
    BY <2>1
  <2> QED BY <1>0, <2>2, SameHeads
<1>4. CASE AppendHead
  <2>1. PICK n : n = p.parent.seg
    OBVIOUS
  <2>2. /\ p.pc = "append head" /\ Ids' = Ids /\ \A i \in Ids \ {n} : seg'[i] = seg[i]
        /\ seg'[n].head = p.b
    BY <1>4, <2>1, AppendHeadWrites
  <2>3. PICK x \in Blocks \ {Genesis}, y \in Blocks : x = p.b /\ y = Parent[x]
    BY <2>2, PFacts
  <2>4. seg[n].head = y /\ Descends(y, x)
    BY <2>1, <2>2, <2>3, HeadIsParent, DescendsParent
  <2> SUFFICES ASSUME NEW id \in Ids PROVE Descends(seg[id].head, seg'[id].head)
    BY <2>2 DEF SegHeadsRise
  <2>5. CASE id = n
    BY <2>2, <2>3, <2>4, <2>5
  <2>6. CASE id # n
    <3>1. PICK h \in Blocks : h = seg[id].head /\ h = seg'[id].head
      BY <1>0, <2>2, <2>6, SegFacts
    <3>2. Descends(h, h)
      BY DescendsRefl
    <3> QED BY <3>1, <3>2
  <2> QED BY <2>5, <2>6
<1> QED BY <1>1, <1>2, <1>3, <1>4, StepKinds

LEMMA BelowHead ==
    ASSUME Data, Data', SegHeadsRise, NEW id \in Ids, NEW b \in Blocks, Descends(b, seg[id].head)
    PROVE  Descends(b, seg'[id].head)
<1>1. PICK h \in Blocks : h = seg[id].head
  BY SegFacts
<1>2. id \in Ids' /\ Descends(h, seg'[id].head)
  BY <1>1 DEF SegHeadsRise
<1>3. seg'[id].head \in Blocks
  <2>1. seg'[id] \in Segment
    BY <1>2 DEF Data, Ids
  <2> QED BY <2>1 DEF Segment
<1>4. PICK k \in Blocks : k = seg'[id].head
  BY <1>3
<1>5. Descends(b, k)
  BY <1>1, <1>2, <1>4, DescendsTrans
<1> QED BY <1>4, <1>5

\* A step of the handler or of the rewind loop that sets no head.
LEMMA RisesWithoutHead ==
    ASSUME Parts, Parts', HeadRises, SegHeadsRise, UNCHANGED <<stateSegment, lastBlock, s>>,
           r' = r \/ (Marking' => lastBlock = None /\ Descends(r.b, seg[r.seg].head)')
    PROVE  HeadRises'
<1>0. Data /\ Data' /\ HeadInv /\ SInv /\ RKnown /\ None \notin Blocks
  BY ChainSyncAssumption DEF Parts, SharedInv, RInv
<1>1. NoHeadYet'
  BY DEF HeadRises, NoHeadYet
<1>2. ASSUME NEW b \in Blocks, stateSegment # NoSeg, Descends(b, seg[stateSegment].head)
      PROVE  Descends(b, seg'[stateSegment].head)
  <2>1. PICK id \in Ids : id = stateSegment
    BY <1>0, <1>2, KnownId DEF HeadInv
  <2>2. Descends(b, seg'[id].head)
    BY <1>0, <1>2, <2>1, BelowHead
  <2> QED BY <2>1, <2>2
<1>3. lastBlock # None => Descends(lastBlock, seg'[stateSegment].head)
  BY <1>0, <1>2 DEF HeadRises, Following, HeadInv
<1>4. s.pc = "head" => Descends(s.b, seg'[stateSegment].head)
  <2>1. s.pc = "head" => lastBlock # None
    BY DEF HeadRises, NoHeadYet
  <2> QED BY <1>0, <1>2, <2>1 DEF HeadRises, Following, HeadInv, SInv
<1>5. Following'
  <2>1. lastBlock' # None => Descends(lastBlock, seg[stateSegment].head)'
    BY <1>3 DEF Descends
  <2>2. ASSUME s'.pc = "head"
        PROVE  /\ s'.seg = stateSegment' /\ Descends(lastBlock, s.b)'
               /\ Descends(s.b, seg[stateSegment].head)'
    BY <1>4, <2>2 DEF HeadRises, Following, Descends
  <2> QED BY <2>1, <2>2 DEF Following
<1>6. Choosing'
  <2>1. CASE r' = r
    <3> SUFFICES ASSUME Marking
                 PROVE  lastBlock = None /\ Descends(r.b, seg'[r.seg].head)
      BY <2>1 DEF Choosing, Marking, Descends
    <3>1. PICK id \in Ids, b \in Blocks : id = r.seg /\ b = r.b
      BY <1>0, KnownId DEF RKnown, Marking
    <3>2. Descends(b, seg[id].head) /\ lastBlock = None
      BY <3>1 DEF HeadRises, Choosing
    <3>3. Descends(b, seg'[id].head)
      BY <1>0, <3>2, BelowHead
    <3> QED BY <3>1, <3>2, <3>3
  <2>2. CASE Marking' => lastBlock = None /\ Descends(r.b, seg[r.seg].head)'
    BY <2>2 DEF Choosing
  <2> QED BY <2>1, <2>2
<1> QED BY <1>1, <1>5, <1>6 DEF HeadRises

\* markAsHead (chain.go:875-963).
LEMMA MarkAsHeadRises ==
    ASSUME Parts, LineInv, HeadRises, MarkAsHead PROVE HeadRises'
<1>0. /\ Data /\ r.pc = "set head" /\ lastBlock' = r.b /\ stateSegment' = r.bseg /\ s' = s
      /\ RKnown /\ None \notin Blocks
  BY ChainSyncAssumption DEF Parts, SharedInv, RInv, MarkAsHead
<1>1. PICK n \in Ids, b \in Blocks : n = r.seg /\ n = r.bseg /\ b = r.b
  BY <1>0, KnownId DEF LineInv, RLine, RKnown
<1>2. Descends(b, seg[n].head) /\ s.pc = "idle"
  BY <1>0, <1>1 DEF HeadRises, Choosing, Marking, NoHeadYet
<1>3. Quiet /\ r'.pc = "push"
  BY MarkAsHeadReads
<1>4. seg'[n].head = seg[n].head
  BY <1>3 DEF Quiet, EndsStay
<1>5. lastBlock' = b /\ b # None /\ stateSegment' = n /\ s'.pc # "head"
  BY <1>0, <1>1, <1>2
<1>6. NoHeadYet' /\ Choosing'
  BY <1>3, <1>5 DEF NoHeadYet, Choosing, Marking
<1>7. Following'
  BY <1>2, <1>4, <1>5 DEF Following, Descends
<1> QED BY <1>6, <1>7 DEF HeadRises

\* manageStateOnce (chain.go:617-696).
LEMMA FastForwardRises ==
    ASSUME Parts, LineInv, HeadRises, FastForward PROVE HeadRises'
<1>0. /\ Data /\ UNCHANGED <<blk, seg, r, lastBlock>> /\ stateSegment # NoSeg /\ HeadInv
      /\ RecordsKnown /\ SegmentsOrdered /\ SegsOwned /\ HeadOwned /\ LinksCross
  BY DEF Parts, SharedInv, FastForward, LineInv, Line
<1>1. PICK m \in Ids, b \in Blocks, k \in Blocks :
          m = stateSegment /\ b = lastBlock /\ k = seg[m].head /\ Descends(b, k) /\ Owned(m)
          /\ m # NoSeg
  <2>1. lastBlock \in Blocks /\ stateSegment \in Ids
    BY <1>0, KnownId DEF HeadRises, NoHeadYet, HeadInv
  <2>2. seg[stateSegment].head \in Blocks
    BY <1>0, <2>1, SegFacts
  <2>3. Descends(lastBlock, seg[stateSegment].head) /\ Owned(stateSegment)
    BY <1>0 DEF HeadRises, Following, NoHeadYet, HeadOwned
  <2> QED BY <1>0, <2>1, <2>2, <2>3
<1>2. PICK id : id = IF seg[m].next # NoSeg THEN seg[m].next ELSE m
  OBVIOUS
<1>3. /\ stateSegment' = id
      /\ s' = [pc |-> "head", b |-> seg[id].head, seg |-> blk[seg[id].head].seg]
  BY <1>1, <1>2 DEF FastForward
<1>4. Owned(id) /\ Descends(k, seg[id].head) /\ seg[id].head \in Blocks
  <2>1. CASE seg[m].next = NoSeg
    BY <1>1, <1>2, <2>1, DescendsRefl
  <2>2. CASE seg[m].next # NoSeg
    <3>1. id \in Ids /\ id = seg[m].next
      BY <1>0, <1>2, <2>2, KnownId DEF RecordsKnown
    <3>2. seg[id].prev = m
      BY <1>0, <2>2, <3>1 DEF SegmentsOrdered, Ids
    <3>3. PICK t \in Blocks, h \in Blocks : t = seg[id].tail /\ h = seg[id].head
      BY <1>0, <3>1, SegFacts
    <3>4. Owned(id) /\ Parent[t] = k /\ t # Genesis
      BY <1>0, <1>1, <3>1, <3>2, <3>3 DEF SegsOwned, LinksCross, Parts, SharedInv, LinksStable, Ids
    <3>5. Descends(k, t)
      BY <3>4, DescendsParent
    <3>6. Descends(t, h)
      BY <1>0, <3>1, <3>3 DEF SegmentsOrdered, Ids
    <3>7. Descends(k, h)
      BY <3>5, <3>6, DescendsTrans
    <3> QED BY <3>3, <3>4, <3>7
  <2> QED BY <2>1, <2>2
<1>5. PICK h \in Blocks : h = seg[id].head
  BY <1>4
<1>6. Descends(b, h) /\ Descends(h, h)
  BY <1>1, <1>4, <1>5, DescendsTrans, DescendsRefl
<1>7. s'.b = h /\ s'.seg = id /\ b # None
  <2>1. blk[h].seg = id
    BY <1>4, <1>5 DEF Owned
  <2> QED BY <1>3, <1>5, <2>1, ChainSyncAssumption
<1>8. Following'
  <2>1. lastBlock' = b /\ seg'[stateSegment'].head = h /\ s'.seg = stateSegment' /\ s'.b = h
    BY <1>0, <1>1, <1>3, <1>5, <1>7
  <2> QED BY <1>6, <2>1 DEF Following, Descends
<1>9. NoHeadYet' /\ Choosing'
  BY <1>0, <1>1, <1>7 DEF NoHeadYet, HeadRises, Choosing, Marking, Descends
<1> QED BY <1>8, <1>9 DEF HeadRises

LEMMA SetHeadBlockRises ==
    ASSUME Parts, HeadRises, SetHeadBlock PROVE HeadRises'
<1>0. /\ UNCHANGED <<blk, seg, r>> /\ s.pc = "head" /\ s' = IdleS
      /\ s.b \in Blocks /\ None \notin Blocks
  BY ChainSyncAssumption DEF Parts, SInv, SetHeadBlock
<1>1. PICK b \in Blocks : b = s.b /\ b # None
  BY <1>0
<1>2. lastBlock # None /\ s.seg = stateSegment /\ Descends(b, seg[stateSegment].head)
  BY <1>0, <1>1 DEF HeadRises, NoHeadYet, Following
<1>3. lastBlock' = b /\ stateSegment' = stateSegment
  BY <1>1, <1>2 DEF SetHeadBlock
<1>4. s'.pc = "idle"
  BY <1>0 DEF IdleS
<1>5. Following'
  BY <1>0, <1>2, <1>3, <1>4 DEF Following, Descends
<1>6. NoHeadYet' /\ Choosing'
  <2>1. ~ Marking
    BY <1>2 DEF HeadRises, Choosing
  <2> QED BY <1>0, <1>1, <1>3, <2>1 DEF NoHeadYet, Choosing, Marking
<1> QED BY <1>5, <1>6 DEF HeadRises

\* What the steps that set no head leave to MarkAsHead.
LEMMA RewindChooses ==
    ASSUME Parts, Choosing, [Next]_vars, ~ Crash, ~ RewindPanics, ~ MarkAsHead, ~ SNext
    PROVE  /\ UNCHANGED <<stateSegment, lastBlock, s>>
           /\ \/ r' = r
              \/ Marking' => lastBlock = None /\ Descends(r.b, seg[r.seg].head)'
<1>1. CASE \/ \E q \in Peers : \E i \in 1..Len(Sent[q]) : Deliver(q, i)
           \/ PNext \/ UNCHANGED vars
  BY <1>1 DEF PNext, Deliver, LookupParent, AppendParent, AppendOwn, AppendHead, CreateSegment,
              QueueSegment, vars, dbVars
<1>2. CASE RewindStart \/ RewindFails \/ PushSegment
  <2>1. ~ Marking'
    BY <1>2, RewindReads DEF Marking
  <2> QED BY <1>2, <2>1 DEF RewindStart, RewindFails, PushSegment, dbVars
<1>3. CASE IncludeBlock \/ IncludeTail \/ AppendSegmentNext \/ ValidationFails
  <2>1. r'.pc \in {"include tail", "rewound"}
    <3>1. RType
      BY DEF Parts, RInv
    <3>2. \E pc \in {"include tail", "rewound"} : r' = [r EXCEPT !.pc = pc]
      BY <1>3 DEF IncludeBlock, IncludeTail, AppendSegmentNext, ValidationFails
    <3> QED BY <3>1, <3>2 DEF RType
  <2>2. ~ Marking'
    BY <2>1 DEF Marking
  <2> QED BY <1>3, <2>2 DEF IncludeBlock, IncludeTail, AppendSegmentNext, ValidationFails
<1>4. CASE AppendSegmentPrev
  <2>1. r' = IdleR \/ r'.pc \notin {"idle", "mark head", "set head"}
    BY <1>4, AppendSegmentPrevWrites
  <2>2. ~ Marking'
    <3>1. IdleR.pc = "idle"
      BY DEF IdleR
    <3>2. CASE r' = IdleR
      BY <3>1, <3>2 DEF Marking
    <3>3. CASE r'.pc \notin {"idle", "mark head", "set head"}
      BY <3>3 DEF Marking
    <3> QED BY <2>1, <3>2, <3>3
  <2> QED BY <1>4, <2>2 DEF AppendSegmentPrev
<1>5. CASE SegmentUpdated
  <2>1. /\ seg' = seg /\ r'.seg \in Ids /\ r'.b = seg[r'.seg].head
        /\ Marking' => lastBlock = None
    BY <1>5, SegmentUpdatedWrites DEF Marking
  <2>2. PICK n \in Ids, h \in Blocks : n = r'.seg /\ h = seg[n].head
    BY <2>1, SegFacts DEF Parts, SharedInv
  <2>3. Descends(h, h)
    BY DescendsRefl
  <2>4. Descends(r.b, seg[r.seg].head)'
    BY <2>1, <2>2, <2>3 DEF Descends
  <2> QED BY <1>5, <2>1, <2>4 DEF SegmentUpdated, dbVars
<1>6. CASE LookupFails
  <2>1. ~ Marking'
    BY <1>6, LookupFailsWrites DEF Marking
  <2> QED BY <1>6, <2>1 DEF LookupFails, dbVars
<1>7. CASE MarkValid
  <2>1. Quiet /\ r'.seg = r.seg /\ r'.b = r.b /\ r.pc = "mark head"
    BY <1>7, MarkValidWrites DEF MarkValid
  <2>2. PICK n \in Ids : n = r.seg
    BY <2>1, RFacts
  <2>3. seg'[n].head = seg[n].head
    BY <2>1 DEF Quiet, EndsStay
  <2>4. lastBlock = None /\ Descends(r.b, seg[n].head)
    BY <2>1, <2>2 DEF Choosing, Marking
  <2>5. lastBlock = None /\ Descends(r.b, seg[r.seg].head)'
    BY <2>1, <2>2, <2>3, <2>4 DEF Descends
  <2> QED BY <1>7, <2>5 DEF MarkValid
<1> QED BY <1>1, <1>2, <1>3, <1>4, <1>5, <1>6, <1>7 DEF Next, RNext

LEMMA HeadRisesNext ==
    ASSUME OneProposer, Parts, LineInv, HeadLast, HeadRises, [Next]_vars, ~ Crash, ~ RewindPanics
    PROVE  HeadRises'
<1>1. CASE MarkAsHead
  BY <1>1, MarkAsHeadRises
<1>2. CASE SNext
  BY <1>2, FastForwardRises, SetHeadBlockRises DEF SNext
<1>3. CASE ~ MarkAsHead /\ ~ SNext
  <2>1. Parts' /\ SegHeadsRise
    BY PartsNext, SegHeadsRiseNext
  <2>2. Choosing
    BY DEF HeadRises
  <2> QED BY <1>3, <2>1, <2>2, RewindChooses, RisesWithoutHead
<1> QED BY <1>1, <1>2, <1>3

LEMMA HeadGoesUp ==
    ASSUME Parts, HeadRises, [Next]_vars
    PROVE  lastBlock # None /\ lastBlock' # None => Descends(lastBlock, lastBlock')
<1> SUFFICES ASSUME lastBlock # None, lastBlock' # None PROVE Descends(lastBlock, lastBlock')
  OBVIOUS
<1>1. CASE lastBlock' = lastBlock
  <2>1. PICK b \in Blocks : b = lastBlock /\ b = lastBlock'
    BY <1>1 DEF Parts, HeadInv
  <2>2. Descends(b, b)
    BY DescendsRefl
  <2> QED BY <2>1, <2>2
<1>2. CASE lastBlock' # lastBlock
  <2>1. MarkAsHead \/ SetHeadBlock
    BY <1>2 DEF Next, PNext, RNext, SNext, Deliver, LookupParent, AppendParent, AppendOwn,
                AppendHead, CreateSegment, QueueSegment, RewindStart, RewindFails, IncludeBlock,
                IncludeTail, AppendSegmentPrev, AppendSegmentNext, ValidationFails,
                SegmentUpdated, LookupFails, MarkValid, PushSegment, RewindPanics, Crash, Restart,
                FastForward, vars
  <2>2. SetHeadBlock /\ s.pc = "head" /\ lastBlock' = s.b
    BY <1>2, <2>1 DEF MarkAsHead, SetHeadBlock, HeadRises, Choosing, Marking
  <2> QED BY <2>2 DEF HeadRises, Following
<1> QED BY <1>1, <1>2

LEMMA HeadRisesInit == ASSUME ~ Founder, Init PROVE HeadRises
<1>1. lastBlock = None /\ stateSegment = NoSeg /\ r = IdleR /\ s = IdleS
  BY DEF Init
<1>2. r.pc = "idle" /\ s.pc = "idle"
  BY <1>1 DEF IdleR, IdleS
<1> QED BY <1>1, <1>2 DEF HeadRises, NoHeadYet, Choosing, Marking, Following

\* With one proposer the head of a node that joined the chain moves only to its
\* descendants, although the rewind loop and the state loop both set it, each with
\* what it read before, while the commit handler moves the heads of the segments
\* (chain.go:617-696, 875-963).
THEOREM HeadDescendsOnLine ==
    ASSUME OneProposer, ~ Founder PROVE Spec /\ Uninterrupted => HeadDescends
<1>1. Init => HeadRises
  BY HeadRisesInit
<1>2. /\ IInv /\ LineInv /\ PathInv /\ HeadRises /\ [Next]_vars
      /\ [~ Crash /\ ~ RewindPanics]_vars
      => /\ HeadRises'
         /\ lastBlock # None /\ lastBlock' # None => Descends(lastBlock, lastBlock')
  <2> SUFFICES ASSUME IInv, LineInv, PathInv, HeadRises, [Next]_vars,
                      [~ Crash /\ ~ RewindPanics]_vars
               PROVE  /\ HeadRises'
                      /\ lastBlock # None /\ lastBlock' # None => Descends(lastBlock, lastBlock')
    OBVIOUS
  <2>1. Parts /\ HeadLast
    BY Forms DEF PathInv
  <2>2. CASE UNCHANGED vars
    <3>1. UNCHANGED <<seg, stateSegment, lastBlock, r, s>>
      BY <2>2 DEF vars, dbVars
    <3> QED BY <2>1, <3>1, HeadGoesUp
            DEF HeadRises, NoHeadYet, Choosing, Marking, Following, Descends
  <2>3. CASE ~ Crash /\ ~ RewindPanics
    BY <2>1, <2>3, HeadRisesNext, HeadGoesUp
  <2> QED BY <2>2, <2>3
<1> QED BY <1>1, <1>2, PathInvariance, PTL DEF Spec, Uninterrupted, HeadDescends

=============================================================================
