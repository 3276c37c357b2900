----------------------------- MODULE ChainSync -----------------------------
(***************************************************************************)
(* How one node turns the block commits it receives into a chain: the      *)
(* segment store (segment/), the commit handler, the rewind loop and the   *)
(* state loop of chain/chain.go, as three goroutines that share the        *)
(* database and the segments in memory, with crashes in between.           *)
(*                                                                         *)
(* Blocks form a tree.  The database holds a record for every block (the   *)
(* segment it is in, the block after it), the segments and the chain's     *)
(* state segment; the rewind queue and the head are in memory only.  A     *)
(* block's record is read and written as a whole, so a goroutine may write *)
(* back what another one has changed since it read it.                     *)
(***************************************************************************)
EXTENDS Integers, Sequences, SequencesExt, FiniteSets

CONSTANTS
    Blocks, Genesis, Parent,  \* the tree: Parent[b] for b # Genesis
    Height,       \* the height in the header of a block
    Rejected,     \* the blocks ValidateChild fails for (external validators)
    Marked,       \* the blocks the block validator marks as valid (external)
    SameConf,     \* the blocks with the chain config of the genesis
    SameValSet,   \* the blocks whose config has the genesis' validator set
    Sent,         \* the commits of each peer, in the order of their timestamps
    Founder,      \* the node made the chain: it has the genesis segment
    MaxSegs,      \* bound: the segments that are ever made
    MaxCrashes,   \* bound: the crashes of the process
    MaxFails,     \* bound: the failed fetches of the rewind loop
    None          \* no block

Peers == DOMAIN Sent
SegIds == 1..MaxSegs
NoSeg == 0

ASSUME ChainSyncAssumption ==
    /\ Genesis \in Blocks /\ None \notin Blocks
    /\ Parent \in [Blocks \ {Genesis} -> Blocks]
    /\ Height \in [Blocks -> Nat] /\ Height[Genesis] = 0
    /\ \A b \in Blocks \ {Genesis} : Height[b] = Height[Parent[b]] + 1
    /\ \A q \in Peers : Sent[q] \in Seq(Blocks \ {Genesis})
    /\ Genesis \in SameConf \cap SameValSet
    /\ \A b \in Blocks \ {Genesis} :   \* ValidateChild compares the configs
          b \notin Rejected => (b \in SameConf <=> Parent[b] \in SameConf)
    /\ SameConf \subseteq SameValSet
    /\ Founder \in BOOLEAN
    /\ MaxSegs \in Nat \ {0} /\ MaxCrashes \in Nat /\ MaxFails \in Nat

VARIABLES
    blk,           \* the record of a block: [seg, next] (database)
    seg,           \* the segments made so far, by id (database and memory)
    stateSegment,  \* ChainState.StateSegment (database and memory)
    queue,         \* the rewind queue (memory)
    lastBlock,     \* the head block (memory)
    p,             \* the pub-sub goroutine, in HandleBlockCommit
    r,             \* the rewind goroutine, in SegmentStore.RewindOnce
    s,             \* the state goroutine, in manageStateOnce
    seen,          \* the last message observed of a peer (database)
    crashes, fails \* how many there have been

dbVars == <<blk, seg, stateSegment>>
vars == <<dbVars, queue, lastBlock, p, r, s, seen, crashes, fails>>

-----------------------------------------------------------------------------
(* Blocks.                                                                 *)

\* The blocks that b has before it, and b: what every set has in it that has b
\* and, with a block, its parent.
Closed(B) == \A a \in B \ {Genesis} : Parent[a] \in B
Ancestors == [b \in Blocks |-> {a \in Blocks : \A B \in SUBSET Blocks :
                                                 b \in B /\ Closed(B) => a \in B}]

BlockRecord == [seg: 0..MaxSegs, next: Blocks \cup {None}]
NoRecord == [seg |-> NoSeg, next |-> None]

\* Segment.AppendSegment validates against the head of a segment, which need
\* not be the parent: ValidateChild compares heights, not references.  (The
\* leader it asks for depends on the parent when there are several validators.)
ValidateChild(parent, child) ==
    Height[child] = Height[parent] + 1 /\ child \notin Rejected

Segment == [status: {"DISJOINTED", "VALID", "INVALID"},
            head: Blocks, tail: Blocks, prev: 0..MaxSegs, next: 0..MaxSegs]

NewSegment(b) == [status |-> "DISJOINTED", head |-> b, tail |-> b,
                  prev |-> NoSeg, next |-> NoSeg]

IdleP == [pc |-> "idle", b |-> None, own |-> NoRecord, parent |-> NoRecord]
IdleR == [pc |-> "idle", seg |-> NoSeg, prev |-> NoSeg, b |-> None, bseg |-> NoSeg]
IdleS == [pc |-> "idle", b |-> None, seg |-> NoSeg]

-----------------------------------------------------------------------------
(* The queue.  Less never holds, so heap.Push appends and heap.Pop takes    *)
(* the first element and moves the last one to its place.                  *)

Push(q, x) == IF Contains(q, x) THEN q ELSE Append(q, x)

PopRest(q) ==
    IF Len(q) = 1 THEN <<>> ELSE <<Last(q)>> \o SubSeq(q, 2, Len(q) - 1)

-----------------------------------------------------------------------------
Init ==
    /\ blk = [b \in Blocks |-> IF Founder /\ b = Genesis
                               THEN [seg |-> 1, next |-> None] ELSE NoRecord]
    /\ seg = IF Founder THEN <<NewSegment(Genesis)>> ELSE <<>>
    /\ stateSegment = IF Founder THEN 1 ELSE NoSeg
    /\ queue = <<>> /\ lastBlock = None
    /\ p = IdleP /\ r = IdleR /\ s = IdleS
    /\ seen = [q \in Peers |-> 0]
    /\ crashes = 0 /\ fails = 0

-----------------------------------------------------------------------------
(* HandleBlockCommit, one step per write to the database.                  *)

\* A block that is known is left alone; otherwise its parent is looked up next.
HandleBlockCommit(b) ==
    \/ blk[b].seg # NoSeg /\ UNCHANGED p
    \/ /\ blk[b].seg = NoSeg
       /\ p' = [pc |-> "parent", b |-> b, own |-> blk[b], parent |-> NoRecord]

\* Peer.processIncomingNodeMessage: messages older than the last one observed
\* are dropped, the last one may come again, and any may be lost.
Deliver(q, i) ==
    /\ p.pc = "idle"
    /\ i >= seen[q]
    /\ seen' = [seen EXCEPT ![q] = i]
    /\ HandleBlockCommit(Sent[q][i])
    /\ UNCHANGED <<dbVars, queue, lastBlock, r, s, crashes, fails>>

\* Mutant: the block is not validated.
CanAppendAnything(parent, b) ==
    parent.next = None /\ seg[parent.seg].next = NoSeg

\* The checks of Segment.AppendBlock, before its first write.
CanAppend(parent, b) ==
    /\ parent.next = None
    /\ seg[parent.seg].next = NoSeg
    /\ ValidateChild(Parent[b], b)

\* The segment of the parent does not take the block (it has it already, it is
\* a fork, or it is invalid), or takes it; without one, the block starts a
\* segment.
LookupParent ==
    /\ p.pc = "parent"
    /\ LET parent == blk[Parent[p.b]]
           At(pc) == [p EXCEPT !.pc = pc, !.parent = parent]
       IN  \/ parent.seg # NoSeg /\ ~ CanAppend(parent, p.b) /\ p' = IdleP
           \/ parent.seg # NoSeg /\ CanAppend(parent, p.b) /\ p' = At("append parent")
           \/ parent.seg = NoSeg /\ p' = At("new segment")
    /\ UNCHANGED <<dbVars, queue, lastBlock, r, s, seen, crashes, fails>>

\* Segment.AppendBlock: the parent, then the block, then the segment.
AppendParent ==
    /\ p.pc = "append parent"
    /\ blk' = [blk EXCEPT ![Parent[p.b]] = [p.parent EXCEPT !.next = p.b]]
    /\ p' = [p EXCEPT !.pc = "append block"]
    /\ UNCHANGED <<seg, stateSegment, queue, lastBlock, r, s, seen, crashes, fails>>

AppendOwn ==
    /\ p.pc = "append block"
    /\ blk' = [blk EXCEPT ![p.b] = [p.own EXCEPT !.seg = p.parent.seg]]
    /\ p' = [p EXCEPT !.pc = "append head"]
    /\ UNCHANGED <<seg, stateSegment, queue, lastBlock, r, s, seen, crashes, fails>>

AppendHead ==
    /\ p.pc = "append head"
    /\ LET sg == seg[p.parent.seg]
           valid == p.b \in Marked /\ sg.status # "INVALID"
       IN  seg' = [seg EXCEPT ![p.parent.seg] =
                      [sg EXCEPT !.head = p.b,
                                 !.status = IF valid THEN "VALID" ELSE @]]
    /\ p' = IdleP
    /\ UNCHANGED <<blk, stateSegment, queue, lastBlock, r, s, seen, crashes, fails>>

\* Mutant: the block gets another id than the segment was stored under.
CreateSegmentOtherId ==
    /\ p.pc = "new segment" /\ Len(seg) < MaxSegs
    /\ seg' = Append(seg, NewSegment(p.b))
    /\ p' = [p EXCEPT !.pc = "new block", !.parent.seg = Len(seg) + 2]
    /\ UNCHANGED <<blk, stateSegment, queue, lastBlock, r, s, seen, crashes, fails>>

\* SegmentStore.NewSegment: the segment, then the block and the queue.
CreateSegment ==
    /\ p.pc = "new segment" /\ Len(seg) < MaxSegs
    /\ seg' = Append(seg, NewSegment(p.b))
    /\ p' = [p EXCEPT !.pc = "new block", !.parent.seg = Len(seg) + 1]
    /\ UNCHANGED <<blk, stateSegment, queue, lastBlock, r, s, seen, crashes, fails>>

QueueSegment ==
    /\ p.pc = "new block"
    /\ blk' = [blk EXCEPT ![p.b] = [p.own EXCEPT !.seg = p.parent.seg]]
    /\ queue' = Push(queue, p.parent.seg)
    /\ p' = IdleP
    /\ UNCHANGED <<seg, stateSegment, lastBlock, r, s, seen, crashes, fails>>

-----------------------------------------------------------------------------
(* SegmentStore.RewindOnce.                                                *)

\* Segment.RewindOnce up to its first write.  A segment that is no longer
\* disjointed is left alone; one whose previous block is in a segment is linked
\* to that segment; otherwise the previous block becomes the tail.
RewindStart ==
    /\ r.pc = "idle" /\ queue # <<>>
    /\ LET id == Head(queue)
           sg == seg[id]
           prev == Parent[sg.tail]
           At(pc, to) == [IdleR EXCEPT !.pc = pc, !.seg = id, !.b = sg.tail, !.prev = to]
       IN  \/ /\ sg.status # "DISJOINTED"
              /\ r' = At("rewound", NoSeg)
           \/ /\ sg.status = "DISJOINTED" /\ sg.tail # Genesis
              /\ blk[prev].seg = id   \* "previous segment resolved to same segment"
              /\ r' = IdleR
           \/ /\ sg.status = "DISJOINTED" /\ sg.tail # Genesis
              /\ blk[prev].seg \notin {id, NoSeg}
              /\ r' = At("append segment", blk[prev].seg)
           \/ /\ sg.status = "DISJOINTED" /\ sg.tail # Genesis
              /\ blk[prev].seg = NoSeg
              /\ r' = At("include block", NoSeg)
    /\ queue' = PopRest(queue)
    /\ UNCHANGED <<dbVars, lastBlock, p, s, seen, crashes, fails>>

\* A block cannot be fetched: the error is logged and the segment is gone from
\* the queue.
RewindFails ==
    /\ fails < MaxFails
    /\ \/ /\ r.pc = "idle" /\ queue # <<>> /\ seg[Head(queue)].status = "DISJOINTED"
          /\ queue' = PopRest(queue)
       \/ /\ r.pc = "append segment"
          /\ UNCHANGED queue
    /\ r' = IdleR
    /\ fails' = fails + 1
    /\ UNCHANGED <<dbVars, lastBlock, p, s, seen, crashes>>

IncludeBlock ==
    /\ r.pc = "include block"
    /\ blk' = [blk EXCEPT ![Parent[r.b]] = [seg |-> r.seg, next |-> r.b]]
    /\ r' = [r EXCEPT !.pc = "include tail"]
    /\ UNCHANGED <<seg, stateSegment, queue, lastBlock, p, s, seen, crashes, fails>>

\* Mutant: the tail stays where it was.
IncludeTailKeepsTail ==
    /\ r.pc = "include tail"
    /\ r' = [r EXCEPT !.pc = "rewound"]
    /\ UNCHANGED <<dbVars, queue, lastBlock, p, s, seen, crashes, fails>>

IncludeTail ==
    /\ r.pc = "include tail"
    /\ LET prev == Parent[r.b]
           ok == ValidateChild(prev, r.b)
           status == seg[r.seg].status
       IN  seg' = [seg EXCEPT ![r.seg] =
                      [@ EXCEPT !.tail = prev,
                                !.status = CASE ~ ok -> "INVALID"
                                             [] ok /\ r.b \in Marked /\ status # "INVALID" -> "VALID"
                                             [] OTHER -> status]]
    /\ r' = [r EXCEPT !.pc = "rewound"]
    /\ UNCHANGED <<blk, stateSegment, queue, lastBlock, p, s, seen, crashes, fails>>

\* Mutant: the later segment does not learn of the earlier one.
AppendSegmentPrevForgets ==
    /\ r.pc = "append segment"
    /\ seg' = [seg EXCEPT ![r.seg].status = seg[r.prev].status]
    /\ r' = [r EXCEPT !.pc = "append next"]
    /\ UNCHANGED <<blk, stateSegment, queue, lastBlock, p, s, seen, crashes, fails>>

\* Segment.AppendSegment: the later segment takes the status of the earlier
\* one, whose link is written second.
AppendSegmentPrev ==
    /\ r.pc = "append segment"
    /\ LET disjointed == seg[r.seg].status = "DISJOINTED"
           ok == ValidateChild(seg[r.prev].head, seg[r.seg].tail)
       IN  \/ /\ ~ disjointed     \* "unexpected status"
              /\ r' = IdleR
              /\ UNCHANGED seg
           \/ /\ disjointed /\ ~ ok
              /\ seg' = [seg EXCEPT ![r.seg].status = "INVALID"]
              /\ r' = [r EXCEPT !.pc = "rewound"]
           \/ /\ disjointed /\ ok
              /\ seg' = [seg EXCEPT ![r.seg] =
                            [@ EXCEPT !.status = seg[r.prev].status, !.prev = r.prev]]
              /\ r' = [r EXCEPT !.pc = "append next"]
    /\ UNCHANGED <<blk, stateSegment, queue, lastBlock, p, s, seen, crashes, fails>>

\* ValidateChild fetches the chain config and the validator set, and its caller
\* takes a failed fetch for an invalid block.
ValidationFails ==
    /\ fails < MaxFails
    /\ \/ /\ r.pc = "include tail"
          /\ seg' = [seg EXCEPT ![r.seg] = [@ EXCEPT !.tail = Parent[r.b], !.status = "INVALID"]]
       \/ /\ r.pc = "append segment" /\ seg[r.seg].status = "DISJOINTED"
          /\ seg' = [seg EXCEPT ![r.seg].status = "INVALID"]
    /\ r' = [r EXCEPT !.pc = "rewound"]
    /\ fails' = fails + 1
    /\ UNCHANGED <<blk, stateSegment, queue, lastBlock, p, s, seen, crashes>>

AppendSegmentNext ==
    /\ r.pc = "append next"
    /\ seg' = [seg EXCEPT ![r.prev].next = r.seg]
    /\ r' = [r EXCEPT !.pc = "rewound"]
    /\ UNCHANGED <<blk, stateSegment, queue, lastBlock, p, s, seen, crashes, fails>>

\* The end of the chain a segment without known parent may still be taken for:
\* it reached the genesis, or the config or validator set is the genesis' one.
Trusted(sg) ==
    \/ sg.tail \in SameConf
    \/ Height[sg.tail] # 0 /\ sg.head \in SameValSet

\* Mutant: a segment becomes the head although there is one.
SegmentUpdatedAnyHead ==
    /\ r.pc = "rewound"
    /\ LET id == IF seg[r.seg].prev # NoSeg THEN seg[r.seg].prev ELSE r.seg
           sg == seg[id]
           mark == sg.status = "DISJOINTED" /\ Trusted(sg)
       IN  r' = [r EXCEPT !.pc = IF mark THEN "mark head" ELSE "push",
                          !.seg = id, !.b = sg.head, !.bseg = blk[sg.head].seg]
    /\ UNCHANGED <<dbVars, queue, lastBlock, p, s, seen, crashes, fails>>

\* HandleSegmentUpdated decides whether the segment, or the one it was linked
\* to, becomes the state segment, with the head block it reads now.
SegmentUpdated ==
    /\ r.pc = "rewound"
    /\ LET id == IF seg[r.seg].prev # NoSeg THEN seg[r.seg].prev ELSE r.seg
           sg == seg[id]
           mark == sg.status = "DISJOINTED" /\ lastBlock = None /\ Trusted(sg)
       IN  r' = [r EXCEPT !.pc = IF mark THEN "mark head" ELSE "push",
                          !.seg = id, !.b = sg.head, !.bseg = blk[sg.head].seg]
    /\ UNCHANGED <<dbVars, queue, lastBlock, p, s, seen, crashes, fails>>

\* A block or a config it asks for cannot be fetched: the segment is pushed again.
LookupFails ==
    /\ fails < MaxFails
    /\ r.pc = "rewound"
    /\ LET id == IF seg[r.seg].prev # NoSeg THEN seg[r.seg].prev ELSE r.seg
       IN  /\ seg[id].status = "DISJOINTED" /\ lastBlock = None
           /\ r' = [r EXCEPT !.pc = "push", !.seg = id]
    /\ fails' = fails + 1
    /\ UNCHANGED <<dbVars, queue, lastBlock, p, s, seen, crashes>>

\* markAsHead: MarkValid, then setHeadBlock.  A process that ends in between has
\* a valid segment that is not its head, and that is never queued again.
MarkValid ==
    /\ r.pc = "mark head"
    /\ seg' = [seg EXCEPT ![r.seg].status = "VALID"]
    /\ r' = [r EXCEPT !.pc = "set head"]
    /\ UNCHANGED <<blk, stateSegment, queue, lastBlock, p, s, seen, crashes, fails>>

MarkAsHead ==
    /\ r.pc = "set head"
    /\ lastBlock' = r.b
    /\ stateSegment' = r.bseg
    /\ r' = [r EXCEPT !.pc = "push"]
    /\ UNCHANGED <<blk, seg, queue, p, s, seen, crashes, fails>>

\* Mutant: a segment is rewound once only.
PushSegmentNever ==
    /\ r.pc = "push"
    /\ r' = IdleR
    /\ UNCHANGED <<dbVars, queue, lastBlock, p, s, seen, crashes, fails>>

PushSegment ==
    /\ r.pc = "push"
    /\ queue' = IF seg[r.seg].status = "DISJOINTED" THEN Push(queue, r.seg) ELSE queue
    /\ r' = IdleR
    /\ UNCHANGED <<dbVars, lastBlock, p, s, seen, crashes, fails>>

-----------------------------------------------------------------------------
(* manageStateOnce.                                                        *)

\* Mutant: the next segment is not looked at.
FastForwardStays ==
    /\ s.pc = "idle" /\ stateSegment # NoSeg
    /\ LET head == seg[stateSegment].head
       IN  /\ head # lastBlock
           /\ s' = [pc |-> "head", b |-> head, seg |-> blk[head].seg]
    /\ UNCHANGED <<dbVars, queue, lastBlock, p, r, seen, crashes, fails>>

\* Fast-forward one segment, whatever its status.
FastForward ==
    /\ s.pc = "idle" /\ stateSegment # NoSeg
    /\ LET next == seg[stateSegment].next
           id == IF next # NoSeg THEN next ELSE stateSegment
           head == seg[id].head
       IN  /\ id # stateSegment \/ head # lastBlock   \* or nothing changes
           /\ stateSegment' = id
           /\ s' = [pc |-> "head", b |-> head, seg |-> blk[head].seg]
    /\ UNCHANGED <<blk, seg, queue, lastBlock, p, r, seen, crashes, fails>>

\* setHeadBlock, with the block read before, if it is not the head already.
SetHeadBlock ==
    /\ s.pc = "head"
    /\ \/ s.b = lastBlock /\ UNCHANGED <<lastBlock, stateSegment>>
       \/ /\ s.b # lastBlock
          /\ lastBlock' = s.b
          /\ stateSegment' = s.seg
    /\ s' = IdleS
    /\ UNCHANGED <<blk, seg, queue, p, r, seen, crashes, fails>>

-----------------------------------------------------------------------------
(* Crash and restart: FromConfig reads the state, and nothing is queued.   *)

Restart ==
    /\ queue' = <<>> /\ lastBlock' = None
    /\ p' = IdleP /\ r' = IdleR /\ s' = IdleS
    /\ UNCHANGED <<dbVars, seen>>

Crash ==
    /\ crashes < MaxCrashes
    /\ crashes' = crashes + 1
    /\ Restart
    /\ UNCHANGED fails

\* A disjointed segment that ends at the genesis is rewound once more: the
\* genesis has no previous block and the lookup of the empty reference panics.
RewindPanics ==
    /\ r.pc = "idle" /\ queue # <<>>
    /\ seg[Head(queue)].status = "DISJOINTED" /\ seg[Head(queue)].tail = Genesis
    /\ Restart
    /\ UNCHANGED <<crashes, fails>>

-----------------------------------------------------------------------------
PNext == LookupParent \/ AppendParent \/ AppendOwn \/ AppendHead \/ CreateSegment \/ QueueSegment
RNext == \/ RewindStart \/ IncludeBlock \/ IncludeTail
         \/ AppendSegmentPrev \/ AppendSegmentNext
         \/ SegmentUpdated \/ MarkValid \/ MarkAsHead \/ PushSegment \/ RewindPanics
SNext == FastForward \/ SetHeadBlock

Next ==
    \/ \E q \in Peers : \E i \in 1..Len(Sent[q]) : Deliver(q, i)
    \/ PNext \/ RNext \/ RewindFails \/ ValidationFails \/ LookupFails \/ SNext \/ Crash

Spec == Init /\ [][Next]_vars

\* The goroutines keep running, and the last commit of every peer arrives.
FairSpec ==
    /\ Spec
    /\ WF_vars(PNext) /\ WF_vars(RNext) /\ WF_vars(SNext)
    /\ \A q \in Peers : WF_vars(Len(Sent[q]) # 0 /\ seen[q] < Len(Sent[q])
                                /\ Deliver(q, Len(Sent[q])))

-----------------------------------------------------------------------------
(* Properties.                                                             *)

PStates == {"idle", "parent", "append parent", "append block", "append head",
            "new segment", "new block"}
RStates == {"idle", "include block", "include tail", "append segment",
            "append next", "rewound", "mark head", "set head", "push"}

\* The type invariant.  Once there is a head block its segment is known, and a
\* goroutine at work holds a block or a segment that exists (chain.go:435-503,
\* 665-696, segment_store.go:65-98).
TypeOK ==
    /\ blk \in [Blocks -> BlockRecord]
    /\ seg \in Seq(Segment) /\ Len(seg) <= MaxSegs
    /\ stateSegment \in 0..Len(seg)
    /\ queue \in Seq(1..Len(seg))
    /\ lastBlock \in Blocks \cup {None}
    /\ p.pc \in PStates /\ (p.pc # "idle" => p.b \in Blocks \ {Genesis})
    /\ r.pc \in RStates /\ (r.pc # "idle" => r.seg \in 1..Len(seg))
    /\ s.pc \in {"idle", "head"} /\ (s.pc = "head" => s.seg \in 1..Len(seg))
    /\ lastBlock # None => stateSegment # NoSeg
    /\ \A q \in Peers : seen[q] \in 0..Len(Sent[q])
    /\ crashes \in Nat /\ fails \in Nat

Members(id) == {b \in Blocks : blk[b].seg = id}
Descends(a, b) == a \in Ancestors[b]

\* The blocks from a segment's tail to its head.
PathOf(sg) == {b \in Ancestors[sg.head] : Descends(sg.tail, b)}

\* The blocks on the path of a segment belong to it, but for the one that is
\* being added, and when none is, no other block does (segment.go:88-141,
\* 144-267).
SegmentIsPath ==
    \A id \in 1..Len(seg) :
        /\ Descends(seg[id].tail, seg[id].head)
        /\ PathOf(seg[id]) \ {p.b} \subseteq Members(id)
        /\ p = IdleP /\ r = IdleR => Members(id) = PathOf(seg[id])

\* Links lead along one branch of the tree, forwards: a segment's head descends
\* from its tail, the tail from the one of the previous segment, and the next
\* segment has this one before it.  So fast-forwarding ends.  It holds through
\* forks, overwritten records, failures and crashes (segment.go:97-141, 226-331).
SegmentsOrdered ==
    \A id \in 1..Len(seg) :
        LET sg == seg[id]
        IN  /\ Descends(sg.tail, sg.head)
            /\ sg.prev # NoSeg => /\ Descends(seg[sg.prev].tail, sg.tail)
                                  /\ seg[sg.prev].tail # sg.tail
            /\ sg.next # NoSeg => seg[sg.next].prev = id

\* One proposer: no two blocks have the same height, and the commits go up the chain.
OneProposer ==
    /\ \A a, b \in Blocks : Height[a] = Height[b] => a = b
    /\ \E q \in Peers :
          /\ Peers = {q}
          /\ \A i, j \in 1..Len(Sent[q]) : i < j => Height[Sent[q][i]] < Height[Sent[q][j]]

\* With one proposer the link to the next segment is matched by one back, and
\* crosses from a block to its child (segment.go:270-331).
LinksMatch ==
    \A id \in 1..Len(seg) :
        LET next == seg[id].next
        IN  next # NoSeg => seg[next].prev = id /\ Parent[seg[next].tail] = seg[id].head

\* chain.go:629 "fast-forward the segment": a running node's head moves only to
\* its descendants (chain.go:617-696, 875-963).
HeadDescends ==
    [][lastBlock # None /\ lastBlock' # None => Descends(lastBlock, lastBlock')]_vars

\* No block is skipped for good: while the process runs, a segment without a
\* known parent waits in the queue or is worked on (segment_store.go:65-98).
DisjointedQueued ==
    \A id \in 1..Len(seg) :
        seg[id].status = "DISJOINTED" /\ seg[id].prev = NoSeg =>
            \/ Contains(queue, id)
            \/ r.seg = id
            \/ p.pc = "new block" /\ p.parent.seg = id

\* The head of the node eventually is the last block that was committed, and
\* stays it (chain.go:535-662).
Converges == \A q \in Peers : <>[](lastBlock = Last(Sent[q]))

\* block_validator.go:19 "err indicates there was some issue with this block": no
\* block that fails validation gets onto the node's chain.  The first block of
\* the first segment has no parent to be validated against (segment.go:88-141,
\* 219-235, 293-312).
HeadValidated ==
    lastBlock # None =>
        LET sg == seg[stateSegment]
        IN  (PathOf(sg) \ (IF sg.prev = NoSeg THEN {sg.tail} ELSE {})) \cap Rejected = {}

-----------------------------------------------------------------------------
(* The inductive invariant behind TypeOK and SegmentsOrdered.  The three    *)
(* goroutines act on what they have read before, so most of it is about how *)
(* far that may be out of date.                                            *)

\* The types of what the goroutines have read.
Memory ==
    /\ p \in [pc: PStates, b: Blocks \cup {None}, own: BlockRecord, parent: BlockRecord]
    /\ r \in [pc: RStates, seg: 0..MaxSegs, prev: 0..MaxSegs, b: Blocks \cup {None},
             bseg: 0..MaxSegs]
    /\ s \in [pc: {"idle", "head"}, b: Blocks \cup {None}, seg: 0..MaxSegs]
    /\ seen \in [Peers -> Nat]
    /\ p.pc # "idle" => p.own = NoRecord
    /\ \A b \in Blocks : blk[b].seg = NoSeg => blk[b] = NoRecord

\* A segment that was stored before its only block was, and then forgotten in a
\* crash, is the only kind that nothing leads to.
Known(id) == id \in 1..Len(seg) /\ blk[seg[id].head].seg # NoSeg

ReferencesKnown ==
    /\ \A b \in Blocks : blk[b].seg # NoSeg => Known(blk[b].seg)
    /\ \A id \in 1..Len(seg) : /\ seg[id].prev # NoSeg => Known(seg[id].prev)
                               /\ seg[id].next # NoSeg => Known(seg[id].next)
    /\ stateSegment # NoSeg => Known(stateSegment)
    /\ \A i \in 1..Len(queue) : Known(queue[i])
    /\ r.pc # "idle" => Known(r.seg)
    /\ r.pc \in {"append segment", "append next"} => Known(r.prev)
    /\ r.pc \in {"mark head", "set head"} => Known(r.bseg) /\ r.b \in Blocks
    /\ s.pc = "head" => Known(s.seg) /\ s.b \in Blocks
    /\ p.pc \in {"append parent", "append block", "append head"} => Known(p.parent.seg)
    /\ p.pc = "append head" => blk[p.b].seg # NoSeg
    /\ p.pc = "new block" => p.parent.seg \in 1..Len(seg) /\ seg[p.parent.seg].head = p.b

\* A block of a segment descends from its tail.  The one that is about to become
\* the tail, or was when the process crashed, has a next block.
FromTail(b, id) ==
    \/ Descends(seg[id].tail, b)
    \/ seg[id].tail # Genesis /\ b = Parent[seg[id].tail]
MembersFromTail ==
    \A b \in Blocks : blk[b].seg # NoSeg =>
        /\ FromTail(b, blk[b].seg)
        /\ blk[b].next = None => Descends(seg[blk[b].seg].tail, b)

\* The last block of a segment is the one without a next block, if there is one.
OpenIn(id) == {b \in Blocks : blk[b].seg = id /\ blk[b].next = None}
OneOpen ==
    /\ \A id \in 1..Len(seg) : \A a, b \in OpenIn(id) : a = b
    /\ \A id \in 1..Len(seg) : \A b \in OpenIn(id) : Height[b] >= Height[seg[id].head]

\* The commit handler: the segment it appends to, or has made, is as it was.
AppendsAtEnd ==
    LET id == p.parent.seg
    IN  /\ p.pc \in {"append parent", "append block", "append head"} =>
              /\ Descends(seg[id].tail, Parent[p.b])
              /\ Height[Parent[p.b]] >= Height[seg[id].head]
        /\ p.pc = "append parent" => OpenIn(id) \subseteq {Parent[p.b]}
        /\ p.pc \in {"append block", "new block"} => OpenIn(id) = {}
        /\ p.pc = "append head" => OpenIn(id) \subseteq {p.b}
        /\ p.pc = "new block" => Descends(seg[id].tail, p.b)

\* No link was made because of the segment that block b is in.
Unlinked(b) == \A id \in 1..Len(seg) : seg[id].prev # NoSeg => Parent[seg[id].tail] # b

\* A segment goes on after block b, so that no link can be made there.
Inside(b, id) == Height[seg[id].head] > Height[b]

\* If the rewind loop has changed a record since the commit handler read it, no
\* link depends on the record.
StaleRecords ==
    /\ p.pc \in {"parent", "append parent", "append block", "new segment", "new block"} =>
          /\ blk[p.b].seg # NoSeg => Inside(p.b, blk[p.b].seg)
          /\ Unlinked(p.b)
    /\ p.pc = "append parent" =>
          /\ blk[Parent[p.b]].seg # NoSeg
          /\ \/ blk[Parent[p.b]].seg = p.parent.seg
             \/ Inside(Parent[p.b], blk[Parent[p.b]].seg) /\ Unlinked(Parent[p.b])

\* The rewind loop: only it moves tails and makes links.
RewindsTail ==
    /\ r.pc \in {"include block", "include tail", "append segment"} =>
          r.b = seg[r.seg].tail /\ r.b # Genesis
    /\ r.pc \in {"include block", "include tail"} => seg[r.seg].prev = NoSeg
    /\ r.pc = "include block" => Unlinked(Parent[r.b])
    /\ r.pc = "append segment" =>
          /\ FromTail(Parent[r.b], r.prev)
          /\ \/ blk[Parent[r.b]].seg = r.prev
             \/ Inside(Parent[r.b], r.prev)
          /\ seg[r.seg].prev \in {NoSeg, r.prev}
    /\ r.pc = "append next" => seg[r.seg].prev = r.prev

\* A link leads to the segment of the block before the tail.
LinksStable ==
    \A id \in 1..Len(seg) :
        seg[id].prev # NoSeg => /\ seg[id].tail # Genesis
                               /\ blk[Parent[seg[id].tail]].seg = seg[id].prev

IInv ==
    /\ TypeOK /\ Memory /\ ReferencesKnown
    /\ MembersFromTail /\ OneOpen /\ AppendsAtEnd /\ StaleRecords
    /\ RewindsTail /\ LinksStable /\ SegmentsOrdered
=============================================================================
