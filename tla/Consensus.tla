----------------------------- MODULE Consensus -----------------------------
(***************************************************************************)
(* The round protocol of chain/proposer.go and chain/validator.go, run by  *)
(* every node on the snapshots its chain emits (chain/chain.go), over the  *)
(* pub-sub messages that node/node.go sends and peer/peer.go filters.      *)
(*                                                                         *)
(* A block header is a record of its parent chain, round, proposer and     *)
(* application state; a chain is the sequence of the entries of its        *)
(* headers, genesis (height 0) being <<>>.  How a node links the blocks of *)
(* commits it receives into segments, and so which of these blocks becomes *)
(* its head, is the subject of ChainSync; here it may be any of them, also *)
(* one on another branch than the head or before it.                       *)
(***************************************************************************)
EXTENDS Integers, Sequences, FiniteSetsExt

CONSTANTS
    Nodes,                \* the processes, each with one key pair
    Validators,           \* the members of the (immutable) validator set
    Power,                \* the voting power of a validator
    AppStates,            \* what an application may propose as next state
    SelectProposer(_, _), \* the leader after a chain, in a round (external)
    MayAbstain,           \* the nodes whose application may propose nothing
    Faulty,               \* whether messages are lost and accesses to the
                          \*   database and the object store fail
    Starts,               \* bound: which values RoundStarted has in snapshots
    MaxHeight,            \* bound: no snapshot is emitted above it
    MaxRound,             \* bound: the last round of a height
    MaxCrashes,           \* bound: how often processes crash, in total
    MaxJumps,             \* bound: how often a fork gets into the segments of a
                          \*   node, or a head moves other than forwards
    None                  \* no header

ASSUME ConsensusAssumption ==
    /\ Validators \subseteq Nodes
    /\ MaxHeight \in Nat /\ MaxRound \in Nat
    /\ MaxCrashes \in Nat /\ MaxJumps \in Nat
    /\ Faulty \in BOOLEAN /\ Starts \subseteq BOOLEAN

VARIABLES
    known,        \* the blocks a node has in segments (database)
    head,         \* the chain of a node: the head of its state segment
    lastRound,    \* ChainState.LastRound, for the head
    snap,         \* the snapshot a node's chain emitted last
    ppc, psnap,   \* the proposer loop: where it is, the snapshot it works on,
    pctx,         \*   whether the snapshot's context is not done,
    phdr,         \*   the header it proposed,
    pwait,        \*   the validators a vote waiter still listens to,
    pgot,         \*   the votes that waiters offer to the loop,
    pvotes,       \*   and the votes the loop confirmed
    vpc, vsnap,   \* the validator loop: where it is, the snapshot it works on,
    vctx,         \*   whether the snapshot's context is not done,
    vhdr,         \*   and the header it votes for
    lastProposal, lastVote,  \* ProposerState and ValidatorState in memory
    dbProposal, dbVote,      \*   and in the database
    sent,         \* the messages a node published, in timestamp order
    seen,         \* the last message a node observed of each peer (database)
    crashes, jumps  \* how many of each there have been

chainVars == <<known, head, lastRound, snap>>
propVars  == <<ppc, psnap, pctx, phdr, pwait, pgot, pvotes>>
valVars   == <<vpc, vsnap, vctx, vhdr>>
memVars   == <<lastProposal, lastVote>>
dbVars    == <<dbProposal, dbVote>>
netVars   == <<sent, seen>>
countVars == <<crashes, jumps>>
vars == <<chainVars, propVars, valVars, memVars, dbVars, netVars, countVars>>

-----------------------------------------------------------------------------
(* Chains, headers and snapshots.                                          *)

Entry  == [round: Nat, proposer: Nodes, state: AppStates]
Chain  == Seq(Entry)
Header == [last: Chain, round: Nat, proposer: Nodes, state: AppStates]

Extend(h) ==
    Append(h.last, [round |-> h.round, proposer |-> h.proposer, state |-> h.state])

Prefix(s, t) == Len(s) <= Len(t) /\ \A i \in 1..Len(s) : s[i] = t[i]

Snapshot == [last: Chain, round: Nat \cup {-1}, started: BOOLEAN]
NoSnap   == [last |-> <<>>, round |-> -1, started |-> FALSE]

RoundInfo == [height: Nat, round: Nat \cup {-1}]
NoRound   == [height |-> 0, round |-> -1]

\* The height and round of a header or a snapshot.
InfoOf(x) == [height |-> Len(x.last) + 1, round |-> x.round]

Before(a, b) == a.height < b.height \/ (a.height = b.height /\ a.round < b.round)

Leader(sn) == SelectProposer(sn.last, sn.round)

Vote    == [from: Nodes, hdr: Header]
Message == [type: {"VOTE", "COMMIT"}, hdr: Header, votes: SUBSET Vote]

VoteMsg(h)       == [type |-> "VOTE", hdr |-> h, votes |-> {}]
CommitMsg(h, vs) == [type |-> "COMMIT", hdr |-> h, votes |-> vs]

\* int32(float32(TotalVotingPower) * 0.66): truncated.
TotalVotingPower == MapThenSumSet(LAMBDA v : Power[v], Validators)
Required == (66 * TotalVotingPower) \div 100

-----------------------------------------------------------------------------
Init ==
    /\ known = [n \in Nodes |-> {<<>>}]
    /\ head = [n \in Nodes |-> <<>>]
    /\ lastRound = [n \in Nodes |-> 0]
    /\ snap = [n \in Nodes |-> NoSnap]
    /\ ppc = [n \in Nodes |-> "idle"]
    /\ psnap = [n \in Nodes |-> NoSnap]
    /\ pctx = [n \in Nodes |-> FALSE]
    /\ phdr = [n \in Nodes |-> None]
    /\ pwait = [n \in Nodes |-> {}]
    /\ pgot = [n \in Nodes |-> {}]
    /\ pvotes = [n \in Nodes |-> {}]
    /\ vpc = [n \in Nodes |-> "idle"]
    /\ vsnap = [n \in Nodes |-> NoSnap]
    /\ vctx = [n \in Nodes |-> FALSE]
    /\ vhdr = [n \in Nodes |-> None]
    /\ lastProposal = [n \in Nodes |-> NoRound]
    /\ lastVote = [n \in Nodes |-> NoRound]
    /\ dbProposal = [n \in Nodes |-> NoRound]
    /\ dbVote = [n \in Nodes |-> NoRound]
    /\ sent = [n \in Nodes |-> <<>>]
    /\ seen = [n \in Nodes |-> [s \in Nodes |-> 0]]
    /\ crashes = 0 /\ jumps = 0

-----------------------------------------------------------------------------
(* The chain.                                                              *)

\* computeEmitSnapshot: the round follows the clock, so it may jump, but never
\* goes back before LastRound (RoundClock has the clock); a snapshot is emitted
\* when something changed.  Emitting cancels the context of the snapshot before,
\* and puts the new one into both subscriptions (of size one, the newest wins).
EmitSnapshot(n, r, st) ==
    /\ Len(head[n]) < MaxHeight
    /\ r >= lastRound[n]
    /\ LET new == [last |-> head[n], round |-> r, started |-> st]
       IN  new # snap[n] /\ snap' = [snap EXCEPT ![n] = new]
    /\ lastRound' = [lastRound EXCEPT ![n] = r]
    /\ pctx' = [pctx EXCEPT ![n] = FALSE]
    /\ vctx' = [vctx EXCEPT ![n] = FALSE]
    /\ UNCHANGED <<known, head, ppc, psnap, phdr, pwait, pgot, pvotes,
                   vpc, vsnap, vhdr, memVars, dbVars, netVars, countVars>>

\* setHeadBlock: the head becomes a block of a segment, and LastRound is reset.
\* Forwards is the rule; crossing forks, and a restart, let the state loop and
\* the rewind loop set one on another branch, or one before the head (ChainSync).
SetHeadBlock(n, q) ==
    /\ q # head[n]
    /\ \/ Prefix(head[n], q) /\ UNCHANGED jumps
       \/ ~ Prefix(head[n], q) /\ jumps < MaxJumps /\ jumps' = jumps + 1
    /\ head' = [head EXCEPT ![n] = q]
    /\ lastRound' = [lastRound EXCEPT ![n] = 0]
    /\ UNCHANGED <<known, snap, propVars, valVars, memVars, dbVars, netVars, crashes>>

-----------------------------------------------------------------------------
(* The proposer: ManageProposer.  Its subscription holds the newest         *)
(* snapshot; reading one that the guards reject changes nothing, and they  *)
(* reject it for good, so only the reading of one that passes is a step.   *)

\* Mutant: any node may propose, not only the leader.
MayProposeAnyone(n) ==
    /\ snap[n] # NoSnap /\ snap[n].started
    /\ Before(lastProposal[n], InfoOf(snap[n]))

\* Mutant: a round may be proposed in again (> for >=).
MayProposeAgain(n) ==
    /\ snap[n] # NoSnap /\ snap[n].started /\ Leader(snap[n]) = n
    /\ ~ Before(InfoOf(snap[n]), lastProposal[n])

\* Mutant: the check on the round without the one on the height.
MayProposeRoundOnly(n) ==
    /\ snap[n] # NoSnap /\ snap[n].started /\ Leader(snap[n]) = n
    /\ ~ lastProposal[n].height > InfoOf(snap[n]).height
    /\ ~ lastProposal[n].round >= InfoOf(snap[n]).round

MayPropose(n) ==
    /\ snap[n] # NoSnap
    /\ snap[n].started
    /\ Leader(snap[n]) = n
    /\ LET curr == InfoOf(snap[n])
           last == lastProposal[n]
       IN  /\ ~ last.height > curr.height
           /\ ~ (last.height = curr.height /\ last.round >= curr.round)

\* Mutant: the round is recorded in memory only.
ProposerTakeInMemory(n) ==
    /\ ppc[n] = "idle" /\ MayPropose(n)
    /\ lastProposal' = [lastProposal EXCEPT ![n] = InfoOf(snap[n])]
    /\ ppc' = [ppc EXCEPT ![n] = "propose"]
    /\ psnap' = [psnap EXCEPT ![n] = snap[n]]
    /\ pctx' = [pctx EXCEPT ![n] = TRUE]
    /\ UNCHANGED <<chainVars, phdr, pwait, pgot, pvotes, valVars,
                   lastVote, dbVars, netVars, countVars>>

\* The round is recorded, in memory and in the database, before it is used.
ProposerTake(n) ==
    /\ ppc[n] = "idle" /\ MayPropose(n)
    /\ lastProposal' = [lastProposal EXCEPT ![n] = InfoOf(snap[n])]
    /\ dbProposal' = [dbProposal EXCEPT ![n] = InfoOf(snap[n])]
    /\ ppc' = [ppc EXCEPT ![n] = "propose"]
    /\ psnap' = [psnap EXCEPT ![n] = snap[n]]
    /\ pctx' = [pctx EXCEPT ![n] = TRUE]
    /\ UNCHANGED <<chainVars, phdr, pwait, pgot, pvotes, valVars,
                   lastVote, dbVote, netVars, countVars>>

\* The write failed: "unable to write state, skipping proposal".
ProposerTakeUnsaved(n) ==
    /\ Faulty
    /\ ppc[n] = "idle" /\ MayPropose(n)
    /\ lastProposal' = [lastProposal EXCEPT ![n] = InfoOf(snap[n])]
    /\ UNCHANGED <<chainVars, propVars, valVars, lastVote, dbVars,
                   netVars, countVars>>

\* Mutant: the loop drops its proposal and still waits for votes.
ProposerResetKeepsPc(n) ==
    /\ psnap' = [psnap EXCEPT ![n] = NoSnap]
    /\ pctx' = [pctx EXCEPT ![n] = FALSE]
    /\ phdr' = [phdr EXCEPT ![n] = None]
    /\ pwait' = [pwait EXCEPT ![n] = {}]
    /\ pgot' = [pgot EXCEPT ![n] = {}]
    /\ pvotes' = [pvotes EXCEPT ![n] = {}]
    /\ UNCHANGED ppc

ProposerReset(n) ==
    /\ ppc' = [ppc EXCEPT ![n] = "idle"]
    /\ psnap' = [psnap EXCEPT ![n] = NoSnap]
    /\ pctx' = [pctx EXCEPT ![n] = FALSE]
    /\ phdr' = [phdr EXCEPT ![n] = None]
    /\ pwait' = [pwait EXCEPT ![n] = {}]
    /\ pgot' = [pgot EXCEPT ![n] = {}]
    /\ pvotes' = [pvotes EXCEPT ![n] = {}]

\* The application proposes nothing, or making the proposal failed.
Abstain(n) ==
    /\ ppc[n] = "propose" /\ (n \in MayAbstain \/ Faulty)
    /\ ProposerReset(n)
    /\ UNCHANGED <<chainVars, valVars, memVars, dbVars, netVars, countVars>>

\* Mutant: the proposal is built on the head of now, not of the snapshot.
ProposeOnHead(n, st) ==
    /\ ppc[n] = "propose"
    /\ LET h == [last |-> head[n], round |-> psnap[n].round,
                 proposer |-> n, state |-> st]
       IN  /\ phdr' = [phdr EXCEPT ![n] = h]
           /\ sent' = [sent EXCEPT ![n] = Append(@, VoteMsg(h))]
    /\ pwait' = [pwait EXCEPT ![n] = Validators]
    /\ ppc' = [ppc EXCEPT ![n] = "wait"]
    /\ UNCHANGED <<chainVars, psnap, pctx, pgot, pvotes, valVars, memVars, dbVars,
                   seen, countVars>>

\* makeProposal, the waiters for the votes of all validators, and the
\* proposer's own vote.
Propose(n, st) ==
    /\ ppc[n] = "propose"
    /\ LET h == [last |-> psnap[n].last, round |-> psnap[n].round,
                 proposer |-> n, state |-> st]
       IN  /\ phdr' = [phdr EXCEPT ![n] = h]
           /\ sent' = [sent EXCEPT ![n] = Append(@, VoteMsg(h))]
    /\ pwait' = [pwait EXCEPT ![n] = Validators]
    /\ ppc' = [ppc EXCEPT ![n] = "wait"]
    /\ UNCHANGED <<chainVars, psnap, pctx, pgot, pvotes, valVars, memVars, dbVars,
                   seen, countVars>>

\* The standing is reset for every vote, so the power of one vote alone decides
\* whether the block is minted.
Enough(v) == Power[v.from] >= Required

\* A waiter hands its vote to the loop, which goes on waiting,
CountVote(n, v) ==
    /\ ppc[n] = "wait" /\ v \in pgot[n] /\ ~ Enough(v)
    /\ pgot' = [pgot EXCEPT ![n] = @ \ {v}]
    /\ pvotes' = [pvotes EXCEPT ![n] = @ \cup {v}]
    /\ UNCHANGED <<chainVars, ppc, psnap, pctx, phdr, pwait, valVars, memVars, dbVars,
                   netVars, countVars>>

\* or mints the block with the votes it confirmed and commits it.
MintBlock(n, v) ==
    /\ ppc[n] = "wait" /\ v \in pgot[n] /\ Enough(v)
    /\ sent' = [sent EXCEPT ![n] =
                   Append(@, CommitMsg(phdr[n], pvotes[n] \cup {v}))]
    /\ ProposerReset(n)
    /\ UNCHANGED <<chainVars, valVars, memVars, dbVars, seen, countVars>>

\* The context is done, while waiting for votes or for an operation that is given
\* the context; or the block cannot be stored ("cannot store final block object").
ProposerCancel(n) ==
    /\ ppc[n] \in {"propose", "wait"}
    /\ ~ pctx[n] \/ (Faulty /\ \E v \in pgot[n] : Enough(v))
    /\ ProposerReset(n)
    /\ UNCHANGED <<chainVars, valVars, memVars, dbVars, netVars, countVars>>

-----------------------------------------------------------------------------
(* The validator: processStateSnapshot and makeVote.  A snapshot whose      *)
(* round had not started when it was emitted may have when it is read.     *)

\* The check on the last round does not ask for the same height.
MayVote(n) ==
    LET curr == InfoOf(snap[n])
        last == lastVote[n]
    IN  /\ snap[n] # NoSnap
        /\ ~ last.height > curr.height
        /\ ~ last.round >= curr.round

\* The round is recorded, and a validator that is not the leader waits for the
\* leader's vote.
ValidatorTake(n) ==
    /\ vpc[n] = "idle" /\ MayVote(n)
    /\ n \in Validators /\ Leader(snap[n]) # n
    /\ lastVote' = [lastVote EXCEPT ![n] = InfoOf(snap[n])]
    /\ dbVote' = [dbVote EXCEPT ![n] = InfoOf(snap[n])]
    /\ vpc' = [vpc EXCEPT ![n] = "wait"]
    /\ vsnap' = [vsnap EXCEPT ![n] = snap[n]]
    /\ vctx' = [vctx EXCEPT ![n] = TRUE]
    /\ UNCHANGED <<chainVars, propVars, vhdr, lastProposal,
                   dbProposal, netVars, countVars>>

\* The leader and nodes that are no validators record the round and go on.
ValidatorPass(n) ==
    /\ vpc[n] = "idle" /\ MayVote(n)
    /\ n \notin Validators \/ Leader(snap[n]) = n
    /\ lastVote' = [lastVote EXCEPT ![n] = InfoOf(snap[n])]
    /\ dbVote' = [dbVote EXCEPT ![n] = InfoOf(snap[n])]
    /\ UNCHANGED <<chainVars, propVars, valVars, lastProposal,
                   dbProposal, netVars, countVars>>

\* The write failed: "unable to write state, skipping round".
ValidatorTakeUnsaved(n) ==
    /\ Faulty
    /\ vpc[n] = "idle" /\ MayVote(n)
    /\ lastVote' = [lastVote EXCEPT ![n] = InfoOf(snap[n])]
    /\ UNCHANGED <<chainVars, propVars, valVars, lastProposal,
                   dbVars, netVars, countVars>>

ValidatorReset(n) ==
    /\ vpc' = [vpc EXCEPT ![n] = "idle"]
    /\ vsnap' = [vsnap EXCEPT ![n] = NoSnap]
    /\ vctx' = [vctx EXCEPT ![n] = FALSE]
    /\ vhdr' = [vhdr EXCEPT ![n] = None]

\* The vote goes out on the context of the validator, not of the snapshot.
ValidatorVote(n) ==
    /\ vpc[n] = "vote"
    /\ sent' = [sent EXCEPT ![n] = Append(@, VoteMsg(vhdr[n]))]
    /\ ValidatorReset(n)
    /\ UNCHANGED <<chainVars, propVars, memVars, dbVars, seen, countVars>>

\* The context is done, or the vote cannot be stored: "skipping round".
ValidatorCancel(n) ==
    /\ vpc[n] \in {"wait", "vote"}
    /\ ~ vctx[n] \/ (Faulty /\ vpc[n] = "vote")
    /\ ValidatorReset(n)
    /\ UNCHANGED <<chainVars, propVars, memVars, dbVars, netVars, countVars>>

-----------------------------------------------------------------------------
(* Delivery: Peer.processIncomingNodeMessage.                              *)

\* The waiter of the peer takes its first vote, whatever header it is for, unless
\* it cannot follow the reference to it.
WaiterReceives(n, s, h) ==
    \/ /\ ppc[n] = "wait" /\ s \in pwait[n]
       /\ pwait' = [pwait EXCEPT ![n] = @ \ {s}]
       /\ pgot' = [pgot EXCEPT ![n] = @ \cup {[from |-> s, hdr |-> h]}]
    \/ /\ ppc[n] # "wait" \/ s \notin pwait[n] \/ Faulty
       /\ UNCHANGED <<pwait, pgot>>

\* The validator takes the leader's vote for the height, round and parent of
\* its snapshot and skips others; following the references may fail, which
\* ends its round.
ValidatorReceives(n, s, h) ==
    LET listens == vpc[n] = "wait" /\ s = Leader(vsnap[n])
        matches == InfoOf(h) = InfoOf(vsnap[n]) /\ h.last = vsnap[n].last
    IN  \/ /\ listens /\ matches
           /\ vhdr' = [vhdr EXCEPT ![n] = h]
           /\ vpc' = [vpc EXCEPT ![n] = "vote"]
           /\ UNCHANGED <<vsnap, vctx>>
        \/ /\ ~ (listens /\ matches)
           /\ UNCHANGED valVars
        \/ /\ listens /\ Faulty
           /\ ValidatorReset(n)

\* ValidateChild, for what a header says.
ValidateChild(h) == h.proposer = SelectProposer(h.last, h.round)

\* Mutant: the block is appended to the head without looking at its parent.
HandleBlockCommitUnlinked(n, h) ==
    /\ known' = [known EXCEPT ![n] = @ \cup {Extend([h EXCEPT !.last = head[n]])}]
    /\ UNCHANGED jumps

\* The node has another block with the same parent.
Fork(n, h) ==
    \E q \in known[n] : q # Extend(h) /\ Len(q) = Len(h.last) + 1 /\ Prefix(h.last, q)

\* The block is put into a segment, unless it is invalid or "fork: block A and B".
\* A fork is noticed by the parent's next block, so one gets through when
\* the parent came later or its record was overwritten (ChainSync).
HandleBlockCommit(n, h) ==
    \/ /\ ValidateChild(h) /\ ~ Fork(n, h)
       /\ known' = [known EXCEPT ![n] = @ \cup {Extend(h)}]
       /\ UNCHANGED jumps
    \/ /\ ValidateChild(h) /\ Fork(n, h) /\ jumps < MaxJumps
       /\ known' = [known EXCEPT ![n] = @ \cup {Extend(h)}]
       /\ jumps' = jumps + 1
    \/ /\ ~ ValidateChild(h) \/ Fork(n, h)
       /\ UNCHANGED <<known, jumps>>

\* A node knows the validators of the genesis, and itself.
KnownPeers(n) == Validators \cup {n}

\* Only messages older than the last observed one are dropped: the last one
\* may be delivered again, and those skipped are never delivered.
Deliver(n, s, i) ==
    /\ s \in KnownPeers(n)
    /\ i \in 1..Len(sent[s])
    /\ i >= seen[n][s]
    /\ Faulty \/ i <= seen[n][s] + 1
    /\ seen' = [seen EXCEPT ![n] = [@ EXCEPT ![s] = i]]
    /\ \/ /\ sent[s][i].type = "VOTE"
          /\ WaiterReceives(n, s, sent[s][i].hdr)
          /\ ValidatorReceives(n, s, sent[s][i].hdr)
          /\ UNCHANGED <<known, jumps>>
       \/ /\ sent[s][i].type = "COMMIT"
          /\ HandleBlockCommit(n, sent[s][i].hdr)
          /\ UNCHANGED <<pwait, pgot, valVars>>
    /\ UNCHANGED <<head, lastRound, snap, ppc, psnap, pctx, phdr, pvotes, memVars,
                   dbVars, sent, crashes>>

-----------------------------------------------------------------------------
(* Crash and restart.                                                      *)

\* A process ends and is started again from its database.
Restart(n) ==
    /\ snap' = [snap EXCEPT ![n] = NoSnap]
    /\ ProposerReset(n)
    /\ ValidatorReset(n)
    /\ lastProposal' = [lastProposal EXCEPT ![n] = dbProposal[n]]
    /\ lastVote' = [lastVote EXCEPT ![n] = dbVote[n]]
    /\ lastRound' = [lastRound EXCEPT ![n] = 0]
    /\ UNCHANGED <<known, head, dbVars, netVars>>

Crash(n) ==
    /\ crashes < MaxCrashes
    /\ crashes' = crashes + 1
    /\ Restart(n)
    /\ UNCHANGED jumps

\* Storing the vote for the own proposal fails, as it does once the context is
\* cancelled: ManageProposer returns the error and the node exits ("internal
\* error").
ProposerFatal(n) ==
    /\ ppc[n] = "propose" /\ (~ pctx[n] \/ Faulty)
    /\ Restart(n)
    /\ UNCHANGED countVars

-----------------------------------------------------------------------------
Next ==
    \E n \in Nodes :
        \/ \E r \in 0..MaxRound, st \in Starts : EmitSnapshot(n, r, st)
        \/ \E q \in known[n] : SetHeadBlock(n, q)
        \/ ProposerTake(n) \/ ProposerTakeUnsaved(n)
        \/ Abstain(n)
        \/ \E st \in AppStates : Propose(n, st)
        \/ \E v \in pgot[n] : CountVote(n, v) \/ MintBlock(n, v)
        \/ ProposerCancel(n) \/ ProposerFatal(n)
        \/ ValidatorTake(n) \/ ValidatorPass(n) \/ ValidatorTakeUnsaved(n)
        \/ ValidatorVote(n) \/ ValidatorCancel(n)
        \/ \E s \in Nodes : \E i \in 1..Len(sent[s]) : Deliver(n, s, i)
        \/ Crash(n)

Spec == Init /\ [][Next]_vars

\* Every loop of a running node keeps running, the clock keeps ticking, and
\* pub-sub eventually delivers the next message of a validator.  Only validators
\* lead, so only their proposer loops have something to do.
Fairness ==
    /\ \A n \in Nodes :
          /\ WF_vars(\E r \in 0..MaxRound, st \in Starts : EmitSnapshot(n, r, st))
          /\ WF_vars(\E q \in known[n] : SetHeadBlock(n, q))
          /\ \A s \in Validators :
                WF_vars(\E i \in 1..Len(sent[s]) :
                           i = seen[n][s] + 1 /\ Deliver(n, s, i))
    /\ \A n \in Validators :
          /\ WF_vars(ProposerTake(n))
          /\ WF_vars(\E st \in AppStates : Propose(n, st))
          /\ WF_vars(\E v \in pgot[n] : CountVote(n, v) \/ MintBlock(n, v))
          /\ WF_vars(ProposerCancel(n))

FairSpec == Spec /\ Fairness

-----------------------------------------------------------------------------
(* Properties.                                                             *)

VoteRecord(f) == f \in [Nodes -> RoundInfo]

\* The type invariant.  A loop that waits has a header and a snapshot of a
\* round to work on, and an observed message was sent (proposer.go:207,
\* validator.go:225, peer.go:159).
TypeOK ==
    /\ known \in [Nodes -> SUBSET Chain] /\ head \in [Nodes -> Chain]
    /\ lastRound \in [Nodes -> Nat]
    /\ snap \in [Nodes -> Snapshot]
    /\ ppc \in [Nodes -> {"idle", "propose", "wait"}]
    /\ psnap \in [Nodes -> Snapshot]
    /\ pctx \in [Nodes -> BOOLEAN] /\ vctx \in [Nodes -> BOOLEAN]
    /\ phdr \in [Nodes -> Header \cup {None}]
    /\ pwait \in [Nodes -> SUBSET Nodes]
    /\ pgot \in [Nodes -> SUBSET Vote] /\ pvotes \in [Nodes -> SUBSET Vote]
    /\ vpc \in [Nodes -> {"idle", "wait", "vote"}]
    /\ vsnap \in [Nodes -> Snapshot]
    /\ vhdr \in [Nodes -> Header \cup {None}]
    /\ VoteRecord(lastProposal) /\ VoteRecord(lastVote)
    /\ VoteRecord(dbProposal) /\ VoteRecord(dbVote)
    /\ sent \in [Nodes -> Seq(Message)]
    /\ seen \in [Nodes -> [Nodes -> Nat]]
    /\ crashes \in Nat /\ jumps \in Nat
    /\ \A n \in Nodes :
          /\ snap[n] # NoSnap => snap[n].round # -1
          /\ ppc[n] # "idle" => psnap[n].round # -1
          /\ ppc[n] = "wait" => phdr[n] \in Header
          /\ vpc[n] # "idle" => vsnap[n].round # -1
          /\ vpc[n] = "vote" => vhdr[n] \in Header

\* The headers a node voted for, and those it committed.
HdrsOf(q, t) == {q[i].hdr : i \in {j \in 1..Len(q) : q[j].type = t}}
Voted(n)     == HdrsOf(sent[n], "VOTE")
Committed(n) == HdrsOf(sent[n], "COMMIT")

\* A node never proposes two headers of one height and round, and as a validator
\* never votes for two, across crashes, failed writes, clocks set back and heads
\* that move to another branch and back (proposer.go:236-252,
\* validator.go:235-251).
SameRole(n, g, h) == g.proposer = n <=> h.proposer = n
VoteOnce ==
    \A n \in Nodes : \A g, h \in Voted(n) :
        SameRole(n, g, h) /\ InfoOf(g) = InfoOf(h) => g = h

\* Every vote is for a header of the leader of its round, although the
\* validator checks only height, round and parent (validator.go:158-170).
VotesFollowLeader ==
    \A n \in Nodes : \A h \in Voted(n) : h.proposer = SelectProposer(h.last, h.round)

\* For one parent and one round at most one block is ever committed, by
\* anybody (proposer.go:331-351).
CommitUnique ==
    \A m, n \in Nodes : \A g \in Committed(m), h \in Committed(n) :
        g.last = h.last /\ g.round = h.round => g = h

\* The header of a block of a chain, and a chain of which every block was
\* committed by its proposer, who voted for it.
HeaderAt(q, k) ==
    [last |-> SubSeq(q, 1, k - 1), round |-> q[k].round,
     proposer |-> q[k].proposer, state |-> q[k].state]
CommittedChain(q) ==
    \A k \in 1..Len(q) :
        LET h == HeaderAt(q, k)
        IN  h \in Committed(h.proposer) /\ h \in Voted(h.proposer)

\* Every block of a node's chain was committed by its proposer, who voted for
\* it (chain.go:435-503, block.go:204-222).
HeadsCommitted == \A n \in Nodes : CommittedChain(head[n])

\* Seen from what was voted for and committed and from the nodes' chains, every
\* step of the protocol is a step of Ledger: a leader proposes once per height
\* and round, on a committed block; a validator votes once, for a header that was
\* proposed; what is committed was proposed; a chain ends in a committed block
\* (proposer.go:236-351, validator.go:173-251, chain.go:435-503).
Own(n) == {h \in Voted(n) : h.proposer = n}
Abstract == INSTANCE Ledger WITH
    proposed <- UNION {Own(n) : n \in Nodes},
    endorsed <- [n \in Nodes |-> {h \in Voted(n) : h.proposer # n}],
    committed <- UNION {Committed(n) : n \in Nodes},
    chain <- head
ImplementsLedger == Abstract!Spec

\* Every node's chain eventually reaches the bound when the leader may commit
\* on its own vote, as with the single validator NewChain sets up
\* (chain.go:118-135).
HeadsGrow == \A n \in Nodes : <>(Len(head[n]) = MaxHeight)

\* README.md:3 "BFT consensus": two nodes' chains never diverge.
Agreement ==
    \A m, n \in Nodes : Prefix(head[m], head[n]) \/ Prefix(head[n], head[m])

PowerFor(h, votes) ==
    MapThenSumSet(LAMBDA v : Power[v], {v.from : v \in {w \in votes : w.hdr = h}})

\* proposer.go:271 "Wait for the proposal to be signed by enough voting
\* power": once it is, the proposer no longer waits.
QuorumEndsWait ==
    \A n \in Nodes :
        ppc[n] = "wait" => PowerFor(phdr[n], pvotes[n]) < Required

-----------------------------------------------------------------------------
(* The inductive invariant behind VoteOnce, VotesFollowLeader and          *)
(* CommitUnique, one conjunct per idea, for one node.                      *)

NotAfter(a, b) ==
    a.height < b.height \/ (a.height = b.height /\ a.round <= b.round)

\* The database is never ahead of the memory, and every vote was recorded in
\* it: as proposal if the node proposed the header, as vote otherwise.
Recorded(n) ==
    /\ NotAfter(dbProposal[n], lastProposal[n])
    /\ NotAfter(dbVote[n], lastVote[n])
    /\ \A h \in Voted(n) :
          /\ h.proposer = n => NotAfter(InfoOf(h), dbProposal[n])
          /\ h.proposer # n => NotAfter(InfoOf(h), dbVote[n])

\* A proposer about to propose leads a recorded round it has not voted in.
Proposing(n) ==
    /\ ppc[n] = "propose" =>
          /\ InfoOf(psnap[n]) = dbProposal[n]
          /\ Leader(psnap[n]) = n
          /\ \A h \in Voted(n) : h.proposer = n => Before(InfoOf(h), dbProposal[n])
    /\ ppc[n] = "wait" => phdr[n] \in Voted(n) /\ phdr[n].proposer = n

\* So does a validator about to vote, in a round that another node leads.
Validating(n) ==
    /\ vpc[n] # "idle" =>
          /\ InfoOf(vsnap[n]) = dbVote[n]
          /\ n \in Validators /\ Leader(vsnap[n]) # n
          /\ \A h \in Voted(n) : h.proposer # n => Before(InfoOf(h), dbVote[n])
    /\ vpc[n] = "vote" =>
          /\ vhdr[n].last = vsnap[n].last
          /\ vhdr[n].round = vsnap[n].round
          /\ vhdr[n].proposer = Leader(vsnap[n])

\* A node commits only its own headers, after voting for them.
CommitsVoted(n) == \A h \in Committed(n) : h \in Voted(n) /\ h.proposer = n

NodeInv(n) ==
    /\ Recorded(n) /\ Proposing(n) /\ Validating(n) /\ CommitsVoted(n)
    /\ \A h \in Voted(n) : h.proposer = SelectProposer(h.last, h.round)
    /\ \A g, h \in Voted(n) : SameRole(n, g, h) /\ InfoOf(g) = InfoOf(h) => g = h

IInv == TypeOK /\ \A n \in Nodes : NodeInv(n)

\* What HeadsCommitted and the refinement of Ledger need on top.  A header is
\* built on the head of a snapshot, which may no longer be the head when it is
\* voted for, so the chains must be committed wherever a node has them,
Chains(n) == known[n] \cup {head[n], snap[n].last, psnap[n].last, vsnap[n].last}
BuildsOnCommitted(n) ==
    /\ \A q \in Chains(n) : CommittedChain(q)
    /\ \A h \in Voted(n) : CommittedChain(h.last)

\* and what a validator votes for has been proposed.
VotesProposed(n) ==
    /\ \A h \in Voted(n) : h \in Voted(h.proposer)
    /\ vpc[n] = "vote" => vhdr[n] \in Voted(vhdr[n].proposer)

LInv == IInv /\ \A n \in Nodes : BuildsOnCommitted(n) /\ VotesProposed(n)

=============================================================================
