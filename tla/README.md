# A TLA+ development for inca-go

inca-go is a library for small proof-of-stake block chains. Its nodes talk over
pub-sub and keep their blocks as encrypted objects in a content-addressed store.
This directory holds TLA+ modules of its round protocol, of the way a node
assembles its chain, of its round clock, of the way messages travel and of its
transaction pool, with TLC configurations and TLAPS proofs for all of them.
`PROJECT.json` maps each definition to the lines it models and
lists the runs, findings, hazards and theorems.

## Inventory

| Component | State | Operations |
|---|---|---|
| proposer (`chain/proposer.go`) | `LastProposal` in memory and database | `ManageProposer`: read a snapshot, record the round, propose, wait for votes, mint and commit |
| validator (`chain/validator.go`) | `LastVote` in memory and database | `processStateSnapshot`: record the round; `makeVote`: wait for the leader's vote, repeat it |
| chain state (`chain/chain.go`, `chain_state.go`, `state/state.go`) | head block, state segment, last round, last snapshot and its context, a timer, subscriptions | `HandleBlockCommit`, `manageState`, `manageSegmentRewind`, `HandleSegmentUpdated`, `computeEmitSnapshot`, `NewChain`, `FromConfig` |
| segments (`segment/`) | a record per segment, singletons in memory, the rewind queue | `NewSegment`, `AppendBlock`, `AppendSegment`, `RewindOnce`, `Push`, `Pop` |
| blocks (`block/`) | a record per block: segment, next block | `GetBlock`, `WriteState`, `ValidateChild` |
| peers (`peer/`) | last observed message per peer (database), subscriptions | `ProcessNodePubsubMessage`, `SubscribeMessages` |
| node (`node/`) | outbox, reference of the last message (database), peers, chain, proposer, validator | `SendMessage`, `processNode`, start-up |
| mempool (`utils/transaction/`) | heap of transactions, transaction database | `Enqueue`, `CollectTransactions`, `ProposeBlock` |
| built-in validators, encryption, database containers, shell, logging, examples | none, or one marshalled value | stateless checks, cryptography, wiring |

How they interact: a chain emits *snapshots* (head, height, round, leader). The
proposer and the validator loops of every node each read the newest one from a
subscription of size one. Emitting a snapshot cancels the context of the one
before, and with it whatever the two loops were doing for the old round. The
leader publishes a vote for its own header. The other validators repeat that vote.
A waiter per validator passes votes to the leader's loop, which mints the block and
publishes a commit. Every node hands a commit to `HandleBlockCommit`, in the
pub-sub goroutine. It puts the block into a *segment*, a run of consecutive
blocks. The rewind goroutine extends segments backwards by fetching parents from
the object store and links them; the state goroutine moves the head forwards
along the links and emits the next snapshot, when it is triggered or when its timer
says that a round starts or ends. An application may propose the transactions of a
pool: `ProposeBlock` runs a collector and a resolver goroutine next to the proposer's
own, until the round's context ends.

What is hard here: three goroutines share block records and segments with hardly
a lock, and read and write records as a whole. Rounds end while work for them is
under way. Pub-sub loses and repeats messages. A process may die between any
two writes, and the rewind queue and the head are not persisted. What makes each
component correct:

* proposer and validator: never two proposals of a node in one round and never two
  votes for the proposals of others, votes only for the leader's header, at most one
  commit per parent and round, enough power behind a commit, progress;
* chain state: the head is a committed block, moves to descendants as long as there
  are no forks and no restart, and ends at the last block committed; no block that
  fails validation becomes part of the chain;
* segments: the blocks of a segment are a path, links between segments are
  consistent and lead forwards, none is forgotten;
* the round clock: rounds of a height never go back, the loop wakes up for every round;
* peers and node: a node's messages are linked and stamped in order, no old message is
  handled again, nodes recover from lost ones, nobody waits for ever to send;
* mempool: no transaction is lost or proposed twice, blocks keep their limits, all
  goroutines of a call end.

The hazards list in `PROJECT.json` gives each of these the line where it may go
wrong.

## Modules

### Consensus

The round protocol of all nodes, over messages that are lost, delayed and
repeated. A chain is the sequence of its blocks' entries (round, proposer,
application state), a header has its parent chain, so equality of headers is
equality of references. A node's variables are the blocks it has in segments
(`known`), its chain `head`, `lastRound`, its newest snapshot `snap`, the program
counters and locals of the proposer (`ppc`, `psnap`, `phdr`, `pwait`, `pgot`, `pvotes`)
and of the validator (`vpc`, `vsnap`, `vhdr`), whether the context of the snapshot that
each of the two works on is still alive (`pctx`, `vctx`: once done it stays done), the
two records of rounds in memory and in the database, the messages it published in
timestamp order (`sent`) and the last one it observed of each peer (`seen`).

| Action | Code |
|---|---|
| `EmitSnapshot` | `computeEmitSnapshot`, `emitNextChainState`: the clock may move the round on, by any number, and a clock set back may undo that the round has started; the contexts of the snapshot before are cancelled |
| `SetHeadBlock` | `manageStateOnce`, `HandleSegmentUpdated` and `setHeadBlock`: the head becomes a block of a segment, and the round is reset |
| `ProposerTake`, `ProposerTakeUnsaved` | the guards of `ManageProposer` and the write of `LastProposal`, which may fail |
| `Propose`, `Abstain` | `makeProposal`, the start of the waiters, the own vote; or the application proposes nothing, or storing fails |
| `CountVote`, `MintBlock` | the loop over the votes: the standing is a variable of the loop body, so one vote alone must reach the required power |
| `ProposerCancel`, `ProposerFatal` | the context ends or the block cannot be stored; an error of `makeVote` is returned and ends the process |
| `ValidatorTake`, `ValidatorPass`, `ValidatorTakeUnsaved` | `processStateSnapshot` |
| `ValidatorVote`, `ValidatorCancel` | the end of `makeVote` |
| `Deliver` | `processIncomingNodeMessage`, the waiters, the validator's wait and, for a commit, `HandleBlockCommit`: the block gets into a segment, or is refused as invalid or a fork |
| `Crash` | the process ends anywhere and starts from its database |

Taking a snapshot the guards reject changes nothing and has no action. The
validator reads the clock again when it takes a snapshot, so its guard has no
"started". External, and modelled by how it is used: the choice of the leader
(`SelectProposer`, a constant operator) and the application (`AppStates`).

Two abstractions matter. How a node links the blocks it has, and so which of them
becomes its head, is the subject of ChainSync: here `SetHeadBlock` may take any of
them. Forwards is the rule. The exceptions, a fork that gets into the segments and a
head that changes to another branch or goes back, are what ChainSync shows for forks
that cross and for restarts; an instance bounds their number by `MaxJumps`, and the
proofs allow any. (A block that is known before its ancestors counts as one with all of
its ancestors, which are then fetched by rewinding.) And a message sent is published,
possibly never delivered; the outbox and the clocks behind it are the subject of
PeerLink, the times of rounds that of RoundClock.

### Ledger

What the round protocol promises, without snapshots, messages, records or crashes. The
leader of a round proposes a header on top of a committed block, its only one for the
height and round on any branch (`Propose`). A validator votes for a header of another
node that was proposed before, once per height and round (`Endorse`). What was proposed
may be committed (`Commit`), so that there is one block per parent and round but there
may be several per height, as in the code. And a node is at some committed block
(`Adopt`), also on another branch than before, as the code allows. Consensus
instantiates it with the headers of the votes that nodes sent for their own proposals
and for those of others, the headers of all commits sent and the nodes' chains;
`ImplementsLedger` is its specification.

### ChainSync

One node that turns commits into a chain. Blocks form a tree (`Parent`) with the
heights of their headers (`Height`, a constant that `ValidateChild` makes grow by one
from parent to child); an ancestor of a block is in every set that has the block and
is closed under `Parent`. The
database has a record per block (`blk`: segment, next block), the segments (`seg`)
and the state segment. The queue and the head `lastBlock` are in memory. `p`, `r` and
`s` are the program counters and locals of the pub-sub, the rewind and the state
goroutine.

| Action | Code |
|---|---|
| `Deliver`, `LookupParent` | `HandleBlockCommit` up to its first write, with the checks of `AppendBlock` |
| `AppendParent`, `AppendOwn`, `AppendHead` | the three writes of `Segment.AppendBlock` |
| `CreateSegment`, `QueueSegment` | the two writes of `SegmentStore.NewSegment`, and the push |
| `RewindStart`, `RewindFails` | `Pop` and `Segment.RewindOnce` up to its first write; a failed fetch drops the segment |
| `IncludeBlock`, `IncludeTail` | the previous block joins the segment |
| `AppendSegmentPrev`, `AppendSegmentNext` | `Segment.AppendSegment`, one step per write |
| `ValidationFails` | an error of a fetch inside `ValidateChild`, taken for an invalid block |
| `SegmentUpdated`, `LookupFails` | `HandleSegmentUpdated` up to its first write; a fetch in it fails and nothing is marked |
| `MarkValid`, `MarkAsHead` | the two writes of `markAsHead`: the status of the segment, then `setHeadBlock` |
| `PushSegment` | the push at the end of `RewindOnce` |
| `FastForward`, `SetHeadBlock` | `manageStateOnce`: one segment forward, then `setHeadBlock` with the block read before |
| `Crash`, `RewindPanics` | a restart: `FromConfig` reads the state segment, queue and head are empty |

Each action ends with a write, so that a crash or another goroutine may come in
between. A crash between the two writes of `markAsHead`, for example, leaves a valid
segment that is neither the head nor ever queued again. A record is written back as it
was read. The queue is what `container/heap`
makes of a `Less` that is never true. The verdicts of `ValidateChild` are the sets
`Rejected` and `Marked`. `Founder` selects the two initial states: a node that
joins, with an empty database, or the node that ran `NewChain` (its context is
cancelled when the chain is minted) and then loads the chain with `FromConfig`.
`ValidateChild` against a block that is not the parent is modelled as the
comparison of heights it is; with several validators the leader may differ too.

### RoundClock

One node's state loop with a discrete clock: `now`, the block at the end of the state
segment (`tip`) and the one the loop works on (`head`), `lastRound`, the snapshot, the
timer (`due`, `full`, whether the loop looks at its channel: `armed`), the trigger and
one subscriber. A pass reads the clock three times, and time may pass in between.

| Action | Code |
|---|---|
| `Look` | `setHeadBlock` if there is a new head, and the comparison of its timestamp with the clock |
| `Emit` | the rest of `computeEmitSnapshot`, and `emitNextChainState` |
| `PassFails` | a fetch fails; the error is logged and the timer set all the same |
| `Schedule`, `Wake` | the end of the loop body of `manageState`: the next time to check, the reset of the timer, the select |
| `SubscribeRead`, `SubscribeStore` | the two steps of `SubscribeState` |
| `Commit` | a block is appended and the loop triggered; its timestamp may be ahead of the clock |
| `Tick`, `SetBack`, `Expire` | the clock, which may be set back, and the timer, which then runs on |

### PeerLink

One node's messages on their way to one other node: the loops of the sender that wait
in `SendMessage`, the steps of `processNode` for a message, the messages in the object
store with their timestamps and links, the receiver's record of the last one it
observed, and a subscription. Each node has its own clock.

| Action | Code |
|---|---|
| `SendMessage`, `SendCancelled` | `Node.SendMessage` up to the outbox, and its end by the round's context |
| `TakeMessage`, `WriteState`, `Publish` | `processNode` and `pubsubSendMsg`: stamp, link and store; `LastMsgRef` in memory and database; publish; each may fail |
| `Receive` | `processIncomingNodeMessage`, for any message published, any number of times, in any order |
| `Emit`, `EmitFull`, `EmitDrop` | `emitNextNodeMessage`, one step per select |
| `SubscribeMessages`, `Read` | a subscriber |
| `SenderCrash`, `ReceiverCrash` | `readState` of node and peer |
| `Tick`, `SetClock` | the two clocks |

A message refused as an old one changes nothing and has no action.

### Mempool

Several calls of `ProposeBlock` over one pool. For each call there are the caller's
goroutine (`mpc`, `applied`, `result`), the collector (`cpc`, `chold`, `cmax`) and the
resolver (`rpc`, `rhold`), which hand transactions on over unbuffered channels, the
error channel (`errs`), the round's context (`ctx`) and the collect context (`cctx`).

| Action | Code |
|---|---|
| `ProposeBlock`, `GetStateAtBlock` | the beginning of a call and of its two goroutines |
| `LoopError`, `LoopCancelled`, `LoopReceive`, `LoopClosed`, `Apply` | the cases of the caller's select, and the application of a transaction |
| `AfterLoop`, `StoreProposal` | the last look at the error channel, the minimum, storing the proposal |
| `Dequeue`, `Collect`, `CollectorDone` | `CollectTransactions` |
| `ResolverDone`, `GetTx`, `PrePoolCheckTx`, `SendDone` | the resolver, with the lookup in the transaction database |
| `Submit` | a transaction is stored and enqueued |
| `RoundCancelled`, `RoundOver` | the next snapshot; the end of the round |

A transaction is a model value with a priority. What the application answers, and which
access fails, is open. `Truncated` is the conversion of a ratio to an integer
`Duration`, which makes 0 of everything below 1. Two calls overlap only by goroutines
that the first one left behind, as in the code: the proposer loop calls `ProposeBlock`
again when it has returned and its round is over.

### MCConsensus, MCChainSync, MCRoundClock, MCPeerLink, MCMempool

The instances: leaders that rotate, powers, trees and the commits of peers, the options
of the mempool proposer, and units of time.

### ConsensusProofs, LedgerProofs, PeerLinkProofs, MempoolProofs, RoundClockProofs, and three for ChainSync

The theorems; see below. ChainSyncProofs is about every behaviour of ChainSync,
ChainSyncLineProofs, which extends it, about a chain with one proposer, and
ChainSyncRunProofs, which extends that, about a process that runs on.

## Runs

A run that passes:

| Run | Instance | Shows |
|---|---|---|
| ConsensusRounds | two validators, power 7 and 3, that lead in turn, two rounds, one height, one fork or jump of a head | `TypeOK`, `VotesFollowLeader` |
| ConsensusCrash | a fixed leader with two proposals, two heights, one crash, one fork or jump of a head, `Faulty` | `VoteOnce`, `CommitUnique`, `HeadsCommitted`, `ImplementsLedger` |
| ConsensusGrow | the single validator of `NewChain`, three heights, two rounds, fair | `HeadsGrow` |
| ChainSyncOne | a joining node, one proposer, any commit may be missed, fair | `SegmentIsPath`, `DisjointedQueued`, `HeadDescends`, `Converges` |
| ChainSyncFaults | a founder, two proposers that cross and fork, a crash, a failed fetch, a marked block | `TypeOK`, `SegmentsOrdered` |
| ChainSyncTrust | a founder, one proposer, an invalid and a marked block, a crash, a failed fetch | `LinksMatch`, `HeadValidated` |
| RoundClockShort | rounds of 2.5 s, an old head, a new block, one fault (a block ahead of the clock, a failed fetch, a clock set back), fair | `TypeOK`, `WakesInTime`, `SnapshotsAdvance`, `SubscriberAdvances` |
| PeerLinkFaults | two loops, three messages, a fast clock, two faults among crashes, failing writes and clocks that are set, fair | `TypeOK`, `LinksBack`, `StampsOrdered`, `SubscriptionInOrder`, `HandledInOrder`, `SendEnds` |
| MempoolCalls | two calls, two transactions, no limits or one transaction per block with a deadline, every failure, fair | `TypeOK`, `OnePlace`, `BlockWithinLimits`, `CallsEnd` |

A run that refutes what the repository says of itself (the finding in
`PROJECT.json` quotes the line):

| Run | Refutes | Because |
|---|---|---|
| ConsensusAgreement | `Agreement` ("BFT consensus") | a waiter takes any vote of its peer: the leader of round 1 commits by counting a vote for round 0, whose leader committed too |
| ConsensusStanding | `QuorumEndsWait` | the standing starts at 0 for every vote |
| MempoolDeadline | `FoundIsProcessed` ("after this deadline, if at least one transaction was found, it will be processed") | the select after the loop returns the deadline's error and does not requeue |

Four more disagreements with comments are facts of the models and have no run of
their own: the required power is truncated, 1 of 3 for three validators of power 1
(`Required` of Consensus); `Less` of the segment queue compares an element with itself,
so the queue is not ordered by height (`Push`, `PopRest`); a failed fetch inside
`ValidateChild` marks a segment as invalid for good (`ValidationFails`); and a crash
between the first two writes of `AppendBlock` leaves a block that is in no segment and
is refused as "already appended" (`AppendParent`, `AppendOwn`, `CanAppend`).

Deadlock is not checked: every instance is finite (at the bounds no snapshot is
emitted, no message sent and no call made, the clock stops, and once all commits are
handled a node has nothing to do).

**Bounds.** `MaxRound`, `MaxHeight`: a second round is what can conflict with the
first, a second height is where records of the first may be stale. `MaxCrashes =
1`: a crash may come at any step, and a restarted node is in a state like one of
a fresh node with a database. `MaxJumps = 1`: one fork among a node's blocks, or one head
that goes to another branch or back, at any step. `Starts = {TRUE}`: a round that has not
started only keeps the proposer waiting, and the theorems are for both values. Four blocks after the genesis, so that a node can append, make a gap, rewind
over it and link; `MaxSegs` is large enough that it does not stop a run (a joining
node makes at most one segment per commit, repeats after a crash included).
ConsensusCrash is symmetric in what the application may propose (it checks no liveness);
no other symmetry is used, as the leaders and the tree tell nodes and blocks apart.
RoundClock: a unit of time is 1.25 s, so that 5 s and 10 s are 4 and 8 units; a pass
takes at most one unit (`MaxLag`), less than a round, and 13 units are several rounds
and more than 10 s. PeerLink: a unit is two minutes, so that a message is on time, too
old or in the future; a channel of one message is full at once; two faults are a
failed write and the crash that makes it matter. Mempool: a second call is what meets
the goroutines of the first, and a second transaction what fills a block of one.

**Fairness.** Consensus: the clock keeps ticking and the loops of a running node
keep running (they are goroutines that block only on channels that the model
has), and the next message of a peer is eventually delivered. That last is an
assumption about pub-sub; the run that uses it has `Faulty = FALSE`. Nothing fair is
asked of `Crash` or of anything that fails. One more assumption is in the bound: the last
round of a height never ends, so that some round is long enough for a block to be minted.
ChainSync: each goroutine keeps running,
and the last commit of a peer is delivered; the others may all be lost. RoundClock:
time passes, timers expire and the loop runs. PeerLink: `processNode` keeps running,
and serves the senders that wait on its channel one after the other, as Go's channels
do (strong fairness per sender); nothing is asked of pub-sub. Mempool: the goroutines
of a call go on as long as one of them can, and the next snapshot is eventually emitted
and cancels the round's context. Since a Go select chooses at random among the cases
that are ready, a context that is done is not overlooked for ever (strong fairness for
`CollectorDone` and `ResolverDone`).

**Where the passing instances stop, and why.** These properties hold where they are
checked and not beyond, and TLC shows why:

* `HeadDescends` fails when two proposers fork and a block is appended to a segment
  while another is linked behind it: the next segment is on another branch than
  the head. It also fails after a restart, when the rewind goroutine finds no head
  and sets one while the state goroutine has read the old one and sets it back. So
  Consensus and Ledger do not promise it either; what they promise, and prove, holds
  while heads move in this way.
* `VoteOnce` is for each of a node's two roles. The proposer and the validator keep
  separate records, so a node whose head changes to another branch may propose on one
  parent and vote for another's header on the other, in one height and round.
* `HeadValidated` and `LinksMatch` fail for two proposers whose commits cross: the
  handler and the rewind loop overwrite each other's record of a block, which is
  then in two segments. What survives all of it is `SegmentsOrdered`.
* `Converges` fails when the block after a gap is marked valid, as its segment is no
  longer rewound (the built-in validators mark none), and after a crash or a
  failed fetch, as segments not in the queue are not put back.
* The genesis segment of a founder is stored as disjointed. Once a segment is
  linked behind it while there is a head, it is queued, and rewinding past the
  genesis panics: `RewindPanics`.
* `HeadsGrow` needs a leader whose own power is enough, because of `QuorumEndsWait`, and
  heads that only move forwards (`MaxJumps = 0`).
* `WakesInTime` speaks of a timer that was reset once, and of clocks that are not set
  back. With rounds longer than 5 s and a new head the first passes find no earlier
  time than the initial one, `nextCheckCh` stays nil, and the loop sleeps until it is
  triggered, in spite of "Check at minimum every 10s" (TLC shows it with `RoundLength =
  6`); with a clock set back, a time that was used up may come up again, equals
  `lastNextCheckTime`, and the timer is not reset.
* `HandledInOrder` excludes a receiver that failed to write the last message it observed
  and then restarted.
* `StampsOrdered` excludes a clock that is set back. Then the receiver drops all messages
  until the time of the last one it observed, a message from the future included.
* `OnePlace` counts transactions that `AfterLoop` leaves with a call that failed:
  `FoundIsProcessed` says that this is a loss. It ends at the proposal: transactions of
  a proposal that is never committed do not return to the pool, and a crash loses those
  in the hands of a goroutine. Nothing in the code handles either.
* `BlockWithinLimits` allows a block without transactions if the minimum is 0. One is
  proposed when the resolver closes its channel before the collector's error is sent, as
  when the round is cancelled, or when the first transaction is refused.

## Proofs

Each theorem is about `Spec` of its module, for every value of the constants, the bounds
included. It rests on the module's named assumption and on the hypotheses that the table
shows. What the assumptions ask for beyond types:

* Consensus: the validators are nodes.
* ChainSync: heights start at 0 and grow by one from parent to child; a block that
  `ValidateChild` accepts has its parent's config; at least one segment can be made.
* PeerLink: the loops of a node are finitely many, the channel of a subscriber has room
  for a message.
* RoundClock: the first check, 5 s in the code, is not later than the period, 10 s.
* Mempool: the limits of the options are natural numbers, 0 for none, and the ratios
  percentages.

| Module | Theorem | States |
|---|---|---|
| ConsensusProofs | `TypeCorrect` | `Spec => []TypeOK` |
| | `Invariance` | `Spec => []IInv` |
| | `NoDoubleVote` | `Spec => []VoteOnce` |
| | `LeaderOnly` | `Spec => []VotesFollowLeader` |
| | `OneCommitPerRound` | `Spec => []CommitUnique` |
| LedgerProofs | `HeadsAreCommitted` | `Spec => []HeadsCommitted` |
| | `LedgerRefinement` | `Spec => ImplementsLedger` |
| ChainSyncProofs | `Invariance` | `Spec => []IInv` |
| | `TypeCorrect` | `Spec => []TypeOK` |
| | `SegmentsStayOrdered` | `Spec => []SegmentsOrdered` |
| ChainSyncLineProofs | `LineInvariance` | if `OneProposer`: `Spec => [](IInv /\ LineInv)` |
| | `LinksMatchOnLine` | if `OneProposer`: `Spec => []LinksMatch` |
| | `HeadValidatedOnLine` | if `OneProposer`: `Spec => []HeadValidated` |
| ChainSyncRunProofs | `WaitingIsQueued` | if `~Founder`: `Spec /\ Undisturbed => []DisjointedQueued` |
| | `PathInvariance` | if `OneProposer`: `Spec /\ Uninterrupted => [](IInv /\ LineInv /\ PathInv)` |
| | `SegmentIsPathOnLine` | if `OneProposer`: `Spec /\ Uninterrupted => []SegmentIsPath` |
| | `HeadDescendsOnLine` | if `OneProposer`, `~Founder`: `Spec /\ Uninterrupted => HeadDescends` |
| PeerLinkProofs | `Invariance` | `Spec => []IInv` |
| | `TypeCorrect` | `Spec => []TypeOK` |
| | `LinksLeadBack` | `Spec => []LinksBack` |
| | `StampsStayOrdered` | `Spec => []StampsOrdered` |
| | `MessagesHandledInOrder` | `Spec => HandledInOrder` |
| | `SubscriptionsInOrder` | `Spec => []SubscriptionInOrder` |
| MempoolProofs | `Invariance` | `Spec => []IInv` |
| | `TypeCorrect` | `Spec => []TypeOK` |
| | `BlocksWithinLimits` | `Spec => []BlockWithinLimits` |
| | `TransactionsInOnePlace` | `Spec => []OnePlace` |
| RoundClockProofs | `Invariance` | `Spec => []IInv` |
| | `TypeCorrect` | `Spec => []TypeOK` |
| | `LoopWakesInTime` | `Spec => []WakesInTime` |
| | `RoundsAdvance` | `Spec => SnapshotsAdvance` |

The invariants called `IInv` were checked with TLC before they were proved, on the
instances of the runs and, for ChainSync and RoundClock, on larger ones. They stand at the
end of the module they are about; what the proofs add to them stands in the proof modules.

**Consensus.** None of the three safety properties is inductive. A node votes through
two loops, each with its own record, and its head may be on another branch by the time
it votes, so `IInv` says nothing of heads, and for each node that

* every vote is in the database, among proposals if the node proposed the header and
  among votes otherwise, and the database is not ahead of the memory (`Recorded`);
  so a restart forgets only rounds that were never used;
* a loop about to vote works on the round recorded last, which is later than all rounds
  it voted in (`Proposing`, `Validating`); the proposer leads it and the validator does
  not, so the header says which record covers a vote;
* a node commits only its own headers, after voting for them (`CommitsVoted`).

`VoteOnce` and `VotesFollowLeader` are conjuncts of `IInv`. `CommitUnique` follows: two commits
for one parent and round are by the leader of that round, who proposed both. `IInv`
needs nothing about powers, which is why it holds although quorums do not.

**Consensus implements Ledger.** `LInv` adds to `IInv` that all blocks were committed of
every chain that a node has anywhere: the blocks it knows, its head, the heads of its three
snapshots and the parents of its votes (`BuildsOnCommitted`). A proposal is built on the
head of a snapshot, which may no longer be the head. It also adds that what a node votes
for, or is about to, was proposed (`VotesProposed`). Every step that sends something is
then a `Propose`, an `Endorse` or a `Commit` of Ledger (`StepKinds`), the guards on the
rounds being `VoteOnce` in the next state; a step that moves a head is an `Adopt`, and
everything else a stutter.

**ChainSync.** Three goroutines read records, let the others write, and write back what
they had read. `IInv` states how far that may be out of date. It is proved by owner: the
shared part (`MembersFromTail`, `OneOpen`, `LinksStable`, `SegmentsOrdered`), and what each
goroutine knows, which stays true under whatever another may write (`PKept` for the
commit handler, `RKept` for the rewind loop).

* Tails and links belong to the rewind loop, heads and the open end of a segment to the
  commit handler (`AppendsAtEnd`, `RewindsTail`).
* A link leads to the segment that the parent of the tail is in (`LinksStable`). The
  handler may overwrite a record that the rewind loop has changed since it was read; in
  that case the block is inside the segment the loop put it in, and no link was made
  because of it (`StaleRecords`).
* `AppendSegment` compares only heights. A link that it makes is right all the same: a
  stale answer is one where the segment goes on after the block (`Inside`), and there
  the heights do not fit.
* Nothing refers to a segment that was stored before its block was and then forgotten in
  a crash (`ReferencesKnown`), so that a head always has a segment to go to.

**ChainSync with one proposer.** Two proposers that cross refute `LinksMatch` and
`HeadValidated`, so their theorems are about one: `OneProposer` says that no two blocks have
the same height and that the only peer's commits go up the chain. Any of them may be lost
or come again, and crashes, panics and failed fetches are allowed. A set of blocks of the
chain is then known by heights alone, and `LineInv` says, on top of `IInv`:

* the node has no block above what its handler holds or what is still to come
  (`Arrivals`), so the handler writes the records of new blocks only, and what the
  handler and the rewind loop read is still so when they write (`PLine`, `RLine`): a
  record is not overwritten with something else;
* a segment has all that lies between its tail and a block of it (`Convex`), also above a
  head that lags behind after a crash, and every segment that something refers to has
  its own ends (`Owned`), so a link crosses from a head to its child (`LinksCross`);
* an invalid block is the tail of its segment, or about to be, or the segment is invalid
  and has no link back (`Clean`); the state segment is not such a one and does not become
  one (`HeadSettled`).

`LinksMatch` and `HeadValidated` follow in any state.

**ChainSync while the process runs.** A crash forgets the queue, and may leave a block in a
segment whose head or tail was yet to move to it. `Uninterrupted` excludes `Crash` and
`RewindPanics`, and `Undisturbed` also `RewindFails`, after which a segment is in nobody's
hands.

* `DisjointedQueued` holds for every tree, forks included. What a pop takes off the queue
  is put back by `PushSegment`, unless the rewind loop stops at "previous segment resolved
  to same segment". That this error never occurs is `TailFirst`: a block of a segment
  descends from the segment's tail, the block that is about to become it excepted. The
  genesis segment of a founder starts disjointed and outside the queue: hence `~Founder`.
* `SegmentIsPath` needs that heads come last too (`HeadLast`), which a fork would break, and
  that a segment has its ends from the time its block is stored (`AllOwned`).
* `HeadDescends` needs that only one goroutine at a time has a head to set (`HeadRises`):
  until there is one it is the rewind loop, which sets the head of the segment it has, and
  from then on the state loop, which follows the links. In between, heads of segments go
  up only. After a restart, and for a founder, there is a state segment but no head, and
  both have one to set.

The instance of ChainSyncOne satisfies all of these hypotheses, that of ChainSyncTrust
those of ChainSyncLineProofs.

**PeerLink.** `LinksBack` follows from `Linked`: the last message, in memory and in the
database, leads back to all that were published. To lead back is to be in every set that
is closed under links (`LeadsTo`), which a new message at the end does not disturb, so
no induction is needed. `StampsOrdered` follows from `Stamped`, and `HandledInOrder` from
`Observed`. `SubscriptionInOrder` needs `Buffered` and `NewestLast`, with the case in
which the subscriber reads while `emitNextNodeMessage` makes room.

**Mempool.** `IInv` counts, per call, what was applied, what is on its way and what the
collector may still hand on (`Counted`), which gives `BlockWithinLimits`; each of the two
goroutines sends one error at most (`ErrorsFit`), so that the error channel never blocks
them. `OnePlace` says that a transaction has one place. `PlaceInv` of `MempoolProofs`
splits that into "no two places" and "a place if it was submitted", and each handover
takes a transaction from one place and puts it into one that is free.

**RoundClock.** `WakesInTime` needs that the timer runs to the time that was noted, or that
time has passed (`TimerKnown`): `manageState` does not reset the timer when the next
time to check is the one it noted before. `SnapshotsAdvance` needs that the last snapshot of a head is of no
later round than `lastRound` (`SnapshotKnown`) and that there is one head per height
(`HeadKnown`).

**Only model-checked.** Liveness (`HeadsGrow`, `Converges`, `SubscriberAdvances`, `SendEnds`,
`CallsEnd`), which is out of the prover's reach, and the refutations. Every other property
of a passing run is a theorem.

## Not modelled

The wall clock in Consensus and ChainSync (rounds move at any time, messages are ordered
by their timestamps), signatures and encryption (a message is from the peer it claims to
be from), the object store but for failing accesses, the heap behind the pool (an
external library) and the torn segment heap that `Pop` without the mutex could leave.
Writes of segment and block records that fail are not modelled: fetches that fail are, and a
crash comes before any write. The genesis and public-key checks on a message are not
modelled, nor is the creation of a peer that two goroutines ask for. Of the orderer, a transaction has the priority it
gives; marshalling and transaction ids are left out. Command line, shell, logging,
database containers, built-in validators (stateless: their verdicts are the sets
`Rejected` and `Marked`) and examples hold no logic of the protocol.

## What could come next

An abstract specification of ChainSync, a chain of stretches and a head that moves along
it, with ChainSync as its refinement under `OneProposer`; and the torn heap of `Pop`
without the mutex, as a module of its own under ChainSync's queue.
