------------------------------- MODULE Ledger -------------------------------
(***************************************************************************)
(* What the round protocol promises, without snapshots, messages, records  *)
(* or crashes: leaders propose, validators endorse, what was proposed may  *)
(* be committed, and every node is at some committed block.  There may be  *)
(* one proposal per parent and round, but several per height, so the       *)
(* committed blocks form a tree; a node may change from one branch of it   *)
(* to another (ChainSync says when it does not).                           *)
(***************************************************************************)
EXTENDS Integers, Sequences

CONSTANTS
    Nodes,                \* the processes
    Validators,           \* those that endorse
    SelectProposer(_, _)  \* the leader after a chain, in a round

VARIABLES
    proposed,   \* the headers that were proposed, by anybody
    endorsed,   \* the headers of others that a node voted for
    committed,  \* the headers that were committed, by anybody
    chain       \* the chain of a node

vars == <<proposed, endorsed, committed, chain>>

Extend(h) ==
    Append(h.last, [round |-> h.round, proposer |-> h.proposer, state |-> h.state])

\* The blocks there are: the genesis and what was committed.
CommittedBlocks == {<<>>} \cup {Extend(h) : h \in committed}

SameRound(g, h) == Len(g.last) = Len(h.last) /\ g.round = h.round

Init ==
    /\ proposed = {} /\ committed = {}
    /\ endorsed = [n \in Nodes |-> {}]
    /\ chain = [n \in Nodes |-> <<>>]

\* The leader of a round after a committed block proposes a header, its only one
\* for this height and round on any branch.
Propose ==
    \E h \in proposed' :
        /\ proposed' = proposed \cup {h}
        /\ h.proposer = SelectProposer(h.last, h.round)
        /\ h.last \in CommittedBlocks
        /\ \A g \in proposed : g.proposer = h.proposer => ~ SameRound(g, h)
        /\ UNCHANGED <<endorsed, committed, chain>>

\* A validator votes for a proposal of another node, once per height and round.
Endorse(n) ==
    \E h \in proposed :
        /\ n \in Validators /\ h.proposer # n
        /\ \A g \in endorsed[n] : ~ SameRound(g, h)
        /\ endorsed' = [endorsed EXCEPT ![n] = @ \cup {h}]
        /\ UNCHANGED <<proposed, committed, chain>>

\* A proposal is committed.
Commit ==
    \E h \in proposed :
        /\ committed' = committed \cup {h}
        /\ UNCHANGED <<proposed, endorsed, chain>>

\* A node goes to a committed block.
Adopt(n) ==
    \E q \in CommittedBlocks :
        /\ chain' = [chain EXCEPT ![n] = q]
        /\ UNCHANGED <<proposed, endorsed, committed>>

Next == (\E n \in Nodes : Adopt(n) \/ Endorse(n)) \/ Commit \/ Propose

Spec == Init /\ [][Next]_vars
=============================================================================
