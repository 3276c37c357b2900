---------------------------- MODULE LedgerProofs ----------------------------
(***************************************************************************)
(* Consensus implements Ledger, for every set of nodes, every leader       *)
(* function, every power distribution and every bound.  A step of the      *)
(* protocol proposes one header, endorses one, commits one, moves one head *)
(* or changes nothing that Ledger speaks of; that chains consist of        *)
(* committed blocks, wherever a node has them, and that what is voted for  *)
(* was proposed, is carried along in LInv.                                 *)
(***************************************************************************)
EXTENDS ConsensusProofs

-----------------------------------------------------------------------------
(* The blocks of a chain.                                                  *)

\* The header of a block is a header.
LEMMA HeaderAtType ==
    ASSUME NEW q \in Chain, NEW k \in 1..Len(q)
    PROVE  HeaderAt(q, k) \in Header
<1>1. q[k] \in Entry
  BY DEF Chain
<1>2. SubSeq(q, 1, k - 1) \in Chain
  BY DEF Chain
<1> QED BY <1>1, <1>2 DEF HeaderAt, Header, Entry

\* A chain and its prefixes agree on the headers of their blocks.
LEMMA HeaderAtPrefix ==
    ASSUME NEW q \in Chain, NEW t \in Chain, Prefix(q, t), NEW k \in 1..Len(q)
    PROVE  k \in 1..Len(t) /\ HeaderAt(q, k) = HeaderAt(t, k)
<1>1. Len(q) \in Nat /\ Len(t) \in Nat
  BY DEF Chain
<1>2. k \in 1..Len(t) /\ q[k] = t[k]
  BY <1>1 DEF Prefix
<1>3. SubSeq(q, 1, k - 1) = SubSeq(t, 1, k - 1)
  <2>1. /\ SubSeq(q, 1, k - 1) = [i \in 1..(k - 1) |-> q[i]]
        /\ SubSeq(t, 1, k - 1) = [i \in 1..(k - 1) |-> t[i]]
    BY <1>1, <1>2 DEF Chain
  <2>2. \A i \in 1..(k - 1) : q[i] = t[i]
    BY <1>1 DEF Prefix
  <2> QED BY <2>1, <2>2
<1> QED BY <1>2, <1>3 DEF HeaderAt

\* The last block of an extended chain is the header it was extended by.
LEMMA HeaderAtEnd ==
    ASSUME NEW h \in Header
    PROVE  HeaderAt(Extend(h), Len(h.last) + 1) = h
<1> DEFINE e == [round |-> h.round, proposer |-> h.proposer, state |-> h.state]
<1>1. h.last \in Chain /\ Len(h.last) \in Nat /\ e \in Entry
  BY DEF Header, Chain, Entry
<1>2. Extend(h) \in Chain /\ Len(Extend(h)) = Len(h.last) + 1
  BY ExtendChain
<1>3. Extend(h)[Len(h.last) + 1] = e
  BY <1>1 DEF Extend, Chain
<1>4. SubSeq(Extend(h), 1, Len(h.last)) = h.last
  <2>1. SubSeq(Extend(h), 1, Len(h.last)) = [i \in 1..Len(h.last) |-> Extend(h)[i]]
    BY <1>1, <1>2 DEF Chain
  <2>2. h.last = [i \in 1..Len(h.last) |-> h.last[i]]
    BY <1>1 DEF Chain
  <2> QED BY <2>1, <2>2, ExtendChain
<1>5. (Len(h.last) + 1) - 1 = Len(h.last)
  BY <1>1
<1>6. h = [last |-> h.last, round |-> h.round, proposer |-> h.proposer, state |-> h.state]
  BY DEF Header
<1> QED BY <1>3, <1>4, <1>5, <1>6 DEF HeaderAt

\* A chain that is not empty is its last header's extension.
LEMMA ChainSplit ==
    ASSUME NEW q \in Chain, q # <<>>
    PROVE  Len(q) \in 1..Len(q) /\ Extend(HeaderAt(q, Len(q))) = q
<1> DEFINE k == Len(q)
           h == HeaderAt(q, k)
<1>1. k \in 1..Len(q)
  BY DEF Chain
<1>2. h \in Header /\ h.last = SubSeq(q, 1, k - 1)
  BY <1>1, HeaderAtType DEF HeaderAt
<1>3. Len(h.last) = k - 1 /\ \A i \in 1..(k - 1) : h.last[i] = q[i]
  <2>1. q \in Seq(Entry) /\ Len(q) \in Nat
    BY DEF Chain
  <2>2. SubSeq(q, 1, k - 1) = [i \in 1..(k - 1) |-> q[i]]
    BY <1>1, <2>1
  <2>3. h.last \in Seq(Entry) /\ DOMAIN h.last = 1..(k - 1)
    BY <1>1, <1>2, <2>1, <2>2
  <2>4. Len(h.last) = k - 1
    BY <1>1, <2>1, <2>3
  <2> QED BY <1>2, <2>2, <2>4
<1>4. Extend(h) \in Chain /\ Len(Extend(h)) = k
  BY <1>1, <1>2, <1>3, ExtendChain
<1>5. q[k] = [round |-> h.round, proposer |-> h.proposer, state |-> h.state]
  <2>1. q[k] \in Entry
    BY <1>1 DEF Chain
  <2> QED BY <2>1 DEF HeaderAt, Entry
<1>6. Extend(h)[k] = q[k]
  BY <1>1, <1>2, <1>3, <1>5 DEF Extend, Header, Chain
<1>7. \A i \in 1..(k - 1) : Extend(h)[i] = q[i]
  BY <1>2, <1>3, ExtendChain
<1> HIDE DEF h
<1>8. \A i \in 1..k : Extend(h)[i] = q[i]
  BY <1>1, <1>6, <1>7
<1>9. Extend(h) = q
  BY <1>4, <1>8 DEF Chain
<1> QED BY <1>1, <1>9 DEF h

\* The extension of a committed chain by a committed header is one.
LEMMA CommittedExtend ==
    ASSUME NEW h \in Header, CommittedChain(h.last),
           h \in Committed(h.proposer), h \in Voted(h.proposer)
    PROVE  CommittedChain(Extend(h))
<1>1. h.last \in Chain /\ Extend(h) \in Chain /\ Len(Extend(h)) = Len(h.last) + 1
  BY ExtendChain DEF Header
<1>2. Prefix(h.last, Extend(h))
  <2>1. Len(h.last) \in Nat
    BY <1>1 DEF Chain
  <2> QED BY <1>1, <2>1, ExtendChain DEF Prefix
<1> SUFFICES ASSUME NEW k \in 1..Len(Extend(h))
             PROVE  LET g == HeaderAt(Extend(h), k)
                    IN  g \in Committed(g.proposer) /\ g \in Voted(g.proposer)
  BY DEF CommittedChain
<1>3. CASE k \in 1..Len(h.last)
  BY <1>1, <1>2, <1>3, HeaderAtPrefix DEF CommittedChain
<1>4. CASE k = Len(h.last) + 1
  BY <1>4, HeaderAtEnd
<1>5. Len(h.last) \in Nat
  BY <1>1 DEF Chain
<1> QED BY <1>1, <1>3, <1>4, <1>5

-----------------------------------------------------------------------------
(* The kinds of step.                                                      *)

\* Nothing that Ledger speaks of changes.
Quiet == UNCHANGED <<sent, head>>

\* A node votes for a header that it did not vote for in this role and round.
Votes(n, h) ==
    /\ UNCHANGED head
    /\ h.last \in Chains(n)
    /\ \A g \in Voted(n) : SameRole(n, g, h) => InfoOf(g) # InfoOf(h)
    /\ \A m \in Nodes :
          /\ Voted(m)' = IF m = n THEN Voted(m) \cup {h} ELSE Voted(m)
          /\ Committed(m)' = Committed(m)

\* It is its own header, or that of another node, which proposed it.
Proposes(n, h) == Votes(n, h) /\ h.proposer = n /\ h.proposer = SelectProposer(h.last, h.round)
Endorses(n, h) == Votes(n, h) /\ h.proposer # n /\ n \in Validators /\ h \in Voted(h.proposer)

\* A node commits a header it voted for as its proposer.
Commits(n, h) ==
    /\ UNCHANGED head
    /\ h \in Voted(n) /\ h.proposer = n
    /\ \A m \in Nodes :
          /\ Committed(m)' = IF m = n THEN Committed(m) \cup {h} ELSE Committed(m)
          /\ Voted(m)' = Voted(m)

\* A node's head becomes another of its blocks.
Moves(n, q) == UNCHANGED sent /\ q \in known[n] /\ head' = [head EXCEPT ![n] = q]

\* A published vote is new in its role.
LEMMA VotesNew ==
    ASSUME TypeOK, NEW n \in Nodes, NodeInv(n), NEW h \in Header,
           UNCHANGED head, h.last \in Chains(n),
           sent' = [sent EXCEPT ![n] = Append(sent[n], VoteMsg(h))],
           \A g \in Voted(n) : SameRole(n, g, h) => Before(InfoOf(g), InfoOf(h))
    PROVE  Votes(n, h)
<1>1. sent'[n] = Append(sent[n], VoteMsg(h)) /\ \A m \in Nodes \ {n} : sent'[m] = sent[m]
  BY DEF TypeOK
<1>2. Voted(n)' = Voted(n) \cup {h} /\ Committed(n)' = Committed(n)
  BY <1>1, AddVote
<1>3. \A m \in Nodes \ {n} : Committed(m)' = Committed(m) /\ Voted(m)' = Voted(m)
  BY <1>1 DEF Committed, Voted
<1>4. InfoOf(h) \in RoundInfo /\ ~ Before(InfoOf(h), InfoOf(h))
  BY HdrsType, BeforeNotAfter
<1>5. \A g \in Voted(n) : SameRole(n, g, h) => InfoOf(g) # InfoOf(h)
  BY <1>4
<1> QED BY <1>2, <1>3, <1>5 DEF Votes

\* The proposer votes for a header of its own (proposer.go:259-312),
LEMMA ProposeKind ==
    ASSUME LInv, NEW n \in Nodes, NEW st \in AppStates, Propose(n, st)
    PROVE  \E h \in Header : Proposes(n, h)
<1> DEFINE h == [last |-> psnap[n].last, round |-> psnap[n].round,
                 proposer |-> n, state |-> st]
<1>t. TypeOK /\ NodeInv(n)
  BY DEF LInv, IInv
<1>0. ppc[n] = "propose" /\ UNCHANGED head
  BY DEF Propose, chainVars
<1>1. h \in Header
  BY <1>0, <1>t DEF TypeOK, Snapshot, Header
<1>2. /\ h.last = psnap[n].last /\ h.round = psnap[n].round
      /\ h.proposer = n /\ InfoOf(h) = InfoOf(psnap[n])
  BY DEF InfoOf
<1>3. sent' = [sent EXCEPT ![n] = Append(sent[n], VoteMsg(h))]
  BY DEF Propose
<1> HIDE DEF h
<1>4. /\ InfoOf(h) = dbProposal[n] /\ h.proposer = SelectProposer(h.last, h.round)
      /\ \A g \in Voted(n) : g.proposer = n => Before(InfoOf(g), dbProposal[n])
  BY <1>0, <1>2, <1>t DEF NodeInv, Proposing, Leader
<1>5. \A g \in Voted(n) : SameRole(n, g, h) => Before(InfoOf(g), InfoOf(h))
  BY <1>2, <1>4 DEF SameRole
<1>6. h.last \in Chains(n)
  BY <1>2 DEF Chains
<1>7. Votes(n, h)
  BY <1>0, <1>1, <1>3, <1>5, <1>6, <1>t, VotesNew
<1> QED BY <1>1, <1>2, <1>4, <1>7 DEF Proposes

\* the validator for one that another node proposed (validator.go:173-221).
LEMMA EndorseKind ==
    ASSUME LInv, NEW n \in Nodes, ValidatorVote(n)
    PROVE  \E h \in Header : Endorses(n, h)
<1>t. TypeOK /\ NodeInv(n) /\ VotesProposed(n)
  BY DEF LInv, IInv
<1>0. vpc[n] = "vote" /\ UNCHANGED head
  BY DEF ValidatorVote, chainVars
<1> PICK h \in Header : h = vhdr[n]
  BY <1>0, <1>t DEF TypeOK
<1>1. sent' = [sent EXCEPT ![n] = Append(sent[n], VoteMsg(h))]
  BY DEF ValidatorVote
<1>2. /\ h.last = vsnap[n].last /\ h.round = vsnap[n].round
      /\ h.proposer # n /\ n \in Validators /\ h \in Voted(h.proposer)
      /\ InfoOf(vsnap[n]) = dbVote[n]
      /\ \A g \in Voted(n) : g.proposer # n => Before(InfoOf(g), dbVote[n])
  BY <1>0, <1>t DEF NodeInv, Validating, VotesProposed
<1>3. InfoOf(h) = dbVote[n] /\ h.last \in Chains(n)
  BY <1>2 DEF InfoOf, Chains
<1>4. \A g \in Voted(n) : SameRole(n, g, h) => Before(InfoOf(g), InfoOf(h))
  BY <1>2, <1>3 DEF SameRole
<1>5. Votes(n, h)
  BY <1>0, <1>1, <1>3, <1>4, <1>t, VotesNew
<1> QED BY <1>2, <1>5 DEF Endorses

\* A block is minted for a header the proposer voted for (proposer.go:331-351).
LEMMA CommitKind ==
    ASSUME LInv, NEW n \in Nodes, NEW v \in pgot[n], MintBlock(n, v)
    PROVE  \E h \in Header : Commits(n, h)
<1>t. TypeOK /\ NodeInv(n)
  BY DEF LInv, IInv
<1>1. phdr[n] \in Header /\ pvotes[n] \cup {v} \in SUBSET Vote /\ ppc[n] = "wait"
  BY <1>t DEF MintBlock, TypeOK
<1>2. phdr[n] \in Voted(n) /\ phdr[n].proposer = n
  BY <1>1, <1>t DEF NodeInv, Proposing
<1>3. /\ UNCHANGED head
      /\ sent'[n] = Append(sent[n], CommitMsg(phdr[n], pvotes[n] \cup {v}))
      /\ \A m \in Nodes \ {n} : sent'[m] = sent[m]
  BY <1>t DEF MintBlock, TypeOK, chainVars
<1>4. Voted(n)' = Voted(n) /\ Committed(n)' = Committed(n) \cup {phdr[n]}
  BY <1>1, <1>3, <1>t, AddCommit
<1>5. \A m \in Nodes \ {n} : Committed(m)' = Committed(m) /\ Voted(m)' = Voted(m)
  BY <1>3 DEF Committed, Voted
<1> QED BY <1>1, <1>2, <1>3, <1>4, <1>5 DEF Commits

\* Every step of the protocol is of one of these kinds.
LEMMA StepKinds ==
    ASSUME LInv, Next
    PROVE  \/ Quiet
           \/ \E n \in Nodes, h \in Header : Proposes(n, h) \/ Endorses(n, h) \/ Commits(n, h)
           \/ \E n \in Nodes : \E q \in known[n] : Moves(n, q)
<1> USE DEF chainVars, propVars, valVars, memVars, dbVars, netVars
<1> PICK n \in Nodes :
        \/ \E r \in 0..MaxRound, st \in Starts : EmitSnapshot(n, r, st)
        \/ \E q \in known[n] : SetHeadBlock(n, q)
        \/ ProposerTake(n) \/ ProposerTakeUnsaved(n)
        \/ Abstain(n)
        \/ \E st \in AppStates : Propose(n, st)
        \/ \E v \in pgot[n] : CountVote(n, v) \/ MintBlock(n, v)
        \/ ProposerCancel(n) \/ ProposerFatal(n)
        \/ ValidatorTake(n) \/ ValidatorPass(n) \/ ValidatorTakeUnsaved(n)
        \/ ValidatorVote(n) \/ ValidatorCancel(n)
        \/ \E s \in Nodes : \E i \in 1..Len(sent[s]) : Deliver(n, s, i)
        \/ Crash(n)
  BY DEF Next
<1>1. CASE \/ \E r \in 0..MaxRound, st \in Starts : EmitSnapshot(n, r, st)
           \/ ProposerTake(n) \/ ProposerTakeUnsaved(n)
           \/ Abstain(n)
           \/ \E v \in pgot[n] : CountVote(n, v)
           \/ ProposerCancel(n) \/ ProposerFatal(n)
           \/ ValidatorTake(n) \/ ValidatorPass(n) \/ ValidatorTakeUnsaved(n)
           \/ ValidatorCancel(n)
           \/ \E s \in Nodes : \E i \in 1..Len(sent[s]) : Deliver(n, s, i)
           \/ Crash(n)
  BY <1>1 DEF Quiet, EmitSnapshot, ProposerTake, ProposerTakeUnsaved, Abstain, CountVote,
           ProposerCancel, ProposerFatal, ValidatorTake, ValidatorPass,
           ValidatorTakeUnsaved, ValidatorCancel, Deliver, Crash, Restart
<1>2. ASSUME NEW q \in known[n], SetHeadBlock(n, q) PROVE Moves(n, q)
  BY <1>2 DEF SetHeadBlock, Moves
<1> QED BY <1>1, <1>2, ProposeKind, EndorseKind, CommitKind, Zenon

-----------------------------------------------------------------------------
(* The invariant.                                                          *)

\* LInv holds initially: there are no blocks, votes and commits.
LEMMA LInvInit == Init => LInv
<1> SUFFICES ASSUME Init, NEW n \in Nodes PROVE BuildsOnCommitted(n) /\ VotesProposed(n)
  BY IInvInit DEF LInv
<1>1. Voted(n) = {} /\ vpc[n] = "idle"
  BY DEF Init, Voted, HdrsOf
<1>2. Chains(n) = {<<>>} /\ CommittedChain(<<>>)
  BY DEF Init, Chains, NoSnap, CommittedChain
<1> QED BY <1>1, <1>2 DEF BuildsOnCommitted, VotesProposed

\* Committed headers and votes are never taken back, so a committed chain
\* stays one.
LEMMA CommittedStays ==
    ASSUME NEW q \in Chain, CommittedChain(q),
           \A m \in Nodes : Committed(m) \subseteq Committed(m)' /\ Voted(m) \subseteq Voted(m)'
    PROVE  CommittedChain(q)'
<1>1. \A k \in 1..Len(q) : HeaderAt(q, k).proposer \in Nodes
  BY HeaderAtType DEF Header
<1> QED BY <1>1 DEF CommittedChain, HeaderAt

\* A new chain of a node is one it had elsewhere, or ends in a commit it
\* received (chain.go:435-503, 699-819).
LEMMA StepChains ==
    ASSUME LInv, Next, NEW m \in Nodes
    PROVE  \A q \in Chains(m)' :
               \/ q \in Chains(m) \/ q = <<>>
               \/ \E h \in Header : h \in Committed(h.proposer) /\ q = Extend(h)
<1> USE DEF chainVars, propVars, valVars, memVars, dbVars, netVars
<1>t. TypeOK /\ \A k \in Nodes : NodeInv(k)
  BY DEF LInv, IInv
<1> PICK n \in Nodes :
        \/ \E r \in 0..MaxRound, st \in Starts : EmitSnapshot(n, r, st)
        \/ \E q \in known[n] : SetHeadBlock(n, q)
        \/ ProposerTake(n) \/ ProposerTakeUnsaved(n)
        \/ Abstain(n)
        \/ \E st \in AppStates : Propose(n, st)
        \/ \E v \in pgot[n] : CountVote(n, v) \/ MintBlock(n, v)
        \/ ProposerCancel(n) \/ ProposerFatal(n)
        \/ ValidatorTake(n) \/ ValidatorPass(n) \/ ValidatorTakeUnsaved(n)
        \/ ValidatorVote(n) \/ ValidatorCancel(n)
        \/ \E s \in Nodes : \E i \in 1..Len(sent[s]) : Deliver(n, s, i)
        \/ Crash(n)
  BY DEF Next
<1>1. ASSUME NEW r \in 0..MaxRound, NEW st \in Starts, EmitSnapshot(n, r, st)
      PROVE  Chains(m)' \subseteq Chains(m)
  <2>1. snap'[m] = snap[m] \/ snap'[m].last = head[m]
    BY <1>1, <1>t DEF EmitSnapshot, TypeOK
  <2> QED BY <1>1, <2>1 DEF EmitSnapshot, Chains
<1>2. ASSUME NEW q \in known[n], SetHeadBlock(n, q) PROVE Chains(m)' \subseteq Chains(m)
  BY <1>2, <1>t DEF SetHeadBlock, Chains, TypeOK
<1>3. CASE ProposerTake(n) \/ ValidatorTake(n)
  <2>1. UNCHANGED <<known, head, snap>>
    BY <1>3 DEF ProposerTake, ValidatorTake
  <2>2. /\ psnap'[m] = psnap[m] \/ psnap'[m] = snap[m]
        /\ vsnap'[m] = vsnap[m] \/ vsnap'[m] = snap[m]
    <3>1. CASE ProposerTake(n)
      BY <1>t, <3>1 DEF ProposerTake, TypeOK
    <3>2. CASE ValidatorTake(n)
      BY <1>t, <3>2 DEF ValidatorTake, TypeOK
    <3> QED BY <1>3, <3>1, <3>2
  <2>3. Chains(m)' \subseteq Chains(m)
    BY <2>1, <2>2 DEF Chains
  <2> QED BY <2>3
<1>4. CASE \/ ProposerTakeUnsaved(n)
           \/ \E st \in AppStates : Propose(n, st)
           \/ \E v \in pgot[n] : CountVote(n, v)
           \/ ValidatorPass(n) \/ ValidatorTakeUnsaved(n)
  BY <1>4 DEF ProposerTakeUnsaved, Propose, CountVote, ValidatorPass, ValidatorTakeUnsaved, Chains
<1>5. CASE \/ Abstain(n) \/ \E v \in pgot[n] : MintBlock(n, v)
           \/ ProposerCancel(n) \/ ProposerFatal(n)
           \/ ValidatorVote(n) \/ ValidatorCancel(n)
           \/ Crash(n)
  <2>1. UNCHANGED <<known, head>>
    BY <1>5 DEF Abstain, MintBlock, ProposerCancel, ProposerFatal, ValidatorVote,
             ValidatorCancel, Crash, Restart
  <2>2. /\ snap'[m] = snap[m] \/ snap'[m].last = <<>>
        /\ psnap'[m] = psnap[m] \/ psnap'[m].last = <<>>
        /\ vsnap'[m] = vsnap[m] \/ vsnap'[m].last = <<>>
    <3>1. /\ UNCHANGED snap \/ snap' = [snap EXCEPT ![n] = NoSnap]
          /\ UNCHANGED psnap \/ psnap' = [psnap EXCEPT ![n] = NoSnap]
          /\ UNCHANGED vsnap \/ vsnap' = [vsnap EXCEPT ![n] = NoSnap]
      BY <1>5 DEF Abstain, MintBlock, ProposerCancel, ProposerFatal, ValidatorVote,
               ValidatorCancel, Crash, Restart, ProposerReset, ValidatorReset
    <3> QED BY <1>t, <3>1 DEF NoSnap, TypeOK
  <2> QED BY <2>1, <2>2 DEF Chains
<1>6. ASSUME NEW s \in Nodes, NEW i \in 1..Len(sent[s]), Deliver(n, s, i),
             NEW q \in Chains(m)', q \notin Chains(m), q # <<>>
      PROVE  \E h \in Header : h \in Committed(h.proposer) /\ q = Extend(h)
  <2> PICK h \in Header : h = sent[s][i].hdr
    <3>1. sent[s][i] \in Message
      BY <1>t DEF TypeOK
    <3> QED BY <3>1 DEF Message
  <2>1. UNCHANGED <<head, snap, psnap>>
    BY <1>6 DEF Deliver
  <2>2. vsnap'[m] = vsnap[m] \/ vsnap'[m].last = <<>>
    <3>1. UNCHANGED vsnap \/ ValidatorReset(n)
      BY <1>6, Zenon DEF Deliver, ValidatorReceives
    <3> QED BY <3>1, <1>t DEF ValidatorReset, NoSnap, TypeOK
  <2>3. q \in known'[m] /\ q \notin known[m]
    BY <1>6, <2>1, <2>2 DEF Chains
  <2>4. sent[s][i].type = "COMMIT" /\ HandleBlockCommit(n, h)
    BY <1>6, <2>3, Zenon DEF Deliver
  <2>5. known' = [known EXCEPT ![n] = @ \cup {Extend(h)}]
    BY <2>3, <2>4, Zenon DEF HandleBlockCommit
  <2>6. q = Extend(h)
    BY <1>t, <2>3, <2>5 DEF TypeOK
  <2>7. h \in Committed(s)
    BY <2>4 DEF Committed, HdrsOf
  <2> QED BY <1>t, <2>6, <2>7 DEF NodeInv, CommitsVoted
<1> QED BY <1>1, <1>2, <1>3, <1>4, <1>5, <1>6, Zenon

\* A validator goes on with a header it received (validator.go:148-170).
LEMMA StepHeaders ==
    ASSUME LInv, Next, NEW m \in Nodes, vpc'[m] = "vote"
    PROVE  \/ vpc[m] = "vote" /\ vhdr'[m] = vhdr[m]
           \/ \E s \in Nodes : vhdr'[m] \in Voted(s)
<1> USE DEF chainVars, propVars, valVars, memVars, dbVars, netVars
<1>t. TypeOK
  BY DEF LInv, IInv
<1> PICK n \in Nodes :
        \/ \E r \in 0..MaxRound, st \in Starts : EmitSnapshot(n, r, st)
        \/ \E q \in known[n] : SetHeadBlock(n, q)
        \/ ProposerTake(n) \/ ProposerTakeUnsaved(n)
        \/ Abstain(n)
        \/ \E st \in AppStates : Propose(n, st)
        \/ \E v \in pgot[n] : CountVote(n, v) \/ MintBlock(n, v)
        \/ ProposerCancel(n) \/ ProposerFatal(n)
        \/ ValidatorTake(n) \/ ValidatorPass(n) \/ ValidatorTakeUnsaved(n)
        \/ ValidatorVote(n) \/ ValidatorCancel(n)
        \/ \E s \in Nodes : \E i \in 1..Len(sent[s]) : Deliver(n, s, i)
        \/ Crash(n)
  BY DEF Next
<1>1. CASE UNCHANGED <<vpc, vhdr>>
  BY <1>1
<1>2. CASE ValidatorReset(n)
  BY <1>2, <1>t DEF ValidatorReset, TypeOK
<1>3. CASE ValidatorTake(n)
  BY <1>3, <1>t DEF ValidatorTake, TypeOK
<1>4. ASSUME NEW s \in Nodes, NEW i \in 1..Len(sent[s]), Deliver(n, s, i)
      PROVE  \/ vpc[m] = "vote" /\ vhdr'[m] = vhdr[m]
             \/ \E k \in Nodes : vhdr'[m] \in Voted(k)
  <2>1. CASE /\ sent[s][i].type = "VOTE"
             /\ vhdr' = [vhdr EXCEPT ![n] = sent[s][i].hdr]
             /\ vpc' = [vpc EXCEPT ![n] = "vote"]
    <3>1. sent[s][i].hdr \in Voted(s)
      BY <2>1 DEF Voted, HdrsOf
    <3> QED BY <1>t, <2>1, <3>1 DEF TypeOK
  <2> QED BY <1>4, <1>1, <1>2, <2>1, Zenon DEF Deliver, ValidatorReceives
<1>5. CASE \/ \E r \in 0..MaxRound, st \in Starts : EmitSnapshot(n, r, st)
           \/ \E q \in known[n] : SetHeadBlock(n, q)
           \/ ProposerTake(n) \/ ProposerTakeUnsaved(n)
           \/ Abstain(n)
           \/ \E st \in AppStates : Propose(n, st)
           \/ \E v \in pgot[n] : CountVote(n, v) \/ MintBlock(n, v)
           \/ ProposerCancel(n)
           \/ ValidatorPass(n) \/ ValidatorTakeUnsaved(n)
  BY <1>1, <1>5 DEF EmitSnapshot, SetHeadBlock, ProposerTake, ProposerTakeUnsaved, Abstain,
           Propose, CountVote, MintBlock, ProposerCancel, ValidatorPass, ValidatorTakeUnsaved
<1>6. CASE ProposerFatal(n) \/ ValidatorVote(n) \/ ValidatorCancel(n) \/ Crash(n)
  BY <1>2, <1>6 DEF ProposerFatal, ValidatorVote, ValidatorCancel, Crash, Restart
<1> QED BY <1>3, <1>4, <1>5, <1>6, Zenon

\* Nothing that was voted for or committed is taken back.
LEMMA StepGrows ==
    ASSUME LInv, [Next]_vars
    PROVE  \A m \in Nodes : Committed(m) \subseteq Committed(m)' /\ Voted(m) \subseteq Voted(m)'
<1>1. CASE UNCHANGED sent
  BY <1>1 DEF Committed, Voted
<1>2. ASSUME NEW n \in Nodes, NEW h \in Header, Votes(n, h) \/ Commits(n, h)
      PROVE  \A m \in Nodes : Committed(m) \subseteq Committed(m)' /\ Voted(m) \subseteq Voted(m)'
  BY <1>2 DEF Votes, Commits
<1>3. CASE UNCHANGED vars
  BY <1>1, <1>3 DEF vars, netVars
<1>4. CASE Next
  BY <1>1, <1>2, <1>4, StepKinds DEF Quiet, Moves, Proposes, Endorses
<1> QED BY <1>3, <1>4

\* A new vote is for a header of its own or for one that was proposed, and it
\* builds on a chain of the node.
LEMMA StepVotes ==
    ASSUME LInv, [Next]_vars, NEW m \in Nodes, NEW h \in Voted(m)', h \notin Voted(m)
    PROVE  h \in Header /\ h.last \in Chains(m) /\ (h.proposer = m \/ h \in Voted(h.proposer))
<1>1. CASE UNCHANGED sent
  BY <1>1 DEF Voted
<1>2. ASSUME NEW n \in Nodes, NEW g \in Header, Commits(n, g) PROVE FALSE
  BY <1>2 DEF Commits
<1>3. ASSUME NEW n \in Nodes, NEW g \in Header, Votes(n, g) PROVE m = n /\ h = g
  BY <1>3 DEF Votes
<1>4. CASE UNCHANGED vars
  BY <1>1, <1>4 DEF vars, netVars
<1>5. CASE Next
  <2>1. CASE Quiet \/ \E n \in Nodes : \E q \in known[n] : Moves(n, q)
    BY <1>1, <2>1 DEF Quiet, Moves
  <2>2. ASSUME NEW n \in Nodes, NEW g \in Header, Proposes(n, g) \/ Endorses(n, g)
        PROVE  h \in Header /\ h.last \in Chains(m) /\ (h.proposer = m \/ h \in Voted(h.proposer))
    <3>1. m = n /\ h = g
      BY <1>3, <2>2 DEF Proposes, Endorses
    <3> QED BY <2>2, <3>1 DEF Proposes, Endorses, Votes
  <2> QED BY <1>2, <1>5, <2>1, <2>2, StepKinds
<1> QED BY <1>4, <1>5

\* Every step preserves LInv.
LEMMA LInvNext == LInv /\ [Next]_vars => LInv'
<1> SUFFICES ASSUME LInv, [Next]_vars, NEW m \in Nodes
             PROVE  BuildsOnCommitted(m)' /\ VotesProposed(m)'
  BY IInvNext DEF LInv
<1>t. /\ IInv /\ TypeOK
      /\ \A k \in Nodes : NodeInv(k) /\ BuildsOnCommitted(k) /\ VotesProposed(k)
  BY DEF LInv, IInv
<1>h. \A h \in Header : h.last \in Chain /\ h.proposer \in Nodes
  BY DEF Header
<1>c. Chains(m) \subseteq Chain
  BY <1>t DEF Chains, TypeOK, Snapshot
<1>g. \A k \in Nodes : Committed(k) \subseteq Committed(k)' /\ Voted(k) \subseteq Voted(k)'
  BY StepGrows
<1>1. \A q \in Chain : CommittedChain(q) => CommittedChain(q)'
  BY <1>g, CommittedStays
<1>2. \A q \in Chains(m)' : CommittedChain(q)'
  <2> SUFFICES ASSUME NEW q \in Chains(m)' PROVE CommittedChain(q)'
    OBVIOUS
  <2>1. CASE q \in Chains(m)
    BY <1>1, <1>c, <1>t, <2>1 DEF BuildsOnCommitted
  <2>2. CASE q = <<>>
    BY <2>2 DEF CommittedChain
  <2>3. ASSUME NEW h \in Header, h \in Committed(h.proposer), q = Extend(h)
        PROVE  CommittedChain(q)'
    <3>1. h \in Voted(h.proposer) /\ CommittedChain(h.last)
      BY <1>h, <1>t, <2>3 DEF NodeInv, CommitsVoted, BuildsOnCommitted
    <3>2. CommittedChain(q) /\ q \in Chain
      BY <2>3, <3>1, CommittedExtend, ExtendChain
    <3> QED BY <1>1, <3>2
  <2>4. CASE UNCHANGED vars
    BY <2>1, <2>4 DEF vars, chainVars, propVars, valVars, Chains
  <2> QED BY <2>1, <2>2, <2>3, <2>4, StepChains
<1>3. \A h \in Voted(m)' : CommittedChain(h.last)'
  <2> SUFFICES ASSUME NEW h \in Voted(m)' PROVE CommittedChain(h.last)'
    OBVIOUS
  <2>1. h.last \in Chain
    BY <1>t, <1>h, HdrsType, StepVotes
  <2>2. CommittedChain(h.last)
    BY <1>t, StepVotes DEF BuildsOnCommitted
  <2> QED BY <1>1, <2>1, <2>2
<1>4. \A h \in Voted(m)' : h \in Voted(h.proposer)'
  <2> SUFFICES ASSUME NEW h \in Voted(m)' PROVE h \in Voted(h.proposer)'
    OBVIOUS
  <2>1. CASE h \in Voted(m)
    <3>1. h \in Voted(h.proposer) /\ h.proposer \in Nodes
      BY <1>t, <1>h, <2>1, HdrsType DEF VotesProposed
    <3> QED BY <1>g, <3>1
  <2>2. CASE h \notin Voted(m)
    <3>1. CASE h.proposer = m
      BY <3>1
    <3>2. CASE h \in Voted(h.proposer)
      BY <3>2, <1>g, <1>h, <2>2, StepVotes
    <3> QED BY <2>2, <3>1, <3>2, StepVotes
  <2> QED BY <2>1, <2>2
<1>5. vpc'[m] = "vote" => vhdr'[m] \in Voted(vhdr[m].proposer)'
  <2> SUFFICES ASSUME vpc'[m] = "vote" PROVE vhdr'[m] \in Voted(vhdr[m].proposer)'
    OBVIOUS
  <2> PICK h : h = vhdr'[m]
    OBVIOUS
  <2>1. \/ vpc[m] = "vote" /\ vhdr[m] = h
        \/ \E s \in Nodes : h \in Voted(s)
    BY StepHeaders DEF vars, valVars
  <2>2. h \in Header /\ h \in Voted(h.proposer)
    BY <1>t, <2>1, HdrsType DEF VotesProposed, TypeOK
  <2>3. h \in Voted(h.proposer)'
    BY <1>g, <1>h, <2>2
  <2> QED BY <2>3 DEF Voted
<1> QED BY <1>2, <1>3, <1>4, <1>5 DEF BuildsOnCommitted, VotesProposed

\* LInv holds of every behaviour.
LEMMA LedgerInvariance == Spec => []LInv
<1> QED BY LInvInit, LInvNext, PTL DEF Spec

\* Every block of every node's chain was committed by its proposer, who voted
\* for it, whichever branch the node is on and whatever it went back to
\* (chain.go:435-503, 617-696, block.go:204-222).
THEOREM HeadsAreCommitted == Spec => []HeadsCommitted
<1>1. LInv => HeadsCommitted
  BY DEF LInv, HeadsCommitted, BuildsOnCommitted, Chains
<1> QED BY <1>1, LedgerInvariance, PTL

-----------------------------------------------------------------------------
(* The refinement.                                                         *)

\* What Ledger sees of the state.
AllProposed  == UNION {Own(n) : n \in Nodes}
AllEndorsed  == [n \in Nodes |-> {h \in Voted(n) : h.proposer # n}]
AllCommitted == UNION {Committed(n) : n \in Nodes}

\* What a step that sends nothing leaves as it is.
LEMMA SameSent ==
    ASSUME UNCHANGED sent
    PROVE  UNCHANGED <<AllProposed, AllEndorsed, AllCommitted>>
BY DEF AllProposed, AllEndorsed, AllCommitted, Own, Voted, Committed

\* A chain of a node ends in a block of the ledger.
LEMMA ChainInLedger ==
    ASSUME LInv, NEW n \in Nodes, NEW q \in Chains(n)
    PROVE  q \in Abstract!CommittedBlocks
<1>1. q \in Chain
  BY DEF LInv, IInv, TypeOK, Chains, Snapshot
<1>2. CommittedChain(q)
  BY DEF LInv, BuildsOnCommitted
<1>3. CASE q = <<>>
  BY <1>3 DEF Abstract!CommittedBlocks
<1>4. CASE q # <<>>
  <2> DEFINE g == HeaderAt(q, Len(q))
  <2>1. Len(q) \in 1..Len(q) /\ Extend(g) = q
    BY <1>1, <1>4, ChainSplit
  <2>2. g \in Header /\ g \in Committed(g.proposer)
    BY <1>1, <1>2, <2>1, HeaderAtType DEF CommittedChain
  <2>3. g \in AllCommitted
    BY <2>2 DEF AllCommitted, Header
  <2> QED BY <2>1, <2>3 DEF Abstract!CommittedBlocks, Abstract!Extend, Extend, AllCommitted
<1> QED BY <1>3, <1>4

\* Two headers of one height and round.
LEMMA SameRoundInfo ==
    ASSUME NEW g \in Header, NEW h \in Header, Abstract!SameRound(g, h)
    PROVE  InfoOf(g) = InfoOf(h)
BY DEF Abstract!SameRound, InfoOf

\* A proposal (proposer.go:236-312).
LEMMA ProposesRefines ==
    ASSUME LInv, NEW n \in Nodes, NEW h \in Header, Proposes(n, h)
    PROVE  Abstract!Propose
<1>1. /\ \A m \in Nodes : Voted(m)' = IF m = n THEN Voted(m) \cup {h} ELSE Voted(m)
      /\ \A m \in Nodes : Committed(m)' = Committed(m)
      /\ h.proposer = n /\ head' = head
  BY DEF Proposes, Votes
<1>2. /\ \A m \in Nodes : Own(m)' = IF m = n THEN Own(m) \cup {h} ELSE Own(m)
      /\ \A m \in Nodes : {g \in Voted(m)' : g.proposer # m} = {g \in Voted(m) : g.proposer # m}
  BY <1>1 DEF Own
<1>3. /\ AllProposed' = AllProposed \cup {h} /\ AllCommitted' = AllCommitted
      /\ AllEndorsed' = AllEndorsed
  BY <1>1, <1>2 DEF AllProposed, AllEndorsed, AllCommitted
<1>4. h.proposer = SelectProposer(h.last, h.round) /\ h.last \in Abstract!CommittedBlocks
  BY ChainInLedger DEF Proposes, Votes
<1>5. \A g \in AllProposed : g.proposer = h.proposer => ~ Abstract!SameRound(g, h)
  <2> SUFFICES ASSUME NEW m \in Nodes, NEW g \in Own(m), g.proposer = h.proposer,
                      Abstract!SameRound(g, h)
               PROVE  FALSE
    BY DEF AllProposed
  <2>1. g \in Voted(n) /\ SameRole(n, g, h)
    BY <1>1 DEF Own, SameRole
  <2>2. g \in Header
    BY <2>1, HdrsType DEF LInv, IInv
  <2> QED BY <2>1, <2>2, SameRoundInfo DEF Proposes, Votes
<1> QED BY <1>1, <1>3, <1>4, <1>5 DEF Abstract!Propose, AllProposed, AllEndorsed, AllCommitted

\* An endorsement (validator.go:173-251).
LEMMA EndorsesRefines ==
    ASSUME LInv, NEW n \in Nodes, NEW h \in Header, Endorses(n, h)
    PROVE  Abstract!Endorse(n)
<1>1. /\ \A m \in Nodes : Voted(m)' = IF m = n THEN Voted(m) \cup {h} ELSE Voted(m)
      /\ \A m \in Nodes : Committed(m)' = Committed(m)
      /\ h.proposer # n /\ n \in Validators /\ head' = head
  BY DEF Endorses, Votes
<1>2. \A m \in Nodes : Own(m)' = Own(m)
  BY <1>1 DEF Own
<1>3. AllProposed' = AllProposed /\ AllCommitted' = AllCommitted
  BY <1>1, <1>2 DEF AllProposed, AllCommitted
<1>4. AllEndorsed' = [AllEndorsed EXCEPT ![n] = @ \cup {h}]
  BY <1>1 DEF AllEndorsed
<1>5. h \in AllProposed
  <2>1. h.proposer \in Nodes /\ h \in Own(h.proposer)
    BY DEF Endorses, Own, Header
  <2> QED BY <2>1 DEF AllProposed
<1>6. \A g \in AllEndorsed[n] : ~ Abstract!SameRound(g, h)
  <2> SUFFICES ASSUME NEW g \in Voted(n), g.proposer # n, Abstract!SameRound(g, h)
               PROVE  FALSE
    BY DEF AllEndorsed
  <2>1. g \in Header
    BY HdrsType DEF LInv, IInv
  <2>2. SameRole(n, g, h)
    BY <1>1 DEF SameRole
  <2> QED BY <2>1, <2>2, SameRoundInfo DEF Endorses, Votes
<1> QED BY <1>1, <1>3, <1>4, <1>5, <1>6 DEF Abstract!Endorse, AllProposed, AllEndorsed, AllCommitted

\* A commit, maybe a repeated one (proposer.go:331-351).
LEMMA CommitsRefines ==
    ASSUME LInv, NEW n \in Nodes, NEW h \in Header, Commits(n, h)
    PROVE  Abstract!Commit
<1>1. /\ \A m \in Nodes : Voted(m)' = Voted(m)
      /\ \A m \in Nodes : Committed(m)' = IF m = n THEN Committed(m) \cup {h} ELSE Committed(m)
      /\ head' = head
  BY DEF Commits
<1>2. /\ AllProposed' = AllProposed /\ AllEndorsed' = AllEndorsed
      /\ AllCommitted' = AllCommitted \cup {h}
  BY <1>1 DEF AllProposed, AllEndorsed, AllCommitted, Own
<1>3. h \in AllProposed
  BY DEF AllProposed, Own, Commits
<1> QED BY <1>1, <1>2, <1>3 DEF Abstract!Commit, AllProposed, AllEndorsed, AllCommitted

\* A moved head (chain.go:617-696).
LEMMA MovesRefines ==
    ASSUME LInv, NEW n \in Nodes, NEW q \in known[n], Moves(n, q)
    PROVE  Abstract!Adopt(n)
<1>1. q \in Abstract!CommittedBlocks
  BY ChainInLedger DEF Chains
<1>2. UNCHANGED <<AllProposed, AllEndorsed, AllCommitted>>
  BY SameSent DEF Moves
<1> QED BY <1>1, <1>2 DEF Abstract!Adopt, Moves, AllProposed, AllEndorsed, AllCommitted

\* Consensus implements Ledger: a leader proposes at most one header per height
\* and round, on a committed block; a validator votes at most once per height and
\* round, for a header that was proposed; only what was proposed is committed; and
\* a node's chain ends in a committed block, whatever is lost, delivered twice,
\* forked, moved to another branch or interrupted by a crash (proposer.go:236-351,
\* validator.go:173-251, chain.go:435-503, 617-696).
THEOREM LedgerRefinement == Spec => ImplementsLedger
<1>1. Init => Abstract!Init
  <2> SUFFICES ASSUME Init PROVE Abstract!Init
    OBVIOUS
  <2>1. \A n \in Nodes : Voted(n) = {} /\ Own(n) = {} /\ Committed(n) = {}
    BY DEF Init, Voted, Own, Committed, HdrsOf
  <2> QED BY <2>1 DEF Init, Abstract!Init
<1>2. LInv /\ [Next]_vars => [Abstract!Next]_(Abstract!vars)
  <2> SUFFICES ASSUME LInv, [Next]_vars PROVE [Abstract!Next]_(Abstract!vars)
    OBVIOUS
  <2>1. CASE Quiet
    BY <2>1, SameSent DEF Quiet, Abstract!vars, AllProposed, AllEndorsed, AllCommitted
  <2>2. CASE UNCHANGED vars
    BY <2>1, <2>2 DEF Quiet, vars, chainVars, netVars
  <2>3. CASE Next
    BY <2>1, <2>3, StepKinds, ProposesRefines, EndorsesRefines, CommitsRefines, MovesRefines
       DEF Abstract!Next
  <2> QED BY <2>2, <2>3
<1> QED BY <1>1, <1>2, LedgerInvariance, PTL DEF Spec, ImplementsLedger, Abstract!Spec

=============================================================================
