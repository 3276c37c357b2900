--------------------------- MODULE ConsensusProofs ---------------------------
(***************************************************************************)
(* The safety of Consensus for every set of nodes, every leader function,  *)
(* every power distribution and every bound.                               *)
(***************************************************************************)
EXTENDS Consensus, TLAPS

-----------------------------------------------------------------------------
(* Chains and message logs.                                                *)

\* Extending a header's parent by the header's own entry gives a chain.
LEMMA ExtendChain ==
    ASSUME NEW h \in Header
    PROVE  /\ Extend(h) \in Chain
           /\ Len(Extend(h)) = Len(h.last) + 1
           /\ \A i \in 1..Len(h.last) : Extend(h)[i] = h.last[i]
BY DEF Extend, Header, Chain, Entry

\* What a published message adds to the headers voted for or committed
\* (node.go:242-278).
LEMMA AppendHdrs ==
    ASSUME NEW q \in Seq(Message), NEW m \in Message, NEW t
    PROVE  HdrsOf(Append(q, m), t) =
              IF m.type = t THEN HdrsOf(q, t) \cup {m.hdr} ELSE HdrsOf(q, t)
<1> DEFINE a == Append(q, m)
           D(p) == {j \in 1..Len(p) : p[j].type = t}
<1>1. /\ Len(q) \in Nat /\ Len(a) = Len(q) + 1
      /\ a[Len(q) + 1] = m /\ \A i \in 1..Len(q) : a[i] = q[i]
  BY DEF Message
<1>2. D(a) = IF m.type = t THEN D(q) \cup {Len(q) + 1} ELSE D(q)
  BY <1>1
<1>3. \A i \in D(q) : a[i].hdr = q[i].hdr
  BY <1>1
<1>4. HdrsOf(a, t) = {a[i].hdr : i \in D(a)} /\ HdrsOf(q, t) = {q[i].hdr : i \in D(q)}
  BY DEF HdrsOf
<1> HIDE DEF a, D
<1>5. HdrsOf(a, t) = IF m.type = t THEN HdrsOf(q, t) \cup {m.hdr} ELSE HdrsOf(q, t)
  BY <1>1, <1>2, <1>3, <1>4
<1> QED BY <1>5 DEF a

-----------------------------------------------------------------------------
(* Types.                                                                  *)

\* The types hold initially.
LEMMA TypeInit == Init => TypeOK
BY DEF Init, TypeOK, NoSnap, NoRound, Snapshot, RoundInfo, Chain, VoteRecord

\* A header and a snapshot have a height and a round.
LEMMA InfoType ==
    ASSUME NEW x, x.last \in Chain, x.round \in Nat \cup {-1}
    PROVE  InfoOf(x) \in RoundInfo
BY DEF InfoOf, RoundInfo, Chain

\* Every step preserves them.
LEMMA TypeNext == TypeOK /\ [Next]_vars => TypeOK'
<1> SUFFICES ASSUME TypeOK, [Next]_vars PROVE TypeOK'
  OBVIOUS
<1> USE ConsensusAssumption
<1>0. CASE UNCHANGED vars
  BY <1>0 DEF TypeOK, vars, chainVars, propVars, valVars, memVars, dbVars, netVars, countVars, VoteRecord
<1> SUFFICES ASSUME Next PROVE TypeOK'
  BY <1>0
<1> PICK n \in Nodes :
        \/ \E r \in 0..MaxRound, st \in Starts : EmitSnapshot(n, r, st)
        \/ \E q \in known[n] : SetHeadBlock(n, q)
        \/ ProposerTake(n) \/ ProposerTakeUnsaved(n)
        \/ Abstain(n)
        \/ \E st \in AppStates : Propose(n, st)
        \/ \E v \in pgot[n] : CountVote(n, v) \/ MintBlock(n, v)
        \/ ProposerCancel(n) \/ ProposerFatal(n)
        \/ ValidatorTake(n) \/ ValidatorPass(n) \/ ValidatorTakeUnsaved(n)
        \/ ValidatorVote(n) \/ ValidatorCancel(n)
        \/ \E s \in Nodes : \E i \in 1..Len(sent[s]) : Deliver(n, s, i)
        \/ Crash(n)
  BY DEF Next
<1>a. NoSnap \in Snapshot /\ NoRound \in RoundInfo
  BY DEF NoSnap, NoRound, Snapshot, RoundInfo, Chain
<1>b. snap[n] # NoSnap => InfoOf(snap[n]) \in RoundInfo
  BY InfoType DEF TypeOK, Snapshot
<1>1. ASSUME NEW r \in 0..MaxRound, NEW st \in Starts, EmitSnapshot(n, r, st)
      PROVE  TypeOK'
  <2>1. [last |-> head[n], round |-> r, started |-> st] \in Snapshot
    BY DEF TypeOK, Snapshot
  <2>2. /\ snap' \in [Nodes -> Snapshot] /\ lastRound' \in [Nodes -> Nat]
        /\ \A m \in Nodes : snap'[m] # NoSnap => snap'[m].round # -1
    BY <1>1, <2>1 DEF EmitSnapshot, TypeOK
  <2>3. pctx' \in [Nodes -> BOOLEAN] /\ vctx' \in [Nodes -> BOOLEAN]
    BY <1>1 DEF EmitSnapshot, TypeOK
  <2> QED BY <1>1, <2>2, <2>3 DEF EmitSnapshot, TypeOK, VoteRecord, memVars, dbVars, netVars, countVars
<1>17. ASSUME NEW q \in known[n], SetHeadBlock(n, q) PROVE TypeOK'
  <2>1. q \in Chain /\ jumps' \in Nat
    BY <1>17 DEF SetHeadBlock, TypeOK
  <2> QED BY <1>17, <2>1 DEF SetHeadBlock, TypeOK, VoteRecord, propVars, valVars, memVars, dbVars, netVars
<1>2. CASE ProposerTake(n)
  BY <1>2, <1>b DEF ProposerTake, MayPropose, TypeOK, VoteRecord, chainVars, valVars, netVars, countVars
<1>3. CASE ProposerTakeUnsaved(n)
  BY <1>3, <1>b DEF ProposerTakeUnsaved, MayPropose, TypeOK, VoteRecord, chainVars, propVars, valVars, dbVars, netVars, countVars
<1>4. CASE Abstain(n)
  BY <1>4, <1>a DEF Abstain, ProposerReset, TypeOK, VoteRecord, chainVars, valVars, memVars, dbVars, netVars, countVars
<1>5. ASSUME NEW st \in AppStates, Propose(n, st) PROVE TypeOK'
  <2> DEFINE h == [last |-> psnap[n].last, round |-> psnap[n].round,
                   proposer |-> n, state |-> st]
  <2>1. h \in Header
    BY <1>5 DEF Propose, TypeOK, Snapshot, Header
  <2>2. VoteMsg(h) \in Message
    BY <2>1 DEF VoteMsg, Message
  <2>3. sent' \in [Nodes -> Seq(Message)]
    <3>1. Append(sent[n], VoteMsg(h)) \in Seq(Message)
      BY <2>2 DEF TypeOK
    <3> QED BY <1>5, <3>1 DEF Propose, TypeOK
  <2> HIDE DEF h
  <2>4. phdr' = [phdr EXCEPT ![n] = h]
    BY <1>5 DEF Propose, h
  <2>5. phdr' \in [Nodes -> Header \cup {None}] /\ phdr'[n] \in Header
    BY <2>1, <2>4 DEF TypeOK
  <2>6. ppc' = [ppc EXCEPT ![n] = "wait"] /\ pwait' = [pwait EXCEPT ![n] = Validators]
    BY <1>5 DEF Propose
  <2>7. /\ UNCHANGED <<chainVars, psnap, pctx, pgot, pvotes, valVars, memVars, dbVars,
                       seen, countVars>>
        /\ ppc[n] = "propose"
    BY <1>5 DEF Propose
  <2>8. \A m \in Nodes : m # n => phdr'[m] = phdr[m]
    BY <2>4 DEF TypeOK
  <2> QED BY <2>3, <2>5, <2>6, <2>7, <2>8
          DEF TypeOK, VoteRecord, chainVars, valVars, memVars, dbVars, countVars
<1>6. ASSUME NEW v \in pgot[n], CountVote(n, v) PROVE TypeOK'
  BY <1>6 DEF CountVote, TypeOK, VoteRecord, chainVars, valVars, memVars, dbVars, netVars, countVars
<1>15. ASSUME NEW v \in pgot[n], MintBlock(n, v) PROVE TypeOK'
  <2>1. phdr[n] \in Header /\ pvotes[n] \cup {v} \in SUBSET Vote
    BY <1>15 DEF MintBlock, TypeOK
  <2>2. CommitMsg(phdr[n], pvotes[n] \cup {v}) \in Message
    BY <2>1 DEF CommitMsg, Message
  <2>3. Append(sent[n], CommitMsg(phdr[n], pvotes[n] \cup {v})) \in Seq(Message)
    BY <2>2 DEF TypeOK
  <2> QED BY <1>15, <1>a, <2>3 DEF MintBlock, ProposerReset, TypeOK, VoteRecord, chainVars, valVars, memVars, dbVars, countVars
<1>7. CASE ProposerCancel(n)
  BY <1>7, <1>a DEF ProposerCancel, ProposerReset, TypeOK, VoteRecord, chainVars, valVars, memVars, dbVars, netVars, countVars
<1>8. CASE ProposerFatal(n)
  BY <1>8, <1>a DEF ProposerFatal, Restart, ProposerReset, ValidatorReset, TypeOK, VoteRecord, dbVars, netVars, countVars
<1>9. CASE ValidatorTake(n)
  BY <1>9, <1>b DEF ValidatorTake, MayVote, TypeOK, VoteRecord, chainVars, propVars, netVars, countVars
<1>16. CASE ValidatorPass(n)
  BY <1>16, <1>b DEF ValidatorPass, MayVote, TypeOK, VoteRecord, chainVars, propVars, valVars, netVars, countVars
<1>10. CASE ValidatorTakeUnsaved(n)
  BY <1>10, <1>b DEF ValidatorTakeUnsaved, MayVote, TypeOK, VoteRecord, chainVars, propVars, valVars, dbVars, netVars, countVars
<1>11. CASE ValidatorVote(n)
  <2>1. VoteMsg(vhdr[n]) \in Message
    BY <1>11 DEF ValidatorVote, VoteMsg, Message, TypeOK
  <2>2. Append(sent[n], VoteMsg(vhdr[n])) \in Seq(Message)
    BY <2>1 DEF TypeOK
  <2> QED BY <1>11, <1>a, <2>2 DEF ValidatorVote, ValidatorReset, TypeOK, VoteRecord, chainVars, propVars, memVars, dbVars, countVars
<1>12. CASE ValidatorCancel(n)
  BY <1>12, <1>a DEF ValidatorCancel, ValidatorReset, TypeOK, VoteRecord, chainVars, propVars, memVars, dbVars, netVars, countVars
<1>13. ASSUME NEW s \in Nodes, NEW i \in 1..Len(sent[s]), Deliver(n, s, i) PROVE TypeOK'
  <2>1. sent[s][i] \in Message
    BY DEF TypeOK
  <2> PICK h \in Header : h = sent[s][i].hdr
    BY <2>1 DEF Message
  <2>3. seen' \in [Nodes -> [Nodes -> Nat]]
    BY <1>13 DEF Deliver, TypeOK
  <2>4. [from |-> s, hdr |-> h] \in Vote
    BY DEF Vote
  <2>5. ASSUME WaiterReceives(n, s, h), ValidatorReceives(n, s, h), UNCHANGED <<known, jumps>>
        PROVE  TypeOK'
    <3>1. pwait' \in [Nodes -> SUBSET Nodes] /\ pgot' \in [Nodes -> SUBSET Vote]
      <4>1. CASE UNCHANGED <<pwait, pgot>>
        BY <4>1 DEF TypeOK
      <4>2. CASE /\ pwait' = [pwait EXCEPT ![n] = @ \ {s}]
                 /\ pgot' = [pgot EXCEPT ![n] = @ \cup {[from |-> s, hdr |-> h]}]
        <5>1. pgot[n] \cup {[from |-> s, hdr |-> h]} \in SUBSET Vote
          BY <2>4 DEF TypeOK
        <5> QED BY <4>2, <5>1 DEF TypeOK
      <4> QED BY <2>5, <4>1, <4>2, Zenon DEF WaiterReceives
    <3>2. /\ vpc' \in [Nodes -> {"idle", "wait", "vote"}]
          /\ vsnap' \in [Nodes -> Snapshot]
          /\ vhdr' \in [Nodes -> Header \cup {None}]
          /\ vctx' \in [Nodes -> BOOLEAN]
          /\ \A m \in Nodes : /\ vpc'[m] # "idle" => vsnap'[m].round # -1
                              /\ vpc'[m] = "vote" => vhdr'[m] \in Header
      <4>1. CASE UNCHANGED valVars
        BY <4>1 DEF TypeOK, valVars
      <4>2. CASE ValidatorReset(n)
        BY <4>2, <1>a DEF ValidatorReset, TypeOK
      <4>3. CASE /\ vpc[n] = "wait"
                 /\ vhdr' = [vhdr EXCEPT ![n] = h]
                 /\ vpc' = [vpc EXCEPT ![n] = "vote"]
                 /\ UNCHANGED <<vsnap, vctx>>
        BY <4>3 DEF TypeOK
      <4> QED BY <2>5, <4>1, <4>2, <4>3, Zenon DEF ValidatorReceives
    <3> QED BY <1>13, <2>3, <2>5, <3>1, <3>2 DEF Deliver, TypeOK, VoteRecord, memVars, dbVars
  <2>6. ASSUME HandleBlockCommit(n, h), UNCHANGED <<pwait, pgot, valVars>>
        PROVE  TypeOK'
    <3>0. known[n] \cup {Extend(h)} \in SUBSET Chain
      BY ExtendChain DEF TypeOK
    <3>1. known' \in [Nodes -> SUBSET Chain] /\ jumps' \in Nat
      <4>1. CASE UNCHANGED <<known, jumps>>
        BY <4>1 DEF TypeOK
      <4>2. CASE /\ known' = [known EXCEPT ![n] = @ \cup {Extend(h)}]
                 /\ jumps' = jumps \/ jumps' = jumps + 1
        BY <3>0, <4>2 DEF TypeOK
      <4> QED BY <2>6, <4>1, <4>2, Zenon DEF HandleBlockCommit
    <3> QED BY <1>13, <2>3, <2>6, <3>1 DEF Deliver, TypeOK, VoteRecord, memVars, dbVars, valVars
  <2> QED BY <1>13, <2>5, <2>6 DEF Deliver
<1>14. CASE Crash(n)
  BY <1>14, <1>a DEF Crash, Restart, ProposerReset, ValidatorReset, TypeOK, VoteRecord, dbVars, netVars, countVars
<1> QED BY <1>1, <1>2, <1>3, <1>4, <1>5, <1>6, <1>7, <1>8, <1>9, <1>10, <1>11, <1>12, <1>13, <1>14,
        <1>15, <1>16, <1>17

\* TypeOK holds in every reachable state.
THEOREM TypeCorrect == Spec => []TypeOK
<1> QED BY TypeInit, TypeNext, PTL DEF Spec

-----------------------------------------------------------------------------
(* The invariant of a node.                                                *)

\* A later height and round stays later.
LEMMA BeforeTrans ==
    ASSUME NEW a \in RoundInfo, NEW b \in RoundInfo, NEW c \in RoundInfo,
           NotAfter(a, b), Before(b, c)
    PROVE  Before(a, c) /\ NotAfter(a, c)
BY DEF Before, NotAfter, RoundInfo

\* NotAfter is reflexive.
LEMMA NotAfterRefl == ASSUME NEW a \in RoundInfo PROVE NotAfter(a, a)
BY DEF NotAfter, RoundInfo

\* What is before a height and round is not after it.
LEMMA BeforeNotAfter ==
    ASSUME NEW a \in RoundInfo, NEW b \in RoundInfo
    PROVE  /\ Before(a, b) => NotAfter(a, b)
           /\ ~ Before(a, a)
BY DEF Before, NotAfter, RoundInfo

\* The types of what a node voted for and committed.
LEMMA HdrsType ==
    ASSUME TypeOK, NEW n \in Nodes
    PROVE  /\ Voted(n) \subseteq Header /\ Committed(n) \subseteq Header
           /\ \A h \in Header : InfoOf(h) \in RoundInfo
<1>1. \A i \in 1..Len(sent[n]) : sent[n][i] \in Message
  BY DEF TypeOK
<1>2. \A h \in Header : InfoOf(h) \in RoundInfo
  BY InfoType DEF Header
<1> QED BY <1>1, <1>2 DEF Voted, Committed, HdrsOf, Message

\* The guards of the proposer and of the validator let only later rounds pass
\* (proposer.go:236-246, validator.go:235-245).
LEMMA MayProposeLater ==
    ASSUME TypeOK, NEW n \in Nodes, MayPropose(n)
    PROVE  /\ InfoOf(snap[n]) \in RoundInfo /\ Leader(snap[n]) = n
           /\ Before(lastProposal[n], InfoOf(snap[n]))
<1>1. InfoOf(snap[n]) \in RoundInfo /\ lastProposal[n] \in RoundInfo
  BY InfoType DEF TypeOK, Snapshot, VoteRecord
<1> QED BY <1>1 DEF MayPropose, Before, RoundInfo

\* The same for the validator (validator.go:235-245).
LEMMA MayVoteLater ==
    ASSUME TypeOK, NEW n \in Nodes, MayVote(n)
    PROVE  /\ InfoOf(snap[n]) \in RoundInfo
           /\ Before(lastVote[n], InfoOf(snap[n]))
<1>1. InfoOf(snap[n]) \in RoundInfo /\ lastVote[n] \in RoundInfo
  BY InfoType DEF TypeOK, Snapshot, VoteRecord
<1> QED BY <1>1 DEF MayVote, Before, RoundInfo

\* The invariant of a node is about this node's state only.
LEMMA Frame ==
    ASSUME NEW m \in Nodes, NodeInv(m),
           ppc'[m] = ppc[m], psnap'[m] = psnap[m], phdr'[m] = phdr[m],
           vpc'[m] = vpc[m], vsnap'[m] = vsnap[m], vhdr'[m] = vhdr[m],
           lastProposal'[m] = lastProposal[m], lastVote'[m] = lastVote[m],
           dbProposal'[m] = dbProposal[m], dbVote'[m] = dbVote[m],
           sent'[m] = sent[m]
    PROVE  NodeInv(m)'
<1>1. Voted(m)' = Voted(m) /\ Committed(m)' = Committed(m)
  BY DEF Voted, Committed
<1>2. Recorded(m)'
  BY <1>1 DEF NodeInv, Recorded
<1>3. Proposing(m)'
  BY <1>1 DEF NodeInv, Proposing
<1>4. Validating(m)'
  BY <1>1 DEF NodeInv, Validating
<1>5. CommitsVoted(m)'
  BY <1>1 DEF NodeInv, CommitsVoted
<1> QED BY <1>1, <1>2, <1>3, <1>4, <1>5 DEF NodeInv

\* What publishing a vote, or a commit, adds.
LEMMA AddVote ==
    ASSUME TypeOK, NEW n \in Nodes, NEW h \in Header,
           sent'[n] = Append(sent[n], VoteMsg(h))
    PROVE  Voted(n)' = Voted(n) \cup {h} /\ Committed(n)' = Committed(n)
<1>1. VoteMsg(h) \in Message /\ VoteMsg(h).type = "VOTE" /\ VoteMsg(h).hdr = h
  BY DEF VoteMsg, Message
<1>2. sent[n] \in Seq(Message)
  BY DEF TypeOK
<1> QED BY <1>1, <1>2, AppendHdrs DEF Voted, Committed

\* Publishing a commit adds it to the committed headers only.
LEMMA AddCommit ==
    ASSUME TypeOK, NEW n \in Nodes, NEW h \in Header, NEW vs \in SUBSET Vote,
           sent'[n] = Append(sent[n], CommitMsg(h, vs))
    PROVE  Voted(n)' = Voted(n) /\ Committed(n)' = Committed(n) \cup {h}
<1>1. /\ CommitMsg(h, vs) \in Message
      /\ CommitMsg(h, vs).type = "COMMIT" /\ CommitMsg(h, vs).hdr = h
  BY DEF CommitMsg, Message
<1>2. sent[n] \in Seq(Message)
  BY DEF TypeOK
<1> QED BY <1>1, <1>2, AppendHdrs DEF Voted, Committed

\* A header that is later than the node's votes in the same role is a new vote in
\* this role.
LEMMA FreshVote ==
    ASSUME TypeOK, NEW n \in Nodes, NodeInv(n), NEW new \in Header,
           Voted(n)' = Voted(n) \cup {new},
           \A g \in Voted(n) :
               SameRole(n, g, new) => Before(InfoOf(g), InfoOf(new))
    PROVE  \A g, h \in Voted(n)' : SameRole(n, g, h) /\ InfoOf(g) = InfoOf(h) => g = h
<1>1. InfoOf(new) \in RoundInfo /\ ~ Before(InfoOf(new), InfoOf(new))
  BY HdrsType, BeforeNotAfter
<1>2. \A g \in Voted(n) : SameRole(n, g, new) => InfoOf(g) # InfoOf(new)
  BY <1>1
<1>3. \A g : SameRole(n, new, g) => SameRole(n, g, new)
  BY DEF SameRole
<1> QED BY <1>2, <1>3 DEF NodeInv

\* A step of a node that publishes nothing preserves the uniqueness of its votes.
LEMMA SameVotes ==
    ASSUME NEW n \in Nodes, NodeInv(n), sent'[n] = sent[n]
    PROVE  /\ Voted(n)' = Voted(n) /\ Committed(n)' = Committed(n)
           /\ CommitsVoted(n)'
           /\ \A h \in Voted(n)' : h.proposer = SelectProposer(h.last, h.round)
           /\ \A g, h \in Voted(n)' : SameRole(n, g, h) /\ InfoOf(g) = InfoOf(h) => g = h
<1>1. Voted(n)' = Voted(n) /\ Committed(n)' = Committed(n)
  BY DEF Voted, Committed
<1> QED BY <1>1 DEF NodeInv, CommitsVoted

\* Ending a proposer's or a validator's work leaves nothing to prove of it.
LEMMA IdleProposer ==
    ASSUME TypeOK, NEW n \in Nodes, ProposerReset(n)
    PROVE  Proposing(n)' /\ psnap'[n] = NoSnap
BY DEF ProposerReset, Proposing, TypeOK

\* The same for the validator.
LEMMA IdleValidator ==
    ASSUME TypeOK, NEW n \in Nodes, ValidatorReset(n)
    PROVE  Validating(n)' /\ vsnap'[n] = NoSnap
BY DEF ValidatorReset, Validating, TypeOK

-----------------------------------------------------------------------------
(* One lemma per kind of step of a node.                                   *)

\* Reading a snapshot records its round before anything is sent
\* (proposer.go:236-252).
LEMMA ProposerTakeStep ==
    ASSUME TypeOK, NEW n \in Nodes, NodeInv(n),
           ProposerTake(n) \/ ProposerTakeUnsaved(n)
    PROVE  NodeInv(n)'
<1> DEFINE new == InfoOf(snap[n])
<1>0. /\ UNCHANGED <<valVars, lastVote, dbVote, sent>>
      /\ MayPropose(n) /\ ppc[n] = "idle"
      /\ lastProposal'[n] = new
  BY DEF ProposerTake, ProposerTakeUnsaved, TypeOK, chainVars, netVars, propVars, dbVars, VoteRecord
<1>1. /\ new \in RoundInfo /\ Leader(snap[n]) = n
      /\ Before(lastProposal[n], new)
  BY <1>0, MayProposeLater
<1>2. dbProposal[n] \in RoundInfo /\ lastProposal[n] \in RoundInfo
  BY DEF TypeOK, VoteRecord
<1>3. Before(dbProposal[n], new) /\ NotAfter(dbProposal[n], new) /\ NotAfter(new, new)
  BY <1>1, <1>2, BeforeTrans, NotAfterRefl DEF NodeInv, Recorded
<1>4. Voted(n)' = Voted(n)
  BY <1>0, SameVotes
<1>5. \A h \in Voted(n) : h.proposer = n => Before(InfoOf(h), new) /\ NotAfter(InfoOf(h), new)
  BY <1>1, <1>2, <1>3, HdrsType, BeforeTrans DEF NodeInv, Recorded
<1>6. SUFFICES Recorded(n)' /\ Proposing(n)' /\ Validating(n)'
  BY <1>0, SameVotes DEF NodeInv
<1> HIDE DEF new
<1>7. Validating(n)'
  BY <1>0, <1>4 DEF NodeInv, Validating, valVars
<1>8. CASE ProposerTake(n)
  <2>1. dbProposal'[n] = new /\ ppc'[n] = "propose" /\ psnap'[n] = snap[n]
    BY <1>8 DEF ProposerTake, TypeOK, VoteRecord, new
  <2>2. Recorded(n)'
    BY <1>0, <1>3, <1>4, <1>5, <2>1 DEF NodeInv, Recorded
  <2>3. Proposing(n)'
    BY <1>1, <1>4, <1>5, <2>1 DEF Proposing, Leader, InfoOf, new
  <2> QED BY <1>7, <2>2, <2>3
<1>9. CASE ProposerTakeUnsaved(n)
  <2>1. UNCHANGED <<dbProposal, propVars>>
    BY <1>9 DEF ProposerTakeUnsaved, dbVars
  <2>2. Recorded(n)'
    BY <1>0, <1>3, <1>4, <2>1 DEF NodeInv, Recorded
  <2>3. Proposing(n)'
    BY <1>0, <1>4, <2>1 DEF NodeInv, Proposing, propVars
  <2> QED BY <1>7, <2>2, <2>3
<1> QED BY <1>8, <1>9

\* The same for the validator (validator.go:235-251).
LEMMA ValidatorTakeStep ==
    ASSUME TypeOK, NEW n \in Nodes, NodeInv(n),
           ValidatorTake(n) \/ ValidatorPass(n) \/ ValidatorTakeUnsaved(n)
    PROVE  NodeInv(n)'
<1> DEFINE new == InfoOf(snap[n])
<1>0. /\ UNCHANGED <<propVars, lastProposal, dbProposal, sent>>
      /\ MayVote(n) /\ vpc[n] = "idle"
      /\ lastVote'[n] = new
  BY DEF ValidatorTake, ValidatorPass, ValidatorTakeUnsaved, TypeOK, chainVars, netVars, valVars, dbVars, VoteRecord
<1>1. new \in RoundInfo /\ Before(lastVote[n], new)
  BY <1>0, MayVoteLater
<1>2. dbVote[n] \in RoundInfo /\ lastVote[n] \in RoundInfo
  BY DEF TypeOK, VoteRecord
<1>3. Before(dbVote[n], new) /\ NotAfter(dbVote[n], new) /\ NotAfter(new, new)
  BY <1>1, <1>2, BeforeTrans, NotAfterRefl DEF NodeInv, Recorded
<1>4. Voted(n)' = Voted(n)
  BY <1>0, SameVotes
<1>5. \A h \in Voted(n) : h.proposer # n => Before(InfoOf(h), new) /\ NotAfter(InfoOf(h), new)
  BY <1>1, <1>2, <1>3, HdrsType, BeforeTrans DEF NodeInv, Recorded
<1>6. SUFFICES Recorded(n)' /\ Proposing(n)' /\ Validating(n)'
  BY <1>0, SameVotes DEF NodeInv
<1> HIDE DEF new
<1>7. Proposing(n)'
  BY <1>0, <1>4 DEF NodeInv, Proposing, propVars
<1>8. CASE ValidatorTake(n)
  <2>1. /\ dbVote'[n] = new /\ vpc'[n] = "wait" /\ vsnap'[n] = snap[n]
        /\ n \in Validators /\ Leader(snap[n]) # n
    BY <1>8 DEF ValidatorTake, TypeOK, VoteRecord, new
  <2>2. Recorded(n)'
    BY <1>0, <1>3, <1>4, <1>5, <2>1 DEF NodeInv, Recorded
  <2>3. Validating(n)'
    BY <1>4, <1>5, <2>1 DEF Validating, Leader, InfoOf, new
  <2> QED BY <1>7, <2>2, <2>3
<1>9. CASE ValidatorPass(n)
  <2>1. dbVote'[n] = new /\ UNCHANGED valVars
    BY <1>9 DEF ValidatorPass, TypeOK, VoteRecord, new
  <2>2. Recorded(n)'
    BY <1>0, <1>3, <1>4, <1>5, <2>1 DEF NodeInv, Recorded
  <2>3. Validating(n)'
    BY <1>0, <2>1 DEF Validating, valVars
  <2> QED BY <1>7, <2>2, <2>3
<1>10. CASE ValidatorTakeUnsaved(n)
  <2>1. UNCHANGED <<dbVote, valVars>>
    BY <1>10 DEF ValidatorTakeUnsaved, dbVars
  <2>2. Recorded(n)'
    BY <1>0, <1>3, <1>4, <2>1 DEF NodeInv, Recorded
  <2>3. Validating(n)'
    BY <1>0, <2>1 DEF Validating, valVars
  <2> QED BY <1>7, <2>2, <2>3
<1> QED BY <1>8, <1>9, <1>10

\* The proposer's own vote is its first in the round (proposer.go:259-312).
LEMMA ProposeStep ==
    ASSUME TypeOK, NEW n \in Nodes, NodeInv(n),
           NEW st \in AppStates, Propose(n, st)
    PROVE  NodeInv(n)'
<1> DEFINE new == [last |-> psnap[n].last, round |-> psnap[n].round,
                   proposer |-> n, state |-> st]
<1>0. /\ UNCHANGED <<psnap, valVars, memVars, dbVars>>
      /\ ppc[n] = "propose" /\ ppc'[n] = "wait" /\ phdr'[n] = new
      /\ sent'[n] = Append(sent[n], VoteMsg(new))
  BY DEF Propose, TypeOK, chainVars
<1>1. new \in Header
  BY <1>0 DEF TypeOK, Snapshot, Header
<1>2. /\ new.last = psnap[n].last /\ new.round = psnap[n].round
      /\ new.proposer = n /\ InfoOf(new) = InfoOf(psnap[n])
  BY DEF InfoOf
<1> HIDE DEF new
<1>3. Voted(n)' = Voted(n) \cup {new} /\ Committed(n)' = Committed(n)
  BY <1>0, <1>1, AddVote
<1>4. /\ InfoOf(new) = dbProposal[n] /\ dbProposal[n] \in RoundInfo
      /\ new.proposer = SelectProposer(new.last, new.round)
  BY <1>0, <1>2 DEF NodeInv, Proposing, Leader, TypeOK, VoteRecord
<1>6a. \A g \in Voted(n) : g.proposer = n => Before(InfoOf(g), InfoOf(new))
  BY <1>0, <1>4 DEF NodeInv, Proposing
<1>6. \A g \in Voted(n) : SameRole(n, g, new) => Before(InfoOf(g), InfoOf(new))
  BY <1>2, <1>6a DEF SameRole
<1>7. Recorded(n)'
  BY <1>0, <1>2, <1>3, <1>4, NotAfterRefl DEF NodeInv, Recorded, memVars, dbVars
<1>8. Proposing(n)'
  BY <1>0, <1>2, <1>3 DEF Proposing
<1>9. Validating(n)'
  BY <1>0, <1>2, <1>3 DEF NodeInv, Validating, valVars, dbVars
<1>11. CommitsVoted(n)'
  BY <1>3 DEF NodeInv, CommitsVoted
<1>12. \A h \in Voted(n)' : h.proposer = SelectProposer(h.last, h.round)
  BY <1>3, <1>4 DEF NodeInv
<1>13. \A g, h \in Voted(n)' : SameRole(n, g, h) /\ InfoOf(g) = InfoOf(h) => g = h
  BY <1>1, <1>3, <1>6, FreshVote
<1> QED BY <1>7, <1>8, <1>9, <1>11, <1>12, <1>13 DEF NodeInv

\* A counted vote changes nothing the invariant speaks of.
LEMMA CountVoteStep ==
    ASSUME TypeOK, NEW n \in Nodes, NodeInv(n), NEW v, CountVote(n, v)
    PROVE  NodeInv(n)'
BY Frame DEF CountVote, chainVars, valVars, memVars, dbVars, netVars

\* A block is minted for a header the proposer voted for (proposer.go:331-351).
LEMMA MintBlockStep ==
    ASSUME TypeOK, NEW n \in Nodes, NodeInv(n), NEW v \in pgot[n], MintBlock(n, v)
    PROVE  NodeInv(n)'
<1>0. /\ UNCHANGED <<valVars, memVars, dbVars>>
      /\ ppc[n] = "wait" /\ ProposerReset(n)
      /\ sent'[n] = Append(sent[n], CommitMsg(phdr[n], pvotes[n] \cup {v}))
  BY DEF MintBlock, TypeOK, chainVars
<1>1. phdr[n] \in Header /\ pvotes[n] \cup {v} \in SUBSET Vote
  BY <1>0 DEF TypeOK
<1>2. Voted(n)' = Voted(n) /\ Committed(n)' = Committed(n) \cup {phdr[n]}
  BY <1>0, <1>1, AddCommit
<1>3. Proposing(n)' /\ psnap'[n] = NoSnap
  BY <1>0, IdleProposer
<1>4. Recorded(n)'
  BY <1>0, <1>2 DEF NodeInv, Recorded, memVars, dbVars
<1>5. Validating(n)'
  BY <1>0, <1>2 DEF NodeInv, Validating, valVars, dbVars
<1>7. CommitsVoted(n)'
  BY <1>0, <1>2 DEF NodeInv, CommitsVoted, Proposing
<1> QED BY <1>2, <1>3, <1>4, <1>5, <1>7 DEF NodeInv

\* Giving up a round keeps what was recorded.
LEMMA ProposerEndStep ==
    ASSUME TypeOK, NEW n \in Nodes, NodeInv(n), Abstain(n) \/ ProposerCancel(n)
    PROVE  NodeInv(n)'
<1>0. UNCHANGED <<valVars, memVars, dbVars, sent>> /\ ProposerReset(n)
  BY DEF Abstain, ProposerCancel, chainVars, netVars
<1>1. Voted(n)' = Voted(n)
  BY <1>0, SameVotes
<1>2. Proposing(n)' /\ psnap'[n] = NoSnap
  BY <1>0, IdleProposer
<1>3. Recorded(n)'
  BY <1>0, <1>1 DEF NodeInv, Recorded, memVars, dbVars
<1>4. Validating(n)'
  BY <1>0, <1>1 DEF NodeInv, Validating, valVars, dbVars
<1> QED BY <1>0, <1>2, <1>3, <1>4, SameVotes DEF NodeInv

\* The same for the validator (validator.go:173-200).
LEMMA ValidatorCancelStep ==
    ASSUME TypeOK, NEW n \in Nodes, NodeInv(n), ValidatorReset(n),
           UNCHANGED <<ppc, psnap, phdr, memVars, dbVars, sent>>
    PROVE  NodeInv(n)'
<1>1. Voted(n)' = Voted(n)
  BY SameVotes
<1>2. Validating(n)' /\ vsnap'[n] = NoSnap
  BY IdleValidator
<1>3. Recorded(n)'
  BY <1>1 DEF NodeInv, Recorded, memVars, dbVars
<1>4. Proposing(n)'
  BY <1>1 DEF NodeInv, Proposing, dbVars
<1> QED BY <1>2, <1>3, <1>4, SameVotes DEF NodeInv

\* A validator's vote is its first in the round (validator.go:173-200).
LEMMA ValidatorVoteStep ==
    ASSUME TypeOK, NEW n \in Nodes, NodeInv(n), ValidatorVote(n)
    PROVE  NodeInv(n)'
<1> DEFINE new == vhdr[n]
<1>0. /\ UNCHANGED <<propVars, memVars, dbVars>>
      /\ vpc[n] = "vote" /\ ValidatorReset(n)
      /\ sent'[n] = Append(sent[n], VoteMsg(new))
  BY DEF ValidatorVote, TypeOK, chainVars
<1>1. new \in Header
  BY <1>0 DEF TypeOK
<1>2. /\ new.last = vsnap[n].last /\ new.round = vsnap[n].round
      /\ new.proposer # n /\ InfoOf(new) = dbVote[n] /\ dbVote[n] \in RoundInfo
      /\ new.proposer = SelectProposer(new.last, new.round)
  BY <1>0 DEF NodeInv, Validating, Leader, InfoOf, TypeOK, VoteRecord
<1>6a. \A g \in Voted(n) : g.proposer # n => Before(InfoOf(g), InfoOf(new))
  BY <1>0, <1>2 DEF NodeInv, Validating
<1> HIDE DEF new
<1>3. Voted(n)' = Voted(n) \cup {new} /\ Committed(n)' = Committed(n)
  BY <1>0, <1>1, AddVote
<1>6. \A g \in Voted(n) : SameRole(n, g, new) => Before(InfoOf(g), InfoOf(new))
  BY <1>2, <1>6a DEF SameRole
<1>7. Recorded(n)'
  BY <1>0, <1>2, <1>3, NotAfterRefl DEF NodeInv, Recorded, memVars, dbVars
<1>8. Proposing(n)'
  BY <1>0, <1>2, <1>3 DEF NodeInv, Proposing, propVars, dbVars
<1>9. Validating(n)' /\ vsnap'[n] = NoSnap
  BY <1>0, IdleValidator
<1>11. CommitsVoted(n)'
  BY <1>3 DEF NodeInv, CommitsVoted
<1>12. \A h \in Voted(n)' : h.proposer = SelectProposer(h.last, h.round)
  BY <1>2, <1>3 DEF NodeInv
<1>13. \A g, h \in Voted(n)' : SameRole(n, g, h) /\ InfoOf(g) = InfoOf(h) => g = h
  BY <1>1, <1>3, <1>6, FreshVote
<1> QED BY <1>7, <1>8, <1>9, <1>11, <1>12, <1>13 DEF NodeInv

\* A restarted node reads back the rounds it recorded.
LEMMA RestartStep ==
    ASSUME TypeOK, NEW n \in Nodes, NodeInv(n), Restart(n)
    PROVE  NodeInv(n)'
<1>0. /\ UNCHANGED <<dbVars, sent>> /\ ProposerReset(n) /\ ValidatorReset(n)
      /\ lastProposal'[n] = dbProposal[n] /\ lastVote'[n] = dbVote[n]
      /\ dbProposal[n] \in RoundInfo /\ dbVote[n] \in RoundInfo
  BY DEF Restart, TypeOK, VoteRecord, netVars
<1>1. Voted(n)' = Voted(n)
  BY <1>0, SameVotes
<1>2. Proposing(n)' /\ psnap'[n] = NoSnap /\ Validating(n)' /\ vsnap'[n] = NoSnap
  BY <1>0, IdleProposer, IdleValidator
<1>3. Recorded(n)'
  BY <1>0, <1>1, NotAfterRefl DEF NodeInv, Recorded, dbVars
<1> QED BY <1>0, <1>2, <1>3, SameVotes DEF NodeInv

\* A vote from the network is stored for the proposer loop, or chosen by the
\* validator: it is then the leader's (validator.go:158-170).
LEMMA DeliverVoteStep ==
    ASSUME TypeOK, NEW n \in Nodes, NEW s \in Nodes, NodeInv(n), NodeInv(s),
           NEW h \in Voted(s), ValidatorReceives(n, s, h),
           UNCHANGED <<ppc, psnap, phdr, memVars, dbVars, sent>>
    PROVE  NodeInv(n)'
<1>1. CASE UNCHANGED valVars
  BY <1>1, Frame DEF valVars, memVars, dbVars
<1>2. CASE ValidatorReset(n)
  BY <1>2, ValidatorCancelStep
<1>3. CASE /\ vpc[n] = "wait" /\ s = Leader(vsnap[n])
           /\ InfoOf(h) = InfoOf(vsnap[n]) /\ h.last = vsnap[n].last
           /\ vhdr' = [vhdr EXCEPT ![n] = h]
           /\ vpc' = [vpc EXCEPT ![n] = "vote"]
           /\ UNCHANGED vsnap
  <2>1. h.proposer = SelectProposer(h.last, h.round)
    BY DEF NodeInv
  <2>2. h.round = vsnap[n].round
    BY <1>3 DEF InfoOf
  <2>3. vhdr'[n] = h /\ vpc'[n] = "vote"
    BY <1>3 DEF TypeOK
  <2>4. Voted(n)' = Voted(n)
    BY SameVotes
  <2>5. Validating(n)'
    BY <1>3, <2>1, <2>2, <2>3, <2>4 DEF NodeInv, Validating, Leader, dbVars
  <2>6. Recorded(n)'
    BY <2>4 DEF NodeInv, Recorded, memVars, dbVars
  <2>7. Proposing(n)'
    BY <2>4 DEF NodeInv, Proposing, dbVars
  <2> QED BY <2>5, <2>6, <2>7, SameVotes DEF NodeInv
<1> QED BY <1>1, <1>2, <1>3, Zenon DEF ValidatorReceives

-----------------------------------------------------------------------------
(* The inductive invariant.                                                *)

\* The inductive invariant holds initially.
LEMMA IInvInit == Init => IInv
<1> SUFFICES ASSUME Init, NEW n \in Nodes PROVE NodeInv(n)
  BY TypeInit DEF IInv
<1>1. Voted(n) = {} /\ Committed(n) = {}
  BY DEF Init, Voted, Committed, HdrsOf
<1>3. NotAfter(NoRound, NoRound)
  BY DEF NotAfter, NoRound
<1> QED BY <1>1, <1>3 DEF Init, NodeInv, Recorded, Proposing, Validating, CommitsVoted

\* A step of one node leaves the others as they are.
LEMMA OthersUnchanged ==
    ASSUME IInv, NEW n \in Nodes, NodeInv(n)',
           \A m \in Nodes \ {n} :
               /\ ppc'[m] = ppc[m] /\ psnap'[m] = psnap[m] /\ phdr'[m] = phdr[m]
               /\ vpc'[m] = vpc[m] /\ vsnap'[m] = vsnap[m] /\ vhdr'[m] = vhdr[m]
               /\ lastProposal'[m] = lastProposal[m] /\ lastVote'[m] = lastVote[m]
               /\ dbProposal'[m] = dbProposal[m] /\ dbVote'[m] = dbVote[m]
               /\ sent'[m] = sent[m]
    PROVE  \A m \in Nodes : NodeInv(m)'
<1> SUFFICES ASSUME NEW m \in Nodes PROVE NodeInv(m)'
  OBVIOUS
<1>1. CASE m = n
  BY <1>1
<1>2. CASE m # n
  BY <1>2, Frame DEF IInv
<1> QED BY <1>1, <1>2

\* Every step preserves it.
LEMMA IInvNext == IInv /\ [Next]_vars => IInv'
<1> SUFFICES ASSUME IInv, [Next]_vars PROVE \A m \in Nodes : NodeInv(m)'
  BY TypeNext DEF IInv
<1> USE DEF chainVars, propVars, valVars, memVars, dbVars, netVars
<1>t. TypeOK /\ \A m \in Nodes : NodeInv(m)
  BY DEF IInv
<1>0. CASE UNCHANGED vars
  BY <1>0, <1>t, Frame DEF vars
<1> SUFFICES ASSUME Next PROVE \A m \in Nodes : NodeInv(m)'
  BY <1>0
<1> PICK n \in Nodes :
        \/ \E r \in 0..MaxRound, st \in Starts : EmitSnapshot(n, r, st)
        \/ \E q \in known[n] : SetHeadBlock(n, q)
        \/ ProposerTake(n) \/ ProposerTakeUnsaved(n)
        \/ Abstain(n)
        \/ \E st \in AppStates : Propose(n, st)
        \/ \E v \in pgot[n] : CountVote(n, v) \/ MintBlock(n, v)
        \/ ProposerCancel(n) \/ ProposerFatal(n)
        \/ ValidatorTake(n) \/ ValidatorPass(n) \/ ValidatorTakeUnsaved(n)
        \/ ValidatorVote(n) \/ ValidatorCancel(n)
        \/ \E s \in Nodes : \E i \in 1..Len(sent[s]) : Deliver(n, s, i)
        \/ Crash(n)
  BY DEF Next
<1>1. ASSUME NEW r \in 0..MaxRound, NEW st \in Starts, EmitSnapshot(n, r, st)
      PROVE  \A m \in Nodes : NodeInv(m)'
  BY <1>1, <1>t, Frame DEF EmitSnapshot
<1>12. ASSUME NEW q \in known[n], SetHeadBlock(n, q) PROVE \A m \in Nodes : NodeInv(m)'
  BY <1>12, <1>t, Frame DEF SetHeadBlock
<1>2. CASE ProposerTake(n) \/ ProposerTakeUnsaved(n)
  <2>1. NodeInv(n)'
    BY <1>2, <1>t, ProposerTakeStep
  <2> QED BY <1>2, <1>t, <2>1, OthersUnchanged DEF ProposerTake, ProposerTakeUnsaved, TypeOK, VoteRecord
<1>3. CASE Abstain(n) \/ ProposerCancel(n)
  <2>1. NodeInv(n)'
    BY <1>3, <1>t, ProposerEndStep
  <2> QED BY <1>3, <1>t, <2>1, OthersUnchanged DEF Abstain, ProposerCancel, ProposerReset, TypeOK
<1>4. ASSUME NEW st \in AppStates, Propose(n, st) PROVE \A m \in Nodes : NodeInv(m)'
  <2>1. NodeInv(n)'
    BY <1>4, <1>t, ProposeStep
  <2> QED BY <1>4, <1>t, <2>1, OthersUnchanged DEF Propose, TypeOK
<1>5. ASSUME NEW v \in pgot[n], CountVote(n, v) PROVE \A m \in Nodes : NodeInv(m)'
  <2>1. NodeInv(n)'
    BY <1>5, <1>t, CountVoteStep
  <2> QED BY <1>5, <1>t, <2>1, OthersUnchanged DEF CountVote, TypeOK
<1>6. ASSUME NEW v \in pgot[n], MintBlock(n, v) PROVE \A m \in Nodes : NodeInv(m)'
  <2>1. NodeInv(n)'
    BY <1>6, <1>t, MintBlockStep
  <2> QED BY <1>6, <1>t, <2>1, OthersUnchanged DEF MintBlock, ProposerReset, TypeOK
<1>7. CASE Crash(n) \/ ProposerFatal(n)
  <2>0. Restart(n)
    BY <1>7 DEF Crash, ProposerFatal
  <2>1. NodeInv(n)'
    BY <2>0, <1>t, RestartStep
  <2> QED BY <2>0, <1>t, <2>1, OthersUnchanged DEF Restart, ProposerReset, ValidatorReset, TypeOK, VoteRecord
<1>8. CASE ValidatorTake(n) \/ ValidatorPass(n) \/ ValidatorTakeUnsaved(n)
  <2>1. NodeInv(n)'
    BY <1>8, <1>t, ValidatorTakeStep
  <2> QED BY <1>8, <1>t, <2>1, OthersUnchanged
          DEF ValidatorTake, ValidatorPass, ValidatorTakeUnsaved, TypeOK, VoteRecord
<1>9. CASE ValidatorVote(n)
  <2>1. NodeInv(n)'
    BY <1>9, <1>t, ValidatorVoteStep
  <2> QED BY <1>9, <1>t, <2>1, OthersUnchanged DEF ValidatorVote, ValidatorReset, TypeOK
<1>10. CASE ValidatorCancel(n)
  <2>1. NodeInv(n)'
    BY <1>10, <1>t, ValidatorCancelStep DEF ValidatorCancel
  <2> QED BY <1>10, <1>t, <2>1, OthersUnchanged DEF ValidatorCancel, ValidatorReset, TypeOK
<1>11. ASSUME NEW s \in Nodes, NEW i \in 1..Len(sent[s]), Deliver(n, s, i)
       PROVE  \A m \in Nodes : NodeInv(m)'
  <2>1. sent[s][i] \in Message
    BY <1>t DEF TypeOK
  <2> PICK h \in Header : h = sent[s][i].hdr
    BY <2>1 DEF Message
  <2>2. UNCHANGED <<ppc, psnap, phdr, memVars, dbVars, sent>>
    BY <1>11 DEF Deliver
  <2>3. ASSUME sent[s][i].type = "VOTE", ValidatorReceives(n, s, h)
        PROVE  \A m \in Nodes : NodeInv(m)'
    <3>1. h \in Voted(s)
      BY <2>3 DEF Voted, HdrsOf
    <3>2. NodeInv(n)'
      BY <1>t, <2>2, <2>3, <3>1, DeliverVoteStep
    <3>3. \A m \in Nodes \ {n} : vpc'[m] = vpc[m] /\ vsnap'[m] = vsnap[m] /\ vhdr'[m] = vhdr[m]
      <4>1. CASE UNCHANGED valVars
        BY <4>1
      <4>2. CASE ValidatorReset(n)
        BY <4>2, <1>t DEF ValidatorReset, TypeOK
      <4>3. CASE /\ vhdr' = [vhdr EXCEPT ![n] = h]
                 /\ vpc' = [vpc EXCEPT ![n] = "vote"]
                 /\ UNCHANGED vsnap
        BY <4>3, <1>t DEF TypeOK
      <4> QED BY <2>3, <4>1, <4>2, <4>3, Zenon DEF ValidatorReceives
    <3> QED BY <2>2, <2>3, <3>2, <3>3, OthersUnchanged
  <2>4. ASSUME UNCHANGED valVars PROVE \A m \in Nodes : NodeInv(m)'
    BY <1>t, <2>2, <2>4, Frame
  <2> QED BY <1>11, <2>3, <2>4 DEF Deliver
<1> QED BY <1>1, <1>2, <1>3, <1>4, <1>5, <1>6, <1>7, <1>8, <1>9, <1>10, <1>11, <1>12

\* What a node sends was recorded before, in the right one of its two records, and a loop
\* at work is in a later round than its votes (proposer.go:236-312, validator.go:235-278).
THEOREM Invariance == Spec => []IInv
<1> QED BY IInvInit, IInvNext, PTL DEF Spec

\* No node ever proposes twice, or as a validator votes twice, in one height and round,
\* wherever its head moves in between (proposer.go:236-252, validator.go:235-251).
THEOREM NoDoubleVote == Spec => []VoteOnce
<1>1. IInv => VoteOnce
  BY DEF IInv, NodeInv, VoteOnce
<1> QED BY <1>1, Invariance, PTL

\* All votes are for headers of the leaders (validator.go:158-170).
THEOREM LeaderOnly == Spec => []VotesFollowLeader
<1>1. IInv => VotesFollowLeader
  BY DEF IInv, NodeInv, VotesFollowLeader
<1> QED BY <1>1, Invariance, PTL

\* For one parent and round, at most one block is committed in the whole
\* network, whatever the powers and however the leaders crash
\* (proposer.go:331-351).
THEOREM OneCommitPerRound == Spec => []CommitUnique
<1>1. IInv => CommitUnique
  <2> SUFFICES ASSUME IInv, NEW m \in Nodes, NEW n \in Nodes,
                      NEW g \in Committed(m), NEW h \in Committed(n),
                      g.last = h.last, g.round = h.round
               PROVE  g = h
    BY DEF CommitUnique
  <2>1. g \in Voted(m) /\ g.proposer = m /\ h \in Voted(n) /\ h.proposer = n
    BY DEF IInv, NodeInv, CommitsVoted
  <2>2. m = n
    BY <2>1 DEF IInv, NodeInv
  <2>3. InfoOf(g) = InfoOf(h)
    BY DEF InfoOf
  <2>4. SameRole(n, g, h)
    BY <2>1, <2>2 DEF SameRole
  <2> QED BY <2>1, <2>2, <2>3, <2>4 DEF IInv, NodeInv
<1> QED BY <1>1, Invariance, PTL

=============================================================================
