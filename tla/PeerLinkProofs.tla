--------------------------- MODULE PeerLinkProofs ---------------------------
(***************************************************************************)
(* The safety of PeerLink for every set of sending loops, every size of    *)
(* the channel, every age, every skew of the clocks and every bound.       *)
(***************************************************************************)
EXTENDS PeerLink, FiniteSetTheorems, TLAPS

Msg == [ts: Int, prev: Int \cup {None}]

\* A message is stored while processNode works on it, and handled while it is
\* emitted.
Typed ==
    /\ TypeOK /\ Room
    /\ npc # "select" => msgs # <<>>
    /\ rpc # "idle" => top # None

-----------------------------------------------------------------------------
(* Types.                                                                  *)

\* The types hold initially.
LEMMA TypeInit == Init => Typed
<1> SUFFICES ASSUME Init PROVE Typed
  OBVIOUS
<1> USE PeerLinkAssumption
<1>1. Waiting = {}
  BY DEF Init, Waiting
<1>2. Cardinality(Waiting) = 0
  BY <1>1, FS_EmptySet
<1>3. Room
  BY <1>2 DEF Init, Room
<1>4. TypeOK
  <2>1. msgs \in Seq([ts: Int, prev: Int \cup {None}]) /\ Len(msgs) = 0 /\ Ids = {}
    BY DEF Init, Ids
  <2>2. chan \in Seq(published) /\ Len(chan) = 0
    BY DEF Init
  <2>3. /\ offer \in [Loops -> Int \cup {None}] /\ now \in 0..MaxTime /\ skew \in Skews
        /\ faults \in 0..MaxFaults
    BY DEF Init
  <2> QED BY <2>1, <2>2, <2>3 DEF Init, TypeOK
<1> QED BY <1>3, <1>4 DEF Init, Typed

\* A loop that begins to wait, or ends, changes the room by one.
LEMMA WaitingStep ==
    ASSUME TypeOK, NEW l \in Loops, NEW t \in Int \cup {None},
           offer' = [offer EXCEPT ![l] = t]
    PROVE  /\ Cardinality(Waiting) \in Nat
           /\ offer[l] = None /\ t # None => Cardinality(Waiting') = Cardinality(Waiting) + 1
           /\ offer[l] # None /\ t = None => Cardinality(Waiting') = Cardinality(Waiting) - 1
<1>1. IsFiniteSet(Waiting)
  <2>1. IsFiniteSet(Loops) /\ Waiting \subseteq Loops
    BY PeerLinkAssumption DEF Waiting
  <2> QED BY <2>1, FS_Subset
<1>2. Cardinality(Waiting) \in Nat
  BY <1>1, FS_CardinalityType
<1>3. ASSUME offer[l] = None, t # None
      PROVE  Cardinality(Waiting') = Cardinality(Waiting) + 1
  <2>1. Waiting' = Waiting \cup {l} /\ l \notin Waiting
    BY <1>3 DEF Waiting, TypeOK
  <2> QED BY <1>1, <2>1, FS_AddElement
<1>4. ASSUME offer[l] # None, t = None
      PROVE  Cardinality(Waiting') = Cardinality(Waiting) - 1
  <2>1. Waiting' = Waiting \ {l} /\ l \in Waiting
    BY <1>4 DEF Waiting, TypeOK
  <2> QED BY <1>1, <2>1, FS_RemoveElement
<1> QED BY <1>2, <1>3, <1>4

\* The sender's time is a time.
LEMMA SenderTimeType == TypeOK => SenderTime \in Int /\ now \in Int /\ skew \in Int
BY PeerLinkAssumption DEF TypeOK, SenderTime

\* Storing a message keeps the others (node.go:242-262).
LEMMA StoreStep ==
    ASSUME TypeOK, Store(SenderTime)
    PROVE  /\ msgs' \in Seq(Msg) /\ Len(msgs) \in Nat /\ Len(msgs') = Len(msgs) + 1
           /\ \A i \in Ids : i \in Ids' /\ msgs'[i] = msgs[i]
           /\ Ids' = Ids \cup {Len(msgs) + 1} /\ Len(msgs) + 1 \notin Ids
           /\ msgs'[Len(msgs) + 1].ts = SenderTime
           /\ msgs'[Len(msgs) + 1].prev = lastMsg
<1>1. lastMsg \in Int \cup {None}
  BY DEF TypeOK, Ids
<1>2. PICK m \in Msg : m = [ts |-> SenderTime, prev |-> lastMsg]
  BY <1>1, SenderTimeType DEF Msg
<1>3. msgs \in Seq(Msg) /\ msgs' = Append(msgs, m)
  BY <1>2 DEF TypeOK, Msg, Store
<1>4. m.ts = SenderTime /\ m.prev = lastMsg
  BY <1>2
<1> QED BY <1>3, <1>4 DEF Ids

\* Every step preserves the types.
LEMMA TypeNext == Typed /\ [Next]_vars => Typed'
<1> SUFFICES ASSUME Typed, [Next]_vars PROVE Typed'
  OBVIOUS
<1> USE PeerLinkAssumption DEF timeVars, sendVars, recvVars, subVars
<1>t. TypeOK /\ Room /\ (npc # "select" => msgs # <<>>) /\ (rpc # "idle" => top # None)
  BY DEF Typed
<1>r. ASSUME offer' = offer, msgs' = msgs PROVE Room'
  BY <1>r, <1>t DEF Room, Waiting
<1>0. CASE UNCHANGED vars
  BY <1>0, <1>t, <1>r DEF vars, Typed, TypeOK, Ids
<1>1. CASE Tick
  BY <1>1, <1>t, <1>r DEF Tick, Typed, TypeOK, Ids
<1>2. ASSUME NEW s \in Skews, SetClock(s) PROVE Typed'
  BY <1>2, <1>t, <1>r DEF SetClock, Fault, Typed, TypeOK, Ids
<1>3. ASSUME NEW l \in Loops, SendMessage(l) PROVE Typed'
  <2>1. SenderTime \in Int
    BY <1>t, SenderTimeType
  <2>2. Cardinality(Waiting') = Cardinality(Waiting) + 1 /\ Cardinality(Waiting) \in Nat
    BY <1>3, <1>t, <2>1, WaitingStep DEF SendMessage
  <2>3. Room'
    BY <1>3, <1>t, <2>2 DEF SendMessage, Room, TypeOK
  <2> QED BY <1>3, <1>t, <2>1, <2>3 DEF SendMessage, Typed, TypeOK, Ids
<1>4. ASSUME NEW l \in Loops, SendCancelled(l) PROVE Typed'
  <2>1. Cardinality(Waiting') = Cardinality(Waiting) - 1 /\ Cardinality(Waiting) \in Nat
    BY <1>4, <1>t, WaitingStep DEF SendCancelled
  <2>2. Room'
    BY <1>4, <1>t, <2>1 DEF SendCancelled, Room, TypeOK
  <2> QED BY <1>4, <1>t, <2>2 DEF SendCancelled, Typed, TypeOK, Ids
<1>5. ASSUME NEW l \in Loops, TakeMessage(l) PROVE Typed'
  <2>1. Cardinality(Waiting') = Cardinality(Waiting) - 1 /\ Cardinality(Waiting) \in Nat
    BY <1>5, <1>t, WaitingStep DEF TakeMessage
  <2>2. CASE Fault /\ UNCHANGED <<msgs, npc>>
    <3>1. Room'
      BY <1>t, <2>1, <2>2 DEF Room, TypeOK
    <3> QED BY <1>5, <1>t, <2>2, <3>1 DEF TakeMessage, Fault, Typed, TypeOK, Ids
  <2>3. CASE Store(SenderTime) /\ npc' = "stored" /\ UNCHANGED faults
    <3>1. /\ msgs' \in Seq(Msg) /\ Len(msgs) \in Nat /\ Len(msgs') = Len(msgs) + 1
          /\ \A i \in Ids : i \in Ids' /\ msgs'[i] = msgs[i]
          /\ Ids' = Ids \cup {Len(msgs) + 1}
          /\ msgs'[Len(msgs) + 1].prev = lastMsg
      BY <1>t, <2>3, StoreStep
    <3>2. Room' /\ Len(msgs') <= MaxMsgs
      <4>0. Len(msgs) + Cardinality(Waiting) <= MaxMsgs
        BY <1>t DEF Room
      <4>1. Cardinality(Waiting) > 0
        <5>1. l \in Waiting /\ IsFiniteSet(Waiting)
          BY <1>5, FS_Subset DEF TakeMessage, Waiting
        <5> QED BY <2>1, <5>1, FS_EmptySet
      <4>2. Len(msgs') + Cardinality(Waiting') <= MaxMsgs /\ Len(msgs') <= MaxMsgs
        BY <2>1, <3>1, <4>0, <4>1
      <4> QED BY <4>2 DEF Room
    <3>3. msgs' # <<>>
      BY <3>1
    <3>4. \A i \in Ids' : msgs'[i].prev \in {None} \cup 1..(i - 1)
      <4>1. ASSUME NEW i \in Ids PROVE msgs'[i].prev \in {None} \cup 1..(i - 1)
        BY <1>t, <3>1 DEF TypeOK
      <4>2. lastMsg \in {None} \cup 1..Len(msgs)
        BY <1>t DEF TypeOK, Ids
      <4>3. (Len(msgs) + 1) - 1 = Len(msgs)
        BY <3>1
      <4> QED BY <3>1, <4>1, <4>2, <4>3
    <3>5. TypeOK'
      BY <1>5, <1>t, <2>3, <3>1, <3>2, <3>4 DEF TakeMessage, TypeOK, Msg
    <3> QED BY <1>5, <1>t, <3>2, <3>3, <3>5 DEF TakeMessage, Typed
  <2> QED BY <1>5, <2>2, <2>3 DEF TakeMessage
<1>6. CASE WriteState
  <2>1. Len(msgs) \in Ids
    BY <1>6, <1>t DEF WriteState, Ids, TypeOK
  <2> QED BY <1>6, <1>t, <1>r, <2>1 DEF WriteState, Fault, Typed, TypeOK, Ids
<1>7. CASE Publish
  <2>1. Len(msgs) \in Ids
    BY <1>7, <1>t DEF Publish, Ids, TypeOK
  <2>2. published \subseteq published' /\ published' \subseteq Ids
    BY <1>7, <1>t, <2>1 DEF Publish, TypeOK
  <2>3. chan' \in Seq(published')
    BY <1>7, <1>t, <2>2 DEF Publish, TypeOK
  <2> QED BY <1>7, <1>t, <1>r, <2>2, <2>3 DEF Publish, Fault, Typed, TypeOK, Ids
<1>8. CASE SenderCrash
  <2>1. Waiting' = {}
    BY <1>8 DEF SenderCrash, Waiting
  <2>2. Cardinality(Waiting') = 0
    BY <2>1, FS_EmptySet
  <2>3. Room'
    BY <1>8, <1>t, <2>2 DEF SenderCrash, Room, TypeOK
  <2> QED BY <1>8, <1>t, <2>3 DEF SenderCrash, Fault, Typed, TypeOK, Ids
<1>9. ASSUME NEW id \in Ids, Receive(id) PROVE Typed'
  <2>1. id \in published /\ seen' = id /\ dbSeen' \in {id, dbSeen} /\ faults' \in 0..MaxFaults
    BY <1>9, <1>t DEF Receive, Observe, Fault, TypeOK
  <2>2. /\ top' \in {id, top} /\ rpc' \in {"idle", "emit", "drop"}
        /\ rpc' # "idle" => top' # None
    BY <1>9, <1>t, <2>1 DEF Receive, TypeOK, Ids
  <2> QED BY <1>9, <1>t, <1>r, <2>1, <2>2 DEF Receive, Typed, TypeOK, Ids
<1>10. CASE Emit
  <2>1. ASSUME sub PROVE chan' \in Seq(published) /\ Len(chan') <= ChanSize
    BY <1>10, <1>t, <2>1 DEF Emit, TypeOK
  <2> QED BY <1>10, <1>t, <1>r, <2>1 DEF Emit, Typed, TypeOK, Ids
<1>11. CASE EmitFull
  BY <1>11, <1>t, <1>r DEF EmitFull, Typed, TypeOK, Ids
<1>12. CASE EmitDrop
  <2>1. chan' \in Seq(published) /\ Len(chan') <= ChanSize
    BY <1>12, <1>t DEF EmitDrop, TypeOK
  <2> QED BY <1>12, <1>t, <1>r, <2>1 DEF EmitDrop, Typed, TypeOK, Ids
<1>13. CASE SubscribeMessages
  BY <1>13, <1>t, <1>r DEF SubscribeMessages, Typed, TypeOK, Ids
<1>14. CASE Read
  <2>1. chan' \in Seq(published) /\ Len(chan') <= ChanSize /\ read' \in published
    BY <1>14, <1>t DEF Read, TypeOK
  <2> QED BY <1>14, <1>t, <1>r, <2>1 DEF Read, Typed, TypeOK, Ids
<1>15. CASE ReceiverCrash
  <2>1. chan' \in Seq(published) /\ Len(chan') <= ChanSize /\ faults' \in 0..MaxFaults
    BY <1>15, <1>t DEF ReceiverCrash, Fault, TypeOK
  <2> QED BY <1>15, <1>t, <1>r, <2>1 DEF ReceiverCrash, Typed, TypeOK, Ids
<1> QED BY <1>0, <1>1, <1>2, <1>3, <1>4, <1>5, <1>6, <1>7, <1>8, <1>9, <1>10, <1>11, <1>12,
           <1>13, <1>14, <1>15 DEF Next, ProcessNode

\* What is linked to, published, observed, handled or in the channel is in the
\* object store, and neither store nor channel grows over its bound
\* (node.go:242-278, peer.go:133-187).
THEOREM TypeCorrect == Spec => []TypeOK
<1>1. Typed => TypeOK
  BY DEF Typed
<1> QED BY <1>1, TypeInit, TypeNext, PTL DEF Spec

\* Typed holds in every reachable state.
LEMMA TypedAlways == Spec => []Typed
<1> QED BY TypeInit, TypeNext, PTL DEF Spec

-----------------------------------------------------------------------------
(* The links of the messages.                                              *)

\* A message that is stored changes nothing of where the others lead to.
LEMMA LeadsToStays ==
    ASSUME TypeOK, Store(SenderTime), NEW j \in Ids, NEW i \in Ids, LeadsTo(j, i)
    PROVE  LeadsTo(j, i)'
<1> SUFFICES ASSUME NEW S \in SUBSET Ids', j \in S, Closed(S)' PROVE i \in S
  BY DEF LeadsTo
<1> DEFINE T == S \cap Ids
<1>1. Closed(T)
  <2> SUFFICES ASSUME NEW k \in T, msgs[k].prev # None PROVE msgs[k].prev \in T
    BY DEF Closed
  <2>1. msgs'[k] = msgs[k]
    BY StoreStep
  <2>2. msgs[k].prev \in S
    BY <2>1 DEF Closed
  <2>3. msgs[k].prev \in 1..(k - 1)
    BY DEF TypeOK
  <2> QED BY <2>2, <2>3 DEF Ids, TypeOK
<1>2. j \in T /\ T \in SUBSET Ids
  OBVIOUS
<1> QED BY <1>1, <1>2 DEF LeadsTo

\* A message leads to itself, and to where the message it is linked to leads.
LEMMA LeadsToLink ==
    ASSUME NEW j \in Ids
    PROVE  /\ LeadsTo(j, j)
           /\ \A i : msgs[j].prev # None /\ LeadsTo(msgs[j].prev, i) => LeadsTo(j, i)
BY DEF LeadsTo, Closed

\* Nothing leads anywhere else while nothing is stored.
LEMMA LeadsToSame == ASSUME msgs' = msgs, NEW j, NEW i, LeadsTo(j, i) PROVE LeadsTo(j, i)'
BY DEF LeadsTo, Closed, Ids

Links == Linked /\ LinksBack

\* Every step preserves the links.
LEMMA LinksNext == Typed /\ Links /\ [Next]_vars => Links'
<1> SUFFICES ASSUME Typed, Links, [Next]_vars PROVE Links'
  OBVIOUS
<1> USE PeerLinkAssumption
<1>t. TypeOK /\ Linked /\ LinksBack
  BY DEF Typed, Links
<1>p. /\ published \subseteq Ids
      /\ lastMsg \in Ids \cup {None} /\ dbMsg \in Ids \cup {None} /\ None \notin Ids
  BY <1>t DEF TypeOK, Ids
<1>l. npc # "select" => Len(msgs) \in Ids /\ Len(msgs) # None
  BY <1>t DEF Linked, TypeOK, Ids
<1>m. ASSUME msgs' = msgs PROVE \A i, j : LeadsTo(j, i) => LeadsTo(j, i)'
  BY <1>m, LeadsToSame
<1>0. CASE UNCHANGED <<npc, lastMsg, dbMsg, msgs, published>>
  <2>1. LinksBack'
    BY <1>0, <1>m, <1>t DEF LinksBack
  <2>2. Linked'
    <3>1. \A i \in published' :
             /\ lastMsg' # None /\ LeadsTo(lastMsg, i)'
             /\ dbMsg' # None /\ LeadsTo(dbMsg, i)'
      BY <1>0, <1>t, <1>m DEF Linked, LeadsTo, Closed, Ids
    <3> QED BY <1>0, <1>t, <3>1 DEF Linked
  <2> QED BY <2>1, <2>2 DEF Links
<1>1. ASSUME NEW l \in Loops, TakeMessage(l) PROVE Links'
  <2>1. CASE UNCHANGED <<msgs, npc>>
    BY <1>0, <1>1, <2>1 DEF TakeMessage
  <2>2. CASE Store(SenderTime) /\ npc' = "stored"
    <3>0. UNCHANGED <<lastMsg, dbMsg, published>>
      BY <1>1 DEF TakeMessage
    <3>1. \A i, j \in Ids : LeadsTo(j, i) => LeadsTo(j, i)'
      BY <1>t, <2>2, LeadsToStays
    <3>2. LinksBack'
      BY <1>p, <1>t, <3>0, <3>1 DEF LinksBack
    <3>3. msgs' # <<>> /\ msgs'[Len(msgs')].prev = lastMsg
      BY <1>t, <2>2, StoreStep
    <3>4. ASSUME NEW i \in published'
          PROVE  /\ lastMsg' # None /\ LeadsTo(lastMsg, i)'
                 /\ dbMsg' # None /\ LeadsTo(dbMsg, i)'
      <4>1. i \in Ids /\ lastMsg \in Ids /\ dbMsg \in Ids
        BY <1>p, <1>t, <3>0, <3>4 DEF Linked
      <4>2. PICK a \in Ids, b \in Ids : a = lastMsg /\ b = dbMsg
        BY <4>1
      <4>3. LeadsTo(a, i)' /\ LeadsTo(b, i)'
        BY <1>t, <3>0, <3>1, <4>1, <4>2 DEF Linked
      <4>4. lastMsg' = a /\ dbMsg' = b
        BY <3>0, <4>2
      <4> QED BY <1>p, <3>0, <4>1, <4>3, <4>4 DEF LeadsTo
    <3>5. Linked'
      BY <2>2, <3>0, <3>3, <3>4 DEF Linked
    <3> QED BY <3>2, <3>5 DEF Links
  <2> QED BY <1>1, <2>1, <2>2 DEF TakeMessage
<1>2. CASE WriteState
  <2> DEFINE k == Len(msgs)
  <2>0. /\ npc = "stored" /\ k \in Ids /\ k # None /\ msgs[k].prev = lastMsg
        /\ msgs' = msgs /\ published' = published /\ lastMsg' = k
        /\ \/ dbMsg' = k /\ npc' = "publish"
           \/ dbMsg' = dbMsg /\ npc' = "select"
    BY <1>2, <1>l, <1>t DEF WriteState, Linked
  <2>1. LinksBack'
    BY <2>0, <1>m, <1>t DEF LinksBack
  <2>2. \A i \in published : LeadsTo(k, i) /\ LeadsTo(dbMsg, i)
    BY <2>0, <1>t, LeadsToLink DEF Linked
  <2> HIDE DEF k
  <2>3. ASSUME NEW i \in published'
        PROVE  /\ lastMsg' # None /\ LeadsTo(lastMsg, i)'
               /\ dbMsg' # None /\ LeadsTo(dbMsg, i)'
    BY <2>0, <2>2, <1>t DEF Linked, LeadsTo, Closed, Ids
  <2>4. npc' # "select" => msgs' # <<>>
    BY <2>0, <1>t DEF Linked
  <2>5. npc' = "publish" => lastMsg' = Len(msgs') /\ dbMsg' = Len(msgs')
    BY <2>0 DEF k
  <2> QED BY <2>0, <2>1, <2>3, <2>4, <2>5 DEF Links, Linked
<1>3. CASE Publish
  <2> DEFINE k == Len(msgs)
  <2>0. /\ npc = "publish" /\ k \in Ids /\ k # None /\ lastMsg = k /\ dbMsg = k
        /\ msgs' = msgs /\ published' \in {published, published \cup {k}}
        /\ UNCHANGED <<lastMsg, dbMsg>> /\ npc' = "select"
    BY <1>3, <1>l, <1>t DEF Publish, Linked
  <2> HIDE DEF k
  <2>1. \A i \in published' : LeadsTo(k, i)
    BY <2>0, <1>t, LeadsToLink DEF Linked
  <2>2. \A i \in published : i <= k
    <3>1. k = Len(msgs) /\ k \in Nat
      BY <1>t DEF k, TypeOK
    <3> QED BY <1>p, <3>1 DEF Ids
  <2>3. LinksBack'
    <3> SUFFICES ASSUME NEW i \in published', NEW j \in published', i < j PROVE LeadsTo(j, i)'
      BY DEF LinksBack
    <3>1. CASE j = k
      BY <2>0, <2>1, <3>1, LeadsToSame
    <3>2. CASE j # k
      <4>1. j \in published
        BY <2>0, <3>2
      <4>2. i # k
        BY <2>2, <4>1, <1>p, <2>0 DEF Ids
      <4>3. i \in published
        BY <2>0, <4>2
      <4> QED BY <1>t, <2>0, <4>1, <4>3, LeadsToSame DEF LinksBack
    <3> QED BY <3>1, <3>2
  <2>4. \A i \in published' :
           /\ lastMsg' # None /\ LeadsTo(lastMsg, i)'
           /\ dbMsg' # None /\ LeadsTo(dbMsg, i)'
    BY <2>0, <2>1 DEF LeadsTo, Closed, Ids
  <2> QED BY <2>0, <2>3, <2>4 DEF Links, Linked
<1>4. CASE SenderCrash
  <2>0. /\ UNCHANGED <<dbMsg, msgs, published>> /\ lastMsg' = dbMsg /\ npc' = "select"
    BY <1>4 DEF SenderCrash
  <2>1. LinksBack'
    BY <2>0, <1>m, <1>t DEF LinksBack
  <2>2. \A i \in published' :
           /\ lastMsg' # None /\ LeadsTo(lastMsg, i)'
           /\ dbMsg' # None /\ LeadsTo(dbMsg, i)'
    BY <2>0, <1>t DEF Linked, LeadsTo, Closed, Ids
  <2> QED BY <2>0, <2>1, <2>2 DEF Links, Linked
<1>5. CASE \/ UNCHANGED vars
           \/ Tick \/ \E s \in Skews : SetClock(s)
           \/ \E l \in Loops : SendMessage(l) \/ SendCancelled(l)
           \/ \E id \in Ids : Receive(id)
           \/ Emit \/ EmitFull \/ EmitDrop
           \/ SubscribeMessages \/ Read \/ ReceiverCrash
  <2>1. UNCHANGED <<npc, lastMsg, dbMsg, msgs, published>>
    BY <1>5 DEF vars, sendVars, Tick, SetClock, SendMessage, SendCancelled, Receive, Emit,
             EmitFull, EmitDrop, SubscribeMessages, Read, ReceiverCrash
  <2> QED BY <1>0, <2>1
<1> QED BY <1>1, <1>2, <1>3, <1>4, <1>5, Zenon DEF Next, ProcessNode

\* They hold initially.
LEMMA LinksInit == Init => Links
BY DEF Init, Links, Linked, LinksBack

\* From every published message the links lead back to every one published
\* before, although writes fail and the node crashes between storing, linking
\* and publishing (node.go:242-278).
THEOREM LinksLeadBack == Spec => []LinksBack
<1>1. Links => LinksBack
  BY DEF Links
<1> QED BY <1>1, TypedAlways, LinksInit, LinksNext, PTL DEF Spec

-----------------------------------------------------------------------------
(* The timestamps.                                                         *)

\* A message has a time.
LEMMA TsType == ASSUME TypeOK, NEW i \in Ids PROVE msgs[i].ts \in Int
<1>1. msgs \in Seq(Msg)
  BY DEF TypeOK, Msg
<1>2. msgs[i] \in Msg
  BY <1>1 DEF Ids
<1> QED BY <1>2 DEF Msg

Stamps == Stamped /\ StampsOrdered

\* Every step keeps the timestamps in order.
LEMMA StampsNext == Typed /\ Stamps /\ [Next]_vars => Stamps'
<1> SUFFICES ASSUME Typed, Stamps, [Next]_vars PROVE Stamps'
  OBVIOUS
<1> USE PeerLinkAssumption
<1>t. TypeOK /\ Stamped /\ StampsOrdered
  BY DEF Typed, Stamps
<1>i. SenderTime \in Int /\ now \in Int /\ skew \in Int /\ \A i \in Ids : msgs[i].ts \in Int
  BY <1>t, TsType, SenderTimeType
<1>0. CASE UNCHANGED <<now, skew, setBack, msgs>>
  BY <1>0, <1>t DEF Stamps, Stamped, StampsOrdered, SenderTime, Ids
<1>1. CASE Tick
  BY <1>1, <1>t, <1>i DEF Tick, sendVars, Stamps, Stamped, StampsOrdered, SenderTime, Ids
<1>2. ASSUME NEW s \in Skews, SetClock(s) PROVE Stamps'
  <2>1. s \in Int /\ msgs' = msgs /\ now' = now /\ skew' = s /\ Ids' = Ids
    BY <1>2 DEF SetClock, sendVars, Ids
  <2>2. CASE setBack'
    BY <2>2 DEF Stamps, Stamped, StampsOrdered
  <2>3. CASE ~ setBack'
    <3>1. ~ setBack /\ ~ s < skew
      BY <1>2, <2>3 DEF SetClock
    <3> QED BY <1>t, <1>i, <2>1, <3>1 DEF Stamps, Stamped, StampsOrdered, SenderTime
  <2> QED BY <2>2, <2>3
<1>3. ASSUME NEW l \in Loops, TakeMessage(l) PROVE Stamps'
  <2>1. CASE UNCHANGED msgs
    BY <1>0, <1>3, <2>1 DEF TakeMessage, timeVars
  <2>2. CASE Store(SenderTime)
    <3> DEFINE k == Len(msgs) + 1
    <3>1. /\ \A i \in Ids : i \in Ids' /\ msgs'[i] = msgs[i]
          /\ Ids' = Ids \cup {k} /\ k \notin Ids
          /\ msgs'[k].ts = SenderTime
      BY <1>t, <2>2, StoreStep
    <3>2. \A i \in Ids : i < k
      BY <1>t DEF Ids, TypeOK
    <3>3. SenderTime' = SenderTime /\ setBack' = setBack
      BY <1>3 DEF TakeMessage, timeVars, SenderTime
    <3>4. k \in Int /\ \A i \in Ids : i \in Int
      BY <1>t DEF Ids, TypeOK
    <3> HIDE DEF k
    <3>5. \A i \in Ids' : i # k => i \in Ids /\ i < k /\ ~ k < i
      BY <3>1, <3>2, <3>4
    <3>6. Stamped'
      BY <1>t, <1>i, <3>1, <3>3 DEF Stamped
    <3>7. StampsOrdered'
      <4> SUFFICES ASSUME ~ setBack, NEW i \in Ids', NEW j \in Ids', i < j
                   PROVE  msgs'[i].ts <= msgs'[j].ts
        BY <3>3 DEF StampsOrdered
      <4>1. CASE j = k
        <5>1. i # k
          BY <3>4, <4>1
        <5> QED BY <1>t, <3>1, <3>5, <4>1, <5>1 DEF Stamped
      <4>2. CASE j # k
        <5>1. i # k
          BY <3>5, <4>2
        <5> QED BY <1>t, <3>1, <3>5, <4>2, <5>1 DEF StampsOrdered
      <4> QED BY <4>1, <4>2
    <3> QED BY <3>6, <3>7 DEF Stamps
  <2> QED BY <1>3, <2>1, <2>2 DEF TakeMessage
<1>4. CASE \/ UNCHANGED vars
           \/ \E l \in Loops : SendMessage(l) \/ SendCancelled(l)
           \/ WriteState \/ Publish \/ SenderCrash
           \/ \E id \in Ids : Receive(id)
           \/ Emit \/ EmitFull \/ EmitDrop
           \/ SubscribeMessages \/ Read \/ ReceiverCrash
  <2>1. UNCHANGED <<now, skew, setBack, msgs>>
    BY <1>4 DEF vars, timeVars, sendVars, SendMessage, SendCancelled, WriteState, Publish,
             SenderCrash, Receive, Emit, EmitFull, EmitDrop, SubscribeMessages, Read, ReceiverCrash
  <2> QED BY <1>0, <2>1
<1> QED BY <1>1, <1>2, <1>3, <1>4, Zenon DEF Next, ProcessNode

\* They are in order initially.
LEMMA StampsInit == Init => Stamps
BY DEF Init, Stamps, Stamped, StampsOrdered, Ids

\* Messages are stored in the order of their timestamps, whichever goroutine
\* made them first and however often the node restarts, as long as its clock
\* is not set back (node.go:149-160, 243-245).
THEOREM StampsStayOrdered == Spec => []StampsOrdered
<1>1. Stamps => StampsOrdered
  BY DEF Stamps
<1> QED BY <1>1, TypedAlways, StampsInit, StampsNext, PTL DEF Spec

-----------------------------------------------------------------------------
(* What the receiver handles.                                              *)

\* Every message stays as it was stored.
LEMMA MsgsStay ==
    ASSUME TypeOK, [Next]_vars
    PROVE  \A i \in Ids : i \in Ids' /\ msgs'[i] = msgs[i]
<1>0. CASE UNCHANGED msgs
  BY <1>0 DEF Ids
<1>1. ASSUME NEW l \in Loops, TakeMessage(l)
      PROVE  \A i \in Ids : i \in Ids' /\ msgs'[i] = msgs[i]
  BY <1>0, <1>1, StoreStep DEF TakeMessage
<1>2. CASE \/ UNCHANGED vars
           \/ Tick \/ \E s \in Skews : SetClock(s)
           \/ \E l \in Loops : SendMessage(l) \/ SendCancelled(l)
           \/ WriteState \/ Publish \/ SenderCrash
           \/ \E id \in Ids : Receive(id)
           \/ Emit \/ EmitFull \/ EmitDrop
           \/ SubscribeMessages \/ Read \/ ReceiverCrash
  BY <1>0, <1>2 DEF vars, sendVars, Tick, SetClock, SendMessage, SendCancelled, WriteState,
           Publish, SenderCrash, Receive, Emit, EmitFull, EmitDrop, SubscribeMessages, Read,
           ReceiverCrash
<1> QED BY <1>1, <1>2, Zenon DEF Next, ProcessNode

\* What the receiver keeps is in the object store.
LEMMA KeptInStore ==
    ASSUME TypeOK
    PROVE  /\ {seen, dbSeen, top, newest, read} \subseteq Ids \cup {None}
           /\ chan \in Seq(Ids) /\ None \notin Ids
<1>1. published \subseteq Ids
  BY DEF TypeOK
<1>2. chan \in Seq(published)
  BY DEF TypeOK
<1>3. None \notin Ids
  BY PeerLinkAssumption DEF Ids, TypeOK
<1> QED BY <1>1, <1>2, <1>3 DEF TypeOK

\* Every step keeps what was handled not later than what was observed.
LEMMA ObservedNext == Typed /\ Observed /\ [Next]_vars => Observed'
<1> SUFFICES ASSUME Typed, Observed, [Next]_vars PROVE Observed'
  OBVIOUS
<1>t. TypeOK
  BY DEF Typed
<1>k. {seen, dbSeen, top} \subseteq Ids \cup {None} /\ None \notin Ids
  BY <1>t, KeptInStore
<1>m. \A i \in Ids : msgs'[i] = msgs[i] /\ msgs[i].ts \in Int
  BY <1>t, MsgsStay, TsType
<1>0. CASE UNCHANGED <<seen, top, forgot>>
  BY <1>0, <1>k, <1>m DEF Observed
<1>1. ASSUME NEW id \in Ids, Receive(id) PROVE Observed'
  <2>1. seen' = id /\ id # None /\ forgot' = forgot /\ top' \in {top, id} /\ NotOld(id)
    BY <1>1, <1>k DEF Receive, Observe
  <2> QED BY <1>k, <1>m, <2>1 DEF Observed, NotOld
<1>2. CASE ReceiverCrash
  BY <1>2, <1>k, <1>m DEF ReceiverCrash, Observed
<1>3. CASE \/ UNCHANGED vars
           \/ Tick \/ \E s \in Skews : SetClock(s)
           \/ \E l \in Loops : SendMessage(l) \/ SendCancelled(l)
           \/ ProcessNode \/ SenderCrash
           \/ Emit \/ EmitFull \/ EmitDrop
           \/ SubscribeMessages \/ Read
  <2>1. UNCHANGED <<seen, top, forgot>>
    BY <1>3 DEF vars, recvVars, Tick, SetClock, SendMessage, SendCancelled, ProcessNode,
             TakeMessage, WriteState, Publish, SenderCrash, Emit, EmitFull, EmitDrop,
             SubscribeMessages, Read
  <2> QED BY <1>0, <2>1
<1> QED BY <1>1, <1>2, <1>3, Zenon DEF Next

\* Observed holds in every reachable state.
LEMMA ObservedAlways == Spec => []Observed
<1>1. Init => Observed
  BY DEF Init, Observed
<1> QED BY <1>1, TypedAlways, ObservedNext, PTL DEF Spec

\* No message is handled after a later one, whatever pub-sub repeats or
\* reorders, whatever the clocks do and however often both nodes restart,
\* unless the receiver lost its record of a message (peer.go:145-162,
\* 190-199).
THEOREM MessagesHandledInOrder == Spec => HandledInOrder
<1> DEFINE A == top # None /\ top' # top => msgs[top].ts <= msgs[top'].ts \/ forgot
<1>1. Typed /\ Observed /\ [Next]_vars => [A]_vars
  <2> SUFFICES ASSUME Typed, Observed, Next, top # None, top' # top, ~ forgot
               PROVE  msgs[top].ts <= msgs[top'].ts
    OBVIOUS
  <2>1. PICK id \in Ids : Receive(id)
    BY DEF Next, recvVars, Tick, SetClock, SendMessage, SendCancelled, ProcessNode,
           TakeMessage, WriteState, Publish, SenderCrash, Emit, EmitFull, EmitDrop,
           SubscribeMessages, Read, ReceiverCrash
  <2>2. top' = id /\ NotOld(id)
    BY <2>1 DEF Receive
  <2>3. seen \in Ids /\ top \in Ids /\ None \notin Ids
    BY KeptInStore DEF Typed, Observed
  <2>4. msgs[seen].ts \in Int /\ msgs[top].ts \in Int /\ msgs[id].ts \in Int
    <3>1. \A i \in Ids : msgs[i].ts \in Int
      BY TsType DEF Typed
    <3> QED BY <2>3, <3>1
  <2> QED BY <2>2, <2>3, <2>4 DEF Observed, NotOld
<1> QED BY <1>1, TypedAlways, ObservedAlways, PTL DEF Spec, HandledInOrder

-----------------------------------------------------------------------------
(* The channel of a subscription.                                          *)

Subscribed == Buffered /\ NewestLast

\* The messages in the channel are stored ones, and Tail and Append move them.
LEMMA ChanFacts ==
    ASSUME NEW q \in Seq(Ids), NEW x \in Ids
    PROVE  /\ Len(q) \in Nat /\ \A i \in 1..Len(q) : q[i] \in Ids
           /\ q = <<>> <=> Len(q) = 0
           /\ Append(q, x) \in Seq(Ids) /\ Append(q, x) # <<>>
           /\ Len(Append(q, x)) = Len(q) + 1 /\ Append(q, x)[Len(q) + 1] = x
           /\ \A i \in 1..Len(q) : Append(q, x)[i] = q[i]
OBVIOUS

\* The same for what is left of a channel.
LEMMA TailFacts ==
    ASSUME NEW S, NEW q \in Seq(S), q # <<>>
    PROVE  /\ Len(q) \in Nat \ {0} /\ \A i \in 1..Len(q) : q[i] \in S
           /\ Head(q) = q[1] /\ Tail(q) \in Seq(S)
           /\ Len(Tail(q)) = Len(q) - 1
           /\ \A i \in 1..(Len(q) - 1) : Tail(q)[i] = q[i + 1]
           /\ Tail(q) = <<>> <=> Len(q) = 1
<1>1. /\ Len(q) \in Nat \ {0} /\ \A i \in 1..Len(q) : q[i] \in S
      /\ Head(q) = q[1] /\ Tail(q) \in Seq(S)
      /\ Len(Tail(q)) = Len(q) - 1
      /\ \A i \in 1..(Len(q) - 1) : Tail(q)[i] = q[i + 1]
  OBVIOUS
<1>2. \A p \in Seq(S) : p = <<>> <=> Len(p) = 0
  OBVIOUS
<1>3. Tail(q) = <<>> <=> Len(Tail(q)) = 0
  BY <1>1, <1>2
<1>4. Len(Tail(q)) = 0 <=> Len(q) = 1
  BY <1>1
<1> QED BY <1>1, <1>3, <1>4

\* Every step keeps the channel in order, and its newest message.
LEMMA SubscribedNext == Typed /\ Observed /\ Subscribed /\ [Next]_vars => Subscribed'
<1> SUFFICES ASSUME Typed, Observed, Subscribed, [Next]_vars PROVE Subscribed'
  OBVIOUS
<1>t. TypeOK /\ Buffered /\ NewestLast /\ (rpc # "idle" => top # None)
  BY DEF Typed, Subscribed
<1>k. /\ {seen, dbSeen, top, newest, read} \subseteq Ids \cup {None}
      /\ chan \in Seq(Ids) /\ None \notin Ids
  BY <1>t, KeptInStore
<1>c. Len(chan) \in Nat /\ \A i \in 1..Len(chan) : chan[i] \in Ids
  BY <1>k
<1>m. \A i \in Ids : msgs'[i] = msgs[i] /\ msgs[i].ts \in Int
  BY <1>t, MsgsStay, TsType
<1>0. CASE UNCHANGED <<chan, read, top, forgot, rpc, sub, newest>>
  <2>1. Buffered'
    BY <1>0, <1>t, <1>k, <1>c, <1>m DEF Buffered
  <2>2. NewestLast'
    BY <1>0, <1>t DEF NewestLast
  <2> QED BY <2>1, <2>2 DEF Subscribed
<1>1. ASSUME NEW id \in Ids, Receive(id) PROVE Subscribed'
  <2>1. /\ UNCHANGED <<chan, read, forgot, sub, newest>> /\ NotOld(id) /\ id # None /\ rpc = "idle"
        /\ (top' = top /\ rpc' = rpc) \/ top' = id
    BY <1>1, <1>k DEF Receive, subVars
  <2>2. NewestLast'
    BY <2>1, <1>t DEF NewestLast
  <2>3. CASE top' = top /\ rpc' = rpc
    BY <1>0, <2>1, <2>3
  <2>4. CASE top' = id
    <3>1. forgot \/ top = None \/ msgs[top].ts <= msgs[id].ts
      BY <2>1, <1>k, <1>m DEF Observed, NotOld
    <3>2. forgot \/ \A i \in 1..Len(chan) : msgs[chan[i]].ts <= msgs[id].ts
      BY <3>1, <1>t, <1>k, <1>c, <1>m DEF Buffered
    <3>3. forgot \/ read = None \/ msgs[read].ts <= msgs[id].ts
      BY <3>1, <1>t, <1>k, <1>m DEF Buffered
    <3>4. Buffered'
      BY <2>1, <2>4, <3>2, <3>3, <1>t, <1>k, <1>c, <1>m DEF Buffered
    <3> QED BY <2>2, <3>4 DEF Subscribed
  <2> QED BY <2>1, <2>3, <2>4
<1>2. CASE Emit
  <2>1. UNCHANGED <<read, top, forgot, sub>> /\ top \in Ids /\ rpc' = "idle"
    BY <1>2, <1>t, <1>k DEF Emit
  <2>2. CASE sub
    <3>1. chan' = Append(chan, top) /\ newest' = top
      BY <1>2, <2>2 DEF Emit
    <3>2. /\ chan' # <<>> /\ Len(chan') = Len(chan) + 1 /\ chan'[Len(chan) + 1] = top
          /\ \A i \in 1..Len(chan) : chan'[i] = chan[i]
      BY <1>k, <2>1, <3>1, ChanFacts
    <3>3. \A i \in 1..Len(chan') : i # Len(chan) + 1 => i \in 1..Len(chan)
      BY <1>c, <3>2
    <3>4. forgot \/ \A i \in 1..Len(chan') : msgs[chan'[i]].ts <= msgs[top].ts
      BY <1>t, <1>m, <2>1, <3>2, <3>3 DEF Buffered
    <3>5. forgot \/ \A i, j \in 1..Len(chan') : i < j => msgs[chan'[i]].ts <= msgs[chan'[j]].ts
      <4> SUFFICES ASSUME ~ forgot, NEW i \in 1..Len(chan'), NEW j \in 1..Len(chan'), i < j
                   PROVE  msgs[chan'[i]].ts <= msgs[chan'[j]].ts
        OBVIOUS
      <4>1. CASE j = Len(chan) + 1
        BY <3>2, <3>4, <4>1
      <4>2. CASE j # Len(chan) + 1
        <5>1. j \in 1..Len(chan) /\ i \in 1..Len(chan)
          BY <1>c, <3>3, <4>2
        <5> QED BY <1>t, <3>2, <5>1 DEF Buffered
      <4> QED BY <4>1, <4>2
    <3>6. \A i \in 1..Len(chan') : chan'[i] \in Ids
      BY <1>c, <2>1, <3>2, <3>3
    <3>7. read # None =>
             /\ forgot \/ \A i \in 1..Len(chan') : msgs[read].ts <= msgs[chan'[i]].ts
             /\ forgot \/ msgs[read].ts <= msgs[top].ts
      BY <1>t, <3>2, <3>3 DEF Buffered
    <3>8. Buffered'
      BY <1>k, <1>m, <2>1, <3>4, <3>5, <3>6, <3>7 DEF Buffered
    <3>9. NewestLast'
      BY <2>1, <2>2, <3>1, <3>2 DEF NewestLast
    <3> QED BY <3>8, <3>9 DEF Subscribed
  <2>3. CASE ~ sub
    <3>1. chan' = chan /\ newest' = newest
      BY <1>2, <2>3 DEF Emit
    <3>2. Buffered'
      BY <1>t, <1>k, <1>c, <1>m, <2>1, <3>1 DEF Buffered
    <3>3. NewestLast'
      BY <1>t, <2>1, <2>3, <3>1 DEF NewestLast
    <3> QED BY <3>2, <3>3 DEF Subscribed
  <2> QED BY <2>2, <2>3
<1>3. CASE EmitFull
  <2>1. UNCHANGED <<chan, read, top, forgot, sub, newest>> /\ rpc' = "drop" /\ top # None
    BY <1>3, <1>t DEF EmitFull, subVars
  <2>2. Buffered'
    BY <1>t, <1>k, <1>c, <1>m, <2>1 DEF Buffered
  <2>3. NewestLast'
    BY <1>t, <2>1 DEF NewestLast
  <2> QED BY <2>2, <2>3 DEF Subscribed
<1>4. CASE EmitDrop
  <2>1. /\ UNCHANGED <<read, top, forgot, sub, newest>> /\ rpc' = "emit" /\ top # None
    BY <1>4, <1>t DEF EmitDrop
  <2>c. chan' = IF chan = <<>> THEN chan ELSE Tail(chan)
    BY <1>4 DEF EmitDrop
  <2>2. CASE chan = <<>>
    <3>1. chan' = chan
      BY <2>c, <2>2
    <3>2. Buffered'
      BY <1>t, <1>k, <1>c, <1>m, <2>1, <3>1 DEF Buffered
    <3>3. NewestLast'
      BY <1>t, <2>1, <3>1 DEF NewestLast
    <3> QED BY <3>2, <3>3 DEF Subscribed
  <2>3. CASE chan # <<>>
    <3>1. Len(chan') = Len(chan) - 1 /\ \A i \in 1..Len(chan') : chan'[i] = chan[i + 1]
      BY <1>k, <2>c, <2>3, TailFacts
    <3>2. \A i \in 1..Len(chan') : i + 1 \in 1..Len(chan) /\ chan'[i] \in Ids
      BY <1>c, <3>1
    <3>3. forgot \/ \A i, j \in 1..Len(chan') : i < j => msgs[chan'[i]].ts <= msgs[chan'[j]].ts
      <4> SUFFICES ASSUME ~ forgot, NEW i \in 1..Len(chan'), NEW j \in 1..Len(chan'), i < j
                   PROVE  msgs[chan'[i]].ts <= msgs[chan'[j]].ts
        OBVIOUS
      <4>1. i + 1 < j + 1 /\ i + 1 \in 1..Len(chan) /\ j + 1 \in 1..Len(chan)
        BY <3>2
      <4> QED BY <1>t, <3>1, <4>1 DEF Buffered
    <3>4. forgot \/ \A i \in 1..Len(chan') : msgs[chan'[i]].ts <= msgs[top].ts
      BY <1>t, <3>1, <3>2 DEF Buffered
    <3>5. read # None =>
             /\ forgot \/ \A i \in 1..Len(chan') : msgs[read].ts <= msgs[chan'[i]].ts
             /\ forgot \/ msgs[read].ts <= msgs[top].ts
      BY <1>t, <3>1, <3>2 DEF Buffered
    <3>6. Buffered'
      BY <1>k, <1>m, <2>1, <3>2, <3>3, <3>4, <3>5 DEF Buffered
    <3>7. NewestLast'
      BY <1>t, <2>1, <2>3 DEF NewestLast
    <3> QED BY <3>6, <3>7 DEF Subscribed
  <2> QED BY <2>2, <2>3
<1>5. CASE SubscribeMessages \/ ReceiverCrash
  <2>1. chan' = <<>> /\ newest' = None /\ read' = None /\ top' = top /\ (rpc' # "idle" => top # None)
    BY <1>5, <1>t DEF SubscribeMessages, ReceiverCrash, recvVars
  <2>2. Buffered'
    BY <2>1 DEF Buffered
  <2>3. NewestLast'
    BY <2>1 DEF NewestLast
  <2> QED BY <2>2, <2>3 DEF Subscribed
<1>6. CASE Read
  <2>1. /\ UNCHANGED <<top, forgot, sub, newest, rpc>> /\ chan # <<>>
    BY <1>6 DEF Read, recvVars
  <2>c. read' = Head(chan) /\ chan' = Tail(chan)
    BY <1>6 DEF Read
  <2>2. /\ Len(chan') = Len(chan) - 1 /\ \A i \in 1..Len(chan') : chan'[i] = chan[i + 1]
        /\ read' = chan[1] /\ Len(chan) \in Nat \ {0}
        /\ chan' = <<>> <=> Len(chan) = 1
    BY <1>k, <2>1, <2>c, TailFacts
  <2>3. /\ \A i \in 1..Len(chan') : i + 1 \in 1..Len(chan) /\ 1 < i + 1 /\ chan'[i] \in Ids
        /\ 1 \in 1..Len(chan) /\ read' \in Ids
    BY <1>c, <2>2
  <2>4. forgot \/ \A i, j \in 1..Len(chan') : i < j => msgs[chan'[i]].ts <= msgs[chan'[j]].ts
    <3> SUFFICES ASSUME ~ forgot, NEW i \in 1..Len(chan'), NEW j \in 1..Len(chan'), i < j
                 PROVE  msgs[chan'[i]].ts <= msgs[chan'[j]].ts
      OBVIOUS
    <3>1. i + 1 < j + 1 /\ i + 1 \in 1..Len(chan) /\ j + 1 \in 1..Len(chan)
      BY <2>3
    <3> QED BY <1>t, <2>2, <3>1 DEF Buffered
  <2>5. forgot \/ \A i \in 1..Len(chan') : msgs[chan'[i]].ts <= msgs[top].ts
    BY <1>t, <2>2, <2>3 DEF Buffered
  <2>6. /\ forgot \/ \A i \in 1..Len(chan') : msgs[read'].ts <= msgs[chan'[i]].ts
        /\ forgot \/ msgs[read'].ts <= msgs[top].ts
    BY <1>t, <2>2, <2>3 DEF Buffered
  <2>7. top # None
    BY <1>t, <2>1 DEF Buffered
  <2>8. Buffered'
    BY <1>k, <1>m, <2>1, <2>3, <2>4, <2>5, <2>6, <2>7 DEF Buffered
  <2>9. NewestLast'
    <3>1. ~ sub' => chan' = <<>> /\ newest' = None
      BY <1>t, <2>1 DEF NewestLast
    <3>2. ASSUME rpc' = "idle", newest' # None
          PROVE  IF chan' = <<>> THEN read' = newest' ELSE chan'[Len(chan')] = newest'
      <4>1. chan[Len(chan)] = newest
        BY <1>t, <2>1, <3>2 DEF NewestLast
      <4>2. CASE Len(chan) = 1
        BY <2>1, <2>2, <4>1, <4>2
      <4>3. CASE Len(chan) # 1
        <5>1. Len(chan') \in 1..Len(chan') /\ Len(chan') + 1 = Len(chan)
          BY <2>2, <4>3
        <5>2. chan'[Len(chan')] = chan[Len(chan)]
          BY <2>2, <5>1
        <5> QED BY <2>1, <2>2, <4>1, <4>3, <5>2
      <4> QED BY <4>2, <4>3
    <3> QED BY <3>1, <3>2 DEF NewestLast
  <2> QED BY <2>8, <2>9 DEF Subscribed
<1>7. CASE \/ UNCHANGED vars
           \/ Tick \/ \E s \in Skews : SetClock(s)
           \/ \E l \in Loops : SendMessage(l) \/ SendCancelled(l)
           \/ ProcessNode \/ SenderCrash
  <2>1. UNCHANGED <<chan, read, top, forgot, rpc, sub, newest>>
    BY <1>7 DEF vars, recvVars, subVars, Tick, SetClock, SendMessage, SendCancelled,
             ProcessNode, TakeMessage, WriteState, Publish, SenderCrash
  <2> QED BY <1>0, <2>1
<1> QED BY <1>1, <1>2, <1>3, <1>4, <1>5, <1>6, <1>7, Zenon DEF Next

\* A subscriber reads messages in the order of their timestamps, and the newest
\* one reaches it, although the channel is emptied for the next message while
\* it reads (peer_state.go:21-40).
THEOREM SubscriptionsInOrder == Spec => []SubscriptionInOrder
<1>1. Init => Subscribed
  BY DEF Init, Subscribed, Buffered, NewestLast
<1>2. Typed /\ Subscribed => SubscriptionInOrder
  <2> SUFFICES ASSUME Typed, Subscribed PROVE SubscriptionInOrder
    OBVIOUS
  <2> DEFINE unread == IF read = None THEN chan ELSE <<read>> \o chan
  <2>1. chan \in Seq(Ids) /\ read \in Ids \cup {None} /\ Len(chan) \in Nat
    <3>1. chan \in Seq(Ids) /\ read \in Ids \cup {None}
      BY KeptInStore DEF Typed
    <3> QED BY <3>1
  <2>2. CASE read = None
    <3>1. unread = chan
      BY <2>2
    <3> HIDE DEF unread
    <3>2. forgot \/ \A i, j \in 1..Len(unread) :
             i < j => msgs[unread[i]].ts <= msgs[unread[j]].ts
      BY <3>1 DEF Subscribed, Buffered
    <3>3. rpc = "idle" /\ newest # None => unread[Len(unread)] = newest
      BY <2>2, <3>1 DEF Subscribed, NewestLast
    <3> QED BY <3>2, <3>3 DEF SubscriptionInOrder, unread
  <2>3. CASE read # None
    <3>1. /\ Len(unread) = Len(chan) + 1 /\ unread[1] = read
          /\ \A i \in 1..Len(unread) : i = 1 \/ (i - 1 \in 1..Len(chan) /\ unread[i] = chan[i - 1])
      BY <2>1, <2>3
    <3> HIDE DEF unread
    <3>2. forgot \/ \A i, j \in 1..Len(unread) :
             i < j => msgs[unread[i]].ts <= msgs[unread[j]].ts
      <4> SUFFICES ASSUME ~ forgot, NEW i \in 1..Len(unread), NEW j \in 1..Len(unread), i < j
                   PROVE  msgs[unread[i]].ts <= msgs[unread[j]].ts
        OBVIOUS
      <4>1. j - 1 \in 1..Len(chan) /\ unread[j] = chan[j - 1]
        BY <2>1, <3>1
      <4>2. CASE i = 1
        BY <2>3, <3>1, <4>1, <4>2 DEF Subscribed, Buffered
      <4>3. CASE i # 1
        <5>1. i - 1 \in 1..Len(chan) /\ unread[i] = chan[i - 1] /\ i - 1 < j - 1
          BY <2>1, <3>1, <4>3
        <5> QED BY <4>1, <5>1 DEF Subscribed, Buffered
      <4> QED BY <4>2, <4>3
    <3>3. ASSUME rpc = "idle", newest # None PROVE unread[Len(unread)] = newest
      <4>1. CASE chan = <<>>
        BY <3>1, <3>3, <4>1 DEF Subscribed, NewestLast
      <4>2. CASE chan # <<>>
        <5>1. Len(unread) # 1 /\ Len(unread) \in 1..Len(unread) /\ Len(unread) - 1 = Len(chan)
          BY <2>1, <3>1, <4>2
        <5>2. unread[Len(unread)] = chan[Len(chan)]
          BY <3>1, <5>1
        <5> QED BY <3>3, <4>2, <5>2 DEF Subscribed, NewestLast
      <4> QED BY <4>1, <4>2
    <3> QED BY <3>2, <3>3 DEF SubscriptionInOrder, unread
  <2> QED BY <2>2, <2>3
<1> QED BY <1>1, <1>2, TypedAlways, ObservedAlways, SubscribedNext, PTL DEF Spec

\* The conjunction of all that was used, as TLC checks it on the instances.
THEOREM Invariance == Spec => []IInv
<1>1. Init => Subscribed
  BY DEF Init, Subscribed, Buffered, NewestLast
<1>2. Typed /\ Links /\ Stamps /\ Observed /\ Subscribed => IInv
  BY DEF Typed, Links, Stamps, Subscribed, IInv
<1> QED BY <1>1, <1>2, TypedAlways, LinksInit, LinksNext, StampsInit, StampsNext,
           ObservedAlways, SubscribedNext, PTL DEF Spec

=============================================================================
