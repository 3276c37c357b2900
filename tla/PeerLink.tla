------------------------------ MODULE PeerLink ------------------------------
(***************************************************************************)
(* One node's messages on their way to one other node.  The loops of the   *)
(* sender hand messages to processNode over the unbuffered outbox; it      *)
(* stamps, stores, links and publishes one after the other (node/node.go). *)
(* Pub-sub loses, repeats and reorders them.  The receiver has a record of *)
(* the last message it observed of the sender, filters by timestamps,      *)
(* handles what is left and puts it into a subscription channel that       *)
(* drops its oldest message when it is full (peer/).                       *)
(*                                                                         *)
(* The two nodes have clocks of their own, and both may crash.  Consensus  *)
(* takes messages in the order of their timestamps and has no clock; this  *)
(* module has what lies below.                                             *)
(***************************************************************************)
EXTENDS Integers, Sequences, FiniteSets

CONSTANTS
    Loops,      \* the goroutines of the sender that send messages
    MaxAge,     \* the age up to which a message is handled (2 minutes)
    ChanSize,   \* the size of a subscription channel (5)
    Skews,      \* how far the sender's clock may be ahead of the receiver's
    MaxMsgs,    \* bound: how many messages are stored
    MaxTime,    \* bound: the receiver's clock stops here
    MaxFaults,  \* bound: crashes, failing writes and clocks that are set
    None        \* no message, no time

ASSUME PeerLinkAssumption ==
    /\ MaxAge \in Nat /\ ChanSize \in Nat \ {0}
    /\ Skews \subseteq Int /\ 0 \in Skews
    /\ MaxMsgs \in Nat /\ MaxTime \in Nat /\ MaxFaults \in Nat
    /\ None \notin Int /\ IsFiniteSet(Loops)

VARIABLES
    now, skew,     \* the receiver's clock, and how far the sender's is ahead
    offer,         \* the time at which a loop called SendMessage, if it waits in it
    npc,           \* processNode: where it is
    lastMsg,       \*   state.LastMsgRef, in memory
    dbMsg,         \*   and in the database
    msgs,          \* the messages in the object store: timestamp and PrevMsgRef
    published,     \* those that were published
    seen, dbSeen,  \* LastObservedMessage of the receiver, in memory and database
    rpc,           \* the receiver's pub-sub goroutine: where it is
    top,           \*   and the last message it handled
    sub,           \* a subscription: whether it is stored,
    chan,          \*   its channel,
    newest, read,  \*   the last message emitted to it, and the last one read
    faults,        \* how many faults there were
    setBack,       \* whether the sender's clock was set back
    forgot         \* whether a restart of the receiver forgot a message

sendVars == <<offer, npc, lastMsg, dbMsg, msgs, published>>
subVars  == <<sub, chan, newest, read>>
recvVars == <<seen, dbSeen, rpc, top, forgot>>
timeVars == <<now, skew, setBack>>
vars == <<timeVars, sendVars, recvVars, subVars, faults>>

Ids == 1..Len(msgs)
SenderTime == now + skew

Init ==
    /\ now = 0 /\ skew \in Skews /\ setBack = FALSE
    /\ offer = [l \in Loops |-> None]
    /\ npc = "select" /\ lastMsg = None /\ dbMsg = None
    /\ msgs = <<>> /\ published = {}
    /\ seen = None /\ dbSeen = None /\ rpc = "idle" /\ top = None /\ forgot = FALSE
    /\ sub = FALSE /\ chan = <<>> /\ newest = None /\ read = None
    /\ faults = 0

Fault == faults < MaxFaults /\ faults' = faults + 1

-----------------------------------------------------------------------------
(* Time.                                                                   *)

Tick ==
    /\ now < MaxTime
    /\ now' = now + 1
    /\ UNCHANGED <<skew, setBack, sendVars, recvVars, subVars, faults>>

\* The sender's clock is corrected.
SetClock(s) ==
    /\ Fault
    /\ s # skew
    /\ skew' = s
    /\ setBack' = (setBack \/ s < skew)
    /\ UNCHANGED <<now, sendVars, recvVars, subVars>>

-----------------------------------------------------------------------------
(* The sender.                                                             *)

\* The loops that wait in SendMessage.
Waiting == {l \in Loops : offer[l] # None}

\* A loop makes a message, with the time, and waits for processNode.
SendMessage(l) ==
    /\ offer[l] = None
    /\ Len(msgs) + Cardinality(Waiting) < MaxMsgs
    /\ offer' = [offer EXCEPT ![l] = SenderTime]
    /\ UNCHANGED <<timeVars, npc, lastMsg, dbMsg, msgs, published, recvVars, subVars, faults>>

\* The context of the round is cancelled first.
SendCancelled(l) ==
    /\ offer[l] # None
    /\ offer' = [offer EXCEPT ![l] = None]
    /\ UNCHANGED <<timeVars, npc, lastMsg, dbMsg, msgs, published, recvVars, subVars, faults>>

\* A message of a loop with a timestamp is stored, linked to the last one.
Store(ts) == msgs' = Append(msgs, [ts |-> ts, prev |-> lastMsg])

\* Mutant: the message keeps the time at which it was made.
TakeMessageAsMade(l) ==
    /\ npc = "select" /\ offer[l] # None
    /\ offer' = [offer EXCEPT ![l] = None]
    /\ Store(offer[l]) /\ npc' = "stored"
    /\ UNCHANGED <<timeVars, lastMsg, dbMsg, published, recvVars, subVars, faults>>

\* processNode takes the message, and SendMessage returns.  The message gets
\* the time as it is now, and is stored, or storing it fails.
TakeMessage(l) ==
    /\ npc = "select" /\ offer[l] # None
    /\ offer' = [offer EXCEPT ![l] = None]
    /\ \/ Store(SenderTime) /\ npc' = "stored" /\ UNCHANGED faults
       \/ Fault /\ UNCHANGED <<msgs, npc>>
    /\ UNCHANGED <<timeVars, lastMsg, dbMsg, published, recvVars, subVars>>

\* Mutant: the state is not written before the message is published.
WriteStateNever ==
    /\ npc = "stored"
    /\ lastMsg' = Len(msgs)
    /\ npc' = "publish"
    /\ UNCHANGED <<timeVars, offer, dbMsg, msgs, published, recvVars, subVars, faults>>

\* LastMsgRef is set, and the state is written; if that fails the message is not
\* published.
WriteState ==
    /\ npc = "stored"
    /\ lastMsg' = Len(msgs)
    /\ \/ dbMsg' = Len(msgs) /\ npc' = "publish" /\ UNCHANGED faults
       \/ Fault /\ npc' = "select" /\ UNCHANGED dbMsg
    /\ UNCHANGED <<timeVars, offer, msgs, published, recvVars, subVars>>

\* Mutant: processNode does not go on after a message that was not published.
PublishOrEnd ==
    /\ npc = "publish"
    /\ \/ npc' = "select" /\ published' = published \cup {Len(msgs)} /\ UNCHANGED faults
       \/ Fault /\ npc' = "ended" /\ UNCHANGED published
    /\ UNCHANGED <<timeVars, offer, lastMsg, dbMsg, msgs, recvVars, subVars>>

\* PubSubPublish, which may fail.
Publish ==
    /\ npc = "publish"
    /\ npc' = "select"
    /\ \/ published' = published \cup {Len(msgs)} /\ UNCHANGED faults
       \/ Fault /\ UNCHANGED published
    /\ UNCHANGED <<timeVars, offer, lastMsg, dbMsg, msgs, recvVars, subVars>>

\* The sender crashes and starts again: readState.
SenderCrash ==
    /\ Fault
    /\ offer' = [l \in Loops |-> None]
    /\ npc' = "select"
    /\ lastMsg' = dbMsg
    /\ UNCHANGED <<timeVars, dbMsg, msgs, published, recvVars, subVars>>

-----------------------------------------------------------------------------
(* The receiver.                                                           *)

\* The last observed message is not from a later time.
NotOld(id) == seen # None => msgs[seen].ts <= msgs[id].ts

\* The message is not from the future, and not too old.
Timely(id) == msgs[id].ts <= now /\ now - msgs[id].ts <= MaxAge

\* The message is stored as the last observed one, before its time is compared
\* with the clock; an error of the write is logged.
Observe(id) ==
    /\ seen' = id
    /\ \/ dbSeen' = id /\ UNCHANGED faults
       \/ Fault /\ UNCHANGED dbSeen

\* processIncomingNodeMessage for a message that is not dropped as an old one.
\* The handler of a commit may fail to fetch the block, which ends it.
Receive(id) ==
    /\ rpc = "idle"
    /\ id \in published /\ NotOld(id)
    /\ Observe(id)
    /\ \/ ~ Timely(id) /\ UNCHANGED <<rpc, top>>
       \/ Timely(id) /\ top' = id /\ rpc' \in {"idle", "emit"}
    /\ UNCHANGED <<timeVars, sendVars, forgot, subVars>>

\* Mutant: the channel is not bounded.
EmitUnbounded ==
    /\ rpc = "emit" /\ sub
    /\ rpc' = "idle"
    /\ chan' = Append(chan, top) /\ newest' = top
    /\ UNCHANGED <<timeVars, sendVars, seen, dbSeen, top, forgot, sub, read, faults>>

\* emitNextNodeMessage: the message goes into the channel.
Emit ==
    /\ rpc = "emit"
    /\ ~ sub \/ Len(chan) < ChanSize
    /\ rpc' = "idle"
    /\ chan' = IF sub THEN Append(chan, top) ELSE chan
    /\ newest' = IF sub THEN top ELSE newest
    /\ UNCHANGED <<timeVars, sendVars, seen, dbSeen, top, forgot, sub, read, faults>>

\* Mutant: a message that does not fit is dropped.
EmitFullDropsNew ==
    /\ rpc = "emit" /\ sub /\ Len(chan) = ChanSize
    /\ rpc' = "idle" /\ newest' = top
    /\ UNCHANGED <<timeVars, sendVars, seen, dbSeen, top, forgot, sub, chan, read, faults>>

\* The channel is full,
EmitFull ==
    /\ rpc = "emit" /\ sub /\ Len(chan) = ChanSize
    /\ rpc' = "drop"
    /\ UNCHANGED <<timeVars, sendVars, seen, dbSeen, top, forgot, subVars, faults>>

\* and its oldest message is dropped, if it was not emptied in the meantime.
EmitDrop ==
    /\ rpc = "drop"
    /\ rpc' = "emit"
    /\ chan' = IF chan = <<>> THEN chan ELSE Tail(chan)
    /\ UNCHANGED <<timeVars, sendVars, seen, dbSeen, top, forgot, sub, newest, read, faults>>

SubscribeMessages ==
    /\ ~ sub
    /\ sub' = TRUE /\ chan' = <<>> /\ newest' = None /\ read' = None
    /\ UNCHANGED <<timeVars, sendVars, recvVars, faults>>

Read ==
    /\ chan # <<>>
    /\ read' = Head(chan)
    /\ chan' = Tail(chan)
    /\ UNCHANGED <<timeVars, sendVars, recvVars, sub, newest, faults>>

\* Mutant: the state of the peer is not read.
ReceiverCrashUnread ==
    /\ Fault
    /\ seen' = None
    /\ rpc' = "idle"
    /\ sub' = FALSE /\ chan' = <<>> /\ newest' = None /\ read' = None
    /\ UNCHANGED <<timeVars, sendVars, dbSeen, top, forgot>>

\* The receiver crashes and starts again: Peer.readState.
ReceiverCrash ==
    /\ Fault
    /\ seen' = dbSeen
    /\ forgot' = (forgot \/ seen # dbSeen)
    /\ rpc' = "idle"
    /\ sub' = FALSE /\ chan' = <<>> /\ newest' = None /\ read' = None
    /\ UNCHANGED <<timeVars, sendVars, dbSeen, top>>

-----------------------------------------------------------------------------
ProcessNode == WriteState \/ Publish \/ \E l \in Loops : TakeMessage(l)
Next ==
    \/ Tick \/ \E s \in Skews : SetClock(s)
    \/ \E l \in Loops : SendMessage(l) \/ SendCancelled(l)
    \/ ProcessNode \/ SenderCrash
    \/ \E id \in Ids : Receive(id)
    \/ Emit \/ EmitFull \/ EmitDrop
    \/ SubscribeMessages \/ Read \/ ReceiverCrash

Spec == Init /\ [][Next]_vars

\* processNode keeps running, and serves the senders that wait on a channel one
\* after the other; nothing is asked of pub-sub, of the clocks or of the round that
\* would cancel a send.
Fairness ==
    /\ WF_vars(WriteState \/ Publish)
    /\ \A l \in Loops : SF_vars(TakeMessage(l))

FairSpec == Spec /\ Fairness

-----------------------------------------------------------------------------
(* Properties.                                                             *)

\* The type invariant: what is linked to, published, observed or handled is
\* in the object store (node.go:242-278, peer.go:133-187).
TypeOK ==
    /\ now \in 0..MaxTime /\ skew \in Skews
    /\ offer \in [Loops -> Int \cup {None}]
    /\ npc \in {"select", "stored", "publish"}
    /\ msgs \in Seq([ts: Int, prev: Int \cup {None}]) /\ Len(msgs) <= MaxMsgs
    /\ \A i \in Ids : msgs[i].prev \in {None} \cup 1..(i - 1)
    /\ published \subseteq Ids
    /\ {lastMsg, dbMsg} \subseteq Ids \cup {None}
    /\ {seen, dbSeen, top, newest, read} \subseteq published \cup {None}
    /\ rpc \in {"idle", "emit", "drop"} /\ sub \in BOOLEAN
    /\ chan \in Seq(published) /\ Len(chan) <= ChanSize
    /\ faults \in 0..MaxFaults /\ setBack \in BOOLEAN /\ forgot \in BOOLEAN

\* A message leads back to another one by its links: every set that has the
\* first and follows the links has the second.
Closed(S) == \A k \in S : msgs[k].prev # None => msgs[k].prev \in S
LeadsTo(j, i) == \A S \in SUBSET Ids : j \in S /\ Closed(S) => i \in S

\* Every message a node published can be found from any later one by its links,
\* although writes fail and the node crashes between storing, linking and
\* publishing (node.go:242-278).
LinksBack == \A i, j \in published : i < j => LeadsTo(j, i)

\* The messages of a node have timestamps in the order in which they are
\* published, although two goroutines make them and wait for the outbox, and
\* across restarts: in this order a receiver drops none of them as an old one,
\* unless the sender's clock is set back (node.go:149-160, 243-245,
\* peer.go:148-151).
StampsOrdered ==
    setBack \/ \A i, j \in Ids : i < j => msgs[i].ts <= msgs[j].ts

\* No message is handled after a later one, whatever pub-sub repeats or
\* reorders, whatever the clocks do, and across a restart of the receiver,
\* unless it forgets a message it failed to write (peer.go:145-162, 190-199).
HandledInOrder ==
    [][top # None /\ top' # top => msgs[top].ts <= msgs[top'].ts \/ forgot]_vars

\* A subscriber reads messages in the order of their timestamps, and the newest
\* one is not dropped for older ones, although it reads while the channel is
\* emptied for the new message (peer_state.go:21-40).
SubscriptionInOrder ==
    LET unread == IF read = None THEN chan ELSE <<read>> \o chan
    IN  /\ forgot \/ \A i, j \in 1..Len(unread) :
              i < j => msgs[unread[i]].ts <= msgs[unread[j]].ts
        /\ rpc = "idle" /\ newest # None => unread[Len(unread)] = newest

\* A loop that sends a message does not wait for ever, whatever fails on the way
\* of the messages before (node.go:159-164, 336-350).
SendEnds == \A l \in Loops : offer[l] # None ~> offer[l] = None

-----------------------------------------------------------------------------
(* The inductive invariant behind the safety properties, one conjunct per  *)
(* idea.                                                                   *)

\* There is room for the messages the loops have made.
Room == Len(msgs) + Cardinality(Waiting) <= MaxMsgs

\* The sender's state leads back to what was published, in memory and in the
\* database, and so will the message that is stored and not yet linked to.
Linked ==
    /\ npc # "select" => msgs # <<>>
    /\ npc = "stored" => msgs[Len(msgs)].prev = lastMsg
    /\ npc = "publish" => lastMsg = Len(msgs) /\ dbMsg = Len(msgs)
    /\ \A i \in published :
          /\ lastMsg # None /\ LeadsTo(lastMsg, i)
          /\ dbMsg # None /\ LeadsTo(dbMsg, i)

\* No stored message is from a later time than the sender's clock shows.
Stamped == setBack \/ \A i \in Ids : msgs[i].ts <= SenderTime

\* What was handled is not later than what was observed.
Observed == forgot \/ top = None \/ (seen # None /\ msgs[top].ts <= msgs[seen].ts)

\* What is in the channel, or was read from it, is in order and not later than
\* what was handled.
Buffered ==
    /\ chan # <<>> \/ read # None \/ rpc # "idle" => top # None
    /\ forgot \/ \A i, j \in 1..Len(chan) : i < j => msgs[chan[i]].ts <= msgs[chan[j]].ts
    /\ forgot \/ \A i \in 1..Len(chan) : msgs[chan[i]].ts <= msgs[top].ts
    /\ read # None =>
          /\ forgot \/ \A i \in 1..Len(chan) : msgs[read].ts <= msgs[chan[i]].ts
          /\ forgot \/ msgs[read].ts <= msgs[top].ts

\* The newest message of the channel is its last one, or was just read, unless
\* the next one is on its way.
NewestLast ==
    /\ ~ sub => chan = <<>> /\ newest = None
    /\ rpc = "idle" /\ newest # None =>
          IF chan = <<>> THEN read = newest ELSE chan[Len(chan)] = newest

IInv ==
    /\ TypeOK /\ Room /\ Linked /\ LinksBack /\ Stamped /\ StampsOrdered
    /\ Observed /\ Buffered /\ NewestLast
=============================================================================
