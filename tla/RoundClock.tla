----------------------------- MODULE RoundClock -----------------------------
(***************************************************************************)
(* The clock side of the state loop of chain/chain.go: manageState with    *)
(* its timer, computeEmitSnapshot with the times of a round, and the       *)
(* subscriptions of chain_state.go.  Consensus lets the round move on at   *)
(* any moment; this module has the reasons.                                *)
(*                                                                         *)
(* One pass of the loop reads the clock three times: to find the round     *)
(* (Look), to see whether it has started (Emit) and to set the timer       *)
(* (Schedule).  The chain config and the validator set are fetched in      *)
(* between, so time may pass.  Blocks are their heights and timestamps;    *)
(* which block is next, and how it gets to the head of the state segment,  *)
(* is the subject of ChainSync.                                            *)
(***************************************************************************)
EXTENDS Integers, Sequences, FiniteSets

CONSTANTS
    RoundLength,   \* the length of a round
    MinPropose,    \* MinProposeAfterBlock: when the first round starts
    FirstCheck,    \* the first time of the timer (5 s)
    Recheck,       \* "at minimum every 10s"
    Ages,          \* how old the head may be when the process starts
    Skews,         \* how far the timestamp of a new block is off the clock
    MaxTime,       \* bound: the clock stops here
    MaxHeight,     \* bound: the last block
    MaxLag,        \* bound: how long one pass of the loop takes
    MaxFaults,     \* bound: how many faults there are (see below)
    None           \* no time

ASSUME RoundClockAssumption ==
    /\ RoundLength \in Nat \ {0} /\ MinPropose \in Nat
    /\ FirstCheck \in Nat /\ Recheck \in Nat \ {0} /\ FirstCheck <= Recheck
    /\ Ages \subseteq Nat /\ Skews \subseteq Int
    /\ MaxTime \in Nat /\ MaxHeight \in Nat /\ MaxLag \in Nat
    /\ MaxFaults \in Nat
    /\ None \notin Int

VARIABLES
    now,         \* the clock
    tip,         \* the block at the head of the state segment
    head,        \* lastBlock, the block the loop works on
    lastRound,   \* state.LastRound
    snap,        \* lastStateSnapshot
    pc, seen,    \* the loop: where it is, when it looked at the clock,
    lag,         \*   and how long the pass has taken
    due,         \* when the timer expires, if it runs
    full,        \* whether its channel has a value
    armed,       \* nextCheckCh is set
    lastCheck,   \* lastNextCheckTime
    trigger,     \* recheckStateTrigger has a value
    spc,         \* a subscriber: where SubscribeState is,
    sub,         \*   and the newest snapshot put into its channel
    fails,       \* how many fetches failed, or blocks were ahead of the clock
    backs        \* how often the clock was set back

timerVars == <<due, full, armed, lastCheck>>
subVars   == <<spc, sub>>
loopVars  == <<pc, seen, lag>>
vars == <<now, tip, head, lastRound, snap, loopVars, timerVars, trigger, subVars,
          fails, backs>>

-----------------------------------------------------------------------------
Block    == [height: Nat, ts: Int]
NoBlock  == [height |-> 0, ts |-> MaxTime + 1]
Snapshot == [height: Nat, round: Nat, start: Int, end: Int, next: Int,
             started: BOOLEAN]
NoSnap   == [height |-> 0, round |-> 0, start |-> 0, end |-> 0, next |-> 0,
             started |-> FALSE]

\* The times of a round after a block, and whether it has started.  What is
\* called the start of the next round is the end of it.
SnapshotOf(b, r, t) ==
    LET start == b.ts + MinPropose + RoundLength * r
        end   == start + RoundLength
    IN  [height |-> b.height + 1, round |-> r, start |-> start, end |-> end,
         next |-> end + RoundLength, started |-> start < t]

\* Mutant: the round follows the clock alone.
RoundAtClock(b, r, t) == (t - b.ts) \div RoundLength

\* Mutant: the round does not follow the clock.
RoundStays(b, r, t) == r

\* Mutant: rounds are counted from the end of the first one.
RoundAtPrevious(b, r, t) == (t - b.ts) \div RoundLength - 1

\* The round the clock asks for, but none before the last one.
RoundAt(b, r, t) ==
    LET expected == (t - b.ts) \div RoundLength
    IN  IF expected > r THEN expected ELSE r

Init ==
    /\ now = 0
    /\ \E a \in Ages : tip = [height |-> 0, ts |-> -a]
    /\ head = NoBlock /\ lastRound = 0
    /\ snap = NoSnap
    /\ pc = "look" /\ seen = 0 /\ lag = 0
    /\ due = FirstCheck /\ full = FALSE /\ armed = FALSE
    /\ lastCheck = FirstCheck
    /\ trigger = FALSE
    /\ spc = "none" /\ sub = NoSnap
    /\ fails = 0 /\ backs = 0

-----------------------------------------------------------------------------
(* The environment.                                                        *)

\* A block is appended to the state segment, and the loop is triggered.  Its
\* timestamp is the one of its proposer's clock, which may be fast.
Commit(d) ==
    /\ tip.height < MaxHeight
    /\ \/ d <= 0 /\ UNCHANGED fails
       \/ d > 0 /\ fails + backs < MaxFaults /\ fails' = fails + 1
    /\ tip' = [height |-> tip.height + 1, ts |-> now + d]
    /\ trigger' = TRUE
    /\ UNCHANGED <<now, head, lastRound, snap, loopVars, timerVars, subVars, backs>>

\* Time passes, but not past a timer that expires, and a loop that can go on
\* does so before the bound.
Tick ==
    /\ now < MaxTime
    /\ due # None => now < due
    /\ IF pc = "wait" THEN ~ trigger /\ ~ (armed /\ full) ELSE lag < MaxLag
    /\ now' = now + 1
    /\ lag' = IF pc = "wait" THEN 0 ELSE lag + 1
    /\ UNCHANGED <<tip, head, lastRound, snap, pc, seen, timerVars, trigger, subVars,
                   fails, backs>>

\* The clock is set back.  The timer runs on by the monotonic clock; its time in
\* terms of the clock is earlier.  So is lastNextCheckTime, unless it was taken from
\* a snapshot, whose times have no monotonic reading.
SetBack ==
    /\ fails + backs < MaxFaults /\ now > 0
    /\ now' = now - 1
    /\ due' = IF due = None THEN None ELSE due - 1
    /\ lastCheck' \in {lastCheck - 1, lastCheck}
    /\ backs' = backs + 1
    /\ UNCHANGED <<tip, head, lastRound, snap, loopVars, full, armed, trigger,
                   subVars, fails>>

Expire ==
    /\ due # None /\ due <= now
    /\ due' = None
    /\ full' = TRUE
    /\ UNCHANGED <<now, tip, head, lastRound, snap, loopVars, armed, lastCheck,
                   trigger, subVars, fails, backs>>

-----------------------------------------------------------------------------
(* The loop: manageState.                                                  *)

\* An error ends manageStateOnce; it is logged, and the timer is set.
PassFails ==
    /\ pc \in {"look", "emit"} /\ fails + backs < MaxFaults
    /\ fails' = fails + 1
    /\ pc' = "schedule" /\ seen' = 0
    /\ UNCHANGED <<now, tip, head, lastRound, snap, lag, timerVars, trigger,
                   subVars, backs>>

\* setHeadBlock, when there is a new head, which writes the state and so
\* triggers the loop again; then the time, against the head's timestamp ("last
\* block was in the future").
Look ==
    /\ pc = "look"
    /\ head' = tip
    /\ lastRound' = IF head = tip THEN lastRound ELSE 0
    /\ trigger' = (trigger \/ head # tip)
    /\ \/ tip.ts > now /\ pc' = "schedule" /\ UNCHANGED seen
       \/ tip.ts <= now /\ pc' = "emit" /\ seen' = now
    /\ UNCHANGED <<now, tip, snap, lag, timerVars, subVars, fails, backs>>

\* The snapshot is emitted if it is not the last one.
Emit ==
    /\ pc = "emit"
    /\ LET round == RoundAt(head, lastRound, seen)
       IN  /\ lastRound' = round
           /\ snap' = SnapshotOf(head, round, now)
    /\ seen' = 0
    /\ sub' = IF spc = "stored" /\ snap' # snap THEN snap' ELSE sub
    /\ pc' = "schedule"
    /\ UNCHANGED <<now, tip, head, lag, timerVars, trigger, spc, fails, backs>>

\* Mutant: the start of the round is not looked at.
NextCheckAtEnd ==
    LET base  == IF lastCheck > now THEN lastCheck ELSE now + Recheck
        times == IF snap = NoSnap THEN {} ELSE {t \in {snap.end, snap.next} : t > now}
    IN  CHOOSE t \in times \cup {base} : \A u \in times \cup {base} : t <= u

\* When to check next: at the time that is set, or else in 10 s, or when the
\* round starts or ends, whatever comes first.
NextCheck ==
    LET base  == IF lastCheck > now THEN lastCheck ELSE now + Recheck
        times == IF snap = NoSnap THEN {}
                 ELSE {t \in {snap.start, snap.end, snap.next} : t > now}
    IN  CHOOSE t \in times \cup {base} : \A u \in times \cup {base} : t <= u

\* The timer is reset when the time is another one than before.  The channel of
\* a timer that had expired is drained, if it is known.
Schedule ==
    /\ pc = "schedule"
    /\ pc' = "wait"
    /\ lag' = 0
    /\ \/ /\ NextCheck # lastCheck
          /\ due' = NextCheck /\ lastCheck' = NextCheck
          /\ armed' = TRUE
          /\ full' = (full /\ ~ armed)
       \/ /\ NextCheck = lastCheck
          /\ UNCHANGED timerVars
    /\ UNCHANGED <<now, tip, head, lastRound, snap, seen, trigger, subVars, fails, backs>>

Wake ==
    /\ pc = "wait"
    /\ \/ trigger /\ trigger' = FALSE /\ UNCHANGED full
       \/ armed /\ full /\ full' = FALSE /\ UNCHANGED trigger
    /\ pc' = "look"
    /\ UNCHANGED <<now, tip, head, lastRound, snap, seen, lag, due, armed, lastCheck,
                   subVars, fails, backs>>

-----------------------------------------------------------------------------
(* A subscriber: SubscribeState puts the last snapshot into the channel,     *)
(* and then stores the subscription.  The channel holds one snapshot, and    *)
(* the newest one wins.                                                    *)

SubscribeRead ==
    /\ spc = "none"
    /\ sub' = snap
    /\ spc' = "read"
    /\ UNCHANGED <<now, tip, head, lastRound, snap, loopVars, timerVars, trigger,
                   fails, backs>>

SubscribeStore ==
    /\ spc = "read"
    /\ spc' = "stored"
    /\ UNCHANGED <<now, tip, head, lastRound, snap, loopVars, timerVars, trigger, sub,
                   fails, backs>>

-----------------------------------------------------------------------------
Loop == Look \/ Emit \/ Schedule \/ Wake
Next ==
    \/ \E d \in Skews : Commit(d)
    \/ Tick \/ SetBack \/ Expire
    \/ Loop \/ PassFails
    \/ SubscribeRead \/ SubscribeStore

Spec == Init /\ [][Next]_vars

\* The clock runs, timers expire, and the loop keeps running.
Fairness == WF_vars(Tick \/ Expire \/ Loop)

FairSpec == Spec /\ Fairness

-----------------------------------------------------------------------------
(* Properties.                                                             *)

\* The type invariant: rounds are never negative, as they are unsigned in the
\* code, whatever the clock and the timestamps of blocks (chain.go:714-749).
TypeOK ==
    /\ now \in 0..MaxTime /\ seen \in 0..MaxTime
    /\ tip \in Block /\ head \in Block
    /\ lastRound \in Nat
    /\ snap \in Snapshot /\ sub \in Snapshot
    /\ pc \in {"look", "emit", "schedule", "wait"} /\ lag \in 0..MaxLag
    /\ due \in Int \cup {None} /\ lastCheck \in Int
    /\ full \in BOOLEAN /\ armed \in BOOLEAN /\ trigger \in BOOLEAN
    /\ spc \in {"none", "read", "stored"}
    /\ fails + backs \in 0..MaxFaults

\* What Consensus takes for granted: for one head the round never goes back,
\* even if the clock does, and a round that has started stays so unless the
\* clock is set back (chain.go:744-754).
SnapshotsAdvance ==
    [][snap # NoSnap /\ snap' # snap =>
          \/ snap'.height > snap.height
          \/ /\ snap'.height = snap.height
             /\ snap'.round >= snap.round
             /\ snap'.round = snap.round /\ snap.started => snap'.started \/ backs # 0]_vars

\* The loop never sleeps past the start or the end of the round of its snapshot,
\* or longer than 10 s: the timer runs, or has expired and the loop will see it.
\* It holds once the timer was reset, while the clock is not set back
\* (chain.go:550-590).
WakesInTime ==
    pc = "wait" /\ armed /\ backs = 0 =>
        \/ full
        \/ /\ due # None /\ due <= now + Recheck
           /\ snap # NoSnap => \A t \in {snap.start, snap.end} : t > now => due <= t

Later(a, b) == a.height > b.height \/ (a.height = b.height /\ a.round > b.round)

\* A subscriber gets a snapshot of a later round or height than the last one
\* emitted, although a snapshot emitted while it subscribes is missed, fetches
\* fail and a pass may find that the round it computed is over
\* (chain_state.go:15-24, chain.go:534-592, 699-819).
SubscriberAdvances ==
    \A r \in 0..((MaxTime - Recheck) \div RoundLength), h \in 1..(MaxHeight + 1) :
        LET old == [height |-> h, round |-> r]
        IN  (/\ spc = "stored" /\ snap # NoSnap /\ snap.height = h /\ snap.round = r
             /\ snap.next + Recheck < MaxTime)
            ~> (Later(sub, old) \/ backs # 0)
-----------------------------------------------------------------------------
(* The inductive invariant behind the safety properties.                   *)

\* The head is a block that was the tip, and there is one block of a height.
HeadKnown ==
    /\ head.height <= tip.height
    /\ head.height = tip.height => head \in {tip, NoBlock}
    /\ tip # NoBlock
    /\ pc = "emit" \/ snap # NoSnap => head # NoBlock

\* The snapshot is one of the head or of a block before it, of no later round
\* than the last one; a round that had started is not undone by the clock alone.
SnapshotKnown ==
    snap # NoSnap =>
        /\ snap.height <= head.height + 1
        /\ snap.height = head.height + 1 =>
              /\ snap.round <= lastRound
              /\ snap.start = head.ts + MinPropose + RoundLength * snap.round
        /\ snap.started => snap.start < now \/ backs # 0

\* The timer runs to the time that is noted, or that time has passed.
TimerKnown ==
    backs = 0 =>
        /\ lastCheck <= now + Recheck
        /\ IF due = None THEN lastCheck <= now ELSE due = lastCheck

IInv ==
    /\ TypeOK /\ fails \in Nat /\ backs \in Nat
    /\ HeadKnown /\ SnapshotKnown /\ TimerKnown /\ WakesInTime
=============================================================================
