--------------------------- MODULE RoundClockProofs ---------------------------
(***************************************************************************)
(* The safety of RoundClock for every length of a round, every period of   *)
(* the timer, every bound and every skew of the clocks.                    *)
(***************************************************************************)
EXTENDS RoundClock, TLAPS

-----------------------------------------------------------------------------
(* Operators.                                                              *)

\* The times of a round are integers (chain.go:744-773).
LEMMA SnapshotOfType ==
    ASSUME NEW b \in Block, NEW n \in Nat, NEW t \in Int
    PROVE  /\ SnapshotOf(b, n, t) \in Snapshot
           /\ SnapshotOf(b, n, t) # NoSnap
           /\ SnapshotOf(b, n, t).height = b.height + 1
           /\ SnapshotOf(b, n, t).round = n
           /\ SnapshotOf(b, n, t).start = b.ts + MinPropose + RoundLength * n
           /\ SnapshotOf(b, n, t).started = (b.ts + MinPropose + RoundLength * n < t)
<1>1. RoundLength * n \in Int /\ RoundLength \in Int /\ MinPropose \in Int
  BY RoundClockAssumption
<1>2. b.height \in Nat /\ b.ts \in Int
  BY DEF Block
<1>3. PICK m \in Int : m = RoundLength * n
  BY <1>1
<1>4. SnapshotOf(b, n, t) =
         [height |-> b.height + 1, round |-> n, start |-> b.ts + MinPropose + m,
          end |-> b.ts + MinPropose + m + RoundLength,
          next |-> b.ts + MinPropose + m + RoundLength + RoundLength,
          started |-> b.ts + MinPropose + m < t]
  BY <1>3 DEF SnapshotOf
<1> QED BY <1>1, <1>2, <1>3, <1>4 DEF Snapshot, NoSnap

\* The round does not go back, and is never negative (chain.go:735-749).
LEMMA RoundAtGrows ==
    ASSUME NEW b \in Block, NEW n \in Nat, NEW t \in Int
    PROVE  RoundAt(b, n, t) \in Nat /\ RoundAt(b, n, t) >= n
<1>1. t - b.ts \in Int
  BY DEF Block
<1>2. (t - b.ts) \div RoundLength \in Int
  BY <1>1, RoundClockAssumption
<1> QED BY <1>2 DEF RoundAt

\* Of four times one comes first.
LEMMA Earliest ==
    ASSUME NEW a \in Int, NEW b \in Int, NEW c \in Int, NEW d \in Int,
           NEW S \in SUBSET {a, b, c, d}, d \in S
    PROVE  \E t \in S : \A u \in S : t <= u
OBVIOUS

\* The next check is later than now, within the period of the timer and no later
\* than the start or the end of the round (chain.go:550-573).
LEMMA NextCheckBounds ==
    ASSUME now \in Int, lastCheck \in Int, snap \in Snapshot
    PROVE  /\ NextCheck \in Int /\ NextCheck > now
           /\ lastCheck <= now + Recheck => NextCheck <= now + Recheck
           /\ snap # NoSnap => \A t \in {snap.start, snap.end} : t > now => NextCheck <= t
<1> DEFINE base  == IF lastCheck > now THEN lastCheck ELSE now + Recheck
           times == IF snap = NoSnap THEN {}
                    ELSE {t \in {snap.start, snap.end, snap.next} : t > now}
           all   == times \cup {base}
<1>1. /\ base \in Int /\ base > now
      /\ lastCheck <= now + Recheck => base <= now + Recheck
  BY RoundClockAssumption
<1>2. snap.start \in Int /\ snap.end \in Int /\ snap.next \in Int
  BY DEF Snapshot
<1> HIDE DEF base
<1>3. all \subseteq {snap.start, snap.end, snap.next, base} /\ base \in all
  OBVIOUS
<1>4. \A t \in all : t \in Int /\ t > now
  BY <1>1, <1>2
<1>5. snap # NoSnap => \A t \in {snap.start, snap.end} : t > now => t \in all
  OBVIOUS
<1>6. NextCheck = CHOOSE t \in all : \A u \in all : t <= u
  BY DEF NextCheck, base
<1> HIDE DEF all
<1>7. \E t \in all : \A u \in all : t <= u
  <2>1. PICK a \in Int, b \in Int, c \in Int, d \in Int :
           a = snap.start /\ b = snap.end /\ c = snap.next /\ d = base
    BY <1>1, <1>2
  <2>2. PICK S \in SUBSET {a, b, c, d} : S = all
    BY <1>3, <2>1
  <2>3. d \in S
    BY <1>3, <2>1, <2>2
  <2> QED BY <2>2, <2>3, Earliest
<1>8. NextCheck \in all /\ \A u \in all : NextCheck <= u
  BY <1>6, <1>7
<1>9. NextCheck \in Int /\ NextCheck > now /\ NextCheck <= base
  BY <1>3, <1>4, <1>8
<1>10. lastCheck <= now + Recheck => NextCheck <= now + Recheck
  BY <1>1, <1>9, RoundClockAssumption
<1> QED BY <1>5, <1>8, <1>9, <1>10

-----------------------------------------------------------------------------
(* The invariant.                                                          *)

\* The process starts with a head it has not looked at (chain.go:507-533).
LEMMA IInvInit == Init => IInv
<1> SUFFICES ASSUME Init PROVE IInv
  OBVIOUS
<1> USE RoundClockAssumption
<1>1. tip \in Block /\ tip.height = 0 /\ tip.ts <= 0
  BY DEF Init, Block
<1>2. NoBlock \in Block /\ NoBlock.height = 0 /\ NoBlock.ts = MaxTime + 1 /\ NoSnap \in Snapshot
  BY DEF NoBlock, NoSnap, Block, Snapshot
<1>3. TypeOK /\ fails \in Nat /\ backs \in Nat
  <2>1. /\ now \in 0..MaxTime /\ seen \in 0..MaxTime /\ lag \in 0..MaxLag /\ lastRound \in Nat
        /\ fails \in Nat /\ backs \in Nat /\ fails + backs \in 0..MaxFaults
        /\ due \in Int /\ lastCheck \in Int
    BY DEF Init
  <2>2. full \in BOOLEAN /\ armed \in BOOLEAN /\ trigger \in BOOLEAN
    BY DEF Init
  <2> QED BY <1>1, <1>2, <2>1, <2>2 DEF Init, TypeOK
<1>4. HeadKnown
  BY <1>1, <1>2 DEF Init, HeadKnown
<1> QED BY <1>3, <1>4 DEF Init, IInv, SnapshotKnown, TimerKnown, WakesInTime

\* A step that touches none of the four relations.
LEMMA Undisturbed ==
    ASSUME IInv, TypeOK', fails' \in Nat, backs' = backs,
           UNCHANGED <<now, tip, head, lastRound, snap, timerVars>>,
           pc' = pc \/ (pc' # "emit" /\ pc' # "wait")
    PROVE  IInv'
<1> USE DEF timerVars
<1>1. HeadKnown'
  BY DEF IInv, HeadKnown
<1>2. SnapshotKnown'
  BY DEF IInv, SnapshotKnown
<1>3. TimerKnown'
  BY DEF IInv, TimerKnown
<1>4. WakesInTime'
  BY DEF IInv, WakesInTime
<1> QED BY <1>1, <1>2, <1>3, <1>4 DEF IInv

\* A block is appended: its height is new (chain.go:617-662).
LEMMA CommitStep ==
    ASSUME IInv, NEW d \in Skews, Commit(d)
    PROVE  IInv'
<1> USE RoundClockAssumption DEF loopVars, timerVars, subVars
<1>1. /\ tip' \in Block /\ tip'.height = tip.height + 1 /\ tip.height \in Nat
      /\ head.height \in Nat /\ head.height <= tip.height
  <2>1. now \in Int /\ d \in Int /\ tip.height \in Nat /\ head.height \in Nat
    BY DEF IInv, TypeOK, Block
  <2> QED BY <2>1 DEF Commit, Block, IInv, HeadKnown
<1>2. fails' \in Nat /\ fails' + backs \in 0..MaxFaults
  BY DEF IInv, TypeOK, Commit
<1>3. TypeOK'
  BY <1>1, <1>2 DEF IInv, TypeOK, Commit
<1>4. HeadKnown'
  BY <1>1 DEF IInv, HeadKnown, Commit, NoBlock
<1>5. SnapshotKnown'
  BY DEF IInv, SnapshotKnown, Commit
<1>6. TimerKnown' /\ WakesInTime'
  BY DEF IInv, TimerKnown, WakesInTime, Commit
<1> QED BY <1>2, <1>3, <1>4, <1>5, <1>6 DEF IInv, Commit

\* Time passes (time.Now, used at chain.go:550 and 714).
LEMMA TickStep == ASSUME IInv, Tick PROVE IInv'
<1> USE RoundClockAssumption DEF loopVars, timerVars, subVars
<1>1. now \in Int /\ now' = now + 1 /\ lastCheck \in Int /\ snap \in Snapshot
  BY DEF IInv, TypeOK, Tick
<1>2. snap.start \in Int /\ snap.end \in Int
  BY <1>1 DEF Snapshot
<1>3. TypeOK'
  <2>1. now' \in 0..MaxTime /\ lag' \in 0..MaxLag
    BY DEF IInv, TypeOK, Tick
  <2> QED BY <2>1 DEF IInv, TypeOK, Tick
<1>4. HeadKnown'
  BY DEF IInv, HeadKnown, Tick
<1>5. SnapshotKnown'
  BY <1>1, <1>2 DEF IInv, SnapshotKnown, Tick
<1>6. TimerKnown'
  BY <1>1 DEF IInv, TimerKnown, Tick
<1>7. WakesInTime'
  <2> SUFFICES ASSUME (pc = "wait" /\ armed /\ backs = 0)', ~ full'
               PROVE  /\ due # None /\ due <= now' + Recheck
                      /\ snap # NoSnap => \A t \in {snap.start, snap.end} : t > now' => due <= t
    BY DEF WakesInTime, Tick
  <2>1. /\ due # None /\ due <= now + Recheck
        /\ snap # NoSnap => \A t \in {snap.start, snap.end} : t > now => due <= t
    BY DEF IInv, WakesInTime, Tick
  <2>2. due \in Int
    BY <2>1 DEF IInv, TypeOK
  <2> QED BY <1>1, <1>2, <2>1, <2>2
<1> QED BY <1>3, <1>4, <1>5, <1>6, <1>7 DEF IInv, Tick

\* The clock is set back, after which nothing is said of the timer.
LEMMA SetBackStep == ASSUME IInv, SetBack PROVE IInv'
<1> USE RoundClockAssumption DEF loopVars, timerVars, subVars
<1>1. /\ backs' \in Nat /\ backs' # 0 /\ fails' \in Nat /\ fails' + backs' \in 0..MaxFaults
  BY DEF IInv, TypeOK, SetBack
<1>2. now' \in 0..MaxTime /\ due' \in Int \cup {None} /\ lastCheck' \in Int
  BY DEF IInv, TypeOK, SetBack
<1>3. TypeOK'
  BY <1>1, <1>2 DEF IInv, TypeOK, SetBack
<1>4. HeadKnown'
  BY DEF IInv, HeadKnown, SetBack
<1>5. SnapshotKnown'
  BY <1>1 DEF IInv, SnapshotKnown, SetBack
<1> QED BY <1>1, <1>3, <1>4, <1>5 DEF IInv, TimerKnown, WakesInTime

\* The timer expires.
LEMMA ExpireStep == ASSUME IInv, Expire PROVE IInv'
<1> USE RoundClockAssumption DEF loopVars, timerVars, subVars
<1>1. TypeOK'
  BY DEF IInv, TypeOK, Expire
<1>2. HeadKnown'
  BY DEF IInv, HeadKnown, Expire
<1>3. SnapshotKnown'
  BY DEF IInv, SnapshotKnown, Expire
<1>4. TimerKnown'
  BY DEF IInv, TimerKnown, Expire
<1>5. WakesInTime'
  BY DEF WakesInTime, Expire
<1> QED BY <1>1, <1>2, <1>3, <1>4, <1>5 DEF IInv, Expire

\* The head is set: either it was the tip, or all snapshots are of blocks below
\* (chain.go:617-662, 714-733).
LEMMA LookStep == ASSUME IInv, Look PROVE IInv'
<1> USE RoundClockAssumption DEF loopVars, timerVars, subVars
<1>1. TypeOK'
  <2>1. seen' \in 0..MaxTime /\ lastRound' \in Nat /\ head' \in Block
        /\ pc' \in {"emit", "schedule"}
    BY DEF IInv, TypeOK, Look
  <2>2. trigger' \in BOOLEAN
    BY DEF IInv, TypeOK, Look
  <2> QED BY <2>1, <2>2 DEF IInv, TypeOK, Look
<1>2. HeadKnown'
  <2>1. tip.height \in Nat
    BY DEF IInv, TypeOK, Block
  <2> QED BY <2>1 DEF IInv, HeadKnown, Look
<1>3. SnapshotKnown'
  <2>1. CASE head = tip
    BY <2>1 DEF IInv, SnapshotKnown, Look
  <2>2. CASE head # tip /\ snap # NoSnap
    <3>1. /\ head.height < tip.height /\ snap.height <= head.height + 1
          /\ head.height \in Nat /\ tip.height \in Nat /\ snap.height \in Nat
      BY <2>2 DEF IInv, HeadKnown, SnapshotKnown, TypeOK, Block, Snapshot
    <3>2. snap.height < tip.height + 1
      BY <3>1
    <3>3. snap.started => snap.start < now \/ backs # 0
      BY <2>2 DEF IInv, SnapshotKnown
    <3> QED BY <3>1, <3>2, <3>3 DEF SnapshotKnown, Look
  <2>3. CASE snap = NoSnap
    BY <2>3 DEF SnapshotKnown, Look
  <2> QED BY <2>1, <2>2, <2>3
<1>4. TimerKnown'
  BY DEF IInv, TimerKnown, Look
<1>5. WakesInTime'
  BY DEF WakesInTime, Look
<1> QED BY <1>1, <1>2, <1>3, <1>4, <1>5 DEF IInv, Look

\* The snapshot is computed (chain.go:735-819).
LEMMA EmitStep == ASSUME IInv, Emit PROVE IInv'
<1> USE RoundClockAssumption DEF loopVars, timerVars, subVars
<1>1. PICK b \in Block, n \in Nat, t \in Int, u \in Int :
         b = head /\ n = lastRound /\ t = seen /\ u = now
  BY DEF IInv, TypeOK
<1>2. PICK m \in Nat : m = RoundAt(b, n, t)
  BY RoundAtGrows
<1>3. lastRound' = m /\ snap' = SnapshotOf(b, m, u)
  BY <1>1, <1>2 DEF Emit
<1>4. /\ snap' \in Snapshot /\ snap'.height = head.height + 1 /\ snap'.round = m
      /\ snap'.start = head.ts + MinPropose + RoundLength * m
      /\ snap'.started = (head.ts + MinPropose + RoundLength * m < now)
  BY <1>1, <1>3, SnapshotOfType
<1>5. TypeOK'
  <2>1. sub' \in Snapshot /\ seen' \in 0..MaxTime
    BY <1>4 DEF IInv, TypeOK, Emit
  <2> QED BY <1>3, <1>4, <2>1 DEF IInv, TypeOK, Emit
<1>6. HeadKnown'
  BY DEF IInv, HeadKnown, Emit
<1>7. SnapshotKnown'
  <2>1. head.height \in Nat /\ now' = now
    BY <1>1 DEF Block, Emit
  <2>2. snap'.started => snap'.start < now
    BY <1>4
  <2>3. head' = head /\ snap'.round <= lastRound' /\ snap'.height <= head'.height + 1
    BY <1>3, <1>4, <2>1 DEF Emit
  <2> QED BY <1>4, <2>1, <2>2, <2>3 DEF SnapshotKnown
<1>8. TimerKnown'
  BY DEF IInv, TimerKnown, Emit
<1>9. WakesInTime'
  BY DEF WakesInTime, Emit
<1> QED BY <1>5, <1>6, <1>7, <1>8, <1>9 DEF IInv, Emit

\* The timer is set, or runs to the right time already (chain.go:550-590).
LEMMA ScheduleStep == ASSUME IInv, Schedule PROVE IInv'
<1> USE DEF loopVars, timerVars, subVars
<1>1. now \in Int /\ lastCheck \in Int /\ snap \in Snapshot
  BY DEF IInv, TypeOK
<1>2. PICK k : k = NextCheck
  OBVIOUS
<1>3. /\ k \in Int /\ k > now
      /\ lastCheck <= now + Recheck => k <= now + Recheck
      /\ snap # NoSnap => \A t \in {snap.start, snap.end} : t > now => k <= t
  BY <1>1, <1>2, NextCheckBounds
<1>4. /\ pc' = "wait" /\ lag' = 0
      /\ \/ k # lastCheck /\ due' = k /\ lastCheck' = k /\ armed' = TRUE /\ full' = (full /\ ~ armed)
         \/ k = lastCheck /\ UNCHANGED timerVars
      /\ UNCHANGED <<now, tip, head, lastRound, snap, seen, trigger, subVars, fails, backs>>
  BY <1>2 DEF Schedule
<1>5. TypeOK'
  <2>1. full' \in BOOLEAN /\ armed' \in BOOLEAN
    BY <1>4, Zenon DEF IInv, TypeOK, timerVars
  <2>2. due' \in Int \cup {None} /\ lastCheck' \in Int /\ lag' \in 0..MaxLag
    BY <1>3, <1>4, RoundClockAssumption DEF IInv, TypeOK
  <2> QED BY <1>4, <2>1, <2>2 DEF IInv, TypeOK
<1>6. HeadKnown'
  BY <1>4 DEF IInv, HeadKnown
<1>7. SnapshotKnown'
  BY <1>4 DEF IInv, SnapshotKnown
<1>8. TimerKnown'
  BY <1>1, <1>3, <1>4, RoundClockAssumption DEF IInv, TimerKnown
<1>9. backs = 0 => due' = k /\ k <= now + Recheck
  BY <1>1, <1>3, <1>4, RoundClockAssumption DEF IInv, TimerKnown
<1>10. WakesInTime'
  BY <1>3, <1>4, <1>9, RoundClockAssumption DEF WakesInTime
<1> QED BY <1>4, <1>5, <1>6, <1>7, <1>8, <1>10 DEF IInv

\* The loop wakes (chain.go:575-590).
LEMMA WakeStep == ASSUME IInv, Wake PROVE IInv'
<1> USE DEF loopVars, timerVars, subVars
<1>1. TypeOK'
  BY DEF IInv, TypeOK, Wake
<1>2. HeadKnown'
  BY DEF IInv, HeadKnown, Wake
<1>3. SnapshotKnown'
  BY DEF IInv, SnapshotKnown, Wake
<1>4. TimerKnown'
  BY DEF IInv, TimerKnown, Wake
<1>5. WakesInTime'
  BY DEF WakesInTime, Wake
<1> QED BY <1>1, <1>2, <1>3, <1>4, <1>5 DEF IInv, Wake

LEMMA IInvNext == IInv /\ [Next]_vars => IInv'
<1> SUFFICES ASSUME IInv, [Next]_vars PROVE IInv'
  OBVIOUS
<1>1. CASE PassFails
  <2>1. fails' \in Nat /\ fails' + backs \in 0..MaxFaults /\ 0 \in 0..MaxTime
    BY <1>1, RoundClockAssumption DEF IInv, TypeOK, PassFails
  <2>2. TypeOK'
    BY <1>1, <2>1 DEF IInv, TypeOK, PassFails, timerVars, subVars
  <2> QED BY <1>1, <2>1, <2>2, Undisturbed DEF PassFails
<1>2. CASE SubscribeRead \/ SubscribeStore
  <2>1. TypeOK'
    BY <1>2 DEF IInv, TypeOK, SubscribeRead, SubscribeStore, loopVars, timerVars
  <2> QED BY <1>2, <2>1, Undisturbed DEF IInv, SubscribeRead, SubscribeStore, loopVars
<1>3. CASE UNCHANGED vars
  <2>1. TypeOK'
    BY <1>3 DEF IInv, TypeOK, vars, loopVars, timerVars, subVars
  <2> QED BY <1>3, <2>1, Undisturbed DEF IInv, vars, loopVars
<1> QED BY <1>1, <1>2, <1>3, CommitStep, TickStep, SetBackStep, ExpireStep, LookStep,
           EmitStep, ScheduleStep, WakeStep DEF Next, Loop

-----------------------------------------------------------------------------
(* The theorems.                                                           *)

\* The invariant of the state loop and its timer (chain.go:507-592, 699-819).
THEOREM Invariance == Spec => []IInv
BY IInvInit, IInvNext, PTL DEF Spec

\* Rounds are never negative (chain.go:714-749).
THEOREM TypeCorrect == Spec => []TypeOK
<1>1. IInv => TypeOK
  BY DEF IInv
<1> QED BY <1>1, Invariance, PTL

\* The loop wakes for the start and the end of every round and within the period
\* of the timer, for every such period and every length of a round
\* (chain.go:550-590).
THEOREM LoopWakesInTime == Spec => []WakesInTime
<1>1. IInv => WakesInTime
  BY DEF IInv
<1> QED BY <1>1, Invariance, PTL

\* For one head the round never goes back, and a round that has started stays so
\* unless the clock was set back (chain.go:744-754).
THEOREM RoundsAdvance == Spec => SnapshotsAdvance
<1> DEFINE Advance == snap # NoSnap /\ snap' # snap =>
              \/ snap'.height > snap.height
              \/ /\ snap'.height = snap.height
                 /\ snap'.round >= snap.round
                 /\ snap'.round = snap.round /\ snap.started => snap'.started \/ backs # 0
<1>1. IInv /\ [Next]_vars => [Advance]_vars
  <2> SUFFICES ASSUME IInv, [Next]_vars, snap # NoSnap, snap' # snap
               PROVE  Advance
    OBVIOUS
  <2>1. Emit
    BY DEF Next, Loop, Commit, Tick, SetBack, Expire, PassFails, Look, Schedule, Wake,
           SubscribeRead, SubscribeStore, vars
  <2>2. PICK b \in Block, n \in Nat, t \in Int, u \in Int :
           b = head /\ n = lastRound /\ t = seen /\ u = now
    BY DEF IInv, TypeOK
  <2>3. PICK m \in Nat : m = RoundAt(b, n, t) /\ m >= n
    BY RoundAtGrows
  <2>4. snap' = SnapshotOf(b, m, u)
    BY <2>1, <2>2, <2>3 DEF Emit
  <2>5. /\ snap'.height = head.height + 1 /\ snap'.round = m
        /\ snap'.start = head.ts + MinPropose + RoundLength * m
        /\ snap'.started = (head.ts + MinPropose + RoundLength * m < now)
    BY <2>2, <2>4, SnapshotOfType
  <2>6. snap.height \in Nat /\ head.height \in Nat /\ snap.round \in Nat
    BY DEF IInv, TypeOK, Snapshot, Block
  <2>7. snap.height <= head.height + 1
    BY DEF IInv, SnapshotKnown
  <2>8. CASE snap.height < head.height + 1
    BY <2>5, <2>6, <2>8
  <2>9. CASE snap.height = head.height + 1
    <3>1. snap.round <= lastRound
          /\ snap.start = head.ts + MinPropose + RoundLength * snap.round
          /\ (snap.started => snap.start < now \/ backs # 0)
      BY <2>9 DEF IInv, SnapshotKnown
    <3>2. snap'.round >= snap.round
      BY <2>2, <2>3, <2>5, <2>6, <3>1
    <3>3. snap'.round = snap.round /\ snap.started => snap'.started \/ backs # 0
      BY <2>5, <3>1
    <3> QED BY <2>5, <2>9, <3>2, <3>3
  <2> QED BY <2>6, <2>7, <2>8, <2>9
<1> QED BY <1>1, Invariance, PTL DEF Spec, SnapshotsAdvance

=============================================================================
