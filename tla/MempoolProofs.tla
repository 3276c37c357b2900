---------------------------- MODULE MempoolProofs ----------------------------
(***************************************************************************)
(* The safety of Mempool for every set of transactions, every options and  *)
(* every number of calls.                                                  *)
(***************************************************************************)
EXTENDS Mempool, FiniteSetTheorems, TLAPS

Errors == {"nil", "canceled", "deadline", "error"}

\* TypeOK without what it says of single calls,
Base ==
    /\ opts \in Options
    /\ pool \subseteq Txs /\ submitted \subseteq Txs /\ dropped \subseteq Txs
    /\ ctx \in [Calls -> BOOLEAN] /\ over \in [Calls -> BOOLEAN]
    /\ cctx \in [Calls -> {"open", "canceled", "deadline"}]
    /\ mpc \in [Calls -> {"idle", "state", "loop", "apply", "check", "store", "ret"}]
    /\ applied \in [Calls -> Seq(Txs)]
    /\ result \in [Calls -> CallResults]
    /\ cpc \in [Calls -> {"off", "take", "hold", "empty", "done"}]
    /\ rpc \in [Calls -> {"off", "recv", "get", "precheck", "send", "done"}]
    /\ cmax \in [Calls -> Nat]
    /\ errs \in [Calls -> Seq(Errors)]
    /\ chold \in [Calls -> Txs \cup {None}] /\ rhold \in [Calls -> Txs \cup {None}]

\* and all that the invariant says of one.
CallInv(c) ==
    /\ chold[c] # None <=> cpc[c] = "hold"
    /\ rhold[c] # None <=> rpc[c] \in {"get", "precheck", "send"}
    /\ InStep(c) /\ ErrorsFit(c) /\ Counted(c)

\* A call that a step leaves alone.
Same(d) ==
    /\ mpc'[d] = mpc[d] /\ applied'[d] = applied[d] /\ result'[d] = result[d]
    /\ cpc'[d] = cpc[d] /\ chold'[d] = chold[d] /\ cmax'[d] = cmax[d]
    /\ rpc'[d] = rpc[d] /\ rhold'[d] = rhold[d] /\ errs'[d] = errs[d]

\* A step of a call is one of its own state and of the pool.
Local(c) ==
    /\ opts' = opts
    /\ Base'
    /\ CallInv(c)'
    /\ \A d \in Calls \ {c} : Same(d)

-----------------------------------------------------------------------------
(* The parts of a step.                                                    *)

\* The two forms of the invariant.
LEMMA Forms == IInv <=> (Base /\ \A d \in Calls : CallInv(d))
<1>1. IInv => Base /\ \A c \in Calls : CallInv(c)
  BY DEF IInv, TypeOK, Base, CallInv, Errors
<1>2. ASSUME Base, \A c \in Calls : CallInv(c) PROVE IInv
  <2>1. \A c \in Calls : Len(errs[c]) <= 3
    <3> SUFFICES ASSUME NEW c \in Calls PROVE Len(errs[c]) <= 3
      OBVIOUS
    <3>1. Len(errs[c]) \in Nat
      BY <1>2 DEF Base
    <3> QED BY <1>2, <3>1 DEF CallInv, ErrorsFit, Ended
  <2>2. TypeOK
    BY <1>2, <2>1 DEF TypeOK, Base, CallInv, Errors
  <2> QED BY <1>2, <2>2 DEF IInv, CallInv
<1> QED BY <1>1, <1>2

\* The invariant of a call is about its own state.
LEMMA Frame ==
    ASSUME NEW d \in Calls, CallInv(d), Same(d), opts' = opts
    PROVE  CallInv(d)'
<1>1. InStep(d)'
  BY DEF CallInv, Same, InStep
<1>2. ErrorsFit(d)'
  BY DEF CallInv, Same, ErrorsFit, Ended
<1>3. Counted(d)'
  BY DEF CallInv, Same, Counted, OnTheWay
<1> QED BY <1>1, <1>2, <1>3 DEF CallInv, Same

\* Putting transactions back keeps the pool a set of them (mempool.go:48-61).
LEMMA RequeueType ==
    ASSUME Base, NEW S \in SUBSET Txs, Requeue(S)
    PROVE  pool' \subseteq Txs /\ dropped' \subseteq Txs
BY DEF Base, Requeue

\* A return ends the caller's part of the call (proposer.go:109-116).
LEMMA ReturnType ==
    ASSUME Base, NEW c \in Calls, NEW r \in CallResults, Return(c, r)
    PROVE  /\ mpc' \in [Calls -> {"idle", "state", "loop", "apply", "check", "store", "ret"}]
           /\ result' \in [Calls -> CallResults]
           /\ cctx' \in [Calls -> {"open", "canceled", "deadline"}]
           /\ errs' \in [Calls -> Seq(Errors)]
           /\ mpc'[c] = "ret" /\ result'[c] = r /\ errs'[c] = <<>>
           /\ \A d \in Calls \ {c} :
                 mpc'[d] = mpc[d] /\ result'[d] = result[d] /\ errs'[d] = errs[d]
<1>1. errs' \in [Calls -> Seq(Errors)]
  BY DEF Base, Return
<1>2. cctx' \in [Calls -> {"open", "canceled", "deadline"}]
  BY DEF Base, Return, Done
<1> QED BY <1>1, <1>2 DEF Base, Return

\* An error that is sent makes the channel longer by at most one.
LEMMA SendErrorType ==
    ASSUME Base, NEW c \in Calls, NEW e \in Errors, SendError(c, e)
    PROVE  /\ errs' \in [Calls -> Seq(Errors)]
           /\ Len(errs[c]) \in Nat /\ Len(errs'[c]) \in Nat
           /\ Len(errs'[c]) <= Len(errs[c]) + 1
           /\ \A d \in Calls \ {c} : errs'[d] = errs[d]
<1>1. errs[c] \in Seq(Errors)
  BY DEF Base
<1>2. /\ Append(errs[c], e) \in Seq(Errors) /\ Len(Append(errs[c], e)) = Len(errs[c]) + 1
      /\ Len(errs[c]) \in Nat
  BY <1>1
<1>3. CASE mpc[c] = "ret"
  <2>1. errs' = [errs EXCEPT ![c] = errs[c]]
    BY <1>3 DEF SendError
  <2> QED BY <1>1, <1>2, <2>1 DEF Base
<1>4. CASE mpc[c] # "ret"
  <2>1. errs' = [errs EXCEPT ![c] = Append(errs[c], e)]
    BY <1>4 DEF SendError
  <2> QED BY <1>1, <1>2, <2>1 DEF Base
<1> QED BY <1>3, <1>4

-----------------------------------------------------------------------------
(* One lemma per kind of step of a call.                                   *)

\* The numbers a call counts with.
LEMMA Numbers ==
    ASSUME Base, NEW c \in Calls
    PROVE  /\ opts.max \in Nat /\ opts.min \in Nat
           /\ Len(applied[c]) \in Nat /\ cmax[c] \in Nat /\ Len(errs[c]) \in Nat
           /\ applied[c] \in Seq(Txs) /\ errs[c] \in Seq(Errors)
<1>1. opts \in [deadline: 0..100, wait: 0..100, min: Nat, max: Nat]
  BY MempoolAssumption DEF Base
<1>2. applied[c] \in Seq(Txs) /\ errs[c] \in Seq(Errors) /\ cmax[c] \in Nat
  BY DEF Base
<1> QED BY <1>1, <1>2

\* The maximum is kept as long as nothing is added to what the call has applied,
\* and the collector has not begun again.
LEMMA CountedStays ==
    ASSUME Base, NEW c \in Calls, Counted(c), opts' = opts, cmax'[c] = cmax[c],
           Len(applied'[c]) \in Nat, Len(applied'[c]) <= Len(applied[c]),
           rhold'[c] = rhold[c] \/ rhold'[c] = None,
           cpc'[c] \in {"take", "hold", "empty"} => cpc[c] \in {"take", "hold", "empty"}
    PROVE  Counted(c)'
<1> DEFINE n == OnTheWay(c)
           m == OnTheWay(c)'
<1>1. n \in {0, 1} /\ m \in {0, 1} /\ m <= n
  BY DEF OnTheWay
<1>2. opts.max # 0 => /\ cpc[c] \in {"take", "hold", "empty"} => cmax[c] >= 1
                      /\ Len(applied[c]) + n + cmax[c] <= opts.max
  BY DEF Counted
<1>3. opts.max \in Nat /\ Len(applied[c]) \in Nat /\ cmax[c] \in Nat
  BY Numbers
<1> HIDE DEF n, m
<1>4. opts.max # 0 => Len(applied'[c]) + m + cmax[c] <= opts.max
  BY <1>1, <1>2, <1>3
<1> QED BY <1>2, <1>4 DEF Counted, m

\* The call and its collector begin (proposer.go:109-134).
LEMMA ProposeBlockStep ==
    ASSUME Base, NEW c \in Calls, CallInv(c), ProposeBlock(c)
    PROVE  Local(c)
<1> USE DEF timeVars, mainVars, collectorVars, resolverVars
<1>1. cctx' \in [Calls -> {"open", "canceled", "deadline"}]
  BY DEF Base, ProposeBlock, Done
<1>2. Base'
  BY <1>1, Numbers DEF Base, ProposeBlock
<1>3. /\ mpc[c] = "idle" /\ mpc'[c] = "state" /\ cpc'[c] = "take" /\ cmax'[c] = opts.max
      /\ opts' = opts /\ errs' = errs /\ applied' = applied /\ result' = result
      /\ chold' = chold /\ rpc' = rpc /\ rhold' = rhold
  BY DEF Base, ProposeBlock
<1>4. cpc[c] = "off" /\ rpc[c] = "off" /\ applied[c] = <<>> /\ rhold[c] = None /\ chold[c] = None
  BY <1>3 DEF CallInv, InStep
<1>5. InStep(c)'
  BY <1>3, <1>4 DEF CallInv, InStep
<1>6. ErrorsFit(c)'
  BY <1>3, <1>4 DEF CallInv, ErrorsFit, Ended
<1>7. Counted(c)'
  BY <1>3, <1>4, Numbers DEF Counted, OnTheWay
<1>8. \A d \in Calls \ {c} : Same(d)
  BY DEF Base, ProposeBlock, Same
<1> QED BY <1>2, <1>3, <1>4, <1>5, <1>6, <1>7, <1>8 DEF Local, CallInv

\* The caller goes on to another place of its loop.
LEMMA CallerMoves ==
    ASSUME Base, NEW c \in Calls, CallInv(c), Base',
           \A d \in Calls \ {c} : Same(d),
           opts' = opts, mpc[c] \notin {"idle", "ret"}, mpc'[c] \notin {"idle", "state", "ret"},
           UNCHANGED <<cpc, chold, cmax, rhold, result>>,
           rpc'[c] = rpc[c] \/ (rpc[c] \in {"off", "recv"} /\ rpc'[c] = "recv"),
           Len(errs'[c]) <= Len(errs[c]),
           Len(applied'[c]) <= Len(applied[c]),
           mpc'[c] = "apply" => applied'[c] # <<>>,
           mpc'[c] = "store" => Len(applied'[c]) >= opts.min
    PROVE  Local(c)
<1>0. /\ Len(applied'[c]) \in Nat /\ Len(errs'[c]) \in Nat
      /\ opts.max \in Nat /\ Len(applied[c]) \in Nat /\ cmax[c] \in Nat /\ Len(errs[c]) \in Nat
  <2>1. Len(applied'[c]) \in Nat /\ Len(errs'[c]) \in Nat
    BY DEF Base
  <2> QED BY <2>1, Numbers
<1>1. InStep(c)'
  BY DEF CallInv, InStep
<1>2. ErrorsFit(c)'
  BY <1>0 DEF CallInv, ErrorsFit, Ended
<1>3. Counted(c)'
  BY <1>0, CountedStays DEF CallInv
<1> QED BY <1>1, <1>2, <1>3 DEF Local, CallInv

\* The call returns; what it applied stays with it, or was put back
\* (proposer.go:136-246).
LEMMA CallerReturns ==
    ASSUME Base, NEW c \in Calls, CallInv(c), NEW r \in CallResults, Return(c, r),
           pool' \subseteq Txs, dropped' \subseteq Txs, mpc[c] # "idle",
           applied' = applied \/ applied' = [applied EXCEPT ![c] = <<>>],
           r = "proposed" => applied' = applied /\ mpc[c] = "store",
           UNCHANGED <<timeVars, collectorVars, resolverVars, submitted>>
    PROVE  Local(c)
<1> USE DEF timeVars, collectorVars, resolverVars
<1>1. /\ mpc'[c] = "ret" /\ result'[c] = r /\ errs'[c] = <<>>
      /\ \A d \in Calls \ {c} :
            mpc'[d] = mpc[d] /\ result'[d] = result[d] /\ errs'[d] = errs[d]
  BY ReturnType
<1>2. applied' \in [Calls -> Seq(Txs)] /\ \A d \in Calls \ {c} : applied'[d] = applied[d]
  <2>1. <<>> \in Seq(Txs) /\ applied \in [Calls -> Seq(Txs)]
    BY DEF Base
  <2>2. CASE applied' = applied
    BY <2>1, <2>2
  <2>3. CASE applied' = [applied EXCEPT ![c] = <<>>]
    BY <2>1, <2>3
  <2> QED BY <2>2, <2>3
<1>3. Base'
  BY <1>2, ReturnType DEF Base
<1>4. applied'[c] = applied[c] \/ applied'[c] = <<>>
  BY DEF Base
<1>5. Len(applied'[c]) <= Len(applied[c]) /\ Len(applied'[c]) \in Nat
  BY <1>4, Numbers
<1>6. InStep(c)'
  BY <1>1 DEF CallInv, InStep
<1>7. ErrorsFit(c)'
  BY <1>1 DEF ErrorsFit, Ended
<1>8. Counted(c)'
  BY <1>5, CountedStays DEF CallInv
<1>9. \A d \in Calls \ {c} : Same(d)
  BY <1>1, <1>2 DEF Same
<1> QED BY <1>3, <1>6, <1>7, <1>8, <1>9 DEF Local, CallInv

\* The same with requeueTxs before it.
LEMMA CallerRequeues ==
    ASSUME Base, NEW c \in Calls, CallInv(c), NEW r \in CallResults \ {"proposed"},
           RequeueAndReturn(c, r), mpc[c] # "idle",
           UNCHANGED <<timeVars, collectorVars, resolverVars, submitted>>
    PROVE  Local(c)
<1>1. Range(applied[c]) \in SUBSET Txs
  BY Numbers DEF Range
<1>2. pool' \subseteq Txs /\ dropped' \subseteq Txs
  BY <1>1, RequeueType DEF RequeueAndReturn
<1> QED BY <1>2, CallerReturns DEF RequeueAndReturn

\* The application has a state for the parent block or not (proposer.go:136-142).
LEMMA GetStateAtBlockStep ==
    ASSUME Base, NEW c \in Calls, CallInv(c), GetStateAtBlock(c)
    PROVE  Local(c)
<1> USE DEF timeVars, mainVars, collectorVars, resolverVars
<1>1. mpc[c] = "state"
  BY DEF GetStateAtBlock
<1>2. CASE /\ mpc' = [mpc EXCEPT ![c] = "loop"]
           /\ rpc' = [rpc EXCEPT ![c] = "recv"]
           /\ UNCHANGED <<cctx, errs, result>>
  <2>1. Base' /\ \A d \in Calls \ {c} : Same(d)
    BY <1>2 DEF Base, GetStateAtBlock, Same
  <2>2. rpc[c] = "off" /\ mpc'[c] = "loop" /\ rpc'[c] = "recv"
    BY <1>1, <1>2 DEF Base, CallInv, InStep
  <2> QED BY <1>1, <1>2, <2>1, <2>2, Numbers, CallerMoves DEF GetStateAtBlock
<1>3. CASE Return(c, "error") /\ UNCHANGED rpc
  BY <1>1, <1>3, CallerReturns DEF Base, GetStateAtBlock, CallResults
<1> QED BY <1>2, <1>3 DEF GetStateAtBlock

\* The caller reads an error (proposer.go:177-190).
LEMMA LoopErrorStep ==
    ASSUME Base, NEW c \in Calls, CallInv(c), LoopError(c)
    PROVE  Local(c)
<1> USE DEF timeVars, mainVars, collectorVars, resolverVars
<1> DEFINE err == Head(errs[c])
<1>1. mpc[c] = "loop" /\ errs[c] \in Seq(Errors) /\ errs[c] # <<>>
  BY DEF Base, LoopError
<1>2. /\ err \in Errors /\ Tail(errs[c]) \in Seq(Errors)
      /\ Len(Tail(errs[c])) <= Len(errs[c])
  BY <1>1
<1> HIDE DEF err
<1>3. CASE /\ err = "nil" /\ errs' = [errs EXCEPT ![c] = Tail(errs[c])]
           /\ UNCHANGED <<mainVars, cctx, pool, dropped>>
  <2>1. Base' /\ errs'[c] = Tail(errs[c]) /\ \A d \in Calls \ {c} : Same(d)
    BY <1>2, <1>3 DEF Base, LoopError, Same
  <2> QED BY <1>1, <1>2, <1>3, <2>1, Numbers, CallerMoves DEF LoopError
<1>4. CASE /\ err = "canceled" /\ Return(c, "abstain")
           /\ UNCHANGED <<applied, pool, dropped>>
  BY <1>1, <1>4, CallerReturns DEF Base, LoopError, CallResults
<1>5. CASE err # "nil" /\ RequeueAndReturn(c, err)
  <2>1. err \in CallResults \ {"proposed"}
    BY <1>2, <1>5 DEF CallResults, Errors
  <2> QED BY <1>1, <1>5, <2>1, CallerRequeues DEF LoopError
<1> QED BY <1>3, <1>4, <1>5 DEF LoopError, err

\* The context of the call is cancelled (proposer.go:175-176).
LEMMA LoopCancelledStep ==
    ASSUME Base, NEW c \in Calls, CallInv(c), LoopCancelled(c)
    PROVE  Local(c)
BY CallerRequeues DEF LoopCancelled, CallResults

\* The channel of the resolver is closed (proposer.go:191-194).
LEMMA LoopClosedStep ==
    ASSUME Base, NEW c \in Calls, CallInv(c), LoopClosed(c)
    PROVE  Local(c)
<1> USE DEF timeVars, collectorVars, resolverVars
<1>1. Base' /\ mpc'[c] = "check" /\ \A d \in Calls \ {c} : Same(d)
  BY DEF Base, LoopClosed, Same
<1> QED BY <1>1, Numbers, CallerMoves DEF LoopClosed

\* What Append and SubSeq do to the list of the applied transactions.
LEMMA AppliedFacts ==
    ASSUME Base, NEW c \in Calls, NEW t \in Txs
    PROVE  /\ Append(applied[c], t) \in Seq(Txs)
           /\ Append(applied[c], t) # <<>>
           /\ Len(Append(applied[c], t)) = Len(applied[c]) + 1
           /\ applied[c] # <<>> =>
                /\ SubSeq(applied[c], 1, Len(applied[c]) - 1) \in Seq(Txs)
                /\ Len(SubSeq(applied[c], 1, Len(applied[c]) - 1)) = Len(applied[c]) - 1
                /\ applied[c][Len(applied[c])] \in Txs
<1>1. applied[c] \in Seq(Txs) /\ Len(applied[c]) \in Nat
  BY Numbers
<1>2. applied[c] # <<>> => Len(applied[c]) >= 1
  BY <1>1
<1> QED BY <1>1, <1>2

\* The caller takes a transaction: it was counted before (proposer.go:191-201).
LEMMA LoopReceiveStep ==
    ASSUME Base, NEW c \in Calls, CallInv(c), LoopReceive(c)
    PROVE  Local(c)
<1> USE DEF timeVars, collectorVars, resolverVars
<1>0. rpc[c] = "send" /\ rhold[c] # None /\ rhold[c] \in Txs
  BY DEF Base, LoopReceive, CallInv
<1>1. PICK t \in Txs : t = rhold[c]
  BY <1>0
<1>2. PICK s : s = Append(applied[c], t)
  OBVIOUS
<1>3. s \in Seq(Txs) /\ s # <<>> /\ Len(s) = Len(applied[c]) + 1
  BY <1>2, AppliedFacts
<1>4. applied' = [applied EXCEPT ![c] = s]
  BY <1>1, <1>2 DEF LoopReceive
<1>5. Base'
  BY <1>3, <1>4 DEF Base, LoopReceive
<1>6. \A d \in Calls \ {c} : Same(d)
  BY <1>4 DEF Base, LoopReceive, Same
<1>7. /\ mpc[c] = "loop" /\ mpc'[c] = "apply" /\ rpc'[c] = "recv" /\ rhold'[c] = None
      /\ applied'[c] = s /\ opts' = opts /\ errs' = errs /\ result' = result
      /\ cpc' = cpc /\ chold' = chold /\ cmax' = cmax
  BY <1>4 DEF Base, LoopReceive
<1>8. InStep(c)'
  BY <1>3, <1>7 DEF CallInv, InStep, CallResults
<1>9. ErrorsFit(c)'
  BY <1>0, <1>7, Numbers DEF CallInv, ErrorsFit, Ended
<1>10. Counted(c)'
  BY <1>0, <1>3, <1>7, Numbers DEF CallInv, Counted, OnTheWay
<1> QED BY <1>5, <1>6, <1>7, <1>8, <1>9, <1>10 DEF Local, CallInv

\* The transaction is applied, refused, or the call ends (proposer.go:196-225).
LEMMA ApplyStep ==
    ASSUME Base, NEW c \in Calls, CallInv(c), Apply(c)
    PROVE  Local(c)
<1> USE DEF timeVars, collectorVars, resolverVars
<1>0. mpc[c] = "apply" /\ applied[c] # <<>>
  BY DEF Apply, CallInv, InStep
<1>1. CASE /\ mpc' = [mpc EXCEPT ![c] = IF Enough(c) THEN "check" ELSE "loop"]
           /\ UNCHANGED <<applied, result, cctx, errs, pool, dropped>>
  <2>0. PICK pc \in {"check", "loop"} : mpc' = [mpc EXCEPT ![c] = pc]
    BY <1>1
  <2>1. Base' /\ mpc'[c] = pc /\ \A d \in Calls \ {c} : Same(d)
    BY <1>1, <2>0 DEF Base, Apply, Same
  <2> QED BY <1>0, <1>1, <2>0, <2>1, Numbers, CallerMoves DEF Apply
<1>2. CASE /\ mpc' = [mpc EXCEPT ![c] = "loop"]
           /\ applied' = [applied EXCEPT ![c] = SubSeq(applied[c], 1, Len(applied[c]) - 1)]
           /\ dropped' = dropped \cup {applied[c][Len(applied[c])]}
           /\ UNCHANGED <<result, cctx, errs, pool>>
  <2>1. PICK s : s = SubSeq(applied[c], 1, Len(applied[c]) - 1)
    OBVIOUS
  <2>2. PICK t : t = applied[c][Len(applied[c])]
    OBVIOUS
  <2>3. Txs # {}
    BY <1>0, Numbers
  <2>4. s \in Seq(Txs) /\ Len(s) = Len(applied[c]) - 1 /\ t \in Txs
    BY <1>0, <2>1, <2>2, <2>3, AppliedFacts
  <2>5. applied' = [applied EXCEPT ![c] = s] /\ dropped' = dropped \cup {t}
    BY <1>2, <2>1, <2>2
  <2>6. /\ mpc' = [mpc EXCEPT ![c] = "loop"] /\ UNCHANGED <<result, cctx, errs, pool>>
        /\ UNCHANGED <<timeVars, collectorVars, resolverVars, submitted>>
    BY <1>2 DEF Apply
  <2>7. Base' /\ applied'[c] = s /\ mpc'[c] = "loop"
    BY <2>4, <2>5, <2>6 DEF Base
  <2>8. \A d \in Calls \ {c} : Same(d)
    BY <2>5, <2>6 DEF Base, Same
  <2> QED BY <1>0, <2>4, <2>6, <2>7, <2>8, Numbers, CallerMoves
<1>3. CASE RequeueAndReturn(c, "error")
  BY <1>0, <1>3, CallerRequeues DEF Apply, CallResults
<1> QED BY <1>1, <1>2, <1>3 DEF Apply

\* The checks after the loop (proposer.go:227-246).
LEMMA AfterLoopStep ==
    ASSUME Base, NEW c \in Calls, CallInv(c), AfterLoop(c)
    PROVE  Local(c)
<1> USE DEF timeVars, collectorVars, resolverVars
<1> DEFINE err == IF errs[c] = <<>> THEN "nil" ELSE Head(errs[c])
           rest == IF errs[c] = <<>> THEN errs[c] ELSE Tail(errs[c])
<1>1. mpc[c] = "check" /\ errs[c] \in Seq(Errors)
  BY DEF Base, AfterLoop
<1>2. err \in Errors
  BY <1>1 DEF Errors
<1>3. rest \in Seq(Errors) /\ Len(rest) <= Len(errs[c])
  BY <1>1
<1> HIDE DEF err, rest
<1>4. CASE err # "nil" /\ Return(c, err) /\ UNCHANGED <<applied, pool, dropped>>
  <2>1. err \in CallResults \ {"proposed"}
    BY <1>2, <1>4 DEF CallResults, Errors
  <2> QED BY <1>1, <1>4, <2>1, CallerReturns DEF Base, AfterLoop
<1>5. CASE RequeueAndReturn(c, "abstain")
  BY <1>1, <1>5, CallerRequeues DEF AfterLoop, CallResults
<1>6. CASE /\ Len(applied[c]) >= opts.min
           /\ mpc' = [mpc EXCEPT ![c] = "store"]
           /\ errs' = [errs EXCEPT ![c] = rest]
           /\ UNCHANGED <<applied, result, cctx, pool, dropped>>
  <2>1. Base' /\ errs'[c] = rest /\ mpc'[c] = "store" /\ \A d \in Calls \ {c} : Same(d)
    BY <1>3, <1>6 DEF Base, AfterLoop, Same
  <2> QED BY <1>1, <1>3, <1>6, <2>1, Numbers, CallerMoves DEF AfterLoop
<1> QED BY <1>4, <1>5, <1>6 DEF AfterLoop, err, rest

\* The proposal is stored, or not (proposer.go:248-289).
LEMMA StoreProposalStep ==
    ASSUME Base, NEW c \in Calls, CallInv(c), StoreProposal(c)
    PROVE  Local(c)
<1>1. CASE Return(c, "proposed") /\ UNCHANGED <<applied, pool, dropped>>
  BY <1>1, CallerReturns DEF Base, StoreProposal, CallResults
<1>2. CASE RequeueAndReturn(c, "error")
  BY <1>2, CallerRequeues DEF StoreProposal, CallResults
<1> QED BY <1>1, <1>2 DEF StoreProposal

-----------------------------------------------------------------------------
(* The collector and the resolver.                                         *)

\* A goroutine that runs goes on; the caller's does not.
LEMMA GoroutineMoves ==
    ASSUME Base, NEW c \in Calls, CallInv(c), Base',
           \A d \in Calls \ {c} : Same(d),
           opts' = opts, UNCHANGED mainVars,
           cpc'[c] = cpc[c] \/ cpc[c] # "off",
           rpc'[c] = rpc[c] \/ rpc[c] # "off",
           chold'[c] # None <=> cpc'[c] = "hold",
           rhold'[c] # None <=> rpc'[c] \in {"get", "precheck", "send"},
           ErrorsFit(c)', Counted(c)'
    PROVE  Local(c)
<1>1. InStep(c)'
  BY DEF CallInv, InStep, mainVars
<1> QED BY <1>1 DEF Local, CallInv

\* A transaction is taken out of the pool, the pool is empty, or the orderer
\* fails (mempool.go:87-98).
LEMMA DequeueStep ==
    ASSUME Base, NEW c \in Calls, CallInv(c), Dequeue(c)
    PROVE  Local(c)
<1> USE DEF timeVars, mainVars, collectorVars, resolverVars
<1>1. /\ cpc[c] = "take" /\ UNCHANGED <<opts, ctx, over, cctx, mpc, applied, result, cmax,
                                        rpc, rhold, submitted, dropped>>
  BY DEF Dequeue
<1>2. PICK pc \in {"hold", "empty", "done"} :
         /\ cpc' = [cpc EXCEPT ![c] = pc]
         /\ pool' \subseteq pool
         /\ chold' \in [Calls -> Txs \cup {None}]
         /\ chold'[c] # None <=> pc = "hold"
         /\ \A d \in Calls \ {c} : chold'[d] = chold[d]
         /\ errs' = errs \/ (pc = "done" /\ SendError(c, "error"))
  <2>1. CASE \E t \in Minima :
                /\ pool' = pool \ {t}
                /\ chold' = [chold EXCEPT ![c] = t]
                /\ cpc' = [cpc EXCEPT ![c] = "hold"]
                /\ UNCHANGED errs
    BY <2>1, MempoolAssumption DEF Base, Minima
  <2>2. CASE pool = {} /\ cpc' = [cpc EXCEPT ![c] = "empty"] /\ UNCHANGED <<pool, chold, errs>>
    BY <1>1, <2>2 DEF Base, CallInv
  <2>3. CASE CollectorReturn(c, "error") /\ UNCHANGED pool
    BY <2>3 DEF Base, CollectorReturn
  <2> QED BY <2>1, <2>2, <2>3 DEF Dequeue
<1>3. /\ errs' \in [Calls -> Seq(Errors)] /\ Len(errs'[c]) \in Nat
      /\ Len(errs'[c]) <= Len(errs[c]) + (IF pc = "done" THEN 1 ELSE 0)
      /\ \A d \in Calls \ {c} : errs'[d] = errs[d]
  <2>1. CASE errs' = errs
    BY <2>1, Numbers DEF Base
  <2>2. CASE pc = "done" /\ SendError(c, "error")
    <3>1. "error" \in Errors
      BY DEF Errors
    <3> QED BY <2>2, <3>1, SendErrorType
  <2> QED BY <1>2, <2>1, <2>2
<1>4. Base' /\ cpc'[c] = pc
  BY <1>1, <1>2, <1>3 DEF Base
<1>5. \A d \in Calls \ {c} : Same(d)
  BY <1>1, <1>2, <1>3 DEF Base, Same
<1>6. ErrorsFit(c)'
  <2>1. /\ Ended(cpc[c]) = 0 /\ Ended(cpc'[c]) = IF pc = "done" THEN 1 ELSE 0
        /\ Ended(rpc'[c]) = Ended(rpc[c]) /\ Ended(rpc[c]) \in {0, 1}
    BY <1>1, <1>4 DEF Ended
  <2>2. Len(errs[c]) <= Ended(cpc[c]) + Ended(rpc[c])
    BY DEF CallInv, ErrorsFit
  <2>3. CASE pc = "done"
    BY <1>3, <2>1, <2>2, <2>3, Numbers DEF ErrorsFit
  <2>4. CASE pc # "done"
    BY <1>3, <2>1, <2>2, <2>4, Numbers DEF ErrorsFit
  <2> QED BY <2>3, <2>4
<1>7. Counted(c)'
  BY <1>1, <1>4, Numbers, CountedStays DEF CallInv
<1> QED BY <1>1, <1>2, <1>4, <1>5, <1>6, <1>7, GoroutineMoves DEF CallInv

\* A transaction is handed on, and counted (mempool.go:99-108).
LEMMA CollectStep ==
    ASSUME Base, NEW c \in Calls, CallInv(c), Collect(c)
    PROVE  Local(c)
<1> USE DEF timeVars, mainVars, collectorVars, resolverVars
<1>1. /\ cpc[c] = "hold" /\ rpc[c] = "recv" /\ rpc'[c] = "get"
      /\ rhold'[c] = chold[c] /\ chold[c] \in Txs /\ rhold[c] = None
      /\ rhold' \in [Calls -> Txs \cup {None}] /\ rpc' = [rpc EXCEPT ![c] = "get"]
      /\ \A d \in Calls \ {c} : rhold'[d] = rhold[d]
      /\ UNCHANGED <<opts, ctx, over, pool, cctx, mpc, applied, result, submitted, dropped>>
  <2>1. /\ cpc[c] = "hold" /\ rpc[c] = "recv" /\ rpc' = [rpc EXCEPT ![c] = "get"]
        /\ rhold' = [rhold EXCEPT ![c] = chold[c]]
        /\ UNCHANGED <<opts, ctx, over, pool, cctx, mpc, applied, result, submitted, dropped>>
    BY DEF Collect
  <2>2. /\ chold[c] \in Txs \cup {None} /\ chold[c] # None /\ rhold[c] = None
        /\ rhold \in [Calls -> Txs \cup {None}] /\ rpc'[c] = "get"
    BY <2>1 DEF Base, CallInv
  <2> QED BY <2>1, <2>2
<1>2. /\ cmax' \in [Calls -> Nat] /\ cmax'[c] = IF cmax[c] = 0 THEN 0 ELSE cmax[c] - 1
      /\ \A d \in Calls \ {c} : cmax'[d] = cmax[d]
  BY DEF Base, Collect
<1>3. PICK pc \in {"take", "done"} :
         /\ cpc' = [cpc EXCEPT ![c] = pc]
         /\ chold' = [chold EXCEPT ![c] = None]
         /\ \/ pc = "done" /\ cmax[c] = 1 /\ SendError(c, "nil")
            \/ pc = "take" /\ cmax[c] # 1 /\ errs' = errs
  BY DEF Collect, CollectorReturn
<1>4. /\ errs' \in [Calls -> Seq(Errors)] /\ Len(errs'[c]) \in Nat
      /\ Len(errs'[c]) <= Len(errs[c]) + (IF pc = "done" THEN 1 ELSE 0)
      /\ \A d \in Calls \ {c} : errs'[d] = errs[d]
  <2>1. CASE errs' = errs
    BY <2>1, Numbers DEF Base
  <2>2. CASE pc = "done" /\ SendError(c, "nil")
    <3>1. "nil" \in Errors
      BY DEF Errors
    <3> QED BY <2>2, <3>1, SendErrorType
  <2> QED BY <1>3, <2>1, <2>2
<1>5. Base' /\ cpc'[c] = pc /\ chold'[c] = None
  BY <1>1, <1>2, <1>3, <1>4 DEF Base
<1>6. \A d \in Calls \ {c} : Same(d)
  BY <1>1, <1>2, <1>3, <1>4 DEF Base, Same
<1>7. ErrorsFit(c)'
  <2>1. /\ Ended(cpc[c]) = 0 /\ Ended(cpc'[c]) = IF pc = "done" THEN 1 ELSE 0
        /\ Ended(rpc'[c]) = Ended(rpc[c]) /\ Ended(rpc[c]) \in {0, 1}
    BY <1>1, <1>5 DEF Ended
  <2>2. Len(errs[c]) <= Ended(cpc[c]) + Ended(rpc[c])
    BY DEF CallInv, ErrorsFit
  <2>3. CASE pc = "done"
    BY <1>4, <2>1, <2>2, <2>3, Numbers DEF ErrorsFit
  <2>4. CASE pc # "done"
    BY <1>4, <2>1, <2>2, <2>4, Numbers DEF ErrorsFit
  <2> QED BY <2>3, <2>4
<1>8. Counted(c)'
  <2>1. rhold'[c] # None
    BY <1>1, MempoolAssumption
  <2>2. opts.max # 0 => cmax[c] >= 1 /\ Len(applied[c]) + 0 + cmax[c] <= opts.max
    BY <1>1 DEF CallInv, Counted, OnTheWay
  <2>3. opts.max # 0 => /\ cpc'[c] \in {"take", "hold", "empty"} => cmax'[c] >= 1
                        /\ Len(applied[c]) + 1 + cmax'[c] <= opts.max
    BY <1>2, <1>3, <1>5, <2>2, Numbers
  <2> QED BY <1>1, <2>1, <2>3 DEF Counted, OnTheWay
<1> QED BY <1>1, <1>3, <1>5, <1>6, <1>7, <1>8, MempoolAssumption, GoroutineMoves

\* The collector ends for its context (mempool.go:62-86, 110-117).
LEMMA CollectorDoneStep ==
    ASSUME Base, NEW c \in Calls, CallInv(c), CollectorDone(c)
    PROVE  Local(c)
<1> USE DEF timeVars, mainVars, collectorVars, resolverVars
<1>1. /\ cpc[c] \in {"hold", "empty"} /\ cctx[c] \in Errors
      /\ cpc' = [cpc EXCEPT ![c] = "done"] /\ chold' = [chold EXCEPT ![c] = None]
      /\ SendError(c, cctx[c])
      /\ UNCHANGED <<opts, ctx, over, cctx, mpc, applied, result, cmax, rpc, rhold, submitted>>
  <2>1. cctx[c] \in {"open", "canceled", "deadline"} /\ cctx[c] # "open"
    BY DEF Base, CollectorDone
  <2> QED BY <2>1 DEF CollectorDone, CollectorReturn, Errors
<1>2. pool' \subseteq Txs /\ dropped' \subseteq Txs
  <2>1. {chold[c]} \ {None} \in SUBSET Txs
    BY DEF Base
  <2> QED BY <2>1, RequeueType DEF CollectorDone
<1>3. /\ errs' \in [Calls -> Seq(Errors)] /\ Len(errs'[c]) \in Nat
      /\ Len(errs'[c]) <= Len(errs[c]) + 1
      /\ \A d \in Calls \ {c} : errs'[d] = errs[d]
  BY <1>1, SendErrorType
<1>4. Base' /\ cpc'[c] = "done" /\ chold'[c] = None
  BY <1>1, <1>2, <1>3 DEF Base
<1>5. \A d \in Calls \ {c} : Same(d)
  BY <1>1, <1>3 DEF Base, Same
<1>6. ErrorsFit(c)'
  BY <1>1, <1>3, <1>4, Numbers DEF CallInv, ErrorsFit, Ended
<1>7. Counted(c)'
  BY <1>1, <1>4, Numbers, CountedStays DEF CallInv
<1> QED BY <1>1, <1>4, <1>5, <1>6, <1>7, GoroutineMoves DEF CallInv

\* The resolver goes on: it keeps its transaction, or lets go of it; if it ends
\* for an error it may send that first (proposer.go:136-173).
LEMMA ResolverMoves ==
    ASSUME Base, NEW c \in Calls, CallInv(c),
           NEW pc \in {"recv", "precheck", "send", "done"},
           rpc' = [rpc EXCEPT ![c] = pc],
           rpc[c] \notin {"off", "done"},
           \/ rhold' = [rhold EXCEPT ![c] = None] /\ pc \in {"recv", "done"}
           \/ rhold' = rhold /\ rhold[c] # None /\ pc \in {"precheck", "send"},
           pool' \subseteq Txs, dropped' \subseteq Txs,
           cctx' = cctx \/ cctx' = Done(c, "canceled"),
           errs' = errs \/ (pc = "done" /\ \E e \in Errors : SendError(c, e)),
           UNCHANGED <<timeVars, mainVars, collectorVars, submitted>>
    PROVE  Local(c)
<1> USE DEF timeVars, mainVars, collectorVars
<1>1. /\ errs' \in [Calls -> Seq(Errors)] /\ Len(errs'[c]) \in Nat
      /\ Len(errs'[c]) <= Len(errs[c]) + (IF pc = "done" THEN 1 ELSE 0)
      /\ \A d \in Calls \ {c} : errs'[d] = errs[d]
  <2>1. CASE errs' = errs
    BY <2>1, Numbers DEF Base
  <2>2. ASSUME pc = "done", NEW e \in Errors, SendError(c, e) PROVE <1>1!:
    BY <2>2, SendErrorType
  <2> QED BY <2>1, <2>2
<1>2. cctx' \in [Calls -> {"open", "canceled", "deadline"}]
  <2>1. CASE cctx' = cctx
    BY <2>1 DEF Base
  <2>2. CASE cctx' = Done(c, "canceled")
    BY <2>2 DEF Base, Done
  <2> QED BY <2>1, <2>2
<1>3. /\ rhold' \in [Calls -> Txs \cup {None}]
      /\ \A d \in Calls \ {c} : rhold'[d] = rhold[d]
      /\ rhold'[c] = rhold[c] \/ rhold'[c] = None
      /\ rhold'[c] # None <=> pc \in {"precheck", "send"}
  BY DEF Base
<1>4. Base' /\ rpc'[c] = pc
  BY <1>1, <1>2, <1>3 DEF Base
<1>5. \A d \in Calls \ {c} : Same(d)
  BY <1>1, <1>3 DEF Base, Same
<1>6. ErrorsFit(c)'
  <2>1. /\ Ended(rpc[c]) = 0 /\ Ended(rpc'[c]) = IF pc = "done" THEN 1 ELSE 0
        /\ Ended(cpc'[c]) = Ended(cpc[c]) /\ Ended(cpc[c]) \in {0, 1}
    BY <1>4 DEF Ended
  <2>2. Len(errs[c]) <= Ended(cpc[c]) + Ended(rpc[c])
    BY DEF CallInv, ErrorsFit
  <2>3. CASE pc = "done"
    BY <1>1, <2>1, <2>2, <2>3, Numbers DEF ErrorsFit
  <2>4. CASE pc # "done"
    BY <1>1, <2>1, <2>2, <2>4, Numbers DEF ErrorsFit
  <2> QED BY <2>3, <2>4
<1>7. Counted(c)'
  BY <1>3, Numbers, CountedStays DEF CallInv
<1> QED BY <1>3, <1>4, <1>5, <1>6, <1>7, GoroutineMoves DEF CallInv

\* One transaction the resolver holds is put back.
LEMMA ResolverRequeues ==
    ASSUME Base, NEW c \in Calls, CallInv(c), rhold[c] # None, Requeue({rhold[c]})
    PROVE  pool' \subseteq Txs /\ dropped' \subseteq Txs
<1>1. {rhold[c]} \in SUBSET Txs
  BY DEF Base
<1> QED BY <1>1, RequeueType

LEMMA ResolverStep ==
    ASSUME Base, NEW c \in Calls, CallInv(c), Resolver(c)
    PROVE  Local(c)
<1> USE DEF ResolverGoesTo
<1>0. pool \subseteq Txs /\ dropped \subseteq Txs /\ rhold[c] \in Txs \cup {None}
  BY DEF Base
<1>1. CASE ResolverDone(c)
  BY <1>0, <1>1, ResolverMoves DEF ResolverDone
<1>2. CASE GetTx(c)
  <2>1. rpc[c] = "get" /\ rhold[c] # None
    BY <1>2 DEF GetTx, CallInv
  <2>2. CASE rpc' = [rpc EXCEPT ![c] = "precheck"] /\ UNCHANGED <<rhold, pool, dropped>>
    BY <1>0, <1>2, <2>1, <2>2, ResolverMoves DEF GetTx
  <2>3. CASE LookupFails(c)
    <3>1. pool' \subseteq Txs /\ dropped' \subseteq Txs
      BY <1>0, <2>1, <2>3, ResolverRequeues DEF LookupFails
    <3> QED BY <1>2, <2>1, <2>3, <3>1, ResolverMoves DEF GetTx, LookupFails
  <2> QED BY <1>2, <2>2, <2>3 DEF GetTx
<1>3. CASE PrePoolCheckTx(c)
  <2>1. rpc[c] = "precheck" /\ rhold[c] # None
    BY <1>3 DEF PrePoolCheckTx, CallInv
  <2>2. CASE rpc' = [rpc EXCEPT ![c] = "send"] /\ UNCHANGED <<rhold, pool, cctx, errs, dropped>>
    BY <1>0, <1>3, <2>1, <2>2, ResolverMoves DEF PrePoolCheckTx
  <2>3. CASE /\ dropped' = dropped \cup {rhold[c]}
             /\ ResolverGoesTo(c, "done")
             /\ UNCHANGED <<pool, cctx, errs>>
    <3>1. dropped' \subseteq Txs
      BY <1>0, <2>1, <2>3
    <3> QED BY <1>0, <1>3, <2>1, <2>3, <3>1, ResolverMoves DEF PrePoolCheckTx
  <2>4. ASSUME NEW e \in Errors, PrePoolCheckError(c, e) PROVE Local(c)
    <3>1. pool' \subseteq Txs /\ dropped' \subseteq Txs
      BY <2>1, <2>4, ResolverRequeues DEF PrePoolCheckError
    <3> QED BY <1>3, <2>1, <2>4, <3>1, ResolverMoves DEF PrePoolCheckTx, PrePoolCheckError
  <2>5. "error" \in Errors /\ "canceled" \in Errors
    BY DEF Errors
  <2> QED BY <1>3, <2>2, <2>3, <2>4, <2>5 DEF PrePoolCheckTx
<1>4. CASE SendDone(c)
  <2>1. rpc[c] = "send" /\ rhold[c] # None
    BY <1>4 DEF SendDone, CallInv
  <2>2. pool' \subseteq Txs /\ dropped' \subseteq Txs
    BY <1>4, <2>1, ResolverRequeues DEF SendDone
  <2> QED BY <1>4, <2>1, <2>2, ResolverMoves DEF SendDone
<1> QED BY <1>1, <1>2, <1>3, <1>4 DEF Resolver

\* Every step of a call is one of its own state (proposer.go:109-289,
\* mempool.go:62-117).
LEMMA CallStep ==
    ASSUME Base, NEW c \in Calls, CallInv(c),
           ProposeBlock(c) \/ Caller(c) \/ Collector(c) \/ Resolver(c)
    PROVE  Local(c)
BY ProposeBlockStep, GetStateAtBlockStep, LoopErrorStep, LoopCancelledStep,
   LoopReceiveStep, LoopClosedStep, ApplyStep, AfterLoopStep, StoreProposalStep,
   DequeueStep, CollectStep, CollectorDoneStep, ResolverStep DEF Caller, Collector

-----------------------------------------------------------------------------
(* The invariant.                                                          *)

LEMMA IInvInit == Init => IInv
<1> SUFFICES ASSUME Init PROVE IInv
  OBVIOUS
<1>1. Base
  BY DEF Init, Base, CallResults
<1>2. ASSUME NEW c \in Calls PROVE CallInv(c)
  <2>1. opts.max \in Nat
    BY <1>1, Numbers
  <2>2. /\ mpc[c] = "idle" /\ result[c] = "none" /\ applied[c] = <<>> /\ errs[c] = <<>>
        /\ cpc[c] = "off" /\ chold[c] = None /\ cmax[c] = 0
        /\ rpc[c] = "off" /\ rhold[c] = None
    BY DEF Init
  <2> QED BY <2>1, <2>2 DEF CallInv, InStep, ErrorsFit, Ended, Counted, OnTheWay
<1> QED BY <1>1, <1>2, Forms

\* The end of a round, and the cancellation of its context.
LEMMA TimeStep ==
    ASSUME Base, NEW c \in Calls, RoundCancelled(c) \/ RoundOver(c)
    PROVE  Base' /\ opts' = opts /\ \A d \in Calls : Same(d)
<1> USE DEF timeVars, mainVars, collectorVars, resolverVars
<1>1. CASE RoundCancelled(c)
  <2>1. cctx' \in [Calls -> {"open", "canceled", "deadline"}]
    BY <1>1 DEF Base, RoundCancelled, Done
  <2> QED BY <1>1, <2>1 DEF Base, RoundCancelled, Same
<1>2. CASE RoundOver(c)
  <2>1. cctx' \in [Calls -> {"open", "canceled", "deadline"}]
    BY <1>2 DEF Base, RoundOver, Done
  <2> QED BY <1>2, <2>1 DEF Base, RoundOver, Same
<1> QED BY <1>1, <1>2

LEMMA IInvNext == IInv /\ [Next]_vars => IInv'
<1> SUFFICES ASSUME IInv, [Next]_vars PROVE IInv'
  OBVIOUS
<1>1. Base /\ \A d \in Calls : CallInv(d)
  BY Forms
<1>2. ASSUME NEW c \in Calls, Local(c) PROVE IInv'
  <2>1. \A d \in Calls : CallInv(d)'
    BY <1>1, <1>2, Frame DEF Local
  <2>2. (Base /\ \A d \in Calls : CallInv(d))'
    BY <1>2, <2>1 DEF Local
  <2> QED BY <2>2, Forms, PTL
<1>3. ASSUME Base', opts' = opts, \A d \in Calls : Same(d) PROVE IInv'
  <2>1. \A d \in Calls : CallInv(d)'
    BY <1>1, <1>3, Frame
  <2>2. (Base /\ \A d \in Calls : CallInv(d))'
    BY <1>3, <2>1
  <2> QED BY <2>2, Forms, PTL
<1>4. ASSUME NEW t \in Txs, Submit(t) PROVE IInv'
  <2>1. Base' /\ opts' = opts /\ \A d \in Calls : Same(d)
    BY <1>1, <1>4 DEF Base, Submit, Same, timeVars, mainVars, collectorVars, resolverVars
  <2> QED BY <1>3, <2>1
<1>5. CASE UNCHANGED vars
  <2>1. Base' /\ opts' = opts /\ \A d \in Calls : Same(d)
    BY <1>1, <1>5 DEF vars, Base, Same
  <2> QED BY <1>3, <2>1
<1>6. ASSUME NEW c \in Calls, RoundCancelled(c) \/ RoundOver(c) PROVE IInv'
  BY <1>1, <1>3, <1>6, TimeStep
<1>7. ASSUME NEW c \in Calls,
             ProposeBlock(c) \/ Caller(c) \/ Collector(c) \/ Resolver(c)
      PROVE  IInv'
  BY <1>1, <1>2, <1>7, CallStep
<1> QED BY <1>4, <1>5, <1>6, <1>7, Zenon DEF Next

\* The invariant of the calls: proposer.go and mempool.go keep it.
THEOREM Invariance == Spec => []IInv
BY IInvInit, IInvNext, PTL DEF Spec

\* A goroutine holds a transaction exactly while it needs one, and an error can
\* always be sent, whatever the order of the goroutines of a call
\* (proposer.go:116).
THEOREM TypeCorrect == Spec => []TypeOK
<1>1. IInv => TypeOK
  BY DEF IInv
<1> QED BY <1>1, Invariance, PTL

\* A block that is proposed is within the limits of the options
\* (mempool.go:103-108, proposer.go:227-255).
THEOREM BlocksWithinLimits == Spec => []BlockWithinLimits
<1>1. IInv => BlockWithinLimits
  <2> SUFFICES ASSUME IInv, NEW c \in Calls, result[c] = "proposed"
               PROVE  /\ Len(applied[c]) >= opts.min
                      /\ opts.max # 0 => Len(applied[c]) <= opts.max
    BY DEF BlockWithinLimits
  <2>1. Base /\ InStep(c) /\ Counted(c)
    BY Forms DEF CallInv
  <2>2. OnTheWay(c) \in {0, 1}
    BY DEF OnTheWay
  <2>3. opts.max # 0 => Len(applied[c]) + OnTheWay(c) + cmax[c] <= opts.max
    BY <2>1 DEF Counted
  <2>4. opts.max # 0 => Len(applied[c]) <= opts.max
    BY <2>1, <2>2, <2>3, Numbers
  <2> QED BY <2>1, <2>4 DEF InStep
<1> QED BY <1>1, Invariance, PTL

-----------------------------------------------------------------------------
(* Every transaction is in one place.                                      *)

\* The i-th transaction that call c applied is t.
AppliedAt(t, c, i) == i \in 1..Len(applied[c]) /\ applied[c][i] = t

\* The place k, c, i holds t: <<k, c, i>> is one of Places(t).
Held(t, k, c, i) ==
    \/ k = "pool" /\ c = 0 /\ i = 0 /\ t \in pool
    \/ k = "dropped" /\ c = 0 /\ i = 0 /\ t \in dropped
    \/ k = "collector" /\ c \in Calls /\ i = 0 /\ chold[c] = t
    \/ k = "resolver" /\ c \in Calls /\ i = 0 /\ rhold[c] = t
    \/ k = "applied" /\ c \in Calls /\ AppliedAt(t, c, i)

OnlyOnce(t) ==
    \A k, c, i, l, d, j : Held(t, k, c, i) /\ Held(t, l, d, j) => k = l /\ c = d /\ i = j
Somewhere(t) == \E k, c, i : Held(t, k, c, i)

\* The inductive invariant behind OnePlace: a transaction that was not submitted
\* is nowhere.
PlaceInv == \A t \in Txs : OnlyOnce(t) /\ (Somewhere(t) <=> t \in submitted)

\* A transaction that is where it was.
Stays(t) == \A k, c, i : Held(t, k, c, i)' <=> Held(t, k, c, i)

LEMMA StaysInOnePlace ==
    ASSUME NEW t \in Txs, OnlyOnce(t), Stays(t)
    PROVE  OnlyOnce(t)' /\ (Somewhere(t)' <=> Somewhere(t))
BY DEF Stays, OnlyOnce, Somewhere

\* A step of call c that neither takes t nor puts it anywhere.
LEMMA Stay ==
    ASSUME NEW t \in Txs, NEW c \in Calls, \A d \in Calls \ {c} : Same(d),
           t \in pool' <=> t \in pool, t \in dropped' <=> t \in dropped,
           chold'[c] = t <=> chold[c] = t, rhold'[c] = t <=> rhold[c] = t,
           \A i : AppliedAt(t, c, i)' <=> AppliedAt(t, c, i)
    PROVE  Stays(t)
<1> SUFFICES ASSUME NEW k, NEW d, NEW i
             PROVE  Held(t, k, d, i)' <=> Held(t, k, d, i)
  BY DEF Stays
<1>1. CASE d = c
  BY <1>1 DEF Held
<1>2. CASE d # c /\ d \in Calls
  <2>1. Same(d)
    BY <1>2
  <2>2. AppliedAt(t, d, i)' <=> AppliedAt(t, d, i)
    BY <2>1 DEF AppliedAt, Same
  <2> QED BY <1>2, <2>1, <2>2 DEF Held, Same
<1>3. CASE d \notin Calls
  BY <1>3 DEF Held
<1> QED BY <1>1, <1>2, <1>3

\* A step of call c takes t from the one place k, b, i, of the pool or of c
\* itself, and puts it into l, d, j only.
LEMMA Move ==
    ASSUME NEW t \in Txs, OnlyOnce(t), NEW c \in Calls, \A d \in Calls \ {c} : Same(d),
           NEW k, NEW b, NEW i, Held(t, k, b, i), b = c \/ b \notin Calls,
           NEW l, NEW d, NEW j, Held(t, l, d, j)',
           t \in pool' => l = "pool", t \in dropped' => l = "dropped",
           chold'[c] = t => l = "collector" /\ d = c,
           rhold'[c] = t => l = "resolver" /\ d = c,
           \A n : AppliedAt(t, c, n)' => l = "applied" /\ d = c /\ j = n
    PROVE  OnlyOnce(t)' /\ Somewhere(t) /\ Somewhere(t)'
<1>1. \A m, a, n : Held(t, m, a, n) => m = k /\ a = b /\ n = i
  BY DEF OnlyOnce
<1>2. ASSUME NEW m, NEW a, NEW n, Held(t, m, a, n)' PROVE m = l /\ a = d /\ n = j
  <2>1. CASE a # c /\ a \in Calls
    <3>1. Same(a)
      BY <2>1
    <3>2. AppliedAt(t, a, n)' <=> AppliedAt(t, a, n)
      BY <3>1 DEF AppliedAt, Same
    <3>3. a # 0
      BY <2>1, MempoolAssumption DEF Calls
    <3>4. Held(t, m, a, n)
      BY <1>2, <2>1, <3>1, <3>2, <3>3 DEF Held, Same
    <3> QED BY <1>1, <2>1, <3>4
  <2>2. CASE a = c \/ a \notin Calls
    BY <1>2, <2>2 DEF Held
  <2> QED BY <2>1, <2>2
<1>3. OnlyOnce(t)'
  BY <1>2 DEF OnlyOnce
<1> QED BY <1>3 DEF Somewhere

\* No transaction is lost or doubled.
PlacesKept == \A t \in Txs : OnlyOnce(t)' /\ (Somewhere(t)' <=> Somewhere(t))

\* Transactions that call c holds are put back, or dropped (mempool.go:48-61).
LEMMA RequeueKeeps ==
    ASSUME PlaceInv, NEW c \in Calls, \A d \in Calls \ {c} : Same(d),
           NEW S \in SUBSET Txs, Requeue(S),
           \A t \in S : \E k, i : Held(t, k, c, i),
           \A t \in Txs \ S : /\ chold'[c] = t <=> chold[c] = t
                              /\ rhold'[c] = t <=> rhold[c] = t
                              /\ \A i : AppliedAt(t, c, i)' <=> AppliedAt(t, c, i),
           \A t \in S : chold'[c] # t /\ rhold'[c] # t /\ \A i : ~ AppliedAt(t, c, i)'
    PROVE  PlacesKept
<1> SUFFICES ASSUME NEW t \in Txs
             PROVE  OnlyOnce(t)' /\ (Somewhere(t)' <=> Somewhere(t))
  BY DEF PlacesKept
<1>1. OnlyOnce(t)
  BY DEF PlaceInv
<1>2. PICK lost \in SUBSET S : pool' = pool \cup (S \ lost) /\ dropped' = dropped \cup lost
  BY DEF Requeue
<1>3. CASE t \notin S
  <2>1. (t \in pool' <=> t \in pool) /\ (t \in dropped' <=> t \in dropped)
    BY <1>2, <1>3
  <2>2. Stays(t)
    BY <1>3, <2>1, Stay
  <2> QED BY <1>1, <2>2, StaysInOnePlace
<1>4. CASE t \in S
  <2>1. PICK k, i : Held(t, k, c, i)
    BY <1>4
  <2>2. c # 0
    BY MempoolAssumption DEF Calls
  <2>3. t \notin pool /\ t \notin dropped
    <3>1. t \in pool => Held(t, "pool", 0, 0)
      BY DEF Held
    <3>2. t \in dropped => Held(t, "dropped", 0, 0)
      BY DEF Held
    <3> QED BY <1>1, <2>1, <2>2, <3>1, <3>2 DEF OnlyOnce
  <2>4. chold'[c] # t /\ rhold'[c] # t /\ \A n : ~ AppliedAt(t, c, n)'
    BY <1>4
  <2>5. CASE t \in lost
    <3>1. Held(t, "dropped", 0, 0)' /\ t \notin pool'
      BY <1>2, <2>3, <2>5 DEF Held
    <3> QED BY <1>1, <2>1, <2>4, <3>1, Move
  <2>6. CASE t \notin lost
    <3>1. Held(t, "pool", 0, 0)' /\ t \notin dropped'
      BY <1>2, <1>4, <2>3, <2>6 DEF Held
    <3> QED BY <1>1, <2>1, <2>4, <3>1, Move
  <2> QED BY <2>5, <2>6
<1> QED BY <1>3, <1>4

\* The applied transactions of a call that returns without a proposal are put
\* back (proposer.go:101-107).
LEMMA RequeueAppliedKeeps ==
    ASSUME Base, PlaceInv, NEW c \in Calls, \A d \in Calls \ {c} : Same(d),
           Requeue(Range(applied[c])), applied' = [applied EXCEPT ![c] = <<>>],
           UNCHANGED <<chold, rhold>>
    PROVE  PlacesKept
<1>0. applied[c] \in Seq(Txs) /\ DOMAIN applied[c] = 1..Len(applied[c])
  BY Numbers
<1>1. PICK S \in SUBSET Txs : S = Range(applied[c])
  <2>1. Range(applied[c]) \in SUBSET Txs
    BY <1>0 DEF Range
  <2> QED BY <2>1
<1>2. \A t : t \in S <=> \E i : AppliedAt(t, c, i)
  <2>1. S = {applied[c][i] : i \in 1..Len(applied[c])}
    BY <1>0, <1>1 DEF Range
  <2> QED BY <2>1 DEF AppliedAt
<1>3. \A t, i : ~ AppliedAt(t, c, i)'
  <2>1. applied'[c] = <<>>
    BY DEF Base
  <2> QED BY <2>1 DEF AppliedAt
<1>4. \A t \in S : chold[c] # t /\ rhold[c] # t
  <2> SUFFICES ASSUME NEW t \in S PROVE chold[c] # t /\ rhold[c] # t
    OBVIOUS
  <2>1. PICK i : Held(t, "applied", c, i)
    BY <1>2 DEF Held
  <2>2. chold[c] = t => Held(t, "collector", c, 0)
    BY DEF Held
  <2>3. rhold[c] = t => Held(t, "resolver", c, 0)
    BY DEF Held
  <2>4. OnlyOnce(t)
    BY DEF PlaceInv
  <2> QED BY <2>1, <2>2, <2>3, <2>4 DEF OnlyOnce
<1>5. \A t \in S : \E k, i : Held(t, k, c, i)
  BY <1>2 DEF Held
<1> QED BY <1>1, <1>2, <1>3, <1>4, <1>5, RequeueKeeps

\* The resolver lets go of its transaction, or the collector of its own.
LEMMA ResolverKeeps ==
    ASSUME Base, PlaceInv, NEW c \in Calls, \A d \in Calls \ {c} : Same(d),
           rhold[c] # None, Requeue({rhold[c]}), rhold' = [rhold EXCEPT ![c] = None],
           UNCHANGED <<chold, applied>>
    PROVE  PlacesKept
<1>1. PICK t \in Txs : t = rhold[c]
  BY DEF Base
<1>2. rhold'[c] = None
  BY DEF Base
<1>3. Held(t, "resolver", c, 0) /\ OnlyOnce(t)
  BY <1>1 DEF Held, PlaceInv
<1>4. chold[c] # t /\ \A i : ~ AppliedAt(t, c, i)
  <2>1. chold[c] = t => Held(t, "collector", c, 0)
    BY DEF Held
  <2>2. \A i : AppliedAt(t, c, i) => Held(t, "applied", c, i)
    BY DEF Held
  <2> QED BY <1>3, <2>1, <2>2 DEF OnlyOnce
<1>5. \A u, i : AppliedAt(u, c, i)' <=> AppliedAt(u, c, i)
  BY DEF AppliedAt
<1>6. /\ \A u \in Txs \ {t} : rhold'[c] # u /\ rhold[c] # u
      /\ rhold'[c] # t
  BY <1>1, <1>2, MempoolAssumption
<1>7. PICK S \in SUBSET Txs : S = {t}
  OBVIOUS
<1> QED BY <1>1, <1>3, <1>4, <1>5, <1>6, <1>7, RequeueKeeps

LEMMA CollectorKeeps ==
    ASSUME Base, PlaceInv, NEW c \in Calls, \A d \in Calls \ {c} : Same(d),
           Requeue({chold[c]} \ {None}), chold' = [chold EXCEPT ![c] = None],
           UNCHANGED <<rhold, applied>>
    PROVE  PlacesKept
<1>0. chold'[c] = None /\ chold[c] \in Txs \cup {None}
  BY DEF Base
<1>1. PICK S \in SUBSET Txs : S = {chold[c]} \ {None}
  BY <1>0
<1>2. \A t \in S : Held(t, "collector", c, 0) /\ OnlyOnce(t)
  BY <1>1 DEF Held, PlaceInv
<1>3. \A t \in S : rhold[c] # t /\ \A i : ~ AppliedAt(t, c, i)
  <2>1. \A t : rhold[c] = t => Held(t, "resolver", c, 0)
    BY DEF Held
  <2>2. \A t, i : AppliedAt(t, c, i) => Held(t, "applied", c, i)
    BY DEF Held
  <2> QED BY <1>2, <2>1, <2>2 DEF OnlyOnce
<1>4. \A u, i : AppliedAt(u, c, i)' <=> AppliedAt(u, c, i)
  BY DEF AppliedAt
<1>5. \A t \in Txs \ S : chold'[c] # t /\ chold[c] # t
  BY <1>0, <1>1, MempoolAssumption
<1>6. \A t \in S : chold'[c] # t
  BY <1>0, MempoolAssumption
<1> QED BY <1>1, <1>2, <1>3, <1>4, <1>5, <1>6, RequeueKeeps

\* A step that moves no transaction.
LEMMA QuietKeeps ==
    ASSUME PlaceInv, UNCHANGED <<pool, dropped, chold, rhold, applied>>
    PROVE  PlacesKept
<1> SUFFICES ASSUME NEW t \in Txs
             PROVE  OnlyOnce(t)' /\ (Somewhere(t)' <=> Somewhere(t))
  BY DEF PlacesKept
<1>1. Stays(t)
  BY DEF Stays, Held, AppliedAt
<1>2. OnlyOnce(t)
  BY DEF PlaceInv
<1> QED BY <1>1, <1>2, StaysInOnePlace

\* The collector takes a transaction out of the pool (mempool.go:87-98).
LEMMA DequeueKeeps ==
    ASSUME Base, PlaceInv, NEW c \in Calls, \A d \in Calls \ {c} : Same(d),
           NEW u \in pool, pool' = pool \ {u},
           chold[c] = None, chold' = [chold EXCEPT ![c] = u],
           UNCHANGED <<dropped, rhold, applied>>
    PROVE  PlacesKept
<1> SUFFICES ASSUME NEW t \in Txs
             PROVE  OnlyOnce(t)' /\ (Somewhere(t)' <=> Somewhere(t))
  BY DEF PlacesKept
<1>1. OnlyOnce(t)
  BY DEF PlaceInv
<1>2. chold'[c] = u /\ \A i : AppliedAt(t, c, i)' <=> AppliedAt(t, c, i)
  BY DEF Base, AppliedAt
<1>3. CASE t # u
  <2>1. Stays(t)
    BY <1>2, <1>3, MempoolAssumption, Stay
  <2> QED BY <1>1, <2>1, StaysInOnePlace
<1>4. CASE t = u
  <2>1. Held(t, "pool", 0, 0) /\ Held(t, "collector", c, 0)' /\ 0 \notin Calls
    BY <1>2, <1>4, MempoolAssumption DEF Held, Calls
  <2>2. t \notin dropped /\ rhold[c] # t /\ \A i : ~ AppliedAt(t, c, i)
    <3>1. /\ t \in dropped => Held(t, "dropped", 0, 0)
          /\ rhold[c] = t => Held(t, "resolver", c, 0)
          /\ \A i : AppliedAt(t, c, i) => Held(t, "applied", c, i)
      BY DEF Held
    <3> QED BY <1>1, <2>1, <3>1 DEF OnlyOnce
  <2> QED BY <1>1, <1>2, <1>4, <2>1, <2>2, Move
<1> QED BY <1>3, <1>4

\* It hands it on to the resolver (mempool.go:99-108).
LEMMA CollectKeeps ==
    ASSUME Base, PlaceInv, NEW c \in Calls, \A d \in Calls \ {c} : Same(d),
           chold[c] # None, rhold[c] = None,
           chold' = [chold EXCEPT ![c] = None], rhold' = [rhold EXCEPT ![c] = chold[c]],
           UNCHANGED <<pool, dropped, applied>>
    PROVE  PlacesKept
<1> SUFFICES ASSUME NEW t \in Txs
             PROVE  OnlyOnce(t)' /\ (Somewhere(t)' <=> Somewhere(t))
  BY DEF PlacesKept
<1>1. OnlyOnce(t)
  BY DEF PlaceInv
<1>2. /\ chold'[c] = None /\ rhold'[c] = chold[c]
      /\ \A i : AppliedAt(t, c, i)' <=> AppliedAt(t, c, i)
  BY DEF Base, AppliedAt
<1>3. CASE t # chold[c]
  <2>1. Stays(t)
    BY <1>2, <1>3, MempoolAssumption, Stay
  <2> QED BY <1>1, <2>1, StaysInOnePlace
<1>4. CASE t = chold[c]
  <2>1. Held(t, "collector", c, 0) /\ Held(t, "resolver", c, 0)' /\ c # 0
    BY <1>2, <1>4, MempoolAssumption DEF Held, Calls
  <2>2. t \notin pool /\ t \notin dropped /\ \A i : ~ AppliedAt(t, c, i)
    <3>1. /\ t \in pool => Held(t, "pool", 0, 0)
          /\ t \in dropped => Held(t, "dropped", 0, 0)
          /\ \A i : AppliedAt(t, c, i) => Held(t, "applied", c, i)
      BY DEF Held
    <3> QED BY <1>1, <2>1, <3>1 DEF OnlyOnce
  <2> QED BY <1>1, <1>2, <1>4, <2>1, <2>2, MempoolAssumption, Move
<1> QED BY <1>3, <1>4

\* The resolver hands it on to the caller (proposer.go:162-172, 191-195).
LEMMA ReceiveKeeps ==
    ASSUME Base, PlaceInv, NEW c \in Calls, \A d \in Calls \ {c} : Same(d),
           rhold[c] # None, rhold' = [rhold EXCEPT ![c] = None],
           applied' = [applied EXCEPT ![c] = Append(applied[c], rhold[c])],
           UNCHANGED <<pool, dropped, chold>>
    PROVE  PlacesKept
<1> SUFFICES ASSUME NEW t \in Txs
             PROVE  OnlyOnce(t)' /\ (Somewhere(t)' <=> Somewhere(t))
  BY DEF PlacesKept
<1>1. OnlyOnce(t)
  BY DEF PlaceInv
<1>2. PICK u \in Txs : u = rhold[c]
  BY DEF Base
<1>3. rhold'[c] = None /\ applied[c] \in Seq(Txs) /\ Len(applied[c]) \in Nat
  BY Numbers DEF Base
<1>4. \A i : AppliedAt(t, c, i)' <=> AppliedAt(t, c, i) \/ (t = u /\ i = Len(applied[c]) + 1)
  <2>1. applied'[c] = Append(applied[c], u)
    BY <1>2 DEF Base
  <2>2. /\ Len(Append(applied[c], u)) = Len(applied[c]) + 1
        /\ Append(applied[c], u)[Len(applied[c]) + 1] = u
        /\ \A i \in 1..Len(applied[c]) : Append(applied[c], u)[i] = applied[c][i]
    BY <1>3
  <2>3. \A i : i \in 1..(Len(applied[c]) + 1) <=>
                 i \in 1..Len(applied[c]) \/ i = Len(applied[c]) + 1
    BY <1>3
  <2>4. Len(applied[c]) + 1 \notin 1..Len(applied[c])
    BY <1>3
  <2> QED BY <2>1, <2>2, <2>3, <2>4, Zenon DEF AppliedAt
<1>5. CASE t # u
  <2>1. Stays(t)
    BY <1>2, <1>3, <1>4, <1>5, MempoolAssumption, Stay
  <2> QED BY <1>1, <2>1, StaysInOnePlace
<1>6. CASE t = u
  <2>0. PICK n : n = Len(applied[c]) + 1
    OBVIOUS
  <2>1. Held(t, "resolver", c, 0) /\ Held(t, "applied", c, n)' /\ c # 0
    BY <1>2, <1>4, <1>6, <2>0, MempoolAssumption DEF Held, Calls
  <2>2. t \notin pool /\ t \notin dropped /\ chold[c] # t /\ \A i : ~ AppliedAt(t, c, i)
    <3>1. /\ t \in pool => Held(t, "pool", 0, 0)
          /\ t \in dropped => Held(t, "dropped", 0, 0)
          /\ chold[c] = t => Held(t, "collector", c, 0)
          /\ \A i : AppliedAt(t, c, i) => Held(t, "applied", c, i)
      BY DEF Held
    <3> QED BY <1>1, <2>1, <3>1 DEF OnlyOnce
  <2> QED BY <1>1, <1>3, <1>4, <1>6, <2>0, <2>1, <2>2, MempoolAssumption, Move
<1> QED BY <1>5, <1>6

\* The application refuses a transaction (proposer.go:203-215).
LEMMA RefuseKeeps ==
    ASSUME Base, PlaceInv, NEW c \in Calls, \A d \in Calls \ {c} : Same(d),
           applied[c] # <<>>,
           applied' = [applied EXCEPT ![c] = SubSeq(applied[c], 1, Len(applied[c]) - 1)],
           dropped' = dropped \cup {applied[c][Len(applied[c])]},
           UNCHANGED <<pool, chold, rhold>>
    PROVE  PlacesKept
<1>1. PICK n \in Nat \ {0} : n = Len(applied[c])
  BY Numbers
<1>2. PICK u \in Txs : u = applied[c][n]
  BY <1>1, Numbers
<1>3. \A t, i : AppliedAt(t, c, i)' <=> AppliedAt(t, c, i) /\ i # n
  <2>1. applied'[c] = SubSeq(applied[c], 1, n - 1)
    BY <1>1 DEF Base
  <2>2. /\ Len(SubSeq(applied[c], 1, n - 1)) = n - 1
        /\ \A i \in 1..(n - 1) : SubSeq(applied[c], 1, n - 1)[i] = applied[c][i]
    BY <1>1, Numbers
  <2>3. \A i : i \in 1..(n - 1) <=> i \in 1..n /\ i # n
    OBVIOUS
  <2> QED BY <1>1, <2>1, <2>2, <2>3, Zenon DEF AppliedAt
<1>4. Held(u, "applied", c, n) /\ OnlyOnce(u)
  BY <1>1, <1>2 DEF Held, AppliedAt, PlaceInv
<1>5. chold[c] # u /\ rhold[c] # u /\ \A i : AppliedAt(u, c, i) => i = n
  <2>1. /\ chold[c] = u => Held(u, "collector", c, 0)
        /\ rhold[c] = u => Held(u, "resolver", c, 0)
        /\ \A i : AppliedAt(u, c, i) => Held(u, "applied", c, i)
    BY DEF Held
  <2> QED BY <1>4, <2>1 DEF OnlyOnce
<1>6. \A t \in Txs \ {u} : \A i : AppliedAt(t, c, i)' <=> AppliedAt(t, c, i)
  <2>1. \A t \in Txs \ {u} : ~ AppliedAt(t, c, n)
    BY <1>2 DEF AppliedAt
  <2> QED BY <1>3, <2>1
<1>7. PICK S \in SUBSET Txs : S = {u}
  OBVIOUS
<1>8. Requeue(S)
  BY <1>1, <1>2, <1>7 DEF Requeue
<1> QED BY <1>3, <1>4, <1>5, <1>6, <1>7, <1>8, RequeueKeeps

\* No step of a call loses or doubles a transaction (proposer.go:109-289,
\* mempool.go:48-117).
LEMMA CallKeeps ==
    ASSUME Base, PlaceInv, NEW c \in Calls, CallInv(c),
           ProposeBlock(c) \/ Caller(c) \/ Collector(c) \/ Resolver(c)
    PROVE  PlacesKept
<1> USE DEF timeVars, mainVars, collectorVars, resolverVars
<1>0. \A d \in Calls \ {c} : Same(d)
  BY CallStep DEF Local
<1>1. ASSUME NEW r, RequeueAndReturn(c, r), UNCHANGED <<collectorVars, resolverVars>>
      PROVE  PlacesKept
  BY <1>0, <1>1, RequeueAppliedKeeps DEF RequeueAndReturn
<1>2. CASE ProposeBlock(c) \/ GetStateAtBlock(c) \/ LoopClosed(c)
  BY <1>2, QuietKeeps DEF ProposeBlock, GetStateAtBlock, LoopClosed
<1>3. CASE LoopError(c) \/ LoopCancelled(c) \/ AfterLoop(c) \/ StoreProposal(c)
  <2>1. \/ UNCHANGED <<applied, pool, dropped, collectorVars, resolverVars>>
        \/ \E r : RequeueAndReturn(c, r) /\ UNCHANGED <<collectorVars, resolverVars>>
    BY <1>3 DEF LoopError, LoopCancelled, AfterLoop, StoreProposal
  <2> QED BY <1>1, <2>1, QuietKeeps
<1>4. CASE LoopReceive(c)
  <2>1. rhold[c] # None
    BY <1>4 DEF LoopReceive, CallInv
  <2> QED BY <1>0, <1>4, <2>1, ReceiveKeeps DEF LoopReceive
<1>5. CASE Apply(c)
  <2>1. applied[c] # <<>>
    BY <1>5 DEF Apply, CallInv, InStep
  <2>2. CASE UNCHANGED <<applied, pool, dropped>>
    BY <1>5, <2>2, QuietKeeps DEF Apply
  <2>3. CASE /\ applied' = [applied EXCEPT ![c] = SubSeq(applied[c], 1, Len(applied[c]) - 1)]
             /\ dropped' = dropped \cup {applied[c][Len(applied[c])]}
             /\ UNCHANGED pool
    BY <1>0, <1>5, <2>1, <2>3, RefuseKeeps DEF Apply
  <2>4. CASE RequeueAndReturn(c, "error")
    BY <1>1, <1>5, <2>4 DEF Apply
  <2> QED BY <1>5, <2>2, <2>3, <2>4 DEF Apply
<1>6. CASE Dequeue(c)
  <2>1. chold[c] = None
    BY <1>6 DEF Dequeue, CallInv
  <2>2. ASSUME NEW t \in Minima, pool' = pool \ {t}, chold' = [chold EXCEPT ![c] = t]
        PROVE  PlacesKept
    <3>1. t \in pool
      BY DEF Minima
    <3> QED BY <1>0, <1>6, <2>1, <2>2, <3>1, DequeueKeeps DEF Dequeue
  <2>3. CASE UNCHANGED pool /\ (UNCHANGED chold \/ chold' = [chold EXCEPT ![c] = None])
    <3>1. chold' = chold
      BY <2>1, <2>3 DEF Base
    <3> QED BY <1>6, <2>3, <3>1, QuietKeeps DEF Dequeue
  <2> QED BY <1>6, <2>2, <2>3 DEF Dequeue, CollectorReturn
<1>7. CASE Collect(c)
  <2>1. chold[c] # None /\ rhold[c] = None
    BY <1>7 DEF Collect, CallInv
  <2> QED BY <1>0, <1>7, <2>1, CollectKeeps DEF Collect, CollectorReturn
<1>8. CASE CollectorDone(c)
  BY <1>0, <1>8, CollectorKeeps DEF CollectorDone, CollectorReturn
<1>9. CASE Resolver(c)
  <2> USE DEF ResolverGoesTo
  <2>1. ASSUME rhold[c] # None,
               Requeue({rhold[c]}) \/ (dropped' = dropped \cup {rhold[c]} /\ UNCHANGED pool),
               rhold' = [rhold EXCEPT ![c] = None], UNCHANGED <<chold, applied>>
        PROVE  PlacesKept
    <3>1. Requeue({rhold[c]})
      BY <2>1 DEF Requeue
    <3> QED BY <1>0, <2>1, <3>1, ResolverKeeps
  <2>2. CASE ResolverDone(c)
    <3>1. rhold' = rhold
      BY <2>2 DEF Base, ResolverDone, CallInv
    <3> QED BY <2>2, <3>1, QuietKeeps DEF ResolverDone
  <2>3. CASE GetTx(c)
    <3>1. rhold[c] # None
      BY <2>3 DEF GetTx, CallInv
    <3> QED BY <2>1, <2>3, <3>1, QuietKeeps DEF GetTx, LookupFails
  <2>4. CASE PrePoolCheckTx(c)
    <3>1. rhold[c] # None
      BY <2>4 DEF PrePoolCheckTx, CallInv
    <3> QED BY <2>1, <2>4, <3>1, QuietKeeps DEF PrePoolCheckTx, PrePoolCheckError
  <2>5. CASE SendDone(c)
    <3>1. rhold[c] # None
      BY <2>5 DEF SendDone, CallInv
    <3> QED BY <2>1, <2>5, <3>1 DEF SendDone
  <2> QED BY <1>9, <2>2, <2>3, <2>4, <2>5 DEF Resolver
<1> QED BY <1>2, <1>3, <1>4, <1>5, <1>6, <1>7, <1>8, <1>9 DEF Caller, Collector

\* A transaction that is submitted comes into the pool, and was nowhere before.
LEMMA SubmitPlaces ==
    ASSUME Base, PlaceInv, NEW u \in Txs, Submit(u)
    PROVE  PlaceInv'
<1> USE DEF timeVars, mainVars, collectorVars, resolverVars
<1> SUFFICES ASSUME NEW t \in Txs
             PROVE  OnlyOnce(t)' /\ (Somewhere(t)' <=> t \in submitted')
  BY DEF PlaceInv
<1>1. \A k, c, i : Held(t, k, c, i)' <=>
                     Held(t, k, c, i) \/ (t = u /\ k = "pool" /\ c = 0 /\ i = 0)
  <2> SUFFICES ASSUME NEW k, NEW c, NEW i
               PROVE  Held(t, k, c, i)' <=>
                         Held(t, k, c, i) \/ (t = u /\ k = "pool" /\ c = 0 /\ i = 0)
    OBVIOUS
  <2>1. AppliedAt(t, c, i)' <=> AppliedAt(t, c, i)
    BY DEF Submit, AppliedAt
  <2> QED BY <2>1 DEF Submit, Held
<1>2. OnlyOnce(t) /\ (Somewhere(t) <=> t \in submitted)
  BY DEF PlaceInv
<1>3. CASE t # u
  <2>1. Stays(t)
    BY <1>1, <1>3 DEF Stays
  <2> QED BY <1>2, <1>3, <2>1, StaysInOnePlace DEF Submit
<1>4. CASE t = u
  <2>1. \A k, c, i : ~ Held(t, k, c, i)
    BY <1>2, <1>4 DEF Submit, Somewhere
  <2>2. \A k, c, i : Held(t, k, c, i)' <=> (k = "pool" /\ c = 0 /\ i = 0)
    BY <1>1, <1>4, <2>1
  <2>3. OnlyOnce(t)' /\ Somewhere(t)'
    BY <2>2 DEF OnlyOnce, Somewhere
  <2> QED BY <1>4, <2>3 DEF Submit
<1> QED BY <1>3, <1>4

LEMMA PlaceInvInit == Init => PlaceInv
<1> SUFFICES ASSUME Init, NEW t \in Txs
             PROVE  OnlyOnce(t) /\ (Somewhere(t) <=> t \in submitted)
  BY DEF PlaceInv
<1>1. \A k, c, i : ~ Held(t, k, c, i)
  <2>1. \A c \in Calls : chold[c] # t /\ rhold[c] # t /\ applied[c] = <<>>
    BY MempoolAssumption DEF Init
  <2>2. \A c \in Calls : \A i : ~ AppliedAt(t, c, i)
    BY <2>1 DEF AppliedAt
  <2> QED BY <2>1, <2>2 DEF Init, Held
<1> QED BY <1>1 DEF Init, OnlyOnce, Somewhere

LEMMA PlaceInvNext == IInv /\ PlaceInv /\ [Next]_vars => PlaceInv'
<1> SUFFICES ASSUME IInv, PlaceInv, [Next]_vars PROVE PlaceInv'
  OBVIOUS
<1>1. Base /\ \A d \in Calls : CallInv(d)
  BY Forms
<1>2. ASSUME PlacesKept, submitted' = submitted PROVE PlaceInv'
  BY <1>2 DEF PlaceInv, PlacesKept
<1>3. ASSUME NEW t \in Txs, Submit(t) PROVE PlaceInv'
  BY <1>1, <1>3, SubmitPlaces
<1>4. CASE UNCHANGED vars
  BY <1>2, <1>4, QuietKeeps DEF vars
<1>5. ASSUME NEW c \in Calls, RoundCancelled(c) \/ RoundOver(c) PROVE PlaceInv'
  <2>1. UNCHANGED <<pool, dropped, chold, rhold, applied, submitted>>
    BY <1>5 DEF RoundCancelled, RoundOver, mainVars, collectorVars, resolverVars
  <2> QED BY <1>2, <2>1, QuietKeeps
<1>6. ASSUME NEW c \in Calls,
             ProposeBlock(c) \/ Caller(c) \/ Collector(c) \/ Resolver(c)
      PROVE  PlaceInv'
  <2>1. PlacesKept
    BY <1>1, <1>6, CallKeeps
  <2>2. submitted' = submitted
    BY <1>6 DEF ProposeBlock, Caller, Collector, Resolver, GetStateAtBlock, LoopError,
                LoopCancelled, LoopReceive, LoopClosed, Apply, AfterLoop, StoreProposal,
                Dequeue, Collect, CollectorDone, ResolverDone, GetTx, PrePoolCheckTx,
                SendDone
  <2> QED BY <1>2, <2>1, <2>2
<1> QED BY <1>3, <1>4, <1>5, <1>6, Zenon DEF Next

\* Places lists the places that hold a transaction.
LEMMA PlacesAre ==
    ASSUME NEW t \in Txs
    PROVE  /\ \A x \in Places(t) : \E k, c, i : x = <<k, c, i>> /\ Held(t, k, c, i)
           /\ \A k, c, i : Held(t, k, c, i) => <<k, c, i>> \in Places(t)
<1>1. ASSUME NEW x \in Places(t)
      PROVE  \E k, c, i : x = <<k, c, i>> /\ Held(t, k, c, i)
  BY DEF Places, Held, AppliedAt
<1>2. ASSUME NEW k, NEW c, NEW i, Held(t, k, c, i) PROVE <<k, c, i>> \in Places(t)
  BY <1>2 DEF Places, Held, AppliedAt
<1> QED BY <1>1, <1>2

\* A submitted transaction is in exactly one place, for any number of calls and
\* transactions and any order of their goroutines (proposer.go:109-289,
\* mempool.go:48-117).
THEOREM TransactionsInOnePlace == Spec => []OnePlace
<1>1. IInv /\ PlaceInv => OnePlace
  <2> SUFFICES ASSUME IInv, PlaceInv, NEW t \in submitted
               PROVE  Cardinality(Places(t)) = 1
    BY DEF OnePlace
  <2>1. t \in Txs
    BY DEF IInv, TypeOK
  <2>2. PICK k, c, i : Held(t, k, c, i)
    BY <2>1 DEF PlaceInv, Somewhere
  <2>3. \A l, d, j : Held(t, l, d, j) => l = k /\ d = c /\ j = i
    BY <2>1, <2>2 DEF PlaceInv, OnlyOnce
  <2>4. Places(t) = {<<k, c, i>>}
    BY <2>1, <2>2, <2>3, PlacesAre
  <2> QED BY <2>4, FS_Singleton
<1>2. Spec => []PlaceInv
  BY Invariance, PlaceInvInit, PlaceInvNext, PTL DEF Spec
<1> QED BY <1>1, <1>2, Invariance, PTL

=============================================================================
