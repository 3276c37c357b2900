------------------------------ MODULE Mempool ------------------------------
(***************************************************************************)
(* The transaction pool and the block proposer over it, of                 *)
(* utils/transaction/mempool.  A call of ProposeBlock runs three           *)
(* goroutines: a collector that takes transactions out of the pool         *)
(* (CollectTransactions), a resolver that looks them up and checks them,   *)
(* and the caller's own, which applies them to the pending state.  They    *)
(* hand transactions on over unbuffered channels and errors over a         *)
(* buffered one, and each of them may stop while it holds a transaction.   *)
(* The caller may return before the other two end.                         *)
(*                                                                         *)
(* ManageProposer calls ProposeBlock for one snapshot after the other; a   *)
(* snapshot's context is cancelled before the next one is read.  What the  *)
(* application answers to a check or an application of a transaction, and  *)
(* which access to a database fails, is open.                              *)
(***************************************************************************)
EXTENDS Integers, Sequences, FiniteSets, Functions

CONSTANTS
    Txs,       \* the transactions
    Prio,      \* the priority the orderer gives a transaction
    Options,   \* the ProposerOpts a node may be set up with
    MaxCalls,  \* bound: how often ProposeBlock is called
    None       \* no transaction

ASSUME MempoolAssumption ==
    /\ Prio \in [Txs -> Nat]
    /\ None \notin Txs
    /\ MaxCalls \in Nat
    /\ Options \subseteq [deadline: 0..100, wait: 0..100, min: Nat, max: Nat]

VARIABLES
    opts,       \* the options; the ratios in percent
    pool,       \* the transactions in the heap
    ctx,        \* whether the context of a call's snapshot is cancelled
    over,       \* whether the end of the round of a call has passed
    cctx,       \* the collect context: open, or the error it is done with
    errs,       \* what is in the error channel of a call
    mpc,        \* the caller's goroutine: where it is,
    applied,    \*   the transactions it applied,
    result,     \*   and what the call returned
    cpc, chold, \* the collector: where it is, the transaction it holds
    cmax,       \*   and how many it may still hand on (0: any number)
    rpc, rhold, \* the resolver: where it is, and the transaction it holds
    submitted,  \* the transactions that were ever put into the pool
    dropped     \* those that were refused, or that a failed access lost

vars == <<opts, pool, ctx, over, cctx, errs, mpc, applied, result, cpc, chold,
          cmax, rpc, rhold, submitted, dropped>>
mainVars      == <<mpc, applied, result>>
collectorVars == <<cpc, chold, cmax>>
resolverVars  == <<rpc, rhold>>
timeVars      == <<opts, ctx, over>>

Calls == 1..MaxCalls

Init ==
    /\ opts \in Options
    /\ pool = {} /\ submitted = {} /\ dropped = {}
    /\ ctx = [c \in Calls |-> FALSE]
    /\ over = [c \in Calls |-> FALSE]
    /\ cctx = [c \in Calls |-> "open"]
    /\ errs = [c \in Calls |-> <<>>]
    /\ mpc = [c \in Calls |-> "idle"]
    /\ applied = [c \in Calls |-> <<>>]
    /\ result = [c \in Calls |-> "none"]
    /\ cpc = [c \in Calls |-> "off"]
    /\ chold = [c \in Calls |-> None]
    /\ cmax = [c \in Calls |-> 0]
    /\ rpc = [c \in Calls |-> "off"]
    /\ rhold = [c \in Calls |-> None]

-----------------------------------------------------------------------------
(* The pool.                                                               *)

\* The transactions that DequeueMin may return.
Minima == {t \in pool : \A u \in pool : Prio[t] <= Prio[u]}

\* Mempool.Enqueue, whose error is ignored: the orderer may fail to read a
\* transaction, which is then in nobody's hands.
Requeue(S) ==
    \E lost \in SUBSET S :
        /\ pool' = pool \cup (S \ lost)
        /\ dropped' = dropped \cup lost

\* A transaction is stored and enqueued.  Nobody waiting in
\* CollectTransactions is told: enqueueNotify is never called.
Submit(t) ==
    /\ t \notin submitted
    /\ submitted' = submitted \cup {t}
    /\ pool' = pool \cup {t}
    /\ UNCHANGED <<timeVars, cctx, errs, mainVars, collectorVars, resolverVars, dropped>>

-----------------------------------------------------------------------------
(* Contexts and time.                                                      *)

\* A ratio is converted to a Duration, an integer, before it is multiplied with
\* the duration of the round: only 1 is not 0.
Truncated(ratio) == ratio \div 100

\* Done with an error, if it is not done yet.
Done(c, e) == IF cctx[c] = "open" THEN [cctx EXCEPT ![c] = e] ELSE cctx

\* The next snapshot is emitted, at the end of the round or before.
RoundCancelled(c) ==
    /\ mpc[c] # "idle" /\ ~ ctx[c]
    /\ ctx' = [ctx EXCEPT ![c] = TRUE]
    /\ cctx' = Done(c, "canceled")
    /\ UNCHANGED <<opts, pool, over, errs, mainVars, collectorVars, resolverVars,
                   submitted, dropped>>

\* The end of the round passes, which is the deadline if the ratio is 1.  It
\* is left out where nobody looks at the clock.
RoundOver(c) ==
    /\ mpc[c] # "idle" /\ ~ over[c]
    /\ \/ Truncated(opts.wait) = 1 /\ mpc[c] \in {"loop", "apply"}
       \/ Truncated(opts.deadline) = 1 /\ cctx[c] = "open"
    /\ over' = [over EXCEPT ![c] = TRUE]
    /\ cctx' = IF Truncated(opts.deadline) = 1 THEN Done(c, "deadline") ELSE cctx
    /\ UNCHANGED <<opts, pool, ctx, errs, mainVars, collectorVars, resolverVars,
                   submitted, dropped>>

-----------------------------------------------------------------------------
(* The caller: ProposeBlock.                                               *)

\* An error, or nil, is put into the error channel.
SendError(c, e) ==
    errs' = [errs EXCEPT ![c] = IF mpc[c] = "ret" THEN @ ELSE Append(@, e)]

\* A call returns: the collect context is cancelled, and nobody reads the error
\* channel any more.
Return(c, r) ==
    /\ mpc' = [mpc EXCEPT ![c] = "ret"]
    /\ result' = [result EXCEPT ![c] = r]
    /\ cctx' = Done(c, "canceled")
    /\ errs' = [errs EXCEPT ![c] = <<>>]

\* The call begins, and with it the collector.  With a ratio between 0 and 1 the
\* deadline is the start of the round, and the collect context is done.
ProposeBlock(c) ==
    /\ mpc[c] = "idle"
    /\ \A d \in 1..(c - 1) : mpc[d] = "ret" /\ ctx[d]
    /\ mpc' = [mpc EXCEPT ![c] = "state"]
    /\ cpc' = [cpc EXCEPT ![c] = "take"]
    /\ cmax' = [cmax EXCEPT ![c] = opts.max]
    /\ cctx' = IF opts.deadline # 0 /\ Truncated(opts.deadline) = 0
               THEN Done(c, "deadline") ELSE cctx
    /\ UNCHANGED <<timeVars, pool, errs, applied, result, chold, resolverVars,
                   submitted, dropped>>

\* The application has a state for the parent block, and the resolver begins;
\* or it has none, and the call returns while the collector runs.
GetStateAtBlock(c) ==
    /\ mpc[c] = "state"
    /\ \/ /\ mpc' = [mpc EXCEPT ![c] = "loop"]
          /\ rpc' = [rpc EXCEPT ![c] = "recv"]
          /\ UNCHANGED <<cctx, errs, result>>
       \/ Return(c, "error") /\ UNCHANGED rpc
    /\ UNCHANGED <<timeVars, pool, applied, collectorVars, rhold,
                   submitted, dropped>>

\* requeueTxs, and the return.
RequeueAndReturn(c, r) ==
    /\ Requeue(Range(applied[c]))
    /\ applied' = [applied EXCEPT ![c] = <<>>]
    /\ Return(c, r)

\* The caller reads the error channel, on which the collector's nil comes too.
LoopError(c) ==
    /\ mpc[c] = "loop" /\ errs[c] # <<>>
    /\ LET err == Head(errs[c])
       IN  \/ /\ err = "nil"
              /\ errs' = [errs EXCEPT ![c] = Tail(@)]
              /\ UNCHANGED <<mainVars, cctx, pool, dropped>>
           \/ /\ err = "canceled" /\ applied[c] = <<>>
              /\ Return(c, "abstain")
              /\ UNCHANGED <<applied, pool, dropped>>
           \/ /\ err # "nil" /\ ~ (err = "canceled" /\ applied[c] = <<>>)
              /\ RequeueAndReturn(c, err)
    /\ UNCHANGED <<timeVars, collectorVars, resolverVars, submitted>>

LoopCancelled(c) ==
    /\ mpc[c] = "loop" /\ ctx[c]
    /\ RequeueAndReturn(c, "canceled")
    /\ UNCHANGED <<timeVars, collectorVars, resolverVars, submitted>>

\* The caller takes a transaction from the resolver,
LoopReceive(c) ==
    /\ mpc[c] = "loop" /\ rpc[c] = "send"
    /\ applied' = [applied EXCEPT ![c] = Append(@, rhold[c])]
    /\ mpc' = [mpc EXCEPT ![c] = "apply"]
    /\ rpc' = [rpc EXCEPT ![c] = "recv"]
    /\ rhold' = [rhold EXCEPT ![c] = None]
    /\ UNCHANGED <<timeVars, pool, cctx, errs, result, collectorVars,
                   submitted, dropped>>

\* or finds that the resolver has closed the channel.
LoopClosed(c) ==
    /\ mpc[c] = "loop" /\ rpc[c] = "done"
    /\ mpc' = [mpc EXCEPT ![c] = "check"]
    /\ UNCHANGED <<timeVars, pool, cctx, errs, applied, result, collectorVars,
                   resolverVars, submitted, dropped>>

\* More than the minimum, and the maximum (0 counts as reached) or the time to
\* wait.
Enough(c) ==
    LET count == Len(applied[c])
    IN  /\ IF opts.min = 0 THEN count # 0 ELSE count > opts.min
        /\ count >= opts.max \/ Truncated(opts.wait) = 0 \/ over[c]

\* ApplicationState.Apply: the transaction is applied, refused, or a system
\* error ends the call.
Apply(c) ==
    /\ mpc[c] = "apply"
    /\ \/ /\ mpc' = [mpc EXCEPT ![c] = IF Enough(c) THEN "check" ELSE "loop"]
          /\ UNCHANGED <<applied, result, cctx, errs, pool, dropped>>
       \/ /\ mpc' = [mpc EXCEPT ![c] = "loop"]
          /\ applied' = [applied EXCEPT ![c] = SubSeq(@, 1, Len(@) - 1)]
          /\ dropped' = dropped \cup {applied[c][Len(applied[c])]}
          /\ UNCHANGED <<result, cctx, errs, pool>>
       \/ RequeueAndReturn(c, "error")
    /\ UNCHANGED <<timeVars, collectorVars, resolverVars, submitted>>

\* The error channel is read once more; an error is returned as it is, and the
\* applied transactions are not requeued.
AfterLoop(c) ==
    /\ mpc[c] = "check"
    /\ LET err == IF errs[c] = <<>> THEN "nil" ELSE Head(errs[c])
       IN  \/ /\ err # "nil"
              /\ Return(c, err)
              /\ UNCHANGED <<applied, pool, dropped>>
           \/ /\ err = "nil" /\ Len(applied[c]) < opts.min
              /\ RequeueAndReturn(c, "abstain")
           \/ /\ err = "nil" /\ Len(applied[c]) >= opts.min
              /\ mpc' = [mpc EXCEPT ![c] = "store"]
              /\ errs' = [errs EXCEPT ![c] = IF @ = <<>> THEN @ ELSE Tail(@)]
              /\ UNCHANGED <<applied, result, cctx, pool, dropped>>
    /\ UNCHANGED <<timeVars, collectorVars, resolverVars, submitted>>

\* The state, the transaction set and the block state are stored; or storing
\* one of them fails.
StoreProposal(c) ==
    /\ mpc[c] = "store"
    /\ \/ Return(c, "proposed") /\ UNCHANGED <<applied, pool, dropped>>
       \/ RequeueAndReturn(c, "error")
    /\ UNCHANGED <<timeVars, collectorVars, resolverVars, submitted>>

-----------------------------------------------------------------------------
(* The collector: CollectTransactions, until it returns and the channel of  *)
(* collected transactions is closed.                                       *)

CollectorReturn(c, e) ==
    /\ cpc' = [cpc EXCEPT ![c] = "done"]
    /\ chold' = [chold EXCEPT ![c] = None]
    /\ SendError(c, e)

Dequeue(c) ==
    /\ cpc[c] = "take"
    /\ \/ \E t \in Minima :
             /\ pool' = pool \ {t}
             /\ chold' = [chold EXCEPT ![c] = t]
             /\ cpc' = [cpc EXCEPT ![c] = "hold"]
             /\ UNCHANGED errs
       \/ /\ pool = {}
          /\ cpc' = [cpc EXCEPT ![c] = "empty"]
          /\ UNCHANGED <<pool, chold, errs>>
       \/ CollectorReturn(c, "error") /\ UNCHANGED pool
    /\ UNCHANGED <<timeVars, cctx, mainVars, cmax, resolverVars, submitted, dropped>>

\* Mutant: the maximum is not counted down.
CollectAny(c) ==
    /\ cpc[c] = "hold" /\ rpc[c] = "recv"
    /\ rhold' = [rhold EXCEPT ![c] = chold[c]]
    /\ rpc' = [rpc EXCEPT ![c] = "get"]
    /\ cpc' = [cpc EXCEPT ![c] = "take"]
    /\ chold' = [chold EXCEPT ![c] = None]
    /\ UNCHANGED <<timeVars, pool, cctx, errs, cmax, mainVars, submitted, dropped>>

\* The resolver takes the transaction.
Collect(c) ==
    /\ cpc[c] = "hold" /\ rpc[c] = "recv"
    /\ rhold' = [rhold EXCEPT ![c] = chold[c]]
    /\ rpc' = [rpc EXCEPT ![c] = "get"]
    /\ cmax' = [cmax EXCEPT ![c] = IF @ = 0 THEN 0 ELSE @ - 1]
    /\ \/ /\ cmax[c] = 1
          /\ CollectorReturn(c, "nil")
       \/ /\ cmax[c] # 1
          /\ cpc' = [cpc EXCEPT ![c] = "take"]
          /\ chold' = [chold EXCEPT ![c] = None]
          /\ UNCHANGED errs
    /\ UNCHANGED <<timeVars, pool, cctx, mainVars, submitted, dropped>>

\* Mutant: the collector does not watch the context while the pool is empty.
CollectorDoneHolding(c) ==
    /\ cpc[c] = "hold" /\ cctx[c] # "open"
    /\ Requeue({chold[c]})
    /\ CollectorReturn(c, cctx[c])
    /\ UNCHANGED <<timeVars, cctx, mainVars, cmax, resolverVars, submitted>>

\* The collect context is done while the collector offers a transaction or waits
\* for one.
CollectorDone(c) ==
    /\ cpc[c] \in {"hold", "empty"} /\ cctx[c] # "open"
    /\ Requeue({chold[c]} \ {None})
    /\ CollectorReturn(c, cctx[c])
    /\ UNCHANGED <<timeVars, cctx, mainVars, cmax, resolverVars, submitted>>

-----------------------------------------------------------------------------
(* The resolver.                                                           *)

\* Mutant: the resolver keeps a transaction it has put back.
ResolverGoesToKeeps(c, pc) ==
    /\ rpc' = [rpc EXCEPT ![c] = pc]
    /\ UNCHANGED rhold

ResolverGoesTo(c, pc) ==
    /\ rpc' = [rpc EXCEPT ![c] = pc]
    /\ rhold' = [rhold EXCEPT ![c] = None]

\* The collector has closed its channel, or the collect context is done.
ResolverDone(c) ==
    /\ rpc[c] = "recv"
    /\ cpc[c] = "done" \/ cctx[c] # "open"
    /\ ResolverGoesTo(c, "done")
    /\ UNCHANGED <<timeVars, pool, cctx, errs, mainVars, collectorVars, submitted, dropped>>

\* The lookup was interrupted, and the transaction is requeued; or it failed, and
\* the transaction is dropped.
LookupFails(c) ==
    /\ \/ cctx[c] # "open" /\ Requeue({rhold[c]})
       \/ dropped' = dropped \cup {rhold[c]} /\ UNCHANGED pool
    /\ ResolverGoesTo(c, "recv")

\* TxDatabase.GetTx: the entry and the message of the transaction are read.
GetTx(c) ==
    /\ rpc[c] = "get"
    /\ \/ /\ rpc' = [rpc EXCEPT ![c] = "precheck"]
          /\ UNCHANGED <<rhold, pool, dropped>>
       \/ LookupFails(c)
    /\ UNCHANGED <<timeVars, cctx, errs, mainVars, collectorVars, submitted>>

\* A system error, or that of the cancelled context, is passed on to the caller
\* and ends the collection.
PrePoolCheckError(c, e) ==
    /\ SendError(c, e)
    /\ Requeue({rhold[c]})
    /\ cctx' = Done(c, "canceled")
    /\ ResolverGoesTo(c, "done")

\* ApplicationState.PrePoolCheckTx: good; refused, which ends the resolver too;
\* or an error.
PrePoolCheckTx(c) ==
    /\ rpc[c] = "precheck"
    /\ \/ /\ rpc' = [rpc EXCEPT ![c] = "send"]
          /\ UNCHANGED <<rhold, pool, cctx, errs, dropped>>
       \/ /\ dropped' = dropped \cup {rhold[c]}
          /\ ResolverGoesTo(c, "done")
          /\ UNCHANGED <<pool, cctx, errs>>
       \/ PrePoolCheckError(c, "error")
       \/ ctx[c] /\ PrePoolCheckError(c, "canceled")
    /\ UNCHANGED <<timeVars, mainVars, collectorVars, submitted>>

\* Mutant: the transaction is put back, and the resolver still offers it.
SendDoneStillSends(c) ==
    /\ rpc[c] = "send" /\ cctx[c] # "open"
    /\ Requeue({rhold[c]})
    /\ UNCHANGED <<timeVars, cctx, errs, mainVars, collectorVars, resolverVars, submitted>>

\* The context is done before the caller takes the transaction.
SendDone(c) ==
    /\ rpc[c] = "send" /\ cctx[c] # "open"
    /\ Requeue({rhold[c]})
    /\ ResolverGoesTo(c, "done")
    /\ UNCHANGED <<timeVars, cctx, errs, mainVars, collectorVars, submitted>>

-----------------------------------------------------------------------------
Caller(c) ==
    \/ GetStateAtBlock(c) \/ LoopError(c) \/ LoopCancelled(c) \/ LoopReceive(c)
    \/ LoopClosed(c) \/ Apply(c) \/ AfterLoop(c) \/ StoreProposal(c)
Collector(c) == Dequeue(c) \/ Collect(c) \/ CollectorDone(c)
Resolver(c)  == ResolverDone(c) \/ GetTx(c) \/ PrePoolCheckTx(c) \/ SendDone(c)

Next ==
    \/ \E t \in Txs : Submit(t)
    \/ \E c \in Calls :
          \/ ProposeBlock(c) \/ Caller(c) \/ Collector(c) \/ Resolver(c)
          \/ RoundCancelled(c) \/ RoundOver(c)

Spec == Init /\ [][Next]_vars

\* The goroutines of a call go on as long as one of them can, and the chain
\* eventually emits the next snapshot.  A select chooses at random among the
\* cases that are ready, so a context that is done is not overlooked for ever.
Fairness ==
    \A c \in Calls :
        /\ WF_vars(Caller(c) \/ Collector(c) \/ Resolver(c))
        /\ SF_vars(CollectorDone(c) \/ ResolverDone(c))
        /\ WF_vars(RoundCancelled(c))

FairSpec == Spec /\ Fairness

-----------------------------------------------------------------------------
(* Properties.                                                             *)

CallResults == {"none", "proposed", "abstain", "canceled", "deadline", "error"}

\* The type invariant: a goroutine holds a transaction exactly while it is at a
\* place that needs one, and the error channel is within its buffer, so that
\* nobody blocks on sending an error (proposer.go:116).
TypeOK ==
    /\ opts \in Options
    /\ pool \subseteq Txs /\ submitted \subseteq Txs /\ dropped \subseteq Txs
    /\ ctx \in [Calls -> BOOLEAN] /\ over \in [Calls -> BOOLEAN]
    /\ cctx \in [Calls -> {"open", "canceled", "deadline"}]
    /\ mpc \in [Calls -> {"idle", "state", "loop", "apply", "check", "store", "ret"}]
    /\ applied \in [Calls -> Seq(Txs)]
    /\ result \in [Calls -> CallResults]
    /\ cpc \in [Calls -> {"off", "take", "hold", "empty", "done"}]
    /\ rpc \in [Calls -> {"off", "recv", "get", "precheck", "send", "done"}]
    /\ cmax \in [Calls -> Nat]
    /\ errs \in [Calls -> Seq({"nil", "canceled", "deadline", "error"})]
    /\ chold \in [Calls -> Txs \cup {None}] /\ rhold \in [Calls -> Txs \cup {None}]
    /\ \A c \in Calls :
          /\ chold[c] # None <=> cpc[c] = "hold"
          /\ rhold[c] # None <=> rpc[c] \in {"get", "precheck", "send"}
          /\ Len(errs[c]) <= 3

\* Where a transaction is: in the pool, in the hands of a goroutine, among those
\* a call applied (and proposed, if it returned a proposal), or dropped.
Places(t) ==
    {<<"pool", 0, 0>> : u \in pool \cap {t}}
    \cup {<<"dropped", 0, 0>> : u \in dropped \cap {t}}
    \cup {<<"collector", c, 0>> : c \in {d \in Calls : chold[d] = t}}
    \cup {<<"resolver", c, 0>> : c \in {d \in Calls : rhold[d] = t}}
    \cup UNION {{<<"applied", c, i>> : i \in {j \in 1..Len(applied[c]) : applied[c][j] = t}} :
                   c \in Calls}

\* A submitted transaction is always in exactly one place: no interleaving of
\* the goroutines of two calls, cancellation, deadline or error leaves one in
\* nobody's hands or in two, or lets it be proposed by two calls.  The one way to
\* lose it is in here, not excluded: those applied by a call that AfterLoop ends
\* stay with it (FoundIsProcessed; proposer.go:109-246, mempool.go:87-117).
OnePlace == \A t \in submitted : Cardinality(Places(t)) = 1

\* A proposed block has at least the minimum and, if there is one, at most the
\* maximum number of transactions, although the maximum is counted by the
\* collector and the block is filled by the caller (mempool.go:103-108,
\* proposer.go:227-255).
BlockWithinLimits ==
    \A c \in Calls :
        result[c] = "proposed" =>
            /\ Len(applied[c]) >= opts.min
            /\ opts.max # 0 => Len(applied[c]) <= opts.max

\* A call that began returns, and its collector and resolver end: nobody waits
\* for ever on a channel that nobody serves (proposer.go:117-173).
CallsEnd ==
    \A c \in Calls :
        mpc[c] # "idle" ~> /\ mpc[c] = "ret"
                           /\ cpc[c] = "done"
                           /\ rpc[c] \in {"off", "done"}

\* proposer.go:48 "After this deadline, if at least one transaction was found,
\* it will be processed in the block": a call that returns for the deadline has
\* no transactions left that it neither proposed nor put back.
FoundIsProcessed ==
    \A c \in Calls : result[c] = "deadline" => applied[c] = <<>>

-----------------------------------------------------------------------------
(* The inductive invariant of a call, behind TypeOK and BlockWithinLimits.  *)

\* What a place of the caller's goroutine says of the rest of the call.
InStep(c) ==
    /\ mpc[c] = "idle" => cpc[c] = "off"
    /\ mpc[c] \in {"idle", "state"} => rpc[c] = "off" /\ applied[c] = <<>>
    /\ mpc[c] = "apply" => applied[c] # <<>>
    /\ mpc[c] # "ret" => result[c] = "none"
    /\ mpc[c] = "store" \/ result[c] = "proposed" => Len(applied[c]) >= opts.min

\* The collector and the resolver each send at most one error, when they end.
Ended(pc) == IF pc = "done" THEN 1 ELSE 0
ErrorsFit(c) == Len(errs[c]) <= Ended(cpc[c]) + Ended(rpc[c])

\* What was applied, what is on its way from the collector to the caller and what
\* the collector may still hand on is within the maximum, if there is one; a
\* collector that runs may hand on another one.
OnTheWay(c) == IF rhold[c] = None THEN 0 ELSE 1
Counted(c) ==
    opts.max # 0 =>
        /\ cpc[c] \in {"take", "hold", "empty"} => cmax[c] >= 1
        /\ Len(applied[c]) + OnTheWay(c) + cmax[c] <= opts.max

IInv == TypeOK /\ \A c \in Calls : InStep(c) /\ ErrorsFit(c) /\ Counted(c)
=============================================================================
