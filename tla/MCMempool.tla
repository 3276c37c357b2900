----------------------------- MODULE MCMempool -----------------------------
(* Instances of Mempool for TLC.                                            *)
EXTENDS Mempool, TLC

CONSTANTS t1, t2

\* The timestamps.
PrioOf == t1 :> 1 @@ t2 :> 2

Opts(d, w, mn, mx) == [deadline |-> d, wait |-> w, min |-> mn, max |-> mx]

\* The options of examples/chat.
Default == {Opts(0, 0, 0, 0)}

\* No limits; or one transaction per block, with the deadline at the end of the
\* round.
Several == Default \cup {Opts(100, 15, 1, 1)}

\* No limits, with the deadline at the end of the round.
AtEnd == {Opts(100, 0, 0, 0)}
=============================================================================
