---------------------------- MODULE MCChainSync ----------------------------
(* Instances of ChainSync for TLC.                                          *)
EXTENDS ChainSync

CONSTANTS g, b1, b2, b3, b4, c3, m, n

\* The chain g, b1, b2, b3, b4, and one with a fork at b2.
LinearParent == b1 :> g @@ b2 :> b1 @@ b3 :> b2 @@ b4 :> b3
ForkParent == c3 :> b2 @@ LinearParent

HeightOf[b \in Blocks] == IF b = Genesis THEN 0 ELSE HeightOf[Parent[b]] + 1

\* One proposer commits every block, or two take turns and fork.
OnePeer == m :> <<b1, b2, b3, b4>>
ForkPeers == m :> <<b1, b3>> @@ n :> <<b2, c3, b4>>
=============================================================================
