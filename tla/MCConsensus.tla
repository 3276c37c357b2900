---------------------------- MODULE MCConsensus ----------------------------
(* Instances of Consensus for TLC.                                          *)
EXTENDS Consensus, TLC

CONSTANTS n1, n2, n3, a, b

\* The leader rotates with the height and the round.
Rotate2(last, r) == IF (Len(last) + r) % 2 = 0 THEN n1 ELSE n2
Rotate3(last, r) == CASE (Len(last) + r) % 3 = 0 -> n1
                      [] (Len(last) + r) % 3 = 1 -> n2
                      [] OTHER -> n3

\* A set with one validator has one leader.
Alone(last, r) == n1

PowerSevenThree == n1 :> 7 @@ n2 :> 3
PowerTen == n1 :> 10 @@ n2 :> 10 @@ n3 :> 10
PowerAlone == n1 :> 10

\* The states an application proposes are interchangeable.
Symmetry == Permutations(AppStates)
=============================================================================
