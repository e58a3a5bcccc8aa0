-------------------------- MODULE MCMessageDelivery --------------------------
(***************************************************************************)
(* Instances of MessageDelivery for TLC: jobs that share one session.      *)
(***************************************************************************)
EXTENDS MessageDelivery, TLC

CONSTANTS j1, j2, s1, w1, w2

OneSession == [j \in Job |-> s1]
Symmetric == Permutations(Worker)
=============================================================================
