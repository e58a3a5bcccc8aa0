----------------------------- MODULE MCGatewaySync -----------------------------
(***************************************************************************)
(* Instances of GatewaySync for TLC.                                       *)
(***************************************************************************)
EXTENDS GatewaySync, TLC

CONSTANTS r1, r2, g1, g2, w1, w2

Whole == {Group}
AllOrNone == {Group, {g1}, {}}
Symmetric == Permutations(Worker) \cup Permutations(Run)
=============================================================================
