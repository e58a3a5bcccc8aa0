---------------------------- MODULE MCCampaignRun ----------------------------
(***************************************************************************)
(* Instances of CampaignRun for TLC.                                       *)
(***************************************************************************)
EXTENDS CampaignRun, TLC

CONSTANTS r1, r2, g1, g2, w1, w2, op

SymGroupsWorkers == Permutations(Worker) \cup Permutations(Group)
=============================================================================
