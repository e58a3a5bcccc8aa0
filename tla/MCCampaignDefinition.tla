--------------------------- MODULE MCCampaignDefinition ---------------------------
(***************************************************************************)
(* An instance of CampaignDefinition for TLC.  A second campaign or list   *)
(* row exists only if one key could create two.                            *)
(***************************************************************************)
EXTENDS CampaignDefinition, TLC

CONSTANTS u1, u2, g1, g3

Symmetric == Permutations(Client)
=============================================================================
