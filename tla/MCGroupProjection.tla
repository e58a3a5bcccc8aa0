-------------------------- MODULE MCGroupProjection --------------------------
(***************************************************************************)
(* An instance of GroupProjection for TLC: a group that everybody may      *)
(* write to, which an update then reserves to administrators.  The update  *)
(* does not say whether the session is one.                                *)
(***************************************************************************)
EXTENDS GroupProjection, TLC

CONSTANTS w1, w2

OpenThenAnnounce ==
  <<[readOnly |-> "no", announce |-> "no", admin |-> "no"],
    [readOnly |-> "no", announce |-> "yes", admin |-> "null"]>>
=============================================================================
