--------------------------- MODULE MCWebhookIngress ---------------------------
(***************************************************************************)
(* The instance of WebhookIngress for TLC: a status event between two      *)
(* session snapshots in time, and two acknowledgements of a job of which   *)
(* the lower one may be the later to arrive.                               *)
(***************************************************************************)
EXTENDS WebhookIngress, TLC

CONSTANTS s, a1, a2, w1, w2

Kinds == [e \in Event |-> IF e = s THEN "status" ELSE "ack"]
Times == [e \in Event |-> 3]
Values == [e \in Event |-> "disconnected"]
Acknowledgements == [e \in Event |-> IF e = a1 THEN "READ" ELSE "DELIVERED"]
SessionsAround ==
  {[at |-> 2, status |-> "starting", restriction |-> "none"],
   [at |-> 4, status |-> "ready", restriction |-> "none"]}
SessionValues == {"ready", "disconnected", "starting", "none"}
StatusOrAcknowledgements == {{s}, {a1, a2}}
=============================================================================
