------------------------- MODULE MessageJobLifecycle -------------------------
(***************************************************************************)
(* What the message subsystem promises about one durable message job,      *)
(* whatever workers, schedulers, queues and webhooks do around it: the     *)
(* status only moves along the edges of MessageStatus, and at most one     *)
(* OpenWA POST is started for a job, while its row says PROCESSING.        *)
(* MessageDelivery implements this specification.                          *)
(***************************************************************************)
EXTENDS MessageStatus

CONSTANT Job

VARIABLES status, posts

lifecycleVars == <<status, posts>>

Init ==
  /\ status = [j \in Job |-> "ABSENT"]
  /\ posts = [j \in Job |-> 0]

(***************************************************************************)
(* A step of one job: its status moves along an edge, or its only POST     *)
(* starts.  A job is accepted only after its POST.                         *)
(***************************************************************************)
Moves(j) ==
  /\ Edge(status[j], status'[j])
  /\ status'[j] = "ACCEPTED" => posts[j] = 1
  /\ status'[j] = "DRY_RUN_COMPLETED" => posts[j] = 0
  /\ posts'[j] = posts[j]

Posts(j) ==
  /\ status[j] = "PROCESSING"
  /\ posts[j] = 0
  /\ posts'[j] = 1
  /\ status'[j] = status[j]

Stays(j) == status'[j] = status[j] /\ posts'[j] = posts[j]

\* One SQL statement moves any number of rows.
Next ==
  /\ status' \in [Job -> Status]
  /\ posts' \in [Job -> 0..1]
  /\ \A j \in Job : Moves(j) \/ Posts(j) \/ Stays(j)

Spec == Init /\ [][Next]_lifecycleVars
=============================================================================
