----------------------------- MODULE MessageStatus -----------------------------
(***************************************************************************)
(* The values of message_job_status and the changes of it that the         *)
(* statements of the runtime make.  "ABSENT" is a row not inserted yet.    *)
(***************************************************************************)
EXTENDS Naturals

Live == {"SCHEDULED", "QUEUED", "PROCESSING"}
Acknowledged == {"ACCEPTED", "SENT", "DELIVERED", "READ"}
Closed == {"DRY_RUN_COMPLETED", "FAILED", "UNKNOWN", "CANCELLED"}
Status == {"ABSENT"} \cup Live \cup Acknowledged \cup Closed

(***************************************************************************)
(* The rank that webhook acknowledgements are compared by: every status    *)
(* outside the acknowledged ones ranks 0.                                  *)
(***************************************************************************)
Rank(s) == CASE s = "ACCEPTED" -> 10 [] s = "SENT" -> 20
             [] s = "DELIVERED" -> 30 [] s = "READ" -> 40 [] OTHER -> 0

\* Mutant: the ranks are not compared, so the acknowledgement that comes last wins.
AckMoves_Last(s, a) ==
  /\ s \notin {"FAILED", "CANCELLED", "DRY_RUN_COMPLETED"}
  /\ a = "FAILED" => s \in Live \cup {"ACCEPTED", "UNKNOWN"}

(***************************************************************************)
(* updateStatusByOpenWAMessageIdWithClient: whether a row in status s is   *)
(* moved by an acknowledgement a.                                          *)
(***************************************************************************)
AckMoves(s, a) ==
  /\ s \notin {"FAILED", "CANCELLED", "DRY_RUN_COMPLETED"}
  /\ \/ a = "FAILED" /\ s \in Live \cup {"ACCEPTED", "UNKNOWN"}
     \/ a # "FAILED" /\ Rank(a) > Rank(s)

\* The statuses that webhooks carry.
AckStatus == {"SENT", "DELIVERED", "READ", "FAILED"}

\* The outcomes a processing attempt, or the expiry of its lease, records.
Outcome == {"DRY_RUN_COMPLETED", "ACCEPTED", "FAILED", "UNKNOWN"}

(***************************************************************************)
(* One permitted change of a job's status.                                 *)
(***************************************************************************)
Edge(s, t) ==
  \/ s = "ABSENT" /\ t = "SCHEDULED"
  \/ s = "SCHEDULED" /\ t \in {"QUEUED", "CANCELLED"}
  \/ s = "QUEUED" /\ t \in {"SCHEDULED", "PROCESSING", "CANCELLED"}
  \/ s = "PROCESSING" /\ t \in Outcome
  \/ s \in Acknowledged /\ t \in AckStatus /\ AckMoves(s, t)
=============================================================================
