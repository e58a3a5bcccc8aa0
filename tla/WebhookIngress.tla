----------------------------- MODULE WebhookIngress -----------------------------
(***************************************************************************)
(* Webhooks from OpenWA: the API stores each event once by idempotency     *)
(* key, the scheduler and the API publish it, workers claim it under a     *)
(* token-owned lease and apply it in one transaction with its own          *)
(* completion: the runtime_events ledger, the session projection, the      *)
(* group invalidation and the message job's acknowledgement.               *)
(*                                                                         *)
(* A lease token is the worker that claimed; a crashed worker forgets it.  *)
(* An event leaves fresh when its lease expires or is given back, and      *)
(* enters due when its next_attempt_at has passed.                         *)
(***************************************************************************)
EXTENDS Naturals, FiniteSets

CONSTANTS
  Event, Worker,
  NoOne,
  KindOf,       \* "status", "restriction", "group" or "ack"
  OccurredAt,   \* the event time, from the payload or the envelope
  Value,        \* of a session's status or restriction
  ValueOf,      \* what a status or restriction event says
  AckOf,        \* the status an ack event carries
  Snapshot,     \* the sessions that OpenWA may answer with: at, status, restriction
  MaxAttempts,  \* claims before DEAD (5)
  Together,     \* bound: the sets of events that may be in the store together
  MaxFaults     \* bound on crashes, errors, lost publications, deletions

MS == INSTANCE MessageStatus

Field == {"status", "restriction"}

ASSUME WebhookAssumption ==
  /\ NoOne \notin Worker /\ NoOne \notin Event
  /\ KindOf \in [Event -> Field \cup {"group", "ack"}]
  /\ OccurredAt \in [Event -> Nat \ {0}]
  /\ AckOf \in [Event -> MS!AckStatus]
  /\ ValueOf \in [Event -> Value]
  /\ \A s \in Snapshot :
       s.at \in Nat \ {0} /\ s["status"] \in Value /\ s["restriction"] \in Value
  /\ MaxAttempts \in Nat \ {0} /\ MaxFaults \in Nat

VARIABLES
  processing_state, attempt_count, lease_token,  \* webhook_events
  fresh, due,
  queued,               \* jobs waiting in the webhook queue
  tick,                 \* the webhook dispatch tick
  pc, event,            \* workers
  runtime_events,       \* the ledger
  effects,              \* how often the projections of an event were made
  known,                \* whether the gateway_sessions row exists
  value, observed_at,   \* its fields and their *_observed_at
  offered,              \* every observation that reached the row so far
  jobStatus,            \* the message job that ack events are about
  faults

rows == <<processing_state, attempt_count, lease_token, fresh, due>>
workers == <<pc, event>>
session == <<known, value, observed_at, offered>>
projections == <<runtime_events, effects, session, jobStatus>>
vars == <<rows, queued, tick, workers, projections, faults>>

Init ==
  /\ processing_state = [e \in Event |-> "ABSENT"]
  /\ attempt_count = [e \in Event |-> 0]
  /\ lease_token = [e \in Event |-> NoOne]
  /\ fresh = {} /\ due = {} /\ queued = {}
  /\ tick = "recover"
  /\ pc = [w \in Worker |-> "idle"]
  /\ event = [w \in Worker |-> NoOne]
  /\ runtime_events = {}
  /\ effects = [e \in Event |-> 0]
  /\ known = FALSE
  /\ value = [f \in Field |-> NoOne]
  /\ observed_at = [f \in Field |-> 0]
  /\ offered = [f \in Field |-> {}]
  /\ jobStatus = "ACCEPTED"
  /\ faults = 0

-----------------------------------------------------------------------------
(***************************************************************************)
(* WebhookController.receive, for a first or a repeated delivery: the row, *)
(* then the queue.  When the queue cannot be told the answer is an error.  *)
(***************************************************************************)
Arrives(e) ==
  LET stored == {x \in Event : processing_state[x] # "ABSENT" \/ x \in runtime_events}
  IN  \E E \in Together : stored \cup {e} \subseteq E

Insert(e) ==
  IF processing_state[e] = "ABSENT"
    THEN /\ processing_state' = [processing_state EXCEPT ![e] = "PENDING"]
         /\ due' = due \cup {e}
    ELSE UNCHANGED <<processing_state, due>>

Receive(e) ==
  /\ Arrives(e)
  /\ Insert(e)
  /\ queued' = queued \cup {e}
  /\ UNCHANGED <<attempt_count, lease_token, fresh, tick, workers, projections, faults>>

ReceiveUnpublished(e) ==
  /\ Arrives(e)
  /\ faults < MaxFaults
  /\ processing_state[e] = "ABSENT"
  /\ Insert(e)
  /\ faults' = faults + 1
  /\ UNCHANGED <<attempt_count, lease_token, fresh, queued, tick, workers, projections>>

-----------------------------------------------------------------------------
\* Mutant: one attempt more than the budget leaves the row in RETRY.
Exhausted_OffByOne(e) == attempt_count[e] > MaxAttempts

Exhausted(e) == attempt_count[e] >= MaxAttempts

\* Mutant: the lease token is not cleared.
Released_Kept(S) == lease_token

Released(S) == [e \in Event |-> IF e \in S THEN NoOne ELSE lease_token[e]]

\* recoverExpiredProcessing.
RecoverExpiredProcessing ==
  LET expired == {e \in Event : processing_state[e] = "PROCESSING" /\ e \notin fresh}
  IN
  /\ tick = "recover"
  /\ processing_state' = [e \in Event |->
       IF e \notin expired THEN processing_state[e]
       ELSE IF Exhausted(e) THEN "DEAD" ELSE "RETRY"]
  /\ due' = due \cup {e \in expired : ~Exhausted(e)}
  /\ lease_token' = Released(expired)
  /\ tick' = "dispatch"
  /\ UNCHANGED <<attempt_count, fresh, queued, workers, projections, faults>>

Claimable(e) ==
  processing_state[e] \in {"PENDING", "RETRY"} /\ attempt_count[e] < MaxAttempts
    /\ e \in due

\* listDispatchable, and a queue job for each event found.
Dispatch ==
  /\ tick = "dispatch"
  /\ queued' = queued \cup {e \in Event : Claimable(e)}
  /\ tick' = "recover"
  /\ UNCHANGED <<rows, workers, projections, faults>>

\* A statement or a publication throws, or the scheduler dies: the rest of
\* the tick is left to the next one.
DispatchAborts ==
  /\ faults < MaxFaults
  /\ tick = "dispatch"
  /\ \E S \in SUBSET {e \in Event : Claimable(e)} : queued' = queued \cup S
  /\ tick' = "recover"
  /\ faults' = faults + 1
  /\ UNCHANGED <<rows, workers, projections>>

-----------------------------------------------------------------------------
(***************************************************************************)
(* WebhookProcessorService.process on a worker.                            *)
(***************************************************************************)
Idle(w) ==
  /\ pc' = [pc EXCEPT ![w] = "idle"]
  /\ event' = [event EXCEPT ![w] = NoOne]

ClaimForProcessing(w, e) ==
  /\ pc[w] = "idle" /\ e \in queued
  /\ queued' = queued \ {e}
  /\ IF Claimable(e)
       THEN /\ processing_state' = [processing_state EXCEPT ![e] = "PROCESSING"]
            /\ attempt_count' = [attempt_count EXCEPT ![e] = @ + 1]
            /\ lease_token' = [lease_token EXCEPT ![e] = w]
            /\ fresh' = fresh \cup {e}
            /\ pc' = [pc EXCEPT ![w] = "apply"]
            /\ event' = [event EXCEPT ![w] = e]
       ELSE UNCHANGED <<processing_state, attempt_count, lease_token, fresh, workers>>
  /\ UNCHANGED <<due, tick, projections, faults>>

\* lockProcessingLease: state, token and expiry.
Owns(w) ==
  LET e == event[w] IN
  processing_state[e] = "PROCESSING" /\ lease_token[e] = w /\ e \in fresh

\* Only a strictly newer observation replaces a field.
Newer(f, t) == observed_at[f] < t

Observe(f, t, v) ==
  /\ value' = IF Newer(f, t) THEN [value EXCEPT ![f] = v] ELSE value
  /\ observed_at' = IF Newer(f, t) THEN [observed_at EXCEPT ![f] = t] ELSE observed_at
  /\ offered' = [offered EXCEPT ![f] = @ \cup {<<t, v>>}]

\* Mutant: an event already in the ledger is projected again.
IsNew_Always(e) == TRUE

IsNew(e) == e \notin runtime_events

\* storeInTransaction.  The session's update finds its row only once known.
Store(e) ==
  /\ runtime_events' = runtime_events \cup {e}
  /\ effects' = IF IsNew(e) THEN [effects EXCEPT ![e] = @ + 1] ELSE effects
  /\ IF IsNew(e) /\ KindOf[e] \in Field /\ known
       THEN Observe(KindOf[e], OccurredAt[e], ValueOf[e])
       ELSE UNCHANGED <<value, observed_at, offered>>
  /\ UNCHANGED known

\* updateStatusByOpenWAMessageIdWithClient, whether the event is new or not.
UpdateStatus(e) ==
  jobStatus' = IF KindOf[e] = "ack" /\ MS!AckMoves(jobStatus, AckOf[e])
               THEN AckOf[e] ELSE jobStatus

\* The transaction: everything about the event and its completion.
Commits(w) ==
  LET e == event[w] IN
  /\ pc[w] = "apply" /\ Owns(w)
  /\ Store(e)
  /\ UpdateStatus(e)
  /\ processing_state' = [processing_state EXCEPT ![e] = "PROCESSED"]
  /\ lease_token' = Released({e})
  /\ fresh' = fresh \ {e}
  /\ UNCHANGED <<attempt_count, due, queued, tick>>

Process(w) == Commits(w) /\ Idle(w) /\ UNCHANGED faults

LosesOwnership(w) ==
  /\ pc[w] = "apply" /\ ~Owns(w)
  /\ Idle(w)
  /\ UNCHANGED <<rows, queued, tick, projections, faults>>

\* The transaction throws, or it commits and the answer is lost.
ProcessThrows(w) ==
  /\ faults < MaxFaults
  /\ \/ Commits(w)
     \/ pc[w] = "apply" /\ UNCHANGED <<rows, queued, tick, projections>>
  /\ pc' = [pc EXCEPT ![w] = "fail"]
  /\ faults' = faults + 1
  /\ UNCHANGED event

MarkFailed(w) ==
  LET e == event[w] IN
  /\ pc[w] = "fail"
  /\ IF Owns(w)
       THEN /\ processing_state' = [processing_state EXCEPT
                 ![e] = IF Exhausted(e) THEN "DEAD" ELSE "RETRY"]
            /\ due' = IF Exhausted(e) THEN due ELSE due \ {e}
            /\ lease_token' = Released({e})
            /\ fresh' = fresh \ {e}
       ELSE UNCHANGED <<processing_state, due, lease_token, fresh>>
  /\ Idle(w)
  /\ UNCHANGED <<attempt_count, queued, tick, projections, faults>>

Crash(w) ==
  /\ faults < MaxFaults
  /\ pc[w] # "idle"
  /\ Idle(w)
  /\ faults' = faults + 1
  /\ UNCHANGED <<rows, queued, tick, projections>>

-----------------------------------------------------------------------------
(***************************************************************************)
(* Everything around: upsertSession of a session snapshot, deletion of old *)
(* finished rows (the ledger keeps events longer), a lost queue, time.     *)
(***************************************************************************)
\* Mutant: a snapshot replaces what a newer event has said.
Adopts_Always(f, s) == TRUE

\* A snapshot fills a row of its own, and of another's only what is older than it.
Adopts(f, s) == known => Newer(f, s.at)

UpsertSession(s) ==
  /\ known' = TRUE
  /\ value' = [f \in Field |-> IF Adopts(f, s) THEN s[f] ELSE value[f]]
  /\ observed_at' = [f \in Field |-> IF Adopts(f, s) THEN s.at ELSE observed_at[f]]
  /\ offered' = [f \in Field |-> offered[f] \cup {<<s.at, s[f]>>}]
  /\ UNCHANGED <<rows, queued, tick, workers, runtime_events, effects, jobStatus, faults>>

DeleteWebhookEvent(e) ==
  /\ faults < MaxFaults
  /\ processing_state[e] \in {"PROCESSED", "DEAD"}
  /\ processing_state' = [processing_state EXCEPT ![e] = "ABSENT"]
  /\ attempt_count' = [attempt_count EXCEPT ![e] = 0]
  /\ fresh' = fresh \ {e} /\ due' = due \ {e}
  /\ faults' = faults + 1
  /\ UNCHANGED <<lease_token, queued, tick, workers, projections>>

QueueLoses(e) ==
  /\ faults < MaxFaults
  /\ e \in queued
  /\ queued' = queued \ {e}
  /\ faults' = faults + 1
  /\ UNCHANGED <<rows, tick, workers, projections>>

LeaseExpires(e) ==
  /\ e \in fresh
  /\ fresh' = fresh \ {e}
  /\ UNCHANGED <<processing_state, attempt_count, lease_token, due, queued, tick, workers,
                 projections, faults>>

RetryDelayPasses(e) ==
  /\ processing_state[e] = "RETRY" /\ e \notin due
  /\ due' = due \cup {e}
  /\ UNCHANGED <<processing_state, attempt_count, lease_token, fresh, queued, tick,
                 workers, projections, faults>>

-----------------------------------------------------------------------------
SchedulerStep == RecoverExpiredProcessing \/ Dispatch

WorkerStep(w) == Process(w) \/ LosesOwnership(w) \/ MarkFailed(w)

Next ==
  \/ SchedulerStep \/ DispatchAborts
  \/ \E w \in Worker :
       \/ \E e \in Event : ClaimForProcessing(w, e)
       \/ WorkerStep(w) \/ ProcessThrows(w) \/ Crash(w)
  \/ \E e \in Event :
       \/ Receive(e) \/ ReceiveUnpublished(e) \/ DeleteWebhookEvent(e) \/ QueueLoses(e)
       \/ LeaseExpires(e) \/ RetryDelayPasses(e)
  \/ \E s \in Snapshot : UpsertSession(s)

Spec == Init /\ [][Next]_vars

\* The tick repeats, workers run on, time passes; the queue is first in, first
\* out, so a job in it is not overtaken for ever.
Fairness ==
  /\ WF_vars(SchedulerStep)
  /\ \A e \in Event : SF_vars(\E w \in Worker : ClaimForProcessing(w, e))
  /\ \A w \in Worker : WF_vars(WorkerStep(w))
  /\ \A e \in Event : WF_vars(LeaseExpires(e) \/ RetryDelayPasses(e))

FairSpec == Spec /\ Fairness

-----------------------------------------------------------------------------
State == {"ABSENT", "PENDING", "RETRY", "PROCESSING", "PROCESSED", "DEAD"}

(***************************************************************************)
(* Rows, queue, workers and projections are in their types; a row has a    *)
(* lease token exactly while it is PROCESSING, and the claims of a row     *)
(* stay within the budget (claimForProcessing, markFailed).                *)
(***************************************************************************)
TypeOK ==
  /\ processing_state \in [Event -> State]
  /\ attempt_count \in [Event -> 0..MaxAttempts]
  /\ lease_token \in [Event -> Worker \cup {NoOne}]
  /\ \A e \in Event : lease_token[e] # NoOne <=> processing_state[e] = "PROCESSING"
  /\ fresh \in SUBSET Event /\ due \in SUBSET Event /\ queued \in SUBSET Event
  /\ tick \in {"recover", "dispatch"}
  /\ pc \in [Worker -> {"idle", "apply", "fail"}]
  /\ event \in [Worker -> Event \cup {NoOne}]
  /\ \A w \in Worker : pc[w] = "idle" <=> event[w] = NoOne
  /\ runtime_events \in SUBSET Event
  /\ effects \in [Event -> Nat]
  /\ known \in BOOLEAN
  /\ value \in [Field -> Value \cup {NoOne}]
  /\ observed_at \in [Field -> Nat]
  /\ offered \in [Field -> SUBSET (Nat \X Value)]
  /\ jobStatus \in MS!Status
  /\ faults \in 0..MaxFaults

(***************************************************************************)
(* However often OpenWA delivers, workers crash, leases expire, a commit's *)
(* answer is lost or retention deletes the row, the projections of an      *)
(* event are made once; a row is PROCESSED only after that                 *)
(* (storeInTransaction, lockProcessingLease).                              *)
(***************************************************************************)
AppliedOnce ==
  \A e \in Event :
    /\ effects[e] = IF e \in runtime_events THEN 1 ELSE 0
    /\ processing_state[e] = "PROCESSED" => e \in runtime_events

(***************************************************************************)
(* "An older snapshot cannot regress webhook-owned status": each field of  *)
(* the session shows an observation that really was made, and no newer one *)
(* has reached the row, in whatever order events and snapshots arrive      *)
(* (storeInTransaction, upsertSession).                                    *)
(***************************************************************************)
LatestShown ==
  known => \A f \in Field :
    /\ <<observed_at[f], value[f]>> \in offered[f]
    /\ \A o \in offered[f] : o[1] <= observed_at[f]

(***************************************************************************)
(* A processed acknowledgement is not lost and not undone by one that      *)
(* comes late: the job's status ranks at least as high, or the job failed  *)
(* (updateStatusByOpenWAMessageIdWithClient).                              *)
(***************************************************************************)
AckKept ==
  \A e \in runtime_events :
    KindOf[e] = "ack" => MS!Rank(jobStatus) >= MS!Rank(AckOf[e]) \/ jobStatus = "FAILED"

\* What makes these inductive: nothing reaches a session row that does not
\* exist, and acknowledgements keep a job among the acknowledged ones.
ProjectionInv ==
  /\ known \/ \A f \in Field : offered[f] = {}
  /\ jobStatus \in MS!Acknowledged \cup {"FAILED"}

(***************************************************************************)
(* Every stored event is eventually processed or given up as DEAD          *)
(* (recoverExpiredProcessing, listDispatchable, markFailed).               *)
(***************************************************************************)
WebhookSettles ==
  \A e \in Event :
    processing_state[e] \in {"PENDING", "RETRY", "PROCESSING"}
      ~> processing_state[e] \in {"PROCESSED", "DEAD"}
=============================================================================
