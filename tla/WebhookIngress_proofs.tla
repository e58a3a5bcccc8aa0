-------------------------- MODULE WebhookIngress_proofs --------------------------
(***************************************************************************)
(* Proofs about WebhookIngress, for any events, workers, snapshots and     *)
(* number of faults.                                                       *)
(***************************************************************************)
EXTENDS WebhookIngress, TLAPS

USE WebhookAssumption

\* Each action updates some of the typed functions.
LEMMA TypeStep == TypeOK /\ [Next]_vars => TypeOK'
<1> SUFFICES ASSUME TypeOK, [Next]_vars PROVE TypeOK'
  OBVIOUS
<1> USE DEF TypeOK, Field, State, MS!Status, MS!Acknowledged, MS!Live, MS!Closed, MS!AckStatus, rows, workers, session, projections
<1>0. CASE UNCHANGED vars
  BY <1>0 DEF vars
<1>1. CASE RecoverExpiredProcessing
  BY <1>1 DEF RecoverExpiredProcessing, Released, Exhausted
<1>2. CASE Dispatch
  BY <1>2 DEF Dispatch
<1>3. CASE DispatchAborts
  BY <1>3 DEF DispatchAborts
<1>4. ASSUME NEW w \in Worker, NEW e \in Event, ClaimForProcessing(w, e) PROVE TypeOK'
  BY <1>4 DEF ClaimForProcessing, Claimable
<1>5. ASSUME NEW w \in Worker, Process(w) PROVE TypeOK'
  BY <1>5 DEF Process, Commits, Store, Observe, Newer, IsNew, UpdateStatus, Released, Owns, Idle
<1>6. ASSUME NEW w \in Worker, LosesOwnership(w) PROVE TypeOK'
  BY <1>6 DEF LosesOwnership, Idle
<1>7. ASSUME NEW w \in Worker, MarkFailed(w) PROVE TypeOK'
  BY <1>7 DEF MarkFailed, Released, Owns, Exhausted, Idle
<1>8. ASSUME NEW w \in Worker, ProcessThrows(w) PROVE TypeOK'
  BY <1>8 DEF ProcessThrows, Commits, Store, Observe, Newer, IsNew, UpdateStatus, Released, Owns
<1>9. ASSUME NEW w \in Worker, Crash(w) PROVE TypeOK'
  BY <1>9 DEF Crash, Idle
<1>10. ASSUME NEW e \in Event, Receive(e) PROVE TypeOK'
  BY <1>10 DEF Receive, Insert
<1>11. ASSUME NEW e \in Event, ReceiveUnpublished(e) PROVE TypeOK'
  BY <1>11 DEF ReceiveUnpublished, Insert
<1>12. ASSUME NEW e \in Event, DeleteWebhookEvent(e) PROVE TypeOK'
  BY <1>12 DEF DeleteWebhookEvent
<1>13. ASSUME NEW e \in Event, QueueLoses(e) PROVE TypeOK'
  BY <1>13 DEF QueueLoses
<1>14. ASSUME NEW e \in Event, LeaseExpires(e) PROVE TypeOK'
  BY <1>14 DEF LeaseExpires
<1>15. ASSUME NEW e \in Event, RetryDelayPasses(e) PROVE TypeOK'
  BY <1>15 DEF RetryDelayPasses
<1>16. ASSUME NEW s \in Snapshot, UpsertSession(s) PROVE TypeOK'
  BY <1>16 DEF UpsertSession, Newer
<1> QED
  BY <1>0, <1>1, <1>2, <1>3, <1>4, <1>5, <1>6, <1>7, <1>8, <1>9, <1>10, <1>11, <1>12, <1>13, <1>14, <1>15, <1>16 DEF Next, SchedulerStep, WorkerStep

\* Only the transaction that enters an event in the ledger makes its effects.
LEMMA OnceStep == TypeOK /\ AppliedOnce /\ [Next]_vars => AppliedOnce'
<1> SUFFICES ASSUME TypeOK, AppliedOnce, [Next]_vars PROVE AppliedOnce'
  OBVIOUS
<1> USE DEF TypeOK, AppliedOnce, State, rows, workers, session, projections
<1>0. CASE UNCHANGED vars
  BY <1>0 DEF vars
<1>1. CASE RecoverExpiredProcessing
  BY <1>1 DEF RecoverExpiredProcessing, Released, Exhausted
<1>2. CASE Dispatch
  BY <1>2 DEF Dispatch
<1>3. CASE DispatchAborts
  BY <1>3 DEF DispatchAborts
<1>4. ASSUME NEW w \in Worker, NEW e \in Event, ClaimForProcessing(w, e) PROVE AppliedOnce'
  BY <1>4 DEF ClaimForProcessing, Claimable
<1>5. ASSUME NEW w \in Worker, Process(w) PROVE AppliedOnce'
  BY <1>5 DEF Process, Commits, Store, Observe, Newer, IsNew, UpdateStatus, Released, Owns, Idle
<1>6. ASSUME NEW w \in Worker, LosesOwnership(w) PROVE AppliedOnce'
  BY <1>6 DEF LosesOwnership, Idle
<1>7. ASSUME NEW w \in Worker, MarkFailed(w) PROVE AppliedOnce'
  BY <1>7 DEF MarkFailed, Released, Owns, Exhausted, Idle
<1>8. ASSUME NEW w \in Worker, ProcessThrows(w) PROVE AppliedOnce'
  BY <1>8 DEF ProcessThrows, Commits, Store, Observe, Newer, IsNew, UpdateStatus, Released, Owns
<1>9. ASSUME NEW w \in Worker, Crash(w) PROVE AppliedOnce'
  BY <1>9 DEF Crash, Idle
<1>10. ASSUME NEW e \in Event, Receive(e) PROVE AppliedOnce'
  BY <1>10 DEF Receive, Insert
<1>11. ASSUME NEW e \in Event, ReceiveUnpublished(e) PROVE AppliedOnce'
  BY <1>11 DEF ReceiveUnpublished, Insert
<1>12. ASSUME NEW e \in Event, DeleteWebhookEvent(e) PROVE AppliedOnce'
  BY <1>12 DEF DeleteWebhookEvent
<1>13. ASSUME NEW e \in Event, QueueLoses(e) PROVE AppliedOnce'
  BY <1>13 DEF QueueLoses
<1>14. ASSUME NEW e \in Event, LeaseExpires(e) PROVE AppliedOnce'
  BY <1>14 DEF LeaseExpires
<1>15. ASSUME NEW e \in Event, RetryDelayPasses(e) PROVE AppliedOnce'
  BY <1>15 DEF RetryDelayPasses
<1>16. ASSUME NEW s \in Snapshot, UpsertSession(s) PROVE AppliedOnce'
  BY <1>16 DEF UpsertSession, Newer
<1> QED
  BY <1>0, <1>1, <1>2, <1>3, <1>4, <1>5, <1>6, <1>7, <1>8, <1>9, <1>10, <1>11, <1>12, <1>13, <1>14, <1>15, <1>16 DEF Next, SchedulerStep, WorkerStep

\* Nothing reaches a session row before it exists.
LEMMA ProjectionStep == TypeOK /\ ProjectionInv /\ [Next]_vars => ProjectionInv'
<1> SUFFICES ASSUME TypeOK, ProjectionInv, [Next]_vars PROVE ProjectionInv'
  OBVIOUS
<1> USE DEF TypeOK, ProjectionInv, Field, MS!Acknowledged, MS!AckStatus, MS!AckMoves, rows, workers, session, projections
<1>0. CASE UNCHANGED vars
  BY <1>0 DEF vars
<1>1. CASE RecoverExpiredProcessing
  BY <1>1 DEF RecoverExpiredProcessing, Released, Exhausted
<1>2. CASE Dispatch
  BY <1>2 DEF Dispatch
<1>3. CASE DispatchAborts
  BY <1>3 DEF DispatchAborts
<1>4. ASSUME NEW w \in Worker, NEW e \in Event, ClaimForProcessing(w, e) PROVE ProjectionInv'
  BY <1>4 DEF ClaimForProcessing, Claimable
<1>5. ASSUME NEW w \in Worker, Process(w) PROVE ProjectionInv'
  BY <1>5 DEF Process, Commits, Store, Observe, Newer, IsNew, UpdateStatus, Released, Owns, Idle
<1>6. ASSUME NEW w \in Worker, LosesOwnership(w) PROVE ProjectionInv'
  BY <1>6 DEF LosesOwnership, Idle
<1>7. ASSUME NEW w \in Worker, MarkFailed(w) PROVE ProjectionInv'
  BY <1>7 DEF MarkFailed, Released, Owns, Exhausted, Idle
<1>8. ASSUME NEW w \in Worker, ProcessThrows(w) PROVE ProjectionInv'
  BY <1>8 DEF ProcessThrows, Commits, Store, Observe, Newer, IsNew, UpdateStatus, Released, Owns
<1>9. ASSUME NEW w \in Worker, Crash(w) PROVE ProjectionInv'
  BY <1>9 DEF Crash, Idle
<1>10. ASSUME NEW e \in Event, Receive(e) PROVE ProjectionInv'
  BY <1>10 DEF Receive, Insert
<1>11. ASSUME NEW e \in Event, ReceiveUnpublished(e) PROVE ProjectionInv'
  BY <1>11 DEF ReceiveUnpublished, Insert
<1>12. ASSUME NEW e \in Event, DeleteWebhookEvent(e) PROVE ProjectionInv'
  BY <1>12 DEF DeleteWebhookEvent
<1>13. ASSUME NEW e \in Event, QueueLoses(e) PROVE ProjectionInv'
  BY <1>13 DEF QueueLoses
<1>14. ASSUME NEW e \in Event, LeaseExpires(e) PROVE ProjectionInv'
  BY <1>14 DEF LeaseExpires
<1>15. ASSUME NEW e \in Event, RetryDelayPasses(e) PROVE ProjectionInv'
  BY <1>15 DEF RetryDelayPasses
<1>16. ASSUME NEW s \in Snapshot, UpsertSession(s) PROVE ProjectionInv'
  BY <1>16 DEF UpsertSession, Newer
<1> QED
  BY <1>0, <1>1, <1>2, <1>3, <1>4, <1>5, <1>6, <1>7, <1>8, <1>9, <1>10, <1>11, <1>12, <1>13, <1>14, <1>15, <1>16 DEF Next, SchedulerStep, WorkerStep

\* A field changes only to a strictly newer observation, which it records.
LEMMA ShownStep == TypeOK /\ ProjectionInv /\ LatestShown /\ [Next]_vars => LatestShown'
<1> SUFFICES ASSUME TypeOK, ProjectionInv, LatestShown, [Next]_vars PROVE LatestShown'
  OBVIOUS
<1> USE DEF TypeOK, ProjectionInv, LatestShown, Field, rows, workers, session, projections
<1>0. CASE UNCHANGED vars
  BY <1>0 DEF vars
<1>1. CASE RecoverExpiredProcessing
  BY <1>1 DEF RecoverExpiredProcessing, Released, Exhausted
<1>2. CASE Dispatch
  BY <1>2 DEF Dispatch
<1>3. CASE DispatchAborts
  BY <1>3 DEF DispatchAborts
<1>4. ASSUME NEW w \in Worker, NEW e \in Event, ClaimForProcessing(w, e) PROVE LatestShown'
  BY <1>4 DEF ClaimForProcessing, Claimable
<1>5. ASSUME NEW w \in Worker, Process(w) PROVE LatestShown'
  BY <1>5 DEF Process, Commits, Store, Observe, Newer, IsNew, UpdateStatus, Released, Owns, Idle
<1>6. ASSUME NEW w \in Worker, LosesOwnership(w) PROVE LatestShown'
  BY <1>6 DEF LosesOwnership, Idle
<1>7. ASSUME NEW w \in Worker, MarkFailed(w) PROVE LatestShown'
  BY <1>7 DEF MarkFailed, Released, Owns, Exhausted, Idle
<1>8. ASSUME NEW w \in Worker, ProcessThrows(w) PROVE LatestShown'
  <2>1. CASE Commits(w)
    BY <2>1 DEF Commits, Store, Observe, Newer, IsNew
  <2>2. CASE UNCHANGED projections
    BY <2>2
  <2> QED
    BY <1>8, <2>1, <2>2 DEF ProcessThrows
<1>9. ASSUME NEW w \in Worker, Crash(w) PROVE LatestShown'
  BY <1>9 DEF Crash, Idle
<1>10. ASSUME NEW e \in Event, Receive(e) PROVE LatestShown'
  BY <1>10 DEF Receive, Insert
<1>11. ASSUME NEW e \in Event, ReceiveUnpublished(e) PROVE LatestShown'
  BY <1>11 DEF ReceiveUnpublished, Insert
<1>12. ASSUME NEW e \in Event, DeleteWebhookEvent(e) PROVE LatestShown'
  BY <1>12 DEF DeleteWebhookEvent
<1>13. ASSUME NEW e \in Event, QueueLoses(e) PROVE LatestShown'
  BY <1>13 DEF QueueLoses
<1>14. ASSUME NEW e \in Event, LeaseExpires(e) PROVE LatestShown'
  BY <1>14 DEF LeaseExpires
<1>15. ASSUME NEW e \in Event, RetryDelayPasses(e) PROVE LatestShown'
  BY <1>15 DEF RetryDelayPasses
<1>16. ASSUME NEW s \in Snapshot, UpsertSession(s) PROVE LatestShown'
  BY <1>16 DEF UpsertSession, Adopts, Newer
<1> QED
  BY <1>0, <1>1, <1>2, <1>3, <1>4, <1>5, <1>6, <1>7, <1>8, <1>9, <1>10, <1>11, <1>12, <1>13, <1>14, <1>15, <1>16 DEF Next, SchedulerStep, WorkerStep

\* An acknowledgement moves a job only to a higher rank, or to FAILED.
LEMMA AckStep == TypeOK /\ ProjectionInv /\ AckKept /\ [Next]_vars => AckKept'
<1> SUFFICES ASSUME TypeOK, ProjectionInv, AckKept, [Next]_vars PROVE AckKept'
  OBVIOUS
<1> USE DEF TypeOK, ProjectionInv, AckKept, MS!Status, MS!Acknowledged, MS!Live, MS!Closed, MS!AckStatus, MS!AckMoves, MS!Rank, rows, workers, session, projections
<1>0. CASE UNCHANGED vars
  BY <1>0 DEF vars
<1>1. CASE RecoverExpiredProcessing
  BY <1>1 DEF RecoverExpiredProcessing, Released, Exhausted
<1>2. CASE Dispatch
  BY <1>2 DEF Dispatch
<1>3. CASE DispatchAborts
  BY <1>3 DEF DispatchAborts
<1>4. ASSUME NEW w \in Worker, NEW e \in Event, ClaimForProcessing(w, e) PROVE AckKept'
  BY <1>4 DEF ClaimForProcessing, Claimable
<1>5. ASSUME NEW w \in Worker, Process(w) PROVE AckKept'
  BY <1>5 DEF Process, Commits, Store, Observe, Newer, IsNew, UpdateStatus, Released, Owns, Idle
<1>6. ASSUME NEW w \in Worker, LosesOwnership(w) PROVE AckKept'
  BY <1>6 DEF LosesOwnership, Idle
<1>7. ASSUME NEW w \in Worker, MarkFailed(w) PROVE AckKept'
  BY <1>7 DEF MarkFailed, Released, Owns, Exhausted, Idle
<1>8. ASSUME NEW w \in Worker, ProcessThrows(w) PROVE AckKept'
  BY <1>8 DEF ProcessThrows, Commits, Store, Observe, Newer, IsNew, UpdateStatus, Released, Owns
<1>9. ASSUME NEW w \in Worker, Crash(w) PROVE AckKept'
  BY <1>9 DEF Crash, Idle
<1>10. ASSUME NEW e \in Event, Receive(e) PROVE AckKept'
  BY <1>10 DEF Receive, Insert
<1>11. ASSUME NEW e \in Event, ReceiveUnpublished(e) PROVE AckKept'
  BY <1>11 DEF ReceiveUnpublished, Insert
<1>12. ASSUME NEW e \in Event, DeleteWebhookEvent(e) PROVE AckKept'
  BY <1>12 DEF DeleteWebhookEvent
<1>13. ASSUME NEW e \in Event, QueueLoses(e) PROVE AckKept'
  BY <1>13 DEF QueueLoses
<1>14. ASSUME NEW e \in Event, LeaseExpires(e) PROVE AckKept'
  BY <1>14 DEF LeaseExpires
<1>15. ASSUME NEW e \in Event, RetryDelayPasses(e) PROVE AckKept'
  BY <1>15 DEF RetryDelayPasses
<1>16. ASSUME NEW s \in Snapshot, UpsertSession(s) PROVE AckKept'
  BY <1>16 DEF UpsertSession, Newer
<1> QED
  BY <1>0, <1>1, <1>2, <1>3, <1>4, <1>5, <1>6, <1>7, <1>8, <1>9, <1>10, <1>11, <1>12, <1>13, <1>14, <1>15, <1>16 DEF Next, SchedulerStep, WorkerStep

\* All of it together is inductive.
WebhookInv == TypeOK /\ AppliedOnce /\ ProjectionInv /\ LatestShown /\ AckKept

\* Initially ...
LEMMA InvInit == Init => WebhookInv
<1> SUFFICES ASSUME Init PROVE WebhookInv
  OBVIOUS
<1>1. TypeOK
  <2>1. /\ known \in BOOLEAN
        /\ \A w \in Worker : pc[w] = "idle" <=> event[w] = NoOne
        /\ \A e \in Event : lease_token[e] # NoOne <=> processing_state[e] = "PROCESSING"
    BY DEF Init
  <2>2. /\ value \in [Field -> Value \cup {NoOne}]
        /\ observed_at \in [Field -> Nat]
        /\ offered \in [Field -> SUBSET (Nat \X Value)]
    BY DEF Init
  <2>3. jobStatus \in MS!Status
    BY DEF Init, MS!Status, MS!Acknowledged
  <2> QED
    BY <2>1, <2>2, <2>3 DEF Init, TypeOK, State
<1>2. AppliedOnce
  BY DEF Init, AppliedOnce
<1>3. ProjectionInv
  BY DEF Init, ProjectionInv, Field, MS!Acknowledged
<1>4. LatestShown /\ AckKept
  BY DEF Init, LatestShown, AckKept
<1> QED
  BY <1>1, <1>2, <1>3, <1>4 DEF WebhookInv

\* ... and in every step.
LEMMA InvStep == WebhookInv /\ [Next]_vars => WebhookInv'
  BY TypeStep, OnceStep, ProjectionStep, ShownStep, AckStep DEF WebhookInv

(***************************************************************************)
(* The types of rows, workers and projections, with the lease token present*)
(* exactly while a row is PROCESSING.                                      *)
(***************************************************************************)
THEOREM TypeCorrect == Spec => []TypeOK
<1>1. WebhookInv => TypeOK
  BY DEF WebhookInv
<1> QED
  BY <1>1, InvInit, InvStep, PTL DEF Spec

(***************************************************************************)
(* Duplicate deliveries, crashes, expired leases, lost commits and deleted rows*)
(* never make the effects of an event twice (storeInTransaction).          *)
(***************************************************************************)
THEOREM ExactlyOnce == Spec => []AppliedOnce
<1>1. WebhookInv => AppliedOnce
  BY DEF WebhookInv
<1> QED
  BY <1>1, InvInit, InvStep, PTL DEF Spec

(***************************************************************************)
(* Each session field shows the newest observation that reached its row,   *)
(* whatever order webhooks and snapshots come in.                          *)
(***************************************************************************)
THEOREM NeverRegresses == Spec => []LatestShown
<1>1. WebhookInv => LatestShown
  BY DEF WebhookInv
<1> QED
  BY <1>1, InvInit, InvStep, PTL DEF Spec

(***************************************************************************)
(* A processed acknowledgement stays visible in the job's status.          *)
(***************************************************************************)
THEOREM AckNeverLost == Spec => []AckKept
<1>1. WebhookInv => AckKept
  BY DEF WebhookInv
<1> QED
  BY <1>1, InvInit, InvStep, PTL DEF Spec
=============================================================================
