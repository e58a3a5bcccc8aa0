-------------------------- MODULE CampaignRun_proofs --------------------------
(***************************************************************************)
(* Campaign and run agree, terminal runs are quiet and stay terminal, the  *)
(* buffer is bounded and deliveries follow their jobs, for any runs,       *)
(* groups, workers, operators and faults.                                  *)
(***************************************************************************)
EXTENDS CampaignRun, FiniteSetTheorems, TLAPS

(***************************************************************************)
(* A transaction past its check is the only one of its run, and the run    *)
(* still has the status it checked: every writer waits for the row lock.   *)
(***************************************************************************)
LockInv ==
  \A a \in Actor :
    pc[a] = "commit" =>
      /\ a \in Worker => run[at[a]] = "PREPARING"
      /\ a \in Operator => run[at[a]] \in {"PAUSED", "BLOCKED"}
      /\ \A b \in Actor : pc[b] = "commit" /\ at[b] = at[a] => b = a

(***************************************************************************)
(* Deliveries exist from the commit of the first preflight on, or from the *)
(* cancellation; before that the run has none.                             *)
(***************************************************************************)
RowsInv ==
  \A d \in Run \X Group :
    /\ run[d[1]] \in {"ABSENT", "PREPARING", "FAILED"} => delivery[d] = "NONE"
    /\ run[d[1]] \in {"SCHEDULED", "RUNNING", "PAUSED", "CANCELLED"}
         => delivery[d] # "NONE"

(***************************************************************************)
(* A delivery that was reconciled has a job that a worker has claimed.     *)
(***************************************************************************)
ClaimedInv ==
  \A d \in Run \X Group :
    delivery[d] \in Reconciled \ {"CANCELLED"} => jobs[d] \in Reconciled \ {"CANCELLED"}

(***************************************************************************)
(* What finalize found finished is still finished when it updates the run: *)
(* in between the run may be paused, resumed, blocked or cancelled.        *)
(***************************************************************************)
VerdictInv ==
  \A r \in Run :
    verdict[r] # "none" =>
      /\ tick = "finalize"
      /\ run[r] \in {"SCHEDULED", "RUNNING", "PAUSED", "BLOCKED", "CANCELLED"}
      /\ \A d \in Run \X Group :
           d[1] = r => delivery[d] \notin Open \cup {"NONE"}

(***************************************************************************)
(* What an actor has read of a group is not newer than the group.          *)
(***************************************************************************)
SeenInv == \A a \in Actor, g \in Group : seen[a][g].rev <= revision[g]

Inv ==
  /\ TypeOK
  /\ LockInv
  /\ RowsInv
  /\ ClaimedInv
  /\ VerdictInv
  /\ SeenInv
  /\ NoLifecycleDrift
  /\ DeliveryFollowsJob
  /\ TerminalRunQuiet
  /\ BufferBounded
  /\ SnapshotNotOlder

USE CampaignAssumption

-----------------------------------------------------------------------------
(***************************************************************************)
(* Types.                                                                  *)
(***************************************************************************)
ActorsTyped ==
  /\ pc \in [Actor -> {"idle", "context", "evaluate", "apply", "commit", "fail"}]
  /\ at \in [Actor -> Run \cup {NoRun}]
  /\ \A a \in Actor : at[a] = NoRun <=> pc[a] = "idle"
  /\ seen \in [Actor -> [Group -> Observation]]
  /\ report \in [Actor -> {"none", "PASS", "WARN", "BLOCK"}]

RowsTyped ==
  /\ campaign \in {"DRAFT", "ACTIVE", "PAUSED", "ARCHIVED"}
  /\ run \in [Run -> RunStatus]
  /\ mode \in [Run -> Mode]
  /\ startable \in SUBSET Run /\ fresh \in SUBSET Run /\ due \in SUBSET Run
  /\ attempts \in [Run -> 0..MaxAttempts]
  /\ holder \in [Run -> Worker \cup {NoOne}]

DeliveriesTyped ==
  /\ snapshot \in [Run \X Group -> Nat] /\ vetted \in [Run \X Group -> Nat]
  /\ delivery \in [Run \X Group -> DeliveryStatus]
  /\ jobs \in [Run \X Group -> MS!Status]

RestTyped ==
  /\ capability \in [Group -> Capability]
  /\ revision \in [Group -> Nat]
  /\ session \in {"ready", "down"}
  /\ published \in SUBSET Run /\ toMaterialize \in SUBSET Run
  /\ tick \in {"recover", "list", "activate", "reconcile", "scan", "finalize",
               "running", "materialize"}
  /\ verdict \in [Run -> {"none", "COMPLETED", "PARTIAL_FAILED"}]
  /\ faults \in 0..MaxFaults

\* TypeOK in parts, so that an action only has to keep the parts it writes.
LEMMA TypeParts ==
  /\ TypeOK <=> ActorsTyped /\ RowsTyped /\ DeliveriesTyped /\ RestTyped
  /\ TypeOK' <=> ActorsTyped' /\ RowsTyped' /\ DeliveriesTyped' /\ RestTyped'
BY DEF TypeOK, ActorsTyped, RowsTyped, DeliveriesTyped, RestTyped

\* Parts that no action has written stay as they are.
LEMMA PartsKept ==
  /\ ActorsTyped /\ UNCHANGED actors => ActorsTyped'
  /\ RowsTyped /\ UNCHANGED <<campaign, runRows>> => RowsTyped'
  /\ DeliveriesTyped /\ UNCHANGED <<deliveryRows, vetted>> => DeliveriesTyped'
  /\ RestTyped /\ UNCHANGED <<gateway, published, scheduler, faults>> => RestTyped'
BY DEF ActorsTyped, RowsTyped, DeliveriesTyped, RestTyped, actors, runRows, deliveryRows,
       gateway, scheduler

\* An actor that ends its work, or moves on within it, stays in its types.
LEMMA ActorTypes ==
  ASSUME ActorsTyped, NEW a \in Actor
  PROVE  /\ Idle(a) => ActorsTyped'
         /\ \A p \in {"context", "evaluate", "apply", "commit", "fail"} :
              pc[a] # "idle" /\ Goto(a, p) => ActorsTyped'
<1> USE DEF ActorsTyped
<1>1. ASSUME Idle(a) PROVE ActorsTyped'
  <2>1. [g \in Group |-> [rev |-> 0, cap |-> "ALLOWED"]] \in [Group -> Observation]
    BY DEF Observation, Capability
  <2>2. seen' \in [Actor -> [Group -> Observation]]
    BY <1>1, <2>1 DEF Idle
  <2> QED BY <1>1, <2>2 DEF Idle
<1>2. ASSUME NEW p \in {"context", "evaluate", "apply", "commit", "fail"},
             pc[a] # "idle", Goto(a, p)
      PROVE  ActorsTyped'
  BY <1>2 DEF Goto
<1> QED BY <1>1, <1>2

\* What Reads stores is an observation of every group.
LEMMA ReadsTyped ==
  ASSUME ActorsTyped, RestTyped, NEW a \in Actor, Reads(a)
  PROVE  seen' \in [Actor -> [Group -> Observation]]
<1>1. [g \in Group |-> [rev |-> revision[g], cap |-> capability[g]]]
        \in [Group -> Observation]
  BY DEF Observation, RestTyped
<1> QED BY <1>1 DEF Reads, ActorsTyped

\* An actor that works has a run.
LEMMA AtRun ==
  ASSUME ActorsTyped, NEW a \in Actor, pc[a] # "idle"
  PROVE  at[a] \in Run
BY DEF ActorsTyped

\* The deliveries and revisions that are inserted or copied are in their types.
LEMMA InsertsTyped ==
  ASSUME DeliveriesTyped, RestTyped, NEW r \in Run, NEW D \in SUBSET (Run \X Group)
  PROVE  /\ WithDeliveries(r) \in [Run \X Group -> DeliveryStatus]
         /\ Recopied(D) \in [Run \X Group -> Nat]
<1>1. \A d \in Run \X Group : d[2] \in Group
  OBVIOUS
<1>2. "PENDING" \in DeliveryStatus
  BY DEF DeliveryStatus
<1> QED BY <1>1, <1>2 DEF WithDeliveries, Recopied, DeliveriesTyped, RestTyped

\* Preparation workers keep the types.
LEMMA WorkerTypes ==
  ASSUME TypeOK, NEW w \in Worker,
         WorkerStep(w) \/ PreparationThrows(w) \/ WorkerCrashes(w)
  PROVE  TypeOK'
<1> USE TypeParts, PartsKept
<1>0. /\ ActorsTyped /\ RowsTyped /\ DeliveriesTyped /\ RestTyped
      /\ w \in Actor
  BY DEF Actor
<1>1. CASE \E r \in Run : ClaimPreparation(w, r)
  <2>1. PICK r \in Run : ClaimPreparation(w, r)
    BY <1>1
  <2>2. RowsTyped'
    BY <1>0, <2>1 DEF ClaimPreparation, Claimable, RowsTyped, actors
  <2>3. ActorsTyped'
    <3>1. CASE Claimable(r)
      <4>1. /\ pc' = [pc EXCEPT ![w] = "context"]
            /\ at' = [at EXCEPT ![w] = r]
            /\ UNCHANGED <<seen, report>>
        BY <2>1, <3>1 DEF ClaimPreparation
      <4> QED BY ONLY <1>0, <4>1, CampaignAssumption DEF ActorsTyped
    <3>2. CASE ~Claimable(r)
      BY <1>0, <2>1, <3>2 DEF ClaimPreparation
    <3> QED BY <3>1, <3>2
  <2>4. RestTyped'
    BY <1>0, <2>1 DEF ClaimPreparation, RestTyped, gateway, scheduler
  <2> QED BY <1>0, <2>1, <2>2, <2>3, <2>4 DEF ClaimPreparation, deliveryRows
<1>2. CASE ReadContext(w)
  <2>1. ActorsTyped'
    <3>1. CASE run[at[w]] = "PREPARING"
      <4>1. Reads(w)
        BY <1>2, <3>1 DEF ReadContext
      <4>2. seen' \in [Actor -> [Group -> Observation]]
        BY <1>0, <4>1, ReadsTyped
      <4>3. /\ pc[w] = "context"
            /\ pc' = [pc EXCEPT ![w] = "evaluate"]
            /\ UNCHANGED <<at, report>>
        BY <1>2, <3>1 DEF ReadContext
      <4> QED BY ONLY <1>0, <4>2, <4>3 DEF ActorsTyped
    <3>2. CASE run[at[w]] # "PREPARING"
      BY <1>0, <1>2, <3>2, ActorTypes DEF ReadContext
    <3> QED BY <3>1, <3>2
  <2> QED BY <1>0, <1>2, <2>1 DEF ReadContext
<1>3. CASE Evaluate(w)
  <2>1. ActorsTyped'
    BY <1>0, <1>3 DEF Evaluate, Preflight, ActorsTyped
  <2> QED BY <1>0, <1>3, <2>1 DEF Evaluate
<1>4. CASE ApplyPreflight(w)
  <2>1. at[w] \in Run /\ pc[w] # "idle"
    BY <1>0, <1>4, AtRun DEF ApplyPreflight
  <2>2. ActorsTyped'
    BY <1>0, <1>4, <2>1, ActorTypes DEF ApplyPreflight
  <2>3. RowsTyped'
    BY <1>0, <1>4, <2>1 DEF ApplyPreflight, RowsTyped, NoLease, RunStatus, Controllable
  <2> QED BY <1>0, <1>4, <2>2, <2>3 DEF ApplyPreflight
<1>5. CASE CommitPreflight(w)
  <2>1. at[w] \in Run /\ pc[w] # "idle"
    BY <1>0, <1>5, AtRun DEF CommitPreflight
  <2>2. ActorsTyped'
    BY <1>0, <1>5, <2>1, ActorTypes DEF CommitPreflight
  <2>3. RowsTyped'
    BY <1>0, <1>5, <2>1 DEF CommitPreflight, RowsTyped, NoLease, RunStatus, Controllable
  <2>4. \A g \in Group : seen[w][g].rev \in Nat
    BY <1>0 DEF ActorsTyped, Observation
  <2>5. vetted' \in [Run \X Group -> Nat]
    <3>1. \A d \in Run \X Group : d[2] \in Group
      OBVIOUS
    <3> QED BY <1>0, <1>5, <2>4, <3>1 DEF CommitPreflight, DeliveriesTyped
  <2>6. DeliveriesTyped'
    <3>1. {d \in Run \X Group : d[1] = at[w]} \in SUBSET (Run \X Group)
      OBVIOUS
    <3>2. snapshot' \in [Run \X Group -> Nat] /\ delivery' \in [Run \X Group -> DeliveryStatus]
      BY <1>0, <1>5, <2>1, <3>1, InsertsTyped DEF CommitPreflight
    <3> QED BY <1>0, <1>5, <2>5, <3>2 DEF CommitPreflight, DeliveriesTyped
  <2> QED BY <1>0, <1>5, <2>2, <2>3, <2>6 DEF CommitPreflight, RestTyped, gateway, scheduler
<1>6. CASE FailPreparationAttempt(w)
  <2>1. at[w] \in Run /\ pc[w] # "idle"
    BY <1>0, <1>6, AtRun DEF FailPreparationAttempt
  <2>2. ActorsTyped'
    BY <1>0, <1>6, <2>1, ActorTypes DEF FailPreparationAttempt
  <2>3. RowsTyped'
    BY <1>0, <1>6, <2>1
    DEF FailPreparationAttempt, FailOrRetry, Archives, CampaignMoves, RowsTyped, NoLease,
        RunStatus, Terminal
  <2> QED BY <1>0, <1>6, <2>2, <2>3 DEF FailPreparationAttempt
<1>7. CASE PreparationThrows(w)
  <2>1. ActorsTyped'
    BY <1>0, <1>7, ActorTypes DEF PreparationThrows
  <2>2. RestTyped'
    BY <1>0, <1>7 DEF PreparationThrows, RestTyped, gateway, scheduler
  <2> QED BY <1>0, <1>7, <2>1, <2>2 DEF PreparationThrows
<1>8. CASE WorkerCrashes(w)
  <2>1. ActorsTyped'
    BY <1>0, <1>8, ActorTypes DEF WorkerCrashes
  <2>2. RestTyped'
    BY <1>0, <1>8 DEF WorkerCrashes, RestTyped, gateway, scheduler
  <2> QED BY <1>0, <1>8, <2>1, <2>2 DEF WorkerCrashes
<1> QED BY <1>1, <1>2, <1>3, <1>4, <1>5, <1>6, <1>7, <1>8 DEF WorkerStep

\* Operators keep the types.
LEMMA OperatorTypes ==
  ASSUME TypeOK, NEW o \in Operator,
         OperatorStep(o) \/ \E r \in Run : StartResume(o, r)
  PROVE  TypeOK'
<1> USE TypeParts, PartsKept
<1>0. /\ ActorsTyped /\ RowsTyped /\ DeliveriesTyped /\ RestTyped
      /\ o \in Actor
  BY DEF Actor
<1>1. CASE Evaluate(o)
  <2>1. ActorsTyped'
    BY <1>0, <1>1 DEF Evaluate, Preflight, ActorsTyped
  <2> QED BY <1>0, <1>1, <2>1 DEF Evaluate
<1>2. CASE \E r \in Run : StartResume(o, r)
  <2>1. PICK r \in Run : StartResume(o, r)
    BY <1>2
  <2>2. seen' \in [Actor -> [Group -> Observation]]
    BY <1>0, <2>1, ReadsTyped DEF StartResume
  <2>3. ActorsTyped'
    BY <1>0, <2>1, <2>2 DEF StartResume, ActorsTyped
  <2> QED BY <1>0, <2>1, <2>3 DEF StartResume
<1>3. CASE Resume(o)
  <2>1. at[o] \in Run /\ pc[o] # "idle"
    BY <1>0, <1>3, AtRun DEF Resume
  <2>2. ActorsTyped'
    BY <1>0, <1>3, <2>1, ActorTypes DEF Resume
  <2>3. RowsTyped'
    BY <1>0, <1>3, <2>1 DEF Resume, RowsTyped, RunStatus, Controllable
  <2> QED BY <1>0, <1>3, <2>2, <2>3 DEF Resume
<1>4. CASE CommitResume(o)
  <2>1. at[o] \in Run /\ pc[o] # "idle"
    BY <1>0, <1>4, AtRun DEF CommitResume
  <2>2. ActorsTyped'
    BY <1>0, <1>4, <2>1, ActorTypes DEF CommitResume
  <2>3. RowsTyped'
    BY <1>0, <1>4, <2>1 DEF CommitResume, CampaignMoves, RowsTyped, RunStatus, Controllable
  <2>4. \A g \in Group : seen[o][g].rev \in Nat
    BY <1>0 DEF ActorsTyped, Observation
  <2>5. vetted' \in [Run \X Group -> Nat]
    <3>1. \A d \in Run \X Group : d[2] \in Group
      OBVIOUS
    <3> QED BY <1>0, <1>4, <2>4, <3>1 DEF CommitResume, DeliveriesTyped
  <2>6. DeliveriesTyped'
    <3>2. snapshot' \in [Run \X Group -> Nat] /\ delivery' \in [Run \X Group -> DeliveryStatus]
      BY <1>0, <1>4, <2>1, InsertsTyped DEF CommitResume
    <3> QED BY <1>0, <1>4, <2>5, <3>2 DEF CommitResume, DeliveriesTyped
  <2> QED BY <1>0, <1>4, <2>2, <2>3, <2>6 DEF CommitResume, RestTyped, gateway, scheduler
<1> QED BY <1>1, <1>2, <1>3, <1>4 DEF OperatorStep

\* The scheduler keeps the types.
LEMMA SchedulerTypes ==
  ASSUME TypeOK, SchedulerStep \/ PublishFails \/ TickAborts
  PROVE  TypeOK'
<1> USE TypeParts, PartsKept
<1>0. ActorsTyped /\ RowsTyped /\ DeliveriesTyped /\ RestTyped
  OBVIOUS
<1>1. CASE RecoverExpiredPreparations
  <2>1. RowsTyped'
    BY <1>0, <1>1 DEF RecoverExpiredPreparations, RowsTyped, RunStatus, Terminal
  <2>2. RestTyped'
    BY <1>0, <1>1 DEF RecoverExpiredPreparations, RestTyped, gateway
  <2> QED BY <1>0, <1>1, <2>1, <2>2 DEF RecoverExpiredPreparations
<1>2. CASE PublishPreparing
  <2>1. RestTyped'
    BY <1>0, <1>2 DEF PublishPreparing, RestTyped, gateway
  <2> QED BY <1>0, <1>2, <2>1 DEF PublishPreparing
<1>3. CASE ActivateDue
  <2>1. RowsTyped'
    BY <1>0, <1>3 DEF ActivateDue, RowsTyped, RunStatus, Controllable
  <2>2. RestTyped'
    BY <1>0, <1>3 DEF ActivateDue, RestTyped, gateway
  <2> QED BY <1>0, <1>3, <2>1, <2>2 DEF ActivateDue
<1>4. CASE Reconcile
  <2>1. DeliveriesTyped'
    BY <1>0, <1>4 DEF Reconcile, DeliveriesTyped, DeliveryStatus
  <2>2. RestTyped'
    BY <1>0, <1>4 DEF Reconcile, RestTyped, gateway
  <2> QED BY <1>0, <1>4, <2>1, <2>2 DEF Reconcile
<1>5. CASE FinalizeScan
  <2>1. RestTyped'
    BY <1>0, <1>5 DEF FinalizeScan, RestTyped, gateway
  <2> QED BY <1>0, <1>5, <2>1 DEF FinalizeScan
<1>6. CASE FinalizeApply
  <2>1. RowsTyped'
    BY <1>0, <1>6 DEF FinalizeApply, RowsTyped, RestTyped, RunStatus, Terminal
  <2>2. RestTyped'
    BY <1>0, <1>6 DEF FinalizeApply, RestTyped, gateway
  <2> QED BY <1>0, <1>6, <2>1, <2>2 DEF FinalizeApply
<1>7. CASE ListRunning
  <2>1. RestTyped'
    BY <1>0, <1>7 DEF ListRunning, RestTyped, gateway
  <2> QED BY <1>0, <1>7, <2>1 DEF ListRunning
<1>8. CASE \E r \in Run : MaterializePending(r)
  <2>1. PICK r \in Run : MaterializePending(r)
    BY <1>8
  <2>2. RowsTyped'
    BY <1>0, <2>1 DEF MaterializePending, CampaignMoves, RowsTyped, RunStatus, Controllable
  <2>3. DeliveriesTyped'
    <3>1. CASE UNCHANGED <<delivery, jobs>>
      BY <1>0, <2>1, <3>1 DEF MaterializePending, DeliveriesTyped
    <3>2. CASE Materialize(r)
      <4>1. {"BLOCKED_CAPABILITY_CHANGED", "MATERIALIZED"} \subseteq DeliveryStatus
        BY DEF DeliveryStatus
      <4>2. "SCHEDULED" \in MS!Status
        BY DEF MS!Status, MS!Live
      <4> QED BY <1>0, <2>1, <3>2, <4>1, <4>2 DEF MaterializePending, Materialize, DeliveriesTyped
    <3> QED BY <2>1, <3>1, <3>2 DEF MaterializePending
  <2>4. RestTyped'
    BY <1>0, <2>1 DEF MaterializePending, RestTyped, gateway
  <2> QED BY <1>0, <2>1, <2>2, <2>3, <2>4 DEF MaterializePending
<1>9. CASE TickDone
  <2>1. RestTyped'
    BY <1>0, <1>9 DEF TickDone, RestTyped, gateway
  <2> QED BY <1>0, <1>9, <2>1 DEF TickDone
<1>10. CASE PublishFails
  <2>1. RestTyped'
    BY <1>0, <1>10 DEF PublishFails, RestTyped, gateway
  <2> QED BY <1>0, <1>10, <2>1 DEF PublishFails
<1>11. CASE TickAborts
  <2>1. RestTyped'
    BY <1>0, <1>11 DEF TickAborts, RestTyped, gateway
  <2> QED BY <1>0, <1>11, <2>1 DEF TickAborts
<1> QED BY <1>1, <1>2, <1>3, <1>4, <1>5, <1>6, <1>7, <1>8, <1>9, <1>10, <1>11
        DEF SchedulerStep

\* Launches, pauses, cancellations and the passing of time keep the types.
LEMMA RunTypes ==
  ASSUME TypeOK, NEW r \in Run,
         \/ \E m \in Mode, now \in BOOLEAN : CreateRun(r, m, now)
         \/ Pause(r) \/ Cancel(r) \/ MaterializeFails(r)
         \/ LeaseExpires(r) \/ RetryDelayPasses(r) \/ ScheduleArrives(r)
  PROVE  TypeOK'
<1> USE TypeParts, PartsKept
<1>0. ActorsTyped /\ RowsTyped /\ DeliveriesTyped /\ RestTyped
  OBVIOUS
<1>1. CASE \E m \in Mode, now \in BOOLEAN : CreateRun(r, m, now)
  <2>1. PICK m \in Mode, now \in BOOLEAN : CreateRun(r, m, now)
    BY <1>1
  <2>2. RowsTyped'
    BY <1>0, <2>1 DEF CreateRun, RowsTyped, RunStatus, Controllable
  <2>3. {d \in Run \X Group : d[1] = r} \in SUBSET (Run \X Group)
    OBVIOUS
  <2>4. DeliveriesTyped'
    BY <1>0, <2>1, <2>3, InsertsTyped DEF CreateRun, DeliveriesTyped
  <2> QED BY <1>0, <2>1, <2>2, <2>4 DEF CreateRun, RestTyped, gateway, scheduler
<1>2. CASE Pause(r)
  <2>1. RowsTyped'
    BY <1>0, <1>2 DEF Pause, CampaignMoves, RowsTyped, RunStatus, Controllable
  <2> QED BY <1>0, <1>2, <2>1 DEF Pause
<1>3. CASE Cancel(r)
  <2>1. RowsTyped'
    BY <1>0, <1>3 DEF Cancel, Archives, CampaignMoves, RowsTyped, RunStatus, Terminal
  <2>2. "CANCELLED" \in DeliveryStatus /\ "CANCELLED" \in MS!Status
    BY DEF DeliveryStatus, Reconciled, MS!Status, MS!Closed
  <2>3. DeliveriesTyped'
    BY <1>0, <1>3, <2>2 DEF Cancel, DeliveriesTyped
  <2> QED BY <1>0, <1>3, <2>1, <2>3 DEF Cancel
<1>4. CASE MaterializeFails(r)
  <2>1. RestTyped'
    BY <1>0, <1>4 DEF MaterializeFails, RestTyped, gateway
  <2> QED BY <1>0, <1>4, <2>1 DEF MaterializeFails
<1>5. CASE LeaseExpires(r) \/ RetryDelayPasses(r) \/ ScheduleArrives(r)
  <2>1. RowsTyped'
    BY <1>0, <1>5 DEF LeaseExpires, RetryDelayPasses, ScheduleArrives, RowsTyped
  <2> QED BY <1>0, <1>5, <2>1 DEF LeaseExpires, RetryDelayPasses, ScheduleArrives
<1> QED BY <1>1, <1>2, <1>3, <1>4, <1>5

\* Jobs and the gateway keep the types.
LEMMA EnvironmentTypes ==
  ASSUME TypeOK,
         GatewayChanges \/ \E d \in Run \X Group, t \in MS!Status : JobStep(d, t)
  PROVE  TypeOK'
<1> USE TypeParts, PartsKept
<1>0. ActorsTyped /\ RowsTyped /\ DeliveriesTyped /\ RestTyped
  OBVIOUS
<1>1. CASE GatewayChanges
  <2>1. RestTyped'
    BY <1>0, <1>1 DEF GatewayChanges, RestTyped, scheduler
  <2> QED BY <1>0, <1>1, <2>1 DEF GatewayChanges
<1>2. CASE \E d \in Run \X Group, t \in MS!Status : JobStep(d, t)
  <2>1. PICK d \in Run \X Group, t \in MS!Status : JobStep(d, t)
    BY <1>2
  <2>2. DeliveriesTyped'
    BY <1>0, <2>1 DEF JobStep, DeliveriesTyped
  <2>3. RestTyped'
    BY <1>0, <2>1 DEF JobStep, RestTyped, gateway, scheduler
  <2> QED BY <1>0, <2>1, <2>2, <2>3 DEF JobStep
<1> QED BY <1>1, <1>2

\* Every step keeps the types.
LEMMA TypeNext ==
  ASSUME TypeOK, [Next]_vars
  PROVE  TypeOK'
<1>1. CASE UNCHANGED vars
  BY <1>1, TypeParts, PartsKept DEF vars
<1>2. CASE Next
  BY <1>2, WorkerTypes, OperatorTypes, SchedulerTypes, RunTypes, EnvironmentTypes DEF Next
<1> QED BY <1>1, <1>2

\* The types hold at the start.
LEMMA TypeInit ==
  ASSUME Init
  PROVE  TypeOK
BY DEF Init, TypeOK, RunStatus, Mode, DeliveryStatus, MS!Status, Capability, Observation

(***************************************************************************)
(* Rows, queue, tick and actors stay in their types: the preparation       *)
(* attempts never exceed their budget, for any number of workers, expired  *)
(* leases and inputs that went stale (claimPreparation, applyPreflight).   *)
(***************************************************************************)
THEOREM CampaignTypeOK == Spec => []TypeOK
BY TypeInit, TypeNext, PTL DEF Spec

-----------------------------------------------------------------------------
(***************************************************************************)
(* The row lock.  A step leaves every transaction past its check alone     *)
(* with its run, or one more passes its check on a run that was not locked.*)
(***************************************************************************)
HoldersKept ==
  \A a \in Actor :
    pc'[a] = "commit" =>
      pc[a] = "commit" /\ at'[a] = at[a] /\ run'[at[a]] = run[at[a]]

Taken ==
  \E a \in Actor :
    /\ ~Locked(at[a])
    /\ a \in Worker => run[at[a]] = "PREPARING"
    /\ a \in Operator => run[at[a]] \in {"PAUSED", "BLOCKED"}
    /\ UNCHANGED <<run, at>>
    /\ \A b \in Actor : pc'[b] = "commit" => b = a \/ pc[b] = "commit"

\* An actor that goes idle or on to another step commits nothing.
LEMMA ActorLeaves ==
  ASSUME TypeOK, NEW a \in Actor, NEW p, p # "commit",
         \/ Idle(a)
         \/ Goto(a, p)
         \/ pc' = [pc EXCEPT ![a] = p] /\ \A b \in Actor \ {a} : at'[b] = at[b]
  PROVE  \A b \in Actor :
           pc'[b] = "commit" => b # a /\ pc[b] = "commit" /\ at'[b] = at[b]
BY DEF TypeOK, Idle, Goto

\* Preparation workers respect the row lock.
LEMMA WorkerLocks ==
  ASSUME TypeOK, LockInv, NEW w \in Worker,
         WorkerStep(w) \/ PreparationThrows(w) \/ WorkerCrashes(w)
  PROVE  HoldersKept \/ Taken
<1>0. w \in Actor
  BY DEF Actor
<1>1. CASE \E r \in Run : ClaimPreparation(w, r)
  <2>1. PICK r \in Run : ClaimPreparation(w, r)
    BY <1>1
  <2>2. run' = run
    BY <2>1 DEF ClaimPreparation
  <2>3. CASE Claimable(r)
    <3>1. pc' = [pc EXCEPT ![w] = "context"] /\ \A b \in Actor \ {w} : at'[b] = at[b]
      BY <1>0, <2>1, <2>3 DEF ClaimPreparation, TypeOK
    <3> QED BY <1>0, <2>2, <3>1, ActorLeaves DEF HoldersKept
  <2>4. CASE ~Claimable(r)
    BY <2>1, <2>2, <2>4 DEF ClaimPreparation, actors, HoldersKept
  <2> QED BY <2>3, <2>4
<1>2. CASE ReadContext(w)
  <2>1. run' = run
    BY <1>2 DEF ReadContext, runRows
  <2>2. CASE run[at[w]] = "PREPARING"
    <3>1. pc' = [pc EXCEPT ![w] = "evaluate"] /\ \A b \in Actor \ {w} : at'[b] = at[b]
      BY <1>2, <2>2 DEF ReadContext
    <3> QED BY <1>0, <2>1, <3>1, ActorLeaves DEF HoldersKept
  <2>3. CASE run[at[w]] # "PREPARING"
    BY <1>0, <1>2, <2>1, <2>3, ActorLeaves DEF ReadContext, HoldersKept
  <2> QED BY <2>2, <2>3
<1>3. CASE Evaluate(w)
  <2>1. run' = run
    BY <1>3 DEF Evaluate, runRows
  <2>2. pc' = [pc EXCEPT ![w] = "apply"] /\ \A b \in Actor \ {w} : at'[b] = at[b]
    BY <1>3 DEF Evaluate
  <2> QED BY <1>0, <2>1, <2>2, ActorLeaves DEF HoldersKept
<1>4. CASE ApplyPreflight(w)
  <2>1. ~Locked(at[w]) /\ pc[w] = "apply" /\ at[w] \in Run
    BY <1>0, <1>4 DEF ApplyPreflight, TypeOK
  <2>2. CASE Idle(w)
    <3>1. \A r \in Run : r # at[w] => run'[r] = run[r]
      BY <1>4, <2>1 DEF ApplyPreflight, TypeOK
    <3>2. \A b \in Actor : pc[b] = "commit" => at[b] # at[w] /\ at[b] \in Run
      BY <2>1 DEF Locked, TypeOK
    <3> QED BY <1>0, <2>2, <3>1, <3>2, ActorLeaves DEF HoldersKept
  <2>3. CASE ~Idle(w)
    <3>1. run[at[w]] = "PREPARING" /\ run' = run /\ Goto(w, "commit")
      BY <1>4, <2>3 DEF ApplyPreflight, OwnsPreparation
    <3>2. w \notin Operator
      OBVIOUS
    <3> QED BY <1>0, <2>1, <3>1, <3>2 DEF Taken, Goto, TypeOK
  <2> QED BY <2>2, <2>3
<1>5. CASE CommitPreflight(w)
  <2>1. pc[w] = "commit" /\ Idle(w) /\ at[w] \in Run
    BY <1>0, <1>5 DEF CommitPreflight, TypeOK
  <2>2. \A r \in Run : r # at[w] => run'[r] = run[r]
    BY <1>5, <2>1 DEF CommitPreflight, TypeOK
  <2>3. \A b \in Actor : pc[b] = "commit" /\ b # w => at[b] # at[w] /\ at[b] \in Run
    BY <1>0, <2>1 DEF LockInv, TypeOK
  <2> QED BY <1>0, <2>1, <2>2, <2>3, ActorLeaves DEF HoldersKept
<1>6. CASE FailPreparationAttempt(w)
  <2>1. ~Locked(at[w]) /\ Idle(w) /\ at[w] \in Run
    BY <1>0, <1>6 DEF FailPreparationAttempt, TypeOK
  <2>2. \A r \in Run : r # at[w] => run'[r] = run[r]
    BY <1>6, <2>1 DEF FailPreparationAttempt, FailOrRetry, TypeOK
  <2>3. \A b \in Actor : pc[b] = "commit" => at[b] # at[w] /\ at[b] \in Run
    BY <2>1 DEF Locked, TypeOK
  <2> QED BY <1>0, <2>1, <2>2, <2>3, ActorLeaves DEF HoldersKept
<1>7. CASE PreparationThrows(w)
  <2>1. run' = run /\ Goto(w, "fail")
    BY <1>7 DEF PreparationThrows, runRows
  <2> QED BY <1>0, <2>1, ActorLeaves DEF HoldersKept
<1>8. CASE WorkerCrashes(w)
  <2>1. run' = run /\ Idle(w)
    BY <1>8 DEF WorkerCrashes, runRows
  <2> QED BY <1>0, <2>1, ActorLeaves DEF HoldersKept
<1> QED BY <1>1, <1>2, <1>3, <1>4, <1>5, <1>6, <1>7, <1>8 DEF WorkerStep

\* Operators respect the row lock.
LEMMA OperatorLocks ==
  ASSUME TypeOK, LockInv, NEW o \in Operator,
         OperatorStep(o) \/ \E r \in Run : StartResume(o, r)
  PROVE  HoldersKept \/ Taken
<1>0. o \in Actor
  BY DEF Actor
<1>1. CASE Evaluate(o)
  <2>1. run' = run
    BY <1>1 DEF Evaluate, runRows
  <2>2. pc' = [pc EXCEPT ![o] = "apply"] /\ \A b \in Actor \ {o} : at'[b] = at[b]
    BY <1>1 DEF Evaluate
  <2> QED BY <1>0, <2>1, <2>2, ActorLeaves DEF HoldersKept
<1>2. CASE \E r \in Run : StartResume(o, r)
  <2>1. PICK r \in Run : StartResume(o, r)
    BY <1>2
  <2>2. run' = run
    BY <2>1 DEF StartResume, runRows
  <2>3. pc' = [pc EXCEPT ![o] = "evaluate"] /\ \A b \in Actor \ {o} : at'[b] = at[b]
    BY <1>0, <2>1 DEF StartResume, TypeOK
  <2> QED BY <1>0, <2>2, <2>3, ActorLeaves DEF HoldersKept
<1>3. CASE Resume(o)
  <2>1. ~Locked(at[o]) /\ pc[o] = "apply" /\ at[o] \in Run
    BY <1>0, <1>3 DEF Resume, TypeOK
  <2>2. CASE Idle(o)
    <3>1. \A r \in Run : r # at[o] => run'[r] = run[r]
      BY <1>3, <2>1 DEF Resume, TypeOK
    <3>2. \A b \in Actor : pc[b] = "commit" => at[b] # at[o] /\ at[b] \in Run
      BY <2>1 DEF Locked, TypeOK
    <3> QED BY <1>0, <2>2, <3>1, <3>2, ActorLeaves DEF HoldersKept
  <2>3. CASE ~Idle(o)
    <3>1. run[at[o]] \in {"PAUSED", "BLOCKED"} /\ run' = run /\ Goto(o, "commit")
      BY <1>3, <2>3 DEF Resume
    <3>2. o \notin Worker
      OBVIOUS
    <3> QED BY SMTT(30), <1>0, <2>1, <3>1, <3>2 DEF Taken, Goto, TypeOK
  <2> QED BY <2>2, <2>3
<1>4. CASE CommitResume(o)
  <2>1. pc[o] = "commit" /\ Idle(o) /\ at[o] \in Run
    BY <1>0, <1>4 DEF CommitResume, TypeOK
  <2>2. \A r \in Run : r # at[o] => run'[r] = run[r]
    BY <1>4, <2>1 DEF CommitResume, TypeOK
  <2>3. \A b \in Actor : pc[b] = "commit" /\ b # o => at[b] # at[o] /\ at[b] \in Run
    BY <1>0, <2>1 DEF LockInv, TypeOK
  <2> QED BY <1>0, <2>1, <2>2, <2>3, ActorLeaves DEF HoldersKept
<1> QED BY <1>1, <1>2, <1>3, <1>4 DEF OperatorStep

\* A step of nobody in particular that writes no locked run respects the lock.
LEMMA OthersLock ==
  ASSUME TypeOK, UNCHANGED actors, \A r \in Run : Locked(r) => run'[r] = run[r]
  PROVE  HoldersKept
BY DEF TypeOK, Locked, HoldersKept, actors

\* The scheduler, callers, message jobs and time respect the row lock.
LEMMA OtherLocks ==
  ASSUME TypeOK, LockInv,
         \/ SchedulerStep \/ PublishFails \/ TickAborts \/ GatewayChanges
         \/ \E r \in Run :
              \/ \E m \in Mode, now \in BOOLEAN : CreateRun(r, m, now)
              \/ Pause(r) \/ Cancel(r) \/ MaterializeFails(r)
              \/ LeaseExpires(r) \/ RetryDelayPasses(r) \/ ScheduleArrives(r)
         \/ \E d \in Run \X Group, t \in MS!Status : JobStep(d, t)
  PROVE  HoldersKept \/ Taken
<1>0. \A r \in Run : Locked(r) => run[r] \in {"PREPARING", "PAUSED", "BLOCKED"}
  BY DEF Locked, LockInv, Actor
<1>1. CASE RecoverExpiredPreparations \/ ActivateDue \/ FinalizeApply
  <2>1. \A r \in Run : Locked(r) => run'[r] = run[r]
    BY <1>1 DEF RecoverExpiredPreparations, ActivateDue, FinalizeApply, TypeOK
  <2> QED BY <1>1, <2>1, OthersLock
      DEF RecoverExpiredPreparations, ActivateDue, FinalizeApply
<1>2. CASE PublishPreparing \/ Reconcile \/ FinalizeScan \/ ListRunning \/ TickDone
             \/ PublishFails \/ TickAborts \/ GatewayChanges
  BY <1>2, OthersLock
  DEF PublishPreparing, Reconcile, FinalizeScan, ListRunning, TickDone, PublishFails,
      TickAborts, GatewayChanges, runRows
<1>3. ASSUME NEW r \in Run, MaterializePending(r)
      PROVE  HoldersKept
  <2>1. \A q \in Run : Locked(q) => run'[q] = run[q]
    BY <1>3 DEF MaterializePending, TypeOK
  <2> QED BY <1>3, <2>1, OthersLock DEF MaterializePending
<1>4. ASSUME NEW r \in Run, NEW m \in Mode, NEW now \in BOOLEAN, CreateRun(r, m, now)
      PROVE  HoldersKept
  <2>1. \A q \in Run : Locked(q) => run'[q] = run[q]
    BY ZenonT(30), <1>0, <1>4 DEF CreateRun, TypeOK
  <2> QED BY <1>4, <2>1, OthersLock DEF CreateRun
<1>5. ASSUME NEW r \in Run, Pause(r) \/ Cancel(r)
      PROVE  HoldersKept
  <2>1. \A q \in Run : Locked(q) => run'[q] = run[q]
    BY <1>5 DEF Pause, Cancel, TypeOK
  <2> QED BY <1>5, <2>1, OthersLock DEF Pause, Cancel
<1>6. ASSUME NEW r \in Run,
             MaterializeFails(r) \/ LeaseExpires(r) \/ RetryDelayPasses(r) \/ ScheduleArrives(r)
      PROVE  HoldersKept
  BY <1>6, OthersLock
  DEF MaterializeFails, LeaseExpires, RetryDelayPasses, ScheduleArrives, runRows
<1>7. ASSUME NEW d \in Run \X Group, NEW t \in MS!Status, JobStep(d, t)
      PROVE  HoldersKept
  BY <1>7, OthersLock DEF JobStep, runRows
<1> QED BY <1>1, <1>2, <1>3, <1>4, <1>5, <1>6, <1>7 DEF SchedulerStep

\* Every step keeps the row lock.
LEMMA LockNext ==
  ASSUME TypeOK, LockInv, [Next]_vars
  PROVE  LockInv'
<1>1. HoldersKept \/ Taken
  <2>1. CASE UNCHANGED vars
    BY <2>1 DEF vars, actors, runRows, HoldersKept
  <2>2. CASE Next
    BY <2>2, WorkerLocks, OperatorLocks, OtherLocks DEF Next
  <2> QED BY <2>1, <2>2
<1>2. CASE HoldersKept
  BY <1>2 DEF HoldersKept, LockInv, TypeOK
<1>3. CASE Taken
  BY <1>3 DEF Taken, LockInv, Locked, TypeOK
<1> QED BY <1>1, <1>2, <1>3

-----------------------------------------------------------------------------
(***************************************************************************)
(* Steps that leave deliveries and jobs alone.  A run moves along one of   *)
(* the edges below, or finalize gives it its verdict; a verdict stands     *)
(* until the tick goes on, and is made only of what is finished.           *)
(***************************************************************************)
PlainEdge(s, t) ==
  \/ s = "ABSENT" /\ t = "PREPARING"
  \/ s = "PREPARING" /\ t \in {"BLOCKED", "FAILED"}
  \/ s \in {"SCHEDULED", "RUNNING"} /\ t = "PAUSED"
  \/ s = "PAUSED" /\ t = "BLOCKED"
  \/ s = "SCHEDULED" /\ t = "RUNNING"

RunMoves ==
  \A r \in Run :
    \/ run'[r] = run[r]
    \/ PlainEdge(run[r], run'[r])
    \/ verdict[r] # "none" /\ run'[r] = verdict[r] /\ verdict'[r] = "none"

Finished(r) ==
  /\ run[r] = "RUNNING"
  /\ \A d \in Run \X Group :
       d[1] = r /\ delivery[d] # "NONE" => delivery[d] \notin Open

VerdictMoves ==
  \A r \in Run :
    verdict'[r] # "none" =>
      \/ verdict'[r] = verdict[r] /\ tick' = tick
      \/ Finished(r) /\ tick' = "finalize" /\ run'[r] = run[r]

Plain ==
  /\ UNCHANGED <<delivery, jobs, vetted>>
  /\ \A d \in Run \X Group : snapshot'[d] = snapshot[d] \/ run[d[1]] = "ABSENT"
  /\ RunMoves
  /\ VerdictMoves

\* A step that writes no row at all is plain.
LEMMA RestPlain ==
  ASSUME UNCHANGED <<run, deliveryRows, vetted, scheduler>>
  PROVE  Plain
BY DEF Plain, RunMoves, VerdictMoves, deliveryRows, scheduler

\* A step outside the tick that moves one run along an edge is plain.
LEMMA EdgePlain ==
  ASSUME TypeOK, NEW r \in Run, NEW t, PlainEdge(run[r], t), run' = [run EXCEPT ![r] = t],
         UNCHANGED <<deliveryRows, vetted, scheduler>>
  PROVE  Plain
<1>1. RunMoves
  BY DEF RunMoves, TypeOK
<1>2. VerdictMoves
  BY DEF VerdictMoves, scheduler
<1> QED BY <1>1, <1>2 DEF Plain, deliveryRows

\* What a worker does before and after the commit is plain.
LEMMA WorkerPlain ==
  ASSUME TypeOK, NEW w \in Worker,
         WorkerStep(w) \/ PreparationThrows(w) \/ WorkerCrashes(w),
         ~CommitPreflight(w)
  PROVE  Plain
<1>0. w \in Actor
  BY DEF Actor
<1>1. CASE \E r \in Run : ClaimPreparation(w, r)
  BY <1>1, RestPlain DEF ClaimPreparation
<1>2. CASE ReadContext(w) \/ Evaluate(w) \/ PreparationThrows(w) \/ WorkerCrashes(w)
  BY <1>2, RestPlain DEF ReadContext, Evaluate, PreparationThrows, WorkerCrashes, runRows
<1>3. CASE ApplyPreflight(w)
  <2>1. at[w] \in Run /\ UNCHANGED <<deliveryRows, vetted, scheduler>>
    BY <1>0, <1>3 DEF ApplyPreflight, TypeOK
  <2>2. CASE run' = run
    BY <2>1, <2>2, RestPlain
  <2>3. CASE run' # run
    <3>1. run[at[w]] = "PREPARING" /\ run' = [run EXCEPT ![at[w]] = "BLOCKED"]
      BY <1>3, <2>3 DEF ApplyPreflight, OwnsPreparation
    <3>2. PlainEdge(run[at[w]], "BLOCKED")
      BY <3>1 DEF PlainEdge
    <3> QED BY <2>1, <3>1, <3>2, EdgePlain
  <2> QED BY <2>2, <2>3
<1>4. CASE FailPreparationAttempt(w)
  <2>1. at[w] \in Run /\ UNCHANGED <<deliveryRows, vetted, scheduler>>
    BY <1>0, <1>4 DEF FailPreparationAttempt, TypeOK
  <2>2. CASE run' = run
    BY <2>1, <2>2, RestPlain
  <2>3. CASE run' # run
    <3>1. run[at[w]] = "PREPARING" /\ run' = [run EXCEPT ![at[w]] = "FAILED"]
      BY <1>4, <2>3 DEF FailPreparationAttempt, FailOrRetry, OwnsPreparation
    <3>2. PlainEdge(run[at[w]], "FAILED")
      BY <3>1 DEF PlainEdge
    <3> QED BY <2>1, <3>1, <3>2, EdgePlain
  <2> QED BY <2>2, <2>3
<1> QED BY <1>1, <1>2, <1>3, <1>4 DEF WorkerStep

\* What an operator does before the commit of a resumption is plain.
LEMMA OperatorPlain ==
  ASSUME TypeOK, NEW o \in Operator,
         OperatorStep(o) \/ \E r \in Run : StartResume(o, r),
         ~CommitResume(o)
  PROVE  Plain
<1>0. o \in Actor
  BY DEF Actor
<1>1. CASE Evaluate(o) \/ \E r \in Run : StartResume(o, r)
  BY <1>1, RestPlain DEF Evaluate, StartResume, runRows
<1>2. CASE Resume(o)
  <2>1. at[o] \in Run /\ UNCHANGED <<deliveryRows, vetted, scheduler>>
    BY <1>0, <1>2 DEF Resume, TypeOK
  <2>2. CASE run' = run
    BY <2>1, <2>2, RestPlain
  <2>3. CASE run' # run
    <3>1. run[at[o]] \in {"PAUSED", "BLOCKED"} /\ run' = [run EXCEPT ![at[o]] = "BLOCKED"]
      BY <1>2, <2>3 DEF Resume
    <3>2. run[at[o]] = "PAUSED"
      BY <2>1, <2>3, <3>1 DEF TypeOK
    <3>3. PlainEdge(run[at[o]], "BLOCKED")
      BY <3>2 DEF PlainEdge
    <3> QED BY <2>1, <3>1, <3>3, EdgePlain
  <2> QED BY <2>2, <2>3
<1> QED BY <1>1, <1>2 DEF OperatorStep

\* The tick is plain, except where it reconciles or materializes.
LEMMA SchedulerPlain ==
  ASSUME TypeOK, VerdictInv, SchedulerStep \/ PublishFails \/ TickAborts, ~Reconcile
  PROVE  Plain \/ \E r \in Run : MaterializePending(r) /\ Materialize(r) /\ run[r] = "RUNNING"
<1>0. tick # "finalize" => \A r \in Run : verdict[r] = "none"
  BY DEF VerdictInv
<1>1. ASSUME tick # "finalize", UNCHANGED <<verdict, deliveryRows, vetted>>, RunMoves
      PROVE  Plain
  BY <1>0, <1>1 DEF Plain, VerdictMoves, deliveryRows
<1>2. CASE RecoverExpiredPreparations
  <2>1. RunMoves
    BY <1>2 DEF RecoverExpiredPreparations, RunMoves, PlainEdge, TypeOK
  <2> QED BY <1>1, <1>2, <2>1 DEF RecoverExpiredPreparations
<1>3. CASE ActivateDue
  <2>1. RunMoves
    BY <1>3 DEF ActivateDue, RunMoves, PlainEdge, TypeOK
  <2> QED BY <1>1, <1>3, <2>1 DEF ActivateDue
<1>4. CASE PublishPreparing \/ PublishFails \/ ListRunning \/ TickDone
  <2>1. RunMoves
    BY <1>4 DEF PublishPreparing, PublishFails, ListRunning, TickDone, RunMoves, runRows
  <2> QED BY <1>1, <1>4, <2>1 DEF PublishPreparing, PublishFails, ListRunning, TickDone
<1>5. CASE FinalizeScan
  <2>1. RunMoves
    BY <1>5 DEF FinalizeScan, RunMoves, runRows
  <2>2. ASSUME NEW r \in Run, verdict'[r] # "none"
        PROVE  Finished(r)
    <3>1. run[r] = "RUNNING" /\ \A d \in Rows(r) : delivery[d] \notin Open
      BY <1>5, <2>2 DEF FinalizeScan
    <3> QED BY <3>1 DEF Finished, Rows, Of
  <2>3. VerdictMoves
    BY <1>5, <2>2 DEF FinalizeScan, VerdictMoves, runRows
  <2> QED BY <1>5, <2>1, <2>3 DEF Plain, FinalizeScan, deliveryRows
<1>6. CASE FinalizeApply
  <2>1. RunMoves
    BY <1>6 DEF FinalizeApply, RunMoves, TypeOK
  <2>2. VerdictMoves
    BY <1>6 DEF FinalizeApply, VerdictMoves
  <2> QED BY <1>6, <2>1, <2>2 DEF Plain, FinalizeApply, deliveryRows
<1>7. CASE TickAborts
  <2>1. RunMoves
    BY <1>7 DEF TickAborts, RunMoves, runRows
  <2>2. VerdictMoves
    BY <1>7 DEF TickAborts, VerdictMoves
  <2> QED BY <1>7, <2>1, <2>2 DEF Plain, TickAborts, deliveryRows
<1>8. ASSUME NEW r \in Run, MaterializePending(r), ~(Materialize(r) /\ run[r] = "RUNNING")
      PROVE  Plain
  <2>1. tick # "finalize" /\ UNCHANGED <<verdict, deliveryRows, vetted>>
    BY <1>8 DEF MaterializePending, deliveryRows
  <2>2. RunMoves
    BY <1>8 DEF MaterializePending, RunMoves, PlainEdge, TypeOK
  <2> QED BY <1>1, <2>1, <2>2
<1> QED BY <1>2, <1>3, <1>4, <1>5, <1>6, <1>7, <1>8 DEF SchedulerStep

\* Launches, pauses and the passing of time are plain.
LEMMA RunPlain ==
  ASSUME TypeOK, NEW r \in Run,
         \/ \E m \in Mode, now \in BOOLEAN : CreateRun(r, m, now)
         \/ Pause(r) \/ MaterializeFails(r)
         \/ LeaseExpires(r) \/ RetryDelayPasses(r) \/ ScheduleArrives(r)
  PROVE  Plain
<1>1. CASE \E m \in Mode, now \in BOOLEAN : CreateRun(r, m, now)
  <2>1. PICK m \in Mode, now \in BOOLEAN : CreateRun(r, m, now)
    BY <1>1
  <2>2. RunMoves
    BY <2>1 DEF CreateRun, RunMoves, PlainEdge, TypeOK
  <2>3. VerdictMoves
    BY <2>1 DEF CreateRun, VerdictMoves, scheduler
  <2>4. \A d \in Run \X Group : snapshot'[d] = snapshot[d] \/ run[d[1]] = "ABSENT"
    BY <2>1 DEF CreateRun, Recopied
  <2> QED BY <2>1, <2>2, <2>3, <2>4 DEF Plain, CreateRun
<1>2. CASE Pause(r)
  <2>1. PlainEdge(run[r], "PAUSED")
    BY <1>2 DEF Pause, PlainEdge
  <2> QED BY <1>2, <2>1, EdgePlain DEF Pause
<1>3. CASE MaterializeFails(r)
  BY <1>3
  DEF MaterializeFails, Plain, RunMoves, VerdictMoves, runRows, deliveryRows
<1>4. CASE LeaseExpires(r) \/ RetryDelayPasses(r) \/ ScheduleArrives(r)
  BY <1>4, RestPlain DEF LeaseExpires, RetryDelayPasses, ScheduleArrives
<1> QED BY <1>1, <1>2, <1>3, <1>4

\* The steps that write deliveries or jobs.
DeliveryStep ==
  \/ \E w \in Worker : CommitPreflight(w)
  \/ \E o \in Operator : CommitResume(o)
  \/ \E r \in Run : Cancel(r)
  \/ \E r \in Run : MaterializePending(r) /\ Materialize(r) /\ run[r] = "RUNNING"
  \/ Reconcile
  \/ \E d \in Run \X Group, t \in MS!Status : JobStep(d, t)

\* Every step is plain or writes deliveries.
LEMMA NextMoves ==
  ASSUME TypeOK, VerdictInv, [Next]_vars
  PROVE  Plain \/ DeliveryStep
<1>1. CASE UNCHANGED vars
  BY <1>1, RestPlain DEF vars, runRows
<1>2. CASE GatewayChanges
  BY <1>2, RestPlain DEF GatewayChanges, runRows
<1>3. CASE Next /\ ~GatewayChanges
  BY <1>3, WorkerPlain, OperatorPlain, SchedulerPlain, RunPlain DEF Next, DeliveryStep
<1> QED BY <1>1, <1>2, <1>3

\* Plain steps keep what is said of deliveries and jobs.
LEMMA PlainKeeps ==
  ASSUME Inv, Plain
  PROVE  /\ RowsInv' /\ ClaimedInv' /\ VerdictInv' /\ DeliveryFollowsJob'
         /\ TerminalRunQuiet' /\ BufferBounded' /\ SnapshotNotOlder'
<1>0. /\ TypeOK /\ RowsInv /\ ClaimedInv /\ VerdictInv /\ DeliveryFollowsJob
      /\ TerminalRunQuiet /\ BufferBounded /\ SnapshotNotOlder
  BY DEF Inv
<1>1. delivery' = delivery /\ jobs' = jobs /\ vetted' = vetted
  BY DEF Plain
<1>2. \A d \in Run \X Group : d[1] \in Run
  OBVIOUS
<1>3. \A r \in Run : verdict[r] \in {"none", "COMPLETED", "PARTIAL_FAILED"}
  BY <1>0 DEF TypeOK
<1>4. RowsInv'
  BY <1>0, <1>1, <1>2, <1>3 DEF Plain, RunMoves, PlainEdge, RowsInv
<1>5. ClaimedInv' /\ DeliveryFollowsJob'
  BY <1>0, <1>1 DEF ClaimedInv, DeliveryFollowsJob
<1>6. VerdictInv'
  <2>1. SUFFICES ASSUME NEW r \in Run, verdict'[r] # "none"
                 PROVE  /\ tick' = "finalize"
                        /\ run'[r] \in {"SCHEDULED", "RUNNING", "PAUSED", "BLOCKED", "CANCELLED"}
                        /\ \A d \in Run \X Group :
                             d[1] = r => delivery[d] \notin Open \cup {"NONE"}
    BY <1>1 DEF VerdictInv
  <2>2. CASE verdict'[r] = verdict[r] /\ tick' = tick
    BY <1>0, <2>1, <2>2 DEF VerdictInv, Plain, RunMoves, PlainEdge
  <2>3. CASE Finished(r) /\ tick' = "finalize" /\ run'[r] = run[r]
    BY <1>0, <2>1, <2>3 DEF Finished, RowsInv
  <2> QED BY <2>1, <2>2, <2>3 DEF Plain, VerdictMoves
<1>7. TerminalRunQuiet'
  <2>1. SUFFICES ASSUME NEW d \in Run \X Group, run'[d[1]] \in Terminal
                 PROVE  delivery[d] # "PENDING" /\ jobs[d] \notin {"SCHEDULED", "QUEUED"}
    BY <1>1 DEF TerminalRunQuiet
  <2>2. CASE run[d[1]] \in Terminal
    BY <1>0, <2>2 DEF TerminalRunQuiet
  <2>3. CASE run[d[1]] = "PREPARING"
    BY <1>0, <1>2, <2>3 DEF RowsInv, DeliveryFollowsJob
  <2>4. CASE verdict[d[1]] # "none"
    <3>1. delivery[d] \in DeliveryStatus /\ delivery[d] \notin Open \cup {"NONE"}
      BY <1>0, <1>2, <2>4 DEF VerdictInv, TypeOK
    <3> QED BY <1>0, <3>1
        DEF DeliveryStatus, Open, Reconciled, ClaimedInv, DeliveryFollowsJob
  <2> QED BY <1>2, <2>1, <2>2, <2>3, <2>4 DEF Plain, RunMoves, PlainEdge, Terminal
<1>8. BufferBounded'
  BY <1>0, <1>1 DEF BufferBounded, Of
<1>9. SnapshotNotOlder'
  BY <1>0, <1>1, <1>2, <1>3 DEF Plain, RunMoves, PlainEdge, SnapshotNotOlder
<1> QED BY <1>4, <1>5, <1>6, <1>7, <1>8, <1>9

-----------------------------------------------------------------------------
(***************************************************************************)
(* Commits.  A commit inserts the deliveries that are missing and copies   *)
(* the revisions of those not started; both commits do the following.      *)
(***************************************************************************)
Commits(a, r) ==
  /\ run' = [run EXCEPT ![r] = IF r \in startable THEN "RUNNING" ELSE "SCHEDULED"]
  /\ delivery' = WithDeliveries(r)
  /\ \A d \in Run \X Group :
       d[1] = r /\ delivery[d] \in {"NONE", "PENDING"}
         => snapshot'[d] = revision[d[2]] /\ vetted'[d] = seen[a][d[2]].rev
  /\ \A d \in Run \X Group :
       d[1] # r => snapshot'[d] = snapshot[d] /\ vetted'[d] = vetted[d]
  /\ UNCHANGED <<jobs, scheduler>>

\* The commits of a preflight and of a resumption.
LEMMA CommitSteps ==
  ASSUME Inv
  PROVE  /\ \A w \in Worker :
              CommitPreflight(w) =>
                w \in Actor /\ at[w] \in Run /\ run[at[w]] = "PREPARING" /\ Commits(w, at[w])
         /\ \A o \in Operator :
              CommitResume(o) =>
                /\ o \in Actor /\ at[o] \in Run /\ run[at[o]] \in {"PAUSED", "BLOCKED"}
                /\ Commits(o, at[o])
<1>0. TypeOK /\ LockInv
  BY DEF Inv
<1>1. ASSUME NEW w \in Worker, CommitPreflight(w)
      PROVE  w \in Actor /\ at[w] \in Run /\ run[at[w]] = "PREPARING" /\ Commits(w, at[w])
  <2>1. w \in Actor /\ at[w] \in Run /\ run[at[w]] = "PREPARING"
    BY <1>0, <1>1 DEF Actor, CommitPreflight, TypeOK, LockInv
  <2> QED BY <1>1, <2>1 DEF CommitPreflight, Commits, Recopied
<1>2. ASSUME NEW o \in Operator, CommitResume(o)
      PROVE  /\ o \in Actor /\ at[o] \in Run /\ run[at[o]] \in {"PAUSED", "BLOCKED"}
             /\ Commits(o, at[o])
  <2>1. o \in Actor /\ at[o] \in Run /\ run[at[o]] \in {"PAUSED", "BLOCKED"}
    BY <1>0, <1>2 DEF Actor, CommitResume, TypeOK, LockInv
  <2> QED BY <1>2, <2>1 DEF CommitResume, Commits, Recopied
<1> QED BY <1>1, <1>2

\* A commit keeps what is said of deliveries and jobs.
LEMMA CommitKeeps ==
  ASSUME Inv, NEW a \in Actor, NEW r \in Run,
         run[r] \in {"PREPARING", "PAUSED", "BLOCKED"}, Commits(a, r)
  PROVE  /\ RowsInv' /\ ClaimedInv' /\ VerdictInv' /\ DeliveryFollowsJob'
         /\ TerminalRunQuiet' /\ BufferBounded' /\ SnapshotNotOlder'
<1>0. /\ TypeOK /\ RowsInv /\ ClaimedInv /\ VerdictInv /\ DeliveryFollowsJob
      /\ TerminalRunQuiet /\ BufferBounded /\ SnapshotNotOlder /\ SeenInv
  BY DEF Inv
<1>1. /\ run'[r] \in {"RUNNING", "SCHEDULED"}
      /\ \A q \in Run : q # r => run'[q] = run[q]
      /\ jobs' = jobs /\ verdict' = verdict /\ tick' = tick
  BY <1>0 DEF Commits, TypeOK, scheduler
<1>2. \A d \in Run \X Group : d[1] \in Run /\ d[2] \in Group
  OBVIOUS
<1>3. \A d \in Run \X Group :
        delivery'[d] = IF d[1] = r /\ delivery[d] = "NONE" THEN "PENDING" ELSE delivery[d]
  BY DEF Commits, WithDeliveries
<1>4. RowsInv'
  BY <1>0, <1>1, <1>2, <1>3 DEF RowsInv
<1>5. ClaimedInv'
  BY <1>0, <1>1, <1>3 DEF ClaimedInv, Reconciled
<1>6. DeliveryFollowsJob'
  BY <1>0, <1>1, <1>3 DEF DeliveryFollowsJob
<1>7. VerdictInv'
  BY <1>0, <1>1, <1>2, <1>3 DEF VerdictInv
<1>8. TerminalRunQuiet'
  BY <1>0, <1>1, <1>2, <1>3 DEF TerminalRunQuiet, Terminal
<1>9. BufferBounded'
  BY <1>0, <1>1 DEF BufferBounded, Of
<1>10. SnapshotNotOlder'
  <2>1. SUFFICES ASSUME NEW d \in Run \X Group,
                        run'[d[1]] \in {"SCHEDULED", "RUNNING"}, delivery'[d] = "PENDING"
                 PROVE  snapshot'[d] >= vetted'[d]
    BY DEF SnapshotNotOlder
  <2>2. CASE d[1] = r
    <3>1. delivery[d] \in {"NONE", "PENDING"}
      BY <1>3, <2>1
    <3>2. snapshot'[d] = revision[d[2]] /\ vetted'[d] = seen[a][d[2]].rev
      BY <2>2, <3>1 DEF Commits
    <3>3. seen[a][d[2]].rev \in Nat /\ revision[d[2]] \in Nat /\ seen[a][d[2]].rev <= revision[d[2]]
      BY <1>0, <1>2 DEF TypeOK, Observation, SeenInv
    <3> QED BY <3>2, <3>3
  <2>3. CASE d[1] # r
    BY <1>0, <1>1, <1>2, <1>3, <2>1, <2>3 DEF Commits, SnapshotNotOlder
  <2> QED BY <2>2, <2>3
<1> QED BY <1>4, <1>5, <1>6, <1>7, <1>8, <1>9, <1>10

-----------------------------------------------------------------------------
(***************************************************************************)
(* The buffer.                                                             *)
(***************************************************************************)
\* The deliveries of a run are finitely many.
LEMMA OfFinite ==
  ASSUME NEW r \in Run
  PROVE  IsFiniteSet(Of(r))
<1>1. IsFiniteSet({r}) /\ IsFiniteSet(Group)
  BY FS_Singleton
<1>2. IsFiniteSet({r} \X Group)
  BY <1>1, FS_Product
<1>3. Of(r) \subseteq {r} \X Group
  BY DEF Of
<1> QED BY <1>2, <1>3, FS_Subset

\* A run whose buffered jobs are among the earlier ones stays within its buffer.
LEMMA BufferShrinks ==
  ASSUME BufferBounded,
         \A d \in Run \X Group : jobs'[d] \in Buffered => jobs[d] \in Buffered
  PROVE  BufferBounded'
<1>1. SUFFICES ASSUME NEW r \in Run
               PROVE  Cardinality({d \in Of(r) : jobs'[d] \in Buffered}) <= MaxBuffered
  BY DEF BufferBounded, Of, Buffered
<1>2. {d \in Of(r) : jobs'[d] \in Buffered} \subseteq {d \in Of(r) : jobs[d] \in Buffered}
  BY DEF Of
<1>3. IsFiniteSet({d \in Of(r) : jobs[d] \in Buffered})
  <2>1. {d \in Of(r) : jobs[d] \in Buffered} \subseteq Of(r)
    OBVIOUS
  <2> QED BY <2>1, OfFinite, FS_Subset
<1>4. /\ Cardinality({d \in Of(r) : jobs'[d] \in Buffered})
           <= Cardinality({d \in Of(r) : jobs[d] \in Buffered})
      /\ Cardinality({d \in Of(r) : jobs'[d] \in Buffered}) \in Nat
      /\ Cardinality({d \in Of(r) : jobs[d] \in Buffered}) \in Nat
  BY <1>2, <1>3, FS_Subset, FS_CardinalityType
<1>5. Cardinality({d \in Of(r) : jobs[d] \in Buffered}) <= MaxBuffered
  BY DEF BufferBounded, Buffered
<1> QED BY <1>4, <1>5

\* A materialization fills the slots that are free, and no more.
LEMMA BufferFills ==
  ASSUME TypeOK, BufferBounded, NEW r \in Run, Materialize(r)
  PROVE  BufferBounded'
<1> DEFINE B(q) == {d \in Of(q) : jobs[d] \in Buffered}
<1>1. PICK S \in SUBSET PendingOf(r) :
        /\ Cardinality(S) <= IF Cardinality(BufferedOf(r)) < MaxBuffered
                             THEN MaxBuffered - Cardinality(BufferedOf(r)) ELSE 0
        /\ \A d \in Run \X Group : jobs'[d] # jobs[d] => d \in S
  <2>1. IsFiniteSet(PendingOf(r)) /\ IsFiniteSet(BufferedOf(r))
    <3>1. PendingOf(r) \subseteq Of(r) /\ BufferedOf(r) \subseteq Of(r)
      BY DEF PendingOf, BufferedOf
    <3> QED BY <3>1, OfFinite, FS_Subset
  <2>2. Cardinality(PendingOf(r)) \in Nat /\ Cardinality(BufferedOf(r)) \in Nat
    BY <2>1, FS_CardinalityType
  <2> QED BY <2>2 DEF Materialize
<1>2. IsFiniteSet(S) /\ Cardinality(S) \in Nat
  <2>1. S \subseteq Of(r)
    BY DEF PendingOf
  <2> QED BY <2>1, OfFinite, FS_Subset, FS_CardinalityType
<1>3. ASSUME NEW q \in Run
      PROVE  /\ IsFiniteSet(B(q)) /\ Cardinality(B(q)) \in Nat
             /\ Cardinality(B(q)) <= MaxBuffered
  <2>1. B(q) \subseteq Of(q)
    OBVIOUS
  <2>2. IsFiniteSet(B(q))
    BY <2>1, OfFinite, FS_Subset
  <2> QED BY <2>2, FS_CardinalityType DEF BufferBounded, Buffered
<1>4. SUFFICES ASSUME NEW q \in Run
               PROVE  Cardinality({d \in Of(q) : jobs'[d] \in Buffered}) <= MaxBuffered
  BY DEF BufferBounded, Of, Buffered
<1>5. CASE q # r
  <2>1. {d \in Of(q) : jobs'[d] \in Buffered} = B(q)
    BY <1>1, <1>5 DEF Of, PendingOf
  <2> QED BY <1>3, <2>1
<1>6. CASE q = r
  <2>1. {d \in Of(r) : jobs'[d] \in Buffered} \subseteq B(r) \cup S
    BY <1>1 DEF Of
  <2>2. /\ IsFiniteSet(B(r) \cup S)
        /\ Cardinality(B(r) \cup S) = Cardinality(B(r)) + Cardinality(S) - Cardinality(B(r) \cap S)
    BY <1>2, <1>3, FS_Union
  <2>3. Cardinality(B(r) \cap S) \in Nat
    BY <1>2, FS_Intersection, FS_CardinalityType
  <2>4. Cardinality({d \in Of(r) : jobs'[d] \in Buffered}) <= Cardinality(B(r) \cup S)
    BY <2>1, <2>2, FS_Subset
  <2>5. Cardinality({d \in Of(r) : jobs'[d] \in Buffered}) \in Nat
    BY <2>1, <2>2, FS_Subset, FS_CardinalityType
  <2>6. BufferedOf(r) = B(r)
    BY DEF BufferedOf
  <2> HIDE DEF B
  <2> QED BY <1>1, <1>2, <1>3, <1>6, <2>2, <2>3, <2>4, <2>5, <2>6
<1> QED BY <1>5, <1>6

-----------------------------------------------------------------------------
(***************************************************************************)
(* Cancellation, materialization, reconciliation, and the jobs' own steps. *)
(***************************************************************************)
\* A cancellation keeps what is said of deliveries and jobs.
LEMMA CancelKeeps ==
  ASSUME Inv, NEW r \in Run, Cancel(r)
  PROVE  /\ RowsInv' /\ ClaimedInv' /\ VerdictInv' /\ DeliveryFollowsJob'
         /\ TerminalRunQuiet' /\ BufferBounded' /\ SnapshotNotOlder'
<1>0. /\ TypeOK /\ RowsInv /\ ClaimedInv /\ VerdictInv /\ DeliveryFollowsJob
      /\ TerminalRunQuiet /\ BufferBounded /\ SnapshotNotOlder
  BY DEF Inv
<1>1. /\ run'[r] = "CANCELLED"
      /\ \A q \in Run : q # r => run'[q] = run[q]
      /\ verdict' = verdict /\ tick' = tick /\ snapshot' = snapshot /\ vetted' = vetted
  BY <1>0 DEF Cancel, TypeOK, scheduler
<1>2. \A d \in Run \X Group : d[1] \in Run
  OBVIOUS
<1>3. \A d \in Run \X Group :
        jobs'[d] = IF d[1] = r /\ jobs[d] \in {"SCHEDULED", "QUEUED"}
                   THEN "CANCELLED" ELSE jobs[d]
  BY DEF Cancel
<1>4. \A d \in Run \X Group :
        delivery'[d] = IF d[1] = r /\ (delivery[d] \in {"NONE", "PENDING"}
                                       \/ jobs'[d] = "CANCELLED")
                       THEN "CANCELLED" ELSE delivery[d]
  BY DEF Cancel, WithDeliveries
<1>5. RowsInv'
  BY <1>0, <1>1, <1>2, <1>4 DEF RowsInv
<1>6. ClaimedInv'
  BY <1>0, <1>3, <1>4 DEF ClaimedInv, Reconciled
<1>7. DeliveryFollowsJob'
  BY <1>0, <1>3, <1>4 DEF DeliveryFollowsJob
<1>8. VerdictInv'
  BY <1>0, <1>1, <1>2, <1>4 DEF VerdictInv, Open
<1>9. TerminalRunQuiet'
  BY <1>0, <1>1, <1>2, <1>3, <1>4 DEF TerminalRunQuiet
<1>10. BufferBounded'
  BY <1>0, <1>3, BufferShrinks DEF Buffered
<1>11. SnapshotNotOlder'
  BY <1>0, <1>1, <1>2, <1>4 DEF SnapshotNotOlder
<1> QED BY <1>5, <1>6, <1>7, <1>8, <1>9, <1>10, <1>11

\* A materialization keeps what is said of deliveries and jobs.
LEMMA MaterializeKeeps ==
  ASSUME Inv, NEW r \in Run, MaterializePending(r), Materialize(r), run[r] = "RUNNING"
  PROVE  /\ RowsInv' /\ ClaimedInv' /\ VerdictInv' /\ DeliveryFollowsJob'
         /\ TerminalRunQuiet' /\ BufferBounded' /\ SnapshotNotOlder'
<1>0. /\ TypeOK /\ RowsInv /\ ClaimedInv /\ VerdictInv /\ DeliveryFollowsJob
      /\ TerminalRunQuiet /\ BufferBounded /\ SnapshotNotOlder
  BY DEF Inv
<1>1. PICK S \in SUBSET PendingOf(r) :
        \A d \in Run \X Group :
          \/ delivery'[d] = delivery[d] /\ jobs'[d] = jobs[d]
          \/ /\ d \in S /\ delivery'[d] = "BLOCKED_CAPABILITY_CHANGED" /\ jobs'[d] = jobs[d]
          \/ /\ d \in S /\ delivery'[d] = "MATERIALIZED" /\ jobs'[d] = "SCHEDULED"
  BY DEF Materialize
<1>2. \A d \in S : d \in Run \X Group /\ d[1] = r /\ delivery[d] = "PENDING"
  BY DEF PendingOf, Of
<1>3. tick = "materialize" /\ UNCHANGED <<verdict, tick, snapshot, vetted>>
  BY DEF MaterializePending
<1>4. \A q \in Run : run'[q] = run[q] \/ (q = r /\ run'[q] = "PAUSED")
  BY <1>0 DEF MaterializePending, TypeOK
<1>5. \A d \in Run \X Group : d[1] \in Run
  OBVIOUS
<1>6. RowsInv'
  BY <1>0, <1>1, <1>2, <1>4, <1>5 DEF RowsInv
<1>7. ClaimedInv'
  BY <1>0, <1>1, <1>2 DEF ClaimedInv, Reconciled
<1>8. DeliveryFollowsJob'
  BY <1>0, <1>1, <1>2 DEF DeliveryFollowsJob
<1>9. VerdictInv'
  BY <1>0, <1>3 DEF VerdictInv
<1>10. TerminalRunQuiet'
  BY <1>0, <1>1, <1>2, <1>4, <1>5 DEF TerminalRunQuiet, Terminal
<1>11. BufferBounded'
  BY <1>0, BufferFills
<1>12. SnapshotNotOlder'
  BY <1>0, <1>1, <1>3, <1>4, <1>5 DEF SnapshotNotOlder
<1> QED BY <1>6, <1>7, <1>8, <1>9, <1>10, <1>11, <1>12

\* A reconciliation keeps what is said of deliveries and jobs.
LEMMA ReconcileKeeps ==
  ASSUME Inv, Reconcile
  PROVE  /\ RowsInv' /\ ClaimedInv' /\ VerdictInv' /\ DeliveryFollowsJob'
         /\ TerminalRunQuiet' /\ BufferBounded' /\ SnapshotNotOlder'
<1>0. /\ TypeOK /\ RowsInv /\ ClaimedInv /\ VerdictInv /\ DeliveryFollowsJob
      /\ TerminalRunQuiet /\ BufferBounded /\ SnapshotNotOlder
  BY DEF Inv
<1>1. /\ tick = "reconcile" /\ UNCHANGED <<run, verdict, jobs, snapshot, vetted>>
      /\ \A d \in Run \X Group :
           delivery'[d] = IF jobs[d] \in Reconciled THEN jobs[d] ELSE delivery[d]
  BY DEF Reconcile, runRows
<1>2. RowsInv'
  BY <1>0, <1>1 DEF RowsInv, Reconciled, DeliveryFollowsJob
<1>3. ClaimedInv'
  BY <1>0, <1>1 DEF ClaimedInv
<1>4. DeliveryFollowsJob'
  BY <1>0, <1>1 DEF DeliveryFollowsJob, Reconciled
<1>5. VerdictInv'
  BY <1>0, <1>1 DEF VerdictInv
<1>6. TerminalRunQuiet'
  BY <1>0, <1>1 DEF TerminalRunQuiet, Reconciled
<1>7. BufferBounded'
  BY <1>0, <1>1 DEF BufferBounded, Of
<1>8. SnapshotNotOlder'
  BY <1>0, <1>1 DEF SnapshotNotOlder, Reconciled
<1> QED BY <1>2, <1>3, <1>4, <1>5, <1>6, <1>7, <1>8

\* A job's own step stays among the jobs claimed, or among those not claimed yet.
LEMMA JobEdge ==
  ASSUME NEW s, NEW t, MS!Edge(s, t), s # "ABSENT", t # "CANCELLED"
  PROVE  /\ s \in {"SCHEDULED", "QUEUED", "PROCESSING", "ACCEPTED", "SENT", "DELIVERED", "READ"}
         /\ s \in {"PROCESSING", "ACCEPTED", "SENT", "DELIVERED", "READ"}
              => t \in Reconciled \ {"CANCELLED", "PROCESSING"}
         /\ t \in {"SCHEDULED", "QUEUED"} => s \in {"SCHEDULED", "QUEUED"}
         /\ t \in Buffered => s \in Buffered
BY DEF MS!Edge, MS!Outcome, MS!Acknowledged, MS!AckStatus, Reconciled, Buffered

\* A job's own step keeps what is said of deliveries and jobs.
LEMMA JobKeeps ==
  ASSUME Inv, NEW e \in Run \X Group, NEW t \in MS!Status, JobStep(e, t)
  PROVE  /\ RowsInv' /\ ClaimedInv' /\ VerdictInv' /\ DeliveryFollowsJob'
         /\ TerminalRunQuiet' /\ BufferBounded' /\ SnapshotNotOlder'
<1>0. /\ TypeOK /\ RowsInv /\ ClaimedInv /\ VerdictInv /\ DeliveryFollowsJob
      /\ TerminalRunQuiet /\ BufferBounded /\ SnapshotNotOlder
  BY DEF Inv
<1>1. UNCHANGED <<run, delivery, verdict, tick, snapshot, vetted>>
  BY DEF JobStep, runRows, scheduler
<1>2. \A d \in Run \X Group : jobs'[d] = IF d = e THEN t ELSE jobs[d]
  BY <1>0 DEF JobStep, TypeOK
<1>3. jobs[e] # "ABSENT" /\ t # "CANCELLED" /\ MS!Edge(jobs[e], t)
  BY DEF JobStep
<1>4. /\ jobs[e] \in {"SCHEDULED", "QUEUED", "PROCESSING", "ACCEPTED", "SENT", "DELIVERED", "READ"}
      /\ jobs[e] \in {"PROCESSING", "ACCEPTED", "SENT", "DELIVERED", "READ"}
           => t \in Reconciled \ {"CANCELLED", "PROCESSING"}
      /\ t \in {"SCHEDULED", "QUEUED"} => jobs[e] \in {"SCHEDULED", "QUEUED"}
      /\ t \in Buffered => jobs[e] \in Buffered
  BY <1>3, JobEdge
<1>5. RowsInv' /\ VerdictInv' /\ SnapshotNotOlder'
  BY <1>0, <1>1 DEF RowsInv, VerdictInv, SnapshotNotOlder
<1>6. ClaimedInv'
  BY <1>0, <1>1, <1>2, <1>4 DEF ClaimedInv, Reconciled
<1>7. DeliveryFollowsJob'
  BY <1>0, <1>1, <1>2, <1>3, <1>4 DEF DeliveryFollowsJob
<1>8. TerminalRunQuiet'
  BY <1>0, <1>1, <1>2, <1>4 DEF TerminalRunQuiet
<1>9. BufferBounded'
  BY <1>0, <1>2, <1>4, BufferShrinks
<1> QED BY <1>5, <1>6, <1>7, <1>8, <1>9

\* Every step keeps what is said of deliveries and jobs.
LEMMA DeliveryNext ==
  ASSUME Inv, [Next]_vars
  PROVE  /\ RowsInv' /\ ClaimedInv' /\ VerdictInv' /\ DeliveryFollowsJob'
         /\ TerminalRunQuiet' /\ BufferBounded' /\ SnapshotNotOlder'
<1>1. Plain \/ DeliveryStep
  BY NextMoves DEF Inv
<1>2. ASSUME NEW w \in Worker, CommitPreflight(w)
      PROVE  /\ RowsInv' /\ ClaimedInv' /\ VerdictInv' /\ DeliveryFollowsJob'
             /\ TerminalRunQuiet' /\ BufferBounded' /\ SnapshotNotOlder'
  BY <1>2, CommitSteps, CommitKeeps
<1>3. ASSUME NEW o \in Operator, CommitResume(o)
      PROVE  /\ RowsInv' /\ ClaimedInv' /\ VerdictInv' /\ DeliveryFollowsJob'
             /\ TerminalRunQuiet' /\ BufferBounded' /\ SnapshotNotOlder'
  BY <1>3, CommitSteps, CommitKeeps
<1> QED BY <1>1, <1>2, <1>3, PlainKeeps, CancelKeeps, MaterializeKeeps, ReconcileKeeps, JobKeeps
        DEF DeliveryStep

-----------------------------------------------------------------------------
(***************************************************************************)
(* Campaign and run.  With at most one LIVE run, the audit's conditions    *)
(* relate one campaign status to one run status.                           *)
(***************************************************************************)
Agree(c, s) ==
  /\ c # "DRAFT"
  /\ c = "ACTIVE" => s \in Controllable
  /\ c = "PAUSED" => s \in {"PAUSED", "BLOCKED"}
  /\ c = "ARCHIVED" => s \in Terminal

\* The LIVE run agrees with the campaign.
LEMMA LiveAgrees ==
  ASSUME NoLifecycleDrift, NEW r \in Run, run[r] # "ABSENT", mode[r] = "LIVE"
  PROVE  Agree(campaign, run[r])
<1>1. r \in LiveRuns
  BY DEF LiveRuns
<1> QED BY <1>1 DEF NoLifecycleDrift, Agree

\* A step that launches nothing causes no drift if the LIVE run agrees again, and a
\* campaign without one stays as it is.
LEMMA DriftStep ==
  ASSUME TypeOK, NoLifecycleDrift, mode' = mode,
         \A q \in Run : run'[q] = "ABSENT" <=> run[q] = "ABSENT",
         \A r \in LiveRuns : Agree(campaign', run'[r]),
         LiveRuns = {} => campaign' = campaign
  PROVE  NoLifecycleDrift'
<1>1. LiveRuns' = LiveRuns
  BY DEF LiveRuns
<1>2. CASE LiveRuns = {}
  BY <1>1, <1>2 DEF NoLifecycleDrift
<1>3. CASE LiveRuns # {}
  BY <1>1, <1>3 DEF NoLifecycleDrift, Agree
<1> QED BY <1>2, <1>3

\* The same for a step that moves one run.
LEMMA DriftOne ==
  ASSUME TypeOK, NoLifecycleDrift, mode' = mode, NEW r \in Run, run[r] # "ABSENT",
         NEW t, t # "ABSENT", run' = [run EXCEPT ![r] = t],
         mode[r] = "LIVE" => Agree(campaign', t),
         mode[r] # "LIVE" => campaign' = campaign
  PROVE  NoLifecycleDrift'
<1>1. \A q \in Run : run'[q] = IF q = r THEN t ELSE run[q]
  BY DEF TypeOK
<1>2. CASE mode[r] = "LIVE"
  <2>1. \A q \in LiveRuns : q = r
    BY <1>2 DEF NoLifecycleDrift, LiveRuns
  <2>2. r \in LiveRuns
    BY <1>2 DEF LiveRuns
  <2> QED BY <1>1, <1>2, <2>1, <2>2, DriftStep
<1>3. CASE mode[r] # "LIVE"
  <2>1. \A q \in LiveRuns : q \in Run /\ run'[q] = run[q] /\ Agree(campaign', run'[q])
    BY <1>1, <1>3, LiveAgrees DEF LiveRuns
  <2> QED BY <1>1, <1>3, <2>1, DriftStep
<1> QED BY <1>2, <1>3

\* Workers cause no drift.
LEMMA WorkerDrift ==
  ASSUME Inv, NEW w \in Worker,
         WorkerStep(w) \/ PreparationThrows(w) \/ WorkerCrashes(w)
  PROVE  NoLifecycleDrift'
<1>0. TypeOK /\ NoLifecycleDrift /\ w \in Actor
  BY DEF Inv, Actor
<1>1. CASE UNCHANGED <<campaign, run, mode>>
  BY <1>0, <1>1 DEF NoLifecycleDrift, LiveRuns
<1>2. CASE ApplyPreflight(w) /\ ~UNCHANGED <<campaign, run, mode>>
  <2>1. /\ at[w] \in Run /\ run[at[w]] = "PREPARING" /\ campaign' = campaign /\ mode' = mode
        /\ run' = [run EXCEPT ![at[w]] = "BLOCKED"]
    BY <1>0, <1>2 DEF ApplyPreflight, OwnsPreparation, TypeOK
  <2>2. mode[at[w]] = "LIVE" => Agree(campaign', "BLOCKED")
    BY <1>0, <2>1, LiveAgrees DEF Agree, Controllable, Terminal
  <2> QED BY <1>0, <2>1, <2>2, DriftOne
<1>3. CASE CommitPreflight(w)
  <2>1. at[w] \in Run /\ run[at[w]] = "PREPARING" /\ campaign' = campaign /\ mode' = mode
    BY <1>3, CommitSteps DEF CommitPreflight
  <2>2. PICK t \in {"RUNNING", "SCHEDULED"} : run' = [run EXCEPT ![at[w]] = t]
    BY <1>3 DEF CommitPreflight
  <2>3. mode[at[w]] = "LIVE" => Agree(campaign', t)
    BY <1>0, <2>1, LiveAgrees DEF Agree, Controllable, Terminal
  <2> QED BY <1>0, <2>1, <2>2, <2>3, DriftOne
<1>4. CASE FailPreparationAttempt(w) /\ ~UNCHANGED <<campaign, run, mode>>
  <2>1. /\ at[w] \in Run /\ run[at[w]] = "PREPARING" /\ mode' = mode
        /\ run' = [run EXCEPT ![at[w]] = "FAILED"] /\ Archives(at[w])
    BY <1>0, <1>4 DEF FailPreparationAttempt, FailOrRetry, OwnsPreparation, TypeOK
  <2>2. mode[at[w]] = "LIVE" => Agree(campaign', "FAILED")
    BY <1>0, <2>1, LiveAgrees DEF Agree, Archives, CampaignMoves, Terminal, TypeOK
  <2>3. mode[at[w]] # "LIVE" => campaign' = campaign
    BY <2>1 DEF Archives, CampaignMoves
  <2> QED BY <1>0, <2>1, <2>2, <2>3, DriftOne
<1>5. CASE ~(ApplyPreflight(w) \/ CommitPreflight(w) \/ FailPreparationAttempt(w))
  <2>1. UNCHANGED <<campaign, run, mode>>
    BY <1>5
    DEF WorkerStep, ClaimPreparation, ReadContext, Evaluate, PreparationThrows, WorkerCrashes,
        runRows
  <2> QED BY <1>1, <2>1
<1> QED BY <1>1, <1>2, <1>3, <1>4, <1>5

\* Operators cause no drift.
LEMMA OperatorDrift ==
  ASSUME Inv, NEW o \in Operator,
         OperatorStep(o) \/ \E r \in Run : StartResume(o, r)
  PROVE  NoLifecycleDrift'
<1>0. TypeOK /\ NoLifecycleDrift /\ o \in Actor
  BY DEF Inv, Actor
<1>1. CASE UNCHANGED <<campaign, run, mode>>
  BY <1>0, <1>1 DEF NoLifecycleDrift, LiveRuns
<1>2. CASE Resume(o) /\ ~UNCHANGED <<campaign, run, mode>>
  <2>1. /\ at[o] \in Run /\ run[at[o]] \in {"PAUSED", "BLOCKED"}
        /\ campaign' = campaign /\ mode' = mode
        /\ run' = [run EXCEPT ![at[o]] = "BLOCKED"]
    BY <1>0, <1>2 DEF Resume, TypeOK
  <2>2. mode[at[o]] = "LIVE" => Agree(campaign', "BLOCKED")
    BY <1>0, <2>1, LiveAgrees DEF Agree, Controllable, Terminal
  <2> QED BY <1>0, <2>1, <2>2, DriftOne
<1>3. CASE CommitResume(o)
  <2>1. /\ at[o] \in Run /\ run[at[o]] \in {"PAUSED", "BLOCKED"} /\ mode' = mode
        /\ CampaignMoves(at[o], {"PAUSED"}, "ACTIVE")
    BY <1>3, CommitSteps DEF CommitResume
  <2>2. PICK t \in {"RUNNING", "SCHEDULED"} : run' = [run EXCEPT ![at[o]] = t]
    BY <1>3 DEF CommitResume
  <2>3. mode[at[o]] = "LIVE" => Agree(campaign', t)
    BY <1>0, <2>1, LiveAgrees DEF Agree, CampaignMoves, Controllable, Terminal
  <2>4. mode[at[o]] # "LIVE" => campaign' = campaign
    BY <2>1 DEF CampaignMoves
  <2> QED BY <1>0, <2>1, <2>2, <2>3, <2>4, DriftOne
<1>4. CASE Evaluate(o) \/ \E r \in Run : StartResume(o, r)
  <2>1. UNCHANGED <<campaign, run, mode>>
    BY <1>4 DEF Evaluate, StartResume, runRows
  <2> QED BY <1>1, <2>1
<1> QED BY <1>1, <1>2, <1>3, <1>4 DEF OperatorStep

\* The tick causes no drift.
LEMMA SchedulerDrift ==
  ASSUME Inv, SchedulerStep \/ PublishFails \/ TickAborts
  PROVE  NoLifecycleDrift'
<1>0. TypeOK /\ NoLifecycleDrift /\ VerdictInv
  BY DEF Inv
<1>1. CASE UNCHANGED <<campaign, run, mode>>
  BY <1>0, <1>1 DEF NoLifecycleDrift, LiveRuns
<1>2. \A r \in LiveRuns : r \in Run /\ run[r] # "ABSENT" /\ mode[r] = "LIVE" /\ Agree(campaign, run[r])
  BY <1>0, LiveAgrees DEF LiveRuns
<1>3. \A q, r \in LiveRuns : q = r
  BY <1>0 DEF NoLifecycleDrift
<1>4. CASE RecoverExpiredPreparations
  <2>1. PICK failed \in SUBSET Run :
          /\ \A r \in failed : run[r] = "PREPARING"
          /\ run' = [r \in Run |-> IF r \in failed THEN "FAILED" ELSE run[r]]
          /\ campaign' = IF campaign \in {"ACTIVE", "PAUSED"}
                              /\ (\E r \in failed : mode[r] = "LIVE")
                         THEN "ARCHIVED" ELSE campaign
          /\ mode' = mode
    BY <1>4 DEF RecoverExpiredPreparations
  <2>2. \A q \in Run : run'[q] = "ABSENT" <=> run[q] = "ABSENT"
    BY <2>1
  <2>3. ASSUME NEW r \in LiveRuns
        PROVE  Agree(campaign', run'[r])
    <3>1. (\E q \in failed : mode[q] = "LIVE") <=> r \in failed
      BY <1>2, <1>3, <2>1 DEF LiveRuns
    <3> QED BY <1>0, <1>2, <2>1, <3>1 DEF Agree, Terminal, TypeOK
  <2>4. LiveRuns = {} => campaign' = campaign
    BY <2>1 DEF LiveRuns
  <2> QED BY <1>0, <2>1, <2>2, <2>3, <2>4, DriftStep
<1>5. CASE ActivateDue
  <2>1. /\ \A r \in Run : run'[r] = run[r] \/ (run[r] = "SCHEDULED" /\ run'[r] = "RUNNING")
        /\ campaign' = campaign /\ mode' = mode
    BY <1>5 DEF ActivateDue
  <2>2. \A r \in LiveRuns : Agree(campaign', run'[r])
    BY <1>2, <2>1 DEF Agree, Controllable, Terminal
  <2> QED BY <1>0, <2>1, <2>2, DriftStep
<1>6. CASE FinalizeApply
  <2>1. PICK done \in SUBSET Run :
          /\ \A r \in done : run[r] # "ABSENT" /\ verdict[r] \in {"COMPLETED", "PARTIAL_FAILED"}
          /\ run' = [r \in Run |-> IF r \in done THEN verdict[r] ELSE run[r]]
          /\ campaign' = IF campaign \in {"ACTIVE", "PAUSED"}
                              /\ (\E r \in done : mode[r] = "LIVE")
                         THEN "ARCHIVED" ELSE campaign
          /\ mode' = mode
    <3>1. \A r \in Run : verdict[r] # "none" =>
            run[r] # "ABSENT" /\ verdict[r] \in {"COMPLETED", "PARTIAL_FAILED"}
      BY <1>0 DEF VerdictInv, TypeOK
    <3>2. {r \in Run : verdict[r] # "none"} \in SUBSET Run
      OBVIOUS
    <3>3. WITNESS {r \in Run : verdict[r] # "none"} \in SUBSET Run
    <3> QED BY <1>6, <3>1 DEF FinalizeApply
  <2>2. \A q \in Run : run'[q] = "ABSENT" <=> run[q] = "ABSENT"
    BY <2>1
  <2>3. ASSUME NEW r \in LiveRuns
        PROVE  Agree(campaign', run'[r])
    <3>1. (\E q \in done : mode[q] = "LIVE") <=> r \in done
      BY <1>2, <1>3, <2>1 DEF LiveRuns
    <3> QED BY <1>0, <1>2, <2>1, <3>1 DEF Agree, Terminal, TypeOK
  <2>4. LiveRuns = {} => campaign' = campaign
    BY <2>1 DEF LiveRuns
  <2> QED BY <1>0, <2>1, <2>2, <2>3, <2>4, DriftStep
<1>7. ASSUME NEW r \in Run, MaterializePending(r), ~UNCHANGED <<campaign, run, mode>>
      PROVE  NoLifecycleDrift'
  <2>1. /\ run[r] = "RUNNING" /\ mode[r] = "LIVE" /\ mode' = mode
        /\ run' = [run EXCEPT ![r] = "PAUSED"] /\ CampaignMoves(r, {"ACTIVE"}, "PAUSED")
    BY <1>7 DEF MaterializePending
  <2>2. Agree(campaign', "PAUSED")
    BY <1>0, <2>1, LiveAgrees DEF Agree, CampaignMoves, Controllable, Terminal
  <2> QED BY <1>0, <2>1, <2>2, DriftOne
<1>8. CASE PublishPreparing \/ Reconcile \/ FinalizeScan \/ ListRunning \/ TickDone
             \/ PublishFails \/ TickAborts
  <2>1. UNCHANGED <<campaign, run, mode>>
    BY <1>8
    DEF PublishPreparing, Reconcile, FinalizeScan, ListRunning, TickDone, PublishFails,
        TickAborts, runRows
  <2> QED BY <1>1, <2>1
<1> QED BY <1>1, <1>4, <1>5, <1>6, <1>7, <1>8 DEF SchedulerStep

\* Launches, pauses, cancellations and the passing of time cause no drift.
LEMMA RunDrift ==
  ASSUME Inv, NEW r \in Run,
         \/ \E m \in Mode, now \in BOOLEAN : CreateRun(r, m, now)
         \/ Pause(r) \/ Cancel(r) \/ MaterializeFails(r)
         \/ LeaseExpires(r) \/ RetryDelayPasses(r) \/ ScheduleArrives(r)
  PROVE  NoLifecycleDrift'
<1>0. TypeOK /\ NoLifecycleDrift
  BY DEF Inv
<1>1. CASE \E m \in Mode, now \in BOOLEAN : CreateRun(r, m, now)
  <2>1. PICK m \in Mode, now \in BOOLEAN : CreateRun(r, m, now)
    BY <1>1
  <2>2. \A q \in Run : run'[q] # "ABSENT" /\ mode'[q] = "LIVE" => q = r /\ m = "LIVE"
    BY <1>0, <2>1 DEF CreateRun, TypeOK
  <2>3. CASE m = "LIVE"
    <3>1. run'[r] = "PREPARING" /\ mode'[r] = "LIVE" /\ campaign' = "ACTIVE"
      BY <1>0, <2>1, <2>3 DEF CreateRun, TypeOK
    <3> QED BY <2>2, <3>1 DEF NoLifecycleDrift, LiveRuns, Controllable
  <2>4. CASE m # "LIVE"
    <3>1. campaign' = "DRAFT"
      BY <2>1, <2>4 DEF CreateRun
    <3> QED BY <2>2, <2>4, <3>1 DEF NoLifecycleDrift, LiveRuns
  <2> QED BY <2>3, <2>4
<1>2. CASE Pause(r)
  <2>1. /\ run[r] \in {"SCHEDULED", "RUNNING"} /\ mode' = mode
        /\ run' = [run EXCEPT ![r] = "PAUSED"] /\ CampaignMoves(r, {"ACTIVE"}, "PAUSED")
    BY <1>2 DEF Pause
  <2>2. mode[r] = "LIVE" => Agree(campaign', "PAUSED")
    BY <1>0, <2>1, LiveAgrees DEF Agree, CampaignMoves, Controllable, Terminal
  <2>3. mode[r] # "LIVE" => campaign' = campaign
    BY <2>1 DEF CampaignMoves
  <2> QED BY <1>0, <2>1, <2>2, <2>3, DriftOne
<1>3. CASE Cancel(r)
  <2>1. /\ run[r] \in Controllable /\ mode' = mode
        /\ run' = [run EXCEPT ![r] = "CANCELLED"] /\ Archives(r)
    BY <1>3 DEF Cancel
  <2>2. run[r] # "ABSENT"
    BY <2>1 DEF Controllable
  <2>3. mode[r] = "LIVE" => Agree(campaign', "CANCELLED")
    BY <1>0, <2>1, <2>2, LiveAgrees DEF Agree, Archives, CampaignMoves, Terminal, TypeOK
  <2>4. mode[r] # "LIVE" => campaign' = campaign
    BY <2>1 DEF Archives, CampaignMoves
  <2> QED BY <1>0, <2>1, <2>2, <2>3, <2>4, DriftOne
<1>4. CASE MaterializeFails(r) \/ LeaseExpires(r) \/ RetryDelayPasses(r) \/ ScheduleArrives(r)
  <2>1. UNCHANGED <<campaign, run, mode>>
    BY <1>4 DEF MaterializeFails, LeaseExpires, RetryDelayPasses, ScheduleArrives, runRows
  <2> QED BY <1>0, <2>1 DEF NoLifecycleDrift, LiveRuns
<1> QED BY <1>1, <1>2, <1>3, <1>4

\* No step causes a drift.
LEMMA DriftNext ==
  ASSUME Inv, [Next]_vars
  PROVE  NoLifecycleDrift'
<1>1. CASE UNCHANGED <<campaign, run, mode>>
  BY <1>1 DEF Inv, NoLifecycleDrift, LiveRuns
<1>2. CASE UNCHANGED vars \/ GatewayChanges
             \/ \E d \in Run \X Group, t \in MS!Status : JobStep(d, t)
  <2>1. UNCHANGED <<campaign, run, mode>>
    BY <1>2 DEF vars, runRows, GatewayChanges, JobStep
  <2> QED BY <1>1, <2>1
<1> QED BY <1>2, WorkerDrift, OperatorDrift, SchedulerDrift, RunDrift DEF Next

-----------------------------------------------------------------------------
(***************************************************************************)
(* What actors have read.                                                  *)
(***************************************************************************)
\* A step changes no revision and at most what one actor has read, or the gateway changes.
LEMMA SeenMoves ==
  ASSUME Next, ~GatewayChanges
  PROVE  /\ revision' = revision
         /\ seen' = seen \/ \E a \in Actor : Idle(a) \/ Reads(a)
<1>1. ASSUME NEW w \in Worker, WorkerStep(w) \/ PreparationThrows(w) \/ WorkerCrashes(w)
      PROVE  revision' = revision /\ (seen' = seen \/ Idle(w) \/ Reads(w))
  BY <1>1
  DEF WorkerStep, ClaimPreparation, ReadContext, Evaluate, ApplyPreflight, CommitPreflight,
      FailPreparationAttempt, PreparationThrows, WorkerCrashes, Goto, gateway, actors
<1>2. ASSUME NEW o \in Operator, OperatorStep(o) \/ \E r \in Run : StartResume(o, r)
      PROVE  revision' = revision /\ (seen' = seen \/ Idle(o) \/ Reads(o))
  BY <1>2 DEF OperatorStep, StartResume, Evaluate, Resume, CommitResume, Goto, gateway
<1>3. ASSUME SchedulerStep \/ PublishFails \/ TickAborts
      PROVE  revision' = revision /\ seen' = seen
  BY <1>3
  DEF SchedulerStep, RecoverExpiredPreparations, PublishPreparing, ActivateDue, Reconcile,
      FinalizeScan, FinalizeApply, ListRunning, MaterializePending, TickDone, PublishFails,
      TickAborts, gateway, actors
<1>4. ASSUME NEW r \in Run,
             \/ \E m \in Mode, now \in BOOLEAN : CreateRun(r, m, now)
             \/ Pause(r) \/ Cancel(r) \/ MaterializeFails(r)
             \/ LeaseExpires(r) \/ RetryDelayPasses(r) \/ ScheduleArrives(r)
      PROVE  revision' = revision /\ seen' = seen
  BY <1>4
  DEF CreateRun, Pause, Cancel, MaterializeFails, LeaseExpires, RetryDelayPasses,
      ScheduleArrives, gateway, actors
<1>5. ASSUME NEW d \in Run \X Group, NEW t \in MS!Status, JobStep(d, t)
      PROVE  revision' = revision /\ seen' = seen
  BY <1>5 DEF JobStep, gateway, actors
<1> QED BY <1>1, <1>2, <1>3, <1>4, <1>5 DEF Next, Actor

\* What an actor has read is never newer than the group.
LEMMA SeenNext ==
  ASSUME TypeOK, SeenInv, [Next]_vars
  PROVE  SeenInv'
<1>0. /\ \A a \in Actor, g \in Group : seen[a][g].rev \in Nat
      /\ \A g \in Group : revision[g] \in Nat
  BY DEF TypeOK, Observation
<1>1. CASE UNCHANGED vars
  BY <1>1 DEF SeenInv, vars, actors, gateway
<1>2. CASE GatewayChanges
  <2>1. seen' = seen /\ \A g \in Group : revision'[g] \in Nat /\ revision'[g] >= revision[g]
    BY <1>0, <1>2 DEF GatewayChanges, actors, TypeOK
  <2> QED BY <1>0, <2>1 DEF SeenInv
<1>3. CASE Next /\ ~GatewayChanges
  <2>1. revision' = revision /\ (seen' = seen \/ \E a \in Actor : Idle(a) \/ Reads(a))
    BY <1>3, SeenMoves
  <2>2. CASE seen' = seen
    BY <2>1, <2>2 DEF SeenInv
  <2>3. ASSUME NEW a \in Actor, Idle(a)
        PROVE  SeenInv'
    <3>1. \A b \in Actor, g \in Group : seen'[b][g].rev = IF b = a THEN 0 ELSE seen[b][g].rev
      BY <2>3 DEF Idle, TypeOK
    <3> QED BY <1>0, <2>1, <3>1 DEF SeenInv
  <2>4. ASSUME NEW a \in Actor, Reads(a)
        PROVE  SeenInv'
    <3>1. \A b \in Actor, g \in Group :
            seen'[b][g].rev = IF b = a THEN revision[g] ELSE seen[b][g].rev
      BY <2>4 DEF Reads, TypeOK
    <3> QED BY <1>0, <2>1, <3>1 DEF SeenInv
  <2> QED BY <2>1, <2>2, <2>3, <2>4
<1> QED BY <1>1, <1>2, <1>3

-----------------------------------------------------------------------------
(***************************************************************************)
(* The invariant and the theorems.                                         *)
(***************************************************************************)
\* The invariant holds at the start.
LEMMA InvInit ==
  ASSUME Init
  PROVE  Inv
<1>1. TypeOK
  BY TypeInit
<1>2. /\ \A r \in Run : run[r] = "ABSENT" /\ verdict[r] = "none"
      /\ \A d \in Run \X Group : d[1] \in Run /\ delivery[d] = "NONE" /\ jobs[d] = "ABSENT"
      /\ \A a \in Actor : pc[a] = "idle"
      /\ campaign = "DRAFT"
  BY DEF Init
<1>3. SeenInv
  BY DEF Init, SeenInv
<1>4. LockInv /\ RowsInv /\ ClaimedInv /\ VerdictInv /\ DeliveryFollowsJob
  BY <1>2 DEF LockInv, RowsInv, ClaimedInv, VerdictInv, DeliveryFollowsJob, Reconciled
<1>5. NoLifecycleDrift /\ TerminalRunQuiet /\ SnapshotNotOlder
  BY <1>2 DEF NoLifecycleDrift, LiveRuns, TerminalRunQuiet, SnapshotNotOlder, Terminal
<1>6. BufferBounded
  <2>1. ASSUME NEW r \in Run
        PROVE  {d \in Of(r) : jobs[d] \in {"SCHEDULED", "QUEUED", "PROCESSING"}} = {}
    BY <1>2 DEF Of
  <2> QED BY <2>1, FS_EmptySet DEF BufferBounded
<1> QED BY <1>1, <1>3, <1>4, <1>5, <1>6 DEF Inv

\* Every step keeps the invariant.
LEMMA InvNext ==
  ASSUME Inv, [Next]_vars
  PROVE  Inv'
<1>1. TypeOK' /\ LockInv' /\ SeenInv'
  BY TypeNext, LockNext, SeenNext DEF Inv
<1> QED BY <1>1, DeliveryNext, DriftNext DEF Inv

\* The invariant always holds.
LEMMA InvHolds == Spec => []Inv
BY InvInit, InvNext, PTL DEF Spec

(***************************************************************************)
(* The audit query never counts a drift between a campaign and its runs,   *)
(* however operators, preparation workers and the tick interleave: each    *)
(* transaction moves both rows or neither (pause, resume, cancel, create,  *)
(* failPreparationAttempt, recoverExpiredPreparations, finalize,           *)
(* materializePending).                                                    *)
(***************************************************************************)
THEOREM LifecycleAgrees == Spec => []NoLifecycleDrift
<1>1. Inv => NoLifecycleDrift
  BY DEF Inv
<1> QED BY <1>1, InvHolds, PTL

(***************************************************************************)
(* A terminal run has no pending delivery and no job that a worker could   *)
(* still claim, although finalize decides in one snapshot and updates      *)
(* later, over a pause, a resumption or a cancellation in between.         *)
(***************************************************************************)
THEOREM TerminalQuiet == Spec => []TerminalRunQuiet
<1>1. Inv => TerminalRunQuiet
  BY DEF Inv
<1> QED BY <1>1, InvHolds, PTL

(***************************************************************************)
(* materializePending never overfills the buffer of a run, for any number  *)
(* of deliveries and any limit.                                            *)
(***************************************************************************)
THEOREM BufferHolds == Spec => []BufferBounded
<1>1. Inv => BufferBounded
  BY DEF Inv
<1> QED BY <1>1, InvHolds, PTL

(***************************************************************************)
(* A delivery tells the truth about its job: cancelled ones were never     *)
(* claimed, closed ones agree with the job for ever, untouched ones have   *)
(* none (cancel, reconcile, materializePending).                           *)
(***************************************************************************)
THEOREM DeliveriesHonest == Spec => []DeliveryFollowsJob
<1>1. Inv => DeliveryFollowsJob
  BY DEF Inv
<1> QED BY <1>1, InvHolds, PTL

(***************************************************************************)
(* The targets of a started run are not older than what its preflight had  *)
(* read, for any number of capability changes (applyPreflight, resume).    *)
(***************************************************************************)
THEOREM SnapshotStaysCurrent == Spec => []SnapshotNotOlder
<1>1. Inv => SnapshotNotOlder
  BY DEF Inv
<1> QED BY <1>1, InvHolds, PTL

\* A terminal run only changes when finalize overwrites a cancellation.
LEMMA TerminalStep ==
  ASSUME Inv, [Next]_vars, NEW r \in Run, run[r] \in Terminal, run'[r] # run[r]
  PROVE  run[r] = "CANCELLED" /\ run'[r] = verdict[r]
<1>0. TypeOK /\ VerdictInv
  BY DEF Inv
<1>1. Plain \/ DeliveryStep
  BY <1>0, NextMoves
<1>2. CASE Plain
  BY <1>0, <1>2 DEF Plain, RunMoves, PlainEdge, VerdictInv, Terminal
<1>3. ASSUME NEW a \in Actor, NEW q \in Run, run[q] \in {"PREPARING", "PAUSED", "BLOCKED"},
             Commits(a, q)
      PROVE  FALSE
  BY <1>0, <1>3 DEF Commits, Terminal, TypeOK
<1>4. CASE (\E w \in Worker : CommitPreflight(w)) \/ (\E o \in Operator : CommitResume(o))
  BY <1>3, <1>4, CommitSteps
<1>5. ASSUME NEW q \in Run, Cancel(q)
      PROVE  FALSE
  BY <1>0, <1>5 DEF Cancel, Controllable, Terminal, TypeOK
<1>6. ASSUME NEW q \in Run, MaterializePending(q), run[q] = "RUNNING"
      PROVE  FALSE
  BY <1>0, <1>6 DEF MaterializePending, Terminal, TypeOK
<1>7. CASE Reconcile \/ \E d \in Run \X Group, t \in MS!Status : JobStep(d, t)
  BY <1>7 DEF Reconcile, JobStep, runRows
<1> QED BY <1>1, <1>2, <1>4, <1>5, <1>6, <1>7 DEF DeliveryStep

(***************************************************************************)
(* A terminal status stands, whoever still holds a lease, a report or a    *)
(* lock from before it; the one exception is finalize, which decided while *)
(* the run was RUNNING and updates by id over a cancellation.              *)
(***************************************************************************)
THEOREM TerminalStands == Spec => TerminalRunStands
<1>1. Inv /\ [Next]_vars =>
        [\A r \in Run :
           run[r] \in Terminal /\ run'[r] # run[r]
             => run[r] = "CANCELLED" /\ run'[r] = verdict[r]]_vars
  BY TerminalStep
<1> QED BY <1>1, InvHolds, PTL DEF Spec, TerminalRunStands
=============================================================================
