------------------------------ MODULE CampaignRun ------------------------------
(***************************************************************************)
(* One campaign and its runs: launch, preparation under a token-owned      *)
(* lease, preflight, materialization of deliveries into message jobs,      *)
(* reconciliation, finalization, and the operator's pause, resume and      *)
(* cancel.  One action is one SQL statement or one transaction that holds  *)
(* the run's row lock throughout; a transaction whose statements read      *)
(* unlocked rows between two decisions is two actions with the row locked  *)
(* in between.  Transactions run at READ COMMITTED.                        *)
(*                                                                         *)
(* A preparation lease token is the worker that claimed: a worker has one  *)
(* attempt at a time and forgets it when it crashes.  Deadlines are sets:  *)
(* a run leaves fresh when its lease expires, enters due when its retry    *)
(* delay has passed and startable when scheduled_at has passed.            *)
(***************************************************************************)
EXTENDS Naturals, FiniteSets

CONSTANTS
  Run, Group, Worker, Operator,
  NoOne,        \* no lease token, nobody
  NoRun,
  MaxAttempts,  \* preparation attempts before FAILED (3)
  MaxBuffered,  \* jobs of a run in SCHEDULED, QUEUED or PROCESSING (5)
  LiveEnabled,  \* ALLOW_LIVE_SENDS
  Acks,         \* bound on the acknowledgements that jobs receive
  MaxRevision,  \* bound on capability changes of a group
  MaxFaults     \* bound on crashes, errors, lost publications, requeued jobs

ASSUME CampaignAssumption ==
  /\ NoOne \notin Worker /\ NoRun \notin Run
  /\ Worker \cap Operator = {}
  /\ IsFiniteSet(Group) /\ Group # {}
  /\ MaxAttempts \in Nat \ {0} /\ MaxBuffered \in Nat \ {0}
  /\ LiveEnabled \in BOOLEAN /\ Acks \subseteq {"SENT", "DELIVERED", "READ", "FAILED"}
  /\ MaxRevision \in Nat /\ MaxFaults \in Nat

VARIABLES
  campaign,                 \* campaigns.status
  run, mode,                \* campaign_runs.status and execution_mode
  startable,                \* runs whose scheduled_at has passed
  attempts, holder, fresh,  \* preparation_attempt_count, its lease token, unexpired
  due,                      \* runs whose preparation_next_attempt_at has passed
  snapshot,                 \* campaign_run_targets.capability_revision
  delivery, jobs,           \* campaign_deliveries.status, its message_jobs.status
  capability, revision,     \* gateway_groups: send_capability, capability_revision
  session,                  \* gateway_sessions: whether the session is sendable
  published,                \* prepare-run jobs waiting in the campaign queue
  tick, verdict, toMaterialize,  \* the campaign dispatch tick
  pc, at, seen, report,     \* workers and operators: where, run, read groups, result
  vetted,                   \* revisions the last applied report of a run had read
  faults

Actor == Worker \cup Operator

runRows == <<run, mode, startable, attempts, holder, fresh, due>>
deliveryRows == <<snapshot, delivery, jobs>>
gateway == <<capability, revision, session>>
scheduler == <<tick, verdict, toMaterialize>>
actors == <<pc, at, seen, report>>
vars == <<campaign, runRows, deliveryRows, gateway, published, scheduler, actors,
          vetted, faults>>

Mode == {"LIVE", "DRY_RUN"}
\* Mutant: a run that failed can be cancelled.
Controllable_Failed == {"PREPARING", "BLOCKED", "SCHEDULED", "RUNNING", "PAUSED", "FAILED"}
Controllable == {"PREPARING", "BLOCKED", "SCHEDULED", "RUNNING", "PAUSED"}
Terminal == {"COMPLETED", "PARTIAL_FAILED", "CANCELLED", "FAILED"}
RunStatus == {"ABSENT"} \cup Controllable \cup Terminal
Capability == {"ALLOWED", "DENIED", "UNKNOWN"}
Reconciled == {"PROCESSING", "DRY_RUN_COMPLETED", "ACCEPTED", "SENT", "DELIVERED",
               "READ", "FAILED", "UNKNOWN", "CANCELLED"}
DeliveryStatus == {"NONE", "PENDING", "MATERIALIZED", "BLOCKED_CAPABILITY_CHANGED"}
                    \cup Reconciled
\* Mutants: a job waiting in the queue, or an unknown outcome, is taken for the
\* other kind; a job being sent leaves the buffer.
Open_Forgets == {"PENDING", "PROCESSING"}
Open_Unknown == {"PENDING", "MATERIALIZED", "PROCESSING", "UNKNOWN"}
Buffered_Forgets == {"SCHEDULED", "QUEUED"}

Open == {"PENDING", "MATERIALIZED", "PROCESSING"}
Failure == {"FAILED", "UNKNOWN", "BLOCKED_CAPABILITY_CHANGED", "CANCELLED"}
Buffered == {"SCHEDULED", "QUEUED", "PROCESSING"}

\* What may happen to the message jobs a run created.
MS == INSTANCE MessageStatus

Init ==
  /\ campaign = "DRAFT"
  /\ run = [r \in Run |-> "ABSENT"]
  /\ mode = [r \in Run |-> "LIVE"]
  /\ startable = {}
  /\ attempts = [r \in Run |-> 0]
  /\ holder = [r \in Run |-> NoOne]
  /\ fresh = {} /\ due = {}
  /\ snapshot = [d \in Run \X Group |-> 0]
  /\ delivery = [d \in Run \X Group |-> "NONE"]
  /\ jobs = [d \in Run \X Group |-> "ABSENT"]
  /\ capability = [g \in Group |-> "ALLOWED"]
  /\ revision = [g \in Group |-> 0]
  /\ session = "ready"
  /\ published = {}
  /\ tick = "recover" /\ verdict = [r \in Run |-> "none"] /\ toMaterialize = {}
  /\ pc = [a \in Actor |-> "idle"]
  /\ at = [a \in Actor |-> NoRun]
  /\ seen = [a \in Actor |-> [g \in Group |-> [rev |-> 0, cap |-> "ALLOWED"]]]
  /\ report = [a \in Actor |-> "none"]
  /\ vetted = [d \in Run \X Group |-> 0]
  /\ faults = 0

-----------------------------------------------------------------------------
\* A transaction between its check and its commit holds the row of its run.
Locked(r) == \E a \in Actor : pc[a] = "commit" /\ at[a] = r

\* Mutant: ON CONFLICT DO UPDATE SET status = 'PENDING'.
WithDeliveries_Upsert(r) ==
  [d \in Run \X Group |-> IF d[1] = r THEN "PENDING" ELSE delivery[d]]

\* INSERT INTO campaign_deliveries ... ON CONFLICT DO NOTHING.
WithDeliveries(r) ==
  [d \in Run \X Group |->
     IF d[1] = r /\ delivery[d] = "NONE" THEN "PENDING" ELSE delivery[d]]

\* Mutant: the targets keep the revision of the launch.
Recopied_Once(D) ==
  [d \in Run \X Group |->
     IF d \in D /\ run[d[1]] = "ABSENT" THEN revision[d[2]] ELSE snapshot[d]]

\* The targets in D take the capability revisions of this moment.
Recopied(D) ==
  [d \in Run \X Group |-> IF d \in D THEN revision[d[2]] ELSE snapshot[d]]

\* UPDATE campaigns ... WHERE id = the run's campaign AND status IN from, for LIVE.
CampaignMoves(r, from, to) ==
  campaign' = IF mode[r] = "LIVE" /\ campaign \in from THEN to ELSE campaign

\* Mutant: only an ACTIVE campaign is archived.
Archives_ActiveOnly(r) == CampaignMoves(r, {"ACTIVE"}, "ARCHIVED")

Archives(r) == CampaignMoves(r, {"ACTIVE", "PAUSED"}, "ARCHIVED")

NoLease(r) ==
  /\ holder' = [holder EXCEPT ![r] = NoOne]
  /\ fresh' = fresh \ {r}

\* CampaignRunRepository.create, with a new idempotency key and matching
\* revisions; every other answer changes nothing.
CreateRun(r, m, now) ==
  /\ run[r] = "ABSENT"
  /\ campaign = "DRAFT"
  /\ \A q \in Run : run[q] # "ABSENT" => mode[q] # "LIVE"
  /\ run' = [run EXCEPT ![r] = "PREPARING"]
  /\ mode' = [mode EXCEPT ![r] = m]
  /\ startable' = IF now THEN startable \cup {r} ELSE startable
  /\ due' = due \cup {r}
  /\ snapshot' = Recopied({d \in Run \X Group : d[1] = r})
  /\ campaign' = IF m = "LIVE" THEN "ACTIVE" ELSE campaign
  /\ UNCHANGED <<attempts, holder, fresh, delivery, jobs, gateway, published, scheduler,
                 actors, vetted, faults>>

-----------------------------------------------------------------------------
(***************************************************************************)
(* CampaignRunService.prepare on a worker.                                 *)
(***************************************************************************)
Idle(a) ==
  /\ pc' = [pc EXCEPT ![a] = "idle"]
  /\ at' = [at EXCEPT ![a] = NoRun]
  /\ seen' = [seen EXCEPT ![a] = [g \in Group |-> [rev |-> 0, cap |-> "ALLOWED"]]]
  /\ report' = [report EXCEPT ![a] = "none"]

Goto(a, p) ==
  /\ pc' = [pc EXCEPT ![a] = p]
  /\ UNCHANGED <<at, seen, report>>

\* Mutant: the attempt budget is not checked.
Claimable_Unbounded(r) ==
  run[r] = "PREPARING" /\ r \in due /\ (holder[r] = NoOne \/ r \notin fresh)

Claimable(r) ==
  /\ run[r] = "PREPARING" /\ r \in due /\ attempts[r] < MaxAttempts
  /\ holder[r] = NoOne \/ r \notin fresh

\* The queue hands a stalled job to another worker, so a run that one worker
\* works on may be published and claimed again.
ClaimPreparation(w, r) ==
  /\ pc[w] = "idle" /\ r \in published /\ ~Locked(r)
  /\ published' = published \ {r}
  /\ IF Claimable(r)
       THEN /\ attempts' = [attempts EXCEPT ![r] = @ + 1]
            /\ holder' = [holder EXCEPT ![r] = w]
            /\ fresh' = fresh \cup {r}
            /\ pc' = [pc EXCEPT ![w] = "context"]
            /\ at' = [at EXCEPT ![w] = r]
            /\ UNCHANGED <<seen, report>>
       ELSE UNCHANGED <<attempts, holder, fresh, actors>>
  /\ UNCHANGED <<campaign, run, mode, startable, due, deliveryRows, gateway, scheduler,
                 vetted, faults>>

\* getPreflightContext: one repeatable-read snapshot of the targets.
Reads(a) ==
  seen' = [seen EXCEPT ![a] =
             [g \in Group |-> [rev |-> revision[g], cap |-> capability[g]]]]

ReadContext(w) ==
  /\ pc[w] = "context"
  /\ IF run[at[w]] = "PREPARING"
       THEN /\ Reads(w)
            /\ pc' = [pc EXCEPT ![w] = "evaluate"]
            /\ UNCHANGED <<at, report>>
       ELSE Idle(w)
  /\ UNCHANGED <<campaign, runRows, deliveryRows, gateway, published, scheduler, vetted,
                 faults>>

\* evaluateCampaignPreflight over the targets read before and the session now;
\* content and a non-empty target set are checked when a campaign is written.
Preflight(a) ==
  LET live == mode[at[a]] = "LIVE"
      issues == \E g \in Group : seen[a][g].cap # "ALLOWED"
  IN IF session # "ready" \/ (live /\ (issues \/ ~LiveEnabled)) THEN "BLOCK"
     ELSE IF issues THEN "WARN" ELSE "PASS"

Evaluate(a) ==
  /\ pc[a] = "evaluate"
  /\ report' = [report EXCEPT ![a] = Preflight(a)]
  /\ pc' = [pc EXCEPT ![a] = "apply"]
  /\ UNCHANGED <<campaign, runRows, deliveryRows, gateway, published, scheduler, at,
                 seen, vetted, faults>>

\* capabilitySnapshotChanged.
SnapshotChanged(a) == \E g \in Group : revision[g] # seen[a][g].rev

OwnsPreparation(w) ==
  LET r == at[w] IN run[r] = "PREPARING" /\ holder[r] = w /\ r \in fresh

(***************************************************************************)
(* applyPreflight up to its decision: lost ownership, stale input (which   *)
(* gives the attempt back), BLOCK, or on to the commit with the run locked.*)
(***************************************************************************)
ApplyPreflight(w) ==
  LET r == at[w] IN
  /\ pc[w] = "apply" /\ w \in Worker /\ ~Locked(r)
  /\ \/ /\ ~OwnsPreparation(w)
        /\ Idle(w)
        /\ UNCHANGED <<run, attempts, holder, fresh, due>>
     \/ /\ OwnsPreparation(w) /\ SnapshotChanged(w)
        /\ attempts' = [attempts EXCEPT ![r] = IF @ > 0 THEN @ - 1 ELSE 0]
        /\ due' = due \cup {r}
        /\ NoLease(r)
        /\ Idle(w)
        /\ UNCHANGED run
     \/ /\ OwnsPreparation(w) /\ ~SnapshotChanged(w) /\ report[w] = "BLOCK"
        /\ run' = [run EXCEPT ![r] = "BLOCKED"]
        /\ NoLease(r)
        /\ Idle(w)
        /\ UNCHANGED <<attempts, due>>
     \/ /\ OwnsPreparation(w) /\ ~SnapshotChanged(w) /\ report[w] # "BLOCK"
        /\ Goto(w, "commit")
        /\ UNCHANGED <<run, attempts, holder, fresh, due>>
  /\ UNCHANGED <<campaign, mode, startable, deliveryRows, gateway, published, scheduler,
                 vetted, faults>>

\* The rest of the transaction: the capabilities of this moment are copied.
CommitPreflight(w) ==
  LET r == at[w] IN
  /\ pc[w] = "commit" /\ w \in Worker
  /\ snapshot' = Recopied({d \in Run \X Group : d[1] = r})
  /\ vetted' = [d \in Run \X Group |->
                  IF d[1] = r THEN seen[w][d[2]].rev ELSE vetted[d]]
  /\ delivery' = WithDeliveries(r)
  /\ run' = [run EXCEPT ![r] = IF r \in startable THEN "RUNNING" ELSE "SCHEDULED"]
  /\ NoLease(r)
  /\ Idle(w)
  /\ UNCHANGED <<campaign, mode, startable, attempts, due, jobs, gateway, published,
                 scheduler, faults>>

\* Anything in prepare's try block throws; a transaction rolls back.
PreparationThrows(w) ==
  /\ faults < MaxFaults
  /\ pc[w] \in {"context", "evaluate", "apply", "commit"} /\ w \in Worker
  /\ Goto(w, "fail")
  /\ faults' = faults + 1
  /\ UNCHANGED <<campaign, runRows, deliveryRows, gateway, published, scheduler, vetted>>

\* FAILED after the last attempt, else PREPARING again after a delay.
FailOrRetry(r) ==
  IF attempts[r] >= MaxAttempts
    THEN run' = [run EXCEPT ![r] = "FAILED"] /\ Archives(r)
    ELSE UNCHANGED <<run, campaign>>

FailPreparationAttempt(w) ==
  LET r == at[w] IN
  /\ pc[w] = "fail" /\ ~Locked(r)
  /\ IF OwnsPreparation(w)
       THEN /\ FailOrRetry(r)
            /\ due' = due \ {r}
            /\ NoLease(r)
       ELSE UNCHANGED <<run, campaign, due, holder, fresh>>
  /\ Idle(w)
  /\ UNCHANGED <<mode, startable, attempts, deliveryRows, gateway, published, scheduler,
                 vetted, faults>>

WorkerCrashes(w) ==
  /\ faults < MaxFaults
  /\ pc[w] # "idle" /\ w \in Worker
  /\ Idle(w)
  /\ faults' = faults + 1
  /\ UNCHANGED <<campaign, runRows, deliveryRows, gateway, published, scheduler, vetted>>

-----------------------------------------------------------------------------
(***************************************************************************)
(* CampaignRunService.pause, resume and cancel.                            *)
(***************************************************************************)
Pause(r) ==
  /\ ~Locked(r)
  /\ run[r] \in {"SCHEDULED", "RUNNING"}
  /\ run' = [run EXCEPT ![r] = "PAUSED"]
  /\ CampaignMoves(r, {"ACTIVE"}, "PAUSED")
  /\ UNCHANGED <<mode, startable, attempts, holder, fresh, due, deliveryRows, gateway,
                 published, scheduler, actors, vetted, faults>>

StartResume(o, r) ==
  /\ pc[o] = "idle"
  /\ run[r] \in {"PAUSED", "BLOCKED"}
  /\ Reads(o)
  /\ pc' = [pc EXCEPT ![o] = "evaluate"]
  /\ at' = [at EXCEPT ![o] = r]
  /\ UNCHANGED <<campaign, runRows, deliveryRows, gateway, published, scheduler, report,
                 vetted, faults>>

\* recordBlockedResume, or resume up to its decision.
Resume(o) ==
  LET r == at[o] IN
  /\ pc[o] = "apply" /\ o \in Operator /\ ~Locked(r)
  /\ \/ /\ report[o] = "BLOCK"
        /\ run' = IF run[r] \in {"PAUSED", "BLOCKED"}
                  THEN [run EXCEPT ![r] = "BLOCKED"] ELSE run
        /\ Idle(o)
     \/ /\ report[o] # "BLOCK"
        /\ run[r] \notin {"PAUSED", "BLOCKED"} \/ SnapshotChanged(o)
        /\ Idle(o)
        /\ UNCHANGED run
     \/ /\ report[o] # "BLOCK"
        /\ run[r] \in {"PAUSED", "BLOCKED"} /\ ~SnapshotChanged(o)
        /\ Goto(o, "commit")
        /\ UNCHANGED run
  /\ UNCHANGED <<campaign, mode, startable, attempts, holder, fresh, due, deliveryRows,
                 gateway, published, scheduler, vetted, faults>>

\* Only targets whose delivery has not started take the current capability.
CommitResume(o) ==
  LET r == at[o]
      pending(d) == d[1] = r /\ delivery[d] \in {"NONE", "PENDING"}
  IN
  /\ pc[o] = "commit" /\ o \in Operator
  /\ snapshot' = Recopied({d \in Run \X Group : pending(d)})
  /\ vetted' = [d \in Run \X Group |->
                  IF pending(d) THEN seen[o][d[2]].rev ELSE vetted[d]]
  /\ delivery' = WithDeliveries(r)
  /\ run' = [run EXCEPT ![r] = IF r \in startable THEN "RUNNING" ELSE "SCHEDULED"]
  /\ CampaignMoves(r, {"PAUSED"}, "ACTIVE")
  /\ Idle(o)
  /\ UNCHANGED <<mode, startable, attempts, holder, fresh, due, jobs, gateway, published,
                 scheduler, faults>>

Cancel(r) ==
  LET cancelled == [d \in Run \X Group |->
                      IF d[1] = r /\ jobs[d] \in {"SCHEDULED", "QUEUED"}
                      THEN "CANCELLED" ELSE jobs[d]]
  IN
  /\ ~Locked(r)
  /\ run[r] \in Controllable
  /\ jobs' = cancelled
  /\ delivery' = [d \in Run \X Group |->
                    IF d[1] = r /\ (WithDeliveries(r)[d] = "PENDING"
                                    \/ cancelled[d] = "CANCELLED")
                    THEN "CANCELLED" ELSE delivery[d]]
  /\ run' = [run EXCEPT ![r] = "CANCELLED"]
  /\ Archives(r)
  /\ UNCHANGED <<mode, startable, attempts, holder, fresh, due, snapshot, gateway,
                 published, scheduler, actors, vetted, faults>>

-----------------------------------------------------------------------------
(***************************************************************************)
(* CampaignDispatchTick.run.  (Its limits of 100 rows are above the sizes  *)
(* modelled.)                                                              *)
(***************************************************************************)
\* Mutant: expired preparation leases are not recovered.
RecoverExpired_Skipped ==
  /\ tick = "recover"
  /\ tick' = "list"
  /\ UNCHANGED <<campaign, runRows, deliveryRows, gateway, published, verdict,
                 toMaterialize, actors, vetted, faults>>

RecoverExpiredPreparations ==
  LET expired == {r \in Run : run[r] = "PREPARING"
                    /\ \/ holder[r] # NoOne /\ r \notin fresh
                       \/ holder[r] = NoOne /\ attempts[r] >= MaxAttempts}
      failed == {r \in expired : attempts[r] >= MaxAttempts}
  IN
  /\ tick = "recover"
  /\ \A r \in expired : ~Locked(r)
  /\ run' = [r \in Run |-> IF r \in failed THEN "FAILED" ELSE run[r]]
  /\ holder' = [r \in Run |-> IF r \in expired THEN NoOne ELSE holder[r]]
  /\ due' = due \cup expired
  /\ campaign' = IF campaign \in {"ACTIVE", "PAUSED"}
                      /\ (\E r \in failed : mode[r] = "LIVE")
                 THEN "ARCHIVED" ELSE campaign
  /\ tick' = "list"
  /\ UNCHANGED <<mode, startable, attempts, fresh, deliveryRows, gateway, published,
                 verdict, toMaterialize, actors, vetted, faults>>

\* listPreparing, and a queue job for each run it finds.
PublishPreparing ==
  /\ tick = "list"
  /\ published' = published \cup {r \in Run : Claimable(r)}
  /\ tick' = "activate"
  /\ UNCHANGED <<campaign, runRows, deliveryRows, gateway, verdict, toMaterialize,
                 actors, vetted, faults>>

\* Queue.add throws: the run stays PREPARING for the next tick.
PublishFails ==
  /\ faults < MaxFaults
  /\ tick = "list" /\ \E r \in Run : Claimable(r)
  /\ tick' = "activate"
  /\ faults' = faults + 1
  /\ UNCHANGED <<campaign, runRows, deliveryRows, gateway, published, verdict,
                 toMaterialize, actors, vetted>>

ActivateDue ==
  LET starting == {r \in Run : run[r] = "SCHEDULED" /\ r \in startable} IN
  /\ tick = "activate"
  /\ \A r \in starting : ~Locked(r)
  /\ run' = [r \in Run |-> IF r \in starting THEN "RUNNING" ELSE run[r]]
  /\ tick' = "reconcile"
  /\ UNCHANGED <<campaign, mode, startable, attempts, holder, fresh, due, deliveryRows,
                 gateway, published, verdict, toMaterialize, actors, vetted, faults>>

\* A delivery that has a job takes the job's status once it is being processed.
Reconcile ==
  /\ tick = "reconcile"
  /\ delivery' = [d \in Run \X Group |->
                    IF jobs[d] \in Reconciled THEN jobs[d] ELSE delivery[d]]
  /\ tick' = "scan"
  /\ UNCHANGED <<campaign, runRows, snapshot, jobs, gateway, published, verdict,
                 toMaterialize, actors, vetted, faults>>

Of(r) == {d \in Run \X Group : d[1] = r}
Rows(r) == {d \in Of(r) : delivery[d] # "NONE"}

\* finalize: what its statement's snapshot finds finished ...
FinalizeScan ==
  /\ tick = "scan"
  /\ verdict' = [r \in Run |->
       IF run[r] = "RUNNING" /\ Rows(r) # {} /\ \A d \in Rows(r) : delivery[d] \notin Open
         THEN IF \E d \in Rows(r) : delivery[d] \in Failure
                THEN "PARTIAL_FAILED" ELSE "COMPLETED"
         ELSE "none"]
  /\ tick' = "finalize"
  /\ UNCHANGED <<campaign, runRows, deliveryRows, gateway, published, toMaterialize,
                 actors, vetted, faults>>

\* ... and the update of those rows, after any row lock is released: the
\* status is not looked at again.
FinalizeApply ==
  LET done == {r \in Run : verdict[r] # "none"} IN
  /\ tick = "finalize"
  /\ \A r \in done : ~Locked(r)
  /\ run' = [r \in Run |-> IF r \in done THEN verdict[r] ELSE run[r]]
  /\ campaign' = IF campaign \in {"ACTIVE", "PAUSED"}
                      /\ (\E r \in done : mode[r] = "LIVE")
                 THEN "ARCHIVED" ELSE campaign
  /\ verdict' = [r \in Run |-> "none"]
  /\ tick' = "running"
  /\ UNCHANGED <<mode, startable, attempts, holder, fresh, due, deliveryRows, gateway,
                 published, toMaterialize, actors, vetted, faults>>

ListRunning ==
  /\ tick = "running"
  /\ toMaterialize' = {r \in Run : run[r] = "RUNNING"}
  /\ tick' = "materialize"
  /\ UNCHANGED <<campaign, runRows, deliveryRows, gateway, published, verdict, actors,
                 vetted, faults>>

BufferedOf(r) == {d \in Of(r) : jobs[d] \in Buffered}
PendingOf(r) == {d \in Of(r) : delivery[d] = "PENDING"}
CapabilityChanged(d) ==
  snapshot[d] # revision[d[2]] \/ capability[d[2]] # "ALLOWED"

Materialize(r) ==
  LET slots == IF Cardinality(BufferedOf(r)) < MaxBuffered
               THEN MaxBuffered - Cardinality(BufferedOf(r)) ELSE 0
      blocked(d) == mode[r] = "LIVE" /\ CapabilityChanged(d)
  IN
  \E S \in SUBSET PendingOf(r) :
    /\ Cardinality(S) = IF Cardinality(PendingOf(r)) < slots
                        THEN Cardinality(PendingOf(r)) ELSE slots
    /\ delivery' = [d \in Run \X Group |->
                      IF d \notin S THEN delivery[d]
                      ELSE IF blocked(d) THEN "BLOCKED_CAPABILITY_CHANGED"
                      ELSE "MATERIALIZED"]
    /\ jobs' = [d \in Run \X Group |->
                  IF d \in S /\ ~blocked(d) THEN "SCHEDULED" ELSE jobs[d]]

\* materializePending for one listed run; a LIVE run whose session is not
\* sendable is paused instead.
MaterializePending(r) ==
  /\ tick = "materialize" /\ r \in toMaterialize /\ ~Locked(r)
  /\ toMaterialize' = toMaterialize \ {r}
  /\ \/ /\ run[r] # "RUNNING"
        /\ UNCHANGED <<run, campaign, delivery, jobs>>
     \/ /\ run[r] = "RUNNING" /\ mode[r] = "LIVE" /\ session # "ready"
        /\ run' = [run EXCEPT ![r] = "PAUSED"]
        /\ CampaignMoves(r, {"ACTIVE"}, "PAUSED")
        /\ UNCHANGED <<delivery, jobs>>
     \/ /\ run[r] = "RUNNING" /\ ~(mode[r] = "LIVE" /\ session # "ready")
        /\ Materialize(r)
        /\ UNCHANGED <<run, campaign>>
  /\ UNCHANGED <<mode, startable, attempts, holder, fresh, due, snapshot, gateway,
                 published, tick, verdict, actors, vetted, faults>>

\* The transaction throws: its deliveries stay PENDING for the next tick.
MaterializeFails(r) ==
  /\ faults < MaxFaults
  /\ tick = "materialize" /\ r \in toMaterialize
  /\ toMaterialize' = toMaterialize \ {r}
  /\ faults' = faults + 1
  /\ UNCHANGED <<campaign, runRows, deliveryRows, gateway, published, tick, verdict,
                 actors, vetted>>

TickDone ==
  /\ tick = "materialize" /\ toMaterialize = {}
  /\ tick' = "recover"
  /\ UNCHANGED <<campaign, runRows, deliveryRows, gateway, published, verdict,
                 toMaterialize, actors, vetted, faults>>

\* The scheduler crashes or a statement throws, and Redis may lose its jobs.
TickAborts ==
  /\ faults < MaxFaults
  /\ tick # "recover"
  /\ tick' = "recover" /\ verdict' = [r \in Run |-> "none"] /\ toMaterialize' = {}
  /\ published' \in {published, {}}
  /\ faults' = faults + 1
  /\ UNCHANGED <<campaign, runRows, deliveryRows, gateway, actors, vetted>>

-----------------------------------------------------------------------------
(***************************************************************************)
(* The environment: message jobs follow their lifecycle, the gateway       *)
(* projection changes, and time passes.                                    *)
(***************************************************************************)
JobStep(d, t) ==
  /\ MS!Edge(jobs[d], t)
  /\ jobs[d] # "ABSENT" /\ t # "CANCELLED"
  /\ jobs[d] \in MS!Acknowledged => t \in Acks
  /\ t \in {"ACCEPTED", "FAILED"} => mode[d[1]] = "LIVE"
  /\ t = "DRY_RUN_COMPLETED" => mode[d[1]] = "DRY_RUN"
  /\ IF jobs[d] = "QUEUED" /\ t = "SCHEDULED"
       THEN faults < MaxFaults /\ faults' = faults + 1
       ELSE UNCHANGED faults
  /\ jobs' = [jobs EXCEPT ![d] = t]
  /\ UNCHANGED <<campaign, runRows, snapshot, delivery, gateway, published, scheduler,
                 actors, vetted>>

GatewayChanges ==
  /\ \/ /\ \E g \in Group, c \in Capability :
             /\ revision[g] < MaxRevision
             /\ revision' = [revision EXCEPT ![g] = @ + 1]
             /\ capability' = [capability EXCEPT ![g] = c]
        /\ UNCHANGED session
     \/ /\ session' = IF session = "ready" THEN "down" ELSE "ready"
        /\ UNCHANGED <<capability, revision>>
  /\ UNCHANGED <<campaign, runRows, deliveryRows, published, scheduler, actors, vetted,
                 faults>>

LeaseExpires(r) ==
  /\ r \in fresh
  /\ fresh' = fresh \ {r}
  /\ UNCHANGED <<campaign, run, mode, startable, attempts, holder, due, deliveryRows,
                 gateway, published, scheduler, actors, vetted, faults>>

RetryDelayPasses(r) ==
  /\ run[r] = "PREPARING" /\ r \notin due
  /\ due' = due \cup {r}
  /\ UNCHANGED <<campaign, run, mode, startable, attempts, holder, fresh, deliveryRows,
                 gateway, published, scheduler, actors, vetted, faults>>

ScheduleArrives(r) ==
  /\ run[r] # "ABSENT" /\ r \notin startable
  /\ startable' = startable \cup {r}
  /\ UNCHANGED <<campaign, run, mode, attempts, holder, fresh, due, deliveryRows,
                 gateway, published, scheduler, actors, vetted, faults>>

-----------------------------------------------------------------------------
SchedulerStep ==
  \/ RecoverExpiredPreparations \/ PublishPreparing \/ ActivateDue \/ Reconcile
  \/ FinalizeScan \/ FinalizeApply \/ ListRunning
  \/ \E r \in Run : MaterializePending(r)
  \/ TickDone

WorkerStep(w) ==
  \/ \E r \in Run : ClaimPreparation(w, r)
  \/ ReadContext(w) \/ Evaluate(w) \/ ApplyPreflight(w) \/ CommitPreflight(w)
  \/ FailPreparationAttempt(w)

OperatorStep(o) == Evaluate(o) \/ Resume(o) \/ CommitResume(o)

Next ==
  \/ SchedulerStep \/ PublishFails \/ TickAborts \/ GatewayChanges
  \/ \E w \in Worker : WorkerStep(w) \/ PreparationThrows(w) \/ WorkerCrashes(w)
  \/ \E o \in Operator : OperatorStep(o) \/ \E r \in Run : StartResume(o, r)
  \/ \E r \in Run :
       \/ \E m \in Mode, now \in BOOLEAN : CreateRun(r, m, now)
       \/ Pause(r) \/ Cancel(r) \/ MaterializeFails(r)
       \/ LeaseExpires(r) \/ RetryDelayPasses(r) \/ ScheduleArrives(r)
  \/ \E d \in Run \X Group, t \in MS!Status : JobStep(d, t)

Spec == Init /\ [][Next]_vars

\* The forward steps of a job, which a working message subsystem takes.
JobProgress(d) ==
  \E t \in {"QUEUED", "PROCESSING"} \cup MS!Outcome :
    jobs[d] \in Buffered /\ JobStep(d, t)

(***************************************************************************)
(* The scheduler's interval repeats the tick, workers run, time passes,    *)
(* and message jobs settle.  No operator and no fault is obliged to act.   *)
(***************************************************************************)
Fairness ==
  /\ WF_vars(SchedulerStep)
  /\ \A w \in Worker : WF_vars(WorkerStep(w))
  /\ \A o \in Operator : WF_vars(OperatorStep(o))
  /\ \A r \in Run :
       WF_vars(LeaseExpires(r)) /\ WF_vars(RetryDelayPasses(r))
         /\ WF_vars(ScheduleArrives(r))
  /\ \A d \in Run \X Group : WF_vars(JobProgress(d))

FairSpec == Spec /\ Fairness

-----------------------------------------------------------------------------
Observation == [rev : Nat, cap : Capability]

(***************************************************************************)
(* Rows, queue, tick and actors are in their types; preparation attempts   *)
(* stay within the budget however leases expire and input goes stale, and  *)
(* an actor has a run exactly while it works (claimPreparation).           *)
(***************************************************************************)
TypeOK ==
  /\ campaign \in {"DRAFT", "ACTIVE", "PAUSED", "ARCHIVED"}
  /\ run \in [Run -> RunStatus]
  /\ mode \in [Run -> Mode]
  /\ startable \in SUBSET Run /\ fresh \in SUBSET Run /\ due \in SUBSET Run
  /\ attempts \in [Run -> 0..MaxAttempts]
  /\ holder \in [Run -> Worker \cup {NoOne}]
  /\ snapshot \in [Run \X Group -> Nat] /\ vetted \in [Run \X Group -> Nat]
  /\ delivery \in [Run \X Group -> DeliveryStatus]
  /\ jobs \in [Run \X Group -> MS!Status]
  /\ capability \in [Group -> Capability]
  /\ revision \in [Group -> Nat]
  /\ session \in {"ready", "down"}
  /\ published \in SUBSET Run /\ toMaterialize \in SUBSET Run
  /\ tick \in {"recover", "list", "activate", "reconcile", "scan", "finalize",
               "running", "materialize"}
  /\ verdict \in [Run -> {"none", "COMPLETED", "PARTIAL_FAILED"}]
  /\ pc \in [Actor -> {"idle", "context", "evaluate", "apply", "commit", "fail"}]
  /\ at \in [Actor -> Run \cup {NoRun}]
  /\ \A a \in Actor : at[a] = NoRun <=> pc[a] = "idle"
  /\ seen \in [Actor -> [Group -> Observation]]
  /\ report \in [Actor -> {"none", "PASS", "WARN", "BLOCK"}]
  /\ faults \in 0..MaxFaults

LiveRuns == {r \in Run : run[r] # "ABSENT" /\ mode[r] = "LIVE"}

(***************************************************************************)
(* The audit query (auditLifecycle) never counts a drift: at most one LIVE *)
(* run, a DRAFT campaign has none, an ACTIVE one has a run that can go on, *)
(* a PAUSED one has a paused or blocked run, an ARCHIVED one has no run    *)
(* that can go on.                                                         *)
(***************************************************************************)
NoLifecycleDrift ==
  /\ \A q, r \in LiveRuns : q = r
  /\ campaign = "DRAFT" => LiveRuns = {}
  /\ campaign = "ACTIVE" => \E r \in LiveRuns : run[r] \in Controllable
  /\ campaign = "PAUSED" => \E r \in LiveRuns : run[r] \in {"PAUSED", "BLOCKED"}
  /\ campaign = "ARCHIVED" => \A r \in LiveRuns : run[r] \in Terminal

(***************************************************************************)
(* "At most five message jobs per running campaign are buffered", however  *)
(* pauses, resumes and ticks interleave (materializePending).              *)
(***************************************************************************)
BufferBounded ==
  \A r \in Run :
    Cardinality({d \in Of(r) : jobs[d] \in {"SCHEDULED", "QUEUED", "PROCESSING"}})
      <= MaxBuffered

(***************************************************************************)
(* A run that reached a terminal status has nothing left to send: no       *)
(* pending delivery and no job that a worker could still claim (cancel,    *)
(* finalize, failPreparationAttempt).                                      *)
(***************************************************************************)
TerminalRunQuiet ==
  \A d \in Run \X Group :
    run[d[1]] \in Terminal =>
      delivery[d] # "PENDING" /\ jobs[d] \notin {"SCHEDULED", "QUEUED"}

(***************************************************************************)
(* Deliveries tell the truth about jobs: one reported CANCELLED was never  *)
(* claimed by a worker, a closed one agrees with its job for ever, and an  *)
(* untouched one has no job (cancel, reconcile, materializePending).       *)
(***************************************************************************)
DeliveryFollowsJob ==
  \A d \in Run \X Group :
    /\ delivery[d] \in {"NONE", "PENDING", "BLOCKED_CAPABILITY_CHANGED"}
         => jobs[d] = "ABSENT"
    /\ delivery[d] = "CANCELLED" => jobs[d] \in {"ABSENT", "CANCELLED"}
    /\ delivery[d] \in {"DRY_RUN_COMPLETED", "FAILED", "UNKNOWN"}
         => jobs[d] = delivery[d]

(***************************************************************************)
(* A run that is PREPARING does not stay so: expired leases and failed     *)
(* attempts are retried and exhausted (recoverExpiredPreparations,         *)
(* failPreparationAttempt), and stale input is read again.                 *)
(***************************************************************************)
PreparationSettles ==
  \A r \in Run : run[r] = "PREPARING" ~> run[r] # "PREPARING"

(***************************************************************************)
(* A started run does not stay RUNNING: the tick materializes, reconciles  *)
(* and finalizes it, or pauses it (CampaignDispatchTick.run, finalize).    *)
(***************************************************************************)
RunSettles ==
  \A r \in Run : run[r] = "RUNNING" ~> run[r] # "RUNNING"

(***************************************************************************)
(* A terminal status stands, whoever still holds a lease, a report or a    *)
(* lock from before it.  The one exception is the code's: finalize decided *)
(* while the run was RUNNING and updates by id, over a cancel in between   *)
(* (finalize, cancel, applyPreflight, resume).                             *)
(***************************************************************************)
TerminalRunStands ==
  [][\A r \in Run :
       run[r] \in Terminal /\ run'[r] # run[r]
         => run[r] = "CANCELLED" /\ run'[r] = verdict[r]]_vars

(***************************************************************************)
(* The targets of a started run are not older than the capabilities its    *)
(* applied preflight had read: an older copy would block every delivery    *)
(* (applyPreflight, resume).  They may be newer, because the revisions are *)
(* compared in one statement and copied in the next.                       *)
(***************************************************************************)
SnapshotNotOlder ==
  \A d \in Run \X Group :
    run[d[1]] \in {"SCHEDULED", "RUNNING"} /\ delivery[d] = "PENDING"
      => snapshot[d] >= vetted[d]
=============================================================================
