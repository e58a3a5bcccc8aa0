--------------------------- MODULE GroupProjection ---------------------------
(***************************************************************************)
(* One row of gateway_groups and everyone who writes it: discovery, the    *)
(* item of a sync run, the targeted intent that group events coalesce      *)
(* into, and the refresh of an invalidated capability.  The three readers  *)
(* share the pacing lease of the session.  A step is one transaction or    *)
(* one exchange with OpenWA.  A lease token is the worker that claimed;    *)
(* a lease is live until it expires.  Delays, debouncing and rates only    *)
(* put a claim off and are left out.                                       *)
(***************************************************************************)
EXTENDS Naturals

CONSTANTS
  Worker, NoOne,
  MaxVersion,      \* versions of the group at OpenWA are 1 .. MaxVersion
  Flags,           \* what OpenWA says of the group in each version
  IntentAttempts,  \* GATEWAY_SYNC_ITEM_MAX_ATTEMPTS
  RefreshAttempts, \* 3 in gateway-capability.repository.ts
  MaxEvents        \* bound on events, invalidations, syncs and faults

Tri == {"yes", "no", "null"}

ASSUME GroupProjectionAssumption ==
  /\ NoOne \notin Worker
  /\ MaxVersion \in Nat \ {0} /\ MaxEvents \in Nat
  /\ IntentAttempts \in Nat \ {0} /\ RefreshAttempts \in Nat \ {0}
  /\ Flags \in [1 .. MaxVersion -> [readOnly : Tri, announce : Tri, admin : Tri]]

VARIABLES
  truth,       \* the version of the group at OpenWA
  asked,       \* that version when the last group event was applied
  row,         \* gateway_groups
  intent,      \* gateway_group_reconciliation_intents
  item,        \* gateway_sync_items of the running sync, for this group
  discovering, \* a sync run is PENDING or DISCOVERING
  pacing,      \* gateway_sync_rate_limits
  worker,      \* the handler each worker is in
  lapsed,      \* history: a refresh read after another reader took its pacing lease
  happened

vars == <<truth, asked, row, intent, item, discovering, pacing, worker, lapsed, happened>>

Free == [token |-> NoOne, live |-> FALSE]
LeasedBy(w) == [token |-> w, live |-> TRUE]
Idle == [op |-> "idle", at |-> "idle", seen |-> 0, revision |-> 0, outcome |-> "ok"]

Cap(status, reason) == [status |-> status, reason |-> reason]

\* evaluateGroupCapability of an active group with details.
EvaluateGroupCapability(readOnly, announce, admin) ==
  CASE readOnly = "yes" -> Cap("DENIED", "GROUP_READ_ONLY")
    [] readOnly # "yes" /\ announce = "yes" /\ admin = "no" -> Cap("DENIED", "ADMIN_ONLY")
    [] readOnly # "yes" /\ announce = "yes" /\ admin = "null" ->
         Cap("UNKNOWN", "ADMIN_STATUS_UNKNOWN")
    [] readOnly = "no" /\ announce = "no" -> Cap("ALLOWED", "SEND_ALLOWED")
    [] OTHER -> Cap("UNKNOWN", "METADATA_INCOMPLETE")

Absent == [state |-> "ABSENT", details |-> 0, admin |-> "null",
           cap |-> Cap("UNKNOWN", "METADATA_INCOMPLETE"), invalidated |-> FALSE,
           revision |-> 0, attempts |-> 0, lease |-> Free]

\* The statements of upsertGroupDetails on gateway_groups.
Detailed(r, version) ==
  LET flags == Flags[version]
      admin == IF flags.admin = "null" THEN r.admin ELSE flags.admin
      cap == EvaluateGroupCapability(flags.readOnly, flags.announce, admin)
  IN [state |-> "ACTIVE", details |-> version, admin |-> admin, cap |-> cap,
      invalidated |-> FALSE, attempts |-> 0, lease |-> Free,
      revision |-> IF r.state = "ABSENT" \/ r.cap # cap THEN r.revision + 1 ELSE r.revision]

\* A group the runtime has not heard of, or one it has read.
Init ==
  /\ truth = 1 /\ asked = 1
  /\ row \in {Absent, Detailed(Absent, 1)}
  /\ intent = [status |-> "NONE", requested |-> 0, claimed |-> 0, attempts |-> 0,
               missing |-> FALSE, lease |-> Free]
  /\ item = [status |-> "NONE", lease |-> Free]
  /\ discovering = FALSE
  /\ pacing = Free
  /\ lapsed = FALSE
  /\ worker = [w \in Worker |-> Idle]
  /\ happened = 0

\* Everything that is bounded to keep the instance finite.
Happens == happened < MaxEvents /\ happened' = happened + 1

Goto(w, point) == worker' = [worker EXCEPT ![w].at = point]
Leave(w) == worker' = [worker EXCEPT ![w] = Idle]
Fails(w, outcome) == worker' = [worker EXCEPT ![w].at = "failed", ![w].outcome = outcome]
Released(w) == IF pacing.token = w THEN Free ELSE pacing
-----------------------------------------------------------------------------
(***************************************************************************)
(* What happens to the group, and who says so.                             *)
(***************************************************************************)
ChangeUpstream ==
  /\ truth < MaxVersion /\ truth' = truth + 1
  /\ UNCHANGED <<lapsed, asked, row, intent, item, discovering, pacing, worker, happened>>

Scheduled(i) ==
  [i EXCEPT !.requested = @ + 1, !.missing = FALSE,
            !.status = IF i.status = "RUNNING" THEN "RUNNING" ELSE "PENDING",
            !.attempts = IF i.status = "RUNNING" THEN i.attempts ELSE 0]

\* A group.join, group.leave or group.update event, in the transaction that applies it.
GroupEvent ==
  /\ Happens
  /\ asked' = truth
  /\ intent' = Scheduled(intent)
  /\ row' = IF row.state # "ACTIVE" THEN row
            ELSE [row EXCEPT !.cap = Cap("UNKNOWN", "GROUP_CHANGED"),
                             !.invalidated = TRUE, !.revision = @ + 1]
  /\ UNCHANGED <<lapsed, truth, item, discovering, pacing, worker>>

\* An operator asks for a refresh, or a send was refused with 403 or 404, for which the code
\* writes other reasons that nothing distinguishes.
Invalidate ==
  /\ Happens
  /\ row.state = "ACTIVE"
  /\ row' = [row EXCEPT !.cap = Cap("UNKNOWN", "MANUAL_REFRESH"), !.invalidated = TRUE,
                        !.revision = @ + 1, !.attempts = 0, !.lease = Free]
  /\ UNCHANGED <<lapsed, truth, asked, intent, item, discovering, pacing, worker>>

BeginDiscovery ==
  /\ Happens
  /\ ~discovering /\ item.status = "NONE"
  /\ discovering' = TRUE
  /\ UNCHANGED <<lapsed, truth, asked, row, intent, item, pacing, worker>>

Listed(r) ==
  CASE r.state = "ABSENT" -> [r EXCEPT !.state = "ACTIVE", !.revision = 1]
    [] r.state = "INACTIVE" ->
         [r EXCEPT !.state = "ACTIVE", !.cap = Cap("UNKNOWN", "GROUP_CHANGED"),
                   !.invalidated = TRUE, !.revision = @ + 1]
    [] r.state = "ACTIVE" -> r

\* Mutant: the revision stays as it was when a group is dropped.
Dropped_SameRevision(r) ==
  IF r.state = "ABSENT" \/ r.cap = Cap("DENIED", "GROUP_INACTIVE") THEN r
  ELSE [r EXCEPT !.state = "INACTIVE", !.cap = Cap("DENIED", "GROUP_INACTIVE"),
                 !.invalidated = FALSE]

Dropped(r) ==
  CASE r.state = "ABSENT" -> r
    [] r.state # "ABSENT" /\ r.cap = Cap("DENIED", "GROUP_INACTIVE") ->
         [r EXCEPT !.state = "INACTIVE"]
    [] OTHER -> [r EXCEPT !.state = "INACTIVE", !.cap = Cap("DENIED", "GROUP_INACTIVE"),
                          !.invalidated = FALSE, !.revision = @ + 1]

\* The accepted listing has the group or not; a FULL run, or an INCREMENTAL one with a
\* reason, selects it.  GatewaySync has the protocol around this step.
PublishDiscovery ==
  /\ discovering /\ discovering' = FALSE
  /\ \/ /\ row' = Listed(row)
        /\ \E selected \in {TRUE} \cup {row.invalidated \/ row.details = 0} :
             item' = [item EXCEPT !.status = IF selected THEN "PENDING" ELSE "NONE"]
     \/ /\ row' = Dropped(row)
        /\ UNCHANGED item
  /\ UNCHANGED <<lapsed, truth, asked, intent, pacing, worker, happened>>

FailDiscovery ==
  /\ discovering /\ discovering' = FALSE
  /\ UNCHANGED <<lapsed, truth, asked, row, intent, item, pacing, worker, happened>>
-----------------------------------------------------------------------------
(***************************************************************************)
(* The readers: claim, getGroup, renewal, fenced write, settlement.        *)
(***************************************************************************)
Ready == pacing.token = NoOne \/ ~pacing.live

Enter(w, op, point, revision) ==
  /\ worker[w].op = "idle" /\ Ready
  /\ pacing' = LeasedBy(w)
  /\ worker' = [worker EXCEPT ![w] = [Idle EXCEPT !.op = op, !.at = point, !.revision = revision]]

ClaimIntent(w) ==
  /\ intent.status \in {"PENDING", "RETRY"} /\ intent.attempts < IntentAttempts
  /\ Enter(w, "intent", "read", intent.requested)
  /\ intent' = [intent EXCEPT !.status = "RUNNING", !.claimed = intent.requested,
                              !.attempts = @ + 1, !.lease = LeasedBy(w)]
  /\ UNCHANGED <<lapsed, truth, asked, row, item, discovering, happened>>

ClaimItem(w) ==
  /\ item.status = "PENDING"
  /\ Enter(w, "item", "read", 0)
  /\ item' = [status |-> "RUNNING", lease |-> LeasedBy(w)]
  /\ UNCHANGED <<lapsed, truth, asked, row, intent, discovering, happened>>

\* The row listNeedingRefresh would dispatch.  A queued refresh whose revision has passed
\* is refused by its claim, so the revision at the reservation stands for all of them.
NeedsRefresh ==
  /\ row.state = "ACTIVE" /\ row.invalidated /\ row.attempts < RefreshAttempts
  /\ ~row.lease.live
  /\ ~discovering
  /\ intent.status \notin {"PENDING", "RUNNING", "RETRY"}

\* reserveSessionRequest: the pacing lease comes before the claim.
ReserveRefresh(w) ==
  /\ NeedsRefresh
  /\ Enter(w, "refresh", "claim", row.revision)
  /\ UNCHANGED <<lapsed, truth, asked, row, intent, item, discovering, happened>>

Refreshable(revision) ==
  /\ row.state = "ACTIVE" /\ row.invalidated /\ row.revision = revision
  /\ row.attempts < RefreshAttempts /\ ~row.lease.live /\ ~discovering

ClaimRefresh(w) ==
  /\ worker[w].at = "claim"
  /\ IF Refreshable(worker[w].revision)
       THEN /\ row' = [row EXCEPT !.attempts = @ + 1, !.lease = LeasedBy(w)]
            /\ Goto(w, "read") /\ UNCHANGED pacing
       ELSE /\ pacing' = Released(w)
            /\ Leave(w) /\ UNCHANGED row
  /\ UNCHANGED <<lapsed, truth, asked, intent, item, discovering, happened>>

\* getGroup answers with the group as it is now.  A refresh writes without renewing.
Read(w) ==
  /\ worker[w].at = "read"
  /\ worker' = [worker EXCEPT ![w].seen = truth,
                  ![w].at = IF worker[w].op = "refresh" THEN "write" ELSE "renew"]
  /\ lapsed' = (lapsed \/ (worker[w].op = "refresh" /\ pacing.token # w))
  /\ UNCHANGED <<truth, asked, row, intent, item, discovering, pacing, happened>>

\* classifyGroupReadFailure: 409, 429, 5xx and the network are retried, the rest is not;
\* 404 has a path of its own except for a refresh.
ReadFails(w) ==
  /\ worker[w].at = "read"
  /\ Happens
  /\ \E outcome \in {"retryable", "permanent"}
                    \cup (IF worker[w].op = "refresh" THEN {} ELSE {"missing"}) :
       Fails(w, outcome)
  /\ UNCHANGED <<lapsed, truth, asked, row, intent, item, discovering, pacing>>

Lease(op) == CASE op = "intent" -> intent.lease
               [] op = "item" -> item.lease
               [] op = "refresh" -> row.lease

\* renewLease of an intent or an item renews both leases or returns the attempt.
Renew(w) ==
  /\ worker[w].at = "renew"
  /\ IF Lease(worker[w].op) = LeasedBy(w) /\ pacing = LeasedBy(w)
       THEN Goto(w, "write")
       ELSE Leave(w)
  /\ UNCHANGED <<lapsed, truth, asked, row, intent, item, discovering, pacing, happened>>

\* Mutant: the write does not renew the pacing lease.
MayPublish_NoPacing(w) ==
  /\ Lease(worker[w].op) = LeasedBy(w)
  /\ worker[w].op = "intent" => intent.claimed = worker[w].revision

\* The fence of an item or an intent, and renewGroupReadPacingLease, which does not mind
\* an expired lease that nobody took.
MayPublish(w) ==
  /\ Lease(worker[w].op) = LeasedBy(w)
  /\ worker[w].op = "intent" => intent.claimed = worker[w].revision
  /\ pacing.token = w

Publish(w) ==
  /\ worker[w].at = "write" /\ worker[w].op \in {"intent", "item"}
  /\ IF MayPublish(w)
       THEN /\ row' = Detailed(row, worker[w].seen)
            /\ pacing' = LeasedBy(w)
            /\ Goto(w, "settle")
       ELSE /\ Fails(w, "retryable")
            /\ UNCHANGED <<row, pacing>>
  /\ UNCHANGED <<lapsed, truth, asked, intent, item, discovering, happened>>

MayApply(w) == row.revision = worker[w].revision /\ row.lease = LeasedBy(w)

\* A refresh that lost its revision or its lease is not applied, and is no error.
PublishRefresh(w) ==
  /\ worker[w].at = "write" /\ worker[w].op = "refresh"
  /\ row' = IF MayApply(w) THEN Detailed(row, worker[w].seen) ELSE row
  /\ Goto(w, "record")
  /\ UNCHANGED <<lapsed, truth, asked, intent, item, discovering, pacing, happened>>

\* A statement after the read throws: PERSISTENCE_ERROR.
StatementThrows(w) ==
  /\ worker[w].at \in {"renew", "write", "settle"}
  /\ Happens
  /\ Fails(w, "retryable")
  /\ UNCHANGED <<lapsed, truth, asked, row, intent, item, discovering, pacing>>

OwnsIntent(w) == intent.lease = LeasedBy(w) /\ intent.claimed = worker[w].revision

\* Mutant: a newer request is forgotten when the attempt completes.
Completed_ForgetsNewer(i, missing) ==
  [i EXCEPT !.status = "COMPLETED", !.missing = missing, !.claimed = 0, !.lease = Free]

Completed(i, missing) ==
  [i EXCEPT !.status = IF i.requested > i.claimed THEN "PENDING" ELSE "COMPLETED",
            !.attempts = IF i.requested > i.claimed THEN 0 ELSE i.attempts,
            !.missing = missing, !.claimed = 0, !.lease = Free]

\* Mutant: the claimed revision outlives the attempt.
Failed_KeepsClaim(i, retryable) ==
  [i EXCEPT !.status = IF retryable THEN "RETRY" ELSE "FAILED", !.lease = Free]

Failed(i, retryable) ==
  LET status == CASE i.requested > i.claimed -> "PENDING"
                  [] i.requested <= i.claimed /\ retryable /\ i.attempts < IntentAttempts -> "RETRY"
                  [] OTHER -> "FAILED"
  IN [i EXCEPT !.status = status, !.claimed = 0, !.lease = Free,
               !.attempts = IF status = "PENDING" THEN 0 ELSE i.attempts]

\* complete, skipMissing or fail: one transaction that also gives the pacing lease back.
\* An attempt that lost its lease leaves both to expire.
SettleIntent(w) ==
  /\ worker[w].op = "intent" /\ worker[w].at \in {"settle", "failed"}
  /\ IF OwnsIntent(w)
       THEN /\ intent' = CASE worker[w].outcome = "ok" -> Completed(intent, FALSE)
                           [] worker[w].outcome = "missing" -> Completed(intent, TRUE)
                           [] OTHER -> Failed(intent, worker[w].outcome = "retryable")
            /\ pacing' = Released(w)
       ELSE UNCHANGED <<intent, pacing>>
  /\ Leave(w)
  /\ UNCHANGED <<lapsed, truth, asked, row, item, discovering, happened>>

\* The same for an item; a retry stays within the budget GatewaySync counts.
SettleItem(w) ==
  /\ worker[w].op = "item" /\ worker[w].at \in {"settle", "failed"}
  /\ IF item.lease = LeasedBy(w)
       THEN /\ \E status \in {"NONE"} \cup (IF worker[w].outcome = "retryable"
                                              THEN {"PENDING"} ELSE {}) :
                 item' = [status |-> status, lease |-> Free]
            /\ pacing' = Released(w)
       ELSE UNCHANGED <<item, pacing>>
  /\ Leave(w)
  /\ UNCHANGED <<lapsed, truth, asked, row, intent, discovering, happened>>

\* recordSessionRequestOutcome, after a write or before failAttempt.
RecordRefresh(w) ==
  /\ worker[w].op = "refresh" /\ worker[w].at \in {"record", "failed"}
  /\ pacing' = Released(w)
  /\ IF worker[w].at = "record" THEN Leave(w) ELSE Goto(w, "attempt")
  /\ UNCHANGED <<lapsed, truth, asked, row, intent, item, discovering, happened>>

\* Mutant: the last attempt leaves the row invalidated.
Exhausted_OffByOne(r) == r.attempts > RefreshAttempts

Exhausted(r) == r.attempts >= RefreshAttempts

Unrefreshed(r, final) ==
  [r EXCEPT !.lease = Free, !.invalidated = IF final THEN FALSE ELSE r.invalidated,
            !.cap = Cap("UNKNOWN", IF final THEN "REFRESH_FAILED" ELSE r.cap.reason)]

FailRefresh(w) ==
  /\ worker[w].at = "attempt"
  /\ row' = IF MayApply(w)
              THEN Unrefreshed(row, worker[w].outcome # "retryable" \/ Exhausted(row))
              ELSE row
  /\ Leave(w)
  /\ UNCHANGED <<lapsed, truth, asked, intent, item, discovering, pacing, happened>>
-----------------------------------------------------------------------------
(***************************************************************************)
(* Leases expire, processes die, and the dispatch tick recovers.           *)
(***************************************************************************)
\* An abandoned lease expires when its time is up; one whose holder is still at work only
\* when the holder stalls.
Expires(lease, ops, abandoned) ==
  /\ lease.live
  /\ abandoned = (worker[lease.token].op \notin ops)
  /\ IF abandoned THEN UNCHANGED happened ELSE Happens

ExpirePacing(abandoned) ==
  /\ Expires(pacing, {"intent", "item", "refresh"}, abandoned)
  /\ pacing' = [pacing EXCEPT !.live = FALSE]
  /\ UNCHANGED <<lapsed, truth, asked, row, intent, item, discovering, worker>>

ExpireIntent(abandoned) ==
  /\ Expires(intent.lease, {"intent"}, abandoned)
  /\ intent' = [intent EXCEPT !.lease.live = FALSE]
  /\ UNCHANGED <<lapsed, truth, asked, row, item, discovering, pacing, worker>>

ExpireItem(abandoned) ==
  /\ Expires(item.lease, {"item"}, abandoned)
  /\ item' = [item EXCEPT !.lease.live = FALSE]
  /\ UNCHANGED <<lapsed, truth, asked, row, intent, discovering, pacing, worker>>

ExpireRefresh(abandoned) ==
  /\ Expires(row.lease, {"refresh"}, abandoned)
  /\ row' = [row EXCEPT !.lease.live = FALSE]
  /\ UNCHANGED <<lapsed, truth, asked, intent, item, discovering, pacing, worker>>

Crash(w) ==
  /\ worker[w].op # "idle"
  /\ Happens
  /\ Leave(w)
  /\ UNCHANGED <<lapsed, truth, asked, row, intent, item, discovering, pacing>>

\* Mutant: an exhausted intent is retried, which no claim accepts.
RecoveredStatus_Retries(i) ==
  IF i.requested > i.claimed THEN "PENDING" ELSE "RETRY"

RecoveredStatus(i) ==
  CASE i.requested > i.claimed -> "PENDING"
    [] i.requested <= i.claimed /\ i.attempts >= IntentAttempts -> "FAILED"
    [] OTHER -> "RETRY"

RecoverIntents ==
  /\ intent.status = "RUNNING" /\ ~intent.lease.live
  /\ intent' = [intent EXCEPT !.status = RecoveredStatus(intent), !.claimed = 0, !.lease = Free,
                  !.attempts = IF intent.requested > intent.claimed THEN 0 ELSE @]
  /\ pacing' = IF pacing.live THEN pacing ELSE Free
  /\ UNCHANGED <<lapsed, truth, asked, row, item, discovering, worker, happened>>

RecoverItems ==
  /\ item.status = "RUNNING" /\ ~item.lease.live
  /\ \E status \in {"PENDING", "NONE"} : item' = [status |-> status, lease |-> Free]
  /\ pacing' = IF pacing.live THEN pacing ELSE Free
  /\ UNCHANGED <<lapsed, truth, asked, row, intent, discovering, worker, happened>>

RecoverRefreshes ==
  /\ \/ row.lease.token # NoOne /\ ~row.lease.live
     \/ row.invalidated /\ row.lease.token = NoOne /\ row.attempts >= RefreshAttempts
  /\ row' = Unrefreshed(row, Exhausted(row))
  /\ UNCHANGED <<lapsed, truth, asked, intent, item, discovering, pacing, worker, happened>>
-----------------------------------------------------------------------------
Claims(w) == ClaimIntent(w) \/ ClaimItem(w) \/ ReserveRefresh(w)

Proceeds(w) ==
  \/ ClaimRefresh(w) \/ Read(w) \/ Renew(w) \/ Publish(w) \/ PublishRefresh(w)
  \/ SettleIntent(w) \/ SettleItem(w) \/ RecordRefresh(w) \/ FailRefresh(w)

Expiries ==
  \E abandoned \in BOOLEAN : ExpirePacing(abandoned) \/ ExpireIntent(abandoned)
                             \/ ExpireItem(abandoned) \/ ExpireRefresh(abandoned)
Recovery == RecoverIntents \/ RecoverItems \/ RecoverRefreshes

Next ==
  \/ ChangeUpstream \/ GroupEvent \/ Invalidate
  \/ BeginDiscovery \/ PublishDiscovery \/ FailDiscovery
  \/ \E w \in Worker : Claims(w) \/ Proceeds(w) \/ ReadFails(w) \/ StatementThrows(w) \/ Crash(w)
  \/ Expiries \/ Recovery

Spec == Init /\ [][Next]_vars

\* Workers run on, the queue delivers what is claimable, time passes for leases that nobody
\* renews, the tick's interval repeats recovery, and discovery ends (GatewaySync).
FairSpec ==
  /\ Spec
  /\ \A w \in Worker : WF_vars(Proceeds(w)) /\ WF_vars(Claims(w))
  /\ WF_vars(ExpirePacing(TRUE)) /\ WF_vars(ExpireIntent(TRUE))
  /\ WF_vars(ExpireItem(TRUE)) /\ WF_vars(ExpireRefresh(TRUE))
  /\ WF_vars(RecoverIntents) /\ WF_vars(RecoverItems) /\ WF_vars(RecoverRefreshes)
  /\ WF_vars(PublishDiscovery \/ FailDiscovery)
-----------------------------------------------------------------------------
Reasons == {"SEND_ALLOWED", "GROUP_INACTIVE", "GROUP_READ_ONLY", "ADMIN_ONLY",
            "ADMIN_STATUS_UNKNOWN", "METADATA_INCOMPLETE", "GROUP_CHANGED",
            "GATEWAY_PERMISSION_DENIED", "MANUAL_REFRESH", "REFRESH_FAILED"}
Leases == {Free} \cup [token : Worker, live : BOOLEAN]
Capabilities == [status : {"ALLOWED", "DENIED", "UNKNOWN"}, reason : Reasons]
Rows == [state : {"ABSENT", "ACTIVE", "INACTIVE"}, details : 0 .. MaxVersion, admin : Tri,
         cap : Capabilities, invalidated : BOOLEAN, revision : Nat,
         attempts : 0 .. RefreshAttempts, lease : Leases]
Intents == [status : {"NONE", "PENDING", "RUNNING", "RETRY", "COMPLETED", "FAILED"},
            requested : Nat, claimed : Nat, attempts : 0 .. IntentAttempts,
            missing : BOOLEAN, lease : Leases]
Handlers == [op : {"idle", "intent", "item", "refresh"},
             at : {"idle", "claim", "read", "renew", "write", "settle", "record", "attempt",
                   "failed"},
             seen : 0 .. MaxVersion, revision : Nat,
             outcome : {"ok", "retryable", "permanent", "missing"}]

\* Types, and what ties a lease to the row that carries it: an intent or an item is leased
\* exactly while it is RUNNING, and only a leased intent has a claimed revision.
TypeOK ==
  /\ truth \in 1 .. MaxVersion /\ asked \in 1 .. truth
  /\ row \in Rows
  /\ intent \in Intents
  /\ item \in [status : {"NONE", "PENDING", "RUNNING"}, lease : Leases]
  /\ discovering \in BOOLEAN /\ pacing \in Leases /\ lapsed \in BOOLEAN
  /\ happened \in 0 .. MaxEvents
  /\ worker \in [Worker -> Handlers]
  /\ (intent.status = "RUNNING") <=> (intent.lease.token # NoOne)
  /\ (item.status = "RUNNING") <=> (item.lease.token # NoOne)
  /\ intent.claimed # 0 => intent.status = "RUNNING"

Promise ==
  CASE intent.status = "NONE" -> "none"
    [] intent.status \in {"PENDING", "RUNNING", "RETRY"} -> "due"
    [] intent.status = "COMPLETED" /\ ~intent.missing -> "settled"
    [] OTHER -> "given up"

Work == INSTANCE CoalescedWork
          WITH MaxVersion <- MaxVersion, asked <- asked, done <- row.details, state <- Promise

\* Group events are requests of CoalescedWork and every step of the readers, the recovery and
\* the faults is a step of it or none: an event makes work due whatever the intent was doing,
\* an intent is COMPLETED by a write only once the stored details are at least as new as the
\* group was at the last event, and what is settled or given up stays so until the next one.
EventsCoalesce == Work!Spec

\* Whoever reads last wins: no write of an item, an intent or a refresh replaces details by
\* ones that were read earlier, although leases expire in the middle of a read and a refresh
\* need not hold the pacing lease when it writes.  The exception is a refresh that begins to
\* read after it lost that lease, which nothing in refreshGroupCapability prevents.
ReadsNeverRegress == [][lapsed' \/ row'.details >= row.details]_vars

\* A capability refresh that read a group before discovery dropped it does not bring it back:
\* the drop moves the revision that fences the refresh.
RefreshNeverRevives ==
  [][\A w \in Worker : PublishRefresh(w) /\ row.state = "INACTIVE" => row' = row]_vars

\* A targeted intent comes to an end: its revision is reconciled, or its budget is spent.
IntentSettles ==
  intent.status \in {"PENDING", "RUNNING", "RETRY"} ~> intent.status \in {"COMPLETED", "FAILED"}

\* An invalidated capability does not stay so: details are read again, or the row says
\* REFRESH_FAILED, or the group is dropped.
InvalidationSettles == row.invalidated ~> ~row.invalidated
=============================================================================
