# WA Runtime in TLA+

WA Runtime schedules and sends WhatsApp messages through an OpenWA gateway. All truth is in
PostgreSQL; BullMQ queues on Redis only carry ids; an API process, a scheduler and workers run
side by side and may crash at any point. This directory holds TLA+ models of the parts that carry
that protocol, the TLC configurations that check them and the TLAPS proofs about them.

## Inventory

| Part | State | Operations | What is hard | What makes it correct |
| --- | --- | --- | --- | --- |
| Message delivery (`modules/messages`, `message-dispatch.tick.ts`) | `message_jobs`, `outbound_session_leases`, the `message-send` queue | create, claim, publish, recover, mark processing, acquire and renew the session lease, POST, record, acknowledge | redelivery, crash during the POST, two leases that expire, lost responses, reordered acknowledgements | at most one POST per job; sends of a session do not overlap; FAILED means not sent; claimed work ends |
| Campaign runs (`modules/campaigns`, `campaign-dispatch.tick.ts`) | `campaigns`, `campaign_runs`, `campaign_run_targets`, `campaign_deliveries` | launch, claim, preflight, apply, fail, pause, resume, cancel, activate, reconcile, finalize, materialize | operators against the tick against preparation workers; input that changes between check and use | campaign and run agree; terminal means quiet; the buffer is bounded; preparation and runs end |
| Webhook ingress (`modules/webhooks`) | `webhook_inbox` rows with leases, `runtime_events` | insert, claim, process, recover, dead-letter | duplicates, expired leases, late events | each event is applied once and in version order |
| Gateway sync (`modules/gateway`) | sync runs, sync items, epochs, group snapshots | request, claim, discover, complete, fail, recover | concurrent runs, partial discovery | no stale snapshot overwrites a newer one; every item settles |
| Gateway capability and intents (`modules/gateway`) | `gateway_groups` with its revision, `gateway_group_reconciliation_intents`, the pacing lease | apply a group event, invalidate, claim, read, publish, defer, fail, recover | three readers, discovery and events write one row; leases expire during a read; events arrive while work runs | no event is dropped; late reads do not replace newer details or revive a dropped group; intents and invalidations end |
| Scheduler (`modules/orchestration`) | advisory-lock leadership, tick state | start, tick, wake, stop, retention | lost leadership, overlap, wake-ups during a tick | one tick at a time; no wake-up is lost |
| Campaign definitions, group lists (`modules/campaigns`, `modules/group-lists`) | `campaigns`, `campaign_targets`, `group_lists`, `group_list_items`, their revisions and idempotency keys | create, edit, replace groups, apply a list, archive, delete, launch | several clients edit what they loaded; edits racing launches and deletion; retried creations | nobody replaces what he has not loaded; a run sends what was reviewed; a tombstone is final |
| Contacts (`modules/contacts`) | observations, links, snapshot generations, `contact_resolution_runs`, `contact_projection_work`, `group_members` | observe, publish, resolve, enqueue, claim, project a page, complete, fail, backfill, bootstrap | requests that arrive during a batched projection; requests of many rows (a resolver's, a scan's, an observer's) that overlap; two LIDs that claim one phone | a drained queue shows the newest evidence, outside the gap named below; no phone is given twice; the queue drains |
| OpenWA client, inbox, health, core | none that outlives a call | HTTP, reads, configuration | | |

The parts interact through rows: the campaign tick inserts message jobs, the message worker and the
webhook processor update them, reconciliation copies their status into deliveries; the gateway
projections are read by preflight, by materialization and by the send policy. Group events and sync
items write the same group rows; their members are evidence for contacts.

## Modules

* `MessageStatus`: the statuses of a message job, the rank of acknowledgements, the edges.
* `MessageJobLifecycle`: the abstract specification of one job.
* `MessageDelivery`: the detailed one. One action is one SQL statement, queue command or HTTP
  exchange, so everything may happen between two of them. `bull` is what BullMQ holds under a job's
  id, `tick` the point reached by the dispatch tick, `pc` the point reached by a worker in
  `process()`. Deadlines are counters that `Elapse` takes down. Faults (crash, throwing statement,
  lost lock, forgotten id, aborted tick, ambiguous publication) are bounded by `MaxFaults`.
* `MessageDelivery_proofs`: the theorems.
* `CampaignRun`: a campaign with its runs. A preparation token is the worker that claimed. Leases
  and delays are sets a run leaves or enters when time passes. `applyPreflight` and `resume` are
  split between check and commit, because the statements in between read rows they do not lock;
  `finalize` is split between the snapshot of its CTE and its update, because at READ COMMITTED the
  update may wait for a row lock. Message jobs follow the edges of `MessageStatus`, which
  `MessageDelivery` is shown to respect.
* `CampaignRun_proofs`, `GatewaySync_proofs`, `GroupProjection_proofs`, `CampaignDefinition_proofs`,
  `ContactProjection_proofs`: the theorems about the modules they are named after.
  `ContactCurrent_proofs`: that a drained projection queue is current, on top of the last.
* `WebhookIngress`: the durable inbox and the transaction that applies an event. A lease token
  is the worker that claimed; every later write of that attempt is fenced by it. One action is one
  transaction: insertion with its duplicates, claim, processing (claim the ledger row, apply the
  effect, mark the row PROCESSED), failure, recovery of an expired lease, publication. The effects
  kept are those that can be applied twice or out of order: the session status with its version, a
  counter of applications, and the acknowledgement of a message job, which moves by the rank of
  `MessageStatus`.
* `WebhookIngress_proofs`: the theorems.
* `GatewaySync`: the sync runs of one session, with the epoch fence, the items, the pacing lease and
  the suspicion of shrunken snapshots. `pc` is the point a worker reached in `perform` or
  `reconcileGroup`; between two points any lease may expire and anyone else may run. Rates,
  cooldowns and backoff only put a claim off, so they are not state; nor is the queue, because a
  claim looks at the row alone. A transaction that settles items is split at `refreshParent`: its
  aggregate is what was committed when the statement began (`txn`), its update comes later.
  `writer` keeps the epoch of the last details written, `published` the last accepted snapshot.
* `CoalescedWork`: the abstract specification of a durable row that coalesces requests: a request is
  never dropped, work settles only with a result at least as new as the last request, giving up is
  visible.
* `GroupProjection`: one `gateway_groups` row and everyone who writes it: discovery, the item of a
  sync run, the targeted intent, the capability refresh, group events. Reads of OpenWA are split into
  begin, answer and publication, so that leases may expire and others may write in between.
  `row.details` is the version of the group that the stored details show. It implements
  `CoalescedWork` (`EventsCoalesce`), with `asked`, `row.details` and the intent's status for the
  abstract state. `GatewaySync` has the protocol around discovery; here it is one step.
* `CampaignDefinition`: campaigns, targets and group lists edited by several clients, and the runs
  launched from them. A client is what it has loaded (`seen`): a request reads the aggregate and
  compares the revision when it writes, and an expected revision only moves that read back to when
  the page was loaded. A mutation is one transaction, serialized by the row lock it takes first.
* `ContactResolution`: the resolver as operators: the evidence of a generation, the clusters it
  forms, the conflicts that leave a phone to nobody.
* `ContactProjection`: the observations, the resolution runs and the revisioned work that shows names
  and phones in `group_members`, page by page under a lease. `enqueueContactProjectionWork` takes its
  time and its targets when the statement begins and no lock keeps others out, so every request is
  two steps with anything in between: of a resolver (`ResolveBegin`, `ResolveCommit`), of a
  housekeeping scan and of an observation (`Opens`, `RequestCommit`). Locks that do exclude are
  guards: the session's evidence lock (one `Observer`), the member projection lock
  (`MembersLocked`), the row of a one-shot scan (`JobHeld`), the rows of `group_members` that a
  transaction inserts or fills (`RowsHeld`), the alias work that a scan has locked (`AliasesHeld`).
  Revisions are numbered in the order of the commits. The code draws `nextval` when the statement
  reaches a row, so a later commit may carry a lower number; a requested revision that goes down is
  then refused by the check of `migrations/026_durable_contact_projection.sql` or skipped by the
  batch's fence. That order is not modelled.
* `MCMessageDelivery`, `MCCampaignRun`, `MCWebhookIngress`, `MCGatewaySync`, `MCGroupProjection`,
  `MCCampaignDefinition`, `MCContactProjection`: instances for TLC.

`MessageDelivery` implements `MessageJobLifecycle` (`Lifecycle`), with the row's status and the POSTs
OpenWA has seen for the abstract state.

An operator whose comment says "Mutant" is a plausible defect of the definition below it; no
specification uses one.

## Runs

| Run | Checks | Instance |
| --- | --- | --- |
| `message_safety` | `AtMostOnePost`, `SendsSerialized`, `OutcomeHonest`, `Lifecycle` | 2 jobs on 1 session, 2 workers, 1 fault |
| `message_liveness` | `ProcessingSettles` | a live and a dry-run job, delayed starts, 1 worker, 2 faults |
| `campaign_safety` | `TypeOK`, `NoLifecycleDrift`, `TerminalRunQuiet`, `BufferBounded`, `DeliveryFollowsJob`, `TerminalRunStands` | 1 run, 2 deliveries, buffer of 1, 2 workers, operator, 1 fault |
| `campaign_liveness` | `SnapshotNotOlder`, `PreparationSettles`, `RunSettles` | 1 run, 1 worker, 1 capability change, 1 fault |
| `webhook_inbox` | `TypeOK`, `AppliedOnce`, `LatestShown`, `AckKept`, `WebhookSettles` | a status event between two session snapshots in time, a READ and a DELIVERED acknowledgement in either order, 2 workers, 2 attempts, 1 fault |
| `gateway_safety` | `TypeOK`, `SnapshotAuthoritative`, `ReadsSerialized`, `VerdictMatchesItems` | 2 FULL runs of 2 attempts, 2 groups, 3 listings, 2 workers, 2 items in all |
| `gateway_liveness` | `DiscoverySettles`, `ItemsSettle` | 2 INCREMENTAL runs of 2 attempts, 1 group that may vanish, 1 worker |
| `contact_projection` | `TypeOK`, `ProjectionCurrent`, `ResolvedPhonesDistinct`, `QueueSettles` | a phone JID, two LIDs that may claim its phone, 2 member rows (one stored before evidence was written), 2 push names, 2 generations, 1 observer, 1 resolver, 1 projector with pages of 1, 2 attempts, 2 events |
| `campaign_definition` | `TypeOK`, `EditsWhatWasSeen`, `ProvenanceHonest`, `RunsWhatWasReviewed`, `TombstoneFinal` | 2 clients, 2 campaigns, 2 lists, 1 key of each kind, a known and an unknown group, 5 accepted changes |
| `group_projection` | `TypeOK`, `EventsCoalesce`, `ReadsNeverRegress`, `RefreshNeverRevives`, `IntentSettles`, `InvalidationSettles` | 2 versions of 1 group, 2 workers, 2 attempts of each kind, 4 events and faults |

Two runs end in a violation: the code does not do what the documentation says.

* `message_redispatch`: completed and failed BullMQ jobs are retained under the message job's id.
  A delivery that ended without claiming the row blocks every later publication: the row is
  recovered, claimed and "published" for ever.
* `gateway_parent`: the recovery of an exhausted item and the settlement of the last other item each
  count the other one as remaining. The run stays RUNNING, holds no lease that could expire, and is
  returned to every later request.

Some behaviour the properties had to be stated around; each is in the model.

* `finalize` overwrites a concurrent cancel: its update waits for the row lock and does not look at
  the status again. `TerminalRunStands` allows exactly this step; `docs/campaign-lifecycle.md` draws
  no such edge.
* Preflight compares capability revisions in one statement and copies them in the next, so a target
  may carry a revision that was not vetted. What holds is `SnapshotNotOlder`.
* A request may move the cutoff of a newer one back: `requested_cutoff_at` is replaced, and a
  statement that began earlier may commit later, whether it is a resolver's, a scan's or an
  observer's. Then a name that was stored in between stays hidden in a drained queue until the next
  observation. `gap` collects the identities of this case (`late` in `RequestCommit` and `Covered`:
  a name of the same contact was stored, or dropped by retention, beside the open statement) and of
  four others. A request beside which a run completes has the targets of the run before
  (`Noted(Identity)`). A name stored while a resolver is at its statement is not promised. Two resolvers that overlap (a tick that outlives its
  leadership, two generations) each compare with the newest run they saw, so the one that commits
  later does not ask for what the other's run changed, and with the earlier completion time it shows
  its own, older result. A push name that only a snapshot brought is not requested. `ProjectionCurrent` is about everyone else;
  a later request that nothing overlaps takes an identity out of the gap again.
* A capability refresh does not look at its pacing lease again before it reads OpenWA (`lapsed`).
* The write of an intent or an item clears an invalidation that arrived after the read. The intent's
  newer revision reads the group again; if that revision is given up, the row shows a capability as
  current that predates the invalidation. The refresh's recovery does not look at `is_active`.
* Applying a list again whose name changed but whose membership did not leaves the campaign as it is.
* A failed acknowledgement that arrives after finalization changes a delivery of a COMPLETED run.
* Between the renewal of the session lease and the POST lies a database round trip without a bound:
  the runs and `SessionExclusive` assume that it, the renewal and the POST fit the lease
  (`VerifyGap + PostTimeout < SendTTL`).

Two jobs and two workers are the smallest instance in which redelivery, takeover of a session and
a late worker meet; one fault is enough to leave any intermediate state behind and a second one
(liveness) to meet it again. A buffer of one with two deliveries reaches the limit. Two preparation
attempts reach the budget. `Acks` holds one acknowledgement that moves forward and the failure, which
may undo a success. Two sync runs are needed for a late writer of an older epoch, two groups for two
items that settle at once; `MaxItems` bounds the items of both runs together, so that two groups in
one run, or one in each, are covered. The listings {both, one, none} with `MinBaseline` 2 make the
second and third suspicious. Workers, runs and groups that nothing tells apart are declared
symmetric, in runs that check safety only. Deadlines are scaled: what matters is which of two
deadlines is first.

In `webhook_inbox` the status event happens at 3, the snapshots show the session at 2 and at 4 and
may be taken at any time and again, so an event is applied before and after an older and a newer
snapshot. The READ and the DELIVERED acknowledgement are received in either order, twice, and after
retention. `Together` keeps the status event and the acknowledgements in different behaviours: they
change different rows, and the rows of the inbox share nothing but the workers and the fault, for
which two acknowledgements compete.

Two versions of a group and two workers suffice for a read of the old version to be published after
an event and after a read of the new one; four events and faults allow an event during a read, a
crash, a sync and another event. Two LIDs and one phone are the smallest conflict, two member rows of
one page each make a projection that a request can interrupt. `Generations` says what each of the
two snapshots may publish: the first shows the LID's phone, the second adds the conflict, so that the
second run takes an assignment back. The two events are any of messages, member rows, publications,
failures and crashes; scans and resolutions are not counted, so that a message can commit beside an
open scan or a resolver's statement, which the mutants of `ProjectionCurrent` and the gap need. The
projector's own scans and pages do not overlap with a single projector; the proof has any number. In `campaign_definition` one client
changes what another has loaded, with enough changes for create, apply, edit, launch and delete in
one behaviour. Its runs are launched side by side in any mode; `campaign_safety` follows one run from
launch to end.

Retention deletes webhook rows before the ledger of applied events; a redelivery that arrives after
the ledger row is gone is not modelled.

Fairness: the scheduler's interval repeats ticks, so its steps are weakly fair; a worker that has
not crashed runs on; time passes. Callers, operators, OpenWA and faults owe nothing. In
`CampaignRun` message jobs also make progress, which `ProcessingSettles` supports and
`message_redispatch` limits. In `WebhookIngress` the claim of each event is strongly fair: the BullMQ
queue is first in, first out, so an id that is published again and again is taken although other
ids keep the worker busy in between; a worker's own steps are weakly fair, and so is time, for each
event. `GatewaySync` assumes the same of its claims, and that the
recovery transaction does not abort every time; crashes and errors of OpenWA are unbounded there, the
attempt budgets bound their effect. `GroupProjection` assumes that each worker goes on and claims when
it can, that leases of crashed workers expire, that recovery runs and that discovery ends.
`ContactProjection` assumes that published generations are enqueued and that resolver and projector
keep ticking; its events and faults are bounded. A request of the observer, once begun, commits or fails (`WF` of
`RequestCommit(Observer)`), and a projector's tick goes on with its scan, its claim or its pages
(`WF` of `ProjectorStep \/ Scan`). `CampaignDefinition` assumes no fairness: clients
owe nothing.

## Proofs

`MessageDelivery_proofs` holds for any jobs, sessions, workers and number of faults.

* `TypeCorrect`, `PostOnce`, `FailureHonest` need no assumption about time. The invariant is
  `DeliveryInv`: `AttemptInv` (a row is attempted once, by one worker; `AtMostOnePost` alone is not
  inductive because nothing in it stops a second attempt), `PostInv` (the POST belongs to that
  attempt) and `OutcomeInv` (what a worker is about to record is true of OpenWA).
* `SessionExclusive` and `LifecycleImplemented` assume `Timely`, that the round trip between renewal
  and POST fits the lease (the first proves `PosterOwnsSession` and, from it, `SendsSerialized`), and add `LeaseInv` (the lease has at least what is left of `SendTTL`) and
  `ReadyInv` (the row is still PROCESSING when the POST starts).

`WebhookIngress_proofs` holds for any events, workers, attempts and faults.

* `TypeCorrect` and `ExactlyOnce`: an event is in the ledger if and only if its effect happened once;
  the invariant relates the ledger to the rows that are PROCESSED.
* `NeverRegresses`: each field of the session shows the observation of the greatest time that
  reached the row, of an event or a snapshot, in whatever order they came. `LatestShown` alone
  is not inductive; `ProjectionInv` adds that nothing was applied to a session row that does not
  exist yet, and that a job with an acknowledgement stays among the acknowledged or failed ones,
  which `AckNeverLost` needs.
* `AckNeverLost`: no acknowledgement that was applied is later replaced by one of lower rank.

`CampaignRun_proofs` holds for any runs, deliveries, workers, operators, limits and faults, given
`CampaignAssumption` (a run has at least one delivery, finitely many).

* `CampaignTypeOK`, `LifecycleAgrees`, `TerminalQuiet`, `BufferHolds`, `DeliveriesHonest`,
  `SnapshotStaysCurrent`, `TerminalStands`. None of the invariants is inductive alone. `Inv` adds
  `LockInv` (a transaction past its check holds the row lock: the run still has the status it
  checked), `VerdictInv` (what `finalize` counted as finished is finished when it updates, although
  the run may have been paused, resumed or cancelled in between), `RowsInv` and `ClaimedInv` (when
  deliveries exist, and what a reconciled one says about its job), `SeenInv` (nobody has read a
  revision that does not exist). The proof classifies steps by what they do to the rows of
  one run and derives each part from that.
* `TerminalStands` keeps the exception that the model checker found: `finalize` updates by id and may
  replace CANCELLED.

`GatewaySync_proofs` holds for any runs, groups, workers and limits.

* `SyncTypeOK`, `SnapshotStands`, `ReadsNeverOverlap`, `VerdictRight`. `Inv` relates the epoch of the
  one RUNNING run to the session's (`RunInv`), open items to running parents and to the published
  snapshot (`ItemInv`), an open transaction to the rows it has locked and to what it saw of their
  siblings (`SettlesInv`, `LockInv`), and a live item lease to the pacing lease (`PacingInv`).
  `VerdictRight` rests on `SettlesInv`: a transaction that settles the last item sees every other one
  settled, and settled items stay so.

`GroupProjection_proofs` holds for any workers, versions of the group and budgets.

* `GroupTypeOK`, `DetailsNeverRegress`, `DropsStand`, and `GroupEventsCoalesce`, the refinement of
  `CoalescedWork`: initial states map to initial states and every step to a step or a stutter. The
  pacing lease orders the reads (`OrderInv`: who may still write has read after all who wrote), the
  capability revision fences a refresh (`RefreshInv`), and a worker that may complete the intent has
  read after the last event (`FreshInv`). `DetailsNeverRegress` keeps the exception of a refresh that
  read after its pacing lease was gone (`lapsed`).

`CampaignDefinition_proofs` holds for any clients, campaigns, lists, keys and groups.

* `DefinitionTypeOK`, `NoLostUpdate`, `SourceTellsTruth`, `ReviewedIsSent`, `TombstonesStand`.
  `NoLostUpdate` is the action property `EditsWhatWasSeen`: a step that changes a campaign's content
  or targets, a list, or deletes, answers a client who has loaded the very values it replaces. It
  fails when a revision compare is dropped. A client's page is some earlier revision of the row, with the same content if the revision is the
  same (`ViewInv`); the history of memberships has one entry per membership revision
  (`MembershipInv`), so that a source names a real one (`SourceInv`); keys stay taken (`KeyInv`).

`ContactProjection_proofs` holds for any identities, members, snapshots and number of resolvers and
projectors. `ProjectionAssumption` says what normalization and the evidence writer store: members,
senders and snapshots name exact identities (JIDs, never a bare phone), the phone a snapshot gives is
an identity of type PHONE, two phone JIDs have different phones, and a cursor of 0 is before every
key.

* `PhonesDistinct`: first about the operators. A link does not leave a component
  (`ComponentLinked`), a LID without an eligible link is alone in its component (`LidLinked`), a
  phone is given only if it is the one phone of a component (`PhoneOf`); so two LIDs with one phone
  both have a contact link to it, and `Conflicted` would have quarantined both (`ResolutionSound`).
  Then about the state: what an open resolution is about to store, and what is stored, is sound.
* `ContactTypeOK`: a request draws new revisions from the sequence for its targets
  (`UpsertKeeps`), so active, requested and drawn revisions stay ordered through claims, interrupted
  pages, failures and crashes. It needs soundness too: the keys of a request are identities only
  because clusters are.

`ContactCurrent_proofs` holds under the same assumptions.

* `AffectedCovers`, about the operators: an identity whose key a run does not ask for has the same
  assignment, cluster and kin in that run and in the one it was compared with. It rests on the form
  of what the resolver returns (`Formed`, `ResultFormed`): a cluster is named by one of its own, its
  count gives away who left, and it never holds three exact identities, so that comparing assignments
  and clusters misses nobody.
* `ProjectionIsCurrent`: `ProjectionCurrent` speaks of drained states only, so the invariant has to
  follow a promise from the statement that made it to the page that keeps it. `MemberPromise` says
  that for every member outside the gap there is a revision `t` such that the member's row is at `t`
  or later and current, or the work of its key will still write it (`Awaits`: a request not yet
  claimed, or an active one whose cursor has not passed the member; FAILED work, which a drained
  queue does not have, excuses it); and that whatever any row of
  work would write at `t` or later is good for the member (`GoodRow`: the run and the cutoff give what
  the newest run and the evidence of today give). `PhaseInv` orders what a row of work has in each
  phase, `OpenPromise` says what an open resolution will bring (`Announced`: outside its targets
  nothing new, and no news of an identity that nothing was requested for), `HoldInv` that it still
  holds its run, `TimeInv` and `ObsInv` that runs and names are told apart by time. The inductive
  invariant has `AskInv` beside them, about the open request of a scan or an observer (`Asks`): it
  stores only names of its own identities and time, of everyone else no name is newer than its time
  unless it took note (`beside`), and it has read the newest run unless one was completed beside it;
  so its commit keeps the promises (`CommitAsks`, `CommitsKept`). A step is then
  either no news of an identity (`NoNews`, `PromiseStays`), a new request for its whole cluster
  (`RequestKept`, `CommitKept`), or the move of a row of work that carries its promises (`Carries`,
  `BatchKept`).
* The attempt to prove it with several resolvers found that two open resolutions make the property
  false without the exception above.

Each invariant part has a lemma per action or group of actions, and each inductive invariant was
checked with TLC before it was proved (`CurrentInv` and `AskInv` on the whole instance of
`contact_projection`; the record sets of `ContactProjection_proofs` mix values that TLC does not
compare).

Model-checked only: the liveness properties (`ProcessingSettles`, `PreparationSettles`, `RunSettles`,
`WebhookSettles`, `DiscoverySettles`, `ItemsSettle`, `IntentSettles`, `InvalidationSettles`,
`QueueSettles`), because the proof system does not handle fairness, and
the two runs that expect a violation. Every safety property of a passing run is a theorem.

## Not modelled yet, and the plan

1. `SchedulerTick`: leadership by advisory lock, isolation of ticks, wake-ups, retention. The model
   of contacts has the scans of the projection tick only.
2. Contacts: the lease of a snapshot download, observation intents, the legacy directory.
3. The send policy over `GroupProjection`: it is not evaluated again between the wait for the session
   lease and the POST.
4. Contacts: revisions drawn in another order than the requests commit; a run of its own with two
   resolvers or two projectors that overlap (the theorems have any number).

Left out for good: HTTP parsing and DTO validation, logging and metrics, read-only queries.
