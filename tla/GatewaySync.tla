------------------------------ MODULE GatewaySync ------------------------------
(***************************************************************************)
(* Synchronization of one session's groups: a run discovers the groups     *)
(* under a leased, epoch-fenced attempt and publishes them as items; each  *)
(* item reads one group's details under its own lease and under the        *)
(* session's pacing lease; the parent run ends when its items have.        *)
(*                                                                         *)
(* A lease token is the worker that claimed; a crashed worker forgets it.  *)
(* A lease is fresh until time takes it; the heartbeats of a worker only   *)
(* keep it so.  Backoff, pacing and cooldown only put a claim off: a row   *)
(* that waits is one not claimed yet.  The tick publishes every claimable  *)
(* row again and again and the claim looks at the row alone, so the queue  *)
(* is not state either: it may deliver any id, late, twice or not.  The    *)
(* transactions that settle an item are split where they read the          *)
(* siblings: refreshParent aggregates in its statement's snapshot and may  *)
(* then wait for the parent's row lock.                                    *)
(***************************************************************************)
EXTENDS Naturals, FiniteSets

CONSTANTS
  Run, Group, Worker,
  NoOne, Tick,
  Mode,             \* a subset of FULL and INCREMENTAL
  Listing,          \* the sets of groups OpenWA may list
  MaxRunAttempts,   \* claims of a run (3)
  MaxItemAttempts,  \* GATEWAY_SYNC_ITEM_MAX_ATTEMPTS
  MinBaseline,      \* GATEWAY_SYNC_SNAPSHOT_MIN_BASELINE
  DropPercent,      \* GATEWAY_SYNC_SNAPSHOT_DROP_RATIO, in percent
  Confirmations,    \* GATEWAY_SYNC_SNAPSHOT_CONFIRMATIONS
  MaxItems          \* bound on the items of all runs together

Item == Run \X Group
Actor == Worker \cup {Tick}

ASSUME SyncAssumption ==
  /\ NoOne \notin Run \cup Group \cup Actor /\ Tick \notin Worker
  /\ IsFiniteSet(Group)
  /\ Mode \subseteq {"FULL", "INCREMENTAL"}
  /\ Listing \subseteq SUBSET Group
  /\ MaxRunAttempts \in Nat \ {0} /\ MaxItemAttempts \in Nat \ {0}
  /\ MinBaseline \in Nat \ {0} /\ DropPercent \in 0..100
  /\ Confirmations \in Nat \ {0, 1} /\ MaxItems \in Nat

VARIABLES
  status, phase, mode, attempts, epoch, token,  \* sync_runs
  freshRuns,
  current_epoch,                                \* gateway_sync_fences
  item, itemAttempts, itemToken,                \* gateway_sync_items
  freshItems,
  pacing, pacingFresh,                          \* gateway_sync_rate_limits
  active, writer,                               \* gateway_groups
  baseline, suspect, confirmed,                 \* gateway_sessions
  published,                                    \* the last snapshot accepted
  pc, task, claimed, seen,                      \* workers
  txn                                           \* transactions that settle items

runs == <<status, phase, mode, attempts, epoch, token, freshRuns>>
fence == current_epoch
items == <<item, itemAttempts, itemToken, freshItems>>
limits == <<pacing, pacingFresh>>
groups == <<active, writer, published>>
snapshot == <<baseline, suspect, confirmed>>
workers == <<pc, task, claimed, seen>>
vars == <<runs, fence, items, limits, groups, snapshot, workers, txn>>

NoTask == <<NoOne, NoOne>>
NoTxn == [settles |-> {}, view |-> [i \in Item |-> "NONE"]]

Init ==
  /\ status = [r \in Run |-> "ABSENT"] /\ phase = [r \in Run |-> "DISCOVERING"]
  /\ mode \in [Run -> Mode]
  /\ attempts = [r \in Run |-> 0] /\ epoch = [r \in Run |-> 0]
  /\ token = [r \in Run |-> NoOne]
  /\ freshRuns = {}
  /\ current_epoch = 0
  /\ item = [i \in Item |-> "NONE"] /\ itemAttempts = [i \in Item |-> 0]
  /\ itemToken = [i \in Item |-> NoOne]
  /\ freshItems = {}
  /\ pacing = NoOne /\ pacingFresh = FALSE
  /\ active = {} /\ writer = [g \in Group |-> 0] /\ published = {}
  /\ baseline = 0 /\ suspect = {} /\ confirmed = 0
  /\ pc = [w \in Worker |-> "idle"] /\ task = [w \in Worker |-> NoTask]
  /\ claimed = [w \in Worker |-> 0] /\ seen = [w \in Worker |-> {}]
  /\ txn = [a \in Actor |-> NoTxn]

-----------------------------------------------------------------------------
Active == {"PENDING", "RUNNING"}
Open == {"PENDING", "RETRY", "RUNNING"}

\* GatewaySyncService.request: an active run of the session is returned.
Create(r) ==
  /\ status[r] = "ABSENT"
  /\ \A s \in Run : status[s] \notin Active
  /\ status' = [status EXCEPT ![r] = "PENDING"]
  /\ UNCHANGED <<phase, mode, attempts, epoch, token, freshRuns, fence, items, limits,
                 groups, snapshot, workers, txn>>

-----------------------------------------------------------------------------
(***************************************************************************)
(* GatewaySyncService.perform on a worker.                                 *)
(***************************************************************************)
Goes(w, l) == pc' = [pc EXCEPT ![w] = l]

Rests(w) ==
  /\ Goes(w, "idle")
  /\ task' = [task EXCEPT ![w] = NoTask]
  /\ claimed' = [claimed EXCEPT ![w] = 0]
  /\ seen' = [seen EXCEPT ![w] = {}]

Fails(w) ==
  /\ Goes(w, "failing")
  /\ seen' = [seen EXCEPT ![w] = {}]
  /\ UNCHANGED <<task, claimed>>

Claimable(r) ==
  /\ status[r] = "PENDING" /\ attempts[r] < MaxRunAttempts
  /\ \A s \in Run : status[s] # "RUNNING"

ClaimRun(w, r) ==
  /\ pc[w] = "idle" /\ Claimable(r)
  /\ current_epoch' = current_epoch + 1
  /\ status' = [status EXCEPT ![r] = "RUNNING"]
  /\ phase' = [phase EXCEPT ![r] = "DISCOVERING"]
  /\ attempts' = [attempts EXCEPT ![r] = @ + 1]
  /\ epoch' = [epoch EXCEPT ![r] = current_epoch + 1]
  /\ token' = [token EXCEPT ![r] = w]
  /\ freshRuns' = freshRuns \cup {r}
  /\ Goes(w, "list")
  /\ task' = [task EXCEPT ![w] = <<r, NoOne>>]
  /\ claimed' = [claimed EXCEPT ![w] = current_epoch + 1]
  /\ UNCHANGED <<mode, items, limits, groups, snapshot, seen, txn>>

\* renewLease and complete: state, token and expiry.
OwnsRun(w) ==
  LET r == task[w][1] IN
  status[r] = "RUNNING" /\ token[r] = w /\ r \in freshRuns

\* assertSyncWriteOwnership and assertDiscoveryOwnership: the epochs too.
OwnsDiscovery(w) ==
  OwnsRun(w) /\ epoch[task[w][1]] = claimed[w] /\ current_epoch = claimed[w]

\* OpenWA's release, session and groups, each followed by assertSyncOwnership.
\* The session row it stores on the way is that of WebhookIngress.
ListGroups(w) ==
  /\ pc[w] = "list"
  /\ IF OwnsDiscovery(w)
       THEN /\ \E G \in Listing :
                 /\ Cardinality(G) + Cardinality({i \in Item : item[i] # "NONE"}) <= MaxItems
                 /\ seen' = [seen EXCEPT ![w] = G]
            /\ Goes(w, "publish")
       ELSE Goes(w, "failing") /\ UNCHANGED seen
  /\ UNCHANGED <<runs, fence, items, limits, groups, snapshot, task, claimed,
                 txn>>

\* OpenWA or a statement throws.
DiscoveryThrows(w) ==
  /\ pc[w] \in {"list", "publish"}
  /\ Fails(w)
  /\ UNCHANGED <<runs, fence, items, limits, groups, snapshot, txn>>

\* Far fewer groups than the last accepted snapshot had.
Suspicious(G) ==
  baseline >= MinBaseline /\ 100 * Cardinality(G) < baseline * DropPercent

Confirms(G) == IF confirmed > 0 /\ suspect = G THEN confirmed + 1 ELSE 1

\* The run waits for a second look; the attempt does not count.
Defer(r, G) ==
  /\ suspect' = G /\ confirmed' = Confirms(G)
  /\ status' = [status EXCEPT ![r] = "PENDING"]
  /\ attempts' = [attempts EXCEPT ![r] = @ - 1]
  /\ epoch' = [epoch EXCEPT ![r] = 0]
  /\ UNCHANGED <<phase, items, groups, baseline>>

\* replaceSummaries and the items.  INCREMENTAL selects the groups without
\* details and those whose summary, capability or age asks for it.
Selects(r, G, S) ==
  /\ S \subseteq G
  /\ IF mode[r] = "FULL" THEN S = G ELSE {g \in G : writer[g] = 0} \subseteq S

Accept(r, G, S) ==
  /\ active' = G /\ published' = G
  /\ item' = [i \in Item |-> IF i[1] = r /\ i[2] \in S /\ item[i] = "NONE"
                             THEN "PENDING" ELSE item[i]]
  /\ baseline' = Cardinality(G) /\ suspect' = {} /\ confirmed' = 0
  /\ phase' = [phase EXCEPT ![r] = IF S = {} THEN "COMPLETED" ELSE "RECONCILING"]
  /\ status' = [status EXCEPT ![r] = IF S = {} THEN "COMPLETED" ELSE @]
  /\ UNCHANGED <<attempts, epoch, itemAttempts, itemToken, freshItems, writer>>

\* The commit's answer may be lost: the worker then fails without a lease.
PublishDiscovery(w) ==
  LET r == task[w][1]
      G == seen[w]
  IN
  /\ pc[w] = "publish" /\ OwnsDiscovery(w)
  /\ IF Suspicious(G) /\ Confirms(G) < Confirmations
       THEN Defer(r, G)
       ELSE \E S \in SUBSET Group : Selects(r, G, S) /\ Accept(r, G, S)
  /\ token' = [token EXCEPT ![r] = NoOne]
  /\ freshRuns' = freshRuns \ {r}
  /\ \/ Rests(w)
     \/ Fails(w)
  /\ UNCHANGED <<mode, fence, limits, txn>>

DiscoveryLost(w) ==
  /\ pc[w] = "publish" /\ ~OwnsDiscovery(w)
  /\ Fails(w)
  /\ UNCHANGED <<runs, fence, items, limits, groups, snapshot, txn>>

\* Mutant: the last attempt returns to PENDING, where nothing claims it.
Exhausted_OffByOne(r) == attempts[r] > MaxRunAttempts

Exhausted(r) == attempts[r] >= MaxRunAttempts

\* Mutant: the lease token stays on the row.
Withdraw_KeepsToken(R) ==
  /\ status' = [r \in Run |-> IF r \notin R THEN status[r]
                              ELSE IF Exhausted(r) THEN "FAILED" ELSE "PENDING"]
  /\ epoch' = [r \in Run |-> IF r \in R /\ ~Exhausted(r) THEN 0 ELSE epoch[r]]
  /\ UNCHANGED <<phase, mode, attempts, token>>

\* What failAttempt and recoverExpired do to the runs R.
Withdraw(R) ==
  /\ status' = [r \in Run |-> IF r \notin R THEN status[r]
                              ELSE IF Exhausted(r) THEN "FAILED" ELSE "PENDING"]
  /\ epoch' = [r \in Run |-> IF r \in R /\ ~Exhausted(r) THEN 0 ELSE epoch[r]]
  /\ token' = [r \in Run |-> IF r \in R THEN NoOne ELSE token[r]]
  /\ UNCHANGED <<phase, mode, attempts>>

FailAttempt(w) ==
  LET r == task[w][1] IN
  /\ pc[w] = "failing"
  /\ IF OwnsRun(w)
       THEN Withdraw({r}) /\ freshRuns' = freshRuns \ {r}
       ELSE UNCHANGED runs
  /\ Rests(w)
  /\ UNCHANGED <<fence, items, limits, groups, snapshot, txn>>

-----------------------------------------------------------------------------
(***************************************************************************)
(* GatewaySyncService.reconcileGroup on a worker.                          *)
(***************************************************************************)
\* Another transaction holds the row of i.
Locked(i) == \E a \in Actor : i \in txn[a].settles

\* Mutant: a group read does not wait for the one under way.
PaceReady_Unleased == TRUE

\* readyAndRate.
PaceReady == pacing = NoOne \/ ~pacingFresh

ItemClaimable(i) ==
  /\ status[i[1]] = "RUNNING"
  /\ item[i] \in {"PENDING", "RETRY"} /\ itemAttempts[i] < MaxItemAttempts
  /\ PaceReady

\* readyAndRate waits for the transaction of the lease's holder.
ClaimItem(w, i) ==
  /\ pc[w] = "idle" /\ ItemClaimable(i)
  /\ \A v \in Worker : txn[v].settles = {} \/ pacing # v
  /\ item' = [item EXCEPT ![i] = "RUNNING"]
  /\ itemAttempts' = [itemAttempts EXCEPT ![i] = @ + 1]
  /\ itemToken' = [itemToken EXCEPT ![i] = w]
  /\ freshItems' = freshItems \cup {i}
  /\ pacing' = w /\ pacingFresh' = TRUE
  /\ Goes(w, "read")
  /\ task' = [task EXCEPT ![w] = i]
  /\ claimed' = [claimed EXCEPT ![w] = epoch[i[1]]]
  /\ UNCHANGED <<runs, fence, groups, snapshot, seen, txn>>

\* getGroup answers, does not know the group, or fails.
ReadGroup(w) ==
  /\ pc[w] = "read"
  /\ \E l \in {"renew", "skip", "failUpstream"} : Goes(w, l)
  /\ UNCHANGED <<runs, fence, items, limits, groups, snapshot, task, claimed,
                 seen, txn>>

OwnsItem(w) ==
  LET i == task[w] IN item[i] = "RUNNING" /\ itemToken[i] = w /\ i \in freshItems

\* renewLease renews both leases or gives up; so does a heartbeat that failed.
RenewItem(w) ==
  /\ pc[w] = "renew"
  /\ \/ /\ OwnsItem(w) /\ pacing = w /\ pacingFresh
        /\ Goes(w, "write") /\ UNCHANGED <<task, claimed, seen>>
     \/ Rests(w)
  /\ UNCHANGED <<runs, fence, items, limits, groups, snapshot, txn>>

\* Mutant: the details are written as the claim found things.
MayWrite_Unfenced(w) == TRUE

\* assertSyncItemWriteOwnership and renewGroupReadPacingLease.
MayWrite(w) ==
  LET r == task[w][1] IN
  /\ OwnsItem(w) /\ status[r] = "RUNNING"
  /\ epoch[r] = claimed[w] /\ current_epoch = claimed[w]
  /\ pacing = w

UpsertGroupDetails(w) ==
  LET g == task[w][2] IN
  /\ pc[w] = "write" /\ MayWrite(w)
  /\ active' = active \cup {g}
  /\ writer' = [writer EXCEPT ![g] = claimed[w]]
  /\ pacingFresh' = TRUE
  /\ \E l \in {"complete", "failPersistence"} : Goes(w, l)
  /\ UNCHANGED <<runs, fence, items, pacing, published, snapshot, task,
                 claimed, seen, txn>>

\* The fence refuses, or a statement throws.
PersistenceThrows(w) ==
  /\ pc[w] \in {"renew", "write", "complete"}
  /\ Goes(w, "failPersistence")
  /\ UNCHANGED <<runs, fence, items, limits, groups, snapshot, task, claimed,
                 seen, txn>>

Settling == {"complete", "skip", "failUpstream", "failPersistence"}

\* Mutant: a failed read is retried whatever the budget says.
Outcomes_AlwaysRetry(w) ==
  CASE pc[w] = "complete" -> {"COMPLETED"}
    [] pc[w] = "skip" -> {"SKIPPED"}
    [] OTHER -> {"RETRY"}

\* What complete, skip and fail make of the item.
Outcomes(w) ==
  LET retried == IF itemAttempts[task[w]] < MaxItemAttempts THEN "RETRY" ELSE "FAILED" IN
  CASE pc[w] = "complete" -> {"COMPLETED"}
    [] pc[w] = "skip" -> {"SKIPPED"}
    [] pc[w] = "failUpstream" -> {retried, "FAILED"}
    [] pc[w] = "failPersistence" -> {retried}

\* The snapshot in which refreshParent counts: what is committed, and its own.
Seen(S, to) == [i \in Item |-> IF i \in S THEN to[i] ELSE item[i]]

SettleItem(w) ==
  LET i == task[w] IN
  /\ pc[w] \in Settling /\ OwnsItem(w) /\ ~Locked(i)
  /\ \E o \in Outcomes(w) :
       txn' = [txn EXCEPT ![w] = [settles |-> {i}, view |-> Seen({i}, [j \in {i} |-> o])]]
  /\ Goes(w, "commit")
  /\ UNCHANGED <<runs, fence, items, limits, groups, snapshot, task, claimed,
                 seen>>

ItemLost(w) ==
  /\ pc[w] \in Settling
  /\ ~OwnsItem(w) /\ ~Locked(task[w])
  /\ Rests(w)
  /\ UNCHANGED <<runs, fence, items, limits, groups, snapshot, txn>>

\* Mutant: an item that waits for its retry does not count as remaining.
Remaining_NoRetry(view, r) == {g \in Group : view[<<r, g>>] \in {"PENDING", "RUNNING"}}

Remaining(view, r) == {g \in Group : view[<<r, g>>] \in Open}

Failed(view, r) == {g \in Group : view[<<r, g>>] = "FAILED"}

\* refreshParent for the runs of the items S, as counted in view.
RefreshParent(S, view) ==
  LET parents == {i[1] : i \in S}
      done(r) == r \in parents /\ Remaining(view, r) = {}
  IN
  /\ status' = [r \in Run |-> IF ~done(r) THEN status[r]
                              ELSE IF Failed(view, r) # {} THEN "FAILED" ELSE "COMPLETED"]
  /\ phase' = [r \in Run |-> IF r \notin parents THEN phase[r]
                             ELSE IF done(r) THEN "COMPLETED" ELSE "RECONCILING"]
  /\ UNCHANGED <<mode, attempts, epoch, token, freshRuns>>

Settles(a) ==
  LET S == txn[a].settles
      view == txn[a].view
  IN
  /\ item' = [i \in Item |-> IF i \in S THEN view[i] ELSE item[i]]
  /\ itemToken' = [i \in Item |-> IF i \in S THEN NoOne ELSE itemToken[i]]
  /\ freshItems' = freshItems \ S
  /\ RefreshParent(S, view)
  /\ txn' = [txn EXCEPT ![a] = NoTxn]
  /\ UNCHANGED itemAttempts

CommitItem(w) ==
  /\ pc[w] = "commit"
  /\ Settles(w)
  /\ IF pacing = w
       THEN pacing' = NoOne /\ pacingFresh' = FALSE
       ELSE UNCHANGED limits
  /\ Rests(w)
  /\ UNCHANGED <<fence, groups, snapshot>>

\* The process dies; a transaction that did not commit is rolled back.
Crash(w) ==
  /\ pc[w] # "idle"
  /\ Rests(w)
  /\ txn' = [txn EXCEPT ![w] = NoTxn]
  /\ UNCHANGED <<runs, fence, items, limits, groups, snapshot>>

-----------------------------------------------------------------------------
(***************************************************************************)
(* GatewayDispatchTick.dispatchOnce.  It repeats for ever, so the order of *)
(* its statements is not kept.                                             *)
(***************************************************************************)
\* A run without lease is with its items and is left to them.
RecoverExpiredRuns ==
  LET expired == {r \in Run : status[r] = "RUNNING" /\ token[r] # NoOne /\ r \notin freshRuns}
  IN
  /\ expired # {}
  /\ Withdraw(expired)
  /\ UNCHANGED <<freshRuns, fence, items, limits, groups, snapshot, workers, txn>>

ExpiredItems == {i \in Item : item[i] = "RUNNING" /\ i \notin freshItems}

\* Waits for the rows it wants; what their siblings do meanwhile it does not see.
RecoverExpiredItems ==
  LET to == [i \in ExpiredItems |->
               IF itemAttempts[i] >= MaxItemAttempts THEN "FAILED" ELSE "RETRY"]
  IN
  /\ txn[Tick].settles = {} /\ ExpiredItems # {}
  /\ \A i \in ExpiredItems : ~Locked(i)
  /\ txn' = [txn EXCEPT ![Tick] = [settles |-> ExpiredItems, view |-> Seen(ExpiredItems, to)]]
  /\ UNCHANGED <<runs, fence, items, limits, groups, snapshot, workers>>

CommitRecovery ==
  /\ txn[Tick].settles # {}
  /\ Settles(Tick)
  /\ pacing' = IF pacingFresh THEN pacing ELSE NoOne
  /\ UNCHANGED <<fence, pacingFresh, groups, snapshot, workers>>

\* The same transaction when it found no expired item.
ReleaseExpiredPacing ==
  /\ txn[Tick].settles = {} /\ ExpiredItems = {}
  /\ pacing # NoOne /\ ~pacingFresh
  /\ pacing' = NoOne
  /\ UNCHANGED <<runs, fence, items, pacingFresh, groups, snapshot, workers, txn>>

\* The scheduler dies or a statement throws.
RecoveryAborts ==
  /\ txn[Tick].settles # {}
  /\ txn' = [txn EXCEPT ![Tick] = NoTxn]
  /\ UNCHANGED <<runs, fence, items, limits, groups, snapshot, workers>>

-----------------------------------------------------------------------------
(***************************************************************************)
(* Time.  The pacing lease is taken and renewed together with an item's    *)
(* lease and after it, so it does not expire before it.                    *)
(***************************************************************************)
RunLeaseExpires(r) ==
  /\ r \in freshRuns
  /\ freshRuns' = freshRuns \ {r}
  /\ UNCHANGED <<status, phase, mode, attempts, epoch, token, fence, items, limits,
                 groups, snapshot, workers, txn>>

ItemLeaseExpires(i) ==
  /\ i \in freshItems
  /\ freshItems' = freshItems \ {i}
  /\ UNCHANGED <<runs, fence, item, itemAttempts, itemToken, limits, groups,
                 snapshot, workers, txn>>

PacingExpires ==
  /\ pacingFresh
  /\ \A i \in freshItems : itemToken[i] # pacing
  /\ pacingFresh' = FALSE
  /\ UNCHANGED <<runs, fence, items, pacing, groups, snapshot, workers,
                 txn>>

-----------------------------------------------------------------------------
SchedulerStep ==
  RecoverExpiredRuns \/ RecoverExpiredItems \/ CommitRecovery \/ ReleaseExpiredPacing

Discovers(w) ==
  ListGroups(w) \/ PublishDiscovery(w) \/ DiscoveryLost(w) \/ FailAttempt(w)

Reconciles(w) ==
  \/ ReadGroup(w) \/ RenewItem(w) \/ UpsertGroupDetails(w) \/ SettleItem(w) \/ ItemLost(w)
  \/ CommitItem(w)

WorkerThrows(w) == DiscoveryThrows(w) \/ PersistenceThrows(w)

TimePasses ==
  \/ \E r \in Run : RunLeaseExpires(r)
  \/ \E i \in Item : ItemLeaseExpires(i)
  \/ PacingExpires

Next ==
  \/ SchedulerStep \/ RecoveryAborts \/ TimePasses
  \/ \E r \in Run : Create(r)
  \/ \E w \in Worker :
       \/ \E r \in Run : ClaimRun(w, r)
       \/ \E i \in Item : ClaimItem(w, i)
       \/ Discovers(w) \/ Reconciles(w) \/ WorkerThrows(w) \/ Crash(w)

Spec == Init /\ [][Next]_vars

\* The tick repeats and does not abort every time, workers run on, time passes;
\* the tick publishes what can be claimed, and the queue is first in, first out.
Fairness ==
  /\ WF_vars(RecoverExpiredRuns) /\ WF_vars(RecoverExpiredItems) /\ SF_vars(CommitRecovery)
  /\ \A w \in Worker : WF_vars(Discovers(w) \/ Reconciles(w) \/ WorkerThrows(w))
  /\ \A r \in Run : SF_vars(\E w \in Worker : ClaimRun(w, r))
  /\ \A i \in Item : SF_vars(\E w \in Worker : ClaimItem(w, i))
  /\ \A r \in Run : WF_vars(RunLeaseExpires(r))
  /\ \A i \in Item : WF_vars(ItemLeaseExpires(i))
  /\ WF_vars(PacingExpires)

FairSpec == Spec /\ Fairness

-----------------------------------------------------------------------------
RunStatus == {"ABSENT", "PENDING", "RUNNING", "COMPLETED", "FAILED"}
ItemStatus == Open \cup {"NONE", "COMPLETED", "FAILED", "SKIPPED"}
Step == {"idle", "list", "publish", "failing", "read", "renew", "skip", "write",
         "complete", "failUpstream", "failPersistence", "commit"}

(***************************************************************************)
(* Rows, leases and workers are in their types; a lease token is only on a *)
(* RUNNING run, and is on an item exactly while it is RUNNING.             *)
(***************************************************************************)
TypeOK ==
  /\ status \in [Run -> RunStatus]
  /\ phase \in [Run -> {"DISCOVERING", "RECONCILING", "COMPLETED"}]
  /\ mode \in [Run -> Mode]
  /\ attempts \in [Run -> 0..MaxRunAttempts]
  /\ epoch \in [Run -> Nat] /\ current_epoch \in Nat
  /\ token \in [Run -> Worker \cup {NoOne}]
  /\ \A r \in Run : token[r] # NoOne => status[r] = "RUNNING"
  /\ freshRuns \in SUBSET Run
  /\ item \in [Item -> ItemStatus]
  /\ itemAttempts \in [Item -> 0..MaxItemAttempts]
  /\ itemToken \in [Item -> Worker \cup {NoOne}]
  /\ \A i \in Item : itemToken[i] # NoOne <=> item[i] = "RUNNING"
  /\ freshItems \in SUBSET Item
  /\ pacing \in Worker \cup {NoOne} /\ pacingFresh \in BOOLEAN
  /\ active \in SUBSET Group /\ published \in SUBSET Group
  /\ writer \in [Group -> Nat]
  /\ baseline \in Nat /\ suspect \in SUBSET Group /\ confirmed \in Nat
  /\ pc \in [Worker -> Step]
  /\ task \in [Worker -> (Run \X (Group \cup {NoOne})) \cup {NoTask}]
  /\ claimed \in [Worker -> Nat]
  /\ seen \in [Worker -> SUBSET Group]
  /\ txn \in [Actor -> [settles : SUBSET Item, view : [Item -> ItemStatus]]]

(***************************************************************************)
(* "Discovery publishes the authoritative summary snapshot ... an older    *)
(* attempt cannot write after a newer epoch begins": the active groups are *)
(* those of the last accepted snapshot, whatever late discoveries and late *)
(* group reads still try to write (publishDiscovery, upsertGroupDetails).  *)
(***************************************************************************)
SnapshotAuthoritative == active = published

(***************************************************************************)
(* The session's group reads are serialized: no two items hold live leases *)
(* at once, over expiry, recovery and retries (readyAndRate, acquire,      *)
(* renew).                                                                 *)
(***************************************************************************)
ReadsSerialized == Cardinality(freshItems) <= 1

(***************************************************************************)
(* Items and runs agree: no item of a finished run is still open, a        *)
(* COMPLETED run has no FAILED item, and an item that is worked on belongs *)
(* to the session's current epoch (refreshParent, recoverExpired, claim).  *)
(***************************************************************************)
VerdictMatchesItems ==
  \A r \in Run :
    /\ status[r] \in {"COMPLETED", "FAILED"} => Remaining(item, r) = {}
    /\ status[r] = "COMPLETED" => Failed(item, r) = {}
    /\ \A i \in Item : i[1] = r /\ item[i] = "RUNNING" => epoch[r] = current_epoch

(***************************************************************************)
(* "Exhaustion becomes FAILED and finalizes parent progress": a run whose  *)
(* items have all settled does not stay active for ever.                   *)
(***************************************************************************)
ParentFinalized ==
  \A r \in Run :
    (status[r] = "RUNNING" /\ phase[r] = "RECONCILING" /\ Remaining(item, r) = {})
      ~> status[r] # "RUNNING"

(***************************************************************************)
(* Discovery ends: a requested run publishes its items or fails, over      *)
(* crashes, expired leases, OpenWA errors and a suspicious snapshot that   *)
(* repeats (recoverExpired, failAttempt, publishDiscovery).                *)
(***************************************************************************)
DiscoverySettles ==
  \A r \in Run :
    (status[r] \in Active /\ phase[r] = "DISCOVERING")
      ~> (phase[r] # "DISCOVERING" \/ status[r] \notin Active)

(***************************************************************************)
(* Every published item settles (listDispatchable, fail, recoverExpired).  *)
(***************************************************************************)
ItemsSettle ==
  \A i \in Item : item[i] \in Open ~> item[i] \notin Open
=============================================================================
