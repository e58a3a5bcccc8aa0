------------------------ MODULE GroupProjection_proofs ------------------------
(***************************************************************************)
(* Machine-checked proofs about GroupProjection, for any workers, versions *)
(* of the group, flags, budgets and number of events and faults.           *)
(***************************************************************************)
EXTENDS GroupProjection, TLAPS

USE GroupProjectionAssumption

\* What a handler knows at each of its points.
Consistent(w) ==
  /\ worker[w].seen <= truth
  /\ (worker[w].op = "idle") <=> (worker[w].at = "idle")
  /\ worker[w].at \in {"claim", "record", "attempt"} => worker[w].op = "refresh"
  /\ worker[w].at \in {"renew", "settle"} => worker[w].op # "refresh"
  /\ worker[w].at \in {"renew", "write", "settle"} => worker[w].seen >= 1
  /\ (worker[w].outcome = "ok") <=> (worker[w].at \notin {"failed", "attempt"})
WorkerInv == \A w \in Worker : Consistent(w)

\* What the group's row, and the rows that ask for it to be read, are never seen to say.
RowInv ==
  /\ row.details <= truth
  /\ row.state = "ABSENT" => row = Absent
  /\ row.state = "ACTIVE" => row.cap # Cap("DENIED", "GROUP_INACTIVE")
QueueInv ==
  /\ intent.claimed <= intent.requested
  /\ discovering => item.status = "NONE"

\* A reader whose write would not be refused, as far as the lease that orders it goes.
Paced(w) == worker[w].op # "refresh" /\ worker[w].at \in {"renew", "write"} /\ pacing.token = w
Applies(w) == worker[w].op = "refresh" /\ worker[w].at = "write" /\ MayApply(w)

\* The revision fences a refresh: while it stands, the group is listed and what was read is
\* no older than the last group event.
RefreshInv ==
  \A w \in Worker :
    /\ worker[w].op = "refresh" => worker[w].revision <= row.revision
    /\ worker[w].op = "refresh" /\ worker[w].revision = row.revision => row.state = "ACTIVE"
    /\ Applies(w) => worker[w].seen >= asked

\* The pacing lease orders the reads: who may still write has read after all who wrote.
Ahead(w) ==
  /\ Paced(w) \/ Applies(w) => worker[w].seen >= row.details
  /\ Paced(w) => \A r \in Worker : Applies(r) => worker[w].seen >= worker[r].seen
OrderInv == ~lapsed => \A w \in Worker : Ahead(w)

\* No event has come since the intent was claimed.
UpToDate == intent.status = "COMPLETED" \/ (intent.status = "RUNNING" /\ intent.claimed = intent.requested)

\* While no event has come, whoever may write has read after the last one, and so had the
\* attempt that is about to complete the intent.
FreshInv ==
  /\ UpToDate => \A w \in Worker : Paced(w) => worker[w].seen >= asked
  /\ UpToDate => \A w \in Worker :
       OwnsIntent(w) /\ worker[w].op = "intent" /\ worker[w].at = "settle" => row.details >= asked
  /\ intent.status = "COMPLETED" /\ ~intent.missing => row.details >= asked

Inv == TypeOK /\ WorkerInv /\ RowInv /\ QueueInv /\ RefreshInv /\ OrderInv /\ FreshInv
-----------------------------------------------------------------------------
(***************************************************************************)
(* The operators on the stored rows.                                       *)
(***************************************************************************)
\* evaluateGroupCapability of an active group never says that it is inactive.
LEMMA EvaluateTyped ==
  ASSUME NEW readOnly \in Tri, NEW announce \in Tri, NEW admin \in Tri
  PROVE  /\ EvaluateGroupCapability(readOnly, announce, admin) \in Capabilities
         /\ EvaluateGroupCapability(readOnly, announce, admin) # Cap("DENIED", "GROUP_INACTIVE")
  BY DEF EvaluateGroupCapability, Tri, Capabilities, Cap, Reasons

\* upsertGroupDetails lists the group, stores the version it was given, ends the refresh that
\* was claimed and never takes the revision back.
LEMMA DetailedTyped ==
  ASSUME NEW r \in Rows, NEW version \in 1 .. MaxVersion
  PROVE  /\ Detailed(r, version) \in Rows
         /\ Detailed(r, version).state = "ACTIVE"
         /\ Detailed(r, version).details = version
         /\ Detailed(r, version).lease = Free
         /\ Detailed(r, version).cap # Cap("DENIED", "GROUP_INACTIVE")
         /\ Detailed(r, version).revision >= r.revision
<1> DEFINE flags == Flags[version]
           admin == IF flags.admin = "null" THEN r.admin ELSE flags.admin
           cap == EvaluateGroupCapability(flags.readOnly, flags.announce, admin)
<1>1. flags \in [readOnly : Tri, announce : Tri, admin : Tri]
  OBVIOUS
<1>2. admin \in Tri /\ flags.readOnly \in Tri /\ flags.announce \in Tri
  BY <1>1 DEF Rows
<1>3. cap \in Capabilities /\ cap # Cap("DENIED", "GROUP_INACTIVE")
  BY <1>2, EvaluateTyped
<1>4. Free \in Leases /\ r.revision \in Nat /\ 0 \in 0 .. RefreshAttempts
  BY DEF Leases, Rows
<1>5. Detailed(r, version) =
        [state |-> "ACTIVE", details |-> version, admin |-> admin, cap |-> cap,
         invalidated |-> FALSE, attempts |-> 0, lease |-> Free,
         revision |-> IF r.state = "ABSENT" \/ r.cap # cap THEN r.revision + 1 ELSE r.revision]
  BY DEF Detailed
<1> HIDE DEF cap, admin, flags
<1> QED BY <1>2, <1>3, <1>4, <1>5 DEF Rows

\* Listing a group leaves its details alone and never takes the revision back.
LEMMA ListedTyped ==
  ASSUME NEW r \in Rows, r.state = "ABSENT" => r = Absent
  PROVE  /\ Listed(r) \in Rows
         /\ Listed(r).state = "ACTIVE" /\ Listed(r).details = r.details
         /\ Listed(r).lease = r.lease /\ Listed(r).revision >= r.revision
         /\ r.cap # Cap("DENIED", "GROUP_INACTIVE") \/ r.state # "ACTIVE"
              => Listed(r).cap # Cap("DENIED", "GROUP_INACTIVE")
<1>1. CASE r.state = "ABSENT"
  <2>1. Listed(r) = [r EXCEPT !.state = "ACTIVE", !.revision = 1]
    BY <1>1 DEF Listed
  <2>2. r.revision = 0 /\ r.cap.status = "UNKNOWN"
    BY <1>1 DEF Absent, Cap
  <2>3. 1 \in Nat
    OBVIOUS
  <2>4. Listed(r) \in Rows
    BY <2>1, <2>3, Zenon DEF Rows
  <2>5. r.cap # Cap("DENIED", "GROUP_INACTIVE")
    BY <2>2 DEF Cap
  <2> QED BY <2>1, <2>2, <2>4, <2>5 DEF Rows
<1>2. CASE r.state = "INACTIVE"
  <2>1. Listed(r) = [r EXCEPT !.state = "ACTIVE", !.cap = Cap("UNKNOWN", "GROUP_CHANGED"),
                              !.invalidated = TRUE, !.revision = @ + 1]
    BY <1>2 DEF Listed
  <2>2. /\ Cap("UNKNOWN", "GROUP_CHANGED") \in Capabilities
        /\ Cap("UNKNOWN", "GROUP_CHANGED") # Cap("DENIED", "GROUP_INACTIVE")
    BY DEF Capabilities, Reasons, Cap
  <2>3. r.revision + 1 \in Nat
    BY DEF Rows
  <2>4. Listed(r) \in Rows
    BY <2>1, <2>2, <2>3, Zenon DEF Rows
  <2> QED BY <2>1, <2>2, <2>4 DEF Rows
<1>3. CASE r.state = "ACTIVE"
  <2>1. Listed(r) = r
    BY <1>3 DEF Listed
  <2> QED BY <1>3, <2>1 DEF Rows
<1> QED BY <1>1, <1>2, <1>3 DEF Rows

\* A drop that changes the state of a listed group moves its revision.
LEMMA DroppedTyped ==
  ASSUME NEW r \in Rows
  PROVE  /\ Dropped(r) \in Rows
         /\ r.state = "ABSENT" => Dropped(r) = r
         /\ r.state # "ABSENT" => Dropped(r).state = "INACTIVE"
         /\ Dropped(r).details = r.details /\ Dropped(r).lease = r.lease
         /\ Dropped(r).revision >= r.revision
         /\ r.state = "ACTIVE" /\ r.cap # Cap("DENIED", "GROUP_INACTIVE")
              => Dropped(r).revision > r.revision
<1>1. CASE r.state = "ABSENT"
  <2>1. Dropped(r) = r
    BY <1>1 DEF Dropped
  <2> QED BY <1>1, <2>1 DEF Rows
<1>2. CASE r.state # "ABSENT" /\ r.cap = Cap("DENIED", "GROUP_INACTIVE")
  <2>1. Dropped(r) = [r EXCEPT !.state = "INACTIVE"]
    BY <1>2 DEF Dropped
  <2> QED BY <1>2, <2>1 DEF Rows
<1>3. CASE r.state # "ABSENT" /\ r.cap # Cap("DENIED", "GROUP_INACTIVE")
  <2>1. Dropped(r) = [r EXCEPT !.state = "INACTIVE", !.cap = Cap("DENIED", "GROUP_INACTIVE"),
                               !.invalidated = FALSE, !.revision = @ + 1]
    BY <1>3 DEF Dropped
  <2>2. Cap("DENIED", "GROUP_INACTIVE") \in Capabilities
    BY DEF Capabilities, Reasons, Cap
  <2>3. r.revision + 1 \in Nat
    BY DEF Rows
  <2>4. Dropped(r) \in Rows
    BY <2>1, <2>2, <2>3, Zenon DEF Rows
  <2> QED BY <1>3, <2>1, <2>4 DEF Rows
<1> QED BY <1>1, <1>2, <1>3

\* Giving a refresh up ends its lease and leaves state, details and revision alone.
LEMMA UnrefreshedTyped ==
  ASSUME NEW r \in Rows, NEW final \in BOOLEAN
  PROVE  /\ Unrefreshed(r, final) \in Rows
         /\ Unrefreshed(r, final).state = r.state
         /\ Unrefreshed(r, final).details = r.details
         /\ Unrefreshed(r, final).revision = r.revision
         /\ Unrefreshed(r, final).lease = Free
         /\ Unrefreshed(r, final).cap # Cap("DENIED", "GROUP_INACTIVE")
  BY DEF Unrefreshed, Rows, Cap, Capabilities, Reasons, Leases

\* schedule: one more request, and a running attempt goes on.
LEMMA ScheduledTyped ==
  ASSUME NEW i \in Intents
  PROVE  /\ Scheduled(i) \in Intents
         /\ Scheduled(i).requested = i.requested + 1
         /\ Scheduled(i).claimed = i.claimed /\ Scheduled(i).lease = i.lease
         /\ Scheduled(i).status = IF i.status = "RUNNING" THEN "RUNNING" ELSE "PENDING"
<1>1. i.requested + 1 \in Nat /\ 0 \in 0 .. IntentAttempts
  BY DEF Intents
<1>2. Scheduled(i) \in Intents
  BY <1>1, Zenon DEF Scheduled, Intents
<1> QED BY <1>2 DEF Scheduled, Intents

\* complete and skipMissing.
LEMMA CompletedTyped ==
  ASSUME NEW i \in Intents, NEW missing \in BOOLEAN
  PROVE  /\ Completed(i, missing) \in Intents
         /\ Completed(i, missing).requested = i.requested
         /\ Completed(i, missing).claimed = 0 /\ Completed(i, missing).lease = Free
         /\ Completed(i, missing).missing = missing
         /\ Completed(i, missing).status =
              IF i.requested > i.claimed THEN "PENDING" ELSE "COMPLETED"
<1>1. 0 \in Nat /\ 0 \in 0 .. IntentAttempts /\ Free \in Leases
  BY DEF Leases
<1>2. Completed(i, missing) \in Intents
  BY <1>1, Zenon DEF Completed, Intents
<1> QED BY <1>2 DEF Completed, Intents

\* fail: an intent is due again or FAILED, and nobody owns it.
LEMMA FailedTyped ==
  ASSUME NEW i \in Intents, NEW retryable \in BOOLEAN
  PROVE  /\ Failed(i, retryable) \in Intents
         /\ Failed(i, retryable).requested = i.requested
         /\ Failed(i, retryable).claimed = 0 /\ Failed(i, retryable).lease = Free
         /\ Failed(i, retryable).status \in {"PENDING", "RETRY", "FAILED"}
<1> DEFINE status == CASE i.requested > i.claimed -> "PENDING"
                       [] i.requested <= i.claimed /\ retryable /\ i.attempts < IntentAttempts
                            -> "RETRY"
                       [] OTHER -> "FAILED"
<1>1. 0 \in Nat /\ 0 \in 0 .. IntentAttempts /\ Free \in Leases
  BY DEF Leases
<1>2. status \in {"PENDING", "RETRY", "FAILED"}
  OBVIOUS
<1>3. Failed(i, retryable) =
        [i EXCEPT !.status = status, !.claimed = 0, !.lease = Free,
                  !.attempts = IF status = "PENDING" THEN 0 ELSE i.attempts]
  BY DEF Failed
<1> HIDE DEF status
<1>4. Failed(i, retryable) \in Intents
  BY <1>1, <1>2, <1>3, Zenon DEF Intents
<1> QED BY <1>2, <1>3, <1>4 DEF Intents

\* What recoverExpired makes of a RUNNING intent.
LEMMA RecoveredTyped == \A i \in Intents : RecoveredStatus(i) \in {"PENDING", "RETRY", "FAILED"}
  BY DEF RecoveredStatus

\* A handler moves within its type.
LEMMA HandlerMoves ==
  ASSUME NEW h \in Handlers,
         NEW point \in {"read", "renew", "write", "settle", "record", "attempt"}
  PROVE  [h EXCEPT !.at = point] \in Handlers
  BY Zenon DEF Handlers

\* A handler fails within its type.
LEMMA HandlerFails ==
  ASSUME NEW h \in Handlers, NEW outcome \in {"retryable", "permanent", "missing"}
  PROVE  [h EXCEPT !.at = "failed", !.outcome = outcome] \in Handlers
  BY Zenon DEF Handlers

\* A handler begins within its type.
LEMMA HandlerEnters ==
  ASSUME NEW op \in {"intent", "item", "refresh"}, NEW point \in {"read", "claim"},
         NEW revision \in Nat
  PROVE  [Idle EXCEPT !.op = op, !.at = point, !.revision = revision] \in Handlers
<1>1. Idle \in Handlers
  BY DEF Idle, Handlers
<1> QED BY <1>1, Zenon DEF Handlers
-----------------------------------------------------------------------------
(***************************************************************************)
(* The inductive invariant, part by part.                                  *)
(***************************************************************************)
\* Types: the writes rely on what a handler at that point has read, and discovery on there
\* being no item yet.
LEMMA TypeStep == TypeOK /\ WorkerInv /\ RowInv /\ QueueInv /\ [Next]_vars => TypeOK'
<1> SUFFICES ASSUME TypeOK, WorkerInv, RowInv, QueueInv, [Next]_vars PROVE TypeOK'
  OBVIOUS
<1> USE DEF TypeOK
<1>a. /\ Free \in Leases /\ \A w \in Worker : LeasedBy(w) \in Leases
      /\ Free.token = NoOne /\ \A w \in Worker : LeasedBy(w).token = w
  BY DEF Leases, LeasedBy, Free
<1>b. Idle \in Handlers
  BY DEF Idle, Handlers
<1>c. \A w \in Worker : Released(w) \in Leases
  BY <1>a DEF Released
<1>d. \A w \in Worker : Leave(w) => worker' \in [Worker -> Handlers]
  BY <1>b DEF Leave
<1>e. \A w \in Worker : Goto(w, "read") \/ Goto(w, "write") \/ Goto(w, "settle")
                          \/ Goto(w, "record") \/ Goto(w, "attempt")
        => worker' \in [Worker -> Handlers]
  <2> SUFFICES ASSUME NEW w \in Worker, NEW point \in {"read", "write", "settle", "record", "attempt"},
                      Goto(w, point)
               PROVE  worker' \in [Worker -> Handlers]
    OBVIOUS
  <2>1. [worker[w] EXCEPT !.at = point] \in Handlers
    BY HandlerMoves
  <2>2. worker' = [worker EXCEPT ![w] = [worker[w] EXCEPT !.at = point]]
    BY DEF Goto
  <2> QED BY <2>1, <2>2, Zenon
<1>f. \A w \in Worker, outcome \in {"retryable", "permanent", "missing"} :
        Fails(w, outcome) => worker' \in [Worker -> Handlers]
  <2> SUFFICES ASSUME NEW w \in Worker, NEW outcome \in {"retryable", "permanent", "missing"},
                      Fails(w, outcome)
               PROVE  worker' \in [Worker -> Handlers]
    OBVIOUS
  <2>1. [worker[w] EXCEPT !.at = "failed", !.outcome = outcome] \in Handlers
    BY HandlerFails
  <2>2. worker' = [worker EXCEPT ![w] = [worker[w] EXCEPT !.at = "failed", !.outcome = outcome]]
    BY DEF Fails
  <2> QED BY <2>1, <2>2, Zenon
<1>g. \A w \in Worker, op \in {"intent", "item", "refresh"}, point \in {"read", "claim"},
         revision \in Nat :
        Enter(w, op, point, revision)
          => worker' \in [Worker -> Handlers] /\ pacing' \in Leases
  <2> SUFFICES ASSUME NEW w \in Worker, NEW op \in {"intent", "item", "refresh"},
                      NEW point \in {"read", "claim"}, NEW revision \in Nat,
                      Enter(w, op, point, revision)
               PROVE  worker' \in [Worker -> Handlers] /\ pacing' \in Leases
    OBVIOUS
  <2>1. [Idle EXCEPT !.op = op, !.at = point, !.revision = revision] \in Handlers
    BY HandlerEnters
  <2> QED BY <1>a, <2>1, Zenon DEF Enter
<1>h. Happens => happened' \in 0 .. MaxEvents
  BY DEF Happens
<1>i. \A lease \in Leases : lease.live =>
        lease.token \in Worker /\ [lease EXCEPT !.live = FALSE] \in Leases
                               /\ [lease EXCEPT !.live = FALSE].token = lease.token
  <2> SUFFICES ASSUME NEW lease \in Leases, lease.live
               PROVE  lease.token \in Worker /\ [lease EXCEPT !.live = FALSE] \in Leases
                        /\ [lease EXCEPT !.live = FALSE].token = lease.token
    OBVIOUS
  <2>1. lease \in [token : Worker, live : BOOLEAN]
    BY DEF Leases, Free
  <2>2. [lease EXCEPT !.live = FALSE] \in [token : Worker, live : BOOLEAN]
    BY <2>1, Zenon
  <2> QED BY <2>1, <2>2 DEF Leases
<1>0. CASE UNCHANGED vars
  BY <1>0 DEF vars
<1>1. CASE ChangeUpstream
  BY <1>1 DEF ChangeUpstream
<1>2. CASE GroupEvent
  <2>1. intent' = Scheduled(intent) /\ happened' \in 0 .. MaxEvents /\ asked' = truth
    BY <1>2, <1>h DEF GroupEvent
  <2>2. row' \in Rows
    <3>1. Cap("UNKNOWN", "GROUP_CHANGED") \in Capabilities /\ row.revision + 1 \in Nat
      BY DEF Cap, Capabilities, Reasons, Rows
    <3> QED BY <1>2, <3>1, Zenon DEF GroupEvent, Rows
  <2> QED BY <1>2, <2>1, <2>2, ScheduledTyped DEF GroupEvent
<1>3. CASE Invalidate
  <2>1. Cap("UNKNOWN", "MANUAL_REFRESH") \in Capabilities /\ row.revision + 1 \in Nat
          /\ 0 \in 0 .. RefreshAttempts
    BY DEF Cap, Capabilities, Reasons, Rows
  <2>2. row' \in Rows
    BY <1>3, <1>a, <2>1, Zenon DEF Invalidate, Rows
  <2> QED BY <1>3, <1>h, <2>2 DEF Invalidate
<1>4. CASE BeginDiscovery \/ FailDiscovery
  BY <1>4, <1>h DEF BeginDiscovery, FailDiscovery
<1>5. CASE PublishDiscovery
  <2>1. row' \in Rows
    BY <1>5, ListedTyped, DroppedTyped DEF PublishDiscovery, RowInv
  <2>2. /\ item' \in [status : {"NONE", "PENDING", "RUNNING"}, lease : Leases]
        /\ item'.status # "RUNNING" /\ item'.lease = item.lease
    BY <1>5 DEF PublishDiscovery, QueueInv
  <2> QED BY <1>5, <2>1, <2>2 DEF PublishDiscovery, QueueInv
<1>6. ASSUME NEW w \in Worker, Claims(w) PROVE TypeOK'
  <2>1. CASE ClaimIntent(w)
    <3>1. intent.requested \in Nat /\ intent.attempts + 1 \in 0 .. IntentAttempts
      BY <2>1 DEF ClaimIntent, Intents
    <3>2. intent' \in Intents
      BY <2>1, <1>a, <3>1, Zenon DEF ClaimIntent, Intents
    <3>3. intent'.status = "RUNNING" /\ intent'.lease = LeasedBy(w)
      BY <2>1 DEF ClaimIntent, Intents
    <3> QED BY <2>1, <1>a, <1>g, <3>1, <3>2, <3>3 DEF ClaimIntent
  <2>2. CASE ClaimItem(w)
    BY <2>2, <1>a, <1>g DEF ClaimItem
  <2>3. CASE ReserveRefresh(w)
    BY <2>3, <1>g DEF ReserveRefresh, Rows
  <2> QED BY <1>6, <2>1, <2>2, <2>3 DEF Claims
<1>7. ASSUME NEW w \in Worker, Proceeds(w) PROVE TypeOK'
  <2>1. CASE ClaimRefresh(w)
    <3>1. CASE Refreshable(worker[w].revision)
      <4>1. row.attempts + 1 \in 0 .. RefreshAttempts
        BY <3>1 DEF Refreshable, Rows
      <4>2. row' \in Rows
        <5>1. row' = [row EXCEPT !.attempts = @ + 1, !.lease = LeasedBy(w)]
          BY <2>1, <3>1 DEF ClaimRefresh
        <5> QED BY <1>a, <4>1, <5>1, Zenon DEF Rows
      <4> QED BY <2>1, <1>e, <3>1, <4>2 DEF ClaimRefresh
    <3>2. CASE ~Refreshable(worker[w].revision)
      BY <2>1, <1>c, <1>d, <3>2 DEF ClaimRefresh
    <3> QED BY <3>1, <3>2
  <2>2. CASE Read(w)
    BY SMTT(30), <2>2 DEF Read, Handlers
  <2>3. CASE Renew(w)
    BY <2>3, <1>d, <1>e DEF Renew
  <2>4. CASE Publish(w)
    <3>1. worker[w].seen \in 1 .. MaxVersion
      BY <2>4 DEF Publish, WorkerInv, Consistent, Handlers
    <3>2. CASE MayPublish(w)
      BY <2>4, <1>a, <1>e, <3>1, <3>2, DetailedTyped DEF Publish
    <3>3. CASE ~MayPublish(w)
      BY <2>4, <1>f, <3>3 DEF Publish
    <3> QED BY <3>2, <3>3
  <2>5. CASE PublishRefresh(w)
    <3>1. worker[w].seen \in 1 .. MaxVersion
      BY <2>5 DEF PublishRefresh, WorkerInv, Consistent, Handlers
    <3> QED BY <2>5, <1>e, <3>1, DetailedTyped DEF PublishRefresh
  <2>6. CASE SettleIntent(w)
    <3>1. CASE OwnsIntent(w)
      <4>1. /\ intent' \in Intents /\ intent'.claimed = 0 /\ intent'.lease = Free
            /\ intent'.status # "RUNNING"
        <5>1. CASE worker[w].outcome = "ok"
          <6>1. intent' = Completed(intent, FALSE)
            BY <2>6, <3>1, <5>1 DEF SettleIntent
          <6> QED BY <6>1, CompletedTyped
        <5>2. CASE worker[w].outcome = "missing"
          <6>1. intent' = Completed(intent, TRUE)
            BY <2>6, <3>1, <5>2 DEF SettleIntent
          <6> QED BY <6>1, CompletedTyped
        <5>3. CASE worker[w].outcome \notin {"ok", "missing"}
          <6>1. intent' = Failed(intent, worker[w].outcome = "retryable")
            BY <2>6, <3>1, <5>3 DEF SettleIntent
          <6> QED BY <6>1, FailedTyped
        <5> QED BY <5>1, <5>2, <5>3
      <4> QED BY <2>6, <1>a, <1>c, <1>d, <3>1, <4>1 DEF SettleIntent
    <3>2. CASE ~OwnsIntent(w)
      BY <2>6, <1>d, <3>2 DEF SettleIntent
    <3> QED BY <3>1, <3>2
  <2>7. CASE SettleItem(w)
    BY <2>7, <1>a, <1>c, <1>d DEF SettleItem
  <2>8. CASE RecordRefresh(w)
    BY <2>8, <1>c, <1>d, <1>e DEF RecordRefresh
  <2>9. CASE FailRefresh(w)
    BY <2>9, <1>d, UnrefreshedTyped DEF FailRefresh, Exhausted
  <2> QED BY <1>7, <2>1, <2>2, <2>3, <2>4, <2>5, <2>6, <2>7, <2>8, <2>9 DEF Proceeds
<1>8. ASSUME NEW w \in Worker, ReadFails(w) \/ StatementThrows(w) \/ Crash(w) PROVE TypeOK'
  BY <1>8, <1>d, <1>f, <1>h DEF ReadFails, StatementThrows, Crash
<1>9. CASE Expiries
  <2> PICK abandoned \in BOOLEAN : ExpirePacing(abandoned) \/ ExpireIntent(abandoned)
                                   \/ ExpireItem(abandoned) \/ ExpireRefresh(abandoned)
    BY <1>9 DEF Expiries
  <2>1. CASE ExpirePacing(abandoned)
    BY <2>1, <1>h, <1>i DEF ExpirePacing, Expires
  <2>2. CASE ExpireIntent(abandoned)
    <3>1. /\ intent.lease.live /\ intent' = [intent EXCEPT !.lease = [@ EXCEPT !.live = FALSE]]
          /\ happened' \in 0 .. MaxEvents
      BY <2>2, <1>h DEF ExpireIntent, Expires, Intents
    <3>2. intent' \in Intents /\ intent'.status = intent.status
            /\ intent'.claimed = intent.claimed /\ intent'.lease.token = intent.lease.token
      BY <3>1, <1>i DEF Intents
    <3> QED BY <2>2, <3>1, <3>2 DEF ExpireIntent
  <2>3. CASE ExpireItem(abandoned)
    BY <2>3, <1>h, <1>i DEF ExpireItem, Expires
  <2>4. CASE ExpireRefresh(abandoned)
    BY <2>4, <1>h, <1>i DEF ExpireRefresh, Expires, Rows
  <2> QED BY <2>1, <2>2, <2>3, <2>4
<1>10. CASE Recovery
  <2>1. CASE RecoverIntents
    <3>1. 0 \in Nat /\ 0 \in 0 .. IntentAttempts
      OBVIOUS
    <3>2. RecoveredStatus(intent) \in {"PENDING", "RETRY", "FAILED"}
      BY RecoveredTyped
    <3>3. intent' \in Intents
      BY <2>1, <1>a, <3>1, <3>2, Zenon DEF RecoverIntents, Intents
    <3>4. intent'.claimed = 0 /\ intent'.lease = Free /\ intent'.status # "RUNNING"
      BY <2>1, <3>2 DEF RecoverIntents, Intents
    <3> QED BY <2>1, <1>a, <3>3, <3>4 DEF RecoverIntents
  <2>2. CASE RecoverItems
    BY <2>2, <1>a DEF RecoverItems
  <2>3. CASE RecoverRefreshes
    <3>1. row' = Unrefreshed(row, Exhausted(row)) /\ Exhausted(row) \in BOOLEAN
      BY <2>3 DEF RecoverRefreshes, Exhausted
    <3> QED BY <2>3, <3>1, UnrefreshedTyped DEF RecoverRefreshes
  <2> QED BY <1>10, <2>1, <2>2, <2>3 DEF Recovery
<1> QED BY <1>0, <1>1, <1>2, <1>3, <1>4, <1>5, <1>6, <1>7, <1>8, <1>9, <1>10 DEF Next

\* What the helpers of the handlers do to the other fields, and that they do nothing to
\* the other handlers.
LEMMA MoveFields ==
  ASSUME worker \in [Worker -> Handlers], NEW w \in Worker
  PROVE  /\ \A point : Goto(w, point) =>
              /\ \A v \in Worker \ {w} : worker'[v] = worker[v]
              /\ worker'[w].at = point /\ worker'[w].op = worker[w].op
              /\ worker'[w].seen = worker[w].seen /\ worker'[w].revision = worker[w].revision
              /\ worker'[w].outcome = worker[w].outcome
         /\ \A outcome : Fails(w, outcome) =>
              /\ \A v \in Worker \ {w} : worker'[v] = worker[v]
              /\ worker'[w].at = "failed" /\ worker'[w].op = worker[w].op
              /\ worker'[w].seen = worker[w].seen /\ worker'[w].revision = worker[w].revision
              /\ worker'[w].outcome = outcome
         /\ Leave(w) => (\A v \in Worker \ {w} : worker'[v] = worker[v]) /\ worker'[w] = Idle
         /\ \A op, point, revision : Enter(w, op, point, revision) =>
              /\ \A v \in Worker \ {w} : worker'[v] = worker[v]
              /\ worker[w].op = "idle" /\ pacing' = LeasedBy(w)
              /\ worker'[w].at = point /\ worker'[w].op = op
              /\ worker'[w].seen = 0 /\ worker'[w].revision = revision
              /\ worker'[w].outcome = "ok"
<1>1. ASSUME NEW point, Goto(w, point)
      PROVE  /\ \A v \in Worker \ {w} : worker'[v] = worker[v]
             /\ worker'[w].at = point /\ worker'[w].op = worker[w].op
             /\ worker'[w].seen = worker[w].seen /\ worker'[w].revision = worker[w].revision
             /\ worker'[w].outcome = worker[w].outcome
  BY <1>1 DEF Goto, Handlers
<1>2. ASSUME NEW outcome, Fails(w, outcome)
      PROVE  /\ \A v \in Worker \ {w} : worker'[v] = worker[v]
             /\ worker'[w].at = "failed" /\ worker'[w].op = worker[w].op
             /\ worker'[w].seen = worker[w].seen /\ worker'[w].revision = worker[w].revision
             /\ worker'[w].outcome = outcome
  BY <1>2 DEF Fails, Handlers
<1>3. Leave(w) => (\A v \in Worker \ {w} : worker'[v] = worker[v]) /\ worker'[w] = Idle
  BY DEF Leave
<1>4. ASSUME NEW op, NEW point, NEW revision, Enter(w, op, point, revision)
      PROVE  /\ \A v \in Worker \ {w} : worker'[v] = worker[v]
             /\ worker[w].op = "idle" /\ pacing' = LeasedBy(w)
             /\ worker'[w].at = point /\ worker'[w].op = op
             /\ worker'[w].seen = 0 /\ worker'[w].revision = revision
             /\ worker'[w].outcome = "ok"
  <2>1. Idle \in Handlers /\ Idle.seen = 0 /\ Idle.outcome = "ok"
    BY DEF Idle, Handlers
  <2> QED BY <1>4, <2>1 DEF Enter, Handlers
<1> QED BY <1>1, <1>2, <1>3, <1>4, Zenon

\* What a handler knows at its points follows from the order of its steps.
LEMMA WorkerStep == TypeOK /\ WorkerInv /\ [Next]_vars => WorkerInv'
<1> SUFFICES ASSUME TypeOK, WorkerInv, [Next]_vars, NEW v \in Worker PROVE Consistent(v)'
  BY DEF WorkerInv
<1>a. Consistent(v) /\ worker[v] \in Handlers /\ worker \in [Worker -> Handlers]
        /\ truth \in 1 .. MaxVersion
  BY DEF WorkerInv, TypeOK
<1>b. Idle.op = "idle" /\ Idle.at = "idle" /\ Idle.seen = 0 /\ Idle.outcome = "ok"
  BY DEF Idle
<1> USE DEF Consistent
<1>0. CASE UNCHANGED <<truth, worker>>
  BY <1>0, <1>a
<1>1. CASE ChangeUpstream
  BY <1>1, <1>a DEF ChangeUpstream, Handlers
<1>2. ASSUME NEW w \in Worker, Claims(w) PROVE Consistent(v)'
  <2>1. /\ truth' = truth
        /\ \E revision : \/ Enter(w, "intent", "read", revision) \/ Enter(w, "item", "read", revision)
                         \/ Enter(w, "refresh", "claim", revision)
    BY <1>2 DEF Claims, ClaimIntent, ClaimItem, ReserveRefresh
  <2> QED BY <1>a, <2>1, MoveFields
<1>3. ASSUME NEW w \in Worker, Proceeds(w) PROVE Consistent(v)'
  <2>0. Consistent(w) /\ worker[w] \in Handlers
    BY DEF WorkerInv, TypeOK
  <2>1. CASE ClaimRefresh(w)
    BY <2>1, <1>a, <1>b, <2>0, MoveFields DEF ClaimRefresh
  <2>2. CASE Read(w)
    BY <2>2, <1>a, <2>0 DEF Read, Handlers
  <2>3. CASE Renew(w)
    BY <2>3, <1>a, <1>b, <2>0, MoveFields DEF Renew
  <2>4. CASE Publish(w)
    BY <2>4, <1>a, <2>0, MoveFields DEF Publish
  <2>5. CASE PublishRefresh(w)
    BY <2>5, <1>a, <2>0, MoveFields DEF PublishRefresh
  <2>6. CASE SettleIntent(w) \/ SettleItem(w)
    <3>1. Leave(w) /\ truth' = truth
      BY <2>6 DEF SettleIntent, SettleItem
    <3> QED BY <1>a, <1>b, <3>1, MoveFields
  <2>7. CASE RecordRefresh(w)
    BY <2>7, <1>a, <1>b, <2>0, MoveFields DEF RecordRefresh
  <2>8. CASE FailRefresh(w)
    BY <2>8, <1>a, <1>b, <2>0, MoveFields DEF FailRefresh
  <2> QED BY <1>3, <2>1, <2>2, <2>3, <2>4, <2>5, <2>6, <2>7, <2>8 DEF Proceeds
<1>4. ASSUME NEW w \in Worker, ReadFails(w) \/ StatementThrows(w) \/ Crash(w)
      PROVE  Consistent(v)'
  <2>0. Consistent(w) /\ worker[w] \in Handlers
    BY DEF WorkerInv, TypeOK
  <2> QED BY <1>4, <1>a, <1>b, <2>0, MoveFields DEF ReadFails, StatementThrows, Crash
<1>5. CASE GroupEvent \/ Invalidate \/ BeginDiscovery \/ PublishDiscovery \/ FailDiscovery
             \/ Expiries \/ Recovery
  BY <1>0, <1>5 DEF GroupEvent, Invalidate, BeginDiscovery, PublishDiscovery, FailDiscovery,
     Expiries, ExpirePacing, ExpireIntent, ExpireItem, ExpireRefresh,
     Recovery, RecoverIntents, RecoverItems, RecoverRefreshes
<1> QED BY <1>0, <1>1, <1>2, <1>3, <1>4, <1>5 DEF Next, vars

\* An intent is claimed at the revision that is requested, and discovery begins without items.
LEMMA QueueStep == TypeOK /\ QueueInv /\ [Next]_vars => QueueInv'
<1> SUFFICES ASSUME TypeOK, QueueInv, [Next]_vars PROVE QueueInv'
  OBVIOUS
<1> USE DEF QueueInv, TypeOK
<1>a. intent \in Intents /\ intent.requested \in Nat /\ intent.claimed \in Nat
  BY DEF Intents
<1>b. CASE UNCHANGED <<intent, item, discovering>>
  BY <1>b
<1>1. CASE GroupEvent
  BY <1>1, <1>a, ScheduledTyped DEF GroupEvent
<1>2. CASE BeginDiscovery \/ PublishDiscovery \/ FailDiscovery
  BY <1>2 DEF BeginDiscovery, PublishDiscovery, FailDiscovery
<1>3. ASSUME NEW w \in Worker, ClaimIntent(w) \/ ClaimItem(w) \/ SettleIntent(w) \/ SettleItem(w)
      PROVE  QueueInv'
  <2>1. CASE ClaimIntent(w)
    BY <2>1, <1>a DEF ClaimIntent, Intents
  <2>2. CASE ClaimItem(w)
    BY <2>2, <1>a DEF ClaimItem
  <2>3. CASE SettleIntent(w)
    <3>1. intent' = intent \/ (intent'.claimed = 0 /\ intent'.requested = intent.requested)
      <4>1. CASE intent' = Completed(intent, FALSE) \/ intent' = Completed(intent, TRUE)
        BY ZenonT(30), <4>1, <1>a, CompletedTyped
      <4>2. CASE intent' = Failed(intent, worker[w].outcome = "retryable")
        BY <4>2, <1>a, FailedTyped
      <4> QED BY <2>3, <4>1, <4>2, Zenon DEF SettleIntent
    <3> QED BY <2>3, <3>1, <1>a DEF SettleIntent
  <2>4. CASE SettleItem(w)
    <3>1. UNCHANGED <<intent, discovering>> /\ (item' = item \/ item.lease = LeasedBy(w))
      BY <2>4 DEF SettleItem
    <3>2. item.lease = LeasedBy(w) => item.status = "RUNNING"
      BY DEF LeasedBy
    <3> QED BY <3>1, <3>2
  <2> QED BY <1>3, <2>1, <2>2, <2>3, <2>4
<1>4. CASE Expiries
  BY SMTT(30), <1>4, <1>a DEF Expiries, ExpirePacing, ExpireIntent, ExpireItem, ExpireRefresh, Intents
<1>5. CASE RecoverIntents
  BY <1>5, <1>a DEF RecoverIntents, Intents
<1>6. CASE RecoverItems
  BY <1>6 DEF RecoverItems
<1>7. CASE ChangeUpstream \/ Invalidate \/ RecoverRefreshes
  BY <1>7, <1>b DEF ChangeUpstream, Invalidate, RecoverRefreshes
<1>8. ASSUME NEW w \in Worker,
             \/ ReserveRefresh(w) \/ ClaimRefresh(w) \/ Read(w) \/ Renew(w) \/ Publish(w)
             \/ PublishRefresh(w) \/ RecordRefresh(w) \/ FailRefresh(w)
             \/ ReadFails(w) \/ StatementThrows(w) \/ Crash(w)
      PROVE  QueueInv'
  BY <1>8, <1>b DEF ReserveRefresh, ClaimRefresh, Read, Renew, Publish, PublishRefresh,
     RecordRefresh, FailRefresh, ReadFails, StatementThrows, Crash
<1> QED BY <1>b, <1>1, <1>2, <1>3, <1>4, <1>5, <1>6, <1>7, <1>8
        DEF Next, vars, Claims, Proceeds, Recovery

\* What any step may do to the group's row.  Details are replaced only by a fenced write, and
\* only a claim of its own gives a refresh the lease.
Writes(w) ==
  /\ row' = Detailed(row, worker[w].seen) /\ worker[w].at = "write"
  /\ UNCHANGED <<truth, asked, intent, lapsed>>
  /\ \A v \in Worker \ {w} : worker'[v] = worker[v]
  /\ \/ /\ worker[w].op # "refresh" /\ MayPublish(w)
        /\ worker'[w].at = "settle" /\ pacing'.token = w
     \/ /\ worker[w].op = "refresh" /\ MayApply(w)
        /\ worker'[w].at = "record" /\ UNCHANGED pacing

RowMoves ==
  /\ row'.revision >= row.revision
  /\ row.state = "ACTIVE" /\ row'.state # "ACTIVE" => row'.revision > row.revision
  /\ \A v \in Worker : row'.lease = LeasedBy(v) =>
       row.lease = LeasedBy(v) \/ (worker[v].at = "claim" /\ worker'[v].at = "read")
  /\ row'.details = row.details \/ \E w \in Worker : Writes(w)

\* The row's revision and state move forward together, and details come from a reader.
LEMMA RowStep == TypeOK /\ WorkerInv /\ RowInv /\ [Next]_vars => RowInv' /\ RowMoves
<1> SUFFICES ASSUME TypeOK, WorkerInv, RowInv, [Next]_vars PROVE RowInv' /\ RowMoves
  OBVIOUS
<1>a. /\ row \in Rows /\ row.revision \in Nat /\ row.details \in Nat /\ truth \in 1 .. MaxVersion
      /\ row.state \in {"ABSENT", "ACTIVE", "INACTIVE"} /\ row.lease \in Leases
      /\ worker \in [Worker -> Handlers]
  BY DEF TypeOK, Rows
<1>b. /\ row.details <= truth
      /\ row.state = "ABSENT" => row = Absent
      /\ row.state = "ACTIVE" => row.cap # Cap("DENIED", "GROUP_INACTIVE")
  BY DEF RowInv
<1>c. \A w \in Worker : Free # LeasedBy(w)
  BY DEF Free, LeasedBy
<1>d. /\ row.state = "ABSENT" => ~row.invalidated /\ row.lease = Free
      /\ Free.token = NoOne /\ ~Free.live
  <2>1. Absent.lease = Free /\ ~Absent.invalidated
    BY DEF Absent
  <2>2. Free.token = NoOne /\ ~Free.live
    BY DEF Free
  <2> QED BY <1>b, <2>1, <2>2, Zenon
<1> USE DEF RowInv, RowMoves
<1>1. CASE UNCHANGED <<row, truth>>
  BY <1>1, <1>a, <1>b
<1>2. CASE ChangeUpstream
  BY <1>2, <1>a, <1>b DEF ChangeUpstream
<1>3. CASE GroupEvent
  <2>1. Cap("UNKNOWN", "GROUP_CHANGED") # Cap("DENIED", "GROUP_INACTIVE")
    BY DEF Cap
  <2>2. CASE row.state # "ACTIVE"
    BY <1>3, <1>a, <1>b, <2>2 DEF GroupEvent
  <2>3. CASE row.state = "ACTIVE"
    <3>1. row' = [row EXCEPT !.cap = Cap("UNKNOWN", "GROUP_CHANGED"),
                             !.invalidated = TRUE, !.revision = @ + 1]
            /\ truth' = truth
      BY <1>3, <2>3 DEF GroupEvent
    <3>2. row'.state = "ACTIVE" /\ row'.details = row.details /\ row'.lease = row.lease
            /\ row'.revision = row.revision + 1 /\ row'.cap = Cap("UNKNOWN", "GROUP_CHANGED")
      BY <3>1, <1>a, <2>3 DEF Rows
    <3> QED BY <3>1, <3>2, <1>a, <1>b, <2>1
  <2> QED BY <2>2, <2>3
<1>4. CASE Invalidate
  <2>1. Cap("UNKNOWN", "MANUAL_REFRESH") # Cap("DENIED", "GROUP_INACTIVE")
    BY DEF Cap
  <2>2. row' = [row EXCEPT !.cap = Cap("UNKNOWN", "MANUAL_REFRESH"), !.invalidated = TRUE,
                           !.revision = @ + 1, !.attempts = 0, !.lease = Free]
          /\ truth' = truth /\ row.state = "ACTIVE"
    BY <1>4 DEF Invalidate
  <2>3. row'.state = "ACTIVE" /\ row'.details = row.details /\ row'.lease = Free
          /\ row'.revision = row.revision + 1 /\ row'.cap = Cap("UNKNOWN", "MANUAL_REFRESH")
    BY <2>2, <1>a DEF Rows
  <2> QED BY <2>1, <2>2, <2>3, <1>a, <1>b, <1>c
<1>5. CASE PublishDiscovery
  <2>1. truth' = truth /\ (row' = Listed(row) \/ row' = Dropped(row))
    BY <1>5 DEF PublishDiscovery
  <2>2. CASE row' = Listed(row)
    BY <2>1, <2>2, <1>a, <1>b, ListedTyped
  <2>3. CASE row' = Dropped(row)
    BY <2>1, <2>3, <1>a, <1>b, DroppedTyped
  <2> QED BY <2>1, <2>2, <2>3
<1>6. ASSUME NEW w \in Worker, ClaimRefresh(w) PROVE RowInv' /\ RowMoves
  <2>1. truth' = truth /\ worker[w].at = "claim"
    BY <1>6 DEF ClaimRefresh
  <2>2. CASE Refreshable(worker[w].revision)
    <3>1. /\ row' = [row EXCEPT !.attempts = @ + 1, !.lease = LeasedBy(w)]
          /\ row.state = "ACTIVE" /\ worker'[w].at = "read"
      BY <1>6, <2>2, <1>a, MoveFields DEF ClaimRefresh, Refreshable
    <3>2. row'.state = row.state /\ row'.details = row.details /\ row'.lease = LeasedBy(w)
            /\ row'.revision = row.revision /\ row'.cap = row.cap
      BY <3>1, <1>a DEF Rows
    <3>3. \A v \in Worker : LeasedBy(v) = LeasedBy(w) => v = w
      BY DEF LeasedBy
    <3> QED BY <2>1, <3>1, <3>2, <3>3, <1>a, <1>b
  <2>3. CASE ~Refreshable(worker[w].revision)
    BY <1>6, <1>1, <2>1, <2>3 DEF ClaimRefresh
  <2> QED BY <2>2, <2>3
<1>7. ASSUME NEW w \in Worker, Publish(w) PROVE RowInv' /\ RowMoves
  <2>1. worker[w].seen \in 1 .. MaxVersion /\ worker[w].seen <= truth
    BY <1>7, <1>a DEF Publish, WorkerInv, Consistent, Handlers
  <2>2. CASE MayPublish(w)
    <3>1. /\ row' = Detailed(row, worker[w].seen) /\ worker[w].at = "write" /\ truth' = truth
          /\ worker[w].op # "refresh" /\ Goto(w, "settle") /\ pacing' = LeasedBy(w)
          /\ UNCHANGED <<truth, asked, intent, lapsed>>
      BY <1>7, <2>2 DEF Publish
    <3>2. Writes(w)
      BY <3>1, <2>2, <1>a, MoveFields DEF Writes, LeasedBy
    <3> QED BY ZenonT(30), <2>1, <3>1, <3>2, <1>a, <1>c, DetailedTyped
  <2>3. CASE ~MayPublish(w)
    BY <1>7, <1>1, <2>3 DEF Publish
  <2> QED BY <2>2, <2>3
<1>8. ASSUME NEW w \in Worker, PublishRefresh(w) PROVE RowInv' /\ RowMoves
  <2>1. worker[w].seen \in 1 .. MaxVersion /\ worker[w].seen <= truth
    BY <1>8, <1>a DEF PublishRefresh, WorkerInv, Consistent, Handlers
  <2>2. CASE MayApply(w)
    <3>1. /\ row' = Detailed(row, worker[w].seen) /\ worker[w].at = "write" /\ truth' = truth
          /\ worker[w].op = "refresh" /\ Goto(w, "record")
          /\ UNCHANGED <<truth, asked, intent, lapsed, pacing>>
      BY <1>8, <2>2 DEF PublishRefresh
    <3>2. Writes(w)
      BY <3>1, <2>2, <1>a, MoveFields DEF Writes
    <3> QED BY ZenonT(30), <2>1, <3>1, <3>2, <1>a, <1>c, DetailedTyped
  <2>3. CASE ~MayApply(w)
    BY <1>8, <1>1, <2>3 DEF PublishRefresh
  <2> QED BY <2>2, <2>3
<1>9. ASSUME NEW final \in BOOLEAN, row' = Unrefreshed(row, final), truth' = truth,
             row.state # "ABSENT"
      PROVE  RowInv' /\ RowMoves
  BY <1>9, <1>a, <1>b, <1>c, UnrefreshedTyped
<1>10. ASSUME NEW w \in Worker, FailRefresh(w) PROVE RowInv' /\ RowMoves
  <2>1. CASE MayApply(w)
    <3>1. row.state # "ABSENT"
      BY <2>1, <1>c, <1>d DEF MayApply
    <3>2. (worker[w].outcome # "retryable" \/ Exhausted(row)) \in BOOLEAN
      OBVIOUS
    <3>3. /\ row' = Unrefreshed(row, worker[w].outcome # "retryable" \/ Exhausted(row))
          /\ truth' = truth
      BY <1>10, <2>1 DEF FailRefresh
    <3> QED BY <1>9, <3>1, <3>2, <3>3
  <2>2. CASE ~MayApply(w)
    BY <1>10, <1>1, <2>2 DEF FailRefresh
  <2> QED BY <2>1, <2>2
<1>11. CASE RecoverRefreshes
  <2>1. row.state # "ABSENT"
    BY <1>11, <1>d DEF RecoverRefreshes
  <2>2. row' = Unrefreshed(row, Exhausted(row)) /\ Exhausted(row) \in BOOLEAN /\ truth' = truth
    BY <1>11 DEF RecoverRefreshes, Exhausted
  <2> QED BY <1>9, <2>1, <2>2
<1>12. ASSUME NEW abandoned \in BOOLEAN, ExpireRefresh(abandoned) PROVE RowInv' /\ RowMoves
  <2>1. /\ row' = [row EXCEPT !.lease = [@ EXCEPT !.live = FALSE]]
        /\ row.lease.live /\ truth' = truth
    BY <1>12, <1>a DEF ExpireRefresh, Expires, Rows
  <2>2. row'.state = row.state /\ row'.details = row.details /\ row'.revision = row.revision
          /\ row'.cap = row.cap /\ row'.lease = [row.lease EXCEPT !.live = FALSE]
    BY <2>1, <1>a DEF Rows
  <2>3. row.lease \in [token : Worker, live : BOOLEAN]
    BY <2>1, <1>a DEF Leases, Free
  <2>4. \A v \in Worker : row'.lease # LeasedBy(v)
    BY <2>2, <2>3 DEF LeasedBy
  <2>5. row.state # "ABSENT"
    BY <2>1, <1>d
  <2> QED BY <2>1, <2>2, <2>4, <2>5, <1>a, <1>b
<1>13. CASE BeginDiscovery \/ FailDiscovery \/ RecoverIntents \/ RecoverItems
  BY <1>13, <1>1 DEF BeginDiscovery, FailDiscovery, RecoverIntents, RecoverItems
<1>14. ASSUME NEW abandoned \in BOOLEAN,
              ExpirePacing(abandoned) \/ ExpireIntent(abandoned) \/ ExpireItem(abandoned)
       PROVE  RowInv' /\ RowMoves
  BY <1>14, <1>1 DEF ExpirePacing, ExpireIntent, ExpireItem
<1>15. ASSUME NEW w \in Worker,
              \/ Claims(w) \/ Read(w) \/ Renew(w) \/ SettleIntent(w) \/ SettleItem(w)
              \/ RecordRefresh(w) \/ ReadFails(w) \/ StatementThrows(w) \/ Crash(w)
       PROVE  RowInv' /\ RowMoves
  BY <1>15, <1>1 DEF Claims, ClaimIntent, ClaimItem, ReserveRefresh, Read, Renew, SettleIntent,
     SettleItem, RecordRefresh, ReadFails, StatementThrows, Crash
<1> HIDE DEF RowInv, RowMoves
<1> QED BY <1>1, <1>2, <1>3, <1>4, <1>5, <1>6, <1>7, <1>8, <1>10, <1>11, <1>12, <1>13, <1>14, <1>15
        DEF Next, vars, Proceeds, Expiries, Recovery

\* What any step may do to a handler: it begins, reads, ends, or moves on with what it read.
Begins(v) ==
  /\ worker'[v].at \in {"read", "claim"} /\ UNCHANGED row
  /\ worker'[v].op = "refresh" => row.state = "ACTIVE" /\ worker'[v].revision = row.revision
Reads(v) ==
  /\ worker[v].at = "read" /\ worker'[v].seen = truth /\ worker'[v].op = worker[v].op
  /\ worker'[v].revision = worker[v].revision
  /\ worker'[v].at \in {"renew", "write"} /\ (worker'[v].at = "write" <=> worker[v].op = "refresh")
  /\ UNCHANGED <<truth, asked, row, intent, pacing>>
  /\ lapsed' = (lapsed \/ (worker[v].op = "refresh" /\ pacing.token # v))
  /\ \A u \in Worker \ {v} : worker'[u] = worker[u]
MovesOn(v) ==
  /\ worker'[v].op = worker[v].op /\ worker'[v].seen = worker[v].seen
  /\ worker'[v].revision = worker[v].revision
  /\ \/ worker'[v].at \notin {"renew", "write", "settle"}
     \/ worker'[v].at = "settle" /\ Writes(v)
     \/ worker'[v].at = "write" /\ worker[v].at = "renew"

HandlerMovesOnly ==
  \A v \in Worker : \/ worker'[v] = worker[v] \/ worker'[v] = Idle
                    \/ Begins(v) \/ Reads(v) \/ MovesOn(v)

\* Each handler only takes its own steps, in their order.
LEMMA HandlerStep == TypeOK /\ WorkerInv /\ [Next]_vars => HandlerMovesOnly
<1> SUFFICES ASSUME TypeOK, WorkerInv, [Next]_vars, NEW v \in Worker,
                    worker'[v] # worker[v], worker'[v] # Idle
             PROVE  Begins(v) \/ Reads(v) \/ MovesOn(v)
  BY DEF HandlerMovesOnly
<1>a. worker \in [Worker -> Handlers]
  BY DEF TypeOK
<1>1. PICK w \in Worker : Claims(w) \/ Proceeds(w) \/ ReadFails(w) \/ StatementThrows(w) \/ Crash(w)
  BY DEF Next, vars, ChangeUpstream, GroupEvent, Invalidate, BeginDiscovery, PublishDiscovery,
     FailDiscovery, Expiries, ExpirePacing, ExpireIntent, ExpireItem, ExpireRefresh, Recovery,
     RecoverIntents, RecoverItems, RecoverRefreshes
<1>2. CASE Claims(w)
  <2>1. CASE ClaimIntent(w)
    BY <1>a, <2>1, MoveFields DEF ClaimIntent, Begins
  <2>2. CASE ClaimItem(w)
    BY <1>a, <2>2, MoveFields DEF ClaimItem, Begins
  <2>3. CASE ReserveRefresh(w)
    BY <1>a, <2>3, MoveFields DEF ReserveRefresh, NeedsRefresh, Begins
  <2> QED BY <1>2, <2>1, <2>2, <2>3 DEF Claims
<1>3. CASE Proceeds(w)
  <2>1. CASE ClaimRefresh(w)
    <3>1. Goto(w, "read") \/ Leave(w)
      BY <2>1 DEF ClaimRefresh
    <3> QED BY <1>a, <3>1, MoveFields DEF MovesOn
  <2>2. CASE Read(w)
    <3>1. /\ v = w /\ \A u \in Worker \ {v} : worker'[u] = worker[u]
          /\ worker'[v].seen = truth /\ worker'[v].op = worker[v].op
          /\ worker'[v].revision = worker[v].revision
          /\ worker'[v].at = IF worker[v].op = "refresh" THEN "write" ELSE "renew"
      BY <1>a, <2>2 DEF Read, Handlers
    <3>2. lapsed' = (lapsed \/ (worker[v].op = "refresh" /\ pacing.token # v))
      BY <2>2, <3>1, Zenon DEF Read
    <3>3. worker[v].at = "read" /\ UNCHANGED <<truth, asked, row, intent, pacing>>
      BY <2>2, <3>1 DEF Read
    <3> QED BY <3>1, <3>2, <3>3, Zenon DEF Reads
  <2>3. CASE Renew(w)
    <3>1. worker[w].at = "renew" /\ (Goto(w, "write") \/ Leave(w))
      BY <2>3 DEF Renew
    <3> QED BY <1>a, <3>1, MoveFields DEF MovesOn
  <2>4. CASE Publish(w)
    <3>1. CASE MayPublish(w)
      <4>1. /\ row' = Detailed(row, worker[w].seen) /\ worker[w].at = "write"
            /\ worker[w].op # "refresh" /\ Goto(w, "settle") /\ pacing' = LeasedBy(w)
            /\ UNCHANGED <<truth, asked, intent, lapsed>>
        BY <2>4, <3>1 DEF Publish
      <4>2. Writes(w)
        BY <4>1, <3>1, <1>a, MoveFields DEF Writes, LeasedBy
      <4> QED BY <1>a, <4>1, <4>2, MoveFields DEF MovesOn
    <3>2. CASE ~MayPublish(w)
      BY <1>a, <2>4, <3>2, MoveFields DEF Publish, MovesOn
    <3> QED BY <3>1, <3>2
  <2>5. CASE PublishRefresh(w)
    BY <1>a, <2>5, MoveFields DEF PublishRefresh, MovesOn
  <2>6. CASE SettleIntent(w) \/ SettleItem(w)
    <3>1. Leave(w)
      BY <2>6 DEF SettleIntent, SettleItem
    <3> QED BY <1>a, <3>1, MoveFields
  <2>7. CASE RecordRefresh(w) \/ FailRefresh(w)
    <3>1. Leave(w) \/ Goto(w, "attempt")
      BY <2>7 DEF RecordRefresh, FailRefresh
    <3> QED BY <1>a, <3>1, MoveFields DEF MovesOn
  <2> QED BY <1>3, <2>1, <2>2, <2>3, <2>4, <2>5, <2>6, <2>7 DEF Proceeds
<1>4. CASE ReadFails(w) \/ StatementThrows(w) \/ Crash(w)
  <2>1. Leave(w) \/ \E outcome : Fails(w, outcome)
    BY <1>4 DEF ReadFails, StatementThrows, Crash
  <2> QED BY <1>a, <2>1, MoveFields DEF MovesOn
<1> QED BY <1>1, <1>2, <1>3, <1>4

\* Nobody is given the pacing lease but by beginning, and the event that asks again for the
\* group moves the row's revision and the intent's.
PacingMoves ==
  /\ \A v \in Worker : pacing'.token = v =>
       pacing.token = v \/ worker'[v].at \in {"read", "claim"}
  /\ lapsed => lapsed'
AskedMoves ==
  \/ asked' = asked
  \/ /\ intent' = Scheduled(intent) /\ UNCHANGED <<worker, pacing>>
     /\ row.state = "ACTIVE" => row'.revision > row.revision

\* The pacing lease and the last request move only so.
LEMMA PacingStep == TypeOK /\ [Next]_vars => PacingMoves /\ AskedMoves
<1> SUFFICES ASSUME TypeOK, [Next]_vars PROVE PacingMoves /\ AskedMoves
  OBVIOUS
<1>a. worker \in [Worker -> Handlers] /\ pacing \in Leases /\ row \in Rows /\ row.revision \in Nat
  BY DEF TypeOK, Rows
<1>b. \A v \in Worker : Free.token # v /\ LeasedBy(v).token = v
  BY DEF Free, LeasedBy
<1>1. CASE GroupEvent
  <2>1. /\ UNCHANGED <<worker, pacing, lapsed>> /\ intent' = Scheduled(intent)
    BY <1>1 DEF GroupEvent
  <2>2. row.state = "ACTIVE" => row'.revision = row.revision + 1
    BY <1>1, <1>a DEF GroupEvent, Rows
  <2> QED BY <1>a, <2>1, <2>2 DEF PacingMoves, AskedMoves
<1>2. CASE ~GroupEvent
  <2>1. asked' = asked /\ (lapsed => lapsed')
    <3>1. CASE \E w \in Worker : Claims(w)
      BY <3>1 DEF Claims, ClaimIntent, ClaimItem, ReserveRefresh
    <3>2. CASE \E w \in Worker : Proceeds(w)
      <4> PICK w \in Worker : Proceeds(w)
        BY <3>2
      <4>1. CASE Read(w)
        BY <4>1, Zenon DEF Read
      <4>2. CASE ~Read(w)
        <5>1. UNCHANGED <<lapsed, asked>>
          BY <4>2 DEF Proceeds, ClaimRefresh, Renew, Publish, PublishRefresh, SettleIntent,
             SettleItem, RecordRefresh, FailRefresh
        <5> QED BY <5>1, Zenon
      <4> QED BY <4>1, <4>2
    <3>3. CASE Expiries
      BY <3>3 DEF Expiries, ExpirePacing, ExpireIntent, ExpireItem, ExpireRefresh
    <3>4. CASE Recovery
      BY <3>4 DEF Recovery, RecoverIntents, RecoverItems, RecoverRefreshes
    <3>5. CASE \/ ChangeUpstream \/ Invalidate \/ BeginDiscovery \/ PublishDiscovery
               \/ FailDiscovery \/ UNCHANGED vars
               \/ \E w \in Worker : ReadFails(w) \/ StatementThrows(w) \/ Crash(w)
      <4>1. UNCHANGED <<lapsed, asked>>
        BY <3>5 DEF vars, ChangeUpstream, Invalidate, BeginDiscovery, PublishDiscovery,
           FailDiscovery, ReadFails, StatementThrows, Crash
      <4> QED BY <4>1, Zenon
    <3> QED BY <1>2, <3>1, <3>2, <3>3, <3>4, <3>5 DEF Next
  <2>2. \/ pacing' = pacing \/ pacing' = Free \/ pacing'.token = pacing.token
        \/ \E w \in Worker : \E op, revision : Enter(w, op, "read", revision) \/ Enter(w, op, "claim", revision)
    <3>1. CASE \E w \in Worker : Claims(w)
      BY <3>1 DEF Claims, ClaimIntent, ClaimItem, ReserveRefresh
    <3>2. CASE \E w \in Worker : Proceeds(w)
      <4> PICK w \in Worker : Proceeds(w)
        BY <3>2
      <4>1. CASE Publish(w)
        BY <4>1, <1>b DEF Publish, MayPublish
      <4>2. CASE ~Publish(w)
        BY <4>2 DEF Proceeds, ClaimRefresh, Read, Renew, PublishRefresh, SettleIntent, SettleItem,
           RecordRefresh, FailRefresh, Released
      <4> QED BY <4>1, <4>2
    <3>3. CASE Expiries
      BY <3>3, <1>a DEF Expiries, ExpirePacing, ExpireIntent, ExpireItem, ExpireRefresh,
         Leases, Free
    <3>4. CASE Recovery
      BY <3>4 DEF Recovery, RecoverIntents, RecoverItems, RecoverRefreshes
    <3> QED BY <1>2, <3>1, <3>2, <3>3, <3>4 DEF Next, vars, ChangeUpstream, Invalidate,
         BeginDiscovery, PublishDiscovery, FailDiscovery, ReadFails, StatementThrows, Crash
  <2>3. ASSUME NEW w \in Worker, NEW op, NEW revision,
               Enter(w, op, "read", revision) \/ Enter(w, op, "claim", revision)
        PROVE  pacing' = LeasedBy(w) /\ worker'[w].at \in {"read", "claim"}
    BY <2>3, <1>a, MoveFields
  <2> QED BY <1>a, <1>b, <2>1, <2>2, <2>3 DEF PacingMoves, AskedMoves
<1> QED BY <1>1, <1>2

\* A refresh whose revision still stands began on a listed group and read it after the last
\* event: an event, a drop and an invalidation all move the revision.
LEMMA RefreshStep ==
  TypeOK /\ TypeOK' /\ WorkerInv /\ RowMoves /\ HandlerMovesOnly /\ AskedMoves /\ RefreshInv
    => RefreshInv'
<1> SUFFICES ASSUME TypeOK, TypeOK', WorkerInv, RowMoves, HandlerMovesOnly, AskedMoves, RefreshInv,
                    NEW v \in Worker
             PROVE  /\ worker'[v].op = "refresh" => worker'[v].revision <= row'.revision
                    /\ worker'[v].op = "refresh" /\ worker'[v].revision = row'.revision
                         => row'.state = "ACTIVE"
                    /\ Applies(v)' => worker'[v].seen >= asked'
  BY DEF RefreshInv
<1>a. /\ row.revision \in Nat /\ row'.revision \in Nat /\ worker[v].revision \in Nat
      /\ worker'[v].revision \in Nat /\ asked \in Nat /\ truth \in Nat /\ asked <= truth
      /\ worker[v].seen \in Nat /\ worker'[v].seen \in Nat /\ Idle.op = "idle"
  BY DEF TypeOK, Rows, Handlers, Idle
<1>b. /\ worker[v].op = "refresh" => worker[v].revision <= row.revision
      /\ worker[v].op = "refresh" /\ worker[v].revision = row.revision => row.state = "ACTIVE"
      /\ Applies(v) => worker[v].seen >= asked
  BY DEF RefreshInv
<1>c. /\ row'.revision >= row.revision
      /\ row.state = "ACTIVE" /\ row'.state # "ACTIVE" => row'.revision > row.revision
      /\ row'.lease = LeasedBy(v) => row.lease = LeasedBy(v) \/ worker'[v].at = "read"
  BY DEF RowMoves
<1>d. asked' = asked \/ (worker' = worker /\ (row.state = "ACTIVE" => row'.revision > row.revision))
  BY DEF AskedMoves
<1>1. CASE worker'[v] = worker[v]
  BY <1>1, <1>a, <1>b, <1>c, <1>d DEF Applies, MayApply
<1>2. CASE worker'[v] = Idle
  BY <1>2, <1>a DEF Applies
<1>3. CASE Begins(v)
  BY <1>3, <1>a DEF Begins, Applies
<1>4. CASE Reads(v)
  BY <1>4, <1>a, <1>b, <1>c DEF Reads, Applies
<1>5. CASE MovesOn(v)
  <2>1. ~Applies(v)'
    BY <1>5 DEF MovesOn, Applies, WorkerInv, Consistent
  <2> QED BY <1>5, <1>a, <1>b, <1>c, <2>1 DEF MovesOn
<1> QED BY <1>1, <1>2, <1>3, <1>4, <1>5 DEF HandlerMovesOnly

\* Who may write after a step could already write before it, or has just read.
LEMMA ReadersPersist ==
  ASSUME TypeOK, TypeOK', WorkerInv, RowMoves, HandlerMovesOnly, PacingMoves, RefreshInv,
         NEW v \in Worker
  PROVE  /\ Paced(v)' => Reads(v) \/ (Paced(v) /\ worker'[v].seen = worker[v].seen)
         /\ Applies(v)' => Reads(v) \/ (Applies(v) /\ worker'[v].seen = worker[v].seen)
<1>a. /\ row.revision \in Nat /\ row'.revision \in Nat /\ worker[v].revision \in Nat
      /\ Idle.at = "idle" /\ row'.revision >= row.revision
      /\ worker[v].op = "refresh" => worker[v].revision <= row.revision
      /\ row'.lease = LeasedBy(v) => row.lease = LeasedBy(v) \/ worker'[v].at = "read"
      /\ worker[v].at = "renew" => worker[v].op # "refresh"
      /\ pacing'.token = v => pacing.token = v \/ worker'[v].at \in {"read", "claim"}
  BY DEF TypeOK, Rows, Handlers, Idle, RowMoves, RefreshInv, WorkerInv, Consistent, PacingMoves
<1>1. CASE worker'[v] = worker[v]
  BY <1>1, <1>a DEF Applies, Paced, MayApply
<1>2. CASE worker'[v] = Idle \/ Begins(v)
  BY <1>2, <1>a DEF Applies, Paced, Begins
<1>3. CASE MovesOn(v)
  BY <1>3, <1>a DEF Applies, Paced, MovesOn
<1> QED BY <1>1, <1>2, <1>3 DEF HandlerMovesOnly

\* Reads by the holder of the pacing lease come after whatever was written, so a write never
\* goes back.
LEMMA OrderStep ==
  ASSUME TypeOK, TypeOK', WorkerInv, WorkerInv', RowInv, RowMoves, HandlerMovesOnly,
         PacingMoves, RefreshInv, OrderInv
  PROVE  OrderInv'
<1> SUFFICES ASSUME ~lapsed', NEW v \in Worker PROVE Ahead(v)'
  BY DEF OrderInv
<1>a. ~lapsed
  BY Zenon DEF PacingMoves
<1>b. /\ row.details \in Nat /\ truth \in Nat /\ row.details <= truth /\ row'.details \in Nat
  BY DEF TypeOK, RowInv, Rows
<1>f. \A w \in Worker : worker[w].seen \in Nat /\ worker'[w].seen \in Nat
  BY DEF TypeOK, Handlers
<1>c. \A w \in Worker : worker'[w].seen <= truth'
  BY DEF WorkerInv, Consistent
<1>d. \A w \in Worker : Paced(w) \/ Applies(w) => worker[w].seen >= row.details
  BY <1>a DEF OrderInv, Ahead
<1>e. \A w \in Worker : Paced(w) =>
        \A r \in Worker : Applies(r) => worker[w].seen >= worker[r].seen
  BY <1>a DEF OrderInv, Ahead
<1>1. ASSUME Paced(v)' \/ Applies(v)' PROVE worker'[v].seen >= row'.details
  <2>1. CASE \E w \in Worker : Writes(w)
    <3> PICK w \in Worker : Writes(w)
      BY <2>1
    <3>1. worker[w].seen \in 1 .. MaxVersion /\ row \in Rows
      BY DEF Writes, WorkerInv, Consistent, TypeOK, Handlers
    <3>2. row'.details = worker[w].seen /\ row'.lease = Free
      BY <3>1, DetailedTyped DEF Writes
    <3>3. ~Applies(v)'
      BY <3>2 DEF Applies, MayApply, Free, LeasedBy
    <3>4. v # w /\ worker'[v] = worker[v]
      BY <1>1, <3>3 DEF Writes, Paced
    <3>5. ~Reads(v)
      BY <3>4 DEF Reads
    <3>6. Paced(v)
      BY <1>1, <3>3, <3>5, ReadersPersist
    <3>7. worker[w].op = "refresh" /\ MayApply(w)
      BY <3>4, <3>6 DEF Writes, MayPublish, Paced
    <3>8. Applies(w)
      BY <3>7 DEF Writes, Applies
    <3> QED BY <1>e, <3>2, <3>4, <3>6, <3>8
  <2>2. CASE row'.details = row.details
    <3>1. CASE Reads(v)
      BY <2>2, <3>1, <1>b DEF Reads
    <3>2. CASE (Paced(v) \/ Applies(v)) /\ worker'[v].seen = worker[v].seen
      BY <2>2, <3>2, <1>d
    <3> QED BY <1>1, <3>1, <3>2, ReadersPersist
  <2> QED BY <2>1, <2>2 DEF RowMoves
<1>2. ASSUME Paced(v)', NEW r \in Worker, Applies(r)' PROVE worker'[v].seen >= worker'[r].seen
  <2>0. v # r
    BY <1>2 DEF Paced, Applies
  <2>1. CASE Reads(v)
    BY <2>1, <1>b, <1>c, <1>f DEF Reads
  <2>2. CASE Paced(v) /\ worker'[v].seen = worker[v].seen /\ Reads(r)
    <3>1. worker[r].op = "refresh"
      BY <1>2, <2>2 DEF Reads, Applies
    <3>2. pacing.token = r
      BY <2>2, <3>1, Zenon DEF Reads
    <3> QED BY <2>0, <2>2, <3>2 DEF Paced
  <2>3. CASE Paced(v) /\ worker'[v].seen = worker[v].seen
               /\ Applies(r) /\ worker'[r].seen = worker[r].seen
    BY <2>3, <1>e
  <2> QED BY <1>2, <2>1, <2>2, <2>3, ReadersPersist
<1> QED BY <1>1, <1>2 DEF Ahead

\* What any step may do to the intent.  It is up to date only since its claim, or still; only
\* its claim gives it an owner; and it is completed by the attempt that owns it.
IntentMoves ==
  /\ UpToDate' => \/ UpToDate /\ asked' = asked
                  \/ \E w \in Worker : /\ pacing'.token = w /\ intent'.lease = LeasedBy(w)
                                       /\ worker'[w].at = "read" /\ intent'.status = "RUNNING"
  /\ \A v \in Worker : intent'.lease = LeasedBy(v) =>
       \/ intent.lease = LeasedBy(v) /\ intent'.claimed = intent.claimed
       \/ worker'[v].at = "read"
  /\ intent'.status = "COMPLETED" /\ ~intent'.missing =>
       \/ intent.status = "COMPLETED" /\ ~intent.missing /\ asked' = asked
       \/ /\ UpToDate /\ UNCHANGED <<asked, row>>
          /\ \E w \in Worker : OwnsIntent(w) /\ worker[w].op = "intent" /\ worker[w].at = "settle"

\* The intent moves only so.
LEMMA IntentStep == TypeOK /\ WorkerInv /\ QueueInv /\ [Next]_vars => IntentMoves
<1> SUFFICES ASSUME TypeOK, WorkerInv, QueueInv, [Next]_vars PROVE IntentMoves
  OBVIOUS
<1>a. /\ intent \in Intents /\ intent.requested \in Nat /\ intent.claimed \in Nat
      /\ intent.claimed <= intent.requested /\ worker \in [Worker -> Handlers]
      /\ intent.lease \in Leases
  BY DEF TypeOK, Intents, QueueInv
<1>b. /\ \A v \in Worker : Free # LeasedBy(v) /\ LeasedBy(v).token = v /\ LeasedBy(v).live
      /\ \A v, w \in Worker : LeasedBy(v) = LeasedBy(w) => v = w
      /\ ~Free.live
  BY DEF Free, LeasedBy
<1>1. CASE UNCHANGED <<intent, asked>>
  BY <1>1, <1>a DEF IntentMoves, UpToDate
<1>2. CASE GroupEvent
  <2>1. intent' = Scheduled(intent)
    BY <1>2 DEF GroupEvent
  <2>2. /\ intent'.status = (IF intent.status = "RUNNING" THEN "RUNNING" ELSE "PENDING")
        /\ intent'.claimed = intent.claimed /\ intent'.requested = intent.requested + 1
        /\ intent'.lease = intent.lease
    BY <2>1, <1>a, ScheduledTyped
  <2> QED BY <2>2, <1>a DEF IntentMoves, UpToDate
<1>3. ASSUME NEW w \in Worker, ClaimIntent(w) PROVE IntentMoves
  <2>1. intent'.status = "RUNNING" /\ intent'.lease = LeasedBy(w)
    BY <1>3, <1>a DEF ClaimIntent, Intents
  <2>2. pacing' = LeasedBy(w) /\ worker'[w].at = "read"
    BY <1>3, <1>a, MoveFields DEF ClaimIntent
  <2> QED BY <1>b, <2>1, <2>2 DEF IntentMoves
<1>4. ASSUME NEW w \in Worker, SettleIntent(w) PROVE IntentMoves
  <2>1. UNCHANGED <<asked, row>> /\ worker[w].op = "intent" /\ worker[w].at \in {"settle", "failed"}
    BY <1>4 DEF SettleIntent
  <2>2. CASE ~OwnsIntent(w)
    BY <1>1, <1>4, <2>1, <2>2 DEF SettleIntent
  <2>3. CASE OwnsIntent(w)
    <3>0. intent.status = "RUNNING"
      BY <2>3, <1>b DEF OwnsIntent, TypeOK
    <3>1. CASE worker[w].outcome = "ok"
      <4>1. intent' = Completed(intent, FALSE)
        BY <1>4, <2>3, <3>1 DEF SettleIntent
      <4>2. intent'.lease = Free
              /\ intent'.status = IF intent.requested > intent.claimed THEN "PENDING" ELSE "COMPLETED"
        BY <4>1, <1>a, CompletedTyped
      <4>3. worker[w].at = "settle"
        BY <2>1, <3>1 DEF WorkerInv, Consistent
      <4>4. UpToDate' => UpToDate
        BY <4>2, <3>0, <1>a DEF UpToDate
      <4>5. \A v \in Worker : intent'.lease # LeasedBy(v)
        BY <4>2, <1>b
      <4> QED BY <2>1, <2>3, <4>2, <4>3, <4>4, <4>5 DEF IntentMoves, UpToDate
    <3>2. CASE worker[w].outcome = "missing"
      <4>1. intent' = Completed(intent, TRUE)
        BY <1>4, <2>3, <3>2 DEF SettleIntent
      <4>2. /\ intent'.lease = Free /\ intent'.missing
            /\ intent'.status = IF intent.requested > intent.claimed THEN "PENDING" ELSE "COMPLETED"
        BY <4>1, <1>a, CompletedTyped
      <4>3. UpToDate' => UpToDate
        BY <4>2, <3>0, <1>a DEF UpToDate
      <4>4. \A v \in Worker : intent'.lease # LeasedBy(v)
        BY <4>2, <1>b
      <4> QED BY <2>1, <4>2, <4>3, <4>4 DEF IntentMoves
    <3>3. CASE worker[w].outcome \notin {"ok", "missing"}
      <4>1. intent' = Failed(intent, worker[w].outcome = "retryable")
        BY <1>4, <2>3, <3>3 DEF SettleIntent
      <4>2. intent'.lease = Free /\ intent'.status \in {"PENDING", "RETRY", "FAILED"}
        BY <4>1, <1>a, FailedTyped
      <4>3. \A v \in Worker : intent'.lease # LeasedBy(v)
        BY <4>2, <1>b
      <4> QED BY <4>2, <4>3 DEF IntentMoves, UpToDate
    <3> QED BY <3>1, <3>2, <3>3
  <2> QED BY <2>2, <2>3
<1>5. ASSUME NEW abandoned \in BOOLEAN, ExpireIntent(abandoned) PROVE IntentMoves
  <2>1. /\ intent' = [intent EXCEPT !.lease = [@ EXCEPT !.live = FALSE]]
        /\ intent.lease.live /\ asked' = asked
    BY <1>5, <1>a DEF ExpireIntent, Expires, Intents
  <2>2. /\ intent'.status = intent.status /\ intent'.missing = intent.missing
        /\ intent'.claimed = intent.claimed /\ intent'.requested = intent.requested
        /\ intent'.lease = [intent.lease EXCEPT !.live = FALSE]
    BY <2>1, <1>a DEF Intents
  <2>3. intent.lease \in [token : Worker, live : BOOLEAN]
    BY <2>1, <1>a DEF Leases, Free
  <2>4. \A v \in Worker : intent'.lease # LeasedBy(v)
    BY <2>2, <2>3 DEF LeasedBy
  <2> QED BY <2>1, <2>2, <2>4 DEF IntentMoves, UpToDate
<1>6. CASE RecoverIntents
  <2>1. RecoveredStatus(intent) \in {"PENDING", "RETRY", "FAILED"}
    BY <1>a, RecoveredTyped
  <2>2. intent'.lease = Free /\ intent'.status \in {"PENDING", "RETRY", "FAILED"}
    BY <1>6, <2>1, <1>a DEF RecoverIntents, Intents
  <2>3. \A v \in Worker : intent'.lease # LeasedBy(v)
    BY <2>2, <1>b
  <2> QED BY <2>2, <2>3 DEF IntentMoves, UpToDate
<1>7. CASE \/ ChangeUpstream \/ Invalidate \/ BeginDiscovery \/ PublishDiscovery \/ FailDiscovery
           \/ RecoverItems \/ RecoverRefreshes
  BY <1>1, <1>7 DEF ChangeUpstream, Invalidate, BeginDiscovery, PublishDiscovery, FailDiscovery,
     RecoverItems, RecoverRefreshes
<1>8. ASSUME NEW abandoned \in BOOLEAN,
             ExpirePacing(abandoned) \/ ExpireItem(abandoned) \/ ExpireRefresh(abandoned)
      PROVE  IntentMoves
  BY <1>1, <1>8 DEF ExpirePacing, ExpireItem, ExpireRefresh
<1>9. ASSUME NEW w \in Worker,
             \/ ClaimItem(w) \/ ReserveRefresh(w) \/ ClaimRefresh(w) \/ Read(w) \/ Renew(w)
             \/ Publish(w) \/ PublishRefresh(w) \/ SettleItem(w) \/ RecordRefresh(w)
             \/ FailRefresh(w) \/ ReadFails(w) \/ StatementThrows(w) \/ Crash(w)
      PROVE  IntentMoves
  BY <1>1, <1>9 DEF ClaimItem, ReserveRefresh, ClaimRefresh, Read, Renew, Publish, PublishRefresh,
     SettleItem, RecordRefresh, FailRefresh, ReadFails, StatementThrows, Crash
<1> QED BY <1>1, <1>2, <1>3, <1>4, <1>5, <1>6, <1>7, <1>8, <1>9
        DEF Next, vars, Claims, Proceeds, Expiries, Recovery

\* While no event has come since the claim, no write stores less than the last event asked for.
LEMMA WritesFresh ==
  ASSUME TypeOK, WorkerInv, RefreshInv, FreshInv, UpToDate, NEW w \in Worker, Writes(w)
  PROVE  row'.details >= asked
<1>1. worker[w].seen \in 1 .. MaxVersion /\ row \in Rows
  BY DEF Writes, WorkerInv, Consistent, TypeOK, Handlers
<1>2. row'.details = worker[w].seen
  BY <1>1, DetailedTyped DEF Writes
<1>3. CASE worker[w].op # "refresh"
  BY <1>2, <1>3 DEF Writes, MayPublish, FreshInv, Paced
<1>4. CASE worker[w].op = "refresh"
  BY <1>2, <1>4 DEF Writes, RefreshInv, Applies
<1> QED BY <1>3, <1>4

\* The attempt that completes an intent wrote what it read after the last event, or somebody
\* who read after that did.
LEMMA FreshStep ==
  ASSUME TypeOK, TypeOK', WorkerInv, RowMoves, HandlerMovesOnly, PacingMoves, IntentMoves,
         RefreshInv, FreshInv
  PROVE  FreshInv'
<1>a. asked \in Nat /\ truth \in Nat /\ asked <= truth /\ row.details \in Nat /\ Idle.at = "idle"
  BY DEF TypeOK, Rows, Idle
<1>b. ASSUME UpToDate, row.details >= asked PROVE row'.details >= asked
  BY <1>b, WritesFresh DEF RowMoves
<1>1. ASSUME UpToDate', NEW v \in Worker, Paced(v)' PROVE worker'[v].seen >= asked'
  <2>1. CASE Reads(v)
    BY <2>1, <1>a DEF Reads
  <2>2. CASE Paced(v) /\ worker'[v].seen = worker[v].seen
    <3>1. UpToDate /\ asked' = asked
      BY <1>1 DEF IntentMoves, Paced
    <3> QED BY <2>2, <3>1 DEF FreshInv
  <2> QED BY <1>1, <2>1, <2>2, ReadersPersist
<1>2. ASSUME UpToDate', NEW v \in Worker, OwnsIntent(v)', worker'[v].op = "intent",
             worker'[v].at = "settle"
      PROVE  row'.details >= asked'
  <2>0. \A w \in Worker : LeasedBy(w) = LeasedBy(v) => w = v
    BY DEF LeasedBy
  <2>1. UpToDate /\ asked' = asked
    BY <1>2, <2>0 DEF IntentMoves, OwnsIntent
  <2>2. CASE worker'[v] = worker[v]
    <3>1. OwnsIntent(v)
      BY <1>2, <2>2 DEF IntentMoves, OwnsIntent
    <3>2. row.details >= asked
      BY <1>2, <2>1, <2>2, <3>1 DEF FreshInv
    <3> QED BY <1>b, <2>1, <3>2
  <2>3. CASE worker'[v] = Idle \/ Begins(v) \/ Reads(v)
    BY <1>2, <1>a, <2>3 DEF Begins, Reads
  <2>4. CASE MovesOn(v)
    <3>1. Writes(v)
      BY <1>2, <2>4 DEF MovesOn
    <3> QED BY <2>1, <3>1, WritesFresh
  <2> QED BY <2>2, <2>3, <2>4 DEF HandlerMovesOnly
<1>3. ASSUME intent'.status = "COMPLETED", ~intent'.missing PROVE row'.details >= asked'
  <2>1. CASE intent.status = "COMPLETED" /\ ~intent.missing /\ asked' = asked
    BY <1>b, <2>1 DEF FreshInv, UpToDate
  <2>2. CASE /\ UpToDate /\ UNCHANGED <<asked, row>>
             /\ \E w \in Worker : OwnsIntent(w) /\ worker[w].op = "intent" /\ worker[w].at = "settle"
    BY <2>2 DEF FreshInv
  <2> QED BY <1>3, <2>1, <2>2 DEF IntentMoves
<1> QED BY <1>1, <1>2, <1>3 DEF FreshInv
-----------------------------------------------------------------------------
\* The invariant holds of a group that was never heard of, and of one that was read.
LEMMA InitInv == Init => Inv
<1> SUFFICES ASSUME Init PROVE Inv
  OBVIOUS
<1>1. /\ Free \in Leases /\ Free.token = NoOne
      /\ Idle \in Handlers /\ Idle.op = "idle" /\ Idle.at = "idle" /\ Idle.seen = 0
      /\ Idle.outcome = "ok"
  BY DEF Leases, Free, Idle, Handlers
<1>2. /\ Absent \in Rows /\ Absent.details = 0 /\ Absent.state = "ABSENT"
  BY <1>1 DEF Absent, Rows, Cap, Capabilities, Reasons, Tri
<1>3. /\ row \in Rows /\ row.details \in {0, 1}
      /\ row.state = "ABSENT" => row = Absent
      /\ row.state = "ACTIVE" => row.cap # Cap("DENIED", "GROUP_INACTIVE")
  <2>1. CASE row = Absent
    BY <1>2, <2>1
  <2>2. CASE row = Detailed(Absent, 1)
    BY <1>2, <2>2, DetailedTyped
  <2> QED BY <2>1, <2>2 DEF Init
<1>4. /\ intent \in Intents /\ intent.status = "NONE" /\ intent.lease = Free
      /\ intent.claimed = 0 /\ intent.requested = 0
  BY <1>1 DEF Init, Intents
<1>a. truth = 1 /\ asked = 1 /\ worker = [w \in Worker |-> Idle] /\ happened = 0
  BY DEF Init
<1>b. item \in [status : {"NONE", "PENDING", "RUNNING"}, lease : Leases]
        /\ item.status = "NONE" /\ item.lease = Free /\ pacing = Free
  BY <1>1 DEF Init
<1>c. discovering \in BOOLEAN /\ lapsed \in BOOLEAN
  BY Zenon DEF Init
<1>d. 1 \in 1 .. MaxVersion /\ 0 \in 0 .. MaxEvents
  OBVIOUS
<1>5. TypeOK
  BY <1>1, <1>3, <1>4, <1>a, <1>b, <1>c, <1>d DEF TypeOK
<1>6. WorkerInv
  <2> SUFFICES ASSUME NEW w \in Worker PROVE Consistent(w)
    BY DEF WorkerInv
  <2>1. worker[w] = Idle /\ 0 <= truth
    BY <1>a
  <2> QED BY <1>1, <2>1 DEF Consistent
<1>7. RowInv /\ QueueInv
  BY <1>3, <1>4 DEF Init, RowInv, QueueInv
<1>8. RefreshInv /\ FreshInv
  BY <1>1, <1>4 DEF Init, RefreshInv, FreshInv, Applies, Paced, UpToDate
<1>9. OrderInv
  BY <1>1 DEF Init, OrderInv, Ahead, Applies, Paced
<1> QED BY <1>5, <1>6, <1>7, <1>8, <1>9 DEF Inv

\* All parts are preserved together, by steps that move the row, the handlers, the lease and
\* the intent only as described.
LEMMA InvStep ==
  ASSUME Inv, [Next]_vars
  PROVE  Inv' /\ RowMoves /\ HandlerMovesOnly /\ PacingMoves /\ AskedMoves /\ IntentMoves
<1>1. TypeOK /\ WorkerInv /\ RowInv /\ QueueInv /\ RefreshInv /\ OrderInv /\ FreshInv
  BY DEF Inv
<1>2. TypeOK' /\ WorkerInv' /\ QueueInv' /\ RowInv' /\ RowMoves
  BY <1>1, TypeStep, WorkerStep, QueueStep, RowStep
<1>3. HandlerMovesOnly /\ PacingMoves /\ AskedMoves /\ IntentMoves
  BY <1>1, HandlerStep, PacingStep, IntentStep
<1>4. RefreshInv'
  BY <1>1, <1>2, <1>3, RefreshStep
<1>5. OrderInv'
  BY <1>1, <1>2, <1>3, OrderStep
<1>6. FreshInv'
  BY <1>1, <1>2, <1>3, FreshStep
<1> QED BY <1>2, <1>3, <1>4, <1>5, <1>6 DEF Inv

\* The inductive invariant holds in every state.
LEMMA Invariance == Spec => []Inv
<1>1. Inv /\ [Next]_vars => Inv'
  BY InvStep
<1> QED BY <1>1, InitInv, PTL DEF Spec

\* Rows, intents, items, leases and handlers keep their types, whatever the workers, the
\* crashes and the expiries do; an intent or an item is leased exactly while it is RUNNING.
THEOREM GroupTypeOK == Spec => []TypeOK
<1>1. Inv => TypeOK
  BY DEF Inv
<1> QED BY <1>1, Invariance, PTL

\* upsertGroupDetails never replaces details by ones that were read earlier, unless a refresh
\* began its read after it had lost the pacing lease.
THEOREM DetailsNeverRegress == Spec => ReadsNeverRegress
<1>1. Inv /\ [Next]_vars => [lapsed' \/ row'.details >= row.details]_vars
  <2> SUFFICES ASSUME Inv, [Next]_vars, ~lapsed', row'.details # row.details
               PROVE  row'.details >= row.details
    <3>1. ASSUME Inv PROVE row.details >= row.details
      BY <3>1 DEF Inv, TypeOK, Rows
    <3> QED BY <3>1, Zenon
  <2>1. PICK w \in Worker : Writes(w)
    BY InvStep DEF RowMoves
  <2>2. worker[w].seen \in 1 .. MaxVersion /\ row \in Rows
    BY <2>1 DEF Writes, Inv, WorkerInv, Consistent, TypeOK, Handlers
  <2>3. row'.details = worker[w].seen
    BY <2>1, <2>2, DetailedTyped DEF Writes
  <2>4. Paced(w) \/ Applies(w)
    BY <2>1 DEF Writes, MayPublish, Paced, Applies
  <2>5. ~lapsed
    BY InvStep, Zenon DEF PacingMoves
  <2> QED BY <2>3, <2>4, <2>5 DEF Inv, OrderInv, Ahead
<1> QED BY <1>1, Invariance, PTL DEF Spec, ReadsNeverRegress

\* A refresh does not apply what it read to a group that discovery has dropped since.
THEOREM DropsStand == Spec => RefreshNeverRevives
<1>1. Inv => \A w \in Worker : PublishRefresh(w) /\ row.state = "INACTIVE" => row' = row
  BY DEF Inv, RefreshInv, PublishRefresh, MayApply
<1> QED BY <1>1, Invariance, PTL DEF Spec, RefreshNeverRevives

\* GroupProjection implements CoalescedWork: no event is lost to the attempt it overtakes, and
\* an intent that says COMPLETED stands for details no older than the last event.
THEOREM GroupEventsCoalesce == Spec => EventsCoalesce
<1>1. Init => Work!Init
  <2> SUFFICES ASSUME Init PROVE Work!Init
    OBVIOUS
  <2>1. row.details \in {0, 1}
    <3>1. Absent \in Rows /\ Absent.details = 0
      BY DEF Absent, Rows, Cap, Capabilities, Reasons, Tri, Leases, Free
    <3> QED BY <3>1, DetailedTyped DEF Init
  <2> QED BY <2>1 DEF Init, Work!Init, Promise
<1>2. ASSUME Inv, Inv', [Next]_vars PROVE [Work!Next]_(Work!coalescedVars)
  <2>a. /\ asked \in 1 .. truth /\ truth \in 1 .. MaxVersion /\ asked' \in 1 .. truth'
        /\ truth' \in 1 .. MaxVersion /\ row.details \in 0 .. MaxVersion /\ row \in Rows
        /\ intent \in Intents /\ worker \in [Worker -> Handlers]
    BY <1>2 DEF Inv, TypeOK, Rows
  <2>1. CASE GroupEvent
    <3>1. asked' = truth /\ Promise' = "due" /\ row'.details = row.details
      <4>1. asked' = truth /\ intent' = Scheduled(intent)
        BY <2>1 DEF GroupEvent
      <4>2. intent'.status \in {"PENDING", "RUNNING"}
        BY <4>1, <2>a, ScheduledTyped
      <4>3. row'.details = row.details
        BY <2>1, <2>a DEF GroupEvent, Rows
      <4> QED BY <4>1, <4>2, <4>3 DEF Promise
    <3> QED BY <2>a, <3>1 DEF Work!Next, Work!Request
  <2>2. CASE UNCHANGED <<asked, intent>>
    <3>1. Promise' = Promise
      BY <2>2 DEF Promise
    <3>2. CASE row'.details = row.details
      BY <2>2, <3>1, <3>2 DEF Work!coalescedVars
    <3>3. CASE \E w \in Worker : Writes(w)
      <4> PICK w \in Worker : Writes(w)
        BY <3>3
      <4>1. worker[w].seen \in 1 .. MaxVersion
        BY <1>2, <2>a DEF Writes, Inv, WorkerInv, Consistent, Handlers
      <4>2. row'.details \in 1 .. MaxVersion
        BY ZenonT(30), <2>a, <4>1, DetailedTyped DEF Writes
      <4>3. Promise = "settled" => UpToDate
        BY <2>a DEF Promise, UpToDate, Intents
      <4>4. Promise = "settled" => row'.details >= asked
        BY <1>2, <4>3, WritesFresh DEF Inv
      <4> QED BY <2>2, <3>1, <4>2, <4>4 DEF Work!Next, Work!Reflect
    <3> QED BY <1>2, <3>2, <3>3, InvStep DEF RowMoves
  <2>3. ASSUME NEW w \in Worker, ClaimIntent(w) PROVE [Work!Next]_(Work!coalescedVars)
    <3>1. intent.status \in {"PENDING", "RETRY"} /\ intent'.status = "RUNNING" /\ UNCHANGED <<asked, row>>
      BY <2>3, <2>a DEF ClaimIntent, Intents
    <3> QED BY <3>1 DEF Promise, Work!coalescedVars
  <2>4. ASSUME NEW w \in Worker, SettleIntent(w) PROVE [Work!Next]_(Work!coalescedVars)
    <3>1. CASE intent' = intent
      BY <2>2, <2>4, <3>1 DEF SettleIntent
    <3>2. CASE intent' # intent
      <4>1. OwnsIntent(w) /\ UNCHANGED <<asked, row>> /\ worker[w].op = "intent"
              /\ worker[w].at \in {"settle", "failed"}
        BY <2>4, <3>2 DEF SettleIntent
      <4>2. intent.status = "RUNNING" /\ Promise = "due"
        BY <1>2, <4>1 DEF Inv, TypeOK, OwnsIntent, LeasedBy, Promise
      <4>3. intent'.status \in {"PENDING", "RETRY"} => Promise' = "due"
        BY DEF Promise
      <4>4. intent'.status = "FAILED" \/ (intent'.status = "COMPLETED" /\ intent'.missing)
              => Promise' = "given up"
        BY DEF Promise
      <4>5. CASE Promise' = "due"
        BY <4>1, <4>2, <4>5 DEF Work!coalescedVars
      <4>6. CASE Promise' = "given up"
        BY <4>1, <4>2, <4>6 DEF Work!Next, Work!GiveUp
      <4>7. CASE intent'.status = "COMPLETED" /\ ~intent'.missing
        <5>1. Promise' = "settled"
          BY <4>7 DEF Promise
        <5>2. row'.details >= asked'
          BY <1>2, <4>7 DEF Inv, FreshInv
        <5> QED BY <4>1, <4>2, <5>1, <5>2 DEF Work!Next, Work!Settle
      <4>8. intent'.status \in {"PENDING", "RETRY", "FAILED", "COMPLETED"}
        <5>1. CASE intent' = Completed(intent, FALSE) \/ intent' = Completed(intent, TRUE)
          BY <5>1, <2>a, CompletedTyped
        <5>2. CASE intent' = Failed(intent, worker[w].outcome = "retryable")
          BY <5>2, <2>a, FailedTyped
        <5> QED BY <2>4, <3>2, <5>1, <5>2, Zenon DEF SettleIntent
      <4> QED BY <4>3, <4>4, <4>5, <4>6, <4>7, <4>8
    <3> QED BY <3>1, <3>2
  <2>5. ASSUME NEW abandoned \in BOOLEAN, ExpireIntent(abandoned)
        PROVE  [Work!Next]_(Work!coalescedVars)
    <3>1. /\ intent'.status = intent.status /\ intent'.missing = intent.missing
          /\ UNCHANGED <<asked, row>>
      BY <2>5, <2>a DEF ExpireIntent, Intents
    <3> QED BY <3>1 DEF Promise, Work!coalescedVars
  <2>6. CASE RecoverIntents
    <3>1. RecoveredStatus(intent) \in {"PENDING", "RETRY", "FAILED"}
      BY <2>a, RecoveredTyped
    <3>2. /\ intent.status = "RUNNING" /\ intent'.status \in {"PENDING", "RETRY", "FAILED"}
          /\ UNCHANGED <<asked, row>>
      BY <2>6, <2>a, <3>1 DEF RecoverIntents, Intents
    <3> QED BY <3>2 DEF Promise, Work!coalescedVars, Work!Next, Work!GiveUp
  <2>7. CASE \/ ChangeUpstream \/ Invalidate \/ BeginDiscovery \/ PublishDiscovery \/ FailDiscovery
             \/ RecoverItems \/ RecoverRefreshes \/ UNCHANGED vars
    BY <2>2, <2>7 DEF ChangeUpstream, Invalidate, BeginDiscovery, PublishDiscovery, FailDiscovery,
       RecoverItems, RecoverRefreshes, vars
  <2>8. ASSUME NEW abandoned \in BOOLEAN,
               ExpirePacing(abandoned) \/ ExpireItem(abandoned) \/ ExpireRefresh(abandoned)
        PROVE  [Work!Next]_(Work!coalescedVars)
    BY <2>2, <2>8 DEF ExpirePacing, ExpireItem, ExpireRefresh
  <2>9. ASSUME NEW w \in Worker,
               \/ ClaimItem(w) \/ ReserveRefresh(w) \/ ClaimRefresh(w) \/ Read(w) \/ Renew(w)
               \/ Publish(w) \/ PublishRefresh(w) \/ SettleItem(w) \/ RecordRefresh(w)
               \/ FailRefresh(w) \/ ReadFails(w) \/ StatementThrows(w) \/ Crash(w)
        PROVE  [Work!Next]_(Work!coalescedVars)
    BY <2>2, <2>9 DEF ClaimItem, ReserveRefresh, ClaimRefresh, Read, Renew, Publish,
       PublishRefresh, SettleItem, RecordRefresh, FailRefresh, ReadFails, StatementThrows, Crash
  <2> QED BY <1>2, <2>1, <2>2, <2>3, <2>4, <2>5, <2>6, <2>7, <2>8, <2>9
          DEF Next, Claims, Proceeds, Expiries, Recovery
<1> QED BY <1>1, <1>2, Invariance, PTL DEF Spec, EventsCoalesce, Work!Spec
=============================================================================
