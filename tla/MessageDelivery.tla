---------------------------- MODULE MessageDelivery ----------------------------
(***************************************************************************)
(* Outbound delivery of message jobs: the message_jobs and                 *)
(* outbound_session_leases tables, the message-send BullMQ queue, the      *)
(* scheduler's message dispatch tick, the workers that run                 *)
(* MessageJobProcessorService.process, OpenWA, and the acknowledgements    *)
(* that come back as webhooks.                                             *)
(*                                                                         *)
(* One action is one SQL statement (or transaction), one queue command or  *)
(* one HTTP exchange: everything else may happen between two of them.      *)
(* Time is relative: a timer holds the units left until a deadline, Elapse *)
(* takes one unit off every timer, and 0 means that the deadline passed.   *)
(***************************************************************************)
EXTENDS Integers, FiniteSets

CONSTANTS
  Job, Session, Worker,
  SessionOf,      \* the session a job sends through
  DryRun,         \* the jobs created with dry_run
  NoJob,
  StartDelays,    \* the delays until scheduled_at that callers ask for
  ClaimLimit,     \* rows one claimDue takes
  StaleTTL,       \* age at which a QUEUED row counts as stale (2 minutes)
  ProcessingTTL,  \* lease of a PROCESSING row (2 minutes)
  AcquireTTL,     \* session lease when acquired (OUTBOUND_MAX_DELAY_MS + 45 s)
  SendTTL,        \* session lease when renewed before a send (45 s)
  VerifyGap,      \* longest time from that renewal to the start of the POST
  PostTimeout,    \* AbortSignal.timeout of the POST (30 s)
  MaxFaults       \* bound on crashes, lost calls and redeliveries

ASSUME DeliveryAssumption ==
  /\ SessionOf \in [Job -> Session]
  /\ DryRun \subseteq Job
  /\ NoJob \notin Job
  /\ StartDelays \subseteq Nat
  /\ ClaimLimit \in Nat \ {0}
  /\ StaleTTL \in Nat \ {0} /\ ProcessingTTL \in Nat \ {0}
  /\ AcquireTTL \in Nat \ {0} /\ SendTTL \in Nat \ {0}
  /\ VerifyGap \in Nat /\ PostTimeout \in Nat
  /\ MaxFaults \in Nat

VARIABLES
  \* message_jobs
  status, attempt_count,
  timer,             \* SCHEDULED: until due; QUEUED: until stale; PROCESSING: lease
  openwa_message_id, \* the jobs whose row knows its OpenWA message id
  \* outbound_session_leases: holder job (NoJob: no row), lease token, time left
  leaseJob, leaseToken, leaseLeft,
  \* the message-send queue: what BullMQ holds under jobId = job.id; a worker
  \* is "active, locked by that worker"
  bull,
  \* the dispatch tick of the scheduler
  tick, toPublish, resetting,
  \* workers: the point reached in process(), the job, the lease token, the
  \* outcome to record, and the time spent between renewal and POST or in POST
  pc, job, token, outcome, age,
  \* OpenWA, and how many POSTs were started for a job
  upstream, posts,
  faults

messageJobs == <<status, attempt_count, timer, openwa_message_id>>
sessionLeases == <<leaseJob, leaseToken, leaseLeft>>
scheduler == <<tick, toPublish, resetting>>
workers == <<pc, job, token, outcome, age>>
openwa == <<upstream, posts>>
vars == <<messageJobs, sessionLeases, bull, scheduler, workers, openwa, faults>>

LC == INSTANCE MessageJobLifecycle WITH Job <- Job, status <- status, posts <- posts

BullState == {"absent", "waiting", "completed", "failed"}
PcState == {"idle", "mark", "policy", "acquire", "assertHeld", "delay",
            "verify", "ready", "post", "accept", "release", "record"}

Init ==
  /\ status = [j \in Job |-> "ABSENT"]
  /\ attempt_count = [j \in Job |-> 0]
  /\ timer = [j \in Job |-> 0]
  /\ openwa_message_id = {}
  /\ leaseJob = [s \in Session |-> NoJob]
  /\ leaseToken = [s \in Session |-> 0]
  /\ leaseLeft = [s \in Session |-> 0]
  /\ bull = [j \in Job |-> "absent"]
  /\ tick = "recover" /\ toPublish = {} /\ resetting = NoJob
  /\ pc = [w \in Worker |-> "idle"]
  /\ job = [w \in Worker |-> NoJob]
  /\ token = [w \in Worker |-> 0]
  /\ outcome = [w \in Worker |-> "none"]
  /\ age = [w \in Worker |-> 0]
  /\ upstream = [j \in Job |-> "none"]
  /\ posts = [j \in Job |-> 0]
  /\ faults = 0

-----------------------------------------------------------------------------
(***************************************************************************)
(* Time.  The POST is aborted at PostTimeout; VerifyGap bounds what the    *)
(* code leaves unbounded, the database round trip between the renewal of   *)
(* the session lease and the POST.                                         *)
(***************************************************************************)
Dec(n) == IF n > 0 THEN n - 1 ELSE 0

Timed == {"verify", "ready", "post"}

Elapse ==
  /\ \A w \in Worker :
       /\ pc[w] \in {"verify", "ready"} => age[w] < VerifyGap
       /\ pc[w] = "post" => age[w] < PostTimeout
  /\ timer' = [j \in Job |-> Dec(timer[j])]
  /\ leaseLeft' = [s \in Session |-> Dec(leaseLeft[s])]
  /\ age' = [w \in Worker |-> IF pc[w] \in Timed THEN age[w] + 1 ELSE age[w]]
  /\ UNCHANGED <<status, attempt_count, openwa_message_id, leaseJob, leaseToken,
                 bull, scheduler, pc, job, token, outcome, openwa, faults>>

-----------------------------------------------------------------------------
(***************************************************************************)
(* The API and the campaign materializer insert jobs; a repeated key       *)
(* changes nothing.  Cancelling a campaign run cancels the jobs that no    *)
(* worker has claimed.                                                     *)
(***************************************************************************)
Create(j) ==
  /\ status[j] = "ABSENT"
  /\ \E d \in StartDelays : timer' = [timer EXCEPT ![j] = d]
  /\ status' = [status EXCEPT ![j] = "SCHEDULED"]
  /\ UNCHANGED <<attempt_count, openwa_message_id, sessionLeases, bull, scheduler,
                 workers, openwa, faults>>

Cancel(j) ==
  /\ status[j] \in {"SCHEDULED", "QUEUED"}
  /\ status' = [status EXCEPT ![j] = "CANCELLED"]
  /\ timer' = [timer EXCEPT ![j] = 0]
  /\ UNCHANGED <<attempt_count, openwa_message_id, sessionLeases, bull, scheduler,
                 workers, openwa, faults>>

-----------------------------------------------------------------------------
(***************************************************************************)
(* MessageDispatchTick.run, one statement at a time.                       *)
(***************************************************************************)
RecoverStaleQueued ==
  LET stale == {j \in Job : status[j] = "QUEUED" /\ timer[j] = 0} IN
  /\ tick = "recover"
  /\ tick' = "expire"
  /\ status' = [j \in Job |-> IF j \in stale THEN "SCHEDULED" ELSE status[j]]
  /\ UNCHANGED <<attempt_count, timer, openwa_message_id, sessionLeases, bull,
                 toPublish, resetting, workers, openwa, faults>>

\* Mutant: the expiry of PROCESSING rows is left out of the tick.
MarkExpired_Skipped ==
  /\ tick = "expire"
  /\ tick' = "claim"
  /\ UNCHANGED <<messageJobs, sessionLeases, bull, toPublish, resetting, workers,
                 openwa, faults>>

MarkExpiredProcessingUnknown ==
  LET expired == {j \in Job : status[j] = "PROCESSING" /\ timer[j] = 0} IN
  /\ tick = "expire"
  /\ tick' = "claim"
  /\ status' = [j \in Job |-> IF j \in expired THEN "UNKNOWN" ELSE status[j]]
  /\ UNCHANGED <<attempt_count, timer, openwa_message_id, sessionLeases, bull,
                 toPublish, resetting, workers, openwa, faults>>

\* Mutant: a row whose PROCESSING lease expired is claimed again.
Due_Reclaims ==
  {j \in Job : status[j] \in {"SCHEDULED", "PROCESSING"} /\ timer[j] = 0}

Due == {j \in Job : status[j] = "SCHEDULED" /\ timer[j] = 0}

ClaimDue ==
  /\ tick = "claim"
  /\ \E S \in SUBSET Due :
       /\ Cardinality(S) = (IF Cardinality(Due) < ClaimLimit
                            THEN Cardinality(Due) ELSE ClaimLimit)
       /\ status' = [j \in Job |-> IF j \in S THEN "QUEUED" ELSE status[j]]
       /\ timer' = [j \in Job |-> IF j \in S THEN StaleTTL ELSE timer[j]]
       /\ toPublish' = S
  /\ tick' = "publish"
  /\ UNCHANGED <<attempt_count, openwa_message_id, sessionLeases, bull, resetting,
                 workers, openwa, faults>>

(***************************************************************************)
(* Queue.add ignores a job id that the queue still holds in any state,     *)
(* the retained completed and failed ones included.                        *)
(***************************************************************************)
Added(j) == IF bull[j] = "absent" THEN [bull EXCEPT ![j] = "waiting"] ELSE bull

Publish(j) ==
  /\ tick = "publish" /\ resetting = NoJob /\ j \in toPublish
  /\ bull' = Added(j)
  /\ toPublish' = toPublish \ {j}
  /\ UNCHANGED <<messageJobs, sessionLeases, tick, resetting, workers, openwa, faults>>

\* The call throws; the command may have reached Redis all the same.
PublishFails(j) ==
  /\ faults < MaxFaults
  /\ tick = "publish" /\ resetting = NoJob /\ j \in toPublish
  /\ bull' \in {bull, Added(j)}
  /\ toPublish' = toPublish \ {j}
  /\ resetting' = j
  /\ faults' = faults + 1
  /\ UNCHANGED <<messageJobs, sessionLeases, tick, workers, openwa>>

ResetQueued ==
  /\ tick = "publish" /\ resetting \in Job
  /\ status' = IF status[resetting] = "QUEUED"
               THEN [status EXCEPT ![resetting] = "SCHEDULED"] ELSE status
  /\ timer' = IF status[resetting] = "QUEUED"
              THEN [timer EXCEPT ![resetting] = 0] ELSE timer
  /\ resetting' = NoJob
  /\ UNCHANGED <<attempt_count, openwa_message_id, sessionLeases, bull, tick,
                 toPublish, workers, openwa, faults>>

TickDone ==
  /\ tick = "publish" /\ resetting = NoJob /\ toPublish = {}
  /\ tick' = "recover"
  /\ UNCHANGED <<messageJobs, sessionLeases, bull, toPublish, resetting, workers,
                 openwa, faults>>

\* The scheduler crashes or a statement of the tick throws: the next tick
\* starts from the beginning and the rest of this one is not published.
TickAborts ==
  /\ faults < MaxFaults
  /\ tick # "recover"
  /\ tick' = "recover" /\ toPublish' = {} /\ resetting' = NoJob
  /\ faults' = faults + 1
  /\ UNCHANGED <<messageJobs, sessionLeases, bull, workers, openwa>>

-----------------------------------------------------------------------------
(***************************************************************************)
(* BullMQ.  A lost lock hands an active job to another worker, or fails it *)
(* when it stalled too often; retention and a lost Redis forget job ids.   *)
(***************************************************************************)
Stalls(j) ==
  /\ faults < MaxFaults
  /\ bull[j] \in Worker
  /\ \E b \in {"waiting", "failed"} : bull' = [bull EXCEPT ![j] = b]
  /\ faults' = faults + 1
  /\ UNCHANGED <<messageJobs, sessionLeases, scheduler, workers, openwa>>

QueueForgets(j) ==
  /\ faults < MaxFaults
  /\ bull[j] \in {"waiting", "completed", "failed"}
  /\ bull' = [bull EXCEPT ![j] = "absent"]
  /\ faults' = faults + 1
  /\ UNCHANGED <<messageJobs, sessionLeases, scheduler, workers, openwa>>

-----------------------------------------------------------------------------
(***************************************************************************)
(* MessageJobProcessorService.process on a worker.                         *)
(***************************************************************************)
Take(w, j) ==
  /\ pc[w] = "idle"
  /\ bull[j] = "waiting"
  /\ bull' = [bull EXCEPT ![j] = w]
  /\ pc' = [pc EXCEPT ![w] = "mark"]
  /\ job' = [job EXCEPT ![w] = j]
  /\ UNCHANGED <<messageJobs, sessionLeases, scheduler, token, outcome, age, openwa,
                 faults>>

\* process() returned or threw: the worker is free and BullMQ closes the job
\* unless the worker lost its lock.
Finish(w, b) ==
  /\ bull' = IF bull[job[w]] = w THEN [bull EXCEPT ![job[w]] = b] ELSE bull
  /\ pc' = [pc EXCEPT ![w] = "idle"]
  /\ job' = [job EXCEPT ![w] = NoJob]
  /\ token' = [token EXCEPT ![w] = 0]
  /\ outcome' = [outcome EXCEPT ![w] = "none"]
  /\ age' = [age EXCEPT ![w] = 0]

\* Continue at point p of process(), nothing else changing on the worker.
Goto(w, p) ==
  /\ pc' = [pc EXCEPT ![w] = p]
  /\ UNCHANGED <<job, token, outcome, age, bull>>

\* Leave withLease with an outcome: its finally releases the lease first.
Leave(w, o) ==
  /\ pc' = [pc EXCEPT ![w] = "release"]
  /\ outcome' = [outcome EXCEPT ![w] = o]
  /\ age' = [age EXCEPT ![w] = 0]
  /\ UNCHANGED <<job, token, bull>>

\* Mutant: updateResult without its status condition.
UpdateResult_Any(w, s) ==
  /\ status' = [status EXCEPT ![job[w]] = s]
  /\ openwa_message_id' =
       openwa_message_id \cup (IF s = "ACCEPTED" THEN {job[w]} ELSE {})
  /\ timer' = [timer EXCEPT ![job[w]] = 0]
  /\ UNCHANGED attempt_count

\* updateResult: only a row that still says PROCESSING takes the outcome.
UpdateResult(w, s) ==
  LET j == job[w] IN
  IF status[j] = "PROCESSING"
    THEN /\ status' = [status EXCEPT ![j] = s]
         /\ openwa_message_id' =
              openwa_message_id \cup (IF s = "ACCEPTED" THEN {j} ELSE {})
         /\ timer' = [timer EXCEPT ![j] = 0]
         /\ UNCHANGED attempt_count
    ELSE UNCHANGED messageJobs

MarkProcessing(w) ==
  LET j == job[w] IN
  /\ pc[w] = "mark"
  /\ IF status[j] = "QUEUED"
       THEN /\ status' = [status EXCEPT ![j] = "PROCESSING"]
            /\ attempt_count' = [attempt_count EXCEPT ![j] = @ + 1]
            /\ timer' = [timer EXCEPT ![j] = ProcessingTTL]
            /\ token' = [token EXCEPT ![w] = attempt_count[j] + 1]
            /\ pc' = [pc EXCEPT ![w] = "policy"]
            /\ UNCHANGED <<openwa_message_id, job, outcome, age, bull>>
       ELSE /\ Finish(w, "completed")
            /\ UNCHANGED messageJobs
  /\ UNCHANGED <<sessionLeases, scheduler, openwa, faults>>

\* dryRun, ALLOW_LIVE_SENDS and liveBlockReason; the session and group
\* projections those read belong to the gateway and may say anything.
CompleteDryRun(w) ==
  /\ pc[w] = "policy" /\ job[w] \in DryRun
  /\ UpdateResult(w, "DRY_RUN_COMPLETED")
  /\ Finish(w, "completed")
  /\ UNCHANGED <<sessionLeases, scheduler, openwa, faults>>

BlockLiveSend(w) ==
  /\ pc[w] = "policy" /\ job[w] \notin DryRun
  /\ UpdateResult(w, "FAILED")
  /\ Finish(w, "failed")
  /\ UNCHANGED <<sessionLeases, scheduler, openwa, faults>>

AllowLiveSend(w) ==
  /\ pc[w] = "policy" /\ job[w] \notin DryRun
  /\ Goto(w, "acquire")
  /\ UNCHANGED <<messageJobs, sessionLeases, scheduler, openwa, faults>>

-----------------------------------------------------------------------------
(***************************************************************************)
(* OutboundSessionLeaseService.withLease.                                  *)
(***************************************************************************)
\* Mutant: the owner of a lease is compared by its attempt number alone.
Holds_ByToken(w) == leaseToken[SessionOf[job[w]]] = token[w]

Holds(w) ==
  LET s == SessionOf[job[w]] IN leaseJob[s] = job[w] /\ leaseToken[s] = token[w]

TryAcquire(w) ==
  LET s == SessionOf[job[w]] IN
  /\ pc[w] = "acquire"
  /\ leaseJob[s] = NoJob \/ leaseLeft[s] = 0 \/ Holds(w)
  /\ leaseJob' = [leaseJob EXCEPT ![s] = job[w]]
  /\ leaseToken' = [leaseToken EXCEPT ![s] = token[w]]
  /\ leaseLeft' = [leaseLeft EXCEPT ![s] = AcquireTTL]
  /\ Goto(w, "assertHeld")
  /\ UNCHANGED <<messageJobs, scheduler, openwa, faults>>

\* assertMessageProcessing: refresh the row's lease and go to p, or leave
\* with MessageJobNoLongerProcessingError, which process() turns into a skip.
AssertMessageProcessing(w, p) ==
  LET j == job[w] IN
  /\ IF status[j] = "PROCESSING" /\ timer[j] > 0
       THEN /\ timer' = [timer EXCEPT ![j] = ProcessingTTL]
            /\ Goto(w, p)
       ELSE /\ Leave(w, "skipped")
            /\ UNCHANGED timer
  /\ UNCHANGED <<status, attempt_count, openwa_message_id, sessionLeases, scheduler,
                 openwa, faults>>

\* While another job holds the session, every 30 seconds.
AssertWaiting(w) == pc[w] = "acquire" /\ AssertMessageProcessing(w, "acquire")

AssertHeld(w) == pc[w] = "assertHeld" /\ AssertMessageProcessing(w, "delay")

\* verifyForSend, after the random delay: renew the session lease ...
Renew(w) ==
  LET s == SessionOf[job[w]] IN
  /\ pc[w] = "delay"
  /\ IF Holds(w) /\ leaseLeft[s] > 0
       THEN /\ leaseLeft' = [leaseLeft EXCEPT ![s] = SendTTL]
            /\ Goto(w, "verify")
       ELSE /\ Leave(w, "FAILED")
            /\ UNCHANGED leaseLeft
  /\ UNCHANGED <<messageJobs, leaseJob, leaseToken, scheduler, openwa, faults>>

\* ... and only then check the message row.
AssertForSend(w) == pc[w] = "verify" /\ AssertMessageProcessing(w, "ready")

StartPost(w) ==
  LET j == job[w] IN
  /\ pc[w] = "ready"
  /\ pc' = [pc EXCEPT ![w] = "post"]
  /\ age' = [age EXCEPT ![w] = 0]
  /\ upstream' = [upstream EXCEPT ![j] = "pending"]
  /\ posts' = [posts EXCEPT ![j] = @ + 1]
  /\ UNCHANGED <<messageJobs, sessionLeases, bull, scheduler, job, token, outcome,
                 faults>>

\* OpenWA may take the message long after the caller gave up.
UpstreamAccepts(j) ==
  /\ upstream[j] = "pending"
  /\ upstream' = [upstream EXCEPT ![j] = "accepted"]
  /\ UNCHANGED <<messageJobs, sessionLeases, bull, scheduler, workers, posts, faults>>

PostSucceeds(w) ==
  /\ pc[w] = "post" /\ upstream[job[w]] = "accepted"
  /\ pc' = [pc EXCEPT ![w] = "accept"]
  /\ age' = [age EXCEPT ![w] = 0]
  /\ UNCHANGED <<messageJobs, sessionLeases, bull, scheduler, job, token, outcome,
                 openwa, faults>>

\* An HTTP 4xx other than 408 proves that OpenWA did not take the message.
PostRejected(w) ==
  /\ pc[w] = "post" /\ upstream[job[w]] = "pending"
  /\ upstream' = [upstream EXCEPT ![job[w]] = "rejected"]
  /\ Leave(w, "FAILED")
  /\ UNCHANGED <<messageJobs, sessionLeases, scheduler, posts, faults>>

\* Mutant: a POST that timed out is recorded as a failure.
PostAmbiguous_Fails(w) ==
  /\ pc[w] = "post"
  /\ Leave(w, "FAILED")
  /\ UNCHANGED <<messageJobs, sessionLeases, scheduler, openwa, faults>>

\* 408, 5xx, timeout, transport failure, malformed success: anything may be true.
PostAmbiguous(w) ==
  /\ pc[w] = "post"
  /\ Leave(w, "UNKNOWN")
  /\ UNCHANGED <<messageJobs, sessionLeases, scheduler, openwa, faults>>

Accept(w) ==
  /\ pc[w] = "accept"
  /\ UpdateResult(w, "ACCEPTED")
  /\ Leave(w, "done")
  /\ UNCHANGED <<sessionLeases, scheduler, openwa, faults>>

\* What follows the release: return, skip, or record the failure and throw.
AfterRelease(w) ==
  IF outcome[w] \in {"FAILED", "UNKNOWN"} THEN Goto(w, "record")
  ELSE Finish(w, "completed")

Release(w) ==
  LET s == SessionOf[job[w]] IN
  /\ pc[w] = "release"
  /\ leaseJob' = IF Holds(w) THEN [leaseJob EXCEPT ![s] = NoJob] ELSE leaseJob
  /\ leaseToken' = IF Holds(w) THEN [leaseToken EXCEPT ![s] = 0] ELSE leaseToken
  /\ leaseLeft' = IF Holds(w) THEN [leaseLeft EXCEPT ![s] = 0] ELSE leaseLeft
  /\ AfterRelease(w)
  /\ UNCHANGED <<messageJobs, scheduler, openwa, faults>>

Record(w) ==
  /\ pc[w] = "record"
  /\ UpdateResult(w, outcome[w])
  /\ Finish(w, "failed")
  /\ UNCHANGED <<sessionLeases, scheduler, openwa, faults>>

(***************************************************************************)
(* A statement throws.  Outside withLease the error leaves process() and   *)
(* the row stays as it is; inside, the attempt failed before the POST or   *)
(* is ambiguous after it; the release swallows its own error.              *)
(***************************************************************************)
QueryThrows(w) ==
  /\ faults < MaxFaults
  /\ \/ pc[w] \in {"mark", "policy", "record"} /\ Finish(w, "failed")
     \/ pc[w] \in {"acquire", "assertHeld", "delay", "verify"} /\ Leave(w, "FAILED")
     \/ pc[w] = "accept" /\ Leave(w, "UNKNOWN")
     \/ pc[w] = "release" /\ AfterRelease(w)
  /\ faults' = faults + 1
  /\ UNCHANGED <<messageJobs, sessionLeases, scheduler, openwa>>

\* The worker process dies; its BullMQ lock stays until the job stalls.
Crash(w) ==
  /\ faults < MaxFaults
  /\ pc[w] # "idle"
  /\ pc' = [pc EXCEPT ![w] = "idle"]
  /\ job' = [job EXCEPT ![w] = NoJob]
  /\ token' = [token EXCEPT ![w] = 0]
  /\ outcome' = [outcome EXCEPT ![w] = "none"]
  /\ age' = [age EXCEPT ![w] = 0]
  /\ faults' = faults + 1
  /\ UNCHANGED <<messageJobs, sessionLeases, bull, scheduler, openwa>>

(***************************************************************************)
(* An acknowledgement of a message OpenWA took finds the row by the stored *)
(* message id, or no row at all.  Acknowledgements repeat and overtake     *)
(* one another.                                                            *)
(***************************************************************************)
Acknowledge(j, a) ==
  /\ upstream[j] = "accepted" /\ j \in openwa_message_id
  /\ LC!AckMoves(status[j], a)
  /\ status' = [status EXCEPT ![j] = a]
  /\ UNCHANGED <<attempt_count, timer, openwa_message_id, sessionLeases, bull,
                 scheduler, workers, openwa, faults>>

-----------------------------------------------------------------------------
SchedulerStep ==
  \/ RecoverStaleQueued \/ MarkExpiredProcessingUnknown \/ ClaimDue
  \/ \E j \in Job : Publish(j)
  \/ ResetQueued \/ TickDone

WorkerStep(w) ==
  \/ \E j \in Job : Take(w, j)
  \/ MarkProcessing(w) \/ CompleteDryRun(w) \/ BlockLiveSend(w) \/ AllowLiveSend(w)
  \/ TryAcquire(w) \/ AssertHeld(w) \/ Renew(w) \/ AssertForSend(w) \/ StartPost(w)
  \/ PostSucceeds(w) \/ PostRejected(w) \/ PostAmbiguous(w)
  \/ Accept(w) \/ Release(w) \/ Record(w)

Fault ==
  \/ TickAborts
  \/ \E j \in Job : PublishFails(j) \/ Stalls(j) \/ QueueForgets(j)
  \/ \E w \in Worker : QueryThrows(w) \/ Crash(w)

Next ==
  \/ Elapse
  \/ SchedulerStep
  \/ \E w \in Worker : WorkerStep(w) \/ AssertWaiting(w)
  \/ \E j \in Job : Create(j) \/ Cancel(j) \/ UpstreamAccepts(j)
  \/ \E j \in Job, a \in LC!AckStatus : Acknowledge(j, a)
  \/ Fault

Spec == Init /\ [][Next]_vars

(***************************************************************************)
(* The scheduler's interval keeps its tick going, a worker that is not     *)
(* crashed runs on, and time passes.  Nothing makes a caller create or     *)
(* cancel, OpenWA acknowledge, or a fault happen.                          *)
(***************************************************************************)
Fairness ==
  /\ WF_vars(Elapse)
  /\ WF_vars(SchedulerStep)
  /\ \A w \in Worker : WF_vars(WorkerStep(w))

FairSpec == Spec /\ Fairness

-----------------------------------------------------------------------------
(***************************************************************************)
(* Rows, queue, tick, workers and OpenWA are in their types; a worker has  *)
(* a job exactly while it runs process(), and reaches the recording of a   *)
(* failure only with FAILED or UNKNOWN (the catch block's skip).           *)
(***************************************************************************)
TypeOK ==
  /\ status \in [Job -> LC!Status]
  /\ attempt_count \in [Job -> Nat]
  /\ timer \in [Job -> Nat]
  /\ openwa_message_id \in SUBSET Job
  /\ leaseJob \in [Session -> Job \cup {NoJob}]
  /\ leaseToken \in [Session -> Nat]
  /\ leaseLeft \in [Session -> Nat]
  /\ bull \in [Job -> BullState \cup Worker]
  /\ tick \in {"recover", "expire", "claim", "publish"}
  /\ toPublish \in SUBSET Job
  /\ resetting \in Job \cup {NoJob}
  /\ pc \in [Worker -> PcState]
  /\ job \in [Worker -> Job \cup {NoJob}]
  /\ \A w \in Worker : job[w] = NoJob <=> pc[w] = "idle"
  /\ token \in [Worker -> Nat]
  /\ outcome \in [Worker -> {"none", "skipped", "done", "FAILED", "UNKNOWN"}]
  /\ \A w \in Worker : pc[w] = "record" => outcome[w] \in {"FAILED", "UNKNOWN"}
  /\ age \in [Worker -> Nat]
  /\ upstream \in [Job -> {"none", "pending", "accepted", "rejected"}]
  /\ posts \in [Job -> Nat]
  /\ faults \in 0..MaxFaults

(***************************************************************************)
(* "A live job is attempted once": however often BullMQ redelivers,        *)
(* workers crash or the scheduler republishes, at most one OpenWA POST is  *)
(* started for a job, and none for a dry run or a cancelled job            *)
(* (markProcessing, markExpiredProcessingUnknown).                         *)
(***************************************************************************)
AtMostOnePost ==
  \A j \in Job :
    /\ posts[j] <= 1
    /\ j \in DryRun \/ status[j] \in {"ABSENT", "SCHEDULED", "QUEUED", "CANCELLED"}
         => posts[j] = 0

(***************************************************************************)
(* A worker inside the POST owns the unexpired lease of its session until  *)
(* the response (verifyForSend, tryAcquire).                               *)
(***************************************************************************)
PosterOwnsSession ==
  \A w \in Worker : pc[w] = "post" => Holds(w) /\ leaseLeft[SessionOf[job[w]]] > 0

(***************************************************************************)
(* Two POSTs through one session never overlap: the pacing delay between   *)
(* messages of a session is kept whatever leases expire (tryAcquire,       *)
(* renew, release).                                                        *)
(***************************************************************************)
SendsSerialized ==
  \A v, w \in Worker :
    pc[v] = "post" /\ pc[w] = "post" /\ SessionOf[job[v]] = SessionOf[job[w]]
      => v = w

(***************************************************************************)
(* A job the runtime itself reported FAILED was never taken by OpenWA, and *)
(* never will be: an operator may send it again.  (A FAILED that came from *)
(* an acknowledgement carries the message id.)  An acknowledged job was    *)
(* taken.  This is the catch block of process().                           *)
(***************************************************************************)
OutcomeHonest ==
  \A j \in Job :
    /\ status[j] = "FAILED" /\ j \notin openwa_message_id
         => upstream[j] \in {"none", "rejected"}
    /\ status[j] \in LC!Acknowledged => upstream[j] = "accepted" /\ j \in openwa_message_id

(***************************************************************************)
(* Every job follows the promised lifecycle: no status outside the edges,  *)
(* UNKNOWN and the other closed statuses final, acknowledgements monotone, *)
(* a POST only for a row that says PROCESSING.                             *)
(***************************************************************************)
Lifecycle == LC!Spec

(***************************************************************************)
(* A claimed job does not stay PROCESSING forever: its worker records an   *)
(* outcome or, after a crash, the scheduler records UNKNOWN.               *)
(***************************************************************************)
ProcessingSettles ==
  \A j \in Job : status[j] = "PROCESSING" ~> status[j] # "PROCESSING"

(***************************************************************************)
(* "Every non-terminal durable row must remain discoverable": a due job    *)
(* that is not cancelled is eventually processed.                          *)
(***************************************************************************)
DueJobProcessed ==
  \A j \in Job :
    status[j] \in {"SCHEDULED", "QUEUED"} ~> status[j] \notin {"SCHEDULED", "QUEUED"}

-----------------------------------------------------------------------------
(***************************************************************************)
(* The inductive invariant behind the safety properties.  A worker past    *)
(* markProcessing makes an attempt; a row is claimed once it was marked.   *)
(***************************************************************************)
Attempting(w) == pc[w] \notin {"idle", "mark"}
Unclaimed == {"ABSENT", "SCHEDULED", "QUEUED", "CANCELLED"}
BeforePost == {"policy", "acquire", "assertHeld", "delay", "verify", "ready"}

\* A job is attempted once, by one worker.
AttemptInv ==
  /\ \A j \in Job : attempt_count[j] = IF status[j] \in Unclaimed THEN 0 ELSE 1
  /\ \A w \in Worker :
       Attempting(w) => status[job[w]] \notin Unclaimed /\ token[w] = 1
  /\ \A v, w \in Worker :
       Attempting(v) /\ Attempting(w) /\ job[v] = job[w] => v = w

\* The POST of a job comes from its attempt, and not from a dry run.
PostInv ==
  /\ \A j \in Job : posts[j] = IF upstream[j] = "none" THEN 0 ELSE 1
  /\ \A j \in Job : status[j] \in Unclaimed \/ j \in DryRun => upstream[j] = "none"
  /\ \A w \in Worker : pc[w] \in BeforePost => upstream[job[w]] = "none"
  /\ \A w \in Worker : Attempting(w) /\ pc[w] # "policy" => job[w] \notin DryRun

\* What a worker is about to record is true of OpenWA.
OutcomeInv ==
  /\ \A w \in Worker : pc[w] = "accept" => upstream[job[w]] = "accepted"
  /\ \A w \in Worker : outcome[w] = "FAILED" =>
       pc[w] \in {"release", "record"} /\ upstream[job[w]] \in {"none", "rejected"}
  /\ \A w \in Worker : outcome[w] = "done" => pc[w] = "release"
  /\ \A w \in Worker : Attempting(w) /\ outcome[w] # "done" =>
       status[job[w]] \in {"PROCESSING", "UNKNOWN"}
  /\ \A j \in openwa_message_id : status[j] \in LC!Acknowledged \cup {"FAILED"}
  /\ OutcomeHonest

\* From the renewal to the end of the POST the session lease covers the worker.
LeaseInv ==
  \A w \in Worker :
    /\ pc[w] \notin Timed => age[w] = 0
    /\ pc[w] \in {"verify", "ready"} =>
         /\ Holds(w) /\ age[w] <= VerifyGap
         /\ leaseLeft[SessionOf[job[w]]] >= SendTTL - age[w]
    /\ pc[w] = "post" =>
         /\ Holds(w) /\ age[w] <= PostTimeout
         /\ leaseLeft[SessionOf[job[w]]] >= SendTTL - VerifyGap - age[w]

\* The row is still PROCESSING when the POST starts.
ReadyInv ==
  \A w \in Worker : pc[w] = "ready" =>
    /\ status[job[w]] = "PROCESSING"
    /\ timer[job[w]] >= ProcessingTTL - age[w]

\* What holds whatever the timing ...
DeliveryInv == TypeOK /\ AttemptInv /\ PostInv /\ OutcomeInv

\* ... and what a bound on the gap between renewal and POST adds.
Timely == VerifyGap + PostTimeout < SendTTL /\ VerifyGap < ProcessingTTL

(***************************************************************************)
(* The inductive invariant: every job is attempted once by one worker, its *)
(* POST belongs to that attempt, recorded outcomes are true of OpenWA, and *)
(* the two leases cover the worker from renewal to response (process,      *)
(* withLease, markProcessing).                                             *)
(***************************************************************************)
TimedDeliveryInv == DeliveryInv /\ LeaseInv /\ ReadyInv
=============================================================================
