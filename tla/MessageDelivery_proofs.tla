------------------------- MODULE MessageDelivery_proofs -------------------------
(***************************************************************************)
(* Machine-checked proofs about MessageDelivery, for any jobs, sessions,   *)
(* workers, timers and number of faults.                                   *)
(***************************************************************************)
EXTENDS MessageDelivery, TLAPS

USE DeliveryAssumption

\* TypeOK is a state predicate over typed functions: each action updates some.
LEMMA TypeStep == TypeOK /\ [Next]_vars => TypeOK'
<1> SUFFICES ASSUME TypeOK, [Next]_vars PROVE TypeOK'
  OBVIOUS
<1> USE DEF TypeOK, messageJobs, sessionLeases, scheduler, workers, openwa,
            BullState, PcState
<1>0. CASE UNCHANGED vars
  BY <1>0 DEF vars
<1>1. CASE Elapse
  BY <1>1 DEF Elapse, Dec
<1>2. CASE \E j \in Job : Create(j) \/ Cancel(j) \/ UpstreamAccepts(j)
  BY <1>2 DEF Create, Cancel, UpstreamAccepts, LC!Status, LC!Live, LC!Closed
<1>3. CASE \E j \in Job, a \in LC!AckStatus : Acknowledge(j, a)
  BY <1>3 DEF Acknowledge, LC!Status, LC!AckStatus, LC!Acknowledged, LC!Closed
<1>4. CASE SchedulerStep
  <2>1. CASE RecoverStaleQueued
    BY <2>1 DEF RecoverStaleQueued, LC!Status, LC!Live
  <2>2. CASE MarkExpiredProcessingUnknown
    BY <2>2 DEF MarkExpiredProcessingUnknown, LC!Status, LC!Closed
  <2>3. CASE ClaimDue
    BY <2>3 DEF ClaimDue, Due, LC!Status, LC!Live
  <2>4. CASE \E j \in Job : Publish(j)
    BY <2>4 DEF Publish, Added
  <2>5. CASE ResetQueued
    BY <2>5 DEF ResetQueued, LC!Status, LC!Live
  <2>6. CASE TickDone
    BY <2>6 DEF TickDone
  <2> QED BY <1>4, <2>1, <2>2, <2>3, <2>4, <2>5, <2>6 DEF SchedulerStep
<1>5. CASE Fault
  <2>1. CASE TickAborts
    BY <2>1 DEF TickAborts
  <2>2. CASE \E j \in Job : PublishFails(j) \/ Stalls(j) \/ QueueForgets(j)
    BY <2>2 DEF PublishFails, Stalls, QueueForgets, Added
  <2>3. CASE \E w \in Worker : QueryThrows(w) \/ Crash(w)
    BY SMTT(30), <2>3 DEF QueryThrows, Crash, Finish, Leave, AfterRelease, Goto
  <2> QED BY <1>5, <2>1, <2>2, <2>3 DEF Fault
<1>6. ASSUME NEW w \in Worker, WorkerStep(w) \/ AssertWaiting(w) PROVE TypeOK'
  <2>1. CASE \E j \in Job : Take(w, j)
    BY <2>1 DEF Take
  <2>2. CASE MarkProcessing(w)
    <3> job[w] \in Job
      BY <2>2 DEF MarkProcessing
    <3>1. CASE status[job[w]] = "QUEUED"
      BY <2>2, <3>1 DEF MarkProcessing, LC!Status, LC!Live
    <3>2. CASE status[job[w]] # "QUEUED"
      BY <2>2, <3>2 DEF MarkProcessing, Finish
    <3> QED BY <3>1, <3>2
  <2>3. CASE CompleteDryRun(w)
    BY SMTT(30), <2>3 DEF CompleteDryRun, UpdateResult, Finish, LC!Status, LC!Closed
  <2>3b. CASE BlockLiveSend(w)
    BY <2>3b DEF BlockLiveSend, UpdateResult, Finish, LC!Status, LC!Closed
  <2>3c. CASE AllowLiveSend(w)
    BY <2>3c DEF AllowLiveSend, Goto
  <2>4. CASE TryAcquire(w)
    BY <2>4 DEF TryAcquire, Goto
  <2>5. CASE AssertWaiting(w) \/ AssertHeld(w) \/ AssertForSend(w)
    BY <2>5 DEF AssertWaiting, AssertHeld, AssertForSend, AssertMessageProcessing,
                Goto, Leave
  <2>6. CASE Renew(w)
    BY <2>6 DEF Renew, Goto, Leave
  <2>7. CASE StartPost(w) \/ PostSucceeds(w) \/ PostRejected(w) \/ PostAmbiguous(w)
    BY SMTT(30), <2>7 DEF StartPost, PostSucceeds, PostRejected, PostAmbiguous, Leave
  <2>8. CASE Accept(w)
    BY <2>8 DEF Accept, UpdateResult, Leave, LC!Status, LC!Acknowledged
  <2>9. CASE Release(w)
    BY SMTT(30), <2>9 DEF Release, AfterRelease, Finish, Goto
  <2>10. CASE Record(w)
    BY <2>10 DEF Record, UpdateResult, Finish, LC!Status, LC!Closed
  <2> QED BY <1>6, <2>1, <2>2, <2>3, <2>3b, <2>3c, <2>4, <2>5, <2>6, <2>7, <2>8, <2>9, <2>10
          DEF WorkerStep
<1> QED BY <1>0, <1>1, <1>2, <1>3, <1>4, <1>5, <1>6 DEF Next

\* markProcessing finds QUEUED only before the first attempt, and no statement
\* takes a claimed row back, so a second attempt never begins.
LEMMA AttemptStep == TypeOK /\ TypeOK' /\ AttemptInv /\ OutcomeInv /\ [Next]_vars => AttemptInv'
<1> SUFFICES ASSUME TypeOK, TypeOK', AttemptInv, OutcomeInv, [Next]_vars PROVE AttemptInv'
  OBVIOUS
<1> USE DEF TypeOK, PcState, messageJobs, sessionLeases, scheduler, workers,
            openwa, AttemptInv, Attempting, Unclaimed
<1>0. CASE UNCHANGED vars
  BY <1>0 DEF vars
<1>1. CASE Elapse
  BY <1>1 DEF Elapse, Dec
<1>2. CASE \E j \in Job : Create(j)
  BY <1>2 DEF Create
<1>3. CASE \E j \in Job : Cancel(j)
  BY <1>3 DEF Cancel
<1>4. CASE \E j \in Job : UpstreamAccepts(j)
  BY <1>4 DEF UpstreamAccepts
<1>5. CASE \E j \in Job, a \in LC!AckStatus : Acknowledge(j, a)
  BY <1>5 DEF Acknowledge, LC!AckMoves, LC!AckStatus, OutcomeInv,
    LC!Acknowledged
<1>6. CASE SchedulerStep
  <2>1. CASE RecoverStaleQueued
    BY <2>1 DEF RecoverStaleQueued
  <2>2. CASE MarkExpiredProcessingUnknown
    BY <2>2 DEF MarkExpiredProcessingUnknown
  <2>3. CASE ClaimDue
    BY <2>3 DEF ClaimDue, Due
  <2>4. CASE \E j \in Job : Publish(j)
    BY <2>4 DEF Publish
  <2>5. CASE ResetQueued
    BY <2>5 DEF ResetQueued
  <2>6. CASE TickDone
    BY <2>6 DEF TickDone
  <2> QED BY <1>6, <2>1, <2>2, <2>3, <2>4, <2>5, <2>6
          DEF SchedulerStep
<1>7. CASE Fault
  <2>1. CASE TickAborts
    BY <2>1 DEF TickAborts
  <2>2. CASE \E j \in Job : PublishFails(j) \/ Stalls(j) \/ QueueForgets(j)
    BY <2>2 DEF PublishFails, Stalls, QueueForgets
  <2>3. CASE \E w \in Worker : QueryThrows(w)
    <3> PICK w \in Worker : QueryThrows(w)
      BY <2>3
    <3>1. CASE Finish(w, "failed")
      BY <3>1 DEF QueryThrows, Finish
    <3>2. CASE pc[w] \in {"acquire", "assertHeld", "delay", "verify"}
                 /\ Leave(w, "FAILED")
      BY <3>2 DEF QueryThrows, Leave
    <3>2b. CASE pc[w] = "accept" /\ Leave(w, "UNKNOWN")
      BY <3>2b DEF QueryThrows, Leave
    <3>3. CASE pc[w] = "release" /\ AfterRelease(w)
      <4>1. CASE Goto(w, "record")
        BY <3>3, <4>1 DEF QueryThrows, Goto
      <4>2. CASE Finish(w, "completed")
        BY <3>3, <4>2 DEF QueryThrows, Finish
      <4> QED BY <3>3, <4>1, <4>2 DEF AfterRelease
    <3> QED BY <3>1, <3>2, <3>2b, <3>3 DEF QueryThrows
  <2>4. CASE \E w \in Worker : Crash(w)
    BY <2>4 DEF Crash
  <2> QED BY <1>7, <2>1, <2>2, <2>3, <2>4
          DEF Fault
<1>8. ASSUME NEW w \in Worker, WorkerStep(w) \/ AssertWaiting(w) PROVE AttemptInv'
  <2>1. CASE \E j \in Job : Take(w, j)
    BY <2>1 DEF Take
  <2>2. CASE MarkProcessing(w)
    <3> job[w] \in Job
      BY <2>2 DEF MarkProcessing
    <3>1. CASE status[job[w]] = "QUEUED"
      BY SMTT(30), <2>2, <3>1 DEF MarkProcessing
    <3>2. CASE status[job[w]] # "QUEUED"
      BY SMTT(30), <2>2, <3>2 DEF MarkProcessing, Finish
    <3> QED BY <3>1, <3>2
  <2>3. CASE CompleteDryRun(w)
    BY <2>3 DEF CompleteDryRun, UpdateResult, Finish
  <2>4. CASE BlockLiveSend(w)
    BY <2>4 DEF BlockLiveSend, UpdateResult, Finish
  <2>5. CASE AllowLiveSend(w)
    BY <2>5 DEF AllowLiveSend, Goto
  <2>6. CASE TryAcquire(w)
    BY <2>6 DEF TryAcquire, Goto
  <2>7. CASE AssertWaiting(w)
    BY <2>7 DEF AssertWaiting, AssertMessageProcessing, Goto, Leave
  <2>8. CASE AssertHeld(w)
    BY <2>8 DEF AssertHeld, AssertMessageProcessing, Goto, Leave
  <2>9. CASE Renew(w)
    BY <2>9 DEF Renew, Goto, Leave
  <2>10. CASE AssertForSend(w)
    BY SMTT(30), <2>10 DEF AssertForSend, AssertMessageProcessing, Goto, Leave
  <2>11. CASE StartPost(w)
    BY <2>11 DEF StartPost
  <2>12. CASE PostSucceeds(w)
    BY <2>12 DEF PostSucceeds
  <2>13. CASE PostRejected(w)
    BY <2>13 DEF PostRejected, Leave
  <2>14. CASE PostAmbiguous(w)
    BY <2>14 DEF PostAmbiguous, Leave
  <2>15. CASE Accept(w)
    BY <2>15 DEF Accept, UpdateResult, Leave
  <2>16. CASE Release(w)
    <3>1. CASE Goto(w, "record")
      BY <2>16, <3>1 DEF Release, Goto
    <3>2. CASE Finish(w, "completed")
      BY <2>16, <3>2 DEF Release, Finish
    <3> QED BY <2>16, <3>1, <3>2 DEF Release, AfterRelease
  <2>17. CASE Record(w)
    BY <2>17 DEF Record, UpdateResult, Finish
  <2> QED BY <1>8, <2>1, <2>2, <2>3, <2>4, <2>5, <2>6, <2>7, <2>8, <2>9,
          <2>10, <2>11, <2>12, <2>13, <2>14, <2>15, <2>16, <2>17
          DEF WorkerStep
<1> QED BY <1>0, <1>1, <1>2, <1>3, <1>4, <1>5, <1>6, <1>7, <1>8 DEF Next

\* Only the worker that makes the attempt starts a POST, and only once.
LEMMA PostStep == TypeOK /\ TypeOK' /\ AttemptInv /\ PostInv /\ OutcomeInv /\ [Next]_vars => PostInv'
<1> SUFFICES ASSUME TypeOK, TypeOK', AttemptInv, PostInv, OutcomeInv, [Next]_vars PROVE PostInv'
  OBVIOUS
<1> USE DEF TypeOK, PcState, messageJobs, sessionLeases, scheduler, workers,
            openwa, PostInv, Attempting, Unclaimed, BeforePost
<1>0. CASE UNCHANGED vars
  BY <1>0 DEF vars
<1>1. CASE Elapse
  BY <1>1 DEF Elapse, Dec
<1>2. CASE \E j \in Job : Create(j)
  BY <1>2 DEF Create
<1>3. CASE \E j \in Job : Cancel(j)
  BY <1>3 DEF Cancel
<1>4. CASE \E j \in Job : UpstreamAccepts(j)
  BY <1>4 DEF UpstreamAccepts
<1>5. CASE \E j \in Job, a \in LC!AckStatus : Acknowledge(j, a)
  BY <1>5 DEF Acknowledge, LC!AckMoves, LC!AckStatus, OutcomeInv,
    LC!Acknowledged
<1>6. CASE SchedulerStep
  <2>1. CASE RecoverStaleQueued
    BY <2>1 DEF RecoverStaleQueued
  <2>2. CASE MarkExpiredProcessingUnknown
    BY <2>2 DEF MarkExpiredProcessingUnknown
  <2>3. CASE ClaimDue
    BY <2>3 DEF ClaimDue, Due
  <2>4. CASE \E j \in Job : Publish(j)
    BY <2>4 DEF Publish
  <2>5. CASE ResetQueued
    BY <2>5 DEF ResetQueued
  <2>6. CASE TickDone
    BY <2>6 DEF TickDone
  <2> QED BY <1>6, <2>1, <2>2, <2>3, <2>4, <2>5, <2>6
          DEF SchedulerStep
<1>7. CASE Fault
  <2>1. CASE TickAborts
    BY <2>1 DEF TickAborts
  <2>2. CASE \E j \in Job : PublishFails(j) \/ Stalls(j) \/ QueueForgets(j)
    BY <2>2 DEF PublishFails, Stalls, QueueForgets
  <2>3. CASE \E w \in Worker : QueryThrows(w)
    <3> PICK w \in Worker : QueryThrows(w)
      BY <2>3
    <3>1. CASE Finish(w, "failed")
      BY <3>1 DEF QueryThrows, Finish
    <3>2. CASE pc[w] \in {"acquire", "assertHeld", "delay", "verify"}
                 /\ Leave(w, "FAILED")
      BY <3>2 DEF QueryThrows, Leave
    <3>2b. CASE pc[w] = "accept" /\ Leave(w, "UNKNOWN")
      BY <3>2b DEF QueryThrows, Leave
    <3>3. CASE pc[w] = "release" /\ AfterRelease(w)
      <4>1. CASE Goto(w, "record")
        BY <3>3, <4>1 DEF QueryThrows, Goto
      <4>2. CASE Finish(w, "completed")
        BY <3>3, <4>2 DEF QueryThrows, Finish
      <4> QED BY <3>3, <4>1, <4>2 DEF AfterRelease
    <3> QED BY <3>1, <3>2, <3>2b, <3>3 DEF QueryThrows
  <2>4. CASE \E w \in Worker : Crash(w)
    BY <2>4 DEF Crash
  <2> QED BY <1>7, <2>1, <2>2, <2>3, <2>4
          DEF Fault
<1>8. ASSUME NEW w \in Worker, WorkerStep(w) \/ AssertWaiting(w) PROVE PostInv'
  <2>1. CASE \E j \in Job : Take(w, j)
    BY <2>1 DEF Take
  <2>2. CASE MarkProcessing(w)
    <3> job[w] \in Job
      BY <2>2 DEF MarkProcessing
    <3>1. CASE status[job[w]] = "QUEUED"
      BY <2>2, <3>1 DEF MarkProcessing
    <3>2. CASE status[job[w]] # "QUEUED"
      BY <2>2, <3>2 DEF MarkProcessing, Finish
    <3> QED BY <3>1, <3>2
  <2>3. CASE CompleteDryRun(w)
    BY <2>3 DEF CompleteDryRun, UpdateResult, Finish
  <2>4. CASE BlockLiveSend(w)
    BY <2>4 DEF BlockLiveSend, UpdateResult, Finish
  <2>5. CASE AllowLiveSend(w)
    BY <2>5 DEF AllowLiveSend, Goto
  <2>6. CASE TryAcquire(w)
    BY <2>6 DEF TryAcquire, Goto
  <2>7. CASE AssertWaiting(w)
    BY <2>7 DEF AssertWaiting, AssertMessageProcessing, Goto, Leave
  <2>8. CASE AssertHeld(w)
    BY <2>8 DEF AssertHeld, AssertMessageProcessing, Goto, Leave
  <2>9. CASE Renew(w)
    BY <2>9 DEF Renew, Goto, Leave
  <2>10. CASE AssertForSend(w)
    BY <2>10 DEF AssertForSend, AssertMessageProcessing, Goto, Leave
  <2>11. CASE StartPost(w)
    BY <2>11 DEF StartPost, AttemptInv
  <2>12. CASE PostSucceeds(w)
    BY <2>12 DEF PostSucceeds
  <2>13. CASE PostRejected(w)
    BY <2>13 DEF PostRejected, Leave, AttemptInv
  <2>14. CASE PostAmbiguous(w)
    BY <2>14 DEF PostAmbiguous, Leave
  <2>15. CASE Accept(w)
    BY <2>15 DEF Accept, UpdateResult, Leave
  <2>16. CASE Release(w)
    <3>1. CASE Goto(w, "record")
      BY <2>16, <3>1 DEF Release, Goto
    <3>2. CASE Finish(w, "completed")
      BY <2>16, <3>2 DEF Release, Finish
    <3> QED BY <2>16, <3>1, <3>2 DEF Release, AfterRelease
  <2>17. CASE Record(w)
    BY <2>17 DEF Record, UpdateResult, Finish
  <2> QED BY <1>8, <2>1, <2>2, <2>3, <2>4, <2>5, <2>6, <2>7, <2>8, <2>9,
          <2>10, <2>11, <2>12, <2>13, <2>14, <2>15, <2>16, <2>17
          DEF WorkerStep
<1> QED BY <1>0, <1>1, <1>2, <1>3, <1>4, <1>5, <1>6, <1>7, <1>8 DEF Next

\* A worker records FAILED only before its POST or after a definitive rejection.
LEMMA OutcomeStep == TypeOK /\ TypeOK' /\ AttemptInv /\ PostInv /\ OutcomeInv /\ [Next]_vars => OutcomeInv'
<1> SUFFICES ASSUME TypeOK, TypeOK', AttemptInv, PostInv, OutcomeInv, [Next]_vars PROVE OutcomeInv'
  OBVIOUS
<1> USE DEF TypeOK, PcState, messageJobs, sessionLeases, scheduler, workers,
            openwa, OutcomeInv, OutcomeHonest, Attempting, LC!Acknowledged
<1>0. CASE UNCHANGED vars
  BY <1>0 DEF vars
<1>1. CASE Elapse
  BY <1>1 DEF Elapse, Dec
<1>2. CASE \E j \in Job : Create(j)
  BY <1>2 DEF Create
<1>3. CASE \E j \in Job : Cancel(j)
  BY <1>3 DEF Cancel
<1>4. CASE \E j \in Job : UpstreamAccepts(j)
  BY <1>4 DEF UpstreamAccepts
<1>5. CASE \E j \in Job, a \in LC!AckStatus : Acknowledge(j, a)
  BY <1>5 DEF Acknowledge, LC!AckMoves, LC!AckStatus
<1>6. CASE SchedulerStep
  <2>1. CASE RecoverStaleQueued
    BY <2>1 DEF RecoverStaleQueued
  <2>2. CASE MarkExpiredProcessingUnknown
    BY <2>2 DEF MarkExpiredProcessingUnknown
  <2>3. CASE ClaimDue
    BY <2>3 DEF ClaimDue, Due
  <2>4. CASE \E j \in Job : Publish(j)
    BY <2>4 DEF Publish
  <2>5. CASE ResetQueued
    BY <2>5 DEF ResetQueued
  <2>6. CASE TickDone
    BY <2>6 DEF TickDone
  <2> QED BY <1>6, <2>1, <2>2, <2>3, <2>4, <2>5, <2>6
          DEF SchedulerStep
<1>7. CASE Fault
  <2>1. CASE TickAborts
    BY <2>1 DEF TickAborts
  <2>2. CASE \E j \in Job : PublishFails(j) \/ Stalls(j) \/ QueueForgets(j)
    BY <2>2 DEF PublishFails, Stalls, QueueForgets
  <2>3. CASE \E w \in Worker : QueryThrows(w)
    <3> PICK w \in Worker : QueryThrows(w)
      BY <2>3
    <3>1. CASE Finish(w, "failed")
      BY <3>1 DEF QueryThrows, Finish
    <3>2. CASE pc[w] \in {"acquire", "assertHeld", "delay", "verify"}
                 /\ Leave(w, "FAILED")
      BY <3>2 DEF QueryThrows, Leave, PostInv, BeforePost
    <3>2b. CASE pc[w] = "accept" /\ Leave(w, "UNKNOWN")
      BY <3>2b DEF QueryThrows, Leave
    <3>3. CASE pc[w] = "release" /\ AfterRelease(w)
      <4>1. CASE Goto(w, "record")
        BY <3>3, <4>1 DEF QueryThrows, Goto
      <4>2. CASE Finish(w, "completed")
        BY <3>3, <4>2 DEF QueryThrows, Finish
      <4> QED BY <3>3, <4>1, <4>2 DEF AfterRelease
    <3> QED BY <3>1, <3>2, <3>2b, <3>3 DEF QueryThrows
  <2>4. CASE \E w \in Worker : Crash(w)
    BY <2>4 DEF Crash
  <2> QED BY <1>7, <2>1, <2>2, <2>3, <2>4
          DEF Fault
<1>8. ASSUME NEW w \in Worker, WorkerStep(w) \/ AssertWaiting(w) PROVE OutcomeInv'
  <2>1. CASE \E j \in Job : Take(w, j)
    BY <2>1 DEF Take
  <2>2. CASE MarkProcessing(w)
    <3> job[w] \in Job
      BY <2>2 DEF MarkProcessing
    <3>1. CASE status[job[w]] = "QUEUED"
      BY <2>2, <3>1 DEF MarkProcessing
    <3>2. CASE status[job[w]] # "QUEUED"
      BY SMTT(30), <2>2, <3>2 DEF MarkProcessing, Finish
    <3> QED BY <3>1, <3>2
  <2>3. CASE CompleteDryRun(w)
    BY SMTT(30), <2>3 DEF CompleteDryRun, UpdateResult, Finish, AttemptInv
  <2>4. CASE BlockLiveSend(w)
    BY <2>4 DEF BlockLiveSend, UpdateResult, Finish, AttemptInv, PostInv,
      BeforePost
  <2>5. CASE AllowLiveSend(w)
    BY <2>5 DEF AllowLiveSend, Goto
  <2>6. CASE TryAcquire(w)
    BY <2>6 DEF TryAcquire, Goto
  <2>7. CASE AssertWaiting(w)
    BY <2>7 DEF AssertWaiting, AssertMessageProcessing, Goto, Leave
  <2>8. CASE AssertHeld(w)
    BY <2>8 DEF AssertHeld, AssertMessageProcessing, Goto, Leave
  <2>9. CASE Renew(w)
    BY <2>9 DEF Renew, Goto, Leave, PostInv, BeforePost
  <2>10. CASE AssertForSend(w)
    BY <2>10 DEF AssertForSend, AssertMessageProcessing, Goto, Leave
  <2>11. CASE StartPost(w)
    BY <2>11 DEF StartPost, AttemptInv, PostInv, BeforePost
  <2>12. CASE PostSucceeds(w)
    BY <2>12 DEF PostSucceeds
  <2>13. CASE PostRejected(w)
    BY <2>13 DEF PostRejected, Leave, AttemptInv
  <2>14. CASE PostAmbiguous(w)
    BY <2>14 DEF PostAmbiguous, Leave
  <2>15. CASE Accept(w)
    BY <2>15 DEF Accept, UpdateResult, Leave, AttemptInv
  <2>16. CASE Release(w)
    <3>1. CASE Goto(w, "record")
      BY <2>16, <3>1 DEF Release, Goto
    <3>2. CASE Finish(w, "completed")
      BY <2>16, <3>2 DEF Release, Finish
    <3> QED BY <2>16, <3>1, <3>2 DEF Release, AfterRelease
  <2>17. CASE Record(w)
    BY SMTT(30), <2>17 DEF Record, UpdateResult, Finish, AttemptInv
  <2> QED BY <1>8, <2>1, <2>2, <2>3, <2>4, <2>5, <2>6, <2>7, <2>8, <2>9,
          <2>10, <2>11, <2>12, <2>13, <2>14, <2>15, <2>16, <2>17
          DEF WorkerStep
<1> QED BY <1>0, <1>1, <1>2, <1>3, <1>4, <1>5, <1>6, <1>7, <1>8 DEF Next

\* A lease that covers a sender is neither expired nor another attempt's, so
\* no other worker takes, renews or deletes it.
LEMMA LeaseStep == Timely /\ TypeOK /\ TypeOK' /\ AttemptInv /\ LeaseInv /\ [Next]_vars => LeaseInv'
<1> SUFFICES ASSUME Timely, TypeOK, TypeOK', AttemptInv, LeaseInv, [Next]_vars PROVE LeaseInv'
  OBVIOUS
<1> USE DEF TypeOK, PcState, messageJobs, sessionLeases, scheduler, workers,
            openwa, LeaseInv, Holds, Timed, Timely
<1>0. CASE UNCHANGED vars
  BY <1>0 DEF vars
<1>1. CASE Elapse
  BY <1>1 DEF Elapse, Dec
<1>2. CASE \E j \in Job : Create(j)
  BY <1>2 DEF Create
<1>3. CASE \E j \in Job : Cancel(j)
  BY <1>3 DEF Cancel
<1>4. CASE \E j \in Job : UpstreamAccepts(j)
  BY <1>4 DEF UpstreamAccepts
<1>5. CASE \E j \in Job, a \in LC!AckStatus : Acknowledge(j, a)
  BY <1>5 DEF Acknowledge, LC!AckMoves, LC!AckStatus
<1>6. CASE SchedulerStep
  <2>1. CASE RecoverStaleQueued
    BY <2>1 DEF RecoverStaleQueued
  <2>2. CASE MarkExpiredProcessingUnknown
    BY <2>2 DEF MarkExpiredProcessingUnknown
  <2>3. CASE ClaimDue
    BY <2>3 DEF ClaimDue, Due
  <2>4. CASE \E j \in Job : Publish(j)
    BY <2>4 DEF Publish
  <2>5. CASE ResetQueued
    BY <2>5 DEF ResetQueued
  <2>6. CASE TickDone
    BY <2>6 DEF TickDone
  <2> QED BY <1>6, <2>1, <2>2, <2>3, <2>4, <2>5, <2>6
          DEF SchedulerStep
<1>7. CASE Fault
  <2>1. CASE TickAborts
    BY <2>1 DEF TickAborts
  <2>2. CASE \E j \in Job : PublishFails(j) \/ Stalls(j) \/ QueueForgets(j)
    BY <2>2 DEF PublishFails, Stalls, QueueForgets
  <2>3. CASE \E w \in Worker : QueryThrows(w)
    <3> PICK w \in Worker : QueryThrows(w)
      BY <2>3
    <3>1. CASE Finish(w, "failed")
      BY <3>1 DEF QueryThrows, Finish
    <3>2. CASE pc[w] \in {"acquire", "assertHeld", "delay", "verify"}
                 /\ Leave(w, "FAILED")
      BY <3>2 DEF QueryThrows, Leave
    <3>2b. CASE pc[w] = "accept" /\ Leave(w, "UNKNOWN")
      BY <3>2b DEF QueryThrows, Leave
    <3>3. CASE pc[w] = "release" /\ AfterRelease(w)
      <4>1. CASE Goto(w, "record")
        BY <3>3, <4>1 DEF QueryThrows, Goto
      <4>2. CASE Finish(w, "completed")
        BY <3>3, <4>2 DEF QueryThrows, Finish
      <4> QED BY <3>3, <4>1, <4>2 DEF AfterRelease
    <3> QED BY <3>1, <3>2, <3>2b, <3>3 DEF QueryThrows
  <2>4. CASE \E w \in Worker : Crash(w)
    BY <2>4 DEF Crash
  <2> QED BY <1>7, <2>1, <2>2, <2>3, <2>4
          DEF Fault
<1>8. ASSUME NEW w \in Worker, WorkerStep(w) \/ AssertWaiting(w) PROVE LeaseInv'
  <2>1. CASE \E j \in Job : Take(w, j)
    BY <2>1 DEF Take
  <2>2. CASE MarkProcessing(w)
    <3> job[w] \in Job
      BY <2>2 DEF MarkProcessing
    <3>1. CASE status[job[w]] = "QUEUED"
      BY <2>2, <3>1 DEF MarkProcessing
    <3>2. CASE status[job[w]] # "QUEUED"
      BY <2>2, <3>2 DEF MarkProcessing, Finish
    <3> QED BY <3>1, <3>2
  <2>3. CASE CompleteDryRun(w)
    BY <2>3 DEF CompleteDryRun, UpdateResult, Finish
  <2>4. CASE BlockLiveSend(w)
    BY <2>4 DEF BlockLiveSend, UpdateResult, Finish
  <2>5. CASE AllowLiveSend(w)
    BY <2>5 DEF AllowLiveSend, Goto
  <2>6. CASE TryAcquire(w)
    BY SMTT(30), <2>6 DEF TryAcquire, Goto, AttemptInv, Attempting
  <2>7. CASE AssertWaiting(w)
    BY <2>7 DEF AssertWaiting, AssertMessageProcessing, Goto, Leave
  <2>8. CASE AssertHeld(w)
    BY <2>8 DEF AssertHeld, AssertMessageProcessing, Goto, Leave
  <2>9. CASE Renew(w)
    BY SMTT(30), <2>9 DEF Renew, Goto, Leave, AttemptInv, Attempting
  <2>10. CASE AssertForSend(w)
    BY <2>10 DEF AssertForSend, AssertMessageProcessing, Goto, Leave
  <2>11. CASE StartPost(w)
    BY <2>11 DEF StartPost
  <2>12. CASE PostSucceeds(w)
    BY <2>12 DEF PostSucceeds
  <2>13. CASE PostRejected(w)
    BY <2>13 DEF PostRejected, Leave
  <2>14. CASE PostAmbiguous(w)
    BY <2>14 DEF PostAmbiguous, Leave
  <2>15. CASE Accept(w)
    BY <2>15 DEF Accept, UpdateResult, Leave
  <2>16. CASE Release(w)
    <3> USE DEF AttemptInv, Attempting
    <3>1. CASE Goto(w, "record")
      BY <2>16, <3>1 DEF Release, Goto
    <3>2. CASE Finish(w, "completed")
      BY SMTT(30), <2>16, <3>2 DEF Release, Finish
    <3> QED BY <2>16, <3>1, <3>2 DEF Release, AfterRelease
  <2>17. CASE Record(w)
    BY <2>17 DEF Record, UpdateResult, Finish
  <2> QED BY <1>8, <2>1, <2>2, <2>3, <2>4, <2>5, <2>6, <2>7, <2>8, <2>9,
          <2>10, <2>11, <2>12, <2>13, <2>14, <2>15, <2>16, <2>17
          DEF WorkerStep
<1> QED BY <1>0, <1>1, <1>2, <1>3, <1>4, <1>5, <1>6, <1>7, <1>8 DEF Next

\* The row of a worker about to POST keeps an unexpired processing lease.
LEMMA ReadyStep == Timely /\ TypeOK /\ TypeOK' /\ AttemptInv /\ OutcomeInv /\ LeaseInv /\ ReadyInv /\ [Next]_vars => ReadyInv'
<1> SUFFICES ASSUME Timely, TypeOK, TypeOK', AttemptInv, OutcomeInv, LeaseInv, ReadyInv, [Next]_vars PROVE ReadyInv'
  OBVIOUS
<1> USE DEF TypeOK, PcState, messageJobs, sessionLeases, scheduler, workers,
            openwa, ReadyInv, Timely
<1>0. CASE UNCHANGED vars
  BY <1>0 DEF vars
<1>1. CASE Elapse
  BY <1>1 DEF Elapse, Dec, LeaseInv, Timed
<1>2. CASE \E j \in Job : Create(j)
  BY <1>2 DEF Create
<1>3. CASE \E j \in Job : Cancel(j)
  BY <1>3 DEF Cancel
<1>4. CASE \E j \in Job : UpstreamAccepts(j)
  BY <1>4 DEF UpstreamAccepts
<1>5. CASE \E j \in Job, a \in LC!AckStatus : Acknowledge(j, a)
  BY <1>5 DEF Acknowledge, LC!AckMoves, LC!AckStatus, OutcomeInv,
    LC!Acknowledged
<1>6. CASE SchedulerStep
  <2>1. CASE RecoverStaleQueued
    BY <2>1 DEF RecoverStaleQueued
  <2>2. CASE MarkExpiredProcessingUnknown
    BY <2>2 DEF MarkExpiredProcessingUnknown, LeaseInv
  <2>3. CASE ClaimDue
    BY <2>3 DEF ClaimDue, Due
  <2>4. CASE \E j \in Job : Publish(j)
    BY <2>4 DEF Publish
  <2>5. CASE ResetQueued
    BY <2>5 DEF ResetQueued
  <2>6. CASE TickDone
    BY <2>6 DEF TickDone
  <2> QED BY <1>6, <2>1, <2>2, <2>3, <2>4, <2>5, <2>6
          DEF SchedulerStep
<1>7. CASE Fault
  <2>1. CASE TickAborts
    BY <2>1 DEF TickAborts
  <2>2. CASE \E j \in Job : PublishFails(j) \/ Stalls(j) \/ QueueForgets(j)
    BY <2>2 DEF PublishFails, Stalls, QueueForgets
  <2>3. CASE \E w \in Worker : QueryThrows(w)
    <3> PICK w \in Worker : QueryThrows(w)
      BY <2>3
    <3>1. CASE Finish(w, "failed")
      BY <3>1 DEF QueryThrows, Finish
    <3>2. CASE pc[w] \in {"acquire", "assertHeld", "delay", "verify"}
                 /\ Leave(w, "FAILED")
      BY <3>2 DEF QueryThrows, Leave
    <3>2b. CASE pc[w] = "accept" /\ Leave(w, "UNKNOWN")
      BY <3>2b DEF QueryThrows, Leave
    <3>3. CASE pc[w] = "release" /\ AfterRelease(w)
      <4>1. CASE Goto(w, "record")
        BY <3>3, <4>1 DEF QueryThrows, Goto
      <4>2. CASE Finish(w, "completed")
        BY <3>3, <4>2 DEF QueryThrows, Finish
      <4> QED BY <3>3, <4>1, <4>2 DEF AfterRelease
    <3> QED BY <3>1, <3>2, <3>2b, <3>3 DEF QueryThrows
  <2>4. CASE \E w \in Worker : Crash(w)
    BY <2>4 DEF Crash
  <2> QED BY <1>7, <2>1, <2>2, <2>3, <2>4
          DEF Fault
<1>8. ASSUME NEW w \in Worker, WorkerStep(w) \/ AssertWaiting(w) PROVE ReadyInv'
  <2>1. CASE \E j \in Job : Take(w, j)
    BY <2>1 DEF Take
  <2>2. CASE MarkProcessing(w)
    <3> job[w] \in Job
      BY <2>2 DEF MarkProcessing
    <3>1. CASE status[job[w]] = "QUEUED"
      BY <2>2, <3>1 DEF MarkProcessing
    <3>2. CASE status[job[w]] # "QUEUED"
      BY <2>2, <3>2 DEF MarkProcessing, Finish
    <3> QED BY <3>1, <3>2
  <2>3. CASE CompleteDryRun(w)
    BY <2>3 DEF CompleteDryRun, UpdateResult, Finish, AttemptInv, Attempting
  <2>4. CASE BlockLiveSend(w)
    BY SMTT(30), <2>4 DEF BlockLiveSend, UpdateResult, Finish, AttemptInv, Attempting
  <2>5. CASE AllowLiveSend(w)
    BY <2>5 DEF AllowLiveSend, Goto
  <2>6. CASE TryAcquire(w)
    BY <2>6 DEF TryAcquire, Goto
  <2>7. CASE AssertWaiting(w)
    BY <2>7 DEF AssertWaiting, AssertMessageProcessing, Goto, Leave, LeaseInv
  <2>8. CASE AssertHeld(w)
    BY <2>8 DEF AssertHeld, AssertMessageProcessing, Goto, Leave, LeaseInv
  <2>9. CASE Renew(w)
    BY <2>9 DEF Renew, Goto, Leave
  <2>10. CASE AssertForSend(w)
    BY <2>10 DEF AssertForSend, AssertMessageProcessing, Goto, Leave, LeaseInv
  <2>11. CASE StartPost(w)
    BY <2>11 DEF StartPost
  <2>12. CASE PostSucceeds(w)
    BY <2>12 DEF PostSucceeds
  <2>13. CASE PostRejected(w)
    BY <2>13 DEF PostRejected, Leave
  <2>14. CASE PostAmbiguous(w)
    BY <2>14 DEF PostAmbiguous, Leave
  <2>15. CASE Accept(w)
    BY <2>15 DEF Accept, UpdateResult, Leave, AttemptInv, Attempting
  <2>16. CASE Release(w)
    <3>1. CASE Goto(w, "record")
      BY <2>16, <3>1 DEF Release, Goto
    <3>2. CASE Finish(w, "completed")
      BY <2>16, <3>2 DEF Release, Finish
    <3> QED BY <2>16, <3>1, <3>2 DEF Release, AfterRelease
  <2>17. CASE Record(w)
    BY <2>17 DEF Record, UpdateResult, Finish, AttemptInv, Attempting
  <2> QED BY <1>8, <2>1, <2>2, <2>3, <2>4, <2>5, <2>6, <2>7, <2>8, <2>9,
          <2>10, <2>11, <2>12, <2>13, <2>14, <2>15, <2>16, <2>17
          DEF WorkerStep
<1> QED BY <1>0, <1>1, <1>2, <1>3, <1>4, <1>5, <1>6, <1>7, <1>8 DEF Next

\* Every step of the system is, for each job, a step of its lifecycle or none.
LEMMA RefinementStep == Timely /\ TypeOK /\ TypeOK' /\ AttemptInv /\ PostInv /\ OutcomeInv /\ ReadyInv /\ [Next]_vars => \A j \in Job : LC!Moves(j) \/ LC!Posts(j) \/ LC!Stays(j)
<1> SUFFICES ASSUME Timely, TypeOK, TypeOK', AttemptInv, PostInv, OutcomeInv, ReadyInv, [Next]_vars PROVE \A j \in Job : LC!Moves(j) \/ LC!Posts(j) \/ LC!Stays(j)
  OBVIOUS
<1> USE DEF TypeOK, PcState, messageJobs, sessionLeases, scheduler, workers,
            openwa, LC!Moves, LC!Posts, LC!Stays, LC!Edge, LC!Outcome
<1>0. CASE UNCHANGED vars
  BY <1>0 DEF vars
<1>1. CASE Elapse
  BY <1>1 DEF Elapse, Dec
<1>2. CASE \E j \in Job : Create(j)
  BY <1>2 DEF Create
<1>3. CASE \E j \in Job : Cancel(j)
  BY <1>3 DEF Cancel
<1>4. CASE \E j \in Job : UpstreamAccepts(j)
  BY <1>4 DEF UpstreamAccepts
<1>5. CASE \E j \in Job, a \in LC!AckStatus : Acknowledge(j, a)
  BY <1>5 DEF Acknowledge, LC!AckMoves, LC!AckStatus, OutcomeInv,
    LC!Acknowledged, LC!AckStatus
<1>6. CASE SchedulerStep
  <2>1. CASE RecoverStaleQueued
    BY <2>1 DEF RecoverStaleQueued
  <2>2. CASE MarkExpiredProcessingUnknown
    BY <2>2 DEF MarkExpiredProcessingUnknown
  <2>3. CASE ClaimDue
    BY <2>3 DEF ClaimDue, Due
  <2>4. CASE \E j \in Job : Publish(j)
    BY <2>4 DEF Publish
  <2>5. CASE ResetQueued
    BY <2>5 DEF ResetQueued
  <2>6. CASE TickDone
    BY <2>6 DEF TickDone
  <2> QED BY <1>6, <2>1, <2>2, <2>3, <2>4, <2>5, <2>6
          DEF SchedulerStep
<1>7. CASE Fault
  <2>1. CASE TickAborts
    BY <2>1 DEF TickAborts
  <2>2. CASE \E j \in Job : PublishFails(j) \/ Stalls(j) \/ QueueForgets(j)
    BY <2>2 DEF PublishFails, Stalls, QueueForgets
  <2>3. CASE \E w \in Worker : QueryThrows(w)
    <3> PICK w \in Worker : QueryThrows(w)
      BY <2>3
    <3>1. CASE Finish(w, "failed")
      BY <3>1 DEF QueryThrows, Finish
    <3>2. CASE pc[w] \in {"acquire", "assertHeld", "delay", "verify"}
                 /\ Leave(w, "FAILED")
      BY <3>2 DEF QueryThrows, Leave
    <3>2b. CASE pc[w] = "accept" /\ Leave(w, "UNKNOWN")
      BY <3>2b DEF QueryThrows, Leave
    <3>3. CASE pc[w] = "release" /\ AfterRelease(w)
      <4>1. CASE Goto(w, "record")
        BY <3>3, <4>1 DEF QueryThrows, Goto
      <4>2. CASE Finish(w, "completed")
        BY <3>3, <4>2 DEF QueryThrows, Finish
      <4> QED BY <3>3, <4>1, <4>2 DEF AfterRelease
    <3> QED BY <3>1, <3>2, <3>2b, <3>3 DEF QueryThrows
  <2>4. CASE \E w \in Worker : Crash(w)
    BY <2>4 DEF Crash
  <2> QED BY <1>7, <2>1, <2>2, <2>3, <2>4
          DEF Fault
<1>8. ASSUME NEW w \in Worker, WorkerStep(w) \/ AssertWaiting(w) PROVE \A j \in Job : LC!Moves(j) \/ LC!Posts(j) \/ LC!Stays(j)
  <2>1. CASE \E j \in Job : Take(w, j)
    BY <2>1 DEF Take
  <2>2. CASE MarkProcessing(w)
    <3> job[w] \in Job
      BY <2>2 DEF MarkProcessing
    <3>1. CASE status[job[w]] = "QUEUED"
      BY <2>2, <3>1 DEF MarkProcessing
    <3>2. CASE status[job[w]] # "QUEUED"
      BY <2>2, <3>2 DEF MarkProcessing, Finish
    <3> QED BY <3>1, <3>2
  <2>3. CASE CompleteDryRun(w)
    BY <2>3 DEF CompleteDryRun, UpdateResult, Finish, PostInv, BeforePost
  <2>4. CASE BlockLiveSend(w)
    BY <2>4 DEF BlockLiveSend, UpdateResult, Finish
  <2>5. CASE AllowLiveSend(w)
    BY <2>5 DEF AllowLiveSend, Goto
  <2>6. CASE TryAcquire(w)
    BY <2>6 DEF TryAcquire, Goto
  <2>7. CASE AssertWaiting(w)
    BY <2>7 DEF AssertWaiting, AssertMessageProcessing, Goto, Leave
  <2>8. CASE AssertHeld(w)
    BY <2>8 DEF AssertHeld, AssertMessageProcessing, Goto, Leave
  <2>9. CASE Renew(w)
    BY <2>9 DEF Renew, Goto, Leave
  <2>10. CASE AssertForSend(w)
    BY <2>10 DEF AssertForSend, AssertMessageProcessing, Goto, Leave
  <2>11. CASE StartPost(w)
    BY <2>11 DEF StartPost, ReadyInv, PostInv, BeforePost
  <2>12. CASE PostSucceeds(w)
    BY <2>12 DEF PostSucceeds
  <2>13. CASE PostRejected(w)
    BY <2>13 DEF PostRejected, Leave
  <2>14. CASE PostAmbiguous(w)
    BY <2>14 DEF PostAmbiguous, Leave
  <2>15. CASE Accept(w)
    BY <2>15 DEF Accept, UpdateResult, Leave, OutcomeInv, PostInv
  <2>16. CASE Release(w)
    <3>1. CASE Goto(w, "record")
      BY <2>16, <3>1 DEF Release, Goto
    <3>2. CASE Finish(w, "completed")
      BY <2>16, <3>2 DEF Release, Finish
    <3> QED BY <2>16, <3>1, <3>2 DEF Release, AfterRelease
  <2>17. CASE Record(w)
    BY <2>17 DEF Record, UpdateResult, Finish
  <2> QED BY <1>8, <2>1, <2>2, <2>3, <2>4, <2>5, <2>6, <2>7, <2>8, <2>9,
          <2>10, <2>11, <2>12, <2>13, <2>14, <2>15, <2>16, <2>17
          DEF WorkerStep
<1> QED BY <1>0, <1>1, <1>2, <1>3, <1>4, <1>5, <1>6, <1>7, <1>8 DEF Next

\* The invariant holds initially ...
LEMMA InitInv == Init => DeliveryInv /\ LeaseInv /\ ReadyInv
  BY DEF Init, DeliveryInv, TypeOK, AttemptInv, PostInv, OutcomeInv, LeaseInv, ReadyInv,
         Attempting, Unclaimed, BeforePost, OutcomeHonest, Timed, BullState, PcState,
         LC!Status, LC!Acknowledged

\* ... and every step keeps it.
LEMMA DeliveryStep == DeliveryInv /\ [Next]_vars => DeliveryInv'
  BY TypeStep, AttemptStep, PostStep, OutcomeStep DEF DeliveryInv

\* The same with the leases, when the gap between renewal and POST is bounded.
LEMMA TimedStep == Timely /\ TimedDeliveryInv /\ [Next]_vars => TimedDeliveryInv'
  BY DeliveryStep, LeaseStep, ReadyStep DEF DeliveryInv, TimedDeliveryInv

(***************************************************************************)
(* The types of the tables, the queue and the workers.                     *)
(***************************************************************************)
THEOREM TypeCorrect == Spec => []TypeOK
<1>1. Init => DeliveryInv
  BY InitInv
<1>2. DeliveryInv => TypeOK
  BY DEF DeliveryInv
<1> QED BY <1>1, <1>2, DeliveryStep, PTL DEF Spec

(***************************************************************************)
(* At most one OpenWA POST per job, whatever crashes, stalls and           *)
(* redeliveries happen and whatever the timing (markProcessing).           *)
(***************************************************************************)
THEOREM PostOnce == Spec => []AtMostOnePost
<1>1. Init => DeliveryInv
  BY InitInv
<1>2. DeliveryInv => AtMostOnePost
  BY DEF DeliveryInv, TypeOK, PostInv, AtMostOnePost, Unclaimed
<1> QED BY <1>1, <1>2, DeliveryStep, PTL DEF Spec

(***************************************************************************)
(* FAILED without a message id proves that OpenWA has not the message      *)
(* (the catch block of process).                                           *)
(***************************************************************************)
THEOREM FailureHonest == Spec => []OutcomeHonest
<1>1. Init => DeliveryInv
  BY InitInv
<1>2. DeliveryInv => OutcomeHonest
  BY DEF DeliveryInv, OutcomeInv
<1> QED BY <1>1, <1>2, DeliveryStep, PTL DEF Spec

(***************************************************************************)
(* If the POST starts and ends within the renewed session lease, the       *)
(* sender owns that lease throughout and the sends of a session never      *)
(* overlap (verifyForSend).                                                *)
(***************************************************************************)
THEOREM SessionExclusive ==
  ASSUME Timely PROVE Spec => [](PosterOwnsSession /\ SendsSerialized)
<1>1. Init => TimedDeliveryInv
  BY InitInv DEF TimedDeliveryInv
<1>2. TimedDeliveryInv /\ [Next]_vars => TimedDeliveryInv'
  BY TimedStep
<1>3. TimedDeliveryInv => PosterOwnsSession /\ SendsSerialized
  <2> SUFFICES ASSUME TimedDeliveryInv PROVE PosterOwnsSession /\ SendsSerialized
    OBVIOUS
  <2>1. PosterOwnsSession
    BY DEF TimedDeliveryInv, DeliveryInv, TypeOK, LeaseInv, PosterOwnsSession, Timely
  <2>2. SendsSerialized
    BY <2>1 DEF TimedDeliveryInv, DeliveryInv, AttemptInv, Attempting,
                PosterOwnsSession, SendsSerialized, Holds
  <2> QED BY <2>1, <2>2
<1> QED BY <1>1, <1>2, <1>3, PTL DEF Spec

(***************************************************************************)
(* MessageDelivery implements MessageJobLifecycle under the same timing.   *)
(***************************************************************************)
THEOREM LifecycleImplemented == ASSUME Timely PROVE Spec => Lifecycle
<1>1. Init => TimedDeliveryInv /\ LC!Init
  BY InitInv DEF TimedDeliveryInv, Init, LC!Init
<1>2. TimedDeliveryInv /\ [Next]_vars => TimedDeliveryInv'
  BY TimedStep
<1>3. TimedDeliveryInv /\ TimedDeliveryInv' /\ [Next]_vars
        => [LC!Next]_(LC!lifecycleVars)
  <2> SUFFICES ASSUME TimedDeliveryInv, TimedDeliveryInv', [Next]_vars PROVE LC!Next
    OBVIOUS
  <2>1. \A j \in Job : LC!Moves(j) \/ LC!Posts(j) \/ LC!Stays(j)
    BY RefinementStep DEF TimedDeliveryInv, DeliveryInv
  <2>2. status' \in [Job -> LC!Status]
    BY DEF TimedDeliveryInv, DeliveryInv, TypeOK
  <2>3. posts' \in [Job -> 0..1]
    BY DEF TimedDeliveryInv, DeliveryInv, TypeOK, PostInv
  <2> QED BY <2>1, <2>2, <2>3 DEF LC!Next
<1> QED BY <1>1, <1>2, <1>3, PTL DEF Spec, Lifecycle, LC!Spec
=============================================================================
