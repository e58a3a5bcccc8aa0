--------------------------- MODULE GatewaySync_proofs ---------------------------
(***************************************************************************)
(* Machine-checked proofs about GatewaySync, for any runs, groups, workers *)
(* and limits.                                                             *)
(***************************************************************************)
EXTENDS GatewaySync, FiniteSetTheorems, TLAPS

USE SyncAssumption

DiscoverySteps == {"list", "publish", "failing"}
ItemSteps == {"read", "renew", "skip", "write", "complete", "failUpstream", "failPersistence",
              "commit"}

\* A worker works on a run or on an item; only in the commit step it has a transaction open,
\* and that settles its item.
WorkerInv ==
  \A w \in Worker :
    /\ pc[w] \in DiscoverySteps => task[w] \in Run \X {NoOne}
    /\ pc[w] \in ItemSteps => task[w] \in Item
    /\ txn[w].settles = IF pc[w] = "commit" THEN {task[w]} ELSE {}

\* One run of the session is RUNNING, and its epoch is the session's.
RunInv ==
  /\ \A r \in Run : status[r] = "RUNNING" => attempts[r] > 0 /\ epoch[r] = current_epoch
  /\ \A r, s \in Run : status[r] = "RUNNING" /\ status[s] = "RUNNING" => r = s

\* A run with items has published them and holds no lease; it runs while one of them is open,
\* and while it runs its groups are those of the last snapshot.
ItemInv ==
  \A i \in Item : item[i] # "NONE" =>
    /\ token[i[1]] = NoOne /\ status[i[1]] \in {"RUNNING", "COMPLETED", "FAILED"}
    /\ item[i] \in Open => status[i[1]] = "RUNNING"
    /\ item[i] = "FAILED" => status[i[1]] # "COMPLETED"
    /\ status[i[1]] = "RUNNING" => i[2] \in published

\* A transaction has the rows it settles for itself; what it saw as settled is settled still.
SettlesInv ==
  \A a \in Actor : \A i \in txn[a].settles :
    /\ item[i] = "RUNNING" /\ txn[a].view[i] \in {"RETRY", "COMPLETED", "FAILED", "SKIPPED"}
    /\ \A j \in Item \ txn[a].settles :
         j[1] = i[1] /\ txn[a].view[j] \notin Open => item[j] = txn[a].view[j]
LockInv ==
  \A a, b \in Actor : a # b => txn[a].settles \cap txn[b].settles = {}

\* A live item lease is covered by a live pacing lease of the same worker, which is busy with
\* that item or has forgotten it.
PacingInv ==
  /\ \A i \in freshItems : item[i] = "RUNNING" /\ itemToken[i] = pacing /\ pacingFresh
  /\ \A i, j \in freshItems : i = j
  /\ \A w \in Worker, i \in freshItems : pc[w] \in ItemSteps /\ pacing = w => task[w] = i

Inv == /\ TypeOK /\ WorkerInv /\ RunInv /\ ItemInv /\ SettlesInv /\ LockInv /\ PacingInv
       /\ SnapshotAuthoritative
-----------------------------------------------------------------------------
(***************************************************************************)
(* Steps that leave the rows of runs and items alone: workers go on or     *)
(* give up, leases lapse, transactions are rolled back.                    *)
(***************************************************************************)
Tasks == (Run \X (Group \cup {NoOne})) \cup {NoTask}
WorkersTyped ==
  /\ pc \in [Worker -> Step] /\ task \in [Worker -> Tasks]
  /\ claimed \in [Worker -> Nat] /\ seen \in [Worker -> SUBSET Group]

Stays(w) == pc'[w] = pc[w] /\ task'[w] = task[w] /\ txn'[w].settles = txn[w].settles
Stops(w) == pc'[w] = "idle" /\ txn'[w].settles = {}
Advances(w) ==
  /\ task'[w] = task[w] /\ txn'[w].settles = {}
  /\ \/ pc[w] \in DiscoverySteps /\ pc'[w] \in DiscoverySteps
     \/ pc[w] \in ItemSteps /\ pc'[w] \in ItemSteps \ {"commit"}
WorkerMoves ==
  /\ WorkersTyped'
  /\ \A w \in Worker : Stays(w) \/ Stops(w) \/ Advances(w)

\* A pacing lease lapses or is released once no item lease is live.
LimitMoves ==
  /\ freshItems' \subseteq freshItems
  /\ \/ pacing' = pacing /\ (pacingFresh => pacingFresh')
     \/ freshItems' = {}
  /\ pacing' \in Worker \cup {NoOne} /\ pacingFresh' \in BOOLEAN

TxnMoves == txn' = txn \/ \E a \in Actor : txn' = [txn EXCEPT ![a] = NoTxn]

Rows == <<status, phase, mode, attempts, epoch, token, fence, item, itemAttempts, itemToken,
          groups, snapshot>>

\* An empty transaction has its type.
LEMMA NoTxnTyped ==
  NoTxn \in [settles : SUBSET Item, view : [Item -> ItemStatus]] /\ NoTxn.settles = {}
BY DEF NoTxn, ItemStatus

\* Transactions are those of before, or empty.
LEMMA TxnMovesTo ==
  ASSUME TypeOK, TxnMoves
  PROVE  /\ txn' \in [Actor -> [settles : SUBSET Item, view : [Item -> ItemStatus]]]
         /\ \A a \in Actor : txn'[a] = txn[a] \/ txn'[a].settles = {}
<1>1. txn \in [Actor -> [settles : SUBSET Item, view : [Item -> ItemStatus]]]
  BY DEF TypeOK
<1>2. CASE txn' = txn
  BY <1>1, <1>2
<1>3. ASSUME NEW a \in Actor, txn' = [txn EXCEPT ![a] = NoTxn]
      PROVE  /\ txn' \in [Actor -> [settles : SUBSET Item, view : [Item -> ItemStatus]]]
             /\ \A b \in Actor : txn'[b] = txn[b] \/ txn'[b].settles = {}
  <2> HIDE DEF NoTxn
  <2> QED BY <1>1, <1>3, NoTxnTyped
<1> QED BY <1>2, <1>3 DEF TxnMoves

\* The steps of the workers keep WorkerInv.
LEMMA WorkerStep == ASSUME TypeOK, WorkerInv, WorkerMoves PROVE WorkerInv'
<1> SUFFICES ASSUME NEW w \in Worker
             PROVE  /\ pc'[w] \in DiscoverySteps => task'[w] \in Run \X {NoOne}
                    /\ pc'[w] \in ItemSteps => task'[w] \in Item
                    /\ txn'[w].settles = IF pc'[w] = "commit" THEN {task'[w]} ELSE {}
  BY DEF WorkerInv
<1>1. /\ pc[w] \in DiscoverySteps => task[w] \in Run \X {NoOne}
      /\ pc[w] \in ItemSteps => task[w] \in Item
      /\ txn[w].settles = IF pc[w] = "commit" THEN {task[w]} ELSE {}
  BY DEF WorkerInv
<1>2. CASE Stays(w)
  BY <1>1, <1>2 DEF Stays
<1>3. CASE Stops(w)
  BY <1>3 DEF Stops, DiscoverySteps, ItemSteps
<1>4. CASE Advances(w)
  BY <1>1, <1>4 DEF Advances, DiscoverySteps, ItemSteps
<1> QED BY <1>2, <1>3, <1>4 DEF WorkerMoves

\* A step that leaves the rows of runs, items and groups alone keeps the invariant.
LEMMA QuietInv ==
  ASSUME Inv, UNCHANGED Rows, WorkerMoves, LimitMoves, TxnMoves, freshRuns' \subseteq freshRuns
  PROVE  Inv'
<1>0. /\ UNCHANGED <<status, phase, mode, attempts, epoch, token, current_epoch>>
      /\ UNCHANGED <<item, itemAttempts, itemToken>>
      /\ UNCHANGED <<active, writer, published, baseline, suspect, confirmed>>
  BY DEF Rows, fence, groups, snapshot
<1>1. TypeOK'
  BY <1>0, TxnMovesTo DEF Inv, TypeOK, WorkerMoves, WorkersTyped, Tasks, LimitMoves
<1>2. WorkerInv'
  BY WorkerStep DEF Inv
<1>3. RunInv' /\ ItemInv' /\ SnapshotAuthoritative'
  BY <1>0 DEF Inv, RunInv, ItemInv, SnapshotAuthoritative
<1>4. SettlesInv'
  <2> SUFFICES ASSUME NEW a \in Actor, NEW i \in txn'[a].settles
               PROVE  /\ item[i] = "RUNNING"
                      /\ txn'[a].view[i] \in {"RETRY", "COMPLETED", "FAILED", "SKIPPED"}
                      /\ \A j \in Item \ txn'[a].settles :
                           j[1] = i[1] /\ txn'[a].view[j] \notin Open => item[j] = txn'[a].view[j]
    BY <1>0 DEF SettlesInv
  <2>1. txn'[a] = txn[a]
    BY TxnMovesTo DEF Inv
  <2> QED BY <2>1 DEF Inv, SettlesInv
<1>5. LockInv'
  BY TxnMovesTo DEF Inv, LockInv
<1>6. PacingInv'
  <2>1. CASE freshItems' = {}
    BY <2>1 DEF PacingInv
  <2>2. CASE freshItems' \subseteq freshItems /\ pacing' = pacing /\ (pacingFresh => pacingFresh')
    <3>1. ASSUME NEW i \in freshItems'
          PROVE  item'[i] = "RUNNING" /\ itemToken'[i] = pacing' /\ pacingFresh'
      BY <1>0, <2>2 DEF Inv, PacingInv
    <3>2. \A i, j \in freshItems' : i = j
      BY <2>2 DEF Inv, PacingInv
    <3>3. ASSUME NEW w \in Worker, NEW i \in freshItems', pc'[w] \in ItemSteps, pacing' = w
          PROVE  task'[w] = i
      <4>1. ~Stops(w)
        BY <3>3 DEF Stops, ItemSteps
      <4>2. pc[w] \in ItemSteps /\ task'[w] = task[w]
        BY <3>3, <4>1 DEF WorkerMoves, Stays, Advances, ItemSteps, DiscoverySteps
      <4> QED BY <2>2, <3>3, <4>2 DEF Inv, PacingInv
    <3> QED BY <3>1, <3>2, <3>3 DEF PacingInv
  <2> QED BY <2>1, <2>2 DEF LimitMoves
<1> QED BY <1>1, <1>2, <1>3, <1>4, <1>5, <1>6 DEF Inv

\* A worker that goes on within its discovery or within its item.
LEMMA GoesMoves ==
  ASSUME TypeOK, WorkerInv, NEW w \in Worker, NEW l, Goes(w, l), UNCHANGED <<task, claimed, txn>>,
         seen' \in [Worker -> SUBSET Group],
         \/ pc[w] \in DiscoverySteps /\ l \in DiscoverySteps
         \/ pc[w] \in ItemSteps \ {"commit"} /\ l \in ItemSteps \ {"commit"}
  PROVE  WorkerMoves
<1>1. l \in Step /\ pc[w] # "commit"
  BY DEF DiscoverySteps, ItemSteps, Step
<1>2. pc' = [pc EXCEPT ![w] = l] /\ pc \in [Worker -> Step]
  BY DEF Goes, TypeOK
<1>3. pc' \in [Worker -> Step] /\ pc'[w] = l /\ \A v \in Worker \ {w} : pc'[v] = pc[v]
  BY <1>1, <1>2
<1>4. WorkersTyped'
  BY <1>3 DEF TypeOK, WorkersTyped, Tasks
<1>5. txn[w].settles = {}
  BY <1>1 DEF WorkerInv
<1>6. Advances(w)
  BY <1>3, <1>5 DEF Advances
<1>7. \A v \in Worker \ {w} : Stays(v)
  BY <1>3 DEF Stays
<1> QED BY <1>4, <1>6, <1>7 DEF WorkerMoves

\* A worker that gives up, having no transaction or losing it.
LEMMA RestsMoves ==
  ASSUME TypeOK, WorkerInv, NEW w \in Worker, Rests(w), txn'[w].settles = {},
         \A v \in Worker \ {w} : txn'[v].settles = txn[v].settles
  PROVE  WorkerMoves
<1>1. /\ pc' = [pc EXCEPT ![w] = "idle"] /\ task' = [task EXCEPT ![w] = NoTask]
      /\ claimed' = [claimed EXCEPT ![w] = 0] /\ seen' = [seen EXCEPT ![w] = {}]
  BY DEF Rests, Goes
<1>2. "idle" \in Step /\ NoTask \in Tasks
  BY DEF Step, Tasks
<1>3. /\ pc \in [Worker -> Step] /\ task \in [Worker -> Tasks] /\ claimed \in [Worker -> Nat]
      /\ seen \in [Worker -> SUBSET Group]
  BY DEF TypeOK, Tasks
<1> HIDE DEF NoTask, Tasks, Step
<1>4. WorkersTyped'
  BY <1>1, <1>2, <1>3 DEF WorkersTyped
<1>5. pc'[w] = "idle" /\ \A v \in Worker \ {w} : pc'[v] = pc[v] /\ task'[v] = task[v]
  BY <1>1, <1>3
<1> QED BY <1>4, <1>5 DEF WorkerMoves, Stops, Stays

\* A worker without a transaction gives up.
LEMMA RestsFreeMoves ==
  ASSUME TypeOK, WorkerInv, NEW w \in Worker, Rests(w), pc[w] # "commit", UNCHANGED txn
  PROVE  WorkerMoves
<1>1. txn[w].settles = {}
  BY DEF WorkerInv
<1> QED BY <1>1, RestsMoves

\* A discovery that fails.
LEMMA FailsMoves ==
  ASSUME TypeOK, WorkerInv, NEW w \in Worker, Fails(w), pc[w] \in DiscoverySteps, UNCHANGED txn
  PROVE  WorkerMoves
<1>1. seen' \in [Worker -> SUBSET Group] /\ UNCHANGED <<task, claimed>> /\ Goes(w, "failing")
  BY DEF Fails, TypeOK
<1> QED BY <1>1, GoesMoves DEF DiscoverySteps

\* Workers that do nothing.
LEMMA IdleMoves ==
  ASSUME TypeOK, UNCHANGED workers, \A w \in Worker : txn'[w].settles = txn[w].settles
  PROVE  WorkerMoves
BY DEF TypeOK, workers, WorkerMoves, WorkersTyped, Tasks, Stays

\* Every quiet step keeps the invariant.
LEMMA QuietNext ==
  ASSUME Inv,
         \/ UNCHANGED vars \/ TimePasses \/ ReleaseExpiredPacing \/ RecoveryAborts
         \/ \E w \in Worker : \/ ListGroups(w) \/ DiscoveryThrows(w) \/ DiscoveryLost(w)
                              \/ (FailAttempt(w) /\ ~OwnsRun(w))
                              \/ ReadGroup(w) \/ RenewItem(w) \/ PersistenceThrows(w)
                              \/ ItemLost(w) \/ Crash(w)
  PROVE  Inv'
<1>0. /\ TypeOK /\ WorkerInv /\ PacingInv
      /\ pacing \in Worker \cup {NoOne} /\ pacingFresh \in BOOLEAN
  BY DEF Inv, TypeOK
<1>a. UNCHANGED <<runs, fence, items, limits, groups, snapshot>> =>
        UNCHANGED Rows /\ LimitMoves /\ freshRuns' \subseteq freshRuns
  BY <1>0 DEF runs, fence, items, limits, groups, snapshot, Rows, LimitMoves
<1>b. UNCHANGED txn => TxnMoves
  BY DEF TxnMoves
<1>1. CASE UNCHANGED vars
  BY <1>0, <1>1, <1>a, <1>b, IdleMoves, QuietInv DEF vars
<1>2. ASSUME NEW r \in Run, RunLeaseExpires(r) PROVE Inv'
  <2>1. UNCHANGED Rows /\ LimitMoves /\ freshRuns' \subseteq freshRuns /\ UNCHANGED <<workers, txn>>
    BY <1>0, <1>2 DEF RunLeaseExpires, Rows, LimitMoves, items, limits
  <2> QED BY <1>0, <1>b, <2>1, IdleMoves, QuietInv
<1>3. ASSUME NEW i \in Item, ItemLeaseExpires(i) PROVE Inv'
  <2>1. UNCHANGED Rows /\ LimitMoves /\ freshRuns' \subseteq freshRuns /\ UNCHANGED <<workers, txn>>
    BY <1>0, <1>3 DEF ItemLeaseExpires, Rows, LimitMoves, runs, limits
  <2> QED BY <1>0, <1>b, <2>1, IdleMoves, QuietInv
<1>4. CASE PacingExpires
  <2>1. /\ UNCHANGED Rows /\ freshRuns' \subseteq freshRuns /\ UNCHANGED <<workers, txn>>
        /\ UNCHANGED <<freshItems, pacing>> /\ pacingFresh' = FALSE
        /\ \A i \in freshItems : itemToken[i] # pacing
    BY <1>4 DEF PacingExpires, Rows, runs, items
  <2>2. LimitMoves
    BY <1>0, <2>1 DEF LimitMoves, PacingInv
  <2> QED BY <1>0, <1>b, <2>1, <2>2, IdleMoves, QuietInv
<1>5. CASE ReleaseExpiredPacing
  <2>1. /\ UNCHANGED Rows /\ freshRuns' \subseteq freshRuns /\ UNCHANGED <<workers, txn>>
        /\ UNCHANGED <<freshItems, pacingFresh>> /\ pacing' = NoOne /\ ~pacingFresh
    BY <1>5 DEF ReleaseExpiredPacing, Rows, runs, items
  <2>2. LimitMoves
    BY <1>0, <2>1 DEF LimitMoves, PacingInv
  <2> QED BY <1>0, <1>b, <2>1, <2>2, IdleMoves, QuietInv
<1>6. CASE RecoveryAborts
  <2>1. /\ txn' = [txn EXCEPT ![Tick] = NoTxn] /\ UNCHANGED workers
        /\ UNCHANGED <<runs, fence, items, limits, groups, snapshot>>
    BY <1>6 DEF RecoveryAborts
  <2>2. TxnMoves
    BY <2>1 DEF TxnMoves, Actor
  <2>3. \A w \in Worker : txn'[w].settles = txn[w].settles
    BY <1>0, <2>1 DEF TypeOK, Actor
  <2> QED BY <1>0, <1>a, <2>1, <2>2, <2>3, IdleMoves, QuietInv
<1>7. ASSUME NEW w \in Worker, ListGroups(w) PROVE Inv'
  <2>1. /\ UNCHANGED <<runs, fence, items, limits, groups, snapshot>>
        /\ UNCHANGED <<task, claimed, txn>> /\ pc[w] \in DiscoverySteps
    BY <1>7 DEF ListGroups, DiscoverySteps
  <2>2. seen' \in [Worker -> SUBSET Group] /\ (Goes(w, "publish") \/ Goes(w, "failing"))
    <3>1. CASE OwnsDiscovery(w)
      <4>1. PICK G \in Listing : seen' = [seen EXCEPT ![w] = G]
        BY <1>7, <3>1 DEF ListGroups
      <4>2. G \in SUBSET Group /\ seen \in [Worker -> SUBSET Group]
        BY <1>0 DEF TypeOK
      <4> QED BY <1>7, <3>1, <4>1, <4>2 DEF ListGroups
    <3>2. CASE ~OwnsDiscovery(w)
      BY <1>0, <1>7, <3>2 DEF ListGroups, TypeOK
    <3> QED BY <3>1, <3>2
  <2>3. WorkerMoves
    BY <1>0, <2>1, <2>2, GoesMoves DEF DiscoverySteps
  <2> QED BY <1>a, <1>b, <2>1, <2>3, QuietInv
<1>8. ASSUME NEW w \in Worker, DiscoveryThrows(w) \/ DiscoveryLost(w) PROVE Inv'
  <2>1. /\ UNCHANGED <<runs, fence, items, limits, groups, snapshot>>
        /\ UNCHANGED txn /\ pc[w] \in DiscoverySteps /\ Fails(w)
    BY <1>8 DEF DiscoveryThrows, DiscoveryLost, DiscoverySteps
  <2> QED BY <1>0, <1>a, <1>b, <2>1, FailsMoves, QuietInv
<1>9. ASSUME NEW w \in Worker, (FailAttempt(w) /\ ~OwnsRun(w)) \/ ItemLost(w) PROVE Inv'
  <2>1. /\ UNCHANGED <<runs, fence, items, limits, groups, snapshot>>
        /\ UNCHANGED txn /\ pc[w] # "commit" /\ Rests(w)
    BY <1>9 DEF FailAttempt, ItemLost, Settling
  <2> QED BY <1>0, <1>a, <1>b, <2>1, RestsFreeMoves, QuietInv
<1>10. ASSUME NEW w \in Worker, ReadGroup(w) \/ PersistenceThrows(w) PROVE Inv'
  <2>1. /\ UNCHANGED <<runs, fence, items, limits, groups, snapshot>>
        /\ UNCHANGED <<task, claimed, txn>> /\ UNCHANGED seen /\ pc[w] \in ItemSteps \ {"commit"}
        /\ \E l \in ItemSteps \ {"commit"} : Goes(w, l)
    BY <1>10 DEF ReadGroup, PersistenceThrows, ItemSteps
  <2>2. seen' \in [Worker -> SUBSET Group]
    BY <1>0, <2>1 DEF TypeOK
  <2> QED BY <1>0, <1>a, <1>b, <2>1, <2>2, GoesMoves, QuietInv
<1>11. ASSUME NEW w \in Worker, RenewItem(w) PROVE Inv'
  <2>1. /\ UNCHANGED <<runs, fence, items, limits, groups, snapshot>>
        /\ UNCHANGED txn /\ pc[w] = "renew"
        /\ (Goes(w, "write") /\ UNCHANGED <<task, claimed, seen>>) \/ Rests(w)
    BY <1>11 DEF RenewItem
  <2>2. seen \in [Worker -> SUBSET Group]
    BY <1>0 DEF TypeOK
  <2>3. WorkerMoves
    BY <1>0, <2>1, <2>2, GoesMoves, RestsFreeMoves DEF ItemSteps
  <2> QED BY <1>a, <1>b, <2>1, <2>3, QuietInv
<1>12. ASSUME NEW w \in Worker, Crash(w) PROVE Inv'
  <2>1. /\ UNCHANGED <<runs, fence, items, limits, groups, snapshot>>
        /\ txn' = [txn EXCEPT ![w] = NoTxn] /\ Rests(w)
    BY <1>12 DEF Crash
  <2>2. TxnMoves
    BY <2>1 DEF TxnMoves, Actor
  <2>3. /\ txn'[w].settles = {} /\ \A v \in Worker \ {w} : txn'[v].settles = txn[v].settles
    <3> HIDE DEF NoTxn
    <3> QED BY <1>0, <2>1, NoTxnTyped DEF TypeOK, Actor
  <2> QED BY <1>0, <1>a, <2>1, <2>2, <2>3, RestsMoves, QuietInv
<1> QED
  BY <1>1, <1>2, <1>3, <1>4, <1>5, <1>6, <1>7, <1>8, <1>9, <1>10, <1>11, <1>12 DEF TimePasses
-----------------------------------------------------------------------------
(***************************************************************************)
(* Runs: what changes the row of a run leaves alone those that have items. *)
(***************************************************************************)
LEMMA RunsWithItemsStay ==
  ASSUME Inv, UNCHANGED <<items, txn, limits, published, active>>,
         \A i \in Item : item[i] # "NONE" =>
           status'[i[1]] = status[i[1]] /\ token'[i[1]] = token[i[1]],
         \A w \in Worker : pc'[w] \in ItemSteps => pc[w] \in ItemSteps /\ task'[w] = task[w]
  PROVE  ItemInv' /\ SettlesInv' /\ LockInv' /\ PacingInv' /\ SnapshotAuthoritative'
<1>0. UNCHANGED <<item, itemAttempts, itemToken, freshItems, txn, pacing, pacingFresh, published,
                  active>>
  BY DEF items, limits
<1>1. ItemInv'
  BY <1>0 DEF Inv, ItemInv
<1>2. SettlesInv' /\ LockInv' /\ SnapshotAuthoritative'
  BY <1>0 DEF Inv, SettlesInv, LockInv, SnapshotAuthoritative
<1>3. PacingInv'
  BY <1>0 DEF Inv, PacingInv
<1> QED BY <1>1, <1>2, <1>3

\* A new run has no items.
LEMMA CreateInv == ASSUME Inv, NEW r \in Run, Create(r) PROVE Inv'
<1>0. /\ status[r] = "ABSENT" /\ status' = [status EXCEPT ![r] = "PENDING"]
      /\ status \in [Run -> RunStatus]
      /\ UNCHANGED <<phase, mode, attempts, epoch, token, freshRuns, current_epoch>>
      /\ UNCHANGED <<items, txn, limits, workers, groups, snapshot>>
  BY DEF Create, fence, Inv, TypeOK
<1>1. status'[r] = "PENDING" /\ \A s \in Run \ {r} : status'[s] = status[s]
  BY <1>0
<1>2. status' \in [Run -> RunStatus]
  BY <1>0 DEF RunStatus
<1>3. token[r] = NoOne
  BY <1>0 DEF Inv, TypeOK
<1>4. TypeOK'
  BY <1>0, <1>1, <1>2, <1>3 DEF Inv, TypeOK, items, limits, workers, groups, snapshot
<1>5. WorkerInv'
  BY <1>0 DEF Inv, WorkerInv, workers
<1>6. RunInv'
  BY <1>0, <1>1 DEF Inv, RunInv
<1>7. \A i \in Item : item[i] # "NONE" => status'[i[1]] = status[i[1]] /\ token'[i[1]] = token[i[1]]
  BY <1>0, <1>1 DEF Inv, ItemInv, Item
<1>8. UNCHANGED <<pc, task, published, active>>
  BY <1>0 DEF workers, groups
<1> QED BY <1>0, <1>4, <1>5, <1>6, <1>7, <1>8, RunsWithItemsStay DEF Inv

\* The claim moves the session's epoch, and no other run is RUNNING.
LEMMA ClaimRunInv == ASSUME Inv, NEW w \in Worker, NEW r \in Run, ClaimRun(w, r) PROVE Inv'
<1> USE DEF Inv
<1>0. /\ pc[w] = "idle" /\ status[r] = "PENDING" /\ attempts[r] < MaxRunAttempts
      /\ \A s \in Run : status[s] # "RUNNING"
      /\ current_epoch' = current_epoch + 1
      /\ status' = [status EXCEPT ![r] = "RUNNING"]
      /\ phase' = [phase EXCEPT ![r] = "DISCOVERING"]
      /\ attempts' = [attempts EXCEPT ![r] = @ + 1]
      /\ epoch' = [epoch EXCEPT ![r] = current_epoch + 1]
      /\ token' = [token EXCEPT ![r] = w]
      /\ freshRuns' = freshRuns \cup {r}
      /\ pc' = [pc EXCEPT ![w] = "list"]
      /\ task' = [task EXCEPT ![w] = <<r, NoOne>>]
      /\ claimed' = [claimed EXCEPT ![w] = current_epoch + 1]
      /\ UNCHANGED <<mode, items, limits, groups, snapshot, seen, txn>>
  BY DEF ClaimRun, Claimable, Goes
<1>1. /\ status \in [Run -> RunStatus] /\ attempts \in [Run -> 0..MaxRunAttempts]
      /\ epoch \in [Run -> Nat] /\ current_epoch \in Nat /\ token \in [Run -> Worker \cup {NoOne}]
      /\ pc \in [Worker -> Step] /\ task \in [Worker -> Tasks] /\ claimed \in [Worker -> Nat]
      /\ phase \in [Run -> {"DISCOVERING", "RECONCILING", "COMPLETED"}] /\ freshRuns \in SUBSET Run
  BY DEF TypeOK, Tasks
<1>2. /\ attempts[r] + 1 \in 0..MaxRunAttempts /\ attempts[r] + 1 > 0 /\ current_epoch + 1 \in Nat
      /\ "list" \in Step /\ "RUNNING" \in RunStatus /\ <<r, NoOne>> \in Tasks
  BY <1>0, <1>1 DEF Step, RunStatus, Tasks
<1>3. /\ status' \in [Run -> RunStatus] /\ attempts' \in [Run -> 0..MaxRunAttempts]
      /\ epoch' \in [Run -> Nat] /\ current_epoch' \in Nat
      /\ token' \in [Run -> Worker \cup {NoOne}] /\ pc' \in [Worker -> Step]
      /\ task' \in [Worker -> Tasks] /\ claimed' \in [Worker -> Nat]
      /\ phase' \in [Run -> {"DISCOVERING", "RECONCILING", "COMPLETED"}]
      /\ freshRuns' \in SUBSET Run
  BY <1>0, <1>1, <1>2
<1>4. /\ status'[r] = "RUNNING" /\ token'[r] = w /\ attempts'[r] > 0 /\ epoch'[r] = current_epoch'
      /\ \A s \in Run \ {r} : status'[s] = status[s] /\ token'[s] = token[s]
  BY <1>0, <1>1, <1>2
<1>5. /\ pc'[w] = "list" /\ task'[w] = <<r, NoOne>>
      /\ \A v \in Worker \ {w} : pc'[v] = pc[v] /\ task'[v] = task[v]
  BY <1>0, <1>1
<1>6. TypeOK'
  BY <1>0, <1>3, <1>4 DEF TypeOK, Tasks, items, limits, groups, snapshot
<1>7. WorkerInv'
  <2>1. ASSUME NEW v \in Worker
        PROVE  /\ pc'[v] \in DiscoverySteps => task'[v] \in Run \X {NoOne}
               /\ pc'[v] \in ItemSteps => task'[v] \in Item
               /\ txn[v].settles = IF pc'[v] = "commit" THEN {task'[v]} ELSE {}
    <3>1. CASE v = w
      <4>1. txn[v].settles = {}
        BY <1>0, <3>1 DEF WorkerInv
      <4>0. <<r, NoOne>> \in Run \X {NoOne}
        BY Zenon
      <4>2. task'[v] \in Run \X {NoOne} /\ pc'[v] = "list"
        BY <1>5, <3>1, <4>0, Zenon
      <4>3. pc'[v] \notin ItemSteps /\ pc'[v] # "commit"
        BY <4>2 DEF ItemSteps
      <4> QED BY <4>1, <4>2, <4>3
    <3>2. CASE v # w
      BY <1>5, <3>2 DEF WorkerInv
    <3> QED BY <3>1, <3>2
  <2> QED BY <1>0, <2>1 DEF WorkerInv
<1>8. RunInv'
  BY <1>0, <1>4 DEF RunInv
<1>9. \A i \in Item : item[i] # "NONE" => status'[i[1]] = status[i[1]] /\ token'[i[1]] = token[i[1]]
  BY <1>0, <1>4 DEF ItemInv, Item
<1>10. \A v \in Worker : pc'[v] \in ItemSteps => pc[v] \in ItemSteps /\ task'[v] = task[v]
  BY <1>5 DEF ItemSteps
<1>11. UNCHANGED <<items, txn, limits, published, active>>
  BY <1>0 DEF groups
<1> QED BY <1>6, <1>7, <1>8, <1>9, <1>10, <1>11, RunsWithItemsStay

\* A run that loses its attempt held a lease, so it has no items.
LEMMA WithdrawInv ==
  ASSUME Inv, NEW R \in SUBSET Run, \A r \in R : status[r] = "RUNNING" /\ token[r] # NoOne,
         Withdraw(R), freshRuns' \subseteq freshRuns, WorkerMoves,
         UNCHANGED <<fence, items, limits, groups, snapshot, txn>>
  PROVE  Inv'
<1> USE DEF Inv
<1>0. /\ status' = [r \in Run |-> IF r \notin R THEN status[r]
                                  ELSE IF Exhausted(r) THEN "FAILED" ELSE "PENDING"]
      /\ epoch' = [r \in Run |-> IF r \in R /\ ~Exhausted(r) THEN 0 ELSE epoch[r]]
      /\ token' = [r \in Run |-> IF r \in R THEN NoOne ELSE token[r]]
      /\ UNCHANGED <<phase, mode, attempts, current_epoch>>
  BY DEF Withdraw, fence
<1>1. /\ status \in [Run -> RunStatus] /\ epoch \in [Run -> Nat]
      /\ token \in [Run -> Worker \cup {NoOne}]
  BY DEF TypeOK
<1>2. /\ status' \in [Run -> RunStatus] /\ epoch' \in [Run -> Nat]
      /\ token' \in [Run -> Worker \cup {NoOne}]
  BY <1>0, <1>1 DEF RunStatus
<1>3. /\ \A r \in R : status'[r] # "RUNNING" /\ token'[r] = NoOne
      /\ \A r \in Run \ R : status'[r] = status[r] /\ token'[r] = token[r] /\ epoch'[r] = epoch[r]
  BY <1>0
<1>4. TypeOK'
  BY <1>0, <1>2, <1>3 DEF TypeOK, items, limits, groups, snapshot, WorkerMoves, WorkersTyped, Tasks
<1>5. RunInv'
  BY <1>0, <1>3 DEF RunInv
<1>6. \A i \in Item : item[i] # "NONE" => status'[i[1]] = status[i[1]] /\ token'[i[1]] = token[i[1]]
  BY <1>3 DEF ItemInv, Item
<1>7. \A w \in Worker : pc'[w] \in ItemSteps => pc[w] \in ItemSteps /\ task'[w] = task[w]
  BY DEF WorkerMoves, Stays, Stops, Advances, ItemSteps, DiscoverySteps
<1>8. UNCHANGED <<items, txn, limits, published, active>>
  BY DEF groups
<1> QED BY <1>4, <1>5, <1>6, <1>7, <1>8, WorkerStep, RunsWithItemsStay

\* A suspicious snapshot puts the run back, and gives the attempt back.
LEMMA DeferInv ==
  ASSUME Inv, NEW r \in Run, NEW G \in SUBSET Group, status[r] = "RUNNING", token[r] # NoOne,
         Defer(r, G), token' = [token EXCEPT ![r] = NoOne], freshRuns' = freshRuns \ {r},
         WorkerMoves, UNCHANGED <<mode, fence, limits, txn>>
  PROVE  Inv'
<1> USE DEF Inv
<1>0. /\ suspect' = G /\ confirmed' = Confirms(G)
      /\ status' = [status EXCEPT ![r] = "PENDING"]
      /\ attempts' = [attempts EXCEPT ![r] = @ - 1]
      /\ epoch' = [epoch EXCEPT ![r] = 0]
      /\ UNCHANGED <<phase, items, groups, baseline, current_epoch>>
  BY DEF Defer, fence
<1>1. /\ status \in [Run -> RunStatus] /\ attempts \in [Run -> 0..MaxRunAttempts]
      /\ epoch \in [Run -> Nat] /\ token \in [Run -> Worker \cup {NoOne}] /\ confirmed \in Nat
      /\ freshRuns \in SUBSET Run
  BY DEF TypeOK
<1>2. attempts[r] - 1 \in 0..MaxRunAttempts /\ "PENDING" \in RunStatus /\ Confirms(G) \in Nat
  BY <1>1 DEF RunInv, RunStatus, Confirms
<1>3. /\ status' \in [Run -> RunStatus] /\ attempts' \in [Run -> 0..MaxRunAttempts]
      /\ epoch' \in [Run -> Nat] /\ token' \in [Run -> Worker \cup {NoOne}] /\ confirmed' \in Nat
      /\ freshRuns' \in SUBSET Run
  BY <1>0, <1>1, <1>2
<1>4. /\ status'[r] = "PENDING" /\ token'[r] = NoOne
      /\ \A s \in Run \ {r} : /\ status'[s] = status[s] /\ token'[s] = token[s]
                              /\ attempts'[s] = attempts[s] /\ epoch'[s] = epoch[s]
  BY <1>0, <1>1
<1>5. TypeOK'
  BY <1>0, <1>3, <1>4 DEF TypeOK, items, limits, groups, WorkerMoves, WorkersTyped, Tasks
<1>6. RunInv'
  BY <1>0, <1>4 DEF RunInv
<1>7. \A i \in Item : item[i] # "NONE" => status'[i[1]] = status[i[1]] /\ token'[i[1]] = token[i[1]]
  BY <1>4 DEF ItemInv, Item
<1>8. \A w \in Worker : pc'[w] \in ItemSteps => pc[w] \in ItemSteps /\ task'[w] = task[w]
  BY DEF WorkerMoves, Stays, Stops, Advances, ItemSteps, DiscoverySteps
<1>9. UNCHANGED <<items, txn, limits, published, active>>
  BY <1>0 DEF groups
<1> QED BY <1>5, <1>6, <1>7, <1>8, <1>9, WorkerStep, RunsWithItemsStay

\* The snapshot is published with its items, which are the first of the run.
LEMMA AcceptInv ==
  ASSUME Inv, NEW r \in Run, NEW G \in SUBSET Group, NEW S \in SUBSET Group, S \subseteq G,
         status[r] = "RUNNING", token[r] # NoOne,
         Accept(r, G, S), token' = [token EXCEPT ![r] = NoOne], freshRuns' = freshRuns \ {r},
         WorkerMoves, UNCHANGED <<mode, fence, limits, txn>>
  PROVE  Inv'
<1> USE DEF Inv
<1>0. /\ active' = G /\ published' = G
      /\ item' = [i \in Item |-> IF i[1] = r /\ i[2] \in S /\ item[i] = "NONE"
                                 THEN "PENDING" ELSE item[i]]
      /\ baseline' = Cardinality(G) /\ suspect' = {} /\ confirmed' = 0
      /\ phase' = [phase EXCEPT ![r] = IF S = {} THEN "COMPLETED" ELSE "RECONCILING"]
      /\ status' = [status EXCEPT ![r] = IF S = {} THEN "COMPLETED" ELSE @]
      /\ UNCHANGED <<attempts, epoch, itemAttempts, itemToken, freshItems, writer>>
      /\ UNCHANGED <<current_epoch, pacing, pacingFresh>>
  BY DEF Accept, fence, limits
<1>1. /\ status \in [Run -> RunStatus] /\ token \in [Run -> Worker \cup {NoOne}]
      /\ phase \in [Run -> {"DISCOVERING", "RECONCILING", "COMPLETED"}]
      /\ item \in [Item -> ItemStatus] /\ freshRuns \in SUBSET Run
  BY DEF TypeOK
<1>2. Cardinality(G) \in Nat
  BY FS_Subset, FS_CardinalityType
<1>3. /\ status' \in [Run -> RunStatus] /\ token' \in [Run -> Worker \cup {NoOne}]
      /\ phase' \in [Run -> {"DISCOVERING", "RECONCILING", "COMPLETED"}]
      /\ freshRuns' \in SUBSET Run
  BY <1>0, <1>1 DEF RunStatus
<1>4. item' \in [Item -> ItemStatus]
  BY <1>0, <1>1 DEF ItemStatus, Open
<1>5. /\ status'[r] = IF S = {} THEN "COMPLETED" ELSE "RUNNING"
      /\ token'[r] = NoOne
      /\ \A s \in Run \ {r} : status'[s] = status[s] /\ token'[s] = token[s]
  BY <1>0, <1>1
<1>6. /\ \A i \in Item : i[1] = r => /\ item[i] = "NONE"
                                     /\ item'[i] = IF i[2] \in S THEN "PENDING" ELSE "NONE"
      /\ \A i \in Item : i[1] # r => item'[i] = item[i]
  BY <1>0 DEF ItemInv
<1>7. \A i \in Item : item'[i] = "RUNNING" <=> item[i] = "RUNNING"
  BY <1>6
<1>8. TypeOK'
  BY <1>0, <1>2, <1>3, <1>4, <1>5, <1>7 DEF TypeOK, limits, WorkerMoves, WorkersTyped, Tasks
<1>9. RunInv'
  BY <1>0, <1>5 DEF RunInv
<1>10. ItemInv'
  <2> SUFFICES ASSUME NEW i \in Item, item'[i] # "NONE"
               PROVE  /\ token'[i[1]] = NoOne
                      /\ status'[i[1]] \in {"RUNNING", "COMPLETED", "FAILED"}
                      /\ item'[i] \in Open => status'[i[1]] = "RUNNING"
                      /\ item'[i] = "FAILED" => status'[i[1]] # "COMPLETED"
                      /\ status'[i[1]] = "RUNNING" => i[2] \in published'
    BY DEF ItemInv
  <2>1. CASE i[1] = r
    <3>1. item'[i] = "PENDING" /\ i[2] \in S
      BY <1>6, <2>1
    <3> QED BY <1>0, <1>5, <2>1, <3>1
  <2>2. CASE i[1] # r
    <3>1. i[1] \in Run /\ item'[i] = item[i]
      BY <1>6, <2>2 DEF Item
    <3>2. status[i[1]] # "RUNNING"
      BY <2>2, <3>1 DEF RunInv
    <3> QED BY <1>5, <2>2, <3>1, <3>2 DEF ItemInv
  <2> QED BY <2>1, <2>2
<1>11. SettlesInv'
  <2> SUFFICES ASSUME NEW a \in Actor, NEW i \in txn[a].settles
               PROVE  /\ item'[i] = "RUNNING"
                      /\ txn[a].view[i] \in {"RETRY", "COMPLETED", "FAILED", "SKIPPED"}
                      /\ \A j \in Item \ txn[a].settles :
                           j[1] = i[1] /\ txn[a].view[j] \notin Open => item'[j] = txn[a].view[j]
    BY DEF SettlesInv
  <2>1. i \in Item
    BY DEF TypeOK
  <2>2. item[i] = "RUNNING"
    BY DEF SettlesInv
  <2>3. i[1] # r
    BY <1>6, <2>1, <2>2
  <2> QED BY <1>6, <1>7, <2>1, <2>2, <2>3 DEF SettlesInv
<1>12. LockInv' /\ SnapshotAuthoritative'
  BY <1>0 DEF LockInv, SnapshotAuthoritative
<1>13. \A w \in Worker : pc'[w] \in ItemSteps => pc[w] \in ItemSteps /\ task'[w] = task[w]
  BY DEF WorkerMoves, Stays, Stops, Advances, ItemSteps, DiscoverySteps
<1>14. PacingInv'
  <2>1. freshItems \subseteq Item
    BY DEF TypeOK
  <2> QED BY <1>0, <1>7, <1>13, <2>1 DEF PacingInv
<1> QED BY <1>8, <1>9, <1>10, <1>11, <1>12, <1>14, WorkerStep

\* The steps that change runs.
LEMMA RunNext ==
  ASSUME Inv,
         \/ RecoverExpiredRuns \/ \E r \in Run : Create(r)
         \/ \E w \in Worker : \/ \E r \in Run : ClaimRun(w, r)
                              \/ PublishDiscovery(w) \/ (FailAttempt(w) /\ OwnsRun(w))
  PROVE  Inv'
<1>1. CASE RecoverExpiredRuns
  <2> DEFINE expired == {r \in Run : status[r] = "RUNNING" /\ token[r] # NoOne /\ r \notin freshRuns}
  <2>1. /\ Withdraw(expired) /\ freshRuns' \subseteq freshRuns
        /\ UNCHANGED <<fence, items, limits, groups, snapshot, workers, txn>>
    BY <1>1 DEF RecoverExpiredRuns
  <2>2. expired \in SUBSET Run /\ \A r \in expired : status[r] = "RUNNING" /\ token[r] # NoOne
    OBVIOUS
  <2>3. WorkerMoves
    BY <2>1, IdleMoves DEF Inv
  <2> HIDE DEF expired
  <2> QED BY <2>1, <2>2, <2>3, WithdrawInv
<1>2. ASSUME NEW w \in Worker, FailAttempt(w), OwnsRun(w) PROVE Inv'
  <2>1. pc[w] = "failing" /\ task[w][1] \in Run
    BY <1>2 DEF FailAttempt, Inv, WorkerInv, DiscoverySteps
  <2>2. /\ Withdraw({task[w][1]}) /\ freshRuns' \subseteq freshRuns /\ Rests(w)
        /\ UNCHANGED <<fence, items, limits, groups, snapshot, txn>>
    BY <1>2 DEF FailAttempt
  <2>3. status[task[w][1]] = "RUNNING" /\ token[task[w][1]] # NoOne
    BY <1>2 DEF OwnsRun, Actor
  <2>4. WorkerMoves
    BY <2>1, <2>2, RestsFreeMoves DEF Inv
  <2>5. /\ {task[w][1]} \in SUBSET Run
        /\ \A r \in {task[w][1]} : status[r] = "RUNNING" /\ token[r] # NoOne
    BY <2>1, <2>3
  <2> QED BY <2>2, <2>4, <2>5, WithdrawInv
<1>3. ASSUME NEW w \in Worker, PublishDiscovery(w) PROVE Inv'
  <2> DEFINE r == task[w][1]
             G == seen[w]
  <2>1. /\ pc[w] = "publish" /\ OwnsDiscovery(w)
        /\ \/ Defer(r, G)
           \/ \E S \in SUBSET Group : Selects(r, G, S) /\ Accept(r, G, S)
        /\ token' = [token EXCEPT ![r] = NoOne] /\ freshRuns' = freshRuns \ {r}
        /\ Rests(w) \/ Fails(w)
        /\ UNCHANGED <<mode, fence, limits, txn>>
    BY <1>3 DEF PublishDiscovery
  <2>2. r \in Run /\ G \in SUBSET Group
    BY ZenonT(30), <2>1 DEF Inv, WorkerInv, DiscoverySteps, TypeOK
  <2>3. status[r] = "RUNNING" /\ token[r] # NoOne
    BY <2>1 DEF OwnsDiscovery, OwnsRun, Actor
  <2>4. WorkerMoves
    BY <2>1, RestsFreeMoves, FailsMoves DEF Inv, DiscoverySteps
  <2>5. \A S : Selects(r, G, S) => S \subseteq G
    BY DEF Selects
  <2> HIDE DEF r, G
  <2>6. ASSUME Defer(r, G) PROVE Inv'
    BY <2>1, <2>2, <2>3, <2>4, <2>6, DeferInv
  <2>7. ASSUME NEW S \in SUBSET Group, Selects(r, G, S), Accept(r, G, S) PROVE Inv'
    BY <2>1, <2>2, <2>3, <2>4, <2>5, <2>7, AcceptInv
  <2> QED BY <2>1, <2>6, <2>7
<1> QED BY <1>1, <1>2, <1>3, CreateInv, ClaimRunInv
-----------------------------------------------------------------------------
(***************************************************************************)
(* Items: claims, group reads and the transactions that settle them.       *)
(***************************************************************************)
LEMMA ClaimItemInv == ASSUME Inv, NEW w \in Worker, NEW i \in Item, ClaimItem(w, i) PROVE Inv'
<1> USE DEF Inv
<1>0. /\ pc[w] = "idle" /\ status[i[1]] = "RUNNING" /\ item[i] \in {"PENDING", "RETRY"}
      /\ itemAttempts[i] < MaxItemAttempts
      /\ item' = [item EXCEPT ![i] = "RUNNING"]
      /\ itemAttempts' = [itemAttempts EXCEPT ![i] = @ + 1]
      /\ itemToken' = [itemToken EXCEPT ![i] = w]
      /\ freshItems' = freshItems \cup {i}
      /\ pacing' = w /\ pacingFresh' = TRUE
      /\ pc' = [pc EXCEPT ![w] = "read"]
      /\ task' = [task EXCEPT ![w] = i]
      /\ claimed' = [claimed EXCEPT ![w] = epoch[i[1]]]
      /\ UNCHANGED <<runs, fence, groups, snapshot, seen, txn>>
  BY DEF ClaimItem, ItemClaimable, Goes
<1>1. /\ item \in [Item -> ItemStatus] /\ itemAttempts \in [Item -> 0..MaxItemAttempts]
      /\ itemToken \in [Item -> Worker \cup {NoOne}] /\ freshItems \in SUBSET Item
      /\ pc \in [Worker -> Step] /\ task \in [Worker -> Tasks] /\ claimed \in [Worker -> Nat]
      /\ epoch \in [Run -> Nat] /\ i[1] \in Run
  BY DEF TypeOK, Tasks, Item
<1>2. /\ itemAttempts[i] + 1 \in 0..MaxItemAttempts /\ "read" \in Step /\ "RUNNING" \in ItemStatus
      /\ i \in Tasks /\ epoch[i[1]] \in Nat
  BY <1>0, <1>1 DEF Step, ItemStatus, Open, Tasks, Item
<1>3. /\ item' \in [Item -> ItemStatus] /\ itemAttempts' \in [Item -> 0..MaxItemAttempts]
      /\ itemToken' \in [Item -> Worker \cup {NoOne}] /\ freshItems' \in SUBSET Item
      /\ pc' \in [Worker -> Step] /\ task' \in [Worker -> Tasks] /\ claimed' \in [Worker -> Nat]
      /\ pacing' \in Worker \cup {NoOne} /\ pacingFresh' \in BOOLEAN
  BY <1>0, <1>1, <1>2
<1>4. /\ item'[i] = "RUNNING" /\ itemToken'[i] = w
      /\ \A j \in Item \ {i} : item'[j] = item[j] /\ itemToken'[j] = itemToken[j]
  BY <1>0, <1>1
<1>5. /\ pc'[w] = "read" /\ task'[w] = i
      /\ \A v \in Worker \ {w} : pc'[v] = pc[v] /\ task'[v] = task[v]
  BY <1>0, <1>1
<1>6. TypeOK'
  <2>1. \A j \in Item : itemToken'[j] # NoOne <=> item'[j] = "RUNNING"
    BY SMTT(30), <1>4 DEF TypeOK, Actor
  <2> QED BY <1>0, <1>3, <2>1 DEF TypeOK, Tasks, runs, fence, groups, snapshot
<1>7. WorkerInv'
  <2>1. ASSUME NEW v \in Worker
        PROVE  /\ pc'[v] \in DiscoverySteps => task'[v] \in Run \X {NoOne}
               /\ pc'[v] \in ItemSteps => task'[v] \in Item
               /\ txn[v].settles = IF pc'[v] = "commit" THEN {task'[v]} ELSE {}
    <3>1. CASE v = w
      <4>1. txn[v].settles = {}
        BY <1>0, <3>1 DEF WorkerInv
      <4>2. task'[v] \in Item /\ pc'[v] = "read"
        BY <1>5, <3>1
      <4>3. pc'[v] \notin DiscoverySteps /\ pc'[v] # "commit"
        BY <4>2 DEF DiscoverySteps
      <4> QED BY <4>1, <4>2, <4>3
    <3>2. CASE v # w
      BY <1>5, <3>2 DEF WorkerInv
    <3> QED BY <3>1, <3>2
  <2> QED BY <1>0, <2>1 DEF WorkerInv
<1>8. RunInv' /\ LockInv' /\ SnapshotAuthoritative'
  BY <1>0 DEF RunInv, LockInv, SnapshotAuthoritative, runs, fence, groups
<1>9. ItemInv'
  <2>1. UNCHANGED <<status, token, published>>
    BY <1>0 DEF runs, groups
  <2>2. ASSUME NEW j \in Item, item'[j] # "NONE"
        PROVE  /\ token[j[1]] = NoOne /\ status[j[1]] \in {"RUNNING", "COMPLETED", "FAILED"}
               /\ item'[j] \in Open => status[j[1]] = "RUNNING"
               /\ item'[j] = "FAILED" => status[j[1]] # "COMPLETED"
               /\ status[j[1]] = "RUNNING" => j[2] \in published
    <3>1. CASE j = i
      BY <1>0, <1>4, <3>1 DEF ItemInv
    <3>2. CASE j # i
      BY <1>4, <2>2, <3>2 DEF ItemInv
    <3> QED BY <3>1, <3>2
  <2> QED BY <2>1, <2>2 DEF ItemInv
<1>10. SettlesInv'
  <2> SUFFICES ASSUME NEW a \in Actor, NEW k \in txn[a].settles
               PROVE  /\ item'[k] = "RUNNING"
                      /\ txn[a].view[k] \in {"RETRY", "COMPLETED", "FAILED", "SKIPPED"}
                      /\ \A j \in Item \ txn[a].settles :
                           j[1] = k[1] /\ txn[a].view[j] \notin Open => item'[j] = txn[a].view[j]
    BY <1>0 DEF SettlesInv
  <2>1. k \in Item /\ item[k] = "RUNNING"
    BY DEF TypeOK, SettlesInv
  <2>2. item[i] \in Open
    BY <1>0 DEF Open
  <2> QED BY <1>4, <2>1, <2>2 DEF SettlesInv
<1>11. PacingInv'
  <2>1. freshItems = {}
    <3>1. PaceReady
      BY DEF ClaimItem, ItemClaimable
    <3>2. ASSUME NEW j \in freshItems PROVE FALSE
      <4>1. item[j] = "RUNNING" /\ itemToken[j] = pacing /\ pacingFresh /\ j \in Item
        BY <1>1 DEF PacingInv
      <4>2. pacing # NoOne
        BY <4>1 DEF TypeOK
      <4> QED BY <3>1, <4>1, <4>2 DEF PaceReady
    <3> QED BY <3>2
  <2>2. freshItems' = {i}
    BY <1>0, <2>1
  <2> QED BY <1>0, <1>4, <1>5, <2>2 DEF PacingInv
<1> QED BY <1>6, <1>7, <1>8, <1>9, <1>10, <1>11

\* The details are those of a group of the last snapshot: the item is of the session's run.
LEMMA UpsertInv == ASSUME Inv, NEW w \in Worker, UpsertGroupDetails(w) PROVE Inv'
<1> USE DEF Inv
<1> DEFINE g == task[w][2]
<1>0. /\ pc[w] = "write" /\ MayWrite(w) /\ active' = active \cup {g}
      /\ writer' = [writer EXCEPT ![g] = claimed[w]] /\ pacingFresh' = TRUE
      /\ \E l \in {"complete", "failPersistence"} : Goes(w, l)
      /\ UNCHANGED <<runs, fence, items, pacing, published, snapshot, task, claimed, seen, txn>>
  BY DEF UpsertGroupDetails
<1>1. task[w] \in Item
  BY <1>0 DEF WorkerInv, ItemSteps
<1>2. item[task[w]] = "RUNNING" /\ status[task[w][1]] = "RUNNING"
  BY <1>0 DEF MayWrite, OwnsItem
<1>3. g \in published
  BY <1>1, <1>2 DEF ItemInv
<1>4. active' = published /\ g \in Group
  BY <1>0, <1>1, <1>3 DEF SnapshotAuthoritative, Item
<1>5. seen' \in [Worker -> SUBSET Group] /\ writer' \in [Group -> Nat]
  <2>1. claimed[w] \in Nat /\ writer \in [Group -> Nat]
    BY DEF TypeOK
  <2> QED BY <1>0, <1>4, <2>1 DEF TypeOK
<1>6. WorkerMoves
  BY <1>0, <1>5, GoesMoves DEF ItemSteps
<1> HIDE DEF g
<1>7. TypeOK'
  BY <1>0, <1>4, <1>5, <1>6
     DEF TypeOK, WorkerMoves, WorkersTyped, Tasks, runs, fence, items, snapshot
<1>8. WorkerInv'
  BY <1>6, WorkerStep
<1>9. RunInv' /\ ItemInv' /\ LockInv' /\ SnapshotAuthoritative'
  BY <1>0, <1>4 DEF RunInv, ItemInv, LockInv, SnapshotAuthoritative, runs, fence, items
<1>10. SettlesInv'
  BY <1>0 DEF SettlesInv, items
<1>11. PacingInv'
  <2>1. \A v \in Worker : pc'[v] \in ItemSteps => pc[v] \in ItemSteps /\ task'[v] = task[v]
    BY <1>6 DEF WorkerMoves, Stays, Stops, Advances, ItemSteps, DiscoverySteps
  <2>2. UNCHANGED <<item, itemToken, freshItems, pacing>>
    BY <1>0 DEF items
  <2> QED BY <1>0, <2>1, <2>2 DEF PacingInv
<1> QED BY <1>7, <1>8, <1>9, <1>10, <1>11

\* A transaction is opened on rows that are RUNNING and that nobody else settles.
LEMMA OpenInv ==
  ASSUME Inv, NEW a \in Actor, NEW S \in SUBSET Item, NEW to,
         \A i \in S : /\ item[i] = "RUNNING" /\ ~Locked(i)
                      /\ to[i] \in {"RETRY", "COMPLETED", "FAILED", "SKIPPED"},
         txn' = [txn EXCEPT ![a] = [settles |-> S, view |-> Seen(S, to)]],
         UNCHANGED <<runs, fence, items, limits, groups, snapshot, task, claimed, seen>>,
         pc' \in [Worker -> Step], WorkerInv',
         \A w \in Worker : pc'[w] \in ItemSteps => pc[w] \in ItemSteps
  PROVE  Inv'
<1> USE DEF Inv
<1>0. /\ UNCHANGED <<status, phase, mode, attempts, epoch, token, freshRuns, current_epoch>>
      /\ UNCHANGED <<item, itemAttempts, itemToken, freshItems, pacing, pacingFresh>>
      /\ UNCHANGED <<active, writer, published, baseline, suspect, confirmed, task, claimed, seen>>
  BY DEF runs, fence, items, limits, groups, snapshot
<1> DEFINE new == [settles |-> S, view |-> Seen(S, to)]
<1>1. Seen(S, to) \in [Item -> ItemStatus]
  <2>1. \A i \in Item : (IF i \in S THEN to[i] ELSE item[i]) \in ItemStatus
    BY DEF TypeOK, ItemStatus, Open
  <2> QED BY <2>1 DEF Seen
<1>2. /\ \A i \in S : Seen(S, to)[i] \in {"RETRY", "COMPLETED", "FAILED", "SKIPPED"}
      /\ \A i \in Item \ S : Seen(S, to)[i] = item[i]
  BY DEF Seen
<1>3. new \in [settles : SUBSET Item, view : [Item -> ItemStatus]]
  BY <1>1
<1>4. new.settles = S /\ new.view = Seen(S, to)
  OBVIOUS
<1>5. txn' = [txn EXCEPT ![a] = new]
  OBVIOUS
<1> HIDE DEF new
<1>6. /\ txn' \in [Actor -> [settles : SUBSET Item, view : [Item -> ItemStatus]]]
      /\ txn'[a] = new /\ \A b \in Actor \ {a} : txn'[b] = txn[b]
  BY <1>3, <1>5 DEF TypeOK
<1>7. TypeOK'
  BY <1>0, <1>6 DEF TypeOK
<1>8. RunInv' /\ ItemInv' /\ SnapshotAuthoritative' /\ PacingInv'
  BY <1>0 DEF RunInv, ItemInv, SnapshotAuthoritative, PacingInv
<1>9. LockInv'
  <2>1. \A b \in Actor : S \cap txn[b].settles = {}
    BY DEF Locked
  <2> QED BY <1>4, <1>6, <2>1 DEF LockInv
<1>10. SettlesInv'
  <2>1. ASSUME NEW b \in Actor, NEW i \in txn'[b].settles
        PROVE  /\ item[i] = "RUNNING"
               /\ txn'[b].view[i] \in {"RETRY", "COMPLETED", "FAILED", "SKIPPED"}
               /\ \A j \in Item \ txn'[b].settles :
                    j[1] = i[1] /\ txn'[b].view[j] \notin Open => item[j] = txn'[b].view[j]
    <3>1. CASE b = a
      BY <1>2, <1>4, <1>6, <2>1, <3>1
    <3>2. CASE b # a
      BY <1>6, <2>1, <3>2 DEF SettlesInv
    <3> QED BY <3>1, <3>2
  <2> QED BY <1>0, <2>1 DEF SettlesInv
<1> QED BY <1>7, <1>8, <1>9, <1>10

\* A run is finished only when no item of it is open, whatever its siblings' transactions do.
LEMMA SettlesKeep ==
  ASSUME Inv, NEW a \in Actor, Settles(a), WorkerMoves, LimitMoves,
         UNCHANGED <<fence, groups, snapshot>>
  PROVE  Inv'
<1> USE DEF Inv
<1> DEFINE S == txn[a].settles
           view == txn[a].view
           parents == {i[1] : i \in S}
           done(r) == r \in parents /\ Remaining(view, r) = {}
<1>0. /\ item' = [i \in Item |-> IF i \in S THEN view[i] ELSE item[i]]
      /\ itemToken' = [i \in Item |-> IF i \in S THEN NoOne ELSE itemToken[i]]
      /\ freshItems' = freshItems \ S
      /\ status' = [r \in Run |-> IF ~done(r) THEN status[r]
                                  ELSE IF Failed(view, r) # {} THEN "FAILED" ELSE "COMPLETED"]
      /\ phase' = [r \in Run |-> IF r \notin parents THEN phase[r]
                                 ELSE IF done(r) THEN "COMPLETED" ELSE "RECONCILING"]
      /\ UNCHANGED <<mode, attempts, epoch, token, freshRuns>>
      /\ txn' = [txn EXCEPT ![a] = NoTxn]
      /\ UNCHANGED <<itemAttempts, current_epoch, active, writer, published>>
      /\ UNCHANGED <<baseline, suspect, confirmed>>
  BY DEF Settles, RefreshParent, fence, groups, snapshot
<1>1. S \in SUBSET Item /\ view \in [Item -> ItemStatus]
  BY DEF TypeOK
<1>2. \A i \in S : /\ item[i] = "RUNNING" /\ view[i] \in {"RETRY", "COMPLETED", "FAILED", "SKIPPED"}
                   /\ \A j \in Item \ S : j[1] = i[1] /\ view[j] \notin Open => item[j] = view[j]
  BY DEF SettlesInv
<1>3. \A i \in S : status[i[1]] = "RUNNING" /\ token[i[1]] = NoOne /\ i[2] \in published
  BY <1>1, <1>2 DEF ItemInv, Open
<1>4. \A j \in Item : j[1] \in Run /\ j[2] \in Group /\ j = <<j[1], j[2]>>
  BY DEF Item
<1> HIDE DEF S, view
<1>5. /\ \A j \in S : item'[j] = view[j] /\ itemToken'[j] = NoOne
      /\ \A j \in Item \ S : item'[j] = item[j] /\ itemToken'[j] = itemToken[j]
  BY <1>0, <1>1
<1>6. /\ item' \in [Item -> ItemStatus] /\ itemToken' \in [Item -> Worker \cup {NoOne}]
      /\ freshItems' \in SUBSET Item
  BY <1>0, <1>1 DEF TypeOK
<1>7. /\ \A r \in Run : done(r) => status'[r] = IF Failed(view, r) # {} THEN "FAILED" ELSE "COMPLETED"
      /\ \A r \in Run : ~done(r) => status'[r] = status[r]
  BY <1>0
<1>8. /\ status' \in [Run -> RunStatus]
      /\ phase' \in [Run -> {"DISCOVERING", "RECONCILING", "COMPLETED"}]
  <2>1. /\ status \in [Run -> RunStatus] /\ "FAILED" \in RunStatus /\ "COMPLETED" \in RunStatus
        /\ phase \in [Run -> {"DISCOVERING", "RECONCILING", "COMPLETED"}]
    BY DEF TypeOK, RunStatus
  <2> HIDE DEF done, parents
  <2> QED BY <1>0, <2>1
<1>9. \A r \in Run : done(r) => token[r] = NoOne /\ status[r] = "RUNNING"
  BY <1>3
<1> HIDE DEF done
<1>10. TxnMoves
  BY <1>0 DEF TxnMoves
<1>11. TypeOK'
  <2>1. \A j \in Item : itemToken'[j] # NoOne <=> item'[j] = "RUNNING"
    BY <1>2, <1>5 DEF TypeOK
  <2>2. \A r \in Run : token'[r] # NoOne => status'[r] = "RUNNING"
    BY <1>0, <1>7, <1>9 DEF TypeOK
  <2>3. txn' \in [Actor -> [settles : SUBSET Item, view : [Item -> ItemStatus]]]
    BY <1>10, TxnMovesTo
  <2> QED BY <1>0, <1>6, <1>8, <2>1, <2>2, <2>3
          DEF TypeOK, WorkerMoves, WorkersTyped, Tasks, LimitMoves
<1>12. WorkerInv'
  BY WorkerStep
<1>13. RunInv'
  <2>1. \A r \in Run : status'[r] = "RUNNING" => status[r] = "RUNNING"
    BY <1>7
  <2> QED BY <1>0, <2>1 DEF RunInv
<1>14. ItemInv'
  <2>1. ASSUME NEW j \in Item, item'[j] # "NONE"
        PROVE  /\ token[j[1]] = NoOne /\ status'[j[1]] \in {"RUNNING", "COMPLETED", "FAILED"}
               /\ item'[j] \in Open => status'[j[1]] = "RUNNING"
               /\ item'[j] = "FAILED" => status'[j[1]] # "COMPLETED"
               /\ status'[j[1]] = "RUNNING" => j[2] \in published
    <3>1. CASE done(j[1])
      <4>1. PICK i \in S : i[1] = j[1]
        BY <3>1 DEF done
      <4>2. view[j] \notin Open
        BY <1>4, <3>1 DEF done, Remaining
      <4>3. item'[j] = view[j]
        BY <1>2, <1>5, <4>1, <4>2
      <4>4. view[j] = "FAILED" => Failed(view, j[1]) # {}
        BY <1>4 DEF Failed
      <4> QED BY <1>4, <1>7, <1>9, <3>1, <4>2, <4>3, <4>4
    <3>2. CASE ~done(j[1])
      <4>1. status'[j[1]] = status[j[1]]
        BY <1>4, <1>7, <3>2
      <4>2. CASE j \in S
        BY <1>3, <4>1, <4>2
      <4>3. CASE j \notin S
        BY <1>5, <2>1, <4>1, <4>3 DEF ItemInv
      <4> QED BY <4>2, <4>3
    <3> QED BY <3>1, <3>2
  <2> QED BY <1>0, <2>1 DEF ItemInv
<1>15. /\ \A b \in Actor : b # a => txn'[b] = txn[b]
       /\ txn'[a].settles = {}
  <2> HIDE DEF NoTxn
  <2> QED BY <1>0, NoTxnTyped DEF TypeOK
<1>16. SettlesInv'
  <2>1. ASSUME NEW b \in Actor, NEW i \in txn'[b].settles
        PROVE  /\ item'[i] = "RUNNING"
               /\ txn'[b].view[i] \in {"RETRY", "COMPLETED", "FAILED", "SKIPPED"}
               /\ \A j \in Item \ txn'[b].settles :
                    j[1] = i[1] /\ txn'[b].view[j] \notin Open => item'[j] = txn'[b].view[j]
    <3>1. b # a /\ txn'[b] = txn[b] /\ i \in Item
      BY <1>15, <2>1 DEF TypeOK
    <3>2. i \notin S
      BY <2>1, <3>1 DEF LockInv, S
    <3>3. /\ item[i] = "RUNNING" /\ txn[b].view[i] \in {"RETRY", "COMPLETED", "FAILED", "SKIPPED"}
          /\ \A j \in Item \ txn[b].settles :
               j[1] = i[1] /\ txn[b].view[j] \notin Open => item[j] = txn[b].view[j]
      BY <2>1, <3>1 DEF SettlesInv
    <3>4. ASSUME NEW j \in Item, item[j] \notin Open PROVE item'[j] = item[j]
      <4>1. j \notin S
        BY <1>2, <3>4 DEF Open
      <4> QED BY <1>5, <4>1
    <3> QED BY <1>5, <3>1, <3>2, <3>3, <3>4
  <2> QED BY <2>1 DEF SettlesInv
<1>17. LockInv'
  BY <1>15 DEF LockInv
<1>18. PacingInv'
  <2>1. CASE freshItems' = {}
    BY <2>1 DEF PacingInv
  <2>2. CASE pacing' = pacing /\ (pacingFresh => pacingFresh')
    <3>1. freshItems' \subseteq freshItems \ S /\ freshItems \subseteq Item
      BY <1>0 DEF TypeOK
    <3>2. \A v \in Worker : pc'[v] \in ItemSteps => pc[v] \in ItemSteps /\ task'[v] = task[v]
      BY DEF WorkerMoves, Stays, Stops, Advances, ItemSteps, DiscoverySteps
    <3>3. ASSUME NEW i \in freshItems'
          PROVE  item'[i] = "RUNNING" /\ itemToken'[i] = pacing' /\ pacingFresh'
      BY <1>5, <2>2, <3>1 DEF PacingInv
    <3>4. \A i, j \in freshItems' : i = j
      BY <3>1 DEF PacingInv
    <3>5. \A v \in Worker, i \in freshItems' : pc'[v] \in ItemSteps /\ pacing' = v => task'[v] = i
      BY <2>2, <3>1, <3>2 DEF PacingInv
    <3> QED BY <3>3, <3>4, <3>5 DEF PacingInv
  <2> QED BY <2>1, <2>2 DEF LimitMoves
<1>19. SnapshotAuthoritative'
  BY <1>0 DEF SnapshotAuthoritative
<1> QED BY <1>11, <1>12, <1>13, <1>14, <1>16, <1>17, <1>18, <1>19

\* The steps that change items.
LEMMA ItemNext ==
  ASSUME Inv,
         \/ RecoverExpiredItems \/ CommitRecovery
         \/ \E w \in Worker : \/ \E i \in Item : ClaimItem(w, i)
                              \/ UpsertGroupDetails(w) \/ SettleItem(w) \/ CommitItem(w)
  PROVE  Inv'
<1>0. TypeOK /\ WorkerInv /\ PacingInv /\ Tick \in Actor /\ Worker \subseteq Actor
  BY DEF Inv, Actor
<1>1. ASSUME NEW w \in Worker, SettleItem(w) PROVE Inv'
  <2>1. /\ pc[w] \in Settling /\ OwnsItem(w) /\ ~Locked(task[w])
        /\ pc' = [pc EXCEPT ![w] = "commit"]
        /\ UNCHANGED <<runs, fence, items, limits, groups, snapshot, task, claimed, seen>>
    BY <1>1 DEF SettleItem, Goes
  <2>2. PICK o \in Outcomes(w) :
          txn' = [txn EXCEPT ![w] = [settles |-> {task[w]},
                                     view |-> Seen({task[w]}, [j \in {task[w]} |-> o])]]
    BY <1>1 DEF SettleItem
  <2>3. task[w] \in Item /\ pc[w] \in ItemSteps
    BY <1>0, <2>1 DEF WorkerInv, ItemSteps, Settling
  <2>4. o \in {"RETRY", "COMPLETED", "FAILED", "SKIPPED"}
    BY <2>1 DEF Outcomes, Settling
  <2>5. item[task[w]] = "RUNNING"
    BY <2>1 DEF OwnsItem
  <2>6. /\ pc' \in [Worker -> Step] /\ pc'[w] = "commit"
        /\ \A v \in Worker \ {w} : pc'[v] = pc[v]
    BY <1>0, <2>1 DEF TypeOK, Step
  <2>7. txn'[w].settles = {task[w]} /\ \A v \in Worker \ {w} : txn'[v] = txn[v]
    BY <1>0, <2>2 DEF TypeOK
  <2>8. WorkerInv'
    <3>1. ASSUME NEW v \in Worker
          PROVE  /\ pc'[v] \in DiscoverySteps => task[v] \in Run \X {NoOne}
                 /\ pc'[v] \in ItemSteps => task[v] \in Item
                 /\ txn'[v].settles = IF pc'[v] = "commit" THEN {task[v]} ELSE {}
      <4>1. CASE v = w
        BY <2>3, <2>6, <2>7, <4>1 DEF DiscoverySteps
      <4>2. CASE v # w
        BY <1>0, <2>6, <2>7, <4>2 DEF WorkerInv
      <4> QED BY <4>1, <4>2
    <3> QED BY <2>1, <3>1 DEF WorkerInv
  <2>9. \A v \in Worker : pc'[v] \in ItemSteps => pc[v] \in ItemSteps
    BY <2>3, <2>6
  <2> DEFINE to == [j \in {task[w]} |-> o]
             S == {task[w]}
  <2>10. /\ S \in SUBSET Item
         /\ \A i \in S : /\ item[i] = "RUNNING" /\ ~Locked(i)
                         /\ to[i] \in {"RETRY", "COMPLETED", "FAILED", "SKIPPED"}
    BY <2>1, <2>3, <2>4, <2>5
  <2>11. txn' = [txn EXCEPT ![w] = [settles |-> S, view |-> Seen(S, to)]]
    BY <2>2
  <2> HIDE DEF to, S
  <2> QED BY ZenonT(30), <1>0, <2>1, <2>6, <2>8, <2>9, <2>10, <2>11, OpenInv
<1>2. CASE RecoverExpiredItems
  <2> DEFINE to == [i \in ExpiredItems |->
                      IF itemAttempts[i] >= MaxItemAttempts THEN "FAILED" ELSE "RETRY"]
  <2>1. /\ \A i \in ExpiredItems : ~Locked(i)
        /\ txn' = [txn EXCEPT ![Tick] = [settles |-> ExpiredItems, view |-> Seen(ExpiredItems, to)]]
        /\ UNCHANGED <<runs, fence, items, limits, groups, snapshot, workers>>
    BY <1>2 DEF RecoverExpiredItems
  <2>2. /\ ExpiredItems \in SUBSET Item
        /\ \A i \in ExpiredItems : item[i] = "RUNNING"
    BY DEF ExpiredItems
  <2>3. \A i \in ExpiredItems : to[i] \in {"RETRY", "COMPLETED", "FAILED", "SKIPPED"}
    OBVIOUS
  <2> HIDE DEF to
  <2>4. UNCHANGED <<pc, task, claimed, seen>> /\ pc' \in [Worker -> Step]
    BY <1>0, <2>1 DEF workers, TypeOK
  <2>5. \A v \in Worker : txn'[v] = txn[v]
    BY <1>0, <2>1 DEF TypeOK
  <2>6. WorkerInv'
    BY <1>0, <2>4, <2>5 DEF WorkerInv
  <2> QED BY <1>0, <2>1, <2>2, <2>3, <2>4, <2>6, OpenInv
<1>3. ASSUME NEW w \in Worker, CommitItem(w) PROVE Inv'
  <2>1. /\ pc[w] = "commit" /\ Settles(w) /\ Rests(w) /\ UNCHANGED <<fence, groups, snapshot>>
        /\ IF pacing = w THEN pacing' = NoOne /\ pacingFresh' = FALSE ELSE UNCHANGED limits
    BY <1>3 DEF CommitItem
  <2>2. txn' = [txn EXCEPT ![w] = NoTxn] /\ freshItems' = freshItems \ txn[w].settles
    BY <2>1 DEF Settles
  <2>3. txn'[w].settles = {} /\ \A v \in Worker \ {w} : txn'[v].settles = txn[v].settles
    <3> HIDE DEF NoTxn
    <3> QED BY <1>0, <2>2, NoTxnTyped DEF TypeOK
  <2>4. txn[w].settles = {task[w]}
    BY <1>0, <2>1 DEF WorkerInv
  <2>5. LimitMoves
    <3>1. CASE pacing = w
      <4>1. freshItems' = {}
        BY <1>0, <2>1, <2>2, <2>4, <3>1 DEF PacingInv, ItemSteps
      <4> QED BY <2>1, <3>1, <4>1 DEF LimitMoves
    <3>2. CASE pacing # w
      <4>1. pacing' = pacing /\ pacingFresh' = pacingFresh
        BY <2>1, <3>2 DEF limits
      <4> QED BY <1>0, <2>2, <4>1 DEF LimitMoves, TypeOK
    <3> QED BY <3>1, <3>2
  <2> QED BY <1>0, <2>1, <2>3, <2>5, RestsMoves, SettlesKeep
<1>4. CASE CommitRecovery
  <2>1. /\ Settles(Tick) /\ UNCHANGED <<fence, pacingFresh, groups, snapshot, workers>>
        /\ pacing' = IF pacingFresh THEN pacing ELSE NoOne
    BY <1>4 DEF CommitRecovery
  <2>2. txn' = [txn EXCEPT ![Tick] = NoTxn] /\ freshItems' = freshItems \ txn[Tick].settles
    BY <2>1 DEF Settles
  <2>3. \A v \in Worker : txn'[v].settles = txn[v].settles
    BY <1>0, <2>2 DEF TypeOK
  <2>4. LimitMoves
    <3>1. CASE pacingFresh
      BY <1>0, <2>1, <2>2, <3>1 DEF LimitMoves, TypeOK
    <3>2. CASE ~pacingFresh
      <4>1. freshItems' = {}
        BY <1>0, <2>2, <3>2 DEF PacingInv
      <4> QED BY <1>0, <2>1, <3>2, <4>1 DEF LimitMoves, TypeOK
    <3> QED BY <3>1, <3>2
  <2> QED BY <1>0, <2>1, <2>3, <2>4, IdleMoves, SettlesKeep
<1> QED BY <1>1, <1>2, <1>3, <1>4, ClaimItemInv, UpsertInv
-----------------------------------------------------------------------------
\* Nothing runs at first.
LEMMA InitInv == Init => Inv
<1> SUFFICES ASSUME Init PROVE Inv
  OBVIOUS
<1>1. /\ "ABSENT" \in RunStatus /\ "NONE" \in ItemStatus /\ "idle" \in Step
      /\ 0 \in 0..MaxRunAttempts /\ 0 \in 0..MaxItemAttempts /\ "idle" # "commit"
      /\ "idle" \notin ItemSteps /\ "idle" \notin DiscoverySteps
  BY DEF RunStatus, ItemStatus, Step, ItemSteps, DiscoverySteps
<1>2. TypeOK
  <2> HIDE DEF NoTxn, NoTask, RunStatus, ItemStatus, Step
  <2> QED BY <1>1, NoTxnTyped DEF Init, TypeOK
<1>3. WorkerInv
  <2> HIDE DEF NoTxn
  <2> QED BY <1>1, NoTxnTyped DEF Init, WorkerInv, Actor
<1>4. RunInv /\ ItemInv /\ PacingInv /\ SnapshotAuthoritative
  BY DEF Init, RunInv, ItemInv, PacingInv, SnapshotAuthoritative
<1>5. SettlesInv /\ LockInv
  <2> HIDE DEF NoTxn
  <2> QED BY NoTxnTyped DEF Init, SettlesInv, LockInv
<1> QED BY <1>2, <1>3, <1>4, <1>5 DEF Inv

\* Every step is one of the quiet ones, of runs or of items.
LEMMA NextInv == Inv /\ [Next]_vars => Inv'
<1>1. ASSUME Inv, [Next]_vars PROVE Inv'
  <2>1. CASE \/ UNCHANGED vars \/ TimePasses \/ ReleaseExpiredPacing \/ RecoveryAborts
             \/ \E w \in Worker : \/ ListGroups(w) \/ DiscoveryThrows(w) \/ DiscoveryLost(w)
                                  \/ (FailAttempt(w) /\ ~OwnsRun(w))
                                  \/ ReadGroup(w) \/ RenewItem(w) \/ PersistenceThrows(w)
                                  \/ ItemLost(w) \/ Crash(w)
    BY <1>1, <2>1, QuietNext
  <2>2. CASE \/ RecoverExpiredRuns \/ \E r \in Run : Create(r)
             \/ \E w \in Worker : \/ \E r \in Run : ClaimRun(w, r)
                                  \/ PublishDiscovery(w) \/ (FailAttempt(w) /\ OwnsRun(w))
    BY <1>1, <2>2, RunNext
  <2>3. CASE \/ RecoverExpiredItems \/ CommitRecovery
             \/ \E w \in Worker : \/ \E i \in Item : ClaimItem(w, i)
                                  \/ UpsertGroupDetails(w) \/ SettleItem(w) \/ CommitItem(w)
    BY <1>1, <2>3, ItemNext
  <2>4. ASSUME NEW w \in Worker,
               \/ \E r \in Run : ClaimRun(w, r)
               \/ \E i \in Item : ClaimItem(w, i)
               \/ Discovers(w) \/ Reconciles(w) \/ WorkerThrows(w) \/ Crash(w)
        PROVE  Inv'
    <3>1. CASE Discovers(w)
      BY <2>1, <2>2, <3>1 DEF Discovers
    <3>2. CASE Reconciles(w)
      BY <2>1, <2>3, <3>2 DEF Reconciles
    <3>3. CASE WorkerThrows(w) \/ Crash(w)
      BY <2>1, <3>3 DEF WorkerThrows
    <3> QED BY <2>2, <2>3, <2>4, <3>1, <3>2, <3>3
  <2>5. CASE SchedulerStep
    BY <2>1, <2>2, <2>3, <2>5 DEF SchedulerStep
  <2> QED BY <1>1, <2>1, <2>2, <2>4, <2>5 DEF Next
<1> QED BY <1>1

\* The invariant holds of every reachable state.
LEMMA Inductive == Spec => []Inv
BY InitInv, NextInv, PTL DEF Spec

(***************************************************************************)
(* Rows, leases and workers stay in their types for any number of workers  *)
(* and runs, and a lease token is only where something runs.               *)
(***************************************************************************)
THEOREM SyncTypeOK == Spec => []TypeOK
<1>1. Inv => TypeOK
  BY DEF Inv
<1> QED BY <1>1, Inductive, PTL

(***************************************************************************)
(* The active groups are those of the last accepted snapshot: neither a    *)
(* late discovery nor a late group read brings back a group that a newer   *)
(* snapshot dropped (publishDiscovery, upsertGroupDetails).                *)
(***************************************************************************)
THEOREM SnapshotStands == Spec => []SnapshotAuthoritative
<1>1. Inv => SnapshotAuthoritative
  BY DEF Inv
<1> QED BY <1>1, Inductive, PTL

(***************************************************************************)
(* At most one item of the session has a live lease, whatever expires,     *)
(* crashes or is recovered between claim and settlement.                   *)
(***************************************************************************)
THEOREM ReadsNeverOverlap == Spec => []ReadsSerialized
<1>1. Inv => ReadsSerialized
  <2> SUFFICES ASSUME Inv PROVE Cardinality(freshItems) <= 1
    BY DEF ReadsSerialized
  <2>1. CASE freshItems = {}
    <3>1. Cardinality({}) = 0
      BY FS_EmptySet, Zenon
    <3> QED BY <2>1, <3>1
  <2>2. ASSUME NEW i \in freshItems PROVE Cardinality(freshItems) <= 1
    <3>1. freshItems = {i}
      BY DEF Inv, PacingInv
    <3>2. Cardinality({i}) = 1
      BY FS_Singleton, Zenon
    <3> QED BY <3>1, <3>2
  <2> QED BY <2>1, <2>2
<1> QED BY <1>1, Inductive, PTL

(***************************************************************************)
(* refreshParent's verdict is right although it counts the siblings in a   *)
(* snapshot and commits later: no finished run has an open item, and none  *)
(* is COMPLETED over a FAILED one.                                         *)
(***************************************************************************)
THEOREM VerdictRight == Spec => []VerdictMatchesItems
<1>1. Inv => VerdictMatchesItems
  <2> SUFFICES ASSUME Inv, NEW r \in Run
               PROVE  /\ status[r] \in {"COMPLETED", "FAILED"} => Remaining(item, r) = {}
                      /\ status[r] = "COMPLETED" => Failed(item, r) = {}
                      /\ \A i \in Item : i[1] = r /\ item[i] = "RUNNING" => epoch[r] = current_epoch
    BY DEF VerdictMatchesItems
  <2>1. ASSUME NEW g \in Group
        PROVE  /\ item[<<r, g>>] \in Open => status[r] = "RUNNING"
               /\ item[<<r, g>>] = "FAILED" => status[r] # "COMPLETED"
    <3>1. <<r, g>> \in Item /\ <<r, g>>[1] = r
      BY DEF Item
    <3> QED BY <3>1 DEF Inv, ItemInv, Open
  <2>2. \A i \in Item : i[1] = r /\ item[i] = "RUNNING" => status[r] = "RUNNING"
    BY DEF Inv, ItemInv, Open
  <2> QED BY <2>1, <2>2 DEF Inv, RunInv, Remaining, Failed
<1> QED BY <1>1, Inductive, PTL
=============================================================================
