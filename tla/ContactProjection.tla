--------------------------- MODULE ContactProjection ---------------------------
(***************************************************************************)
(* Contacts of one session: observations of messages, memberships and      *)
(* published snapshots are evidence; a resolution run turns a generation's *)
(* evidence into clusters; revisioned dirty work materializes names and    *)
(* phones into the group_members rows, page by page, under a lease.        *)
(*                                                                         *)
(* now counts what is ordered by a timestamp: an observation's created_at, *)
(* the publication of a generation, the completion of a run.  A request is *)
(* a statement of many rows: its time and its targets are fixed when it    *)
(* begins, its rows are there when its transaction commits, and anything   *)
(* may commit in between.  Resolvers (ResolveBegin, ResolveCommit),        *)
(* housekeeping scans and observers (Opens, RequestCommit) all request     *)
(* this way.  Revisions are numbered in the order of the commits; the code *)
(* draws each from a sequence as its statement reaches the row.            *)
(*                                                                         *)
(* gap is a history variable: the identities whose last request does not   *)
(* promise fresh names (see Covered, RequestCommit and Uncovered).         *)
(***************************************************************************)
EXTENDS ContactResolution, Sequences

CONSTANTS
  Member, IdentityOf,   \* rows of group_members in key order, their identity
  Derived,              \* the phone of a phone JID
  Legacy,               \* members stored before evidence was written
  Sender,               \* identities that send messages
  PushName, GroupName,  \* names in messages, names that groups give a member
  Snapshot,             \* contents that a generation may publish
  Generations,          \* bound: the contents that each generation may publish
  Resolver, Projector,  \* the resolution and projection ticks of the schedulers
  Observer,             \* the transaction that has the session's evidence lock
  BatchSize, MaxBatches, ScanLimit,
  MaxAttempts,          \* attempts before FAILED (5)
  MaxEvents             \* bound on observations, publications and faults

Requester == Projector \cup {Observer}
Actor == Resolver \cup Requester

\* What normalizeContactIdentity names; a phone is stored only beside its JID.
Exact == {i \in Identity : TypeOf[i] # "PHONE"}

ASSUME ProjectionAssumption ==
  /\ Member \subseteq Nat /\ IsFiniteSet(Member) /\ Legacy \subseteq Member
  /\ 0 \notin Member \cup Identity  \* a cursor of 0 is before all
  /\ IdentityOf \in [Member -> Exact]
  /\ Sender \subseteq Exact
  /\ \A i \in Identity : TypeOf[i] = "PHONE_JID" =>
       /\ Derived[i] \in Identity /\ TypeOf[Derived[i]] = "PHONE"
       /\ \A j \in Identity : TypeOf[j] = "PHONE_JID" /\ Derived[j] = Derived[i] => j = i
  /\ \A c \in Snapshot : DOMAIN c \subseteq Exact /\ \A i \in DOMAIN c :
       c[i].phone # None => c[i].phone \in Identity /\ TypeOf[c[i].phone] = "PHONE"
  /\ None \notin PushName \cup GroupName \cup Actor
  /\ Resolver \cap Projector = {} /\ Observer \notin Resolver \cup Projector
  /\ \A n \in {BatchSize, MaxBatches, ScanLimit, MaxAttempts} : n \in Nat \ {0}
  /\ MaxEvents \in Nat /\ Generations \in Seq(SUBSET Snapshot)

VARIABLES
  now,
  obs,      \* contact_observations: push names
  seen,     \* when an identity was first observed, 0 if never
  links,    \* when a phone JID's own link was stored, 0 if never
  gens,     \* the published generations
  runs,     \* contact_resolution_runs, by generation
  work,     \* contact_projection_work
  rev,      \* contact_projection_revision_seq
  member,   \* group_members
  scan,     \* the evidence backfill and the bootstrap, and their cursors
  job,      \* the work a projector claimed, and its batches so far
  claim,    \* the generation a resolver claimed, 0 if none
  open,     \* the open request of an actor
  gap,
  events    \* what the environment has done so far

evidence == <<obs, seen, links, gens>>
procs == <<job, claim>>
vars == <<now, evidence, runs, work, rev, member, scan, procs, open, gap, events>>

NoWork ==
  [status |-> "NONE", req |-> 0, reqCut |-> 0, act |-> 0, actCut |-> 0, actRun |-> 0,
   cursor |-> 0, att |-> 0, lease |-> None, live |-> FALSE]
NoShown == [name |-> None, source |-> None, phone |-> None]
Absent == [present |-> FALSE, known |-> FALSE, group |-> None, rev |-> 0, shown |-> NoShown]

Init ==
  /\ now = 1 /\ rev = 0 /\ events = 0
  /\ obs = {} /\ gens = <<>> /\ runs = <<>> /\ gap = {}
  /\ seen = [i \in Identity |-> 0] /\ links = [i \in Identity |-> 0]
  /\ work = [i \in Identity |-> NoWork]
  /\ member = [m \in Member |-> [Absent EXCEPT !.present = m \in Legacy]]
  /\ scan = [j \in {"backfill", "bootstrap"} |-> [status |-> "PENDING", at |-> 0]]
  /\ job = [p \in Projector |-> None]
  /\ claim = [r \in Resolver |-> 0]
  /\ open = [a \in Actor |-> None]

\* One event or fault of the bounded environment.
Happens == events < MaxEvents /\ events' = events + 1

-----------------------------------------------------------------------------
(* What a projection shows                                                 *)

CompletedRuns == {g \in DOMAIN runs : runs[g].status = "COMPLETED"}

\* The generation of the newest run completed by a time, 0 if there is none.
RunAt(cut) ==
  LET G == {g \in CompletedRuns : runs[g].at <= cut}
  IN  IF G = {} THEN 0 ELSE CHOOSE g \in G : \A h \in G : runs[h].at <= runs[g].at

ResultOf(g) == IF g = 0 THEN NoResult ELSE runs[g].result

Latest == ResultOf(RunAt(now))

Canonical(i) == CanonicalIn(Latest, i)

\* Order of observations: source time, then key.
Newer(o, p) ==
  \/ o.src > p.src
  \/ o.src = p.src /\ o.at > p.at
  \/ o.src = p.src /\ o.at = p.at /\ o.id > p.id

LastName(O) ==
  IF O = {} THEN None
  ELSE (CHOOSE o \in O : \A p \in O : o = p \/ Newer(o, p)).name

(***************************************************************************)
(* The name, its source and the phone that a projection at a run and a     *)
(* cutoff gives a member: the cluster's contact name, the membership's     *)
(* name, the last push name of the exact identity, that of an alias.       *)
(***************************************************************************)
Effective(m, result, cut) ==
  LET i == IdentityOf[m]
      a == result.assign[i]
      resolved == a.status = "RESOLVED"
      aliases == {j \in Identity : /\ resolved /\ j # i
                                   /\ result.assign[j].status = "RESOLVED"
                                   /\ result.assign[j].cluster = a.cluster}
      contact == IF resolved THEN result.clusters[a.cluster].name ELSE None
      push == LastName({o \in obs : o.id = i /\ o.at <= cut})
      alias == LastName({o \in obs : o.id \in aliases /\ o.at <= cut})
      phone == IF resolved THEN a.phone
               ELSE IF TypeOf[i] = "PHONE_JID" THEN Derived[i] ELSE None
      Show(name, source) == [name |-> name, source |-> source, phone |-> phone]
  IN  CASE contact # None -> Show(contact, "OPENWA_CONTACT_NAME")
        [] contact = None /\ member[m].group # None
             -> Show(member[m].group, "GROUP_PARTICIPANT_NAME")
        [] contact = None /\ member[m].group = None /\ push # None
             -> Show(push, "OPENWA_PUSH_NAME")
        [] contact = None /\ member[m].group = None /\ push = None /\ alias # None
             -> Show(alias, "RESOLVED_ALIAS_PUSH_NAME")
        [] OTHER -> Show(None, None)

-----------------------------------------------------------------------------
(* enqueueContactProjectionWork                                            *)

\* A request for new work; running or retried work keeps its active revision.
Requested(w, r, cut) ==
  IF w.status \in {"RUNNING", "RETRY"} /\ w.act # 0
  THEN [w EXCEPT !.req = r, !.reqCut = cut]
  ELSE [NoWork EXCEPT !.status = "PENDING", !.req = r, !.reqCut = cut]

\* The request of an identity that is now an alias is left to its cluster.
Retired(w) ==
  IF w.status \in {"PENDING", "RETRY", "FAILED"}
  THEN [w EXCEPT !.status = "IDLE", !.act = 0, !.actCut = 0, !.actRun = 0, !.cursor = 0]
  ELSE w

Upserted(sources, targets, cut) ==
  [i \in Identity |->
     CASE i \in targets ->
            Requested(work[i], rev + Cardinality({j \in targets : j <= i}), cut)
       [] i \in sources \ targets -> Retired(work[i])
       [] OTHER -> work[i]]

Kin(result, I) ==
  {j \in Identity : \E i \in I : CanonicalIn(result, j) = CanonicalIn(result, i)}

\* The open statements take note of names that they have not read.
Noted(K) ==
  [a \in Actor |-> IF open[a] = None THEN None ELSE [open[a] EXCEPT !.beside = @ \cup K]]

(***************************************************************************)
(* What a transaction stores beside its request: push names; evidence for  *)
(* ids, first observed at since; group_members rows with the name that the *)
(* group gives; the state of a scan's job.  member is held by those that   *)
(* hold the session's member projection lock.                              *)
(***************************************************************************)
NoWrites ==
  [names |-> {}, ids |-> {}, since |-> 0, rows |-> {}, group |-> None,
   job |-> "none", state |-> [status |-> "PENDING", at |-> 0], lock |-> FALSE]

\* The request of actor a for identities I begins, as of a time.
Opens(a, I, time, writes) ==
  open' = [open EXCEPT ![a] =
    [gen |-> 0, result |-> Latest, at |-> time, beside |-> {},
     sources |-> I, targets |-> CanonicalsIn(Latest, I), writes |-> writes]]

OpenRequests == {open[a] : a \in {a \in Requester : open[a] # None}}
RowsHeld == UNION {b.writes.rows : b \in OpenRequests}
MembersLocked == \E b \in OpenRequests : b.writes.lock
JobHeld(j) == \E b \in OpenRequests : b.writes.job = j

-----------------------------------------------------------------------------
(* Evidence                                                                *)

\* Identities stored with their phone, and the link of a phone JID.
WithPhone(I) == I \cup {Derived[i] : i \in {i \in I : TypeOf[i] = "PHONE_JID"}}

\* First observed since a time that may be long past; the link is new.
ObservedAt(I, since, time) ==
  /\ seen' = [i \in Identity |->
                IF i \in WithPhone(I) /\ (seen[i] = 0 \/ since < seen[i]) THEN since ELSE seen[i]]
  /\ links' = [i \in Identity |->
                 IF links[i] = 0 /\ i \in I /\ TypeOf[i] = "PHONE_JID" THEN time ELSE links[i]]

(***************************************************************************)
(* The commit of a request that an observer or a scan began: its rows,     *)
(* with the time and the targets of its beginning, and all that the        *)
(* transaction stored.  It promises fresh names for the kin of its         *)
(* identities, except where a name was stored beside it (late); while a    *)
(* resolver is at its own statement nothing is promised, and the names     *)
(* stored here may be missed.                                              *)
(***************************************************************************)
RequestCommit(a) ==
  \E b \in {open[a]} \ {None} :
  LET w == b.writes
      news == {o.id : o \in w.names}
      touched == b.sources \cup b.targets
      K == Kin(Latest, touched) \cup Kin(ResultOf(RunAt(b.at)), touched)
      late == {i \in K : Kin(Latest, {i}) \cap b.beside # {}}
  IN  /\ obs' = obs \cup w.names
      /\ ObservedAt(w.ids, w.since, b.at)
      /\ member' = [m \in Member |->
           IF m \in w.rows
           THEN [member[m] EXCEPT !.present = TRUE, !.known = TRUE, !.group = w.group]
           ELSE member[m]]
      /\ scan' = [j \in DOMAIN scan |-> IF j = w.job THEN w.state ELSE scan[j]]
      /\ work' = Upserted(b.sources, b.targets, b.at)
      /\ rev' = rev + Cardinality(b.targets)
      /\ open' = [Noted(news) EXCEPT ![a] = None]
      /\ gap' = IF \E r \in Resolver : open[r] # None
                THEN gap \cup late \cup Kin(Latest, news)
                ELSE (gap \ K) \cup late
      /\ UNCHANGED <<now, gens, runs, procs, events>>

(***************************************************************************)
(* A message of identity i with a push name, sent just now or overtaken.   *)
(* A repeated event finds its key taken and changes nothing.  Only a newer *)
(* and different name asks for work; another is stored in one step.  A     *)
(* message or a group row that fails leaves nothing, as if it had not come. *)
(***************************************************************************)
Dirty(o) ==
  LET O == {p \in obs : p.id = o.id}
  IN  O = {} \/ ((\A p \in O : Newer(o, p)) /\ o.name # LastName(O))

ObserveMessageSender(i, name, src) ==
  LET o == [id |-> i, name |-> name, src |-> src, at |-> now + 1, gen |-> 0]
  IN  /\ Happens
      /\ open[Observer] = None
      /\ src = now + 1 \/ (src = 1 /\ obs # {})
      /\ now' = now + 1
      /\ IF Dirty(o)
         THEN /\ Opens(Observer, {i}, now + 1,
                       [NoWrites EXCEPT !.names = {o}, !.ids = {i}, !.since = now + 1])
              /\ UNCHANGED <<obs, seen, links>>
         ELSE /\ obs' = obs \cup {o}
              /\ ObservedAt({i}, now + 1, now + 1)
              /\ UNCHANGED open
      /\ UNCHANGED <<gens, runs, work, rev, member, scan, procs, gap>>

\* A group replacement inserts or changes the member's row.
SeedGroupMember(m, name) ==
  /\ Happens
  /\ open[Observer] = None /\ ~MembersLocked /\ m \notin RowsHeld
  /\ ~member[m].present \/ member[m].group # name
  /\ now' = now + 1
  /\ Opens(Observer, {IdentityOf[m]}, now + 1,
           [NoWrites EXCEPT !.ids = {IdentityOf[m]}, !.since = now + 1,
                            !.rows = {m}, !.group = name, !.lock = TRUE])
  /\ UNCHANGED <<evidence, runs, work, rev, member, scan, procs, gap>>

RemoveGroupMember(m) ==
  /\ Happens /\ member[m].present
  /\ ~MembersLocked /\ m \notin RowsHeld
  /\ now' = now + 1
  /\ member' = [member EXCEPT ![m] = Absent]
  /\ UNCHANGED <<evidence, runs, work, rev, scan, procs, open, gap>>

(***************************************************************************)
(* A snapshot becomes a published generation.  Its push names are stored   *)
(* and nothing is requested for them.                                      *)
(***************************************************************************)
Uncovered(c) == {i \in DOMAIN c : c[i].push # None}

PublishSnapshot(c) ==
  /\ Happens
  /\ Len(gens) < Len(Generations) /\ c \in Generations[Len(gens) + 1]
  /\ now' = now + 1
  /\ gens' = Append(gens, [at |-> now + 1, content |-> c])
  /\ seen' = [i \in Identity |->
                IF seen[i] = 0 /\ i \in DOMAIN c \cup {c[j].phone : j \in DOMAIN c}
                THEN now + 1 ELSE seen[i]]
  /\ obs' = obs \cup {[id |-> i, name |-> c[i].push, src |-> now + 1, at |-> now + 1,
                        gen |-> Len(gens) + 1] : i \in Uncovered(c)}
  /\ gap' = gap \cup Kin(Latest, Uncovered(c))
  /\ open' = Noted(Uncovered(c))
  /\ UNCHANGED <<links, runs, work, rev, member, scan, procs>>

(***************************************************************************)
(* The retention tick drops a message's push name that a newer one of the  *)
(* identity has replaced, while the session has no active work.            *)
(***************************************************************************)
Active == {"PENDING", "RUNNING", "RETRY"}

DeleteRedundantContactObservation(o) ==
  /\ o \in obs /\ o.gen = 0
  /\ \E p \in obs : p.id = o.id /\ p.gen = 0 /\ Newer(p, o)
  /\ \A g \in DOMAIN runs : runs[g].status \notin Active
  /\ \A i \in Identity : work[i].status \notin Active
  /\ obs' = obs \ {o}
  /\ open' = Noted({o.id})
  /\ UNCHANGED <<now, seen, links, gens, runs, work, rev, member, scan, procs, gap, events>>

-----------------------------------------------------------------------------
(* The resolution tick                                                     *)

NewRun(g) ==
  [status |-> "PENDING", att |-> 0, lease |-> None, live |-> FALSE, at |-> 0, result |-> NoResult]

EnqueuePublished ==
  /\ Len(runs) < Len(gens)
  /\ runs' = Append(runs, NewRun(Len(runs) + 1))
  /\ UNCHANGED <<now, evidence, work, rev, member, scan, procs, open, gap, events>>

AtMost(a) == IF a < MaxAttempts THEN a + 1 ELSE a

Claimable(w) == w.status \in {"PENDING", "RETRY"} \/ (w.status = "RUNNING" /\ ~w.live)

ClaimRun(r, g) ==
  /\ claim[r] = 0
  /\ Claimable(runs[g])
  /\ \A q \in Resolver : open[q] # None => open[q].gen # g
  /\ claim' = [claim EXCEPT ![r] = g]
  /\ runs' = [runs EXCEPT ![g] = [@ EXCEPT !.status = "RUNNING", !.att = AtMost(runs[g].att),
                                           !.lease = r, !.live = TRUE]]
  /\ UNCHANGED <<now, evidence, work, rev, member, scan, job, open, gap, events>>

EvidenceOf(g) ==
  LET c == gens[g].content
  IN  {Link(i, c[i].phone, "CONTACT_PHONE") :
         i \in {i \in DOMAIN c : TypeOf[i] = "LID" /\ c[i].phone # None}}
        \cup {Link(i, Derived[i], "PHONE_JID_DERIVATION") :
                i \in {i \in Identity : /\ TypeOf[i] = "PHONE_JID"
                                        /\ \/ i \in DOMAIN c
                                           \/ links[i] \in 1..gens[g].at}}

Nodes(g) == {i \in Identity : seen[i] \in 1..gens[g].at}

ContactNames(g) ==
  [i \in Identity |-> IF i \in DOMAIN gens[g].content THEN gens[g].content[i].name ELSE None]

OwnsRun(r) ==
  claim[r] # 0 /\ runs[claim[r]].status = "RUNNING" /\ runs[claim[r]].lease = r

(***************************************************************************)
(* resolve, table by table, up to the statement that requests projections: *)
(* its completion time and the changes it has found are fixed here.        *)
(***************************************************************************)
ResolveBegin(r) ==
  /\ OwnsRun(r) /\ runs[claim[r]].live /\ open[r] = None
  /\ now' = now + 1
  /\ UNCHANGED <<evidence, runs, work, rev, member, scan, procs, gap, events>>
  /\ \E E \in {EvidenceOf(claim[r])}, nodes \in {Nodes(claim[r])},
        names \in {ContactNames(claim[r])}, previous \in {Latest} :
     \E conflicted \in {Conflicted(E)} :
     \E eligible \in {Eligible(E, conflicted)} :
     \E closed \in {Closed(eligible)} :
     \E classes \in {Classes(nodes, closed)} :
     \E component \in {Components(nodes, classes)} :
     \E clusters \in {Clusters(component, names)} :
     \E result \in {[assign |-> Assignments(component, clusters, conflicted),
                     clusters |-> clusters]} :
     \E affected \in {AffectedBy(previous, result)} :
       open' = [open EXCEPT ![r] =
         [gen |-> claim[r], result |-> result, at |-> now + 1, beside |-> {},
          sources |-> affected, targets |-> CanonicalsIn(result, affected),
          writes |-> NoWrites]]

Covered(r) ==
  LET K == Kin(open[r].result, open[r].targets)
      late == {j \in K : Kin(open[r].result, {j}) \cap open[r].beside # {}}
  IN  (gap \ K) \cup (IF \E q \in Resolver \ {r} : open[q] # None THEN K ELSE late)

\* The rows of the statement, with the time it began at, and the commit.  A
\* resolver that commits later has not compared with this run.
ResolveCommit(r) ==
  LET b == open[r]
  IN  /\ b # None
      /\ work' = Upserted(b.sources, b.targets, b.at)
      /\ rev' = rev + Cardinality(b.targets)
      /\ gap' = Covered(r)
      /\ open' = [Noted(Identity) EXCEPT ![r] = None]
      /\ runs' = [runs EXCEPT ![b.gen] =
           [@ EXCEPT !.status = "COMPLETED", !.lease = None, !.live = FALSE,
                     !.at = b.at, !.result = b.result]]
      /\ claim' = [claim EXCEPT ![r] = 0]
      /\ UNCHANGED <<now, evidence, member, scan, job, events>>

\* Mutants: the lease outlives the attempt; the last attempt stays RUNNING.
Failed_KeepsLease(w) ==
  [w EXCEPT !.status = IF w.att >= MaxAttempts THEN "FAILED" ELSE "RETRY"]
Failed_NoRetry(w) ==
  IF w.att >= MaxAttempts THEN [w EXCEPT !.status = "FAILED", !.lease = None, !.live = FALSE] ELSE w

Failed(w) ==
  [w EXCEPT !.status = IF w.att >= MaxAttempts THEN "FAILED" ELSE "RETRY",
            !.lease = None, !.live = FALSE]

\* An error, or ownership that is found lost, ends the attempt.
ResolveFail(r) ==
  /\ claim[r] # 0
  /\ \/ Happens
     \/ open[r] = None /\ ~(OwnsRun(r) /\ runs[claim[r]].live) /\ UNCHANGED events
  /\ runs' = IF OwnsRun(r) THEN [runs EXCEPT ![claim[r]] = Failed(@)] ELSE runs
  /\ claim' = [claim EXCEPT ![r] = 0]
  /\ open' = [open EXCEPT ![r] = None]
  /\ UNCHANGED <<now, evidence, work, rev, member, scan, job, gap>>

-----------------------------------------------------------------------------
(* The projection tick: housekeeping scans, each a transaction, then claims *)

First(S, n) == {x \in S : Cardinality({y \in S : y <= x}) <= n}

Present == {m \in Member : member[m].present}

(***************************************************************************)
(* materializeEvidenceBackfillPage: evidence for the members of a page     *)
(* that have none, first observed when they were synchronized, before all  *)
(* that now counts.                                                        *)
(***************************************************************************)
Materialize(p, page, writes) ==
  LET missing == {m \in page : ~member[m].known}
      I == {IdentityOf[m] : m \in missing}
  IN  /\ missing \cap RowsHeld = {}
      /\ Opens(p, I, now, [writes EXCEPT !.ids = I, !.since = 1, !.rows = missing])

\* The state of a one-shot scan; a page below the limit is the last.
Advanced(s, page) ==
  [status |-> IF Cardinality(page) < ScanLimit THEN "COMPLETED" ELSE "PENDING",
   at |-> IF page = {} THEN s.at ELSE Max(page)]

BackfillEvidence(p) ==
  LET page == First({m \in Present : m > scan["backfill"].at}, ScanLimit)
  IN  /\ scan["backfill"].status = "PENDING" /\ ~JobHeld("backfill")
      /\ Materialize(p, page, [NoWrites EXCEPT !.job = "backfill",
                                               !.state = Advanced(scan["backfill"], page)])

CatchUpMissingEvidence(p) ==
  LET page == First({m \in Present : ~member[m].known}, ScanLimit)
  IN  /\ page # {} /\ ~JobHeld("late") /\ ~MembersLocked
      /\ Materialize(p, page, [NoWrites EXCEPT !.job = "late", !.lock = TRUE])

EnqueueBootstrap(p) ==
  LET page == First({i \in Identity : /\ i > scan["bootstrap"].at
                                      /\ \E m \in Present : member[m].known /\ IdentityOf[m] = i},
                    ScanLimit)
  IN  /\ scan["bootstrap"].status = "PENDING" /\ ~JobHeld("bootstrap")
      /\ Opens(p, page, now, [NoWrites EXCEPT !.job = "bootstrap",
                                              !.state = Advanced(scan["bootstrap"], page)])

\* The rows of the aliases are locked until the scan commits; others skip them.
AliasesHeld == UNION {b.sources : b \in {b \in OpenRequests : b.writes.job = "aliases"}}

CoalesceResolvedAliases(p) ==
  LET aliases == {i \in Identity \ AliasesHeld :
                    /\ work[i].status \in {"PENDING", "RETRY", "FAILED"}
                    /\ Canonical(i) # i}
  IN  /\ aliases # {}
      /\ Opens(p, First(aliases, ScanLimit), now, [NoWrites EXCEPT !.job = "aliases"])

CatchUpUnprojected(p) ==
  LET behind == {Canonical(IdentityOf[m]) : m \in {m \in Present : member[m].known /\ member[m].rev = 0}}
      idle == {i \in behind : work[i].status \in {"NONE", "IDLE", "FAILED"}}
  IN  /\ idle # {} /\ ~JobHeld("unprojected")
      /\ Opens(p, First(idle, ScanLimit), now, [NoWrites EXCEPT !.job = "unprojected"])

\* A tick scans while it holds no claim, one scan after the other.
Scan(p) ==
  \/ /\ job[p] = None /\ open[p] = None
     /\ UNCHANGED <<now, evidence, runs, work, rev, member, scan, procs, gap, events>>
     /\ \/ BackfillEvidence(p) \/ EnqueueBootstrap(p) \/ CoalesceResolvedAliases(p)
        \/ CatchUpMissingEvidence(p) \/ CatchUpUnprojected(p)
  \/ RequestCommit(p)

\* An interrupted claim is resumed with the revision, cutoff and run it had.
Claim(p, i) ==
  LET w == work[i]
      act == IF w.act # 0 THEN w.act ELSE w.req
      cut == IF w.act # 0 THEN w.actCut ELSE w.reqCut
  IN  /\ job[p] = None /\ open[p] = None
      /\ Claimable(w) /\ i \notin AliasesHeld
      /\ work' = [work EXCEPT ![i] =
           [w EXCEPT !.status = "RUNNING", !.act = act, !.actCut = cut,
                     !.actRun = IF w.actRun # 0 THEN w.actRun ELSE RunAt(cut),
                     !.att = AtMost(w.att), !.lease = p, !.live = TRUE]]
      /\ job' = [job EXCEPT ![p] = [id |-> i, batches |-> 0]]
      /\ UNCHANGED <<now, evidence, runs, rev, member, scan, claim, open, gap, events>>

Owns(p) ==
  job[p] # None /\ work[job[p].id].status = "RUNNING" /\ work[job[p].id].lease = p

AffectedIdentities(i, result) ==
  {i} \cup {j \in Identity : /\ result.assign[i].status = "RESOLVED"
                             /\ result.assign[j].status = "RESOLVED"
                             /\ result.assign[j].cluster = result.assign[i].cluster}

Page(i) ==
  First({m \in Present : /\ member[m].known /\ m > work[i].cursor
                         /\ IdentityOf[m] \in AffectedIdentities(i, ResultOf(work[i].actRun))},
        BatchSize)

\* Mutant: the completed work is idle whatever was asked for in the meantime.
Finished_Idle(w) == [NoWork EXCEPT !.status = "IDLE", !.req = w.req, !.reqCut = w.reqCut]

\* Work asked for while this revision ran is pending again.
Finished(w) ==
  [NoWork EXCEPT !.status = IF w.req > w.act THEN "PENDING" ELSE "IDLE",
                 !.req = w.req, !.reqCut = w.reqCut]

Write(m, w) ==
  IF member[m].rev <= w.act
  THEN [member[m] EXCEPT !.rev = w.act,
                         !.shown = Effective(m, ResultOf(w.actRun), w.actCut)]
  ELSE member[m]

ProjectBatch(p) ==
  LET i == job[p].id
      w == work[i]
      page == Page(i)
      completed == Cardinality(page) < BatchSize
  IN  /\ Owns(p) /\ w.live /\ job[p].batches < MaxBatches /\ ~MembersLocked
      /\ member' = [m \in Member |-> IF m \in page THEN Write(m, w) ELSE member[m]]
      /\ work' = [work EXCEPT ![i] = IF completed THEN Finished(w)
                                     ELSE [w EXCEPT !.cursor = Max(page)]]
      /\ job' = [job EXCEPT ![p] = IF completed THEN None
                                   ELSE [id |-> i, batches |-> job[p].batches + 1]]
      /\ UNCHANGED <<now, evidence, runs, rev, scan, claim, open, gap, events>>

\* The tick's batches are used up: the work waits for the next tick, cursor kept.
Release(p) ==
  /\ job[p] # None /\ job[p].batches = MaxBatches
  /\ work' = IF Owns(p)
             THEN [work EXCEPT ![job[p].id] = [@ EXCEPT !.status = "PENDING",
                                                        !.lease = None, !.live = FALSE]]
             ELSE work
  /\ job' = [job EXCEPT ![p] = None]
  /\ UNCHANGED <<now, evidence, runs, rev, member, scan, claim, open, gap, events>>

ProjectFail(p) ==
  /\ job[p] # None
  /\ \/ Happens
     \/ ~(Owns(p) /\ work[job[p].id].live) /\ UNCHANGED events
  /\ work' = IF Owns(p) THEN [work EXCEPT ![job[p].id] = Failed(@)] ELSE work
  /\ job' = [job EXCEPT ![p] = None]
  /\ UNCHANGED <<now, evidence, runs, rev, member, scan, claim, open, gap>>

-----------------------------------------------------------------------------
(* Faults                                                                  *)

\* A lease runs out, five minutes after its claim.
Expired(w) == [w EXCEPT !.live = FALSE]

ExpireWork(i) ==
  /\ work[i].live
  /\ Happens
  /\ work' = [work EXCEPT ![i] = Expired(@)]
  /\ UNCHANGED <<now, evidence, runs, rev, member, scan, procs, open, gap>>

ExpireRun(g) ==
  /\ runs[g].live
  /\ Happens
  /\ runs' = [runs EXCEPT ![g] = Expired(@)]
  /\ UNCHANGED <<now, evidence, work, rev, member, scan, procs, open, gap>>

\* A scheduler dies in its tick: what it had open is rolled back and its
\* lease is left to run out.
CrashResolver(r) ==
  /\ claim[r] # 0
  /\ Happens
  /\ runs' = IF OwnsRun(r) THEN [runs EXCEPT ![claim[r]] = Expired(@)] ELSE runs
  /\ claim' = [claim EXCEPT ![r] = 0] /\ open' = [open EXCEPT ![r] = None]
  /\ UNCHANGED <<now, evidence, work, rev, member, scan, job, gap>>

CrashProjector(p) ==
  /\ job[p] # None \/ open[p] # None
  /\ Happens
  /\ work' = IF Owns(p) THEN [work EXCEPT ![job[p].id] = Expired(@)] ELSE work
  /\ job' = [job EXCEPT ![p] = None] /\ open' = [open EXCEPT ![p] = None]
  /\ UNCHANGED <<now, evidence, runs, rev, member, scan, claim, gap>>

-----------------------------------------------------------------------------
Environment ==
  \/ \E i \in Sender, name \in PushName, src \in {1, now + 1} :
       ObserveMessageSender(i, name, src)
  \/ \E m \in Member, name \in GroupName \cup {None} : SeedGroupMember(m, name)
  \/ \E m \in Member : RemoveGroupMember(m)
  \/ \E c \in Snapshot : PublishSnapshot(c)
  \/ \E o \in obs : DeleteRedundantContactObservation(o)
  \/ \E r \in Resolver : CrashResolver(r)
  \/ \E p \in Projector : CrashProjector(p)

ResolverStep(r) ==
  \/ \E g \in DOMAIN runs : ClaimRun(r, g)
  \/ ResolveBegin(r) \/ ResolveCommit(r) \/ ResolveFail(r)

ProjectorStep(p) ==
  \/ \E i \in Identity : Claim(p, i)
  \/ ProjectBatch(p) \/ Release(p) \/ ProjectFail(p)

Next ==
  \/ Environment
  \/ RequestCommit(Observer)
  \/ EnqueuePublished
  \/ \E r \in Resolver : ResolverStep(r)
  \/ \E p \in Projector : ProjectorStep(p) \/ Scan(p)
  \/ \E i \in Identity : ExpireWork(i)
  \/ \E g \in DOMAIN runs : ExpireRun(g)

Spec == Init /\ [][Next]_vars

FairSpec ==
  /\ Spec
  /\ WF_vars(EnqueuePublished) /\ WF_vars(RequestCommit(Observer))
  /\ \A r \in Resolver : WF_vars(ResolverStep(r))
  /\ \A p \in Projector : WF_vars(ProjectorStep(p) \/ Scan(p))

-----------------------------------------------------------------------------
(* Properties                                                              *)

\* Types, and how the counters of a queue row are related: only RUNNING work
\* is leased, the active cutoff is not past the requested one, which is a
\* revision that exists; a projected member has been observed.
TypeOK ==
  /\ now \in Nat /\ rev \in Nat /\ events \in 0..MaxEvents
  /\ \A i \in Identity :
       /\ work[i].status \in {"NONE", "IDLE", "PENDING", "RUNNING", "RETRY", "FAILED"}
       /\ work[i].live => work[i].status = "RUNNING"
       /\ work[i].act <= work[i].req /\ work[i].req <= rev
       /\ work[i].att <= MaxAttempts
  /\ \A m \in Member : member[m].rev <= rev /\ (member[m].rev > 0 => member[m].known)
  /\ \A r \in Resolver : claim[r] \in 0..Len(runs)
  /\ Len(runs) <= Len(gens)
  /\ gap \subseteq Identity

\* No scan, resolution or projection has anything left to do.
Drained ==
  /\ \A a \in Actor : open[a] = None
  /\ Len(runs) = Len(gens) /\ \A g \in DOMAIN runs : runs[g].status = "COMPLETED"
  /\ \A i \in Identity : work[i].status \in {"NONE", "IDLE"}
  /\ \A m \in Present : member[m].known /\ member[m].rev > 0

\* With no statement open and a drained queue, every member shows what the
\* evidence and the newest run say today, except in the gap: names stored,
\* or dropped by retention, between the beginning and the commit of another
\* statement that requests the same contact, a run completed there, two
\* resolvers that overlapped, and push names that only a snapshot brought.
\* Revisions are taken to be ordered as the commits are.
ProjectionCurrent ==
  Drained => \A m \in Present :
    IdentityOf[m] \notin gap => member[m].shown = Effective(m, Latest, now)

\* No run gives one phone to two LIDs.
ResolvedPhonesDistinct ==
  \A g \in CompletedRuns : \A i, j \in Identity :
    /\ i # j /\ TypeOf[i] = "LID" /\ TypeOf[j] = "LID"
    /\ runs[g].result.assign[i].phone # None
    => runs[g].result.assign[i].phone # runs[g].result.assign[j].phone

\* Once observations stop, every generation and every request settles, and
\* every member is projected or its work has FAILED.
QueueSettles ==
  <>[](/\ Len(runs) = Len(gens) /\ \A g \in DOMAIN runs : runs[g].status \in {"COMPLETED", "FAILED"}
       /\ \A i \in Identity : work[i].status \in {"NONE", "IDLE", "FAILED"}
       /\ \A m \in Present : member[m].rev > 0 \/ work[Canonical(IdentityOf[m])].status = "FAILED")
=============================================================================
