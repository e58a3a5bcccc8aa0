--------------------------- MODULE CampaignDefinition ---------------------------
(***************************************************************************)
(* Campaign definitions, their targets and the saved group lists they may  *)
(* be copied from, edited by several clients of one session at a time, and *)
(* the runs that are launched from them.                                   *)
(*                                                                         *)
(* A request reads the aggregate first and compares the revision it read   *)
(* when it writes, whether or not the client sent an expected revision: an *)
(* expected revision only moves the read back to the moment the client     *)
(* loaded the page.  So a client here is what it has loaded (seen), and a  *)
(* mutation uses that.  Each mutation is one transaction, serialized by    *)
(* the row lock it takes first.                                            *)
(*                                                                         *)
(* memberships is a history variable: the groups of a list, by membership  *)
(* revision.                                                               *)
(***************************************************************************)
EXTENDS Naturals, Sequences, FiniteSets

CONSTANTS
  Client,
  Campaign, List,        \* row ids
  Key, ListKey, RunKey,  \* idempotency keys of creations and launches
  Group, Known,          \* group ids, those that are synchronized in the session
  Text, Name,
  MaxTime,               \* bound on the clock and on schedules
  MaxChanges,            \* bound on accepted mutations
  None

ASSUME DefinitionAssumption ==
  /\ None \notin Client /\ None \notin Campaign /\ None \notin List
  /\ None \notin Key /\ None \notin ListKey /\ None \notin Text /\ None \notin Name
  /\ Known \subseteq Group /\ IsFiniteSet(Group) /\ Campaign \subseteq Nat /\ List \subseteq Nat
  /\ MaxTime \in Nat /\ MaxChanges \in Nat

VARIABLES
  campaign,     \* campaigns with campaign_targets
  list,         \* group_lists with group_list_items
  runs,         \* campaign_runs by campaign and key
  seen,         \* what a client has loaded, and what it is creating
  memberships,
  clock,
  changes       \* accepted mutations so far

vars == <<campaign, list, runs, seen, memberships, clock, changes>>

\* at is the time of a ONCE schedule, 0 for an IMMEDIATE one.
NoCampaign ==
  [key |-> None, hash |-> None, status |-> None, text |-> None, at |-> 0, rev |-> 0, trev |-> 0,
   targets |-> {}, source |-> None, deleted |-> FALSE]
NoList ==
  [key |-> None, hash |-> None, name |-> None, rev |-> 0, mrev |-> 0, groups |-> {},
   archived |-> FALSE]
NoRun == [mode |-> None, active |-> FALSE]
Nothing == [id |-> None, row |-> NoCampaign, lid |-> None, lrow |-> NoList, create |-> None]

Init ==
  /\ campaign = [c \in Campaign |-> NoCampaign]
  /\ list = [l \in List |-> NoList]
  /\ runs = [c \in Campaign |-> [k \in RunKey |-> NoRun]]
  /\ seen = [u \in Client |-> Nothing]
  /\ memberships = [l \in List |-> <<>>]
  /\ clock = 0 /\ changes = 0

Exists(row) == row.key # None
Visible(row) == Exists(row) /\ ~row.deleted

\* An accepted mutation; a client forgets what it has used.
Accept == changes < MaxChanges /\ changes' = changes + 1
Writes(u, c, row) ==
  /\ IF row = campaign[c] THEN UNCHANGED changes ELSE Accept
  /\ campaign' = [campaign EXCEPT ![c] = row]
  /\ seen' = [seen EXCEPT ![u] = Nothing]
WritesList(u, l, row) ==
  /\ IF row = list[l] THEN UNCHANGED changes ELSE Accept
  /\ list' = [list EXCEPT ![l] = row]
  /\ seen' = [seen EXCEPT ![u] = Nothing]

Idle(u) == seen[u].create = None

-----------------------------------------------------------------------------
(* Reads                                                                   *)

\* get, listTargets and preflight: content, targets and source of one snapshot.
LoadCampaign(u, c) ==
  /\ Idle(u) /\ Visible(campaign[c])
  /\ seen' = [seen EXCEPT ![u] = [@ EXCEPT !.id = c, !.row = campaign[c]]]
  /\ UNCHANGED <<campaign, list, runs, memberships, clock, changes>>

LoadList(u, l) ==
  /\ Idle(u) /\ Exists(list[l]) /\ ~list[l].archived
  /\ seen' = [seen EXCEPT ![u] = [@ EXCEPT !.lid = l, !.lrow = list[l]]]
  /\ UNCHANGED <<campaign, list, runs, memberships, clock, changes>>

\* A schedule in the past is refused; IMMEDIATE and unchanged ones are not.
Ahead(at) == at # None /\ at # 0 => at > clock

-----------------------------------------------------------------------------
(* Creation, idempotent by key: a look for the key, then an insert that    *)
(* gives way to the row of a concurrent request.                           *)

Taken(table, k) == \E i \in DOMAIN table : table[i].key = k

\* Mutant: the session of a group is not looked at.
ValidGroups_Any(G) == TRUE

\* Every group is synchronized, and in this session.
ValidGroups(G) == G \subseteq Known

BeginCreate(u, kind, k, hash) ==
  /\ Idle(u)
  /\ seen' = [seen EXCEPT ![u] = [Nothing EXCEPT !.create = [kind |-> kind, key |-> k, hash |-> hash]]]

CreateCampaign(u, k, text, at) ==
  /\ ~Taken(campaign, k)
  /\ Ahead(at)
  /\ BeginCreate(u, "campaign", k, [text |-> text, at |-> at])
  /\ UNCHANGED <<campaign, list, runs, memberships, clock, changes>>

CreateList(u, k, name, G) ==
  /\ ~Taken(list, k)
  /\ ValidGroups(G)
  /\ BeginCreate(u, "list", k, [name |-> name, groups |-> G])
  /\ UNCHANGED <<campaign, list, runs, memberships, clock, changes>>

Conflicts(table, k) == Taken(table, k)

\* Rows are numbered in the order of their inserts.
NewRow(table, i) == ~Exists(table[i]) /\ \A j \in DOMAIN table : j < i => Exists(table[j])

InsertCampaign(u, c) ==
  LET q == seen[u].create
  IN  /\ q # None /\ q.kind = "campaign"
      /\ NewRow(campaign, c)
      /\ Writes(u, c, IF Conflicts(campaign, q.key) THEN campaign[c]
                      ELSE [NoCampaign EXCEPT !.key = q.key, !.hash = q.hash, !.status = "DRAFT",
                              !.text = q.hash.text, !.at = q.hash.at, !.rev = 1, !.trev = 1])
      /\ UNCHANGED <<list, runs, memberships, clock>>

\* An active list has its name for itself: the insert or update fails otherwise.
NameFree(l, name) ==
  \A m \in List \ {l} : Exists(list[m]) /\ ~list[m].archived => list[m].name # name

InsertList(u, l) ==
  LET q == seen[u].create
      row == [NoList EXCEPT !.key = q.key, !.hash = q.hash, !.name = q.hash.name,
                            !.rev = 1, !.mrev = 1, !.groups = q.hash.groups]
      inserts == ~Conflicts(list, q.key) /\ NameFree(l, q.hash.name)
  IN  /\ q # None /\ q.kind = "list"
      /\ NewRow(list, l)
      /\ WritesList(u, l, IF inserts THEN row ELSE list[l])
      /\ memberships' = IF inserts THEN [memberships EXCEPT ![l] = <<q.hash.groups>>]
                        ELSE memberships
      /\ UNCHANGED <<campaign, runs, clock>>

-----------------------------------------------------------------------------
(* Campaign edits                                                          *)

\* Fields that a request leaves out (None) keep the value that was read.
Patched(value, old) == IF value = None THEN old ELSE value

\* The revision moves with the content.
Edited(row, text, at) ==
  IF row.text = text /\ row.at = at THEN row
  ELSE [row EXCEPT !.text = text, !.at = at, !.rev = @ + 1]

Draft(row) == Visible(row) /\ row.status = "DRAFT"

\* Mutant: the revision is not compared, so the last writer wins.
ContentEditable_AnyRevision(u) == Draft(campaign[seen[u].id])

ContentEditable(u) ==
  /\ Draft(campaign[seen[u].id])
  /\ campaign[seen[u].id].rev = seen[u].row.rev

Update(u, text, at) ==
  LET c == seen[u].id
      base == seen[u].row
      row == campaign[c]
  IN  /\ Idle(u) /\ c # None /\ base.status = "DRAFT"
      /\ Ahead(at)
      /\ Writes(u, c, IF ContentEditable(u)
                      THEN Edited(row, Patched(text, base.text), Patched(at, base.at))
                      ELSE row)
      /\ UNCHANGED <<list, runs, memberships, clock>>

\* Mutant: the source stays.
Replaced_KeepsSource(row, G) ==
  IF row.targets = G THEN row ELSE [row EXCEPT !.targets = G, !.trev = @ + 1]

\* Targets chosen by hand have no source.
Replaced(row, G) ==
  IF row.targets = G /\ row.source = None THEN row
  ELSE [row EXCEPT !.targets = G, !.source = None, !.trev = @ + 1]

TargetsEditable(u) ==
  /\ Draft(campaign[seen[u].id])
  /\ campaign[seen[u].id].trev = seen[u].row.trev

ReplaceTargets(u, G) ==
  LET c == seen[u].id
  IN  /\ Idle(u) /\ c # None /\ seen[u].row.status = "DRAFT"
      /\ Writes(u, c, IF TargetsEditable(u) /\ ValidGroups(G) THEN Replaced(campaign[c], G)
                      ELSE campaign[c])
      /\ UNCHANGED <<list, runs, memberships, clock>>

\* The source is the list with its name and membership of the moment.
Applied(row, l) ==
  IF /\ row.targets = list[l].groups
     /\ row.source # None /\ row.source.list = l /\ row.source.mrev = list[l].mrev
  THEN row
  ELSE [row EXCEPT !.targets = list[l].groups, !.trev = @ + 1,
          !.source = [list |-> l, mrev |-> list[l].mrev, name |-> list[l].name]]

\* The list is locked after the campaign; its expected revision is optional.
ApplyGroupListTargets(u, l) ==
  LET c == seen[u].id
      expected == seen[u].lid = l => list[l].mrev = seen[u].lrow.mrev
  IN  /\ Idle(u) /\ c # None /\ seen[u].row.status = "DRAFT"
      /\ Exists(list[l])
      /\ Writes(u, c, IF TargetsEditable(u) /\ ~list[l].archived /\ expected
                      THEN Applied(campaign[c], l) ELSE campaign[c])
      /\ UNCHANGED <<list, runs, memberships, clock>>

\* Mutant: runs are not looked for.
Deletable_AnyRun(c) == campaign[c].status \in {"DRAFT", "ARCHIVED"}

Deletable(c) ==
  /\ campaign[c].status \in {"DRAFT", "ARCHIVED"}
  /\ \A k \in RunKey : ~runs[c][k].active

\* Mutant: the targets are not compared.
Reviewed_ContentOnly(u, c) == seen[u].id = c /\ seen[u].row.rev = campaign[c].rev

\* The client's revisions of content and targets are the current ones.
Reviewed(u, c) ==
  /\ seen[u].id = c
  /\ seen[u].row.rev = campaign[c].rev /\ seen[u].row.trev = campaign[c].trev

Delete(u) ==
  LET c == seen[u].id
  IN  /\ Idle(u) /\ c # None
      /\ Writes(u, c, IF Visible(campaign[c]) /\ Reviewed(u, c) /\ Deletable(c)
                      THEN [campaign[c] EXCEPT !.deleted = TRUE, !.rev = @ + 1]
                      ELSE campaign[c])
      /\ UNCHANGED <<list, runs, memberships, clock>>

-----------------------------------------------------------------------------
(* Runs                                                                    *)

Launchable(c, mode) ==
  /\ Draft(campaign[c])
  /\ \A k \in RunKey : runs[c][k].mode # "LIVE"
  /\ mode = "LIVE" => Ahead(campaign[c].at)

\* The run copies text, targets and source.  review is a history field: what
\* the client looked at, if it sent the revisions.
Launch(u, k, mode, expects) ==
  LET c == seen[u].id
      row == campaign[c]
  IN  /\ Idle(u) /\ c # None
      /\ runs[c][k] = NoRun
      /\ Launchable(c, mode)
      /\ expects => Reviewed(u, c)
      /\ Accept
      /\ runs' = [runs EXCEPT ![c][k] =
           [mode |-> mode, active |-> TRUE, text |-> row.text, targets |-> row.targets,
            source |-> row.source, review |-> IF expects THEN seen[u].row ELSE None]]
      /\ campaign' = IF mode = "LIVE" THEN [campaign EXCEPT ![c].status = "ACTIVE"] ELSE campaign
      /\ seen' = [seen EXCEPT ![u] = Nothing]
      /\ UNCHANGED <<list, memberships, clock>>

\* A run is completed, blocked and cancelled, or cancelled: see CampaignRun.
EndRun(c, k) ==
  /\ runs[c][k].active
  /\ runs' = [runs EXCEPT ![c][k].active = FALSE]
  /\ campaign' = IF runs[c][k].mode = "LIVE" THEN [campaign EXCEPT ![c].status = "ARCHIVED"]
                 ELSE campaign
  /\ UNCHANGED <<list, seen, memberships, clock, changes>>

-----------------------------------------------------------------------------
(* Saved lists                                                             *)

Current(u) ==
  /\ ~list[seen[u].lid].archived
  /\ list[seen[u].lid].rev = seen[u].lrow.rev

UpdateList(u, name) ==
  LET l == seen[u].lid
      row == list[l]
  IN  /\ Idle(u) /\ l # None
      /\ WritesList(u, l, IF Current(u) /\ NameFree(l, name) /\ name # row.name
                          THEN [row EXCEPT !.name = name, !.rev = @ + 1] ELSE row)
      /\ UNCHANGED <<campaign, runs, memberships, clock>>

Archive(u) ==
  LET l == seen[u].lid
  IN  /\ Idle(u) /\ l # None
      /\ WritesList(u, l, IF Current(u) THEN [list[l] EXCEPT !.archived = TRUE, !.rev = @ + 1]
                          ELSE list[l])
      /\ UNCHANGED <<campaign, runs, memberships, clock>>

Regrouped(row, G) == [row EXCEPT !.groups = G, !.rev = @ + 1, !.mrev = @ + 1]

ReplaceGroups(u, G) ==
  LET l == seen[u].lid
      changed == Current(u) /\ ValidGroups(G) /\ G # list[l].groups
  IN  /\ Idle(u) /\ l # None
      /\ WritesList(u, l, IF changed THEN Regrouped(list[l], G) ELSE list[l])
      /\ memberships' = IF changed THEN [memberships EXCEPT ![l] = Append(@, G)] ELSE memberships
      /\ UNCHANGED <<campaign, runs, clock>>

-----------------------------------------------------------------------------
Tick ==
  /\ clock < MaxTime /\ clock' = clock + 1
  /\ UNCHANGED <<campaign, list, runs, seen, memberships, changes>>

CampaignRequest(u) ==
  \/ \E c \in Campaign : LoadCampaign(u, c) \/ InsertCampaign(u, c)
  \/ \E k \in Key, text \in Text, at \in 0..MaxTime : CreateCampaign(u, k, text, at)
  \/ \E text \in Text \cup {None}, at \in (0..MaxTime) \cup {None} : Update(u, text, at)
  \/ \E G \in SUBSET Group : ReplaceTargets(u, G)
  \/ \E l \in List : ApplyGroupListTargets(u, l)
  \/ \E k \in RunKey, mode \in {"LIVE", "DRY_RUN"}, expects \in BOOLEAN :
       Launch(u, k, mode, expects)
  \/ Delete(u)

ListRequest(u) ==
  \/ \E l \in List : LoadList(u, l) \/ InsertList(u, l)
  \/ \E k \in ListKey, name \in Name, G \in SUBSET Group : CreateList(u, k, name, G)
  \/ \E name \in Name : UpdateList(u, name)
  \/ \E G \in SUBSET Group : ReplaceGroups(u, G)
  \/ Archive(u)

Next ==
  \/ \E u \in Client : CampaignRequest(u) \/ ListRequest(u)
  \/ \E c \in Campaign, k \in RunKey : EndRun(c, k)
  \/ Tick

Spec == Init /\ [][Next]_vars

-----------------------------------------------------------------------------
(* Properties                                                              *)

Sources == [list : List, mrev : Nat, name : Name \cup {None}]
CampaignContents == [text : Text, at : 0..MaxTime]
ListContents == [name : Name, groups : SUBSET Known]
CampaignRows ==
  [key : Key \cup {None}, hash : CampaignContents \cup {None},
   status : {None, "DRAFT", "ACTIVE", "ARCHIVED"}, text : Text \cup {None}, at : 0..MaxTime,
   rev : Nat, trev : Nat, targets : SUBSET Known, source : Sources \cup {None}, deleted : BOOLEAN]
ListRows ==
  [key : ListKey \cup {None}, hash : ListContents \cup {None}, name : Name \cup {None},
   rev : Nat, mrev : Nat, groups : SUBSET Known, archived : BOOLEAN]
Runs ==
  [mode : {"LIVE", "DRY_RUN"}, active : BOOLEAN, text : Text \cup {None}, targets : SUBSET Known,
   source : Sources \cup {None}, review : CampaignRows \cup {None}]
Requests ==
  [kind : {"campaign"}, key : Key, hash : CampaignContents]
    \cup [kind : {"list"}, key : ListKey, hash : ListContents]
Views ==
  [id : Campaign \cup {None}, row : CampaignRows, lid : List \cup {None}, lrow : ListRows,
   create : Requests \cup {None}]

\* Rows, runs and clients are well formed; only what exists has revisions and can be deleted
\* or archived; who is creating something has nothing else open.
TypeOK ==
  /\ campaign \in [Campaign -> CampaignRows]
  /\ list \in [List -> ListRows]
  /\ runs \in [Campaign -> [RunKey -> Runs \cup {NoRun}]]
  /\ seen \in [Client -> Views]
  /\ memberships \in [List -> Seq(SUBSET Known)]
  /\ \A c \in Campaign : Exists(campaign[c]) <=> campaign[c].rev > 0
  /\ \A c \in Campaign : campaign[c].deleted => Exists(campaign[c])
  /\ \A l \in List : list[l].mrev <= list[l].rev /\ (Exists(list[l]) <=> list[l].mrev > 0)
  /\ \A l \in List : list[l].archived => Exists(list[l])
  /\ \A u \in Client : seen[u].create # None => seen[u].id = None /\ seen[u].lid = None
  /\ clock \in 0..MaxTime /\ changes \in 0..MaxChanges

\* A step that answers a client who had in front of it what is stored.
Served(u) == seen'[u] # seen[u]
SeesContent(u, c) ==
  Served(u) /\ seen[u].id = c
    /\ seen[u].row.text = campaign[c].text /\ seen[u].row.at = campaign[c].at
SeesTargets(u, c) ==
  Served(u) /\ seen[u].id = c
    /\ seen[u].row.targets = campaign[c].targets /\ seen[u].row.source = campaign[c].source
SeesList(u, l) ==
  Served(u) /\ seen[u].lid = l
    /\ seen[u].lrow.name = list[l].name /\ seen[u].lrow.groups = list[l].groups

CampaignEditSeen(c) ==
  LET old == campaign[c] new == campaign'[c] gone == new.deleted # old.deleted
  IN  /\ new.text # old.text \/ new.at # old.at \/ gone =>
           \E u \in Client : SeesContent(u, c)
      /\ new.targets # old.targets \/ new.source # old.source \/ gone =>
           \E u \in Client :
             /\ SeesTargets(u, c)
             /\ ~gone /\ new.source # None /\ seen[u].lid = new.source.list =>
                  new.targets = seen[u].lrow.groups
ListEditSeen(l) == list'[l] # list[l] => \E u \in Client : SeesList(u, l)

\* No lost update: whatever two clients load and send, and in which order, whoever changes the
\* content of a campaign, its targets or a saved list has loaded what the step replaces; a
\* deletion has seen all of it; and what is copied from a list that the client had open is the
\* membership it saw (the revision compares of update, replaceTargets, applyGroupListTargets
\* and delete, and assertExpectedRevision of the lists).
EditsWhatWasSeen ==
  [][/\ \A c \in Campaign : Exists(campaign[c]) => CampaignEditSeen(c)
     /\ \A l \in List : Exists(list[l]) => ListEditSeen(l)]_vars

\* A source tells where the targets of a campaign or a run came from: they
\* are the groups that the list had at that membership revision, whatever
\* has happened to campaign and list since.
ProvenanceHonest ==
  LET Honest(x) == x.source # None => x.targets = memberships[x.source.list][x.source.mrev]
  IN  \A c \in Campaign :
        /\ Honest(campaign[c])
        /\ \A k \in RunKey : runs[c][k] # NoRun => Honest(runs[c][k])

\* A launch that carries the reviewed revisions sends the reviewed text to
\* the reviewed targets.
RunsWhatWasReviewed ==
  \A c \in Campaign, k \in RunKey :
    runs[c][k] # NoRun /\ runs[c][k].review # None =>
      /\ runs[c][k].text = runs[c][k].review.text
      /\ runs[c][k].targets = runs[c][k].review.targets
      /\ runs[c][k].source = runs[c][k].review.source

\* A tombstone is final, and so is its key: nothing edits, launches or
\* recreates what was deleted or archived, and no run outlives its campaign.
TombstoneFinal ==
  [][/\ \A c \in Campaign : campaign'[c].deleted => \A k \in RunKey : ~runs'[c][k].active
     /\ \A c \in Campaign : campaign[c].deleted =>
          /\ campaign'[c] = campaign[c] /\ runs'[c] = runs[c]
          /\ \A d \in Campaign \ {c} : campaign'[d].key # campaign[c].key
     /\ \A l \in List : list[l].archived =>
          /\ list'[l] = list[l]
          /\ \A m \in List \ {l} : list'[m].key # list[l].key]_vars
=============================================================================
