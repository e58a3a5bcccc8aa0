----------------------- MODULE CampaignDefinition_proofs -----------------------
(***************************************************************************)
(* Machine-checked proofs about CampaignDefinition, for any clients, rows, *)
(* keys, groups, texts and names.                                          *)
(***************************************************************************)
EXTENDS CampaignDefinition, TLAPS

USE DefinitionAssumption

\* What a client has loaded exists, and is a revision the row has had: the stored revisions
\* are the same or newer, and the same only with the same content.
Loaded(old, row) ==
  /\ Exists(row) /\ old.rev <= row.rev /\ old.trev <= row.trev
  /\ old.rev = row.rev => old.text = row.text /\ old.at = row.at
  /\ old.trev = row.trev => old.targets = row.targets /\ old.source = row.source
LoadedList(old, row) ==
  /\ Exists(row) /\ old.mrev <= row.mrev /\ old.rev <= row.rev
  /\ old.mrev = row.mrev => old.groups = row.groups
  /\ old.rev = row.rev => old.groups = row.groups /\ old.name = row.name
ViewInv ==
  \A u \in Client :
    /\ seen[u].id # None => Loaded(seen[u].row, campaign[seen[u].id])
    /\ seen[u].lid # None => LoadedList(seen[u].lrow, list[seen[u].lid])

\* The membership revision counts the memberships, and the last one is stored.
MembershipInv ==
  \A l \in List :
    /\ Len(memberships[l]) = list[l].mrev
    /\ Exists(list[l]) => memberships[l][list[l].mrev] = list[l].groups

\* A source names a membership that the list has had, and the targets are its groups.
Sourced(x) ==
  x.source # None =>
    /\ x.source.mrev \in 1 .. Len(memberships[x.source.list])
    /\ x.targets = memberships[x.source.list][x.source.mrev]
SourceInv ==
  \A c \in Campaign :
    /\ Sourced(campaign[c])
    /\ \A k \in RunKey : runs[c][k] # NoRun => Sourced(runs[c][k])

\* Keys are unique, those of tombstones included, and a deleted campaign has no active run.
KeyInv ==
  /\ \A c, d \in Campaign : c # d /\ Exists(campaign[c]) => campaign[d].key # campaign[c].key
  /\ \A l, m \in List : l # m /\ Exists(list[l]) => list[m].key # list[l].key
  /\ \A c \in Campaign : campaign[c].deleted => \A k \in RunKey : ~runs[c][k].active

Inv == TypeOK /\ ViewInv /\ MembershipInv /\ SourceInv /\ KeyInv /\ RunsWhatWasReviewed
-----------------------------------------------------------------------------
(***************************************************************************)
(* What any step may do to a campaign, a list, a run and a client.         *)
(***************************************************************************)
\* An edit keeps the key, moves the revision of what it changes, copies targets from a list
\* as it is or has no source, and deletes only what has no active run.
Edits(c, row) ==
  LET old == campaign[c]
  IN  /\ ~old.deleted /\ row.key = old.key /\ row.rev >= old.rev /\ row.trev >= old.trev
      /\ Exists(old) \/ row.rev = old.rev
      /\ row.rev = old.rev => row.text = old.text /\ row.at = old.at
      /\ row.trev = old.trev => row.targets = old.targets /\ row.source = old.source
      /\ \/ row.targets = old.targets /\ row.source = old.source
         \/ row.source = None
         \/ \E l \in List : /\ Exists(list[l]) /\ row.source.list = l
                            /\ row.source.mrev = list[l].mrev /\ row.targets = list[l].groups
      /\ row.deleted => Exists(row) /\ runs' = runs /\ \A k \in RunKey : ~runs[c][k].active
Inserts(c, row) ==
  /\ ~Exists(campaign[c]) /\ Exists(row) /\ row.rev = 1 /\ row.source = None /\ ~row.deleted
  /\ \A d \in Campaign : campaign[d].key # row.key
  /\ \A d \in Campaign \ {c} : campaign'[d] = campaign[d]
CampaignMoves ==
  \A c \in Campaign :
    campaign'[c] = campaign[c] \/ Edits(c, campaign'[c]) \/ Inserts(c, campaign'[c])

EditsList(l, row) ==
  LET old == list[l]
  IN  /\ ~old.archived /\ Exists(old) /\ row.key = old.key /\ row.rev = old.rev + 1
      /\ \/ row.mrev = old.mrev /\ row.groups = old.groups /\ memberships'[l] = memberships[l]
         \/ row.mrev = old.mrev + 1 /\ memberships'[l] = Append(memberships[l], row.groups)
InsertsList(l, row) ==
  /\ ~Exists(list[l]) /\ Exists(row) /\ row.rev = 1 /\ row.mrev = 1 /\ ~row.archived
  /\ memberships'[l] = <<row.groups>>
  /\ \A m \in List : list[m].key # row.key
  /\ \A m \in List \ {l} : list'[m] = list[m]
ListMoves ==
  \A l \in List : \/ list'[l] = list[l] /\ memberships'[l] = memberships[l]
                  \/ EditsList(l, list'[l]) \/ InsertsList(l, list'[l])

\* A run copies the stored campaign, which is the reviewed one if revisions were sent, and
\* only ends afterwards.
Launches(c, k) ==
  LET run == runs'[c][k]
  IN  /\ run.text = campaign[c].text /\ run.targets = campaign[c].targets
      /\ run.source = campaign[c].source /\ ~campaign[c].deleted /\ ~campaign'[c].deleted
      /\ run.review # None => \E u \in Client :
           seen[u].id = c /\ c # None /\ Reviewed(u, c) /\ run.review = seen[u].row
RunMoves ==
  \A c \in Campaign, k \in RunKey :
    \/ runs'[c][k] = runs[c][k]
    \/ /\ runs[c][k] \in Runs /\ runs[c][k].active
       /\ runs'[c][k] = [runs[c][k] EXCEPT !.active = FALSE]
    \/ Launches(c, k)

\* A client forgets, or loads what is stored.
Loads(u) ==
  /\ UNCHANGED <<campaign, list>> /\ seen[u].create = None /\ seen'[u].create = None
  /\ \/ /\ seen'[u].id \in Campaign /\ Exists(campaign[seen'[u].id])
        /\ seen'[u].row = campaign[seen'[u].id]
        /\ seen'[u].lid = seen[u].lid /\ seen'[u].lrow = seen[u].lrow
     \/ /\ seen'[u].lid \in List /\ Exists(list[seen'[u].lid])
        /\ seen'[u].lrow = list[seen'[u].lid]
        /\ seen'[u].id = seen[u].id /\ seen'[u].row = seen[u].row
SeenMoves ==
  \A u \in Client : \/ seen'[u] = seen[u] \/ Loads(u)
                    \/ seen'[u].id = None /\ seen'[u].lid = None

Typed ==
  /\ campaign \in [Campaign -> CampaignRows]
  /\ list \in [List -> ListRows]
  /\ runs \in [Campaign -> [RunKey -> Runs \cup {NoRun}]]
  /\ seen \in [Client -> Views]
  /\ memberships \in [List -> Seq(SUBSET Known)]
  /\ clock \in 0..MaxTime /\ changes \in 0..MaxChanges

Moves == Typed' /\ CampaignMoves /\ ListMoves /\ RunMoves /\ SeenMoves

\* The values of rows that do not exist, and of a client that has nothing open.
LEMMA NothingTyped ==
  /\ NoCampaign \in CampaignRows /\ NoList \in ListRows /\ Nothing \in Views
  /\ ~NoRun.active
  /\ Nothing.id = None /\ Nothing.lid = None /\ Nothing.create = None
<1>1. NoCampaign \in CampaignRows
  <2>1. 0 \in 0..MaxTime /\ 0 \in Nat
    OBVIOUS
  <2> QED BY <2>1, Zenon DEF NoCampaign, CampaignRows
<1>2. NoList \in ListRows
  <2>1. 0 \in Nat
    OBVIOUS
  <2> QED BY <2>1, Zenon DEF NoList, ListRows
<1>3. Nothing \in Views
  BY <1>1, <1>2, Zenon DEF Nothing, Views
<1> QED BY <1>1, <1>2, <1>3 DEF Nothing, NoRun

\* A membership that is added is the last one; the older ones stay where they are.
LEMMA AppendTyped ==
  ASSUME NEW S, NEW s \in Seq(S), NEW x \in S
  PROVE  /\ Append(s, x) \in Seq(S) /\ Len(Append(s, x)) = Len(s) + 1
         /\ Append(s, x)[Len(s) + 1] = x
         /\ \A i \in 1 .. Len(s) : Append(s, x)[i] = s[i]
OBVIOUS

\* A mutation that goes through Writes changes one campaign and forgets one view.
LEMMA WritesMoves ==
  ASSUME Typed, NEW u \in Client, NEW c \in Campaign, NEW row \in CampaignRows, Writes(u, c, row),
         UNCHANGED <<list, runs, memberships, clock>>,
         row = campaign[c] \/ Edits(c, row)
           \/ (~Exists(campaign[c]) /\ Exists(row) /\ row.rev = 1 /\ row.source = None
                 /\ ~row.deleted /\ \A d \in Campaign : campaign[d].key # row.key)
  PROVE  Moves
<1>1. campaign' = [campaign EXCEPT ![c] = row] /\ seen' = [seen EXCEPT ![u] = Nothing]
        /\ changes' \in 0..MaxChanges
  BY DEF Writes, Typed, Accept
<1>2. campaign'[c] = row /\ \A d \in Campaign \ {c} : campaign'[d] = campaign[d]
  BY <1>1 DEF Typed
<1>3. Typed'
  BY <1>1, NothingTyped DEF Typed
<1>4. CampaignMoves
  BY <1>2 DEF CampaignMoves, Inserts
<1>5. SeenMoves
  BY <1>1, NothingTyped DEF Typed, SeenMoves
<1>6. ListMoves /\ RunMoves
  BY DEF ListMoves, RunMoves
<1> QED BY <1>3, <1>4, <1>5, <1>6 DEF Moves

\* The same for a list.
LEMMA WritesListMoves ==
  ASSUME Typed, NEW u \in Client, NEW l \in List, NEW row \in ListRows, WritesList(u, l, row),
         UNCHANGED <<campaign, runs, clock>>,
         memberships' \in [List -> Seq(SUBSET Known)],
         \A m \in List \ {l} : memberships'[m] = memberships[m],
         \/ row = list[l] /\ memberships'[l] = memberships[l]
         \/ EditsList(l, row)
         \/ ~Exists(list[l]) /\ Exists(row) /\ row.rev = 1 /\ row.mrev = 1 /\ ~row.archived
              /\ memberships'[l] = <<row.groups>> /\ \A m \in List : list[m].key # row.key
  PROVE  Moves
<1>1. list' = [list EXCEPT ![l] = row] /\ seen' = [seen EXCEPT ![u] = Nothing]
        /\ changes' \in 0..MaxChanges
  BY DEF WritesList, Typed, Accept
<1>2. list'[l] = row /\ \A m \in List \ {l} : list'[m] = list[m]
  BY <1>1 DEF Typed
<1>3. Typed'
  BY <1>1, NothingTyped DEF Typed
<1>4. ListMoves
  BY <1>2 DEF ListMoves, InsertsList
<1>5. SeenMoves
  BY <1>1, NothingTyped DEF Typed, SeenMoves
<1>6. CampaignMoves /\ RunMoves
  BY DEF CampaignMoves, RunMoves
<1> QED BY <1>3, <1>4, <1>5, <1>6 DEF Moves

\* update: the content revision moves with the content, and nothing else does.
LEMMA EditedTyped ==
  ASSUME NEW row \in CampaignRows, NEW text \in Text \cup {None}, NEW at \in 0..MaxTime,
         NEW new, new = Edited(row, text, at)
  PROVE  /\ new \in CampaignRows /\ new.key = row.key /\ new.rev >= row.rev
         /\ new.trev = row.trev /\ new.targets = row.targets /\ new.source = row.source
         /\ (~row.deleted => ~new.deleted)
         /\ new.rev = row.rev => new.text = row.text /\ new.at = row.at
<1>0. row.rev \in Nat /\ row.rev + 1 \in Nat
  BY DEF CampaignRows
<1>1. CASE row.text = text /\ row.at = at
  <2>1. new = row
    BY <1>1 DEF Edited
  <2> QED BY <1>0, <2>1
<1>2. CASE ~(row.text = text /\ row.at = at)
  <2>1. new = [row EXCEPT !.text = text, !.at = at, !.rev = @ + 1]
    BY <1>2 DEF Edited
  <2>2. new \in CampaignRows
    BY <1>0, <2>1, Zenon DEF CampaignRows
  <2>3. /\ new.key = row.key /\ new.rev = row.rev + 1 /\ new.trev = row.trev
        /\ new.targets = row.targets /\ new.source = row.source /\ (~row.deleted => ~new.deleted)
    BY <2>1 DEF CampaignRows
  <2> QED BY <1>0, <2>2, <2>3
<1> QED BY <1>1, <1>2

\* A step of a campaign's status, or its deletion.
LEMMA RestatedTyped ==
  ASSUME NEW row \in CampaignRows, NEW status \in {"DRAFT", "ACTIVE", "ARCHIVED"}
  PROVE  LET new == [row EXCEPT !.status = status]
             gone == [row EXCEPT !.deleted = TRUE, !.rev = @ + 1]
         IN  /\ new \in CampaignRows /\ new.key = row.key /\ new.rev = row.rev
             /\ new.trev = row.trev /\ new.text = row.text /\ new.at = row.at
             /\ new.targets = row.targets /\ new.source = row.source /\ (~row.deleted => ~new.deleted)
             /\ gone \in CampaignRows /\ gone.key = row.key /\ gone.rev = row.rev + 1
             /\ gone.trev = row.trev /\ gone.targets = row.targets /\ gone.source = row.source
<1> DEFINE new == [row EXCEPT !.status = status]
           gone == [row EXCEPT !.deleted = TRUE, !.rev = @ + 1]
<1>1. row.rev + 1 \in Nat
  BY DEF CampaignRows
<1>2. new \in CampaignRows /\ gone \in CampaignRows
  BY <1>1, Zenon DEF CampaignRows
<1> QED BY <1>2 DEF CampaignRows
-----------------------------------------------------------------------------
\* The mutations of a campaign.
LEMMA CampaignRequestMoves ==
  ASSUME TypeOK, ViewInv, MembershipInv, NEW u \in Client, CampaignRequest(u)
  PROVE  Moves
<1>0. Typed
  BY DEF TypeOK, Typed
<1>a. seen[u] \in Views /\ seen[u].row \in CampaignRows
  BY <1>0 DEF Typed, Views
<1>b. ASSUME seen[u].id # None
      PROVE  /\ seen[u].id \in Campaign /\ campaign[seen[u].id] \in CampaignRows
             /\ Exists(campaign[seen[u].id])
             /\ campaign[seen[u].id].rev \in Nat /\ campaign[seen[u].id].trev \in Nat
  <2>1. seen[u].id \in Campaign
    BY <1>a, <1>b DEF Views
  <2> QED BY <1>0, <1>b, <2>1 DEF Typed, CampaignRows, ViewInv, Loaded
<1>1. ASSUME NEW c \in Campaign, LoadCampaign(u, c) PROVE Moves
  <2>1. /\ seen' = [seen EXCEPT ![u] = [@ EXCEPT !.id = c, !.row = campaign[c]]]
        /\ seen[u].create = None /\ Exists(campaign[c])
        /\ UNCHANGED <<campaign, list, runs, memberships, clock, changes>>
    BY <1>1 DEF LoadCampaign, Visible, Idle
  <2>2. campaign[c] \in CampaignRows
    BY <1>0 DEF Typed
  <2>3. [seen[u] EXCEPT !.id = c, !.row = campaign[c]] \in Views
    BY <1>a, <2>2, Zenon DEF Views
  <2>4. /\ seen'[u] = [seen[u] EXCEPT !.id = c, !.row = campaign[c]]
        /\ \A v \in Client \ {u} : seen'[v] = seen[v]
    BY <1>0, <2>1 DEF Typed
  <2>5. /\ seen'[u].id = c /\ seen'[u].row = campaign[c] /\ seen'[u].create = None
        /\ seen'[u].lid = seen[u].lid /\ seen'[u].lrow = seen[u].lrow
    <3>1. seen[u].create = None
      BY <2>1
    <3> QED BY <1>a, <2>4, <3>1 DEF Views
  <2>6. Loads(u)
    BY <2>1, <2>5 DEF Loads
  <2>7. Typed'
    BY <1>0, <2>1, <2>3 DEF Typed
  <2> QED BY <2>1, <2>4, <2>6, <2>7 DEF Moves, SeenMoves, CampaignMoves, ListMoves, RunMoves
<1>2. ASSUME NEW c \in Campaign, InsertCampaign(u, c) PROVE Moves
  <2> DEFINE q == seen[u].create
             new == [NoCampaign EXCEPT !.key = q.key, !.hash = q.hash, !.status = "DRAFT",
                       !.text = q.hash.text, !.at = q.hash.at, !.rev = 1, !.trev = 1]
  <2>1. /\ q # None /\ q.kind = "campaign" /\ ~Exists(campaign[c])
        /\ Writes(u, c, IF Conflicts(campaign, q.key) THEN campaign[c] ELSE new)
        /\ UNCHANGED <<list, runs, memberships, clock>>
    BY <1>2 DEF InsertCampaign, NewRow
  <2>2. q \in [kind : {"campaign"}, key : Key, hash : CampaignContents]
    BY <1>a, <2>1 DEF Views, Requests
  <2>3. q.key \in Key /\ q.hash \in CampaignContents /\ q.hash.text \in Text /\ q.hash.at \in 0..MaxTime
    BY <2>2 DEF CampaignContents
  <2> HIDE DEF q
  <2>4. new \in CampaignRows
    <3>1. 1 \in Nat
      OBVIOUS
    <3> QED BY <2>3, <3>1, NothingTyped, Zenon DEF CampaignRows
  <2>5. new.key = q.key /\ new.rev = 1 /\ new.source = None /\ ~new.deleted
    BY DEF NoCampaign
  <2>6. CASE Conflicts(campaign, q.key)
    <3>1. Writes(u, c, campaign[c]) /\ campaign[c] \in CampaignRows
      BY <1>0, <2>1, <2>6 DEF Typed
    <3> QED BY <1>0, <2>1, <3>1, WritesMoves
  <2>7. CASE ~Conflicts(campaign, q.key)
    <3>1. \A d \in Campaign : campaign[d].key # q.key
      BY <1>0, <2>7 DEF Conflicts, Taken, Typed
    <3>2. Writes(u, c, new)
      BY <2>1, <2>7
    <3>3. Exists(new)
      BY <2>3, <2>5 DEF Exists
    <3> HIDE DEF new
    <3> QED BY <1>0, <2>1, <2>4, <2>5, <3>1, <3>2, <3>3, WritesMoves
  <2> QED BY <2>6, <2>7
<1>3. ASSUME NEW k \in Key, NEW text \in Text, NEW at \in 0..MaxTime,
             CreateCampaign(u, k, text, at)
      PROVE  Moves
  <2> DEFINE q == [kind |-> "campaign", key |-> k, hash |-> [text |-> text, at |-> at]]
  <2>1. q \in Requests
    BY DEF Requests, CampaignContents
  <2>2. /\ seen' = [seen EXCEPT ![u] = [Nothing EXCEPT !.create = q]]
        /\ UNCHANGED <<campaign, list, runs, memberships, clock, changes>>
    BY <1>3 DEF CreateCampaign, BeginCreate
  <2> HIDE DEF q
  <2>3. [Nothing EXCEPT !.create = q] \in Views
    BY <2>1, NothingTyped, Zenon DEF Views
  <2>4. [Nothing EXCEPT !.create = q].id = None /\ [Nothing EXCEPT !.create = q].lid = None
    BY DEF Nothing
  <2>5. Typed' /\ SeenMoves
    BY <1>0, <2>2, <2>3, <2>4 DEF Typed, SeenMoves
  <2> QED BY <2>2, <2>5 DEF Moves, CampaignMoves, ListMoves, RunMoves
<1>4. ASSUME NEW text \in Text \cup {None}, NEW at \in (0..MaxTime) \cup {None}, Update(u, text, at)
      PROVE  Moves
  <2> DEFINE c == seen[u].id
             t == Patched(text, seen[u].row.text)
             a == Patched(at, seen[u].row.at)
  <2>1. /\ c # None /\ UNCHANGED <<list, runs, memberships, clock>>
        /\ \/ Writes(u, c, campaign[c])
           \/ Draft(campaign[c]) /\ Writes(u, c, Edited(campaign[c], t, a))
    BY <1>4 DEF Update, ContentEditable
  <2>2. t \in Text \cup {None} /\ a \in 0..MaxTime
    BY <1>a DEF Patched, CampaignRows
  <2>3. c \in Campaign /\ campaign[c] \in CampaignRows /\ campaign[c].rev \in Nat
          /\ campaign[c].trev \in Nat
    BY <1>b, <2>1
  <2> HIDE DEF c, t, a
  <2>4. CASE Writes(u, c, campaign[c])
    BY <1>0, <2>1, <2>3, <2>4, WritesMoves
  <2>5. CASE Draft(campaign[c]) /\ Writes(u, c, Edited(campaign[c], t, a))
    <3> DEFINE new == Edited(campaign[c], t, a)
    <3>0. Exists(campaign[c]) /\ ~campaign[c].deleted /\ Writes(u, c, new)
      BY <2>5 DEF Draft, Visible
    <3>1. new = Edited(campaign[c], t, a)
      OBVIOUS
    <3> HIDE DEF new
    <3>2. /\ new \in CampaignRows /\ new.key = campaign[c].key /\ new.rev >= campaign[c].rev
          /\ new.trev = campaign[c].trev /\ new.targets = campaign[c].targets
          /\ new.source = campaign[c].source /\ (~campaign[c].deleted => ~new.deleted)
          /\ new.rev = campaign[c].rev => new.text = campaign[c].text /\ new.at = campaign[c].at
      <4>1. ASSUME NEW row \in CampaignRows, new = Edited(row, t, a)
            PROVE  /\ new \in CampaignRows /\ new.key = row.key /\ new.rev >= row.rev
                   /\ new.trev = row.trev /\ new.targets = row.targets /\ new.source = row.source
                   /\ (~row.deleted => ~new.deleted)
                   /\ new.rev = row.rev => new.text = row.text /\ new.at = row.at
        BY <2>2, <4>1, EditedTyped
      <4> QED BY <2>3, <3>1, <4>1
    <3>3. Edits(c, new)
      BY <2>3, <3>0, <3>2 DEF Edits
    <3> QED BY <1>0, <2>1, <2>3, <3>0, <3>2, <3>3, WritesMoves
  <2> QED BY <2>1, <2>4, <2>5
<1>5. ASSUME NEW G \in SUBSET Group, ReplaceTargets(u, G) PROVE Moves
  <2> DEFINE c == seen[u].id
             new == [campaign[c] EXCEPT !.targets = G, !.source = None, !.trev = @ + 1]
  <2>1. /\ c # None /\ UNCHANGED <<list, runs, memberships, clock>>
        /\ \/ Writes(u, c, campaign[c])
           \/ Draft(campaign[c]) /\ G \in SUBSET Known /\ Writes(u, c, new)
    BY <1>5 DEF ReplaceTargets, TargetsEditable, ValidGroups, Replaced
  <2>2. c \in Campaign /\ campaign[c] \in CampaignRows /\ campaign[c].rev \in Nat
          /\ campaign[c].trev \in Nat
    BY <1>b, <2>1
  <2>3. CASE Writes(u, c, campaign[c])
    BY <1>0, <2>1, <2>2, <2>3, WritesMoves
  <2>4. CASE Draft(campaign[c]) /\ G \in SUBSET Known /\ Writes(u, c, new)
    <3>1. /\ new \in CampaignRows /\ new.key = campaign[c].key /\ new.rev = campaign[c].rev
          /\ new.text = campaign[c].text /\ new.at = campaign[c].at
          /\ (~campaign[c].deleted => ~new.deleted)
          /\ new.trev = campaign[c].trev + 1 /\ new.source = None
      <4>1. campaign[c] \in CampaignRows /\ G \in SUBSET Known /\ campaign[c].trev + 1 \in Nat
        BY <2>2, <2>4
      <4>2. new = [campaign[c] EXCEPT !.targets = G, !.source = None, !.trev = @ + 1]
        OBVIOUS
      <4> HIDE DEF c, new
      <4>3. new \in CampaignRows
        BY <4>1, <4>2, Zenon DEF CampaignRows
      <4> QED BY <4>1, <4>2, <4>3 DEF CampaignRows
    <3> HIDE DEF new, c
    <3>2. Edits(c, new)
      BY <2>2, <2>4, <3>1 DEF Edits, Draft, Visible
    <3> QED BY <1>0, <2>1, <2>2, <2>4, <3>1, <3>2, WritesMoves
  <2> QED BY <2>1, <2>3, <2>4
<1>6. ASSUME NEW l \in List, ApplyGroupListTargets(u, l) PROVE Moves
  <2> DEFINE c == seen[u].id
             source == [list |-> l, mrev |-> list[l].mrev, name |-> list[l].name]
             new == [campaign[c] EXCEPT !.targets = list[l].groups, !.source = source,
                                        !.trev = @ + 1]
  <2>1. /\ c # None /\ Exists(list[l]) /\ UNCHANGED <<list, runs, memberships, clock>>
        /\ \/ Writes(u, c, campaign[c])
           \/ Draft(campaign[c]) /\ Writes(u, c, Applied(campaign[c], l))
    BY <1>6 DEF ApplyGroupListTargets, TargetsEditable
  <2>2. c \in Campaign /\ campaign[c] \in CampaignRows /\ campaign[c].rev \in Nat
          /\ campaign[c].trev \in Nat
    BY <1>b, <2>1
  <2>3. CASE Writes(u, c, campaign[c])
    BY <1>0, <2>1, <2>2, <2>3, WritesMoves
  <2>4. CASE Draft(campaign[c]) /\ Writes(u, c, Applied(campaign[c], l))
    <3>1. Applied(campaign[c], l) = campaign[c] \/ Applied(campaign[c], l) = new
      BY <2>2 DEF Applied, CampaignRows
    <3>2. CASE Applied(campaign[c], l) = campaign[c]
      BY <2>3, <2>4, <3>2
    <3>3. CASE Applied(campaign[c], l) = new
      <4>1. list[l] \in ListRows /\ list[l].name \in Name \cup {None}
        BY <1>0, <2>1 DEF Typed, ListRows
      <4>2. source \in Sources /\ list[l].groups \in SUBSET Known
        BY <4>1 DEF Sources, ListRows
      <4>3. /\ new \in CampaignRows /\ new.key = campaign[c].key /\ new.rev = campaign[c].rev
            /\ new.text = campaign[c].text /\ new.at = campaign[c].at
            /\ (~campaign[c].deleted => ~new.deleted) /\ new.targets = list[l].groups
            /\ new.trev = campaign[c].trev + 1 /\ new.source = source
        <5>1. campaign[c] \in CampaignRows /\ campaign[c].trev + 1 \in Nat
          BY <2>2
        <5>2. new = [campaign[c] EXCEPT !.targets = list[l].groups, !.source = source,
                                        !.trev = @ + 1]
          OBVIOUS
        <5> HIDE DEF c, source, new
        <5>3. new \in CampaignRows
          BY <4>2, <5>1, <5>2, Zenon DEF CampaignRows
        <5> QED BY <5>1, <5>2, <5>3 DEF CampaignRows
      <4>4. source.list = l /\ source.mrev = list[l].mrev
        OBVIOUS
      <4> HIDE DEF new, c, source
      <4>5. Edits(c, new)
        BY <2>1, <2>2, <2>4, <4>3, <4>4 DEF Edits, Draft, Visible, Exists
      <4> QED BY <1>0, <2>1, <2>2, <2>4, <3>3, <4>3, <4>5, WritesMoves
    <3> QED BY <3>1, <3>2, <3>3
  <2> QED BY <2>1, <2>3, <2>4
<1>7. CASE Delete(u)
  <2> DEFINE c == seen[u].id
             new == [campaign[c] EXCEPT !.deleted = TRUE, !.rev = @ + 1]
  <2>1. /\ c # None /\ UNCHANGED <<list, runs, memberships, clock>>
        /\ \/ Writes(u, c, campaign[c])
           \/ Visible(campaign[c]) /\ Deletable(c) /\ Writes(u, c, new)
    BY <1>7 DEF Delete
  <2>2. c \in Campaign /\ campaign[c] \in CampaignRows /\ campaign[c].rev \in Nat
          /\ campaign[c].trev \in Nat
    BY <1>b, <2>1
  <2>3. CASE Writes(u, c, campaign[c])
    BY <1>0, <2>1, <2>2, <2>3, WritesMoves
  <2>4. CASE Visible(campaign[c]) /\ Deletable(c) /\ Writes(u, c, new)
    <3>1. /\ new \in CampaignRows /\ new.key = campaign[c].key /\ new.rev = campaign[c].rev + 1
          /\ new.trev = campaign[c].trev /\ new.targets = campaign[c].targets
          /\ new.source = campaign[c].source
      BY <2>2, RestatedTyped
    <3> HIDE DEF new, c
    <3>2. Edits(c, new)
      BY <2>1, <2>2, <2>4, <3>1 DEF Edits, Visible, Deletable, Exists
    <3> QED BY <1>0, <2>1, <2>2, <2>4, <3>1, <3>2, WritesMoves
  <2> QED BY <2>1, <2>3, <2>4
<1>8. ASSUME NEW k \in RunKey, NEW mode \in {"LIVE", "DRY_RUN"}, NEW expects \in BOOLEAN,
             Launch(u, k, mode, expects)
      PROVE  Moves
  <2> DEFINE c == seen[u].id
             run == [mode |-> mode, active |-> TRUE, text |-> campaign[c].text,
                     targets |-> campaign[c].targets, source |-> campaign[c].source,
                     review |-> IF expects THEN seen[u].row ELSE None]
  <2>1. /\ c # None /\ ~campaign[c].deleted /\ changes' \in 0..MaxChanges
        /\ expects => Reviewed(u, c)
        /\ runs' = [runs EXCEPT ![c][k] = run] /\ seen' = [seen EXCEPT ![u] = Nothing]
        /\ campaign' = [campaign EXCEPT ![c].status = "ACTIVE"] \/ campaign' = campaign
        /\ UNCHANGED <<list, memberships, clock>>
    BY <1>0, <1>8 DEF Launch, Launchable, Draft, Visible, Accept, Typed
  <2>2. c \in Campaign /\ campaign[c] \in CampaignRows /\ campaign[c].rev \in Nat
          /\ campaign[c].trev \in Nat
    BY <1>b, <2>1
  <2>3. run \in Runs
    <3>1. (IF expects THEN seen[u].row ELSE None) \in CampaignRows \cup {None}
      BY <1>a
    <3> QED BY <2>2, <3>1, ZenonT(30) DEF Runs, CampaignRows
  <2>4. /\ run.text = campaign[c].text /\ run.targets = campaign[c].targets
        /\ run.source = campaign[c].source
        /\ run.review # None => Reviewed(u, c) /\ run.review = seen[u].row
    BY <2>1
  <2>5. seen[u].id = c
    OBVIOUS
  <2> HIDE DEF run, c
  <2>6. /\ runs'[c][k] = run /\ runs' \in [Campaign -> [RunKey -> Runs \cup {NoRun}]]
        /\ \A d \in Campaign, j \in RunKey : d # c \/ j # k => runs'[d][j] = runs[d][j]
    BY <1>0, <2>1, <2>2, <2>3 DEF Typed
  <2>7. /\ campaign' \in [Campaign -> CampaignRows] /\ CampaignMoves
        /\ ~campaign'[c].deleted
    <3>1. CASE campaign' = campaign
      BY <1>0, <2>1, <3>1 DEF Typed, CampaignMoves
    <3>2. CASE campaign' = [campaign EXCEPT ![c].status = "ACTIVE"]
      <4> DEFINE new == [campaign[c] EXCEPT !.status = "ACTIVE"]
      <4>1. /\ new \in CampaignRows /\ new.key = campaign[c].key /\ new.rev = campaign[c].rev
            /\ new.trev = campaign[c].trev /\ new.text = campaign[c].text /\ new.at = campaign[c].at
            /\ new.targets = campaign[c].targets /\ new.source = campaign[c].source
            /\ (~campaign[c].deleted => ~new.deleted)
        BY <2>2, RestatedTyped
      <4>2. campaign' = [campaign EXCEPT ![c] = new]
        BY <3>2
      <4> HIDE DEF new
      <4>3. campaign'[c] = new /\ (\A d \in Campaign \ {c} : campaign'[d] = campaign[d])
              /\ campaign' \in [Campaign -> CampaignRows]
        BY <1>0, <2>2, <4>1, <4>2 DEF Typed
      <4>4. Edits(c, new)
        BY <2>1, <2>2, <4>1 DEF Edits
      <4> QED BY <2>1, <4>1, <4>3, <4>4 DEF CampaignMoves
    <3> QED BY <2>1, <3>1, <3>2
  <2>8. Launches(c, k)
    BY <2>1, <2>4, <2>5, <2>6, <2>7 DEF Launches
  <2>9. RunMoves
    BY <2>6, <2>8 DEF RunMoves
  <2>10. Typed' /\ SeenMoves
    BY <1>0, <2>1, <2>6, <2>7, NothingTyped DEF Typed, SeenMoves
  <2> QED BY <2>1, <2>7, <2>9, <2>10 DEF Moves, ListMoves
<1> QED BY <1>1, <1>2, <1>3, <1>4, <1>5, <1>6, <1>7, <1>8 DEF CampaignRequest

\* The mutations of a saved list.
LEMMA ListRequestMoves ==
  ASSUME TypeOK, ViewInv, MembershipInv, NEW u \in Client, ListRequest(u)
  PROVE  Moves
<1>0. Typed
  BY DEF TypeOK, Typed
<1>a. seen[u] \in Views
  BY <1>0 DEF Typed
<1>b. ASSUME seen[u].lid # None
      PROVE  /\ seen[u].lid \in List /\ list[seen[u].lid] \in ListRows /\ Exists(list[seen[u].lid])
             /\ list[seen[u].lid].rev + 1 \in Nat /\ list[seen[u].lid].mrev + 1 \in Nat
  <2>1. seen[u].lid \in List
    BY <1>a, <1>b DEF Views
  <2>2. list[seen[u].lid] \in ListRows
    BY <1>0, <2>1 DEF Typed
  <2>3. Exists(list[seen[u].lid])
    BY <1>b DEF ViewInv, LoadedList
  <2> HIDE DEF Exists
  <2> QED BY <2>1, <2>2, <2>3 DEF ListRows
<1>c. \A l \in List : memberships[l] \in Seq(SUBSET Known)
  BY <1>0 DEF Typed
<1>1. ASSUME NEW l \in List, LoadList(u, l) PROVE Moves
  <2>1. /\ seen' = [seen EXCEPT ![u] = [@ EXCEPT !.lid = l, !.lrow = list[l]]]
        /\ seen[u].create = None /\ Exists(list[l])
        /\ UNCHANGED <<campaign, list, runs, memberships, clock, changes>>
    BY <1>1 DEF LoadList, Idle
  <2>2. list[l] \in ListRows
    BY <1>0 DEF Typed
  <2>3. [seen[u] EXCEPT !.lid = l, !.lrow = list[l]] \in Views
    BY <1>a, <2>2, Zenon DEF Views
  <2>4. /\ seen'[u] = [seen[u] EXCEPT !.lid = l, !.lrow = list[l]]
        /\ \A v \in Client \ {u} : seen'[v] = seen[v]
    BY <1>0, <2>1 DEF Typed
  <2>5. /\ seen'[u].lid = l /\ seen'[u].lrow = list[l] /\ seen'[u].create = None
        /\ seen'[u].id = seen[u].id /\ seen'[u].row = seen[u].row
    <3>1. seen[u].create = None
      BY <2>1
    <3> QED BY <1>a, <2>4, <3>1 DEF Views
  <2>6. Loads(u)
    BY <2>1, <2>5 DEF Loads
  <2>7. Typed'
    BY <1>0, <2>1, <2>3 DEF Typed
  <2> QED BY <2>1, <2>4, <2>6, <2>7 DEF Moves, SeenMoves, CampaignMoves, ListMoves, RunMoves
<1>2. ASSUME NEW l \in List, InsertList(u, l) PROVE Moves
  <2> DEFINE q == seen[u].create
             new == [NoList EXCEPT !.key = q.key, !.hash = q.hash, !.name = q.hash.name,
                                   !.rev = 1, !.mrev = 1, !.groups = q.hash.groups]
             inserts == ~Conflicts(list, q.key) /\ NameFree(l, q.hash.name)
  <2>1. /\ q # None /\ q.kind = "list" /\ ~Exists(list[l])
        /\ WritesList(u, l, IF inserts THEN new ELSE list[l])
        /\ memberships' = IF inserts THEN [memberships EXCEPT ![l] = <<q.hash.groups>>]
                          ELSE memberships
        /\ UNCHANGED <<campaign, runs, clock>>
    BY <1>2 DEF InsertList, NewRow
  <2>2. q \in [kind : {"list"}, key : ListKey, hash : ListContents]
    BY <1>a, <2>1 DEF Views, Requests
  <2>3. q.key \in ListKey /\ q.hash \in ListContents /\ q.hash.name \in Name
          /\ q.hash.groups \in SUBSET Known
    BY <2>2 DEF ListContents
  <2>4. CASE inserts
    <3>1. /\ WritesList(u, l, new)
          /\ memberships' = [memberships EXCEPT ![l] = <<q.hash.groups>>]
          /\ \A m \in List : list[m].key # q.key
      BY <1>0, <2>1, <2>4 DEF Conflicts, Taken, Typed
    <3> HIDE DEF q, inserts
    <3>2. new \in ListRows
      <4>1. 1 \in Nat
        OBVIOUS
      <4> QED BY <2>3, <4>1, NothingTyped, Zenon DEF ListRows
    <3>3. new.key = q.key /\ new.rev = 1 /\ new.mrev = 1 /\ ~new.archived
            /\ new.groups = q.hash.groups
      BY DEF NoList
    <3>4. Exists(new)
      BY <2>3, <3>3 DEF Exists
    <3>5. <<q.hash.groups>> \in Seq(SUBSET Known)
      BY <2>3
    <3>6. /\ memberships' \in [List -> Seq(SUBSET Known)] /\ memberships'[l] = <<new.groups>>
          /\ \A m \in List \ {l} : memberships'[m] = memberships[m]
      BY <1>0, <3>1, <3>3, <3>5 DEF Typed
    <3> HIDE DEF new
    <3> QED BY <1>0, <2>1, <3>1, <3>2, <3>3, <3>4, <3>6, WritesListMoves
  <2>5. CASE ~inserts
    <3>1. WritesList(u, l, list[l]) /\ memberships' = memberships /\ list[l] \in ListRows
      BY <1>0, <2>1, <2>5 DEF Typed
    <3> QED BY <1>0, <2>1, <3>1, WritesListMoves DEF Typed
  <2> QED BY <2>4, <2>5
<1>3. ASSUME NEW k \in ListKey, NEW name \in Name, NEW G \in SUBSET Group, CreateList(u, k, name, G)
      PROVE  Moves
  <2> DEFINE q == [kind |-> "list", key |-> k, hash |-> [name |-> name, groups |-> G]]
  <2>1. q \in Requests
    <3>1. G \in SUBSET Known
      BY <1>3 DEF CreateList, ValidGroups
    <3> QED BY <3>1 DEF Requests, ListContents
  <2>2. /\ seen' = [seen EXCEPT ![u] = [Nothing EXCEPT !.create = q]]
        /\ UNCHANGED <<campaign, list, runs, memberships, clock, changes>>
    BY <1>3 DEF CreateList, BeginCreate
  <2> HIDE DEF q
  <2>3. [Nothing EXCEPT !.create = q] \in Views
    BY <2>1, NothingTyped, Zenon DEF Views
  <2>4. [Nothing EXCEPT !.create = q].id = None /\ [Nothing EXCEPT !.create = q].lid = None
    BY DEF Nothing
  <2>5. Typed' /\ SeenMoves
    BY <1>0, <2>2, <2>3, <2>4 DEF Typed, SeenMoves
  <2> QED BY <2>2, <2>5 DEF Moves, CampaignMoves, ListMoves, RunMoves
<1>4. ASSUME seen[u].lid # None, WritesList(u, seen[u].lid, list[seen[u].lid]),
             UNCHANGED <<campaign, runs, memberships, clock>>
      PROVE  Moves
  BY <1>0, <1>4, <1>b, WritesListMoves DEF Typed
<1>5. ASSUME NEW name \in Name, UpdateList(u, name) PROVE Moves
  <2> DEFINE l == seen[u].lid
             new == [list[l] EXCEPT !.name = name, !.rev = @ + 1]
  <2>1. /\ l # None /\ UNCHANGED <<campaign, runs, memberships, clock>>
        /\ \/ WritesList(u, l, list[l])
           \/ ~list[l].archived /\ WritesList(u, l, new)
    BY <1>5 DEF UpdateList, Current
  <2>2. CASE WritesList(u, l, list[l])
    BY <1>4, <2>1, <2>2
  <2>3. CASE ~list[l].archived /\ WritesList(u, l, new)
    <3>1. l \in List /\ list[l] \in ListRows /\ Exists(list[l]) /\ list[l].rev + 1 \in Nat
      BY <1>b, <2>1
    <3> HIDE DEF l
    <3>2. new \in ListRows
      BY <3>1, Zenon DEF ListRows
    <3>3. new.key = list[l].key /\ new.rev = list[l].rev + 1 /\ new.mrev = list[l].mrev
            /\ new.groups = list[l].groups
      BY <3>1 DEF ListRows
    <3> HIDE DEF new
    <3>4. EditsList(l, new)
      BY <2>1, <2>3, <3>1, <3>3 DEF EditsList
    <3> QED BY <1>0, <2>1, <2>3, <3>1, <3>2, <3>4, WritesListMoves DEF Typed
  <2> QED BY <2>1, <2>2, <2>3
<1>6. CASE Archive(u)
  <2> DEFINE l == seen[u].lid
             new == [list[l] EXCEPT !.archived = TRUE, !.rev = @ + 1]
  <2>1. /\ l # None /\ UNCHANGED <<campaign, runs, memberships, clock>>
        /\ \/ WritesList(u, l, list[l])
           \/ ~list[l].archived /\ WritesList(u, l, new)
    BY <1>6 DEF Archive, Current
  <2>2. CASE WritesList(u, l, list[l])
    BY <1>4, <2>1, <2>2
  <2>3. CASE ~list[l].archived /\ WritesList(u, l, new)
    <3>1. l \in List /\ list[l] \in ListRows /\ Exists(list[l]) /\ list[l].rev + 1 \in Nat
      BY <1>b, <2>1
    <3> HIDE DEF l
    <3>2. new \in ListRows
      BY <3>1, Zenon DEF ListRows
    <3>3. new.key = list[l].key /\ new.rev = list[l].rev + 1 /\ new.mrev = list[l].mrev
            /\ new.groups = list[l].groups
      BY <3>1 DEF ListRows
    <3> HIDE DEF new
    <3>4. EditsList(l, new)
      BY <2>1, <2>3, <3>1, <3>3 DEF EditsList
    <3> QED BY <1>0, <2>1, <2>3, <3>1, <3>2, <3>4, WritesListMoves DEF Typed
  <2> QED BY <2>1, <2>2, <2>3
<1>7. ASSUME NEW G \in SUBSET Group, ReplaceGroups(u, G) PROVE Moves
  <2> DEFINE l == seen[u].lid
             new == [list[l] EXCEPT !.groups = G, !.rev = @ + 1, !.mrev = @ + 1]
  <2>1. /\ l # None /\ UNCHANGED <<campaign, runs, clock>>
        /\ \/ WritesList(u, l, list[l]) /\ UNCHANGED memberships
           \/ /\ ~list[l].archived /\ G \in SUBSET Known /\ WritesList(u, l, new)
              /\ memberships' = [memberships EXCEPT ![l] = Append(@, G)]
    BY <1>7 DEF ReplaceGroups, Current, ValidGroups, Regrouped
  <2>2. CASE WritesList(u, l, list[l]) /\ UNCHANGED memberships
    BY <1>4, <2>1, <2>2
  <2>3. CASE /\ ~list[l].archived /\ G \in SUBSET Known /\ WritesList(u, l, new)
             /\ memberships' = [memberships EXCEPT ![l] = Append(@, G)]
    <3>1. l \in List /\ list[l] \in ListRows /\ Exists(list[l]) /\ list[l].rev + 1 \in Nat
            /\ list[l].mrev + 1 \in Nat
      BY <1>b, <2>1
    <3> HIDE DEF l
    <3>2. new \in ListRows
      BY <2>3, <3>1, Zenon DEF ListRows
    <3>3. new.key = list[l].key /\ new.rev = list[l].rev + 1 /\ new.mrev = list[l].mrev + 1
            /\ new.groups = G
      BY <3>1 DEF ListRows
    <3> HIDE DEF new
    <3>4. Append(memberships[l], G) \in Seq(SUBSET Known)
      BY <1>c, <2>3, <3>1, AppendTyped
    <3>5. /\ memberships'[l] = Append(memberships[l], G)
          /\ memberships' \in [List -> Seq(SUBSET Known)]
          /\ \A m \in List \ {l} : memberships'[m] = memberships[m]
      BY <1>0, <2>3, <3>1, <3>4 DEF Typed
    <3>6. EditsList(l, new)
      BY <2>1, <2>3, <3>1, <3>3, <3>5 DEF EditsList
    <3> QED BY <1>0, <2>1, <2>3, <3>1, <3>2, <3>5, <3>6, WritesListMoves
  <2> QED BY <2>1, <2>2, <2>3
<1> QED BY <1>1, <1>2, <1>3, <1>5, <1>6, <1>7 DEF ListRequest

\* Runs end by themselves, archiving the campaign of a LIVE run.
LEMMA EndRunMoves ==
  ASSUME TypeOK, KeyInv, NEW c \in Campaign, NEW k \in RunKey, EndRun(c, k)
  PROVE  Moves
<1>0. Typed
  BY DEF TypeOK, Typed
<1>1. /\ runs[c][k].active /\ runs' = [runs EXCEPT ![c][k].active = FALSE]
      /\ campaign' = campaign \/ campaign' = [campaign EXCEPT ![c].status = "ARCHIVED"]
      /\ UNCHANGED <<list, seen, memberships, clock, changes>>
  BY DEF EndRun
<1>2. runs[c][k] \in Runs
  BY <1>0, <1>1, NothingTyped DEF Typed
<1>3. [runs[c][k] EXCEPT !.active = FALSE] \in Runs
  BY <1>2, Zenon DEF Runs
<1>4. /\ runs'[c][k] = [runs[c][k] EXCEPT !.active = FALSE]
      /\ runs' \in [Campaign -> [RunKey -> Runs \cup {NoRun}]]
      /\ \A d \in Campaign, j \in RunKey : d # c \/ j # k => runs'[d][j] = runs[d][j]
  BY <1>0, <1>1, <1>3 DEF Typed
<1>5. RunMoves
  BY <1>1, <1>2, <1>4 DEF RunMoves
<1>6. ~campaign[c].deleted
  BY <1>1 DEF KeyInv
<1>7. campaign' \in [Campaign -> CampaignRows] /\ CampaignMoves
  <2>1. CASE campaign' = campaign
    BY <1>0, <2>1 DEF Typed, CampaignMoves
  <2>2. CASE campaign' = [campaign EXCEPT ![c].status = "ARCHIVED"]
    <3> DEFINE new == [campaign[c] EXCEPT !.status = "ARCHIVED"]
    <3>0. campaign[c] \in CampaignRows /\ campaign[c].rev \in Nat /\ campaign[c].trev \in Nat
      BY <1>0 DEF Typed, CampaignRows
    <3>1. /\ new \in CampaignRows /\ new.key = campaign[c].key /\ new.rev = campaign[c].rev
          /\ new.trev = campaign[c].trev /\ new.text = campaign[c].text /\ new.at = campaign[c].at
          /\ new.targets = campaign[c].targets /\ new.source = campaign[c].source
          /\ (~campaign[c].deleted => ~new.deleted)
      BY <3>0, RestatedTyped
    <3>2. campaign' = [campaign EXCEPT ![c] = new]
      BY <2>2
    <3> HIDE DEF new
    <3>3. campaign'[c] = new /\ (\A d \in Campaign \ {c} : campaign'[d] = campaign[d])
            /\ campaign' \in [Campaign -> CampaignRows]
      BY <1>0, <3>1, <3>2 DEF Typed
    <3>4. Edits(c, new)
      BY <1>6, <3>0, <3>1 DEF Edits
    <3> QED BY <3>3, <3>4 DEF CampaignMoves
  <2> QED BY <1>1, <2>1, <2>2
<1>8. Typed'
  BY <1>0, <1>1, <1>4, <1>7 DEF Typed
<1> QED BY <1>1, <1>5, <1>7, <1>8 DEF Moves, ListMoves, SeenMoves

\* Every step is one of these moves.
LEMMA NextMoves == TypeOK /\ ViewInv /\ MembershipInv /\ KeyInv /\ [Next]_vars => Moves
<1> SUFFICES ASSUME TypeOK, ViewInv, MembershipInv, KeyInv, [Next]_vars PROVE Moves
  OBVIOUS
<1>0. Typed
  BY DEF TypeOK, Typed
<1>1. CASE UNCHANGED <<campaign, list, runs, seen, memberships>> /\ clock' \in 0..MaxTime
             /\ changes' \in 0..MaxChanges
  BY <1>0, <1>1 DEF Typed, Moves, CampaignMoves, ListMoves, RunMoves, SeenMoves
<1>2. CASE Tick \/ UNCHANGED vars
  BY <1>0, <1>1, <1>2 DEF Tick, vars, Typed
<1> QED BY <1>2, CampaignRequestMoves, ListRequestMoves, EndRunMoves DEF Next
-----------------------------------------------------------------------------
\* The relations between revisions, keys and what is open.
LEMMA TypeStep == ASSUME TypeOK, Moves PROVE TypeOK'
<1>1. Typed /\ Typed'
  BY DEF TypeOK, Typed, Moves
<1>2. ASSUME NEW c \in Campaign
      PROVE  /\ Exists(campaign'[c]) <=> campaign'[c].rev > 0
             /\ campaign'[c].deleted => Exists(campaign'[c])
  <2>1. campaign[c].rev \in Nat /\ campaign'[c].rev \in Nat
    BY <1>1 DEF Typed, CampaignRows
  <2>2. /\ Exists(campaign[c]) <=> campaign[c].rev > 0
        /\ campaign[c].deleted => Exists(campaign[c])
    BY DEF TypeOK
  <2>3. CASE campaign'[c] = campaign[c]
    BY <2>2, <2>3
  <2>4. CASE Edits(c, campaign'[c])
    BY <2>1, <2>2, <2>4 DEF Edits, Exists
  <2>5. CASE Inserts(c, campaign'[c])
    BY <2>5 DEF Inserts
  <2> QED BY <2>3, <2>4, <2>5 DEF Moves, CampaignMoves
<1>3. ASSUME NEW l \in List
      PROVE  /\ list'[l].mrev <= list'[l].rev /\ (Exists(list'[l]) <=> list'[l].mrev > 0)
             /\ list'[l].archived => Exists(list'[l])
  <2>1. /\ list[l].rev \in Nat /\ list'[l].rev \in Nat /\ list[l].mrev \in Nat
        /\ list'[l].mrev \in Nat
    BY <1>1 DEF Typed, ListRows
  <2>2. /\ list[l].mrev <= list[l].rev /\ (Exists(list[l]) <=> list[l].mrev > 0)
        /\ list[l].archived => Exists(list[l])
    BY DEF TypeOK
  <2>3. CASE list'[l] = list[l]
    BY <2>2, <2>3
  <2>4. CASE EditsList(l, list'[l])
    BY <2>1, <2>2, <2>4 DEF EditsList, Exists
  <2>5. CASE InsertsList(l, list'[l])
    BY <2>5 DEF InsertsList
  <2> QED BY <2>3, <2>4, <2>5 DEF Moves, ListMoves
<1>4. ASSUME NEW u \in Client, seen'[u].create # None
      PROVE  seen'[u].id = None /\ seen'[u].lid = None
  <2>1. ~Loads(u)
    BY <1>4 DEF Loads
  <2> QED BY <1>4, <2>1 DEF Moves, SeenMoves, TypeOK
<1> QED BY <1>1, <1>2, <1>3, <1>4 DEF TypeOK, Typed, Exists

\* What has been loaded stays a revision that the row has had.
LEMMA LoadedStands ==
  ASSUME TypeOK, Moves, NEW c \in Campaign, NEW old \in CampaignRows, Loaded(old, campaign[c])
  PROVE  Loaded(old, campaign'[c])
<1>1. campaign[c] \in CampaignRows /\ campaign'[c] \in CampaignRows
  BY DEF TypeOK, Moves, Typed
<1>2. /\ campaign[c].rev \in Nat /\ campaign'[c].rev \in Nat /\ old.rev \in Nat
      /\ campaign[c].trev \in Nat /\ campaign'[c].trev \in Nat /\ old.trev \in Nat
  BY <1>1 DEF CampaignRows
<1>3. CASE campaign'[c] = campaign[c]
  BY <1>3
<1>4. CASE Edits(c, campaign'[c])
  BY <1>2, <1>4 DEF Edits, Loaded, Exists
<1>5. ~Inserts(c, campaign'[c])
  BY DEF Inserts, Loaded
<1> QED BY <1>3, <1>4, <1>5 DEF Moves, CampaignMoves

\* The same for a list and its memberships.
LEMMA LoadedListStands ==
  ASSUME TypeOK, Moves, NEW l \in List, NEW old \in ListRows, LoadedList(old, list[l])
  PROVE  LoadedList(old, list'[l])
<1>1. list[l] \in ListRows /\ list'[l] \in ListRows
  BY DEF TypeOK, Moves, Typed
<1>2. /\ list[l].mrev \in Nat /\ list'[l].mrev \in Nat /\ old.mrev \in Nat
      /\ list[l].rev \in Nat /\ list'[l].rev \in Nat /\ old.rev \in Nat
  BY <1>1 DEF ListRows
<1>3. CASE list'[l] = list[l]
  BY <1>3
<1>4. CASE EditsList(l, list'[l])
  BY <1>2, <1>4 DEF EditsList, LoadedList, Exists
<1>5. ~InsertsList(l, list'[l])
  BY DEF InsertsList, LoadedList
<1> QED BY <1>3, <1>4, <1>5 DEF Moves, ListMoves

\* What is loaded now is the stored revision.
LEMMA LoadedFresh ==
  /\ \A row \in CampaignRows : Exists(row) => Loaded(row, row)
  /\ \A row \in ListRows : Exists(row) => LoadedList(row, row)
BY DEF CampaignRows, ListRows, Loaded, LoadedList, Exists

\* Every open view is a revision that the row has had.
LEMMA ViewStep == ASSUME TypeOK, ViewInv, Moves PROVE ViewInv'
<1> SUFFICES ASSUME NEW u \in Client
             PROVE  /\ seen'[u].id # None => Loaded(seen'[u].row, campaign'[seen'[u].id])
                    /\ seen'[u].lid # None => LoadedList(seen'[u].lrow, list'[seen'[u].lid])
  BY DEF ViewInv, Loaded, LoadedList, Exists
<1>1. Typed /\ Typed'
  BY DEF TypeOK, Typed, Moves
<1>2. /\ seen[u].row \in CampaignRows /\ seen[u].lrow \in ListRows
      /\ seen[u].id \in Campaign \cup {None} /\ seen[u].lid \in List \cup {None}
  BY <1>1 DEF Typed, Views
<1>3. seen[u].id # None => Loaded(seen[u].row, campaign'[seen[u].id])
  BY <1>2, LoadedStands DEF ViewInv
<1>4. seen[u].lid # None => LoadedList(seen[u].lrow, list'[seen[u].lid])
  BY <1>2, LoadedListStands DEF ViewInv
<1>5. CASE seen'[u] = seen[u]
  BY <1>3, <1>4, <1>5
<1>6. CASE Loads(u)
  <2>2. /\ \A c \in Campaign : Exists(campaign'[c]) => Loaded(campaign'[c], campaign'[c])
        /\ \A l \in List : Exists(list'[l]) => LoadedList(list'[l], list'[l])
    BY <1>1, LoadedFresh DEF Typed
  <2>3. campaign' = campaign /\ list' = list
    BY <1>6 DEF Loads
  <2>4. \/ /\ seen'[u].id \in Campaign /\ Exists(campaign'[seen'[u].id])
           /\ seen'[u].row = campaign'[seen'[u].id]
           /\ seen'[u].lid = seen[u].lid /\ seen'[u].lrow = seen[u].lrow
        \/ /\ seen'[u].lid \in List /\ Exists(list'[seen'[u].lid])
           /\ seen'[u].lrow = list'[seen'[u].lid]
           /\ seen'[u].id = seen[u].id /\ seen'[u].row = seen[u].row
    BY <1>6, <2>3 DEF Loads
  <2> QED BY <1>3, <1>4, <2>2, <2>4
<1> QED BY <1>5, <1>6 DEF Moves, SeenMoves

\* The membership revision keeps counting the memberships.
LEMMA MembershipStep == ASSUME TypeOK, MembershipInv, Moves PROVE MembershipInv'
<1> SUFFICES ASSUME NEW l \in List
             PROVE  /\ Len(memberships'[l]) = list'[l].mrev
                    /\ Exists(list'[l]) => memberships'[l][list'[l].mrev] = list'[l].groups
  BY DEF MembershipInv, Exists
<1>1. /\ memberships[l] \in Seq(SUBSET Known) /\ Len(memberships[l]) \in Nat
      /\ list'[l].groups \in SUBSET Known
  BY DEF TypeOK, Moves, Typed, ListRows
<1>2. /\ Len(memberships[l]) = list[l].mrev
      /\ Exists(list[l]) => memberships[l][list[l].mrev] = list[l].groups
  BY DEF MembershipInv
<1>3. CASE list'[l] = list[l] /\ memberships'[l] = memberships[l]
  BY <1>2, <1>3
<1>4. CASE EditsList(l, list'[l])
  <2>1. Exists(list[l])
    BY <1>4 DEF EditsList
  <2>2. CASE /\ list'[l].mrev = list[l].mrev /\ list'[l].groups = list[l].groups
             /\ memberships'[l] = memberships[l]
    BY <1>2, <2>1, <2>2
  <2>3. CASE /\ list'[l].mrev = list[l].mrev + 1
             /\ memberships'[l] = Append(memberships[l], list'[l].groups)
    BY <1>1, <1>2, <2>3, AppendTyped
  <2> QED BY <1>4, <2>2, <2>3 DEF EditsList
<1>5. CASE InsertsList(l, list'[l])
  <2>1. memberships'[l] = <<list'[l].groups>> /\ list'[l].mrev = 1
    BY <1>5 DEF InsertsList
  <2> QED BY <2>1
<1> QED BY <1>3, <1>4, <1>5 DEF Moves, ListMoves

\* Memberships are never rewritten.
LEMMA MembershipsStand ==
  ASSUME TypeOK, MembershipInv, Moves, NEW l \in List, NEW i \in 1 .. Len(memberships[l])
  PROVE  i \in 1 .. Len(memberships'[l]) /\ memberships'[l][i] = memberships[l][i]
<1>1. /\ memberships[l] \in Seq(SUBSET Known) /\ Len(memberships[l]) \in Nat
      /\ list'[l].groups \in SUBSET Known /\ list[l].mrev \in Nat
  BY DEF TypeOK, Moves, Typed, ListRows
<1>2. CASE memberships'[l] = memberships[l]
  BY <1>2
<1>3. CASE memberships'[l] = Append(memberships[l], list'[l].groups)
  BY <1>1, <1>3, AppendTyped
<1>4. ~InsertsList(l, list'[l])
  <2>1. Len(memberships[l]) = list[l].mrev /\ list[l].mrev > 0
    BY <1>1 DEF MembershipInv
  <2>2. Exists(list[l])
    BY <2>1 DEF TypeOK
  <2> QED BY <2>2 DEF InsertsList
<1> QED BY <1>2, <1>3, <1>4 DEF Moves, ListMoves, EditsList

\* A source keeps naming the membership that the targets were copied from.
LEMMA SourceStands ==
  ASSUME TypeOK, MembershipInv, Moves, NEW x,
         x.source \in Sources \cup {None}, Sourced(x),
         NEW y, y.source = x.source, y.targets = x.targets
  PROVE  /\ y.source # None =>
              /\ y.source.mrev \in 1 .. Len(memberships'[y.source.list])
              /\ y.targets = memberships'[y.source.list][y.source.mrev]
<1> SUFFICES ASSUME x.source # None
             PROVE  /\ x.source.mrev \in 1 .. Len(memberships'[x.source.list])
                    /\ x.targets = memberships'[x.source.list][x.source.mrev]
  OBVIOUS
<1>1. x.source.list \in List
  BY DEF Sources
<1>2. /\ x.source.mrev \in 1 .. Len(memberships[x.source.list])
      /\ x.targets = memberships[x.source.list][x.source.mrev]
  BY DEF Sourced
<1> QED BY <1>1, <1>2, MembershipsStand

\* What is copied from a list as it is has a membership of that list as its source.
LEMMA SourceStep == ASSUME TypeOK, MembershipInv, SourceInv, Moves PROVE SourceInv'
<1>1. Typed /\ Typed'
  BY DEF TypeOK, Typed, Moves
<1>2. \A c \in Campaign : campaign[c].source \in Sources \cup {None}
  BY <1>1 DEF Typed, CampaignRows
<1> DEFINE Stands(x) == x.source # None =>
                          /\ x.source.mrev \in 1 .. Len(memberships'[x.source.list])
                          /\ x.targets = memberships'[x.source.list][x.source.mrev]
<1>3. ASSUME NEW c \in Campaign PROVE Stands(campaign'[c])
  <2>1. Sourced(campaign[c])
    BY DEF SourceInv
  <2>2. CASE campaign'[c].targets = campaign[c].targets /\ campaign'[c].source = campaign[c].source
    BY <1>2, <2>1, <2>2, SourceStands
  <2>3. CASE campaign'[c].source = None
    BY <2>3
  <2>4. ASSUME NEW l \in List, Exists(list[l]), campaign'[c].source.list = l,
               campaign'[c].source.mrev = list[l].mrev, campaign'[c].targets = list[l].groups
        PROVE  Stands(campaign'[c])
    <3>1. list[l].mrev \in Nat /\ list[l].mrev > 0
      BY <1>1, <2>4 DEF Typed, ListRows, TypeOK
    <3>2. /\ list[l].mrev \in 1 .. Len(memberships[l])
          /\ memberships[l][list[l].mrev] = list[l].groups
      BY <2>4, <3>1 DEF MembershipInv
    <3>3. /\ list[l].mrev \in 1 .. Len(memberships'[l])
          /\ memberships'[l][list[l].mrev] = list[l].groups
      BY <3>2, MembershipsStand
    <3> QED BY <2>4, <3>3
  <2> QED BY <2>2, <2>3, <2>4 DEF Moves, CampaignMoves, Edits, Inserts
<1>4. ASSUME NEW c \in Campaign, NEW k \in RunKey, runs'[c][k] # NoRun PROVE Stands(runs'[c][k])
  <2>1. CASE runs'[c][k] = runs[c][k]
    <3>1. runs[c][k] \in Runs
      BY <1>1, <1>4, <2>1 DEF Typed
    <3>2. runs[c][k].source \in Sources \cup {None} /\ Sourced(runs[c][k])
      BY <1>4, <2>1, <3>1 DEF Runs, SourceInv
    <3> QED BY <2>1, <3>2, SourceStands
  <2>2. CASE runs[c][k] \in Runs /\ runs'[c][k] = [runs[c][k] EXCEPT !.active = FALSE]
    <3>1. runs[c][k] # NoRun
      BY <2>2 DEF Runs, NoRun
    <3>2. runs[c][k].source \in Sources \cup {None} /\ Sourced(runs[c][k])
      BY <2>2, <3>1 DEF Runs, SourceInv
    <3>3. runs'[c][k].source = runs[c][k].source /\ runs'[c][k].targets = runs[c][k].targets
      BY <2>2 DEF Runs
    <3> QED BY <3>2, <3>3, SourceStands
  <2>3. CASE Launches(c, k)
    <3>1. runs'[c][k].source = campaign[c].source /\ runs'[c][k].targets = campaign[c].targets
      BY <2>3 DEF Launches
    <3>2. Sourced(campaign[c])
      BY DEF SourceInv
    <3> QED BY <1>2, <3>1, <3>2, SourceStands
  <2> QED BY <2>1, <2>2, <2>3 DEF Moves, RunMoves
<1> QED BY <1>3, <1>4 DEF SourceInv, Sourced

\* Nothing takes a key that has been used, and nothing launches what is deleted.
LEMMA KeyStep == ASSUME TypeOK, KeyInv, Moves PROVE KeyInv'
<1>1. ASSUME NEW c \in Campaign, NEW d \in Campaign, c # d, Exists(campaign'[c])
      PROVE  campaign'[d].key # campaign'[c].key
  <2>1. CASE Inserts(c, campaign'[c])
    BY <1>1, <2>1 DEF Inserts
  <2>2. CASE Inserts(d, campaign'[d])
    BY <1>1, <2>2 DEF Inserts
  <2>3. CASE ~Inserts(c, campaign'[c]) /\ ~Inserts(d, campaign'[d])
    <3>1. campaign'[c].key = campaign[c].key /\ campaign'[d].key = campaign[d].key
      BY <2>3 DEF Moves, CampaignMoves, Edits
    <3> QED BY <1>1, <3>1 DEF KeyInv, Exists
  <2> QED BY <2>1, <2>2, <2>3
<1>2. ASSUME NEW l \in List, NEW m \in List, l # m, Exists(list'[l])
      PROVE  list'[m].key # list'[l].key
  <2>1. CASE InsertsList(l, list'[l])
    BY <1>2, <2>1 DEF InsertsList
  <2>2. CASE InsertsList(m, list'[m])
    BY <1>2, <2>2 DEF InsertsList
  <2>3. CASE ~InsertsList(l, list'[l]) /\ ~InsertsList(m, list'[m])
    <3>1. list'[l].key = list[l].key /\ list'[m].key = list[m].key
      BY <2>3 DEF Moves, ListMoves, EditsList
    <3> QED BY <1>2, <3>1 DEF KeyInv, Exists
  <2> QED BY <2>1, <2>2, <2>3
<1>3. ASSUME NEW c \in Campaign, campaign'[c].deleted, NEW k \in RunKey
      PROVE  ~runs'[c][k].active
  <2>1. CASE campaign'[c] = campaign[c]
    <3>1. campaign[c].deleted /\ ~runs[c][k].active
      BY <1>3, <2>1 DEF KeyInv
    <3>2. ~Launches(c, k)
      BY <3>1 DEF Launches
    <3> QED BY <3>1, <3>2 DEF Moves, RunMoves
  <2>2. CASE Edits(c, campaign'[c])
    BY <1>3, <2>2 DEF Edits
  <2>3. ~Inserts(c, campaign'[c])
    BY <1>3 DEF Inserts
  <2> QED BY <2>1, <2>2, <2>3 DEF Moves, CampaignMoves
<1> QED BY <1>1, <1>2, <1>3 DEF KeyInv, Exists

\* A launch with the current revisions has the content those revisions name.
LEMMA ReviewStep == ASSUME TypeOK, ViewInv, RunsWhatWasReviewed, Moves PROVE RunsWhatWasReviewed'
<1> DEFINE Same(run) == run.review # None => /\ run.text = run.review.text
                                             /\ run.targets = run.review.targets
                                             /\ run.source = run.review.source
<1> SUFFICES ASSUME NEW c \in Campaign, NEW k \in RunKey, runs'[c][k] # NoRun
             PROVE  Same(runs'[c][k])
  BY DEF RunsWhatWasReviewed
<1>1. CASE runs'[c][k] = runs[c][k]
  BY <1>1 DEF RunsWhatWasReviewed
<1>2. CASE runs[c][k] \in Runs /\ runs'[c][k] = [runs[c][k] EXCEPT !.active = FALSE]
  <2>1. runs[c][k] # NoRun
    BY <1>2 DEF Runs, NoRun
  <2>2. Same(runs[c][k])
    BY <2>1 DEF RunsWhatWasReviewed
  <2>3. /\ runs'[c][k].source = runs[c][k].source /\ runs'[c][k].targets = runs[c][k].targets
        /\ runs'[c][k].text = runs[c][k].text /\ runs'[c][k].review = runs[c][k].review
    BY <1>2 DEF Runs
  <2> QED BY <2>2, <2>3
<1>3. CASE Launches(c, k)
  <2> SUFFICES ASSUME NEW u \in Client, seen[u].id = c, c # None, Reviewed(u, c),
                      runs'[c][k].review = seen[u].row
               PROVE  Same(runs'[c][k])
    BY <1>3 DEF Launches
  <2>1. Loaded(seen[u].row, campaign[c])
    BY DEF ViewInv
  <2>2. /\ campaign[c].text = seen[u].row.text /\ campaign[c].targets = seen[u].row.targets
        /\ campaign[c].source = seen[u].row.source
    BY <2>1 DEF Reviewed, Loaded
  <2>3. /\ runs'[c][k].text = campaign[c].text /\ runs'[c][k].targets = campaign[c].targets
        /\ runs'[c][k].source = campaign[c].source
    BY <1>3 DEF Launches
  <2> QED BY <2>2, <2>3
<1> QED BY <1>1, <1>2, <1>3 DEF Moves, RunMoves
-----------------------------------------------------------------------------
\* A client whose request has been answered has nothing open.
LEMMA Answered ==
  ASSUME TypeOK, NEW u \in Client, seen' = [seen EXCEPT ![u] = Nothing],
         seen[u].id # None \/ seen[u].lid # None
  PROVE  Served(u)
<1>1. seen'[u] = Nothing
  BY DEF TypeOK
<1> QED BY <1>1, NothingTyped DEF Served

\* The holder of the current revision has the content, the targets or the list that is stored.
LEMMA CurrentSeen ==
  ASSUME TypeOK, ViewInv, NEW u \in Client
  PROVE  /\ seen[u].id # None /\ campaign[seen[u].id].rev = seen[u].row.rev =>
              /\ seen[u].row.text = campaign[seen[u].id].text
              /\ seen[u].row.at = campaign[seen[u].id].at
         /\ seen[u].id # None /\ campaign[seen[u].id].trev = seen[u].row.trev =>
              /\ seen[u].row.targets = campaign[seen[u].id].targets
              /\ seen[u].row.source = campaign[seen[u].id].source
         /\ seen[u].lid # None /\ list[seen[u].lid].rev = seen[u].lrow.rev =>
              /\ seen[u].lrow.groups = list[seen[u].lid].groups
              /\ seen[u].lrow.name = list[seen[u].lid].name
         /\ seen[u].lid # None /\ list[seen[u].lid].mrev = seen[u].lrow.mrev =>
              seen[u].lrow.groups = list[seen[u].lid].groups
BY DEF ViewInv, Loaded, LoadedList

\* A mutation that goes through Writes leaves every other campaign, and a row that it does not
\* change, as they are.
LEMMA OnlyWritten ==
  ASSUME TypeOK, NEW u \in Client, NEW c \in Campaign, NEW row, Writes(u, c, row)
  PROVE  /\ campaign'[c] = row /\ \A d \in Campaign \ {c} : campaign'[d] = campaign[d]
         /\ seen' = [seen EXCEPT ![u] = Nothing]
BY DEF Writes, TypeOK

\* A list that is written is the only one that changes.
LEMMA OnlyWrittenList ==
  ASSUME TypeOK, NEW u \in Client, NEW l \in List, NEW row, WritesList(u, l, row)
  PROVE  /\ list'[l] = row /\ \A m \in List \ {l} : list'[m] = list[m]
         /\ seen' = [seen EXCEPT ![u] = Nothing]
BY DEF WritesList, TypeOK

\* What does not touch the content, the targets or the tombstone of a campaign edits nothing.
LEMMA SameEditSeen ==
  ASSUME NEW c \in Campaign,
         /\ campaign'[c].text = campaign[c].text /\ campaign'[c].at = campaign[c].at
         /\ campaign'[c].targets = campaign[c].targets /\ campaign'[c].source = campaign[c].source
         /\ campaign'[c].deleted = campaign[c].deleted
  PROVE  CampaignEditSeen(c)
BY DEF CampaignEditSeen

\* update: the fields left out are those of the revision that was read.
LEMMA UpdateSeen ==
  ASSUME TypeOK, ViewInv, NEW u \in Client, NEW text \in Text \cup {None},
         NEW at \in (0..MaxTime) \cup {None}, Update(u, text, at), NEW c \in Campaign
  PROVE  CampaignEditSeen(c)
<1> DEFINE i == seen[u].id
           new == Edited(campaign[i], Patched(text, seen[u].row.text), Patched(at, seen[u].row.at))
<1>1. /\ i # None /\ Writes(u, i, IF ContentEditable(u) THEN new ELSE campaign[i])
  BY DEF Update
<1>2. i \in Campaign /\ campaign[i] \in CampaignRows
  BY <1>1 DEF TypeOK, Views
<1>3. CASE c = i /\ ContentEditable(u)
  <2>1. campaign'[c] = new /\ seen' = [seen EXCEPT ![u] = Nothing]
    BY <1>1, <1>2, <1>3, OnlyWritten
  <2>2. new.targets = campaign[i].targets /\ new.source = campaign[i].source
          /\ new.deleted = campaign[i].deleted
    BY <1>2 DEF Edited, CampaignRows
  <2>3. SeesContent(u, c)
    BY <1>1, <1>3, <2>1, Answered, CurrentSeen DEF ContentEditable, SeesContent
  <2> QED BY <1>3, <2>1, <2>2, <2>3 DEF CampaignEditSeen
<1>4. CASE ~(c = i /\ ContentEditable(u))
  <2>1. campaign'[c] = campaign[c]
    BY <1>1, <1>2, <1>4, OnlyWritten
  <2> QED BY <2>1, SameEditSeen
<1> QED BY <1>3, <1>4

\* replaceTargets and applyGroupListTargets: only the targets and their source change.
LEMMA TargetsSeen ==
  ASSUME TypeOK, ViewInv, NEW u \in Client, NEW new, seen[u].id # None,
         Writes(u, seen[u].id, new), NEW c \in Campaign,
         new # campaign[seen[u].id] =>
           /\ TargetsEditable(u)
           /\ new.text = campaign[seen[u].id].text /\ new.at = campaign[seen[u].id].at
           /\ new.deleted = campaign[seen[u].id].deleted
           /\ new.source # None /\ seen[u].lid = new.source.list =>
                new.targets = seen[u].lrow.groups
  PROVE  CampaignEditSeen(c)
<1> DEFINE i == seen[u].id
<1>1. i \in Campaign
  BY DEF TypeOK, Views
<1>2. CASE c = i /\ new # campaign[i]
  <2>1. campaign'[c] = new /\ seen' = [seen EXCEPT ![u] = Nothing]
    BY <1>1, <1>2, OnlyWritten
  <2>2. SeesTargets(u, c)
    BY <1>2, <2>1, Answered, CurrentSeen DEF TargetsEditable, SeesTargets
  <2> QED BY <1>2, <2>1, <2>2 DEF CampaignEditSeen
<1>3. CASE ~(c = i /\ new # campaign[i])
  <2>1. campaign'[c] = campaign[c]
    BY <1>1, <1>3, OnlyWritten
  <2> QED BY <2>1, SameEditSeen
<1> QED BY <1>2, <1>3

\* delete: both revisions are compared.
LEMMA DeleteSeen ==
  ASSUME TypeOK, ViewInv, NEW u \in Client, Delete(u), NEW c \in Campaign
  PROVE  CampaignEditSeen(c)
<1> DEFINE i == seen[u].id
           new == IF Visible(campaign[i]) /\ Reviewed(u, i) /\ Deletable(i)
                  THEN [campaign[i] EXCEPT !.deleted = TRUE, !.rev = @ + 1] ELSE campaign[i]
<1>1. i # None /\ Writes(u, i, new)
  BY DEF Delete
<1>2. i \in Campaign /\ campaign[i] \in CampaignRows
  BY <1>1 DEF TypeOK, Views
<1>3. /\ new.text = campaign[i].text /\ new.at = campaign[i].at
      /\ new.targets = campaign[i].targets /\ new.source = campaign[i].source
      /\ new.deleted # campaign[i].deleted => Reviewed(u, i)
  BY <1>2 DEF CampaignRows
<1>4. /\ campaign'[i] = new /\ seen' = [seen EXCEPT ![u] = Nothing]
      /\ \A d \in Campaign \ {i} : campaign'[d] = campaign[d]
  BY <1>1, <1>2, OnlyWritten
<1> HIDE DEF new
<1>5. CASE c = i /\ new.deleted # campaign[i].deleted
  <2>1. SeesContent(u, c) /\ SeesTargets(u, c)
    BY <1>1, <1>3, <1>4, <1>5, Answered, CurrentSeen DEF Reviewed, SeesContent, SeesTargets
  <2> QED BY <1>3, <1>4, <1>5, <2>1 DEF CampaignEditSeen
<1>6. CASE ~(c = i /\ new.deleted # campaign[i].deleted)
  <2>1. CASE c = i
    BY <1>3, <1>4, <1>6, <2>1, SameEditSeen
  <2>2. CASE c # i
    <3>1. campaign'[c] = campaign[c]
      BY <1>4, <2>2
    <3> QED BY <3>1, SameEditSeen
  <2> QED BY <2>1, <2>2
<1> QED BY <1>5, <1>6

\* Every step that changes an existing campaign's content, targets or tombstone.
LEMMA CampaignEditsSeen ==
  ASSUME TypeOK, ViewInv, [Next]_vars, NEW c \in Campaign, Exists(campaign[c])
  PROVE  CampaignEditSeen(c)
<1>0. campaign[c] \in CampaignRows
  BY DEF TypeOK
<1>1. ASSUME campaign' = campaign PROVE CampaignEditSeen(c)
  BY <1>1, SameEditSeen
<1>2. ASSUME NEW d \in Campaign, NEW s, campaign' = [campaign EXCEPT ![d].status = s]
      PROVE  CampaignEditSeen(c)
  <2>1. campaign'[c] = campaign[c] \/ campaign'[c] = [campaign[c] EXCEPT !.status = s]
    BY <1>2 DEF TypeOK
  <2> QED BY <1>0, <2>1, SameEditSeen DEF CampaignRows
<1>3. ASSUME NEW u \in Client, NEW d \in Campaign, InsertCampaign(u, d) PROVE CampaignEditSeen(c)
  <2>1. d # c
    BY <1>3 DEF InsertCampaign, NewRow
  <2>2. campaign'[c] = campaign[c]
    BY <1>3, <2>1, OnlyWritten DEF InsertCampaign
  <2> QED BY <2>2, SameEditSeen
<1>4. ASSUME NEW u \in Client, NEW G \in SUBSET Group, ReplaceTargets(u, G)
      PROVE  CampaignEditSeen(c)
  <2> DEFINE row == campaign[seen[u].id]
             new == IF TargetsEditable(u) /\ ValidGroups(G) THEN Replaced(row, G) ELSE row
  <2>1. seen[u].id # None /\ Writes(u, seen[u].id, new)
    BY <1>4 DEF ReplaceTargets
  <2>2. row \in CampaignRows
    BY <2>1 DEF TypeOK, Views
  <2>3. new # row => /\ TargetsEditable(u) /\ new.source = None
                     /\ new.text = row.text /\ new.at = row.at /\ new.deleted = row.deleted
    BY <2>2 DEF Replaced, CampaignRows
  <2> HIDE DEF new
  <2> QED BY <2>1, <2>3, TargetsSeen
<1>5. ASSUME NEW u \in Client, NEW l \in List, ApplyGroupListTargets(u, l)
      PROVE  CampaignEditSeen(c)
  <2> DEFINE row == campaign[seen[u].id]
             expected == seen[u].lid = l => list[l].mrev = seen[u].lrow.mrev
             new == IF TargetsEditable(u) /\ ~list[l].archived /\ expected
                    THEN Applied(row, l) ELSE row
  <2>1. seen[u].id # None /\ Writes(u, seen[u].id, new)
    BY <1>5 DEF ApplyGroupListTargets
  <2>2. row \in CampaignRows
    BY <2>1 DEF TypeOK, Views
  <2>3. new # row => /\ TargetsEditable(u) /\ expected
                     /\ new.text = row.text /\ new.at = row.at /\ new.deleted = row.deleted
                     /\ new.source.list = l /\ new.targets = list[l].groups
    BY <2>2 DEF Applied, CampaignRows
  <2>4. seen[u].lid = l /\ expected => seen[u].lrow.groups = list[l].groups
    <3>1. l # None
      OBVIOUS
    <3> QED BY <3>1, CurrentSeen
  <2> HIDE DEF new, expected
  <2> QED BY <2>1, <2>3, <2>4, TargetsSeen
<1>6. ASSUME NEW u \in Client, CampaignRequest(u) PROVE CampaignEditSeen(c)
  <2>1. ASSUME NEW d \in Campaign, LoadCampaign(u, d) PROVE CampaignEditSeen(c)
    BY <1>1, <2>1 DEF LoadCampaign
  <2>2. ASSUME NEW k \in Key, NEW text \in Text, NEW at \in 0..MaxTime,
               CreateCampaign(u, k, text, at)
        PROVE  CampaignEditSeen(c)
    BY <1>1, <2>2 DEF CreateCampaign
  <2>3. ASSUME NEW k \in RunKey, NEW mode, NEW expects, Launch(u, k, mode, expects)
        PROVE  CampaignEditSeen(c)
    <3>1. seen[u].id \in Campaign
      BY <2>3 DEF Launch, TypeOK, Views
    <3>2. campaign' = IF mode = "LIVE" THEN [campaign EXCEPT ![seen[u].id].status = "ACTIVE"]
                      ELSE campaign
      BY <2>3 DEF Launch
    <3>3. CASE mode = "LIVE"
      BY <1>2, <3>1, <3>2, <3>3
    <3>4. CASE mode # "LIVE"
      BY <1>1, <3>2, <3>4
    <3> QED BY <3>3, <3>4
  <2> QED BY <1>3, <1>4, <1>5, <1>6, <2>1, <2>2, <2>3, UpdateSeen, DeleteSeen DEF CampaignRequest
<1>7. ASSUME NEW u \in Client, ListRequest(u) PROVE CampaignEditSeen(c)
  BY <1>1, <1>7 DEF ListRequest, LoadList, InsertList, CreateList, UpdateList, ReplaceGroups, Archive
<1>8. ASSUME NEW d \in Campaign, NEW k \in RunKey, EndRun(d, k) PROVE CampaignEditSeen(c)
  BY <1>1, <1>2, <1>8 DEF EndRun
<1> QED BY <1>1, <1>6, <1>7, <1>8 DEF Next, Tick, vars

\* Every step that changes an existing list.
LEMMA ListEditsSeen ==
  ASSUME TypeOK, ViewInv, [Next]_vars, NEW l \in List, Exists(list[l])
  PROVE  ListEditSeen(l)
<1>1. ASSUME list' = list PROVE ListEditSeen(l)
  BY <1>1 DEF ListEditSeen
<1>2. ASSUME NEW u \in Client, NEW row, seen[u].lid # None, WritesList(u, seen[u].lid, row),
             row # list[seen[u].lid] => Current(u)
      PROVE  ListEditSeen(l)
  <2>1. seen[u].lid \in List
    BY <1>2 DEF TypeOK, Views
  <2>2. /\ list'[seen[u].lid] = row /\ seen' = [seen EXCEPT ![u] = Nothing]
        /\ \A m \in List \ {seen[u].lid} : list'[m] = list[m]
    BY <1>2, <2>1, OnlyWrittenList
  <2>3. Current(u) => SeesList(u, seen[u].lid)
    BY <1>2, <2>2, Answered, CurrentSeen DEF Current, SeesList
  <2> QED BY <1>2, <2>1, <2>2, <2>3 DEF ListEditSeen
<1>3. ASSUME NEW u \in Client, NEW m \in List, InsertList(u, m) PROVE ListEditSeen(l)
  <2>1. m # l
    BY <1>3 DEF InsertList, NewRow
  <2>2. list'[l] = list[l]
    BY <1>3, <2>1, OnlyWrittenList DEF InsertList
  <2> QED BY <2>2 DEF ListEditSeen
<1>4. ASSUME NEW u \in Client, ListRequest(u) PROVE ListEditSeen(l)
  BY <1>1, <1>2, <1>3, <1>4
     DEF ListRequest, LoadList, CreateList, UpdateList, ReplaceGroups, Archive
<1>5. ASSUME NEW u \in Client, CampaignRequest(u) PROVE ListEditSeen(l)
  BY <1>1, <1>5
     DEF CampaignRequest, LoadCampaign, InsertCampaign, CreateCampaign, Update, ReplaceTargets,
         ApplyGroupListTargets, Launch, Delete
<1> QED BY <1>1, <1>4, <1>5 DEF Next, EndRun, Tick, vars
-----------------------------------------------------------------------------
\* Nothing exists, and nobody has anything open.
LEMMA InitInv == Init => Inv
<1> SUFFICES ASSUME Init PROVE Inv
  OBVIOUS
<1>1. /\ \A c \in Campaign : campaign[c] = NoCampaign /\ \A k \in RunKey : runs[c][k] = NoRun
      /\ \A l \in List : list[l] = NoList /\ memberships[l] = <<>>
      /\ \A u \in Client : seen[u] = Nothing
  BY DEF Init
<1>2. /\ ~Exists(NoCampaign) /\ NoCampaign.rev = 0 /\ ~NoCampaign.deleted
      /\ NoCampaign.source = None
      /\ ~Exists(NoList) /\ NoList.rev = 0 /\ NoList.mrev = 0 /\ ~NoList.archived
  BY DEF Exists, NoCampaign, NoList
<1>3. Typed
  <2>1. <<>> \in Seq(SUBSET Known)
    OBVIOUS
  <2> QED BY <2>1, NothingTyped DEF Init, Typed
<1>4. TypeOK
  BY <1>1, <1>2, <1>3, NothingTyped DEF TypeOK, Typed
<1>5. ViewInv
  BY <1>1, NothingTyped DEF ViewInv
<1>6. MembershipInv
  BY <1>1, <1>2 DEF MembershipInv
<1>7. SourceInv
  BY <1>1, <1>2 DEF SourceInv, Sourced
<1>8. KeyInv
  BY <1>1, <1>2 DEF KeyInv
<1>9. RunsWhatWasReviewed
  BY <1>1 DEF RunsWhatWasReviewed
<1> QED BY <1>4, <1>5, <1>6, <1>7, <1>8, <1>9 DEF Inv

\* Every step keeps the invariant and is one of the moves above.
LEMMA NextInv == Inv /\ [Next]_vars => Inv' /\ Moves
BY NextMoves, TypeStep, ViewStep, MembershipStep, SourceStep, KeyStep, ReviewStep DEF Inv

\* The invariant holds of every reachable state.
LEMMA Inductive == Spec => []Inv
BY InitInv, NextInv, PTL DEF Spec

\* Rows, runs and views stay well formed whatever the clients send, in any order: targets and
\* lists hold only groups of the session, and only what exists is deleted or archived.
THEOREM DefinitionTypeOK == Spec => []TypeOK
<1>1. Inv => TypeOK
  BY DEF Inv
<1> QED BY <1>1, Inductive, PTL

\* No lost update, for any number of clients: whoever changes the content or the targets of a
\* campaign, or a saved list, has loaded what the change replaces, and a deletion has seen all of
\* it.  The revisions compared are what makes it so: a revision names one content (ViewInv).
THEOREM NoLostUpdate == Spec => EditsWhatWasSeen
<1>1. Inv /\ [Next]_vars =>
        /\ \A c \in Campaign : Exists(campaign[c]) => CampaignEditSeen(c)
        /\ \A l \in List : Exists(list[l]) => ListEditSeen(l)
  BY CampaignEditsSeen, ListEditsSeen DEF Inv
<1> QED BY <1>1, Inductive, PTL DEF Spec, EditsWhatWasSeen

\* The source of a campaign and of its runs tells the truth about their targets, whatever has
\* happened to the list since it was applied.
THEOREM SourceTellsTruth == Spec => []ProvenanceHonest
<1>1. Inv => ProvenanceHonest
  BY DEF Inv, SourceInv, Sourced, ProvenanceHonest
<1> QED BY <1>1, Inductive, PTL

\* A launch that carries the reviewed revisions sends the reviewed text to the reviewed targets.
THEOREM ReviewedIsSent == Spec => []RunsWhatWasReviewed
<1>1. Inv => RunsWhatWasReviewed
  BY DEF Inv
<1> QED BY <1>1, Inductive, PTL

\* Deletion and archiving are final: the row, its key and the runs of a deleted campaign are
\* left alone by every later step, and nothing is deleted while it has an active run.
THEOREM TombstonesStand == Spec => TombstoneFinal
<1> DEFINE Final ==
     /\ \A c \in Campaign : campaign'[c].deleted => \A k \in RunKey : ~runs'[c][k].active
     /\ \A c \in Campaign : campaign[c].deleted =>
          /\ campaign'[c] = campaign[c] /\ runs'[c] = runs[c]
          /\ \A d \in Campaign \ {c} : campaign'[d].key # campaign[c].key
     /\ \A l \in List : list[l].archived =>
          /\ list'[l] = list[l]
          /\ \A m \in List \ {l} : list'[m].key # list[l].key
<1>1. Inv /\ [Next]_vars => Final
  <2> SUFFICES ASSUME Inv, [Next]_vars PROVE Final
    OBVIOUS
  <2>1. Inv' /\ Moves
    BY NextInv
  <2>2. \A c \in Campaign : campaign'[c].deleted => \A k \in RunKey : ~runs'[c][k].active
    BY <2>1 DEF Inv, KeyInv
  <2>3. ASSUME NEW c \in Campaign, campaign[c].deleted
        PROVE  /\ campaign'[c] = campaign[c] /\ runs'[c] = runs[c]
               /\ \A d \in Campaign \ {c} : campaign'[d].key # campaign[c].key
    <3>1. Exists(campaign[c]) /\ \A k \in RunKey : ~runs[c][k].active
      BY <2>3 DEF Inv, TypeOK, KeyInv
    <3>2. campaign'[c] = campaign[c]
      BY <2>1, <2>3, <3>1 DEF Moves, CampaignMoves, Edits, Inserts
    <3>3. \A k \in RunKey : runs'[c][k] = runs[c][k]
      BY <2>1, <2>3, <3>1 DEF Moves, RunMoves, Launches
    <3>4. runs[c] \in [RunKey -> Runs \cup {NoRun}] /\ runs'[c] \in [RunKey -> Runs \cup {NoRun}]
      BY <2>1 DEF Inv, TypeOK
    <3>5. runs'[c] = runs[c]
      BY <3>3, <3>4
    <3>6. \A d \in Campaign : c # d /\ Exists(campaign'[c]) => campaign'[d].key # campaign'[c].key
      BY <2>1 DEF Inv, KeyInv, Exists
    <3> QED BY <3>1, <3>2, <3>5, <3>6
  <2>4. ASSUME NEW l \in List, list[l].archived
        PROVE  /\ list'[l] = list[l]
               /\ \A m \in List \ {l} : list'[m].key # list[l].key
    <3>1. Exists(list[l])
      BY <2>4 DEF Inv, TypeOK
    <3>2. list'[l] = list[l]
      BY <2>1, <2>4, <3>1 DEF Moves, ListMoves, EditsList, InsertsList
    <3>3. \A m \in List : l # m /\ Exists(list'[l]) => list'[m].key # list'[l].key
      BY <2>1 DEF Inv, KeyInv, Exists
    <3> QED BY <3>1, <3>2, <3>3
  <2> QED BY <2>2, <2>3, <2>4
<1> QED BY <1>1, Inductive, PTL DEF Spec, TombstoneFinal
=============================================================================
