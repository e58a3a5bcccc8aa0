------------------------ MODULE ContactProjection_proofs ------------------------
(***************************************************************************)
(* The resolver gives no phone to two LIDs, whatever the evidence, and the *)
(* counters of the projection queue stay ordered, for any identities,      *)
(* members, snapshots, schedulers and limits.                              *)
(***************************************************************************)
EXTENDS ContactProjection, FiniteSetTheorems, SequenceTheorems, WellFoundedInduction, TLAPS

-----------------------------------------------------------------------------
(***************************************************************************)
(* Least and greatest elements.                                            *)
(***************************************************************************)
\* A set of naturals that is not empty has a least element, which is Min.
LEMMA MinInside ==
  ASSUME NEW S, S \subseteq Nat, S # {}
  PROVE  Min(S) \in S /\ \A y \in S : Min(S) <= y
<1> DEFINE R == {ss \in Nat \X Nat : ss[1] < ss[2]}
<1>1. IsWellFoundedOn(R, Nat)
  BY NatLessThanWellFounded DEF OpToRel
<1>2. PICK x \in S : \A y \in S : ~(<<y, x>> \in R)
  <2> HIDE DEF R
  <2> QED BY <1>1, WFMin
<1>3. ASSUME NEW y \in S
      PROVE  x <= y
  <2>1. x \in Nat /\ y \in Nat
    OBVIOUS
  <2>2. y < x => <<y, x>> \in R
    BY <2>1
  <2>3. ~(y < x)
    BY <1>2, <2>2
  <2> QED BY <2>1, <2>3
<1> QED BY <1>3 DEF Min

\* A bounded set of naturals that is not empty has a greatest element.
LEMMA BoundedMax ==
  ASSUME NEW S, S \subseteq Nat, S # {}, NEW n \in Nat, \A s \in S : s <= n
  PROVE  \E x \in S : \A y \in S : y <= x
<1> DEFINE T == {n - s : s \in S}
<1>1. T \subseteq Nat /\ T # {}
  <2>1. \A s \in S : n - s \in Nat
    OBVIOUS
  <2> QED BY <2>1
<1>2. Min(T) \in T /\ \A y \in T : Min(T) <= y
  <2> HIDE DEF T
  <2> QED BY <1>1, MinInside
<1>3. PICK x \in S : Min(T) = n - x
  BY <1>2
<1>4. \A y \in S : n - x <= n - y
  BY <1>2, <1>3
<1>5. \A y \in S : y <= x
  BY <1>4
<1> QED BY <1>5

-----------------------------------------------------------------------------
(***************************************************************************)
(* The resolver.  Links lead from LIDs and phone JIDs to phones, and a LID *)
(* has only links from contacts.                                           *)
(***************************************************************************)
Evident(E) ==
  \A e \in E :
    /\ e.left \in Identity /\ TypeOf[e.left] # "PHONE"
    /\ e.right \in Identity /\ TypeOf[e.right] = "PHONE"
    /\ TypeOf[e.left] = "LID" => e.source = "CONTACT_PHONE"

\* The evidence of a generation has that shape.
LEMMA EvidenceShape ==
  ASSUME NEW g, gens[g].content \in Snapshot
  PROVE  Evident(EvidenceOf(g))
<1> DEFINE c == gens[g].content
<1>1. SUFFICES ASSUME NEW e \in EvidenceOf(g)
               PROVE  /\ e.left \in Identity /\ TypeOf[e.left] # "PHONE"
                      /\ e.right \in Identity /\ TypeOf[e.right] = "PHONE"
                      /\ TypeOf[e.left] = "LID" => e.source = "CONTACT_PHONE"
  BY DEF Evident
<1>2. CASE \E i \in DOMAIN c : /\ TypeOf[i] = "LID" /\ c[i].phone # None
                               /\ e = Link(i, c[i].phone, "CONTACT_PHONE")
  <2>1. DOMAIN c \subseteq Identity
    BY ProjectionAssumption DEF Exact
  <2> QED BY <1>2, <2>1, ProjectionAssumption DEF Link
<1>3. CASE \E i \in Identity : /\ TypeOf[i] = "PHONE_JID"
                               /\ e = Link(i, Derived[i], "PHONE_JID_DERIVATION")
  BY <1>3, ProjectionAssumption DEF Link
<1> QED BY <1>1, <1>2, <1>3 DEF EvidenceOf

\* What a root reaches has both ends of a link or neither.
LEMMA ReachClosed ==
  ASSUME NEW E, NEW e \in E, e.left \in Identity, e.right \in Identity, NEW n
  PROVE  e.left \in Reach(n, Closed(E)) <=> e.right \in Reach(n, Closed(E))
BY DEF Reach, Closed

\* An identity without a link reaches, and is reached by, itself only.
LEMMA ReachAlone ==
  ASSUME NEW E, NEW i \in Identity, NEW n \in Identity,
         \A e \in E : e.left # i /\ e.right # i /\ e.left \in Identity /\ e.right \in Identity
  PROVE  /\ i \in Reach(n, Closed(E)) => n = i
         /\ n \in Reach(i, Closed(E)) => n = i
<1>1. {i} \in Closed(E) /\ Identity \ {i} \in Closed(E)
  BY DEF Closed
<1> QED BY <1>1 DEF Reach

\* The components that the links in E form among the known nodes.
ComponentOf(E, nodes) == Components(nodes, Classes(nodes, Closed(E)))

\* A component is named by a known node that shares a class with its members.
LEMMA ComponentRoot ==
  ASSUME NEW E, NEW nodes, nodes \subseteq Identity,
         NEW component, component = ComponentOf(E, nodes),
         NEW j \in DOMAIN component
  PROVE  /\ component[j] \in nodes
         /\ \E n \in nodes : component[j] \in Reach(n, Closed(E)) /\ j \in Reach(n, Closed(E))
<1> DEFINE classes == {Reach(n, Closed(E)) : n \in nodes}
           roots == {i \in nodes : \E C \in classes : i \in C /\ j \in C}
<1>1. component[j] = Min(roots)
  BY DEF ComponentOf, Classes, Components
<1>2. roots # {}
  <2>1. PICK n \in nodes : j \in Reach(n, Closed(E))
    BY DEF ComponentOf, Classes, Components
  <2>2. n \in Reach(n, Closed(E))
    BY DEF Reach
  <2> QED BY <2>1, <2>2
<1>3. roots \subseteq Nat
  BY ResolutionAssumption
<1>4. Min(roots) \in roots
  <2> HIDE DEF roots
  <2> QED BY <1>2, <1>3, MinInside
<1> QED BY <1>1, <1>4

\* A link does not leave a component.
LEMMA ComponentLinked ==
  ASSUME NEW E, NEW nodes, nodes \subseteq Identity,
         NEW component, component = ComponentOf(E, nodes),
         NEW e \in E, e.left \in Identity, e.right \in Identity, e.left \in DOMAIN component
  PROVE  e.right \in DOMAIN component /\ component[e.right] = component[e.left]
<1> DEFINE classes == {Reach(n, Closed(E)) : n \in nodes}
<1>1. \A C \in classes : e.left \in C <=> e.right \in C
  BY ReachClosed
<1>2. e.right \in DOMAIN component
  BY <1>1 DEF ComponentOf, Classes, Components
<1>3. {i \in nodes : \E C \in classes : i \in C /\ e.left \in C}
        = {i \in nodes : \E C \in classes : i \in C /\ e.right \in C}
  BY <1>1
<1> QED BY <1>2, <1>3 DEF ComponentOf, Classes, Components

\* No phone for two LIDs.
Distinct(result) ==
  \A i, j \in Identity :
    /\ i # j /\ TypeOf[i] = "LID" /\ TypeOf[j] = "LID"
    /\ result.assign[i].phone # None
    => result.assign[i].phone # result.assign[j].phone

\* Clusters and keys are identities, and no phone is given twice.
Sound(result) ==
  /\ \A i \in Identity : /\ result.assign[i].cluster \in Identity \cup {None}
                         /\ CanonicalIn(result, i) \in Identity
  /\ Distinct(result)

\* The phone of an assignment is the one phone of its component.
LEMMA PhoneOf ==
  ASSUME NEW E, NEW nodes, nodes \subseteq Identity,
         NEW component, component = ComponentOf(E, nodes),
         NEW names, NEW conflicted, NEW i \in Identity,
         NEW clusters, clusters = Clusters(component, names),
         NEW p, p = Assignments(component, clusters, conflicted)[i].phone, p # None
  PROVE  /\ i \in DOMAIN component /\ i \notin conflicted
         /\ p \in DOMAIN component /\ TypeOf[p] = "PHONE" /\ component[p] = component[i]
         /\ \A q \in DOMAIN component :
              TypeOf[q] = "PHONE" /\ component[q] = component[i] => q = p
<1>1. i \in DOMAIN component
  BY DEF Assignments, NoAssignment
<1>2. /\ i \notin conflicted
      /\ p = clusters[component[i]].phone
  BY <1>1 DEF Assignments
<1>3. component[i] \in Identity
  BY <1>1, ComponentRoot
<1> DEFINE inside == {j \in DOMAIN component : component[j] = component[i]}
           phones == {j \in inside : TypeOf[j] = "PHONE"}
<1>4. p = IF Cardinality(phones) = 1 THEN Min(phones) ELSE None
  <2>1. inside # {}
    BY <1>1
  <2> QED BY <1>2, <1>3, <2>1 DEF Clusters
<1>5. IsFiniteSet(phones) /\ phones \subseteq Identity
  <2>1. DOMAIN component \subseteq Identity
    BY DEF ComponentOf, Classes, Components, Reach
  <2>2. phones \subseteq Identity
    BY <2>1
  <2> QED BY <2>2, FS_Subset, ResolutionAssumption
<1>6. PICK q : phones = {q}
  <2> HIDE DEF phones
  <2> QED BY <1>4, <1>5, FS_Singleton
<1>7. p = q
  <2>1. Min({q}) \in {q}
    BY <1>5, <1>6, MinInside, ResolutionAssumption
  <2> QED BY <1>4, <1>6, <2>1
<1> QED BY <1>1, <1>2, <1>6, <1>7

\* A LID that shares its component with another identity has a link from a contact.
LEMMA LidLinked ==
  ASSUME NEW E, Evident(E), NEW nodes, nodes \subseteq Identity,
         NEW component, component = ComponentOf(E, nodes),
         NEW i \in DOMAIN component, i \in Identity, TypeOf[i] = "LID",
         NEW p \in DOMAIN component, p \in Identity, p # i, component[p] = component[i]
  PROVE  \E e \in E : /\ e.left = i /\ e.source = "CONTACT_PHONE"
                      /\ e.right \in DOMAIN component /\ component[e.right] = component[i]
                      /\ TypeOf[e.right] = "PHONE"
<1>1. CASE \E e \in E : e.left = i
  <2>1. PICK e \in E : e.left = i
    BY <1>1
  <2> e.left \in DOMAIN component
    BY <2>1
  <2>2. /\ e.left \in Identity /\ e.right \in Identity
        /\ e.source = "CONTACT_PHONE" /\ TypeOf[e.right] = "PHONE"
    BY <2>1 DEF Evident
  <2>3. e.right \in DOMAIN component /\ component[e.right] = component[e.left]
    BY <2>1, <2>2, ComponentLinked
  <2> QED BY <2>1, <2>2, <2>3
<1>2. CASE \A e \in E : e.left # i
  <2>1. \A e \in E : e.left # i /\ e.right # i /\ e.left \in Identity /\ e.right \in Identity
    BY <1>2 DEF Evident
  <2>2. PICK n \in nodes : component[i] \in Reach(n, Closed(E)) /\ i \in Reach(n, Closed(E))
    BY ComponentRoot
  <2>3. n = i
    BY <2>1, <2>2, ReachAlone
  <2>4. component[i] \in nodes
    BY ComponentRoot
  <2>5. component[i] = i
    BY <2>1, <2>2, <2>3, <2>4, ReachAlone
  <2>6. PICK m \in nodes : component[p] \in Reach(m, Closed(E)) /\ p \in Reach(m, Closed(E))
    BY ComponentRoot
  <2>7. m = i
    BY <2>1, <2>5, <2>6, ReachAlone
  <2>8. p = i
    BY <2>1, <2>6, <2>7, ReachAlone
  <2> QED BY <2>8
<1> QED BY <1>1, <1>2

\* A resolution is sound, whatever the evidence.
LEMMA ResolutionSound ==
  ASSUME NEW E, Evident(E), NEW nodes, nodes \subseteq Identity, NEW names,
         NEW conflicted, conflicted = Conflicted(E),
         NEW eligible, eligible = Eligible(E, conflicted),
         NEW component, component = ComponentOf(eligible, nodes),
         NEW clusters, clusters = Clusters(component, names),
         NEW result,
         result = [assign |-> Assignments(component, clusters, conflicted), clusters |-> clusters]
  PROVE  Sound(result)
<1>1. ASSUME NEW i \in Identity
      PROVE  /\ result.assign[i].cluster \in Identity \cup {None}
             /\ CanonicalIn(result, i) \in Identity
  <2>1. CASE i \in DOMAIN component
    <3>1. component[i] \in Identity
      BY <2>1, ComponentRoot
    <3>2. result.assign[i].cluster = component[i]
      BY <2>1 DEF Assignments
    <3> QED BY <3>1, <3>2 DEF CanonicalIn
  <2>2. CASE i \notin DOMAIN component
    <3>1. result.assign[i].status = None /\ result.assign[i].cluster = None
      BY <2>2 DEF Assignments, NoAssignment
    <3> QED BY <3>1, ResolutionAssumption DEF CanonicalIn
  <2> QED BY <2>1, <2>2
<1>2. ASSUME NEW i \in Identity, NEW j \in Identity, i # j,
             TypeOf[i] = "LID", TypeOf[j] = "LID",
             result.assign[i].phone # None,
             result.assign[i].phone = result.assign[j].phone
      PROVE  FALSE
  <2> DEFINE p == result.assign[i].phone
  <2>1. /\ p = Assignments(component, clusters, conflicted)[i].phone
        /\ p = Assignments(component, clusters, conflicted)[j].phone
        /\ p # None
    BY <1>2
  <2> HIDE DEF p
  <2>2. /\ i \in DOMAIN component /\ i \notin conflicted
        /\ p \in DOMAIN component /\ TypeOf[p] = "PHONE" /\ component[p] = component[i]
        /\ \A q \in DOMAIN component :
             TypeOf[q] = "PHONE" /\ component[q] = component[i] => q = p
    <3>1. p = Assignments(component, clusters, conflicted)[i].phone /\ p # None
      BY <2>1
    <3>2. nodes \subseteq Identity /\ component = ComponentOf(eligible, nodes)
            /\ clusters = Clusters(component, names)
      OBVIOUS
    <3> QED BY ONLY <3>1, <3>2, PhoneOf, i \in Identity
  <2>3. /\ j \in DOMAIN component /\ component[p] = component[j]
    BY <2>1, PhoneOf
  <2>4. p \in Identity /\ p # i /\ p # j
    BY <1>2, <2>2 DEF ComponentOf, Classes, Components, Reach
  <2>5. Evident(eligible)
    BY DEF Evident, Eligible
  <2>6. PICK e \in eligible :
          /\ e.left = i /\ e.source = "CONTACT_PHONE"
          /\ e.right \in DOMAIN component /\ component[e.right] = component[i]
          /\ TypeOf[e.right] = "PHONE"
    BY <1>2, <2>2, <2>4, <2>5, LidLinked
  <2>7. PICK f \in eligible :
          /\ f.left = j /\ f.source = "CONTACT_PHONE"
          /\ f.right \in DOMAIN component /\ component[f.right] = component[j]
          /\ TypeOf[f.right] = "PHONE"
    BY <1>2, <2>2, <2>3, <2>4, <2>5, LidLinked
  <2>8. e.right = p /\ f.right = p /\ e \in E /\ f \in E
    BY <2>2, <2>3, <2>6, <2>7 DEF Eligible
  <2>9. p \in SharedPhones(E)
    BY <1>2, <2>4, <2>6, <2>7, <2>8 DEF SharedPhones
  <2>10. i \in conflicted
    BY <2>6, <2>8, <2>9 DEF Conflicted
  <2> QED BY <2>2, <2>10
<1> QED BY <1>1, <1>2 DEF Sound, Distinct

-----------------------------------------------------------------------------
(***************************************************************************)
(* The inductive invariant, table by table.  A row is a record with the    *)
(* columns of the model; a row of work has ordered revisions up to n, and  *)
(* a member is projected, at a revision up to n, only once observed.       *)
(***************************************************************************)
WorkSet(C) ==
  [status : {"NONE", "IDLE", "PENDING", "RUNNING", "RETRY", "FAILED"}, req : Nat, reqCut : C,
   act : Nat, actCut : C, actRun : C, cursor : C, att : 0..MaxAttempts, lease : C, live : BOOLEAN]
WorkRow(w, n) ==
  /\ w \in WorkSet({w.reqCut, w.actCut, w.actRun, w.cursor, w.lease})
  /\ w.live => w.status = "RUNNING"
  /\ w.act <= w.req /\ w.req <= n

MemberSet(C) == [present : BOOLEAN, known : BOOLEAN, group : C, rev : Nat, shown : C]
MemberRow(x, n) ==
  /\ x \in MemberSet({x.group, x.shown})
  /\ x.rev <= n
  /\ x.rev > 0 => x.known

RunSet(C) == [status : C, att : C, lease : C, live : C, at : Nat, result : C]
RunRow(x) ==
  /\ x \in RunSet({x.status, x.att, x.lease, x.live, x.result})
  /\ x.status = "COMPLETED" => Sound(x.result)

OpenSet(C) ==
  [gen : C, result : C, at : Nat, beside : C, sources : C, targets : SUBSET Identity, writes : C]
OpenRow(b) ==
  /\ b \in OpenSet({b.gen, b.result, b.beside, b.sources, b.writes})
  /\ Sound(b.result)

Elements(s) == {s[k] : k \in DOMAIN s}

ClockInv == now \in Nat /\ events \in 0..MaxEvents /\ gap \subseteq Identity
QueueInv == rev \in Nat /\ DOMAIN work = Identity /\ \A i \in Identity : WorkRow(work[i], rev)
MemberInv == DOMAIN member = Member /\ \A m \in Member : MemberRow(member[m], rev)
GenInv == gens \in Seq([at : Nat, content : Snapshot])
RunInv ==
  /\ runs \in Seq(Elements(runs)) /\ Len(runs) <= Len(gens)
  /\ \A g \in 1..Len(runs) : RunRow(runs[g])
ClaimInv == DOMAIN claim = Resolver /\ \A r \in Resolver : claim[r] \in 0..Len(runs)
OpenInv == DOMAIN open = Actor /\ \A a \in Actor : open[a] # None => OpenRow(open[a])
JobInv == DOMAIN job = Projector /\ \A p \in Projector : job[p] # None => job[p].id \in Identity

Inv ==
  /\ ClockInv /\ QueueInv /\ MemberInv /\ GenInv
  /\ RunInv /\ ClaimInv /\ OpenInv /\ JobInv

-----------------------------------------------------------------------------
(***************************************************************************)
(* The newest run, and the requests for work.                              *)
(***************************************************************************)
\* The newest completed run is one of them, and its result is sound.
LEMMA LatestSound ==
  ASSUME ClockInv, RunInv
  PROVE  Sound(Latest)
<1> DEFINE G == {g \in CompletedRuns : runs[g].at <= now}
<1>1. DOMAIN runs = 1..Len(runs)
  BY DEF RunInv
<1>2. \A g \in G : /\ g \in 1..Len(runs) /\ g # 0 /\ runs[g].at \in Nat /\ runs[g].at <= now
                   /\ Sound(runs[g].result)
  BY <1>1 DEF RunInv, RunRow, RunSet, CompletedRuns
<1>3. now \in Nat
  BY DEF ClockInv
<1>4. CASE G = {}
  <2>1. Latest = NoResult
    BY <1>4 DEF Latest, ResultOf, RunAt
  <2>2. \A i \in Identity : NoResult.assign[i] = NoAssignment
    BY DEF NoResult
  <2>3. /\ NoAssignment.phone = None /\ NoAssignment.status # "RESOLVED"
        /\ NoAssignment.cluster = None
    BY ResolutionAssumption DEF NoAssignment
  <2> QED BY <2>1, <2>2, <2>3 DEF Sound, Distinct, CanonicalIn
<1>5. CASE G # {}
  <2> DEFINE A == {runs[g].at : g \in G}
  <2>1. A \subseteq Nat /\ A # {} /\ \A a \in A : a <= now
    BY <1>2, <1>5
  <2>2. PICK x \in A : \A y \in A : y <= x
    <3> HIDE DEF A
    <3> QED BY <1>3, <2>1, BoundedMax
  <2>3. \E g \in G : \A h \in G : runs[h].at <= runs[g].at
    BY <2>2
  <2>4. RunAt(now) \in G
    BY <1>5, <2>3 DEF RunAt
  <2>5. Latest = runs[RunAt(now)].result
    BY <1>2, <2>4 DEF Latest, ResultOf
  <2> QED BY <1>2, <2>4, <2>5
<1> QED BY <1>4, <1>5

\* The sets that the columns without a type are taken from do not matter.
LEMMA AnyColumns ==
  ASSUME NEW C, NEW x
  PROVE  /\ x \in WorkSet(C) => x \in WorkSet({x.reqCut, x.actCut, x.actRun, x.cursor, x.lease})
         /\ x \in MemberSet(C) => x \in MemberSet({x.group, x.shown})
         /\ x \in RunSet(C) => x \in RunSet({x.status, x.att, x.lease, x.live, x.result})
         /\ x \in OpenSet(C) => x \in OpenSet({x.gen, x.result, x.beside, x.sources, x.writes})
<1>1. x \in WorkSet(C) => x \in WorkSet({x.reqCut, x.actCut, x.actRun, x.cursor, x.lease})
  BY DEF WorkSet
<1>2. x \in MemberSet(C) => x \in MemberSet({x.group, x.shown})
  BY DEF MemberSet
<1>3. x \in RunSet(C) => x \in RunSet({x.status, x.att, x.lease, x.live, x.result})
  BY DEF RunSet
<1>4. x \in OpenSet(C) => x \in OpenSet({x.gen, x.result, x.beside, x.sources, x.writes})
  BY DEF OpenSet
<1> QED BY <1>1, <1>2, <1>3, <1>4

\* A larger set of values for the columns without a type.
LEMMA MoreColumns ==
  ASSUME NEW C, NEW D, NEW x
  PROVE  /\ x \in WorkSet(C) => x \in WorkSet(C \cup D)
         /\ x \in MemberSet(C) => x \in MemberSet(C \cup D)
         /\ x \in RunSet(C) => x \in RunSet(C \cup D)
         /\ x \in OpenSet(C) => x \in OpenSet(C \cup D)
<1>1. x \in WorkSet(C) => x \in WorkSet(C \cup D)
  BY DEF WorkSet
<1>2. x \in MemberSet(C) => x \in MemberSet(C \cup D)
  BY DEF MemberSet
<1>3. x \in RunSet(C) => x \in RunSet(C \cup D)
  BY DEF RunSet
<1>4. x \in OpenSet(C) => x \in OpenSet(C \cup D)
  BY DEF OpenSet
<1> QED BY <1>1, <1>2, <1>3, <1>4

\* A request keeps the revisions of a row ordered.
LEMMA RowRequested ==
  ASSUME NEW w, NEW n \in Nat, WorkRow(w, n), NEW k \in Nat, n < k, NEW cut,
         NEW z \in Nat, k <= z
  PROVE  WorkRow(Requested(w, k, cut), z)
<1> DEFINE C == {w.reqCut, w.actCut, w.actRun, w.cursor, w.lease}
           D == C \cup {cut, 0, None}
           v == Requested(w, k, cut)
<1>1. w \in WorkSet(D)
  <2>1. w \in WorkSet(C)
    BY DEF WorkRow
  <2> HIDE DEF C
  <2> QED BY <2>1, MoreColumns
<1>2. cut \in D /\ 0 \in D /\ None \in D
  OBVIOUS
<1> HIDE DEF C, D
<1>3. CASE w.status \in {"RUNNING", "RETRY"} /\ w.act # 0
  <2>1. v = [w EXCEPT !.req = k, !.reqCut = cut]
    BY <1>3 DEF Requested
  <2>2. v \in WorkSet(D) /\ v.act = w.act /\ v.req = k /\ v.live = w.live /\ v.status = w.status
    BY <1>1, <1>2, <2>1 DEF WorkSet
  <2> HIDE DEF v
  <2>3. v.act <= v.req /\ v.req <= z
    BY <1>1, <2>2 DEF WorkRow, WorkSet
  <2>4. v.live => v.status = "RUNNING"
    BY <2>2, Zenon DEF WorkRow
  <2>5. WorkRow(v, z)
    BY <2>2, <2>3, <2>4, AnyColumns DEF WorkRow
  <2> QED BY <2>5 DEF v
<1>4. CASE ~(w.status \in {"RUNNING", "RETRY"} /\ w.act # 0)
  <2>1. v = [status |-> "PENDING", req |-> k, reqCut |-> cut, act |-> 0, actCut |-> 0,
             actRun |-> 0, cursor |-> 0, att |-> 0, lease |-> None, live |-> FALSE]
    BY <1>4 DEF Requested, NoWork
  <2>2. 0 \in 0..MaxAttempts
    BY ProjectionAssumption
  <2>3. v \in WorkSet(D) /\ v.act = 0 /\ v.req = k /\ v.live = FALSE
    BY <1>2, <2>1, <2>2 DEF WorkSet
  <2> HIDE DEF v
  <2>4. v.act <= v.req /\ v.req <= z
    BY <2>3
  <2>5. ~v.live
    BY <2>3, Zenon
  <2>6. WorkRow(v, z)
    BY <2>3, <2>4, <2>5, AnyColumns DEF WorkRow
  <2> QED BY <2>6 DEF v
<1> QED BY <1>3, <1>4

\* So does a retirement, and a row keeps them when the sequence moves on.
LEMMA RowRetired ==
  ASSUME NEW w, NEW n \in Nat, WorkRow(w, n), NEW z \in Nat, n <= z
  PROVE  WorkRow(Retired(w), z) /\ WorkRow(w, z)
<1>1. WorkRow(w, z)
  BY DEF WorkRow, WorkSet
<1> DEFINE C == {w.reqCut, w.actCut, w.actRun, w.cursor, w.lease}
           D == C \cup {0}
           v == Retired(w)
<1>2. w \in WorkSet(D)
  <2>1. w \in WorkSet(C)
    BY DEF WorkRow
  <2> HIDE DEF C
  <2> QED BY <2>1, MoreColumns
<1>3. 0 \in D
  OBVIOUS
<1> HIDE DEF C, D
<1>4. CASE w.status \in {"PENDING", "RETRY", "FAILED"}
  <2>1. v = [w EXCEPT !.status = "IDLE", !.act = 0, !.actCut = 0, !.actRun = 0, !.cursor = 0]
    BY <1>4 DEF Retired
  <2>2. v \in WorkSet(D) /\ v.act = 0 /\ v.req = w.req /\ v.live = w.live
    <3>1. 0 \in Nat
      OBVIOUS
    <3>2. v \in WorkSet(D)
      BY <1>2, <1>3, <2>1, <3>1, Zenon DEF WorkSet
    <3>3. v.act = 0 /\ v.req = w.req /\ v.live = w.live
      BY <1>2, <2>1, Zenon DEF WorkSet
    <3> QED BY <3>2, <3>3
  <2> HIDE DEF v
  <2>3. v.act <= v.req /\ v.req <= z
    BY <1>2, <2>2 DEF WorkRow, WorkSet
  <2>4. ~v.live
    BY <1>4, <2>2, Zenon DEF WorkRow
  <2>5. WorkRow(v, z)
    BY <2>2, <2>3, <2>4, AnyColumns DEF WorkRow
  <2> QED BY <1>1, <2>5 DEF v
<1>5. CASE w.status \notin {"PENDING", "RETRY", "FAILED"}
  BY <1>1, <1>5 DEF Retired
<1> QED BY <1>1, <1>4, <1>5

\* The upsert of a set of targets numbers them with new revisions.
LEMMA UpsertKeeps ==
  ASSUME QueueInv, NEW sources, NEW targets, targets \subseteq Identity, NEW cut,
         work' = Upserted(sources, targets, cut), rev' = rev + Cardinality(targets)
  PROVE  QueueInv' /\ rev <= rev'
<1>1. IsFiniteSet(targets) /\ Cardinality(targets) \in Nat
  BY ResolutionAssumption, FS_Subset, FS_CardinalityType
<1>2. rev \in Nat /\ rev' \in Nat /\ rev <= rev'
  BY <1>1 DEF QueueInv
<1>3. DOMAIN work' = Identity
  BY DEF Upserted
<1>4. ASSUME NEW i \in Identity
      PROVE  WorkRow(work'[i], rev')
  <2> DEFINE below == {j \in targets : j <= i}
             k == rev + Cardinality(below)
  <2>1. WorkRow(work[i], rev)
    BY DEF QueueInv
  <2>2. CASE i \in targets
    <3>1. IsFiniteSet(below) /\ Cardinality(below) <= Cardinality(targets)
      <4>1. below \subseteq targets
        OBVIOUS
      <4> HIDE DEF below
      <4> QED BY <1>1, <4>1, FS_Subset
    <3>2. Cardinality(below) \in Nat /\ Cardinality(below) # 0
      <4>1. i \in below
        BY <2>2, ResolutionAssumption
      <4> HIDE DEF below
      <4> QED BY <3>1, <4>1, FS_CardinalityType, FS_EmptySet
    <3>3. k \in Nat /\ rev < k /\ k <= rev'
      BY <1>1, <1>2, <3>1, <3>2
    <3>4. work'[i] = Requested(work[i], k, cut)
      BY <2>2 DEF Upserted
    <3> HIDE DEF k
    <3> QED BY <1>2, <2>1, <3>3, <3>4, RowRequested
  <2>3. CASE i \notin targets
    <3>1. work'[i] \in {Retired(work[i]), work[i]}
      BY <2>3 DEF Upserted
    <3> QED BY <1>2, <2>1, <3>1, RowRetired
  <2> QED BY <2>2, <2>3
<1> QED BY <1>2, <1>3, <1>4 DEF QueueInv

\* A note does not disturb an open statement.
LEMMA NotedKeeps ==
  ASSUME OpenInv, NEW K
  PROVE  /\ DOMAIN Noted(K) = Actor
         /\ \A r \in Actor : Noted(K)[r] # None => OpenRow(Noted(K)[r])
<1>1. SUFFICES ASSUME NEW r \in Actor, Noted(K)[r] # None
               PROVE  OpenRow(Noted(K)[r])
  BY DEF Noted
<1>2. OpenRow(open[r])
  BY <1>1 DEF Noted, OpenInv
<1>3. Noted(K)[r] = [open[r] EXCEPT !.beside = @ \cup K]
  BY <1>1 DEF Noted
<1> DEFINE b == open[r]
           C == {b.gen, b.result, b.beside, b.sources, b.writes}
           D == C \cup {b.beside \cup K}
           c == Noted(K)[r]
<1>4. b \in OpenSet(D) /\ b.beside \cup K \in D
  <2>1. b \in OpenSet(C)
    BY <1>2 DEF OpenRow
  <2> HIDE DEF C
  <2> QED BY <2>1, MoreColumns
<1> HIDE DEF C, D
<1>5. c \in OpenSet(D) /\ c.result = b.result
  BY <1>3, <1>4 DEF OpenSet
<1> HIDE DEF c
<1> QED BY <1>2, <1>5, AnyColumns DEF OpenRow, c

\* Members keep their rows when revisions only grow.
LEMMA MembersKept ==
  ASSUME MemberInv, NEW n \in Nat, rev \in Nat, rev <= n
  PROVE  \A m \in Member : MemberRow(member[m], n)
BY DEF MemberInv, MemberRow, MemberSet

-----------------------------------------------------------------------------
(***************************************************************************)
(* What the ticks and the faults write to a row of work.                   *)
(***************************************************************************)
\* A claim takes the request over, or resumes what was active.
LEMMA RowClaimed ==
  ASSUME NEW w, NEW n \in Nat, WorkRow(w, n), NEW cut, NEW run, NEW p,
         NEW v,
         v = [w EXCEPT !.status = "RUNNING", !.act = IF w.act # 0 THEN w.act ELSE w.req,
                       !.actCut = cut, !.actRun = run, !.att = AtMost(w.att),
                       !.lease = p, !.live = TRUE]
  PROVE  WorkRow(v, n)
<1> DEFINE C == {w.reqCut, w.actCut, w.actRun, w.cursor, w.lease}
           D == C \cup {cut, run, p}
           a == IF w.act # 0 THEN w.act ELSE w.req
<1>1. w \in WorkSet(D)
  <2>1. w \in WorkSet(C)
    BY DEF WorkRow
  <2> HIDE DEF C
  <2> QED BY <2>1, MoreColumns
<1>2. cut \in D /\ run \in D /\ p \in D
  OBVIOUS
<1> HIDE DEF C, D
<1>3. w.req \in Nat /\ w.act \in Nat /\ w.act <= w.req /\ w.req <= n
  BY <1>1 DEF WorkRow, WorkSet
<1>4. a \in Nat /\ a <= w.req
  BY <1>3
<1>5. AtMost(w.att) \in 0..MaxAttempts
  BY <1>1, ProjectionAssumption DEF WorkSet, AtMost
<1>6. v = [w EXCEPT !.status = "RUNNING", !.act = a, !.actCut = cut, !.actRun = run,
                    !.att = AtMost(w.att), !.lease = p, !.live = TRUE]
  OBVIOUS
<1> HIDE DEF a
<1>7. v \in WorkSet(D)
  BY <1>1, <1>2, <1>4, <1>5, <1>6, ZenonT(60) DEF WorkSet
<1>8. v.act = a /\ v.req = w.req /\ v.status = "RUNNING"
  BY <1>1, <1>6, Zenon DEF WorkSet
<1>9. v.act <= v.req /\ v.req <= n
  BY <1>3, <1>4, <1>8
<1> QED BY ONLY <1>7, <1>8, <1>9, AnyColumns DEF WorkRow

\* A page that is not the last moves the cursor.
LEMMA RowMoved ==
  ASSUME NEW w, NEW n \in Nat, WorkRow(w, n), NEW c, NEW v, v = [w EXCEPT !.cursor = c]
  PROVE  WorkRow(v, n)
<1> DEFINE C == {w.reqCut, w.actCut, w.actRun, w.cursor, w.lease}
           D == C \cup {c}
<1>1. w \in WorkSet(D)
  <2>1. w \in WorkSet(C)
    BY DEF WorkRow
  <2> HIDE DEF C
  <2> QED BY <2>1, MoreColumns
<1>2. c \in D
  OBVIOUS
<1> HIDE DEF C, D
<1>3. v \in WorkSet(D)
  BY <1>1, <1>2, Zenon DEF WorkSet
<1>4. v.act = w.act /\ v.req = w.req /\ v.status = w.status /\ v.live = w.live
  BY <1>1, Zenon DEF WorkSet
<1>5. v.act <= v.req /\ v.req <= n
  BY <1>4 DEF WorkRow
<1>6. v.live => v.status = "RUNNING"
  BY <1>4, Zenon DEF WorkRow
<1> QED BY ONLY <1>3, <1>5, <1>6, AnyColumns DEF WorkRow

\* The work of the revision is done.
LEMMA RowFinished ==
  ASSUME NEW w, NEW n \in Nat, WorkRow(w, n), NEW v, v = Finished(w)
  PROVE  WorkRow(v, n)
<1> DEFINE D == {w.reqCut, 0, None}
<1>1. w.reqCut \in D /\ 0 \in D /\ None \in D
  OBVIOUS
<1>2. w.req \in Nat /\ w.req <= n
  BY DEF WorkRow, WorkSet
<1>3. 0 \in 0..MaxAttempts
  BY ProjectionAssumption
<1> HIDE DEF D
<1>4. PICK s \in {"PENDING", "IDLE"} :
        v = [status |-> s, req |-> w.req, reqCut |-> w.reqCut, act |-> 0, actCut |-> 0,
             actRun |-> 0, cursor |-> 0, att |-> 0, lease |-> None, live |-> FALSE]
  BY DEF Finished, NoWork
<1>5. v \in WorkSet(D) /\ v.act = 0 /\ v.req = w.req /\ v.live = FALSE
  BY <1>1, <1>2, <1>3, <1>4 DEF WorkSet
<1>6. v.act <= v.req /\ v.req <= n
  BY <1>2, <1>5
<1>7. ~v.live
  BY <1>5, Zenon
<1> QED BY ONLY <1>5, <1>6, <1>7, AnyColumns DEF WorkRow

\* The lease is given back, with any status.
LEMMA RowReleased ==
  ASSUME NEW w, NEW n \in Nat, WorkRow(w, n), NEW s \in {"PENDING", "RETRY", "FAILED"}, NEW v,
         v = [w EXCEPT !.status = s, !.lease = None, !.live = FALSE]
  PROVE  WorkRow(v, n)
<1> DEFINE C == {w.reqCut, w.actCut, w.actRun, w.cursor, w.lease}
           D == C \cup {None}
<1>1. w \in WorkSet(D)
  <2>1. w \in WorkSet(C)
    BY DEF WorkRow
  <2> HIDE DEF C
  <2> QED BY <2>1, MoreColumns
<1>2. None \in D
  OBVIOUS
<1> HIDE DEF C, D
<1>3. v \in WorkSet(D)
  BY <1>1, <1>2, Zenon DEF WorkSet
<1>4. v.act = w.act /\ v.req = w.req /\ ~v.live
  BY <1>1, Zenon DEF WorkSet
<1>5. v.act <= v.req /\ v.req <= n
  BY <1>4 DEF WorkRow
<1> QED BY ONLY <1>3, <1>4, <1>5, AnyColumns DEF WorkRow

\* The lease runs out.
LEMMA RowExpired ==
  ASSUME NEW w, NEW n \in Nat, WorkRow(w, n), NEW v, v = Expired(w)
  PROVE  WorkRow(v, n)
<1> DEFINE C == {w.reqCut, w.actCut, w.actRun, w.cursor, w.lease}
<1>1. w \in WorkSet(C) /\ v = [w EXCEPT !.live = FALSE]
  BY DEF WorkRow, Expired
<1> HIDE DEF C
<1>2. v \in WorkSet(C)
  BY <1>1, Zenon DEF WorkSet
<1>3. v.act = w.act /\ v.req = w.req /\ ~v.live
  BY <1>1, Zenon DEF WorkSet
<1>4. v.act <= v.req /\ v.req <= n
  BY <1>3 DEF WorkRow
<1> QED BY ONLY <1>2, <1>3, <1>4, AnyColumns DEF WorkRow

\* The change of one row keeps the queue.
LEMMA QueueKept ==
  ASSUME QueueInv, NEW i, NEW v, i \in Identity => WorkRow(v, rev),
         work' = [work EXCEPT ![i] = v], rev' = rev
  PROVE  QueueInv'
BY DEF QueueInv

-----------------------------------------------------------------------------
(***************************************************************************)
(* What the resolution tick and the faults write to a run.                 *)
(***************************************************************************)
\* A claim, a failure and an expiry complete nothing.
LEMMA RunMoved ==
  ASSUME NEW x, RunRow(x), NEW s, s # "COMPLETED", NEW a, NEW l, NEW b,
         NEW v,
         \/ v = [x EXCEPT !.status = s, !.att = a, !.lease = l, !.live = b]
         \/ v = [x EXCEPT !.status = s, !.lease = l, !.live = b]
         \/ v = [x EXCEPT !.live = b]
  PROVE  RunRow(v)
<1> DEFINE C == {x.status, x.att, x.lease, x.live, x.result}
           D == C \cup {s, a, l, b}
<1>1. x \in RunSet(D)
  <2>1. x \in RunSet(C)
    BY DEF RunRow
  <2> HIDE DEF C
  <2> QED BY <2>1, MoreColumns
<1>2. s \in D /\ a \in D /\ l \in D /\ b \in D
  OBVIOUS
<1> HIDE DEF C, D
<1>3. v \in RunSet(D)
  BY <1>1, <1>2, Zenon DEF RunSet
<1>4. v.result = x.result /\ (v.status = s \/ v.status = x.status)
  BY <1>1, Zenon DEF RunSet
<1> QED BY <1>3, <1>4, AnyColumns DEF RunRow

\* A commit completes a run with a sound result.
LEMMA RunCompleted ==
  ASSUME NEW x, RunRow(x), NEW t \in Nat, NEW result, Sound(result),
         NEW v,
         v = [x EXCEPT !.status = "COMPLETED", !.lease = None, !.live = FALSE,
                       !.at = t, !.result = result]
  PROVE  RunRow(v)
<1> DEFINE C == {x.status, x.att, x.lease, x.live, x.result}
           D == C \cup {"COMPLETED", None, FALSE, result}
<1>1. x \in RunSet(D)
  <2>1. x \in RunSet(C)
    BY DEF RunRow
  <2> HIDE DEF C
  <2> QED BY <2>1, MoreColumns
<1>2. "COMPLETED" \in D /\ None \in D /\ FALSE \in D /\ result \in D
  BY Zenon
<1> HIDE DEF C, D
<1>3. v \in RunSet(D)
  BY <1>1, <1>2, Zenon DEF RunSet
<1>4. v.result = result
  BY <1>1, Zenon DEF RunSet
<1> QED BY <1>3, <1>4, AnyColumns DEF RunRow

\* The change of one row keeps the runs, and their number.
LEMMA RunsKept ==
  ASSUME RunInv, GenInv, NEW g, NEW v, g \in 1..Len(runs) => RunRow(v),
         runs' = [runs EXCEPT ![g] = v], gens' = gens
  PROVE  RunInv' /\ Len(runs') = Len(runs)
<1>1. Len(runs) \in Nat /\ DOMAIN runs = 1..Len(runs)
  BY DEF RunInv
<1>2. runs' \in [1..Len(runs) -> Elements(runs')]
  BY <1>1 DEF Elements
<1>3. runs' \in Seq(Elements(runs')) /\ Len(runs') = Len(runs)
  <2> DEFINE S == Elements(runs')
  <2> HIDE DEF S
  <2>1. runs' \in [1..Len(runs) -> S]
    BY <1>2 DEF S
  <2>2. runs' \in Seq(S)
    BY <1>1, <2>1, SeqDef
  <2>3. DOMAIN runs' = 1..Len(runs') /\ Len(runs') \in Nat
    BY <2>2, LenProperties
  <2>4. Len(runs') = Len(runs)
    BY <1>1, <2>1, <2>3
  <2> QED BY <2>2, <2>4 DEF S
<1>4. \A h \in 1..Len(runs) : RunRow(runs'[h])
  BY <1>1 DEF RunInv
<1> QED BY <1>3, <1>4 DEF RunInv

-----------------------------------------------------------------------------
(***************************************************************************)
(* The environment, the resolution tick, the projection tick and the       *)
(* faults keep the invariant.                                              *)
(***************************************************************************)
\* One event keeps the bound.
LEMMA HappensKeeps ==
  ASSUME ClockInv, Happens
  PROVE  events' \in 0..MaxEvents
BY ProjectionAssumption DEF ClockInv, Happens

\* A request begins: its targets are identities and the result it has read is sound.
LEMMA RequestKeeps ==
  ASSUME Inv, NEW a \in Actor, NEW I, I \subseteq Identity, NEW time \in Nat, NEW w,
         Opens(a, I, time, w), now' \in Nat, events' \in 0..MaxEvents,
         UNCHANGED <<gens, runs, work, rev, member, procs, gap>>
  PROVE  Inv'
<1> DEFINE R == Latest
           T == CanonicalsIn(R, I)
           b == [gen |-> 0, result |-> R, at |-> time, beside |-> {},
                 sources |-> I, targets |-> T, writes |-> w]
           D == {0, R, {}, I, w}
<1>1. Sound(R)
  BY LatestSound DEF Inv
<1>2. T \subseteq Identity
  BY <1>1 DEF Sound, CanonicalsIn
<1>3. 0 \in D /\ R \in D /\ {} \in D /\ I \in D /\ w \in D
  OBVIOUS
<1>4. open' = [open EXCEPT ![a] = b]
  BY DEF Opens
<1> HIDE DEF R, T, D
<1>5. b \in OpenSet(D) /\ b.result = R
  BY <1>2, <1>3 DEF OpenSet
<1> HIDE DEF b
<1>6. OpenRow(b)
  BY <1>1, <1>5, AnyColumns DEF OpenRow
<1>7. OpenInv'
  BY <1>4, <1>6 DEF Inv, OpenInv
<1> QED BY <1>7 DEF Inv, ClockInv, QueueInv, MemberInv, GenInv, RunInv, ClaimInv, JobInv, procs

\* A member's row is inserted, changed, observed or removed.
LEMMA MemberStored ==
  ASSUME NEW x, NEW n \in Nat, MemberRow(x, n), NEW y, NEW name,
         \/ y = [x EXCEPT !.present = TRUE, !.known = TRUE, !.group = name]
         \/ y = Absent
  PROVE  MemberRow(y, n)
<1>1. CASE y = Absent
  <2> DEFINE D == {None, NoShown}
  <2>1. None \in D /\ NoShown \in D
    OBVIOUS
  <2> HIDE DEF D
  <2>2. Absent \in MemberSet(D) /\ Absent.rev = 0
    BY <2>1 DEF Absent, MemberSet
  <2>3. Absent.rev <= n /\ ~(Absent.rev > 0)
    BY <2>2
  <2> QED BY <1>1, <2>2, <2>3, AnyColumns DEF MemberRow
<1>2. CASE y = [x EXCEPT !.present = TRUE, !.known = TRUE, !.group = name]
  <2> DEFINE C == {x.group, x.shown}
             D == C \cup {name}
  <2>1. x \in MemberSet(D) /\ name \in D
    <3>1. x \in MemberSet(C)
      BY DEF MemberRow
    <3> HIDE DEF C
    <3> QED BY <3>1, MoreColumns
  <2> HIDE DEF C, D
  <2>2. y \in MemberSet(D)
    BY <1>2, <2>1, Zenon DEF MemberSet
  <2>3. y.rev = x.rev /\ y.known
    BY <1>2, <2>1, Zenon DEF MemberSet
  <2>4. y.rev <= n
    BY <2>3 DEF MemberRow
  <2> QED BY <2>2, <2>3, <2>4, AnyColumns DEF MemberRow
<1> QED BY <1>1, <1>2

\* The commit of a request b of actor a that stores names of news: the kin K of what it
\* touches, and late, those of them that it may have missed.
NewsOf(b) == {o.id : o \in b.writes.names}
Touched(b) == b.sources \cup b.targets
KinTouched(b) == Kin(Latest, Touched(b)) \cup Kin(ResultOf(RunAt(b.at)), Touched(b))
LateIn(b, K) == {i \in K : Kin(Latest, {i}) \cap b.beside # {}}
Stores(a, b, news, K, late) ==
  /\ obs' = obs \cup b.writes.names
  /\ member' = [m \in Member |->
       IF m \in b.writes.rows
       THEN [member[m] EXCEPT !.present = TRUE, !.known = TRUE, !.group = b.writes.group]
       ELSE member[m]]
  /\ work' = Upserted(b.sources, b.targets, b.at)
  /\ rev' = rev + Cardinality(b.targets)
  /\ open' = [Noted(news) EXCEPT ![a] = None]
  /\ gap' = IF \E r \in Resolver : open[r] # None
            THEN gap \cup late \cup Kin(Latest, news)
            ELSE (gap \ K) \cup late
  /\ UNCHANGED <<now, gens, runs, procs, events>>

\* What RequestCommit does to the tables of the invariants.
LEMMA RequestStores ==
  ASSUME NEW a, RequestCommit(a)
  PROVE  /\ open[a] # None
         /\ Stores(a, open[a], NewsOf(open[a]), KinTouched(open[a]), LateIn(open[a], KinTouched(open[a])))
<1>1. PICK b \in {open[a]} \ {None} : Stores(a, b, NewsOf(b), KinTouched(b), LateIn(b, KinTouched(b)))
  BY DEF RequestCommit, Stores, NewsOf, KinTouched, LateIn, Touched
<1>2. b = open[a] /\ b # None
  OBVIOUS
<1> QED BY <1>1, <1>2

\* A request commits: revisions are drawn for its targets, and its rows are members'.
LEMMA StoredKeeps ==
  ASSUME Inv, NEW a \in Actor, RequestCommit(a)
  PROVE  Inv'
<1> DEFINE b == open[a]
           w == b.writes
           news == NewsOf(b)
           K == KinTouched(b)
           late == LateIn(b, K)
<1>1. /\ b # None
      /\ work' = Upserted(b.sources, b.targets, b.at) /\ rev' = rev + Cardinality(b.targets)
      /\ member' = [m \in Member |->
           IF m \in w.rows
           THEN [member[m] EXCEPT !.present = TRUE, !.known = TRUE, !.group = w.group]
           ELSE member[m]]
      /\ open' = [Noted(news) EXCEPT ![a] = None]
      /\ gap' = IF \E r \in Resolver : open[r] # None
                THEN gap \cup late \cup Kin(Latest, news) ELSE (gap \ K) \cup late
      /\ late \subseteq Identity /\ K \subseteq Identity
      /\ UNCHANGED <<now, gens, runs, procs, events>>
  <2>1. late \subseteq Identity /\ K \subseteq Identity
    BY DEF Kin, KinTouched, LateIn
  <2> QED BY <2>1, RequestStores DEF Stores
<1> HIDE DEF news, K, late
<1> HIDE DEF w
<1>2. b.targets \subseteq Identity
  BY <1>1 DEF Inv, OpenInv, OpenRow, OpenSet
<1>3. QueueInv' /\ rev <= rev'
  <2>1. QueueInv
    BY DEF Inv
  <2> HIDE DEF b
  <2> QED BY ONLY <1>1, <1>2, <2>1, UpsertKeeps
<1>4. rev \in Nat /\ rev' \in Nat
  BY <1>3 DEF Inv, QueueInv
<1>5. OpenInv'
  <2>1. /\ DOMAIN Noted(news) = Actor
        /\ \A q \in Actor : Noted(news)[q] # None => OpenRow(Noted(news)[q])
    BY NotedKeeps DEF Inv
  <2> HIDE DEF b
  <2> QED BY <1>1, <2>1 DEF OpenInv
<1>6. gap' \subseteq Identity
  <2>1. Kin(Latest, news) \subseteq Identity
    BY DEF Kin
  <2> HIDE DEF b
  <2> QED BY <1>1, <2>1 DEF Inv, ClockInv
<1>7. MemberInv'
  <2>1. \A m \in Member : MemberRow(member[m], rev')
    BY <1>3, <1>4, MembersKept DEF Inv
  <2> DEFINE stored(m) == [member[m] EXCEPT !.present = TRUE, !.known = TRUE, !.group = w.group]
  <2>2. ASSUME NEW m \in Member
        PROVE  MemberRow(stored(m), rev')
    BY <1>4, <2>1, MemberStored
  <2>3. \A m \in Member : member'[m] \in {stored(m), member[m]}
    BY <1>1
  <2>4. DOMAIN member' = Member
    BY <1>1
  <2> HIDE DEF stored, b
  <2> QED BY <2>1, <2>2, <2>3, <2>4 DEF MemberInv
<1> HIDE DEF b
<1> QED BY <1>1, <1>3, <1>5, <1>6, <1>7 DEF Inv, ClockInv, GenInv, RunInv, ClaimInv, JobInv, procs

\* Messages, memberships and snapshots.
LEMMA EvidenceKeeps ==
  ASSUME Inv,
         \/ \E i \in Sender, name \in PushName, src \in {1, now + 1} :
              ObserveMessageSender(i, name, src)
         \/ \E m \in Member, name \in GroupName \cup {None} : SeedGroupMember(m, name)
         \/ \E m \in Member : RemoveGroupMember(m)
         \/ \E c \in Snapshot : PublishSnapshot(c)
         \/ \E o \in obs : DeleteRedundantContactObservation(o)
  PROVE  Inv'
<1>0. now \in Nat /\ now + 1 \in Nat /\ rev \in Nat
  BY DEF Inv, ClockInv, QueueInv
<1>1. ASSUME NEW i \in Sender, NEW name, NEW src, ObserveMessageSender(i, name, src)
      PROVE  Inv'
  <2>1. i \in Identity /\ {i} \subseteq Identity
    BY ProjectionAssumption DEF Exact
  <2>2. now' \in Nat /\ events' \in 0..MaxEvents
    BY <1>0, <1>1, HappensKeeps DEF ObserveMessageSender, Inv
  <2>3. UNCHANGED <<gens, runs, work, rev, member, procs, gap>>
    BY <1>1 DEF ObserveMessageSender
  <2>4. ASSUME NEW w, Opens(Observer, {i}, now + 1, w)
        PROVE  Inv'
    BY <1>0, <2>1, <2>2, <2>3, <2>4, RequestKeeps DEF Actor, Requester
  <2>5. CASE UNCHANGED open
    BY <2>2, <2>3, <2>5 DEF Inv, ClockInv, QueueInv, MemberInv, GenInv, RunInv, ClaimInv,
       OpenInv, JobInv, procs
  <2> QED BY <1>1, <2>4, <2>5 DEF ObserveMessageSender
<1>2. ASSUME NEW m \in Member, NEW name, SeedGroupMember(m, name)
      PROVE  Inv'
  <2>1. IdentityOf[m] \in Identity /\ {IdentityOf[m]} \subseteq Identity
    BY ProjectionAssumption DEF Exact
  <2>2. now' \in Nat /\ events' \in 0..MaxEvents
    BY <1>0, <1>2, HappensKeeps DEF SeedGroupMember, Inv
  <2>3. UNCHANGED <<gens, runs, work, rev, member, procs, gap>>
    BY <1>2 DEF SeedGroupMember, evidence
  <2>4. \E w : Opens(Observer, {IdentityOf[m]}, now + 1, w)
    BY <1>2 DEF SeedGroupMember
  <2> QED BY <1>0, <2>1, <2>2, <2>3, <2>4, RequestKeeps DEF Actor, Requester
<1>3. ASSUME NEW m \in Member, RemoveGroupMember(m)
      PROVE  Inv'
  <2>1. now' \in Nat /\ events' \in 0..MaxEvents
    BY <1>0, <1>3, HappensKeeps DEF RemoveGroupMember, Inv
  <2>2. MemberRow(Absent, rev)
    BY <1>0, MemberStored DEF Inv, MemberInv
  <2>3. member' = [member EXCEPT ![m] = Absent]
        /\ UNCHANGED <<gens, runs, work, rev, procs, open, gap>>
    BY <1>3 DEF RemoveGroupMember, evidence
  <2>4. MemberInv'
    BY <2>2, <2>3 DEF Inv, MemberInv
  <2> QED BY <2>1, <2>3, <2>4 DEF Inv, ClockInv, QueueInv, GenInv, RunInv, ClaimInv,
             OpenInv, JobInv, procs
<1>4. ASSUME NEW c \in Snapshot, PublishSnapshot(c)
      PROVE  Inv'
  <2>1. now' \in Nat /\ events' \in 0..MaxEvents
    BY <1>0, <1>4, HappensKeeps DEF PublishSnapshot, Inv
  <2>2. gap' \subseteq Identity
    BY <1>4 DEF PublishSnapshot, Kin, Inv, ClockInv
  <2>3. OpenInv'
    BY <1>4, NotedKeeps DEF PublishSnapshot, Inv, OpenInv
  <2>4. UNCHANGED <<runs, work, rev, member, procs>>
    BY <1>4 DEF PublishSnapshot
  <2>5. GenInv' /\ Len(gens') = Len(gens) + 1
    <3>1. gens' = Append(gens, [at |-> now + 1, content |-> c])
      BY <1>4 DEF PublishSnapshot
    <3>2. [at |-> now + 1, content |-> c] \in [at : Nat, content : Snapshot]
      BY <1>0
    <3>3. gens \in Seq([at : Nat, content : Snapshot])
      BY DEF Inv, GenInv
    <3> QED BY <3>1, <3>2, <3>3, AppendProperties DEF GenInv
  <2>6. RunInv'
    <3>1. Len(runs) \in Nat /\ Len(gens) \in Nat /\ Len(runs) <= Len(gens)
      BY DEF Inv, RunInv, GenInv
    <3>2. Len(runs) <= Len(gens')
      BY <2>5, <3>1
    <3> QED BY <2>4, <3>2 DEF Inv, RunInv
  <2> QED BY <2>1, <2>2, <2>3, <2>4, <2>5, <2>6 DEF Inv, ClockInv, QueueInv, MemberInv,
             ClaimInv, JobInv, procs
<1>5. ASSUME NEW o \in obs, DeleteRedundantContactObservation(o)
      PROVE  Inv'
  <2>1. OpenInv'
    BY <1>5, NotedKeeps DEF DeleteRedundantContactObservation, Inv, OpenInv
  <2> QED BY <1>5, <2>1 DEF DeleteRedundantContactObservation, Inv, ClockInv, QueueInv, MemberInv,
             GenInv, RunInv, ClaimInv, JobInv, procs
<1> QED BY <1>1, <1>2, <1>3, <1>4, <1>5

\* The tables that a step of the resolution tick leaves alone.
Elsewhere == <<gens, work, rev, member, job>>

\* A resolution begins: what it is about to store is sound, and what it asks for are identities.
LEMMA BeginKeeps ==
  ASSUME Inv, NEW r \in Resolver, ResolveBegin(r)
  PROVE  Inv'
<1> DEFINE g == claim[r]
<1>1. /\ now \in Nat /\ now + 1 \in Nat /\ now' = now + 1
      /\ UNCHANGED <<gens, runs, work, rev, member, procs, gap, events>>
  BY DEF ResolveBegin, Inv, ClockInv, evidence
<1>2. gens[g].content \in Snapshot
  <2>1. g \in 1..Len(gens)
    BY DEF ResolveBegin, OwnsRun, Inv, ClaimInv, RunInv, GenInv
  <2>2. gens[g] \in [at : Nat, content : Snapshot]
    <3> HIDE DEF g
    <3> QED BY <2>1, ElementOfSeq DEF Inv, GenInv
  <2> QED BY <2>2
<1> HIDE DEF g
<1> DEFINE Opened(result, affected) ==
             open' = [open EXCEPT ![r] =
               [gen |-> claim[r], result |-> result, at |-> now + 1, beside |-> {},
                sources |-> affected, targets |-> CanonicalsIn(result, affected),
                writes |-> NoWrites]]
           Stored(nodes, names, conflicted, component) ==
             \E clusters \in {Clusters(component, names)} :
             \E result \in {[assign |-> Assignments(component, clusters, conflicted),
                             clusters |-> clusters]} :
             \E affected \in {AffectedBy(Latest, result)} : Opened(result, affected)
<1>3. PICK E, nodes, names, conflicted, eligible, component :
        /\ E = EvidenceOf(g) /\ nodes = Nodes(g)
        /\ conflicted = Conflicted(E) /\ eligible = Eligible(E, conflicted)
        /\ component = ComponentOf(eligible, nodes)
        /\ Stored(nodes, names, conflicted, component)
  <2> HIDE DEF Opened
  <2>1. PICK E \in {EvidenceOf(claim[r])}, nodes \in {Nodes(claim[r])},
           names \in {ContactNames(claim[r])}, previous \in {Latest} :
     \E conflicted \in {Conflicted(E)} :
     \E eligible \in {Eligible(E, conflicted)} :
     \E closed \in {Closed(eligible)} :
     \E classes \in {Classes(nodes, closed)} :
     \E component \in {Components(nodes, classes)} :
     \E clusters \in {Clusters(component, names)} :
     \E result \in {[assign |-> Assignments(component, clusters, conflicted),
                     clusters |-> clusters]} :
     \E affected \in {AffectedBy(previous, result)} : Opened(result, affected)
    BY DEF ResolveBegin, Opened
  <2> HIDE DEF Stored
  <2>2. PICK conflicted, eligible, closed, classes, component :
          /\ conflicted = Conflicted(E) /\ eligible = Eligible(E, conflicted)
          /\ closed = Closed(eligible) /\ classes = Classes(nodes, closed)
          /\ component = Components(nodes, classes)
          /\ Stored(nodes, names, conflicted, component)
    BY <2>1 DEF Stored
  <2> WITNESS E, nodes, names, conflicted, eligible, component
  <2> QED BY <2>1, <2>2 DEF g, ComponentOf
<1>4. PICK clusters, result, affected :
        /\ clusters = Clusters(component, names)
        /\ result = [assign |-> Assignments(component, clusters, conflicted),
                     clusters |-> clusters]
        /\ affected = AffectedBy(Latest, result)
        /\ Opened(result, affected)
  <2> HIDE DEF Opened
  <2> QED BY <1>3
<1>5. Sound(result)
  <2>1. Evident(E)
    BY <1>2, <1>3, EvidenceShape
  <2>2. nodes \subseteq Identity
    BY <1>3 DEF Nodes
  <2>3. /\ conflicted = Conflicted(E) /\ eligible = Eligible(E, conflicted)
        /\ component = ComponentOf(eligible, nodes)
    BY <1>3
  <2> QED BY ONLY <1>4, <2>1, <2>2, <2>3, ResolutionSound
<1>6. affected \subseteq Identity
  BY <1>4, <1>5 DEF AffectedBy, Sound
<1> DEFINE T == CanonicalsIn(result, affected)
           b == [gen |-> g, result |-> result, at |-> now + 1, beside |-> {},
                 sources |-> affected, targets |-> T, writes |-> NoWrites]
           D == {g, result, {}, affected, NoWrites}
<1>7. T \subseteq Identity
  BY <1>5, <1>6 DEF Sound, CanonicalsIn
<1>8. g \in D /\ result \in D /\ {} \in D /\ affected \in D /\ NoWrites \in D
  OBVIOUS
<1>9. open' = [open EXCEPT ![r] = b]
  BY <1>4 DEF g
<1> HIDE DEF T, D
<1>10. b \in OpenSet(D) /\ b.result = result
  BY <1>1, <1>7, <1>8 DEF OpenSet
<1> HIDE DEF b
<1>11. OpenRow(b)
  BY <1>5, <1>10, AnyColumns DEF OpenRow
<1>12. OpenInv'
  BY <1>9, <1>11 DEF Inv, OpenInv, Actor
<1> QED BY <1>1, <1>12 DEF Inv, ClockInv, QueueInv, MemberInv, GenInv, RunInv, ClaimInv,
           JobInv, procs

\* A resolution commits.
LEMMA CommitKeeps ==
  ASSUME Inv, NEW r \in Resolver, ResolveCommit(r)
  PROVE  Inv'
<1> DEFINE b == open[r]
<1>1. /\ b # None
      /\ work' = Upserted(b.sources, b.targets, b.at) /\ rev' = rev + Cardinality(b.targets)
      /\ gap' = Covered(r)
      /\ open' = [Noted(Identity) EXCEPT ![r] = None]
      /\ claim' = [claim EXCEPT ![r] = 0]
      /\ UNCHANGED <<now, gens, member, job, events>>
  BY DEF ResolveCommit, evidence
<1> DEFINE x == runs[b.gen]
           v == [x EXCEPT !.status = "COMPLETED", !.lease = None, !.live = FALSE,
                          !.at = b.at, !.result = b.result]
<1>2. runs' = [runs EXCEPT ![b.gen] = v]
  BY DEF ResolveCommit
<1>3. b.targets \subseteq Identity /\ b.at \in Nat /\ Sound(b.result)
  BY <1>1 DEF Inv, OpenInv, OpenRow, OpenSet, Actor
<1>4. QueueInv' /\ rev <= rev'
  <2>1. QueueInv
    BY DEF Inv
  <2> HIDE DEF b
  <2> QED BY ONLY <1>1, <1>3, <2>1, UpsertKeeps
<1>5. OpenInv'
  <2>1. /\ DOMAIN Noted(Identity) = Actor
        /\ \A q \in Actor : Noted(Identity)[q] # None => OpenRow(Noted(Identity)[q])
    BY NotedKeeps DEF Inv
  <2> QED BY <1>1, <2>1 DEF OpenInv
<1>6. RunInv' /\ Len(runs') = Len(runs)
  <2>1. b.gen \in 1..Len(runs) => RunRow(v)
    <3>1. b.gen \in 1..Len(runs) => RunRow(x)
      BY DEF Inv, RunInv
    <3> HIDE DEF x, b
    <3> QED BY <1>3, <3>1, RunCompleted
  <2>2. RunInv /\ GenInv /\ gens' = gens
    BY <1>1 DEF Inv
  <2> HIDE DEF v, b
  <2> QED BY ONLY <1>2, <2>1, <2>2, RunsKept
<1>7. ClaimInv'
  <2>1. Len(runs) \in Nat
    BY DEF Inv, RunInv
  <2> QED BY <1>1, <1>6, <2>1 DEF Inv, ClaimInv
<1>8. gap' \subseteq Identity
  BY <1>1 DEF Covered, Kin, Inv, ClockInv
<1>9. MemberInv'
  <2>1. rev \in Nat /\ rev' \in Nat
    BY <1>4 DEF Inv, QueueInv
  <2>2. \A m \in Member : MemberRow(member[m], rev')
    BY <1>4, <2>1, MembersKept DEF Inv
  <2> QED BY <1>1, <2>2 DEF Inv, MemberInv
<1> QED BY <1>1, <1>4, <1>5, <1>6, <1>7, <1>8, <1>9 DEF Inv, ClockInv, GenInv, JobInv

\* The claim, the failure, the expiry and the loss of a run.
LEMMA RunKeeps ==
  ASSUME Inv, NEW r, NEW g,
         \/ g \in DOMAIN runs /\ ClaimRun(r, g)
         \/ ResolveFail(r) \/ CrashResolver(r)
         \/ g \in DOMAIN runs /\ ExpireRun(g)
  PROVE  Inv'
<1>1. events' \in 0..MaxEvents /\ UNCHANGED <<now, Elsewhere, gap>>
  BY HappensKeeps DEF ClaimRun, ResolveFail, CrashResolver, ExpireRun, Inv, ClockInv, Elsewhere,
     evidence, procs
<1>2. Len(runs) \in Nat /\ DOMAIN runs = 1..Len(runs) /\ RunInv /\ GenInv /\ gens' = gens
  BY <1>1 DEF Inv, RunInv, Elsewhere
<1>3. RunInv' /\ Len(runs') = Len(runs)
  <2>1. ASSUME NEW h, NEW v, h \in 1..Len(runs) => RunRow(v), runs' = [runs EXCEPT ![h] = v]
        PROVE  RunInv' /\ Len(runs') = Len(runs)
    BY ONLY <1>2, <2>1, RunsKept
  <2>2. CASE ClaimRun(r, g)
    <3> DEFINE x == runs[g]
               a == AtMost(x.att)
               v == [x EXCEPT !.status = "RUNNING", !.att = a, !.lease = r, !.live = TRUE]
    <3>1. runs' = [runs EXCEPT ![g] = v]
      BY <2>2 DEF ClaimRun
    <3>2. g \in 1..Len(runs) => RunRow(v)
      <4>1. g \in 1..Len(runs) => RunRow(x)
        BY <1>2 DEF RunInv
      <4> HIDE DEF x, a
      <4> QED BY <4>1, RunMoved
    <3> HIDE DEF v
    <3> QED BY <2>1, <3>1, <3>2
  <2>3. ASSUME NEW h, runs' = [runs EXCEPT ![h] = Failed(@)]
        PROVE  RunInv' /\ Len(runs') = Len(runs)
    <3> DEFINE x == runs[h]
               s == IF x.att >= MaxAttempts THEN "FAILED" ELSE "RETRY"
               v == [x EXCEPT !.status = s, !.lease = None, !.live = FALSE]
    <3>1. runs' = [runs EXCEPT ![h] = v]
      BY <2>3 DEF Failed
    <3>2. h \in 1..Len(runs) => RunRow(x)
      BY <1>2 DEF RunInv
    <3>3. s # "COMPLETED"
      OBVIOUS
    <3> HIDE DEF s, x
    <3>4. h \in 1..Len(runs) => RunRow(v)
      BY <3>2, <3>3, RunMoved
    <3> HIDE DEF v
    <3> QED BY <2>1, <3>1, <3>4
  <2>4. ASSUME NEW h, runs' = [runs EXCEPT ![h] = Expired(@)]
        PROVE  RunInv' /\ Len(runs') = Len(runs)
    <3> DEFINE v == [runs[h] EXCEPT !.live = FALSE]
    <3>1. runs' = [runs EXCEPT ![h] = v]
      BY <2>4 DEF Expired
    <3>2. h \in 1..Len(runs) => RunRow(v)
      <4>1. "PENDING" # "COMPLETED"
        OBVIOUS
      <4> QED BY <1>2, <4>1, RunMoved DEF RunInv
    <3> HIDE DEF v
    <3> QED BY <2>1, <3>1, <3>2
  <2>5. CASE runs' = runs
    BY <1>2, <2>5 DEF RunInv
  <2>6. CASE ResolveFail(r)
    BY <2>3, <2>5, <2>6 DEF ResolveFail
  <2>7. CASE CrashResolver(r)
    BY <2>4, <2>5, <2>7 DEF CrashResolver
  <2>8. CASE ExpireRun(g)
    BY <2>4, <2>8 DEF ExpireRun
  <2> QED BY <2>2, <2>6, <2>7, <2>8
<1>4. ClaimInv'
  <2>1. \/ claim' = claim \/ claim' = [claim EXCEPT ![r] = 0]
        \/ claim' = [claim EXCEPT ![r] = g] /\ g \in 1..Len(runs)
    BY <1>2 DEF ClaimRun, ResolveFail, CrashResolver, ExpireRun, procs
  <2> QED BY <1>2, <1>3, <2>1 DEF Inv, ClaimInv
<1>5. OpenInv'
  <2>1. open' = open \/ open' = [open EXCEPT ![r] = None]
    BY DEF ClaimRun, ResolveFail, CrashResolver, ExpireRun
  <2> QED BY <2>1 DEF Inv, OpenInv
<1> QED BY <1>1, <1>3, <1>4, <1>5 DEF Inv, ClockInv, QueueInv, MemberInv, GenInv, JobInv,
           Elsewhere

\* A published generation gets its run.
LEMMA PublishedKeeps ==
  ASSUME Inv, EnqueuePublished
  PROVE  Inv'
<1> DEFINE v == NewRun(Len(runs) + 1)
           S == Elements(runs) \cup {v}
<1>1. /\ runs \in Seq(Elements(runs)) /\ Len(runs) \in Nat /\ Len(gens) \in Nat
      /\ DOMAIN runs = 1..Len(runs) /\ Len(runs) < Len(gens)
      /\ runs' = Append(runs, v)
      /\ UNCHANGED <<now, gens, work, rev, member, procs, open, gap, events>>
  BY DEF EnqueuePublished, Inv, RunInv, GenInv, evidence
<1>2. RunRow(v)
  <2> DEFINE D == {"PENDING", 0, None, FALSE, NoResult}
  <2>1. "PENDING" \in D /\ 0 \in D /\ None \in D /\ FALSE \in D /\ NoResult \in D
    BY Zenon
  <2> HIDE DEF D
  <2>2. v \in RunSet(D) /\ v.status = "PENDING"
    BY <2>1 DEF NewRun, RunSet
  <2> HIDE DEF v
  <2> QED BY <2>2, AnyColumns DEF RunRow
<1> HIDE DEF v
<1>3. runs \in Seq(S) /\ v \in S
  <2>1. Elements(runs) \subseteq S
    OBVIOUS
  <2>2. runs \in [1..Len(runs) -> S]
    BY <1>1, <2>1 DEF Elements
  <2> HIDE DEF S
  <2>3. runs \in Seq(S)
    BY <1>1, <2>2, SeqDef
  <2> QED BY <2>3 DEF S
<1> HIDE DEF S
<1>4. /\ Len(runs') = Len(runs) + 1 /\ runs' \in Seq(S)
      /\ \A h \in 1..Len(runs) : runs'[h] = runs[h]
      /\ runs'[Len(runs) + 1] = v
  BY <1>1, <1>3, AppendProperties
<1>5. \A h \in 1..Len(runs') : RunRow(runs'[h])
  <2>1. \A h \in 1..Len(runs') : h \in 1..Len(runs) \/ h = Len(runs) + 1
    BY <1>1, <1>4
  <2> QED BY <1>2, <1>4, <2>1 DEF Inv, RunInv
<1>6. runs' \in Seq(Elements(runs'))
  <2>1. DOMAIN runs' = 1..Len(runs') /\ Len(runs') \in Nat
    BY <1>1, <1>4
  <2> DEFINE R == Elements(runs')
  <2>2. runs' \in [1..Len(runs') -> R]
    BY <1>4, <2>1 DEF Elements
  <2> HIDE DEF R
  <2>3. runs' \in Seq(R)
    BY <2>1, <2>2, SeqDef
  <2> QED BY <2>3 DEF R
<1>7. RunInv'
  BY <1>1, <1>4, <1>5, <1>6 DEF RunInv
<1>8. ClaimInv'
  BY <1>1, <1>4 DEF Inv, ClaimInv, procs
<1> QED BY <1>1, <1>7, <1>8 DEF Inv, ClockInv, QueueInv, MemberInv, GenInv, OpenInv, JobInv,
           procs

\* A scan of the projection tick requests the projection of identities.
LEMMA ScanKeeps ==
  ASSUME Inv, NEW p \in Projector, Scan(p)
  PROVE  Inv'
<1>1. p \in Actor /\ now \in Nat /\ events \in 0..MaxEvents
  BY DEF Actor, Requester, Inv, ClockInv
<1>2. \A i \in Identity : Canonical(i) \in Identity
  BY LatestSound DEF Inv, Sound, Canonical
<1>3. \A m \in Member : IdentityOf[m] \in Identity
  BY ProjectionAssumption DEF Exact
<1>4. CASE RequestCommit(p)
  BY <1>1, <1>4, StoredKeeps
<1>5. SUFFICES ASSUME ~RequestCommit(p)
               PROVE  Inv'
  BY <1>4
<1>6. UNCHANGED <<now, gens, runs, work, rev, member, procs, gap, events>>
  BY <1>5 DEF Scan, evidence
<1>7. ASSUME NEW I, I \subseteq Identity, NEW w, Opens(p, I, now, w)
      PROVE  Inv'
  <2>1. now' \in Nat /\ events' \in 0..MaxEvents
    BY <1>1, <1>6
  <2> QED BY <1>1, <1>6, <1>7, <2>1, RequestKeeps
<1>8. ASSUME NEW page, page \subseteq Member, NEW w, Materialize(p, page, w)
      PROVE  Inv'
  <2> DEFINE I == {IdentityOf[m] : m \in {m \in page : ~member[m].known}}
  <2>1. I \subseteq Identity /\ \E v : Opens(p, I, now, v)
    BY <1>3, <1>8 DEF Materialize
  <2> HIDE DEF I
  <2> QED BY <1>7, <2>1
<1>9. CASE BackfillEvidence(p)
  <2> DEFINE page == First({m \in Present : m > scan["backfill"].at}, ScanLimit)
  <2>1. page \subseteq Member /\ \E w : Materialize(p, page, w)
    BY <1>9 DEF BackfillEvidence, First, Present
  <2> HIDE DEF page
  <2> QED BY <1>8, <2>1
<1>10. CASE CatchUpMissingEvidence(p)
  <2> DEFINE page == First({m \in Present : ~member[m].known}, ScanLimit)
  <2>1. page \subseteq Member /\ \E w : Materialize(p, page, w)
    BY <1>10 DEF CatchUpMissingEvidence, First, Present
  <2> HIDE DEF page
  <2> QED BY <1>8, <2>1
<1>11. CASE EnqueueBootstrap(p)
  <2> DEFINE page == First({i \in Identity : /\ i > scan["bootstrap"].at
                                             /\ \E m \in Present : member[m].known
                                                                   /\ IdentityOf[m] = i},
                           ScanLimit)
  <2>1. \E w : Opens(p, page, now, w)
    BY <1>11 DEF EnqueueBootstrap
  <2>2. page \subseteq Identity
    BY DEF First
  <2> HIDE DEF page
  <2> QED BY <1>7, <2>1, <2>2
<1>12. CASE CoalesceResolvedAliases(p)
  <2> DEFINE page == First({i \in Identity \ AliasesHeld :
                              /\ work[i].status \in {"PENDING", "RETRY", "FAILED"}
                              /\ Canonical(i) # i}, ScanLimit)
  <2>1. \E w : Opens(p, page, now, w)
    BY <1>12 DEF CoalesceResolvedAliases
  <2>2. page \subseteq Identity
    BY DEF First
  <2> HIDE DEF page
  <2> QED BY <1>7, <2>1, <2>2
<1>13. CASE CatchUpUnprojected(p)
  <2> DEFINE behind == {Canonical(IdentityOf[m]) :
                          m \in {m \in Present : member[m].known /\ member[m].rev = 0}}
             idle == {i \in behind : work[i].status \in {"NONE", "IDLE", "FAILED"}}
             page == First(idle, ScanLimit)
  <2>1. \E w : Opens(p, page, now, w)
    BY <1>13 DEF CatchUpUnprojected
  <2>2. behind \subseteq Identity
    BY <1>2, <1>3 DEF Present
  <2> HIDE DEF behind
  <2>3. page \subseteq Identity
    BY <2>2 DEF First
  <2> HIDE DEF page
  <2> QED BY <1>7, <2>1, <2>3
<1> QED BY <1>5, <1>9, <1>10, <1>11, <1>12, <1>13 DEF Scan

\* A batch writes only members that were observed, at a revision that exists.
LEMMA BatchKeeps ==
  ASSUME Inv, NEW p \in Projector, ProjectBatch(p)
  PROVE  Inv'
<1> DEFINE i == job[p].id
           w == work[i]
           page == Page(i)
           v == IF Cardinality(page) < BatchSize THEN Finished(w)
                ELSE [w EXCEPT !.cursor = Max(page)]
<1>1. /\ job[p] # None /\ i \in Identity /\ rev \in Nat /\ WorkRow(w, rev)
      /\ UNCHANGED <<now, gens, runs, rev, claim, open, gap, events>>
      /\ member' = [m \in Member |-> IF m \in page THEN Write(m, w) ELSE member[m]]
      /\ work' = [work EXCEPT ![i] = v]
  BY DEF ProjectBatch, Owns, Inv, JobInv, QueueInv, evidence
<1>2. QueueInv'
  <2>1. WorkRow(v, rev)
    <3> HIDE DEF w, page
    <3> QED BY <1>1, RowFinished, RowMoved
  <2> HIDE DEF v, i
  <2> QED BY <1>1, <2>1, QueueKept DEF Inv
<1>3. JobInv'
  <2>1. job' = [job EXCEPT ![p] = None]
          \/ job' = [job EXCEPT ![p] = [id |-> i, batches |-> job[p].batches + 1]]
    BY DEF ProjectBatch
  <2> QED BY <1>1, <2>1 DEF Inv, JobInv
<1>4. MemberInv'
  <2>1. ASSUME NEW m \in Member
        PROVE  MemberRow(member'[m], rev)
    <3>1. MemberRow(member[m], rev)
      BY DEF Inv, MemberInv
    <3>2. CASE m \in page /\ member[m].rev <= w.act
      <4> DEFINE x == member[m]
                 e == Effective(m, ResultOf(w.actRun), w.actCut)
                 y == [x EXCEPT !.rev = w.act, !.shown = e]
                 C == {x.group, x.shown}
                 D == C \cup {e}
      <4>1. member'[m] = y
        BY <1>1, <3>2 DEF Write
      <4>2. x.known
        BY <3>2 DEF Page, First
      <4>3. x \in MemberSet(D) /\ e \in D
        <5>1. x \in MemberSet(C)
          BY <3>1 DEF MemberRow
        <5> HIDE DEF C, x
        <5> QED BY <5>1, MoreColumns
      <4>4. w.act \in Nat /\ w.act <= rev
        <5> HIDE DEF w
        <5> QED BY <1>1 DEF WorkRow, WorkSet
      <4> HIDE DEF w, x, e, D
      <4>5. y \in MemberSet(D)
        BY <4>3, <4>4, Zenon DEF MemberSet
      <4>6. y.rev = w.act /\ y.known = x.known
        BY <4>3, Zenon DEF MemberSet
      <4> HIDE DEF y
      <4>7. y.known
        BY <4>2, <4>6, Zenon
      <4>8. y.rev <= rev
        BY <4>4, <4>6
      <4> QED BY <4>1, <4>5, <4>7, <4>8, AnyColumns DEF MemberRow
    <3>3. CASE ~(m \in page /\ member[m].rev <= w.act)
      <4>1. member'[m] = member[m]
        BY <1>1, <3>3 DEF Write
      <4> QED BY <3>1, <4>1
    <3> QED BY <3>2, <3>3
  <2>2. DOMAIN member' = Member
    BY <1>1
  <2> QED BY <1>1, <2>1, <2>2 DEF MemberInv
<1> QED BY <1>1, <1>2, <1>3, <1>4 DEF Inv, ClockInv, GenInv, RunInv, ClaimInv, OpenInv

\* The claim, the release, the failure, the expiry and the loss of work.
LEMMA WorkKeeps ==
  ASSUME Inv, NEW p \in Projector, NEW i,
         \/ i \in Identity /\ Claim(p, i)
         \/ Release(p) \/ ProjectFail(p) \/ CrashProjector(p)
  PROVE  Inv'
<1>1. /\ events' \in 0..MaxEvents /\ UNCHANGED <<now, gens, runs, rev, member, claim, gap>>
      /\ rev \in Nat
  BY HappensKeeps DEF Claim, Release, ProjectFail, CrashProjector, Inv, ClockInv, QueueInv, evidence
<1>2. QueueInv'
  <2>1. ASSUME NEW k, NEW v, k \in Identity => WorkRow(v, rev), work' = [work EXCEPT ![k] = v]
        PROVE  QueueInv'
    BY <1>1, <2>1, QueueKept DEF Inv
  <2>2. \A k \in Identity : WorkRow(work[k], rev)
    BY DEF Inv, QueueInv
  <2>3. CASE work' = work
    BY <1>1, <2>3 DEF Inv, QueueInv
  <2>4. CASE i \in Identity /\ Claim(p, i)
    <3> DEFINE w == work[i]
               cut == IF w.act # 0 THEN w.actCut ELSE w.reqCut
               run == IF w.actRun # 0 THEN w.actRun ELSE RunAt(cut)
               v == [w EXCEPT !.status = "RUNNING", !.act = IF w.act # 0 THEN w.act ELSE w.req,
                              !.actCut = cut, !.actRun = run, !.att = AtMost(w.att),
                              !.lease = p, !.live = TRUE]
    <3>1. work' = [work EXCEPT ![i] = v]
      BY <2>4 DEF Claim
    <3>2. WorkRow(w, rev)
      BY <2>2, <2>4
    <3> HIDE DEF w, cut, run
    <3>3. WorkRow(v, rev)
      BY <1>1, <3>2, RowClaimed
    <3> HIDE DEF v
    <3> QED BY <2>1, <3>1, <3>3
  <2>5. ASSUME NEW k, NEW s \in {"PENDING", "RETRY", "FAILED"},
               work' = [work EXCEPT ![k] = [work[k] EXCEPT !.status = s, !.lease = None,
                                                           !.live = FALSE]]
        PROVE  QueueInv'
    <3> DEFINE w == work[k]
               v == [w EXCEPT !.status = s, !.lease = None, !.live = FALSE]
    <3>1. work' = [work EXCEPT ![k] = v]
      BY <2>5
    <3>2. k \in Identity => WorkRow(w, rev)
      BY <2>2
    <3> HIDE DEF w
    <3>3. k \in Identity => WorkRow(v, rev)
      BY <1>1, <3>2, RowReleased
    <3> HIDE DEF v
    <3> QED BY <2>1, <3>1, <3>3
  <2>6. CASE Release(p)
    BY <2>3, <2>5, <2>6 DEF Release
  <2>7. CASE ProjectFail(p)
    <3> DEFINE k == job[p].id
               s == IF work[k].att >= MaxAttempts THEN "FAILED" ELSE "RETRY"
    <3>1. \/ work' = work
          \/ work' = [work EXCEPT ![k] = [work[k] EXCEPT !.status = s, !.lease = None,
                                                         !.live = FALSE]]
      BY <2>7 DEF ProjectFail, Failed
    <3>2. s \in {"PENDING", "RETRY", "FAILED"}
      OBVIOUS
    <3> HIDE DEF k, s
    <3> QED BY <2>3, <2>5, <3>1, <3>2
  <2>8. CASE CrashProjector(p)
    <3> DEFINE k == job[p].id
    <3>1. work' = work \/ work' = [work EXCEPT ![k] = Expired(work[k])]
      BY <2>8 DEF CrashProjector
    <3>2. k \in Identity => WorkRow(Expired(work[k]), rev)
      BY <1>1, <2>2, RowExpired
    <3> HIDE DEF k
    <3> QED BY <2>1, <2>3, <3>1, <3>2
  <2> QED BY <2>4, <2>6, <2>7, <2>8
<1>3. JobInv'
  <2>1. \/ job' = [job EXCEPT ![p] = None]
        \/ i \in Identity /\ job' = [job EXCEPT ![p] = [id |-> i, batches |-> 0]]
    BY DEF Claim, Release, ProjectFail, CrashProjector
  <2> QED BY <2>1 DEF Inv, JobInv
<1>4. OpenInv'
  <2>1. open' = open \/ open' = [open EXCEPT ![p] = None]
    BY DEF Claim, Release, ProjectFail, CrashProjector
  <2> QED BY <2>1 DEF Inv, OpenInv
<1> QED BY <1>1, <1>2, <1>3, <1>4 DEF Inv, ClockInv, MemberInv, GenInv, RunInv, ClaimInv

\* The expiry of a lease of work.
LEMMA ExpireKeeps ==
  ASSUME Inv, NEW i \in Identity, ExpireWork(i)
  PROVE  Inv'
<1>1. /\ events' \in 0..MaxEvents /\ rev \in Nat
      /\ UNCHANGED <<now, gens, runs, rev, member, procs, open, gap>>
      /\ work' = [work EXCEPT ![i] = Expired(work[i])]
  BY HappensKeeps DEF ExpireWork, Inv, QueueInv, evidence
<1>2. WorkRow(Expired(work[i]), rev)
  BY <1>1, RowExpired DEF Inv, QueueInv
<1>3. QueueInv'
  BY <1>1, <1>2, QueueKept DEF Inv
<1> QED BY <1>1, <1>3 DEF Inv, ClockInv, MemberInv, GenInv, RunInv, ClaimInv, OpenInv, JobInv,
           procs

-----------------------------------------------------------------------------
(***************************************************************************)
(* The theorems.                                                           *)
(***************************************************************************)
\* The invariant holds at the start.
LEMMA InitInv == Init => Inv
<1> SUFFICES ASSUME Init PROVE Inv
  OBVIOUS
<1>1. ClockInv /\ ClaimInv /\ OpenInv /\ JobInv
  BY ProjectionAssumption DEF Init, ClockInv, ClaimInv, OpenInv, JobInv
<1>2. WorkRow(NoWork, 0)
  <2> DEFINE D == {0, None}
  <2>1. 0 \in D /\ None \in D /\ 0 \in 0..MaxAttempts
    BY ProjectionAssumption
  <2> HIDE DEF D
  <2>2. NoWork \in WorkSet(D) /\ NoWork.act = 0 /\ NoWork.req = 0 /\ NoWork.live = FALSE
    BY <2>1 DEF NoWork, WorkSet
  <2>3. ~NoWork.live
    BY <2>2, Zenon
  <2>4. NoWork.act <= NoWork.req /\ NoWork.req <= 0
    BY <2>2
  <2> QED BY ONLY <2>2, <2>3, <2>4, AnyColumns DEF WorkRow
<1>3. QueueInv
  BY <1>2 DEF Init, QueueInv
<1>4. MemberInv
  <2>1. ASSUME NEW m \in Member
        PROVE  MemberRow(member[m], 0)
    <3> DEFINE b == m \in Legacy
               y == [Absent EXCEPT !.present = b]
               D == {None, NoShown}
    <3>1. member[m] = y
      BY DEF Init
    <3>2. None \in D /\ NoShown \in D /\ b \in BOOLEAN
      OBVIOUS
    <3> HIDE DEF b, D
    <3>3. Absent \in MemberSet(D) /\ Absent.rev = 0
      BY <3>2 DEF Absent, MemberSet
    <3>4. y \in MemberSet(D) /\ y.rev = Absent.rev
      BY <3>2, <3>3, Zenon DEF MemberSet
    <3>5. y.rev <= 0 /\ ~(y.rev > 0)
      BY <3>3, <3>4
    <3> HIDE DEF y
    <3> QED BY <3>1, <3>4, <3>5, AnyColumns DEF MemberRow
  <2> QED BY <2>1 DEF Init, MemberInv
<1>5. GenInv /\ RunInv
  <2>1. Elements(<<>>) = {}
    BY DEF Elements
  <2> QED BY <2>1 DEF Init, GenInv, RunInv
<1> QED BY <1>1, <1>3, <1>4, <1>5 DEF Inv

\* Every step keeps the invariant.
LEMMA NextInv == Inv /\ [Next]_vars => Inv'
<1> SUFFICES ASSUME Inv, [Next]_vars PROVE Inv'
  OBVIOUS
<1>1. CASE Environment
  <2>1. ASSUME NEW r \in Resolver, CrashResolver(r)
        PROVE  Inv'
    BY <2>1, RunKeeps
  <2>2. ASSUME NEW p \in Projector, CrashProjector(p)
        PROVE  Inv'
    BY <2>2, WorkKeeps
  <2> QED BY <1>1, <2>1, <2>2, EvidenceKeeps DEF Environment
<1>2. CASE EnqueuePublished
  BY <1>2, PublishedKeeps
<1>3. ASSUME NEW r \in Resolver, ResolverStep(r)
      PROVE  Inv'
  BY <1>3, RunKeeps, BeginKeeps, CommitKeeps DEF ResolverStep
<1>4. ASSUME NEW p \in Projector, ProjectorStep(p) \/ Scan(p)
      PROVE  Inv'
  <2>1. CASE Scan(p)
    BY <2>1, ScanKeeps
  <2>2. CASE ProjectBatch(p)
    BY <2>2, BatchKeeps
  <2>3. ASSUME NEW i \in Identity, Claim(p, i)
        PROVE  Inv'
    BY <2>3, WorkKeeps
  <2>4. CASE Release(p) \/ ProjectFail(p)
    BY <2>4, WorkKeeps
  <2> QED BY <1>4, <2>1, <2>2, <2>3, <2>4 DEF ProjectorStep
<1>5. ASSUME NEW i \in Identity, ExpireWork(i)
      PROVE  Inv'
  BY <1>5, ExpireKeeps
<1>6. ASSUME NEW g \in DOMAIN runs, ExpireRun(g)
      PROVE  Inv'
  BY <1>6, RunKeeps
<1>7. CASE RequestCommit(Observer)
  BY <1>7, StoredKeeps DEF Actor, Requester
<1>8. CASE UNCHANGED vars
  BY <1>8 DEF vars, evidence, procs, Inv, ClockInv, QueueInv, MemberInv, GenInv, RunInv, ClaimInv,
     OpenInv, JobInv
<1> QED BY <1>1, <1>2, <1>3, <1>4, <1>5, <1>6, <1>7, <1>8 DEF Next

\* The invariant is one of the specification.
LEMMA InvHolds == Spec => []Inv
BY InitInv, NextInv, PTL DEF Spec

\* Types, and the order of the counters: only RUNNING work is leased, the active revision of a
\* row is not past the requested one, which was drawn from contact_projection_revision_seq, and a
\* member is projected, at such a revision, only once its evidence is stored.
THEOREM ContactTypeOK == Spec => []TypeOK
<1>1. Inv => TypeOK
  <2> SUFFICES ASSUME Inv PROVE TypeOK
    OBVIOUS
  <2>1. ASSUME NEW i \in Identity
        PROVE  /\ work[i].status \in {"NONE", "IDLE", "PENDING", "RUNNING", "RETRY", "FAILED"}
               /\ work[i].live => work[i].status = "RUNNING"
               /\ work[i].act <= work[i].req /\ work[i].req <= rev
               /\ work[i].att <= MaxAttempts
    <3> DEFINE w == work[i]
    <3>1. WorkRow(w, rev)
      BY DEF Inv, QueueInv
    <3> HIDE DEF w
    <3>2. /\ w.status \in {"NONE", "IDLE", "PENDING", "RUNNING", "RETRY", "FAILED"}
          /\ w.act <= w.req /\ w.req <= rev
          /\ w.att <= MaxAttempts
      BY <3>1, ProjectionAssumption DEF WorkRow, WorkSet
    <3>3. w.live => w.status = "RUNNING"
      BY <3>1, Zenon DEF WorkRow
    <3> QED BY <3>2, <3>3 DEF w
  <2>2. \A m \in Member : member[m].rev <= rev /\ (member[m].rev > 0 => member[m].known)
    BY DEF Inv, MemberInv, MemberRow
  <2>3. /\ now \in Nat /\ rev \in Nat /\ events \in 0..MaxEvents /\ gap \subseteq Identity
        /\ Len(runs) <= Len(gens) /\ \A r \in Resolver : claim[r] \in 0..Len(runs)
    BY DEF Inv, ClockInv, QueueInv, RunInv, ClaimInv
  <2> QED BY <2>1, <2>2, <2>3 DEF TypeOK
<1> QED BY <1>1, InvHolds, PTL

\* No completed resolution run gives one phone to two LIDs, for any evidence, any number of
\* resolvers and any crashes: Conflicted quarantines a LID whose phone another LID claims, and a
\* component of the remaining links has one phone only.
THEOREM PhonesDistinct == Spec => []ResolvedPhonesDistinct
<1>1. Inv => ResolvedPhonesDistinct
  <2> SUFFICES ASSUME Inv, NEW g \in CompletedRuns
               PROVE  Distinct(runs[g].result)
    BY DEF ResolvedPhonesDistinct, Distinct
  <2>1. g \in 1..Len(runs) /\ runs[g].status = "COMPLETED"
    BY DEF CompletedRuns, Inv, RunInv
  <2> QED BY <2>1 DEF Inv, RunInv, RunRow, Sound
<1> QED BY <1>1, InvHolds, PTL
=============================================================================
