------------------------- MODULE ContactCurrent_proofs -------------------------
(***************************************************************************)
(* A drained projection queue is current (ProjectionCurrent), for any      *)
(* identities, members, snapshots, schedulers and limits, outside the gap. *)
(* A request is a statement: the transaction of a resolver, a housekeeping *)
(* scan or an observer begins it and commits it later, and anything may    *)
(* commit in between.  The argument follows the last request that covers a *)
(* member, from the statement that made it, through what an open one will  *)
(* bring, to the page that writes the member's row.                        *)
(***************************************************************************)
EXTENDS ContactProjection_proofs

-----------------------------------------------------------------------------
(***************************************************************************)
(* Results.  An identity that is not resolved has its cluster to itself, a *)
(* cluster is named by a resolved identity of its own and counts its       *)
(* identities, and no three exact identities are resolved together.        *)
(***************************************************************************)
InCluster(R, j, c) == R.assign[j].status = "RESOLVED" /\ R.assign[j].cluster = c

ClusterOf(R, c) == {j \in Identity : R.assign[j].cluster = c}

Formed(R) ==
  /\ \A i \in Identity :
       /\ R.assign[i].status = "RESOLVED" =>
            /\ R.assign[i].cluster \in Identity
            /\ InCluster(R, R.assign[i].cluster, R.assign[i].cluster)
       /\ R.assign[i].status # "RESOLVED" => R.assign[i].cluster \in {None, i}
  /\ \A c \in Identity : R.clusters[c].count = Cardinality(ClusterOf(R, c))
  /\ \A i, j, k \in Exact :
       i # j /\ i # k /\ j \in Kin(R, {i}) /\ k \in Kin(R, {i}) => j = k

-----------------------------------------------------------------------------
(***************************************************************************)
(* The resolver forms such results.                                        *)
(***************************************************************************)
\* The links of a generation: those of LIDs come from contacts, that of a
\* phone JID leads to the phone it is derived from.
Derivable(E) ==
  \A e \in E :
    /\ e.left \in Exact /\ e.right \in Identity /\ TypeOf[e.right] = "PHONE"
    /\ \/ TypeOf[e.left] = "LID" /\ e.source = "CONTACT_PHONE"
       \/ /\ TypeOf[e.left] = "PHONE_JID" /\ e.source = "PHONE_JID_DERIVATION"
          /\ e.right = Derived[e.left]

\* The evidence of a snapshot is such.
LEMMA EvidenceDerived ==
  ASSUME NEW g, gens[g].content \in Snapshot
  PROVE  Derivable(EvidenceOf(g))
<1> DEFINE c == gens[g].content
<1>0. DOMAIN c \subseteq Exact
  BY ProjectionAssumption
<1>1. SUFFICES ASSUME NEW e \in EvidenceOf(g)
               PROVE  /\ e.left \in Exact /\ e.right \in Identity /\ TypeOf[e.right] = "PHONE"
                      /\ \/ TypeOf[e.left] = "LID" /\ e.source = "CONTACT_PHONE"
                         \/ /\ TypeOf[e.left] = "PHONE_JID" /\ e.source = "PHONE_JID_DERIVATION"
                            /\ e.right = Derived[e.left]
  BY DEF Derivable
<1>2. CASE \E i \in DOMAIN c : /\ TypeOf[i] = "LID" /\ c[i].phone # None
                               /\ e = Link(i, c[i].phone, "CONTACT_PHONE")
  BY <1>0, <1>2, ProjectionAssumption DEF Link, Exact
<1>3. CASE \E i \in Identity : /\ TypeOf[i] = "PHONE_JID"
                               /\ e = Link(i, Derived[i], "PHONE_JID_DERIVATION")
  BY <1>3, ProjectionAssumption DEF Link, Exact
<1> QED BY <1>1, <1>2, <1>3 DEF EvidenceOf

\* Such links are also the evidence that the resolver's lemmas are about.
LEMMA DerivableEvident ==
  ASSUME NEW E, Derivable(E)
  PROVE  Evident(E)
BY ResolutionAssumption DEF Derivable, Evident, Exact

\* What reaches one another reaches the same.
LEMMA ReachTogether ==
  ASSUME NEW E, Evident(E), NEW n \in Identity, NEW j \in Reach(n, Closed(E))
  PROVE  j \in Identity /\ \A S \in Closed(E) : j \in S <=> n \in S
<1>1. j \in Identity
  BY DEF Reach
<1>2. ASSUME NEW S \in Closed(E), j \in S
      PROVE  n \in S
  <2>1. S \subseteq Identity
    BY DEF Closed
  <2>2. Identity \ S \in Closed(E)
    BY <2>1 DEF Closed, Evident
  <2> QED BY <1>2, <2>2 DEF Reach
<1>3. \A S \in Closed(E) : n \in S => j \in S
  BY DEF Reach
<1> QED BY <1>1, <1>2, <1>3

\* A component is named by one of its own, which reaches all of it.
LEMMA ComponentNamed ==
  ASSUME NEW E, Evident(E), NEW nodes, nodes \subseteq Identity,
         NEW component, component = ComponentOf(E, nodes),
         NEW j \in DOMAIN component, NEW c, c = component[j]
  PROVE  /\ c \in DOMAIN component /\ component[c] = c /\ c \in Identity /\ j \in Identity
         /\ j \in Reach(c, Closed(E))
<1>1. PICK n \in nodes : c \in Reach(n, Closed(E)) /\ j \in Reach(n, Closed(E)) /\ c \in nodes
  BY ComponentRoot
<1>2. /\ c \in Identity /\ j \in Identity /\ n \in Identity
      /\ \A S \in Closed(E) : (c \in S <=> n \in S) /\ (j \in S <=> n \in S)
  BY <1>1, ReachTogether
<1>3. j \in Reach(c, Closed(E))
  BY <1>2 DEF Reach
<1>4. c \in DOMAIN component
  BY <1>1 DEF ComponentOf, Classes, Components
<1> DEFINE classes == {Reach(i, Closed(E)) : i \in nodes}
<1>5. \A C \in classes : c \in C <=> j \in C
  BY <1>2 DEF Reach
<1>6. {i \in nodes : \E C \in classes : i \in C /\ c \in C}
        = {i \in nodes : \E C \in classes : i \in C /\ j \in C}
  BY <1>5
<1>7. component[c] = component[j]
  BY <1>4, <1>6 DEF ComponentOf, Classes, Components
<1> QED BY <1>2, <1>3, <1>4, <1>7

\* Eligible links are links, and an eligible contact link has no conflict.
LEMMA EligibleLinks ==
  ASSUME NEW E, Derivable(E), NEW conflicted, NEW eligible, eligible = Eligible(E, conflicted)
  PROVE  /\ eligible \subseteq E /\ Derivable(eligible) /\ Evident(eligible)
         /\ \A e \in eligible : TypeOf[e.left] = "LID" => e.left \notin conflicted
<1>1. eligible \subseteq E
  BY DEF Eligible
<1>2. Derivable(eligible)
  BY <1>1 DEF Derivable
<1>3. \A e \in eligible : TypeOf[e.left] = "LID" => e.source = "CONTACT_PHONE"
  BY <1>2 DEF Derivable
<1>4. \A e \in eligible : e.source = "PHONE_JID_DERIVATION" \/ e.left \notin conflicted
  BY DEF Eligible
<1> QED BY <1>1, <1>2, <1>3, <1>4, DerivableEvident

\* Only LIDs are in conflict.
LEMMA ConflictedLid ==
  ASSUME NEW E, Derivable(E), NEW i \in Conflicted(E)
  PROVE  TypeOf[i] = "LID" /\ i \in Identity
<1>1. CASE \E e, f \in E : e.left = i /\ f.left = i /\ f.right # e.right
  <2>1. PICK e \in E, f \in E : e.left = i /\ f.left = i /\ f.right # e.right
    BY <1>1
  <2> QED BY <2>1 DEF Derivable, Exact
<1>2. CASE \E e \in E : e.left = i /\ e.source = "CONTACT_PHONE"
  BY <1>2 DEF Derivable, Exact
<1> QED BY <1>1, <1>2 DEF Conflicted

\* An exact identity that shares its component has a link into it.
LEMMA ExactLinked ==
  ASSUME NEW E, Derivable(E), NEW nodes, nodes \subseteq Identity,
         NEW component, component = ComponentOf(E, nodes),
         NEW i \in DOMAIN component, i \in Exact,
         NEW k \in DOMAIN component, k # i, component[k] = component[i]
  PROVE  \E e \in E : e.left = i
<1>1. Evident(E)
  BY DerivableEvident
<1>2. SUFFICES ASSUME \A e \in E : e.left # i
               PROVE  FALSE
  OBVIOUS
<1>3. \A e \in E : e.left # i /\ e.right # i /\ e.left \in Identity /\ e.right \in Identity
  BY <1>2 DEF Derivable, Exact
<1> DEFINE c == component[i]
<1>4. /\ c \in Identity /\ i \in Identity /\ k \in Identity
      /\ i \in Reach(c, Closed(E)) /\ k \in Reach(c, Closed(E))
  BY <1>1, ComponentNamed
<1>5. c = i
  BY <1>3, <1>4, ReachAlone
<1>6. k = i
  BY <1>3, <1>4, <1>5, ReachAlone
<1> QED BY <1>6

\* Links of one identity lead to one phone when they are eligible.
LEMMA OneTarget ==
  ASSUME NEW E, Derivable(E), NEW eligible, eligible = Eligible(E, Conflicted(E)),
         NEW e \in eligible, NEW f \in eligible, e.left = f.left
  PROVE  e.right = f.right
<1>1. /\ eligible \subseteq E /\ Derivable(eligible)
      /\ \A x \in eligible : TypeOf[x.left] = "LID" => x.left \notin Conflicted(E)
  BY EligibleLinks
<1>2. CASE TypeOf[e.left] = "LID"
  <2>1. e.left \notin Conflicted(E)
    BY <1>1, <1>2
  <2> QED BY <1>1, <2>1 DEF Conflicted
<1>3. CASE TypeOf[e.left] # "LID"
  BY <1>1, <1>3 DEF Derivable
<1> QED BY <1>2, <1>3

\* All exact identities of a component with several identities have a link to
\* its one phone.
LEMMA CommonPhone ==
  ASSUME NEW E, Derivable(E), NEW eligible, eligible = Eligible(E, Conflicted(E)),
         NEW nodes, nodes \subseteq Identity,
         NEW component, component = ComponentOf(eligible, nodes),
         NEW i \in DOMAIN component, i \in Exact,
         NEW k \in DOMAIN component, k # i, component[k] = component[i]
  PROVE  \E p : \A j \in DOMAIN component :
           j \in Exact /\ component[j] = component[i] =>
             \E e \in eligible : e.left = j /\ e.right = p
<1>1. Derivable(eligible) /\ Evident(eligible)
  BY EligibleLinks
<1>2. PICK e \in eligible : e.left = i
  BY <1>1, ExactLinked
<1> DEFINE p == e.right
           S == {p} \cup {f.left : f \in {f \in eligible : f.right = p}}
           c == component[i]
<1>3. S \subseteq Identity
  BY <1>1 DEF Derivable, Exact
<1>4. ASSUME NEW f \in eligible
      PROVE  f.left \in S <=> f.right \in S
  <2>1. ASSUME f.right \in S
        PROVE  f.left \in S
    <3>1. f.right = p
      BY <1>1, <2>1 DEF Derivable, Exact
    <3> QED BY <3>1
  <2>2. ASSUME f.left \in S
        PROVE  f.right \in S
    <3>1. f.left # p
      BY <1>1 DEF Derivable, Exact
    <3>2. PICK h \in eligible : h.right = p /\ h.left = f.left
      BY <2>2, <3>1
    <3>3. f.right = p
      BY <3>2, OneTarget
    <3> QED BY <3>3
  <2> QED BY <2>1, <2>2
<1>5. S \in Closed(eligible)
  <2> HIDE DEF S
  <2> QED BY <1>3, <1>4 DEF Closed
<1>6. ASSUME NEW j \in DOMAIN component, j \in Exact, component[j] = c
      PROVE  \E f \in eligible : f.left = j /\ f.right = p
  <2>1. /\ i \in Reach(c, Closed(eligible)) /\ j \in Reach(c, Closed(eligible))
        /\ c \in Identity
    BY <1>1, <1>6, ComponentNamed
  <2>2. i \in S
    BY <1>2
  <2>3. j \in S
    <3> HIDE DEF S, c
    <3> QED BY <1>1, <1>5, <2>1, <2>2, ReachTogether
  <2>4. j # p
    BY <1>1, <1>6 DEF Derivable, Exact
  <2> QED BY <2>3, <2>4
<1> QED BY <1>6

\* No three exact identities share a component.
LEMMA NoThree ==
  ASSUME NEW E, Derivable(E), NEW eligible, eligible = Eligible(E, Conflicted(E)),
         NEW nodes, nodes \subseteq Identity,
         NEW component, component = ComponentOf(eligible, nodes),
         NEW i \in DOMAIN component, NEW j \in DOMAIN component, NEW k \in DOMAIN component,
         i \in Exact, j \in Exact, k \in Exact, i # j, i # k,
         component[j] = component[i], component[k] = component[i]
  PROVE  j = k
<1>1. SUFFICES ASSUME j # k
               PROVE  FALSE
  OBVIOUS
<1>2. PICK p : \A x \in {i, j, k} : \E e \in eligible : e.left = x /\ e.right = p
  <2>1. j # i /\ component[j] = component[i] /\ Derivable(E) /\ nodes \subseteq Identity
        /\ eligible = Eligible(E, Conflicted(E)) /\ component = ComponentOf(eligible, nodes)
        /\ i \in DOMAIN component /\ j \in DOMAIN component /\ i \in Exact
    OBVIOUS
  <2>2. PICK p : \A x \in DOMAIN component :
           x \in Exact /\ component[x] = component[i] =>
             \E e \in eligible : e.left = x /\ e.right = p
    BY ONLY <2>1, CommonPhone
  <2> QED BY <2>2
<1>3. /\ eligible \subseteq E /\ Derivable(eligible)
      /\ \A x \in eligible : TypeOf[x.left] = "LID" => x.left \notin Conflicted(E)
  BY EligibleLinks
<1>4. ASSUME NEW e \in eligible, NEW f \in eligible, e.right = p, f.right = p, e.left # f.left
      PROVE  TypeOf[e.left] # TypeOf[f.left]
  <2>1. CASE TypeOf[e.left] = "PHONE_JID" /\ TypeOf[f.left] = "PHONE_JID"
    <3>1. Derived[e.left] = p /\ Derived[f.left] = p /\ e.left \in Identity /\ f.left \in Identity
      BY <1>3, <1>4, <2>1 DEF Derivable, Exact
    <3> QED BY <1>4, <2>1, <3>1, ProjectionAssumption
  <2>2. CASE TypeOf[e.left] = "LID" /\ TypeOf[f.left] = "LID"
    <3>1. /\ e.source = "CONTACT_PHONE" /\ f.source = "CONTACT_PHONE"
          /\ e.left \notin Conflicted(E) /\ p \in Identity /\ e \in E /\ f \in E
      BY <1>3, <1>4, <2>2 DEF Derivable
    <3>2. p \in SharedPhones(E)
      BY <1>4, <2>2, <3>1 DEF SharedPhones
    <3> QED BY <1>4, <3>1, <3>2 DEF Conflicted
  <2> QED BY <1>3, <2>1, <2>2 DEF Derivable
<1>5. \A x \in {i, j, k} : TypeOf[x] \in {"LID", "PHONE_JID"}
  BY ResolutionAssumption DEF Exact
<1>6. TypeOf[i] # TypeOf[j] /\ TypeOf[i] # TypeOf[k] /\ TypeOf[j] # TypeOf[k]
  BY <1>1, <1>2, <1>4
<1> QED BY <1>5, <1>6

\* The resolver's result is formed, whatever the evidence.
LEMMA ResultFormed ==
  ASSUME NEW E, Derivable(E), NEW nodes, nodes \subseteq Identity, NEW names,
         NEW conflicted, conflicted = Conflicted(E),
         NEW eligible, eligible = Eligible(E, conflicted),
         NEW component, component = ComponentOf(eligible, nodes),
         NEW clusters, clusters = Clusters(component, names),
         NEW result,
         result = [assign |-> Assignments(component, clusters, conflicted), clusters |-> clusters]
  PROVE  Formed(result)
<1>1. /\ Derivable(eligible) /\ Evident(eligible)
      /\ \A x \in eligible : TypeOf[x.left] = "LID" => x.left \notin conflicted
  BY EligibleLinks
<1>2. /\ None \notin Identity /\ None # "RESOLVED" /\ "QUARANTINED" # "RESOLVED"
  BY ResolutionAssumption
<1>3. \A i \in Identity : i \notin DOMAIN component => result.assign[i] = NoAssignment
  BY DEF Assignments
<1>4. \A i \in Identity : i \in DOMAIN component =>
        /\ result.assign[i].cluster = component[i]
        /\ result.assign[i].status = IF i \in conflicted THEN "QUARANTINED" ELSE "RESOLVED"
  BY DEF Assignments
<1>5. ASSUME NEW j \in DOMAIN component
      PROVE  /\ j \in Identity /\ component[j] \in Identity
             /\ component[j] \in DOMAIN component /\ component[component[j]] = component[j]
  BY <1>1, ComponentNamed
<1>6. ASSUME NEW i \in DOMAIN component, i \in conflicted,
             NEW k \in DOMAIN component, component[k] = component[i]
      PROVE  k = i
  <2>1. SUFFICES ASSUME k # i
                 PROVE  FALSE
    OBVIOUS
  <2>2. TypeOf[i] = "LID" /\ i \in Identity
    BY <1>6, ConflictedLid
  <2>3. i \in Exact
    BY <2>2 DEF Exact
  <2>4. PICK e \in eligible : e.left = i
    BY <1>1, <1>6, <2>1, <2>3, ExactLinked
  <2> QED BY <1>1, <1>6, <2>2, <2>4
<1>7. ASSUME NEW i \in Identity
      PROVE  /\ result.assign[i].status = "RESOLVED" =>
                  /\ result.assign[i].cluster \in Identity
                  /\ InCluster(result, result.assign[i].cluster, result.assign[i].cluster)
             /\ result.assign[i].status # "RESOLVED" => result.assign[i].cluster \in {None, i}
  <2>1. CASE i \notin DOMAIN component
    BY <1>2, <1>3, <2>1 DEF NoAssignment
  <2>2. CASE i \in DOMAIN component /\ i \in conflicted
    <3>1. component[i] = i
      BY <1>5, <1>6, <2>2
    <3> QED BY <1>2, <1>4, <2>2, <3>1
  <2>3. CASE i \in DOMAIN component /\ i \notin conflicted
    <3> DEFINE c == component[i]
    <3>1. c \in Identity /\ c \in DOMAIN component /\ component[c] = c
      BY <1>5, <2>3
    <3>2. c \notin conflicted
      <4>1. c \in conflicted => i = c
        BY <1>6, <2>3, <3>1
      <4> QED BY <2>3, <4>1
    <3> QED BY <1>2, <1>4, <2>3, <3>1, <3>2 DEF InCluster
  <2> QED BY <2>1, <2>2, <2>3
<1>8. ASSUME NEW c \in Identity
      PROVE  result.clusters[c].count = Cardinality(ClusterOf(result, c))
  <2> DEFINE inside == {j \in DOMAIN component : component[j] = c}
  <2>1. ClusterOf(result, c) = inside
    BY <1>2, <1>3, <1>4, <1>5 DEF ClusterOf, NoAssignment
  <2>2. CASE inside = {}
    BY <2>1, <2>2, FS_EmptySet DEF Clusters, NoCluster
  <2>3. CASE inside # {}
    BY <2>1, <2>3 DEF Clusters
  <2> QED BY <2>2, <2>3
<1>9. ASSUME NEW i \in Identity, NEW j \in Kin(result, {i}), j # i
      PROVE  i \in DOMAIN component /\ j \in DOMAIN component /\ component[j] = component[i]
  <2>1. j \in Identity /\ CanonicalIn(result, j) = CanonicalIn(result, i)
    BY DEF Kin
  <2>2. result.assign[i].status = "RESOLVED" /\ result.assign[j].status = "RESOLVED"
    BY <1>7, <1>9, <2>1 DEF CanonicalIn, InCluster
  <2>3. result.assign[j].cluster = result.assign[i].cluster
    BY <2>1, <2>2 DEF CanonicalIn
  <2>4. i \in DOMAIN component /\ j \in DOMAIN component
    BY <1>2, <1>3, <2>1, <2>2 DEF NoAssignment
  <2> QED BY <1>4, <2>1, <2>3, <2>4
<1>10. ASSUME NEW i \in Exact, NEW j \in Exact, NEW k \in Exact, i # j, i # k,
              j \in Kin(result, {i}), k \in Kin(result, {i})
       PROVE  j = k
  <2>1. i \in Identity
    BY DEF Exact
  <2>2. /\ i \in DOMAIN component /\ j \in DOMAIN component /\ k \in DOMAIN component
        /\ component[j] = component[i] /\ component[k] = component[i]
    BY <1>9, <1>10, <2>1
  <2> QED BY <1>10, <2>2, NoThree
<1> QED BY <1>7, <1>8, <1>10 DEF Formed

\* Before the first run nothing is resolved.
LEMMA NoResultFormed == Formed(NoResult)
<1>1. \A i \in Identity : NoResult.assign[i] = NoAssignment
  BY DEF NoResult
<1>2. NoAssignment.status # "RESOLVED" /\ NoAssignment.cluster = None /\ None \notin Identity
  BY ResolutionAssumption DEF NoAssignment
<1>3. \A c \in Identity : NoResult.clusters[c].count = Cardinality(ClusterOf(NoResult, c))
  <2>1. \A c \in Identity : ClusterOf(NoResult, c) = {}
    BY <1>1, <1>2 DEF ClusterOf
  <2>2. \A c \in Identity : NoResult.clusters[c].count = 0
    BY DEF NoResult, NoCluster
  <2> QED BY <2>1, <2>2, FS_EmptySet
<1>4. \A i \in Identity : Kin(NoResult, {i}) = {i}
  BY <1>1, <1>2 DEF Kin, CanonicalIn
<1>5. \A i, j, k \in Exact :
        i # j /\ i # k /\ j \in Kin(NoResult, {i}) /\ k \in Kin(NoResult, {i}) => j = k
  BY <1>4 DEF Exact
<1> QED BY <1>1, <1>2, <1>3, <1>5 DEF Formed

-----------------------------------------------------------------------------
\* Two results say the same of an identity.
Same(R, P, i) ==
  /\ R.assign[i] = P.assign[i]
  /\ Kin(R, {i}) = Kin(P, {i})
  /\ R.assign[i].status = "RESOLVED" =>
       R.clusters[R.assign[i].cluster] = P.clusters[R.assign[i].cluster]

\* The kin of one identity have its key.
LEMMA KinOf ==
  ASSUME NEW R, NEW i, NEW j
  PROVE  j \in Kin(R, {i}) <=> j \in Identity /\ CanonicalIn(R, j) = CanonicalIn(R, i)
BY DEF Kin

\* A key is its own, and the identities that a projection of an identity
\* affects are its kin: its cluster if it is resolved, else itself alone.
LEMMA FormedKin ==
  ASSUME NEW R, Formed(R), NEW i \in Identity
  PROVE  /\ CanonicalIn(R, i) \in Identity
         /\ CanonicalIn(R, CanonicalIn(R, i)) = CanonicalIn(R, i)
         /\ AffectedIdentities(i, R) = Kin(R, {i})
         /\ R.assign[i].status = "RESOLVED" =>
              Kin(R, {i}) = {j \in Identity : InCluster(R, j, R.assign[i].cluster)}
         /\ R.assign[i].status # "RESOLVED" => Kin(R, {i}) = {i}
<1>1. CASE R.assign[i].status = "RESOLVED"
  <2> DEFINE c == R.assign[i].cluster
  <2>1. c \in Identity /\ InCluster(R, c, c) /\ CanonicalIn(R, i) = c /\ CanonicalIn(R, c) = c
    BY <1>1 DEF Formed, InCluster, CanonicalIn
  <2>2. ASSUME NEW j \in Identity
        PROVE  CanonicalIn(R, j) = c <=> InCluster(R, j, c)
    BY <2>1 DEF InCluster, CanonicalIn
  <2>3. Kin(R, {i}) = {j \in Identity : InCluster(R, j, c)}
    BY <2>1, <2>2 DEF Kin
  <2>4. AffectedIdentities(i, R) = {j \in Identity : InCluster(R, j, c)}
    BY <1>1 DEF AffectedIdentities, InCluster
  <2> QED BY <1>1, <2>1, <2>3, <2>4
<1>2. CASE R.assign[i].status # "RESOLVED"
  <2>1. CanonicalIn(R, i) = i
    BY <1>2 DEF CanonicalIn
  <2>2. ASSUME NEW j \in Identity, CanonicalIn(R, j) = i
        PROVE  j = i
    BY <1>2, <2>2 DEF Formed, InCluster, CanonicalIn
  <2>3. Kin(R, {i}) = {i}
    BY <2>1, <2>2 DEF Kin
  <2>4. AffectedIdentities(i, R) = {i}
    BY <1>2 DEF AffectedIdentities
  <2> QED BY <1>2, <2>1, <2>3, <2>4
<1> QED BY <1>1, <1>2

\* Kin is an equivalence.
LEMMA KinEquivalent ==
  ASSUME NEW R, NEW i \in Identity, NEW j \in Kin(R, {i})
  PROVE  j \in Identity /\ i \in Kin(R, {j}) /\ i \in Kin(R, {i}) /\ Kin(R, {j}) = Kin(R, {i})
BY DEF Kin

\* The kin of the keys of identities are the kin of the identities.
LEMMA KinOfKeys ==
  ASSUME NEW R, Formed(R), NEW I, I \subseteq Identity
  PROVE  Kin(R, CanonicalsIn(R, I)) = Kin(R, I) /\ CanonicalsIn(R, I) \subseteq Identity
<1>1. \A i \in I : /\ CanonicalIn(R, i) \in Identity
                   /\ CanonicalIn(R, CanonicalIn(R, i)) = CanonicalIn(R, i)
  BY FormedKin
<1> QED BY <1>1 DEF Kin, CanonicalsIn

\* Saying the same is an equivalence, and leaves the key and the kin alone.
LEMMA SameEquivalent ==
  ASSUME NEW R, NEW P, NEW i
  PROVE  /\ Same(R, R, i)
         /\ Same(R, P, i) => /\ Same(P, R, i)
                             /\ CanonicalIn(R, i) = CanonicalIn(P, i)
                             /\ Kin(R, {i}) = Kin(P, {i})
         /\ \A Q : Same(R, P, i) /\ Same(P, Q, i) => Same(R, Q, i)
<1>1. Same(R, P, i) => CanonicalIn(R, i) = CanonicalIn(P, i)
  BY DEF Same, CanonicalIn
<1> QED BY <1>1 DEF Same

\* A run requests work for every identity it says something new of.
THEOREM AffectedCovers ==
  ASSUME NEW R, Formed(R), NEW P, Formed(P), NEW i \in Identity,
         i \notin Kin(R, CanonicalsIn(R, AffectedBy(P, R)))
  PROVE  Same(R, P, i)
<1> DEFINE affected == AffectedBy(P, R)
           KeyOf(j) == IF R.assign[j].cluster # None THEN R.assign[j].cluster ELSE j
<1>1. \A j \in Identity : R.assign[j] # P.assign[j] => KeyOf(j) \in affected
  BY DEF AffectedBy
<1>2. \A c \in Identity : R.clusters[c] # NoCluster /\ R.clusters[c] # P.clusters[c] => c \in affected
  BY DEF AffectedBy
<1> HIDE DEF affected
<1>3. \A a \in affected : CanonicalIn(R, CanonicalIn(R, a)) # CanonicalIn(R, i)
  BY DEF Kin, CanonicalsIn, affected
<1>4. None \notin Identity
  BY ResolutionAssumption
<1>5. CASE R.assign[i].status # "RESOLVED"
  <2>1. KeyOf(i) = i /\ CanonicalIn(R, i) = i
    BY <1>5 DEF Formed, CanonicalIn
  <2>2. R.assign[i] = P.assign[i]
    BY <1>1, <1>3, <2>1
  <2>3. Kin(R, {i}) = {i} /\ Kin(P, {i}) = {i}
    BY <1>5, <2>2, FormedKin
  <2> QED BY <1>5, <2>2, <2>3 DEF Same
<1>6. CASE R.assign[i].status = "RESOLVED"
  <2> DEFINE c == R.assign[i].cluster
  <2>1. /\ c \in Identity /\ InCluster(R, c, c)
        /\ CanonicalIn(R, i) = c /\ CanonicalIn(R, c) = c
    BY <1>6 DEF Formed, InCluster, CanonicalIn
  <2>2. c \notin affected
    BY <1>3, <2>1
  <2>3. ASSUME NEW j \in ClusterOf(R, c)
        PROVE  R.assign[j] = P.assign[j]
    <3>1. KeyOf(j) = c /\ j \in Identity
      BY <1>4, <2>1 DEF ClusterOf
    <3> QED BY <1>1, <2>2, <3>1
  <2>4. i \in ClusterOf(R, c)
    BY DEF ClusterOf
  <2>5. ClusterOf(R, c) \subseteq ClusterOf(P, c)
    BY <2>3 DEF ClusterOf
  <2>6. IsFiniteSet(ClusterOf(P, c)) /\ IsFiniteSet(ClusterOf(R, c))
    BY FS_Subset, ResolutionAssumption DEF ClusterOf
  <2>7. /\ R.clusters[c].count = Cardinality(ClusterOf(R, c))
        /\ P.clusters[c].count = Cardinality(ClusterOf(P, c))
    BY <2>1 DEF Formed
  <2>8. R.clusters[c] # NoCluster
    <3>1. Cardinality(ClusterOf(R, c)) # 0
      BY <2>4, <2>6, FS_EmptySet
    <3> QED BY <2>7, <3>1 DEF NoCluster
  <2>9. R.clusters[c] = P.clusters[c]
    BY <1>2, <2>1, <2>2, <2>8
  <2>10. ClusterOf(R, c) = ClusterOf(P, c)
    BY <2>5, <2>6, <2>7, <2>9, FS_Subset
  <2>11. R.assign[i] = P.assign[i]
    BY <2>3, <2>4
  <2>12. \A j \in Identity : InCluster(R, j, c) <=> InCluster(P, j, c)
    BY <2>3, <2>10 DEF ClusterOf, InCluster
  <2>13. Kin(R, {i}) = Kin(P, {i})
    <3>1. Kin(R, {i}) = {j \in Identity : InCluster(R, j, c)}
      BY <1>6, FormedKin
    <3>2. P.assign[i].status = "RESOLVED" /\ P.assign[i].cluster = c
      BY <1>6, <2>11
    <3>3. Kin(P, {i}) = {j \in Identity : InCluster(P, j, c)}
      <4> HIDE DEF c
      <4> QED BY <3>2, FormedKin
    <3> QED BY <2>12, <3>1, <3>3
  <2> QED BY <2>9, <2>11, <2>13 DEF Same
<1> QED BY <1>5, <1>6

(***************************************************************************)
(* The inductive invariant, over the parts of the state that it looks at:  *)
(* the observations O and the runs rs up to time n, the gap G, the queue q *)
(* and its last revision z.                                                *)
(***************************************************************************)
\* The push name of an identity up to a time, and whether those of an
\* identity's kin are still the last ones.
NameIn(O, i, cut) == LastName({o \in O : o.id = i /\ o.at <= cut})
FreshIn(O, n, R, i, cut) == \A j \in Kin(R, {i}) : NameIn(O, j, cut) = NameIn(O, j, n)

\* The completed runs, the newest one at a time and what it says.
Done(rs) == {g \in DOMAIN rs : rs[g].status = "COMPLETED"}
RunIn(rs, cut) ==
  LET G == {g \in Done(rs) : rs[g].at <= cut}
  IN  IF G = {} THEN 0 ELSE CHOOSE g \in G : \A h \in G : rs[h].at <= rs[g].at
ResultIn(rs, g) == IF g = 0 THEN NoResult ELSE rs[g].result
LatestIn(rs, n) == ResultIn(rs, RunIn(rs, n))

\* What a member of an identity shows (Effective).
Shown(O, group, i, result, cut) ==
  LET a == result.assign[i]
      resolved == a.status = "RESOLVED"
      aliases == {j \in Identity : /\ resolved /\ j # i
                                   /\ result.assign[j].status = "RESOLVED"
                                   /\ result.assign[j].cluster = a.cluster}
      contact == IF resolved THEN result.clusters[a.cluster].name ELSE None
      push == LastName({o \in O : o.id = i /\ o.at <= cut})
      alias == LastName({o \in O : o.id \in aliases /\ o.at <= cut})
      phone == IF resolved THEN a.phone
               ELSE IF TypeOf[i] = "PHONE_JID" THEN Derived[i] ELSE None
      Show(name, source) == [name |-> name, source |-> source, phone |-> phone]
  IN  CASE contact # None -> Show(contact, "OPENWA_CONTACT_NAME")
        [] contact = None /\ group # None -> Show(group, "GROUP_PARTICIPANT_NAME")
        [] contact = None /\ group = None /\ push # None -> Show(push, "OPENWA_PUSH_NAME")
        [] contact = None /\ group = None /\ push = None /\ alias # None
             -> Show(alias, "RESOLVED_ALIAS_PUSH_NAME")
        [] OTHER -> Show(None, None)

\* Push names are those of exact identities, one at a time, none of the future.
Observed(O, n) ==
  /\ \A o \in O : /\ o.id \in Exact /\ o.src \in Nat /\ o.at \in Nat
                  /\ o.src <= n /\ o.at <= n
  /\ \A o, p \in O : o.id = p.id /\ o.at = p.at => o = p

\* Completed runs are told apart by their time, and their results are formed.
Dated(rs, n) ==
  /\ 0 \notin DOMAIN rs
  /\ \A g \in Done(rs) :
       /\ rs[g].at \in Nat /\ rs[g].at <= n /\ Formed(rs[g].result)
       /\ \A h \in Done(rs) : rs[h].at = rs[g].at => h = g

\* An open resolution b of resolver r holds its run; its time is its own.
Holds(rs, n, r, b) ==
  /\ b.gen \in DOMAIN rs /\ rs[b.gen].status = "RUNNING" /\ rs[b.gen].lease = r
  /\ b.at \in Nat /\ b.at <= n /\ Formed(b.result)
  /\ b.sources \subseteq Identity /\ b.targets = CanonicalsIn(b.result, b.sources)
  /\ \A g \in Done(rs) : rs[g].at # b.at

\* The phases of a row of work.
Phased(rs, n, w) ==
  /\ w.status \in Active => w.req # 0
  /\ w.act = 0 => w.cursor = 0 /\ w.actRun = 0 /\ w.status # "RUNNING"
  /\ w.reqCut \in Nat /\ w.reqCut <= n
  /\ w.actCut \in Nat /\ w.actCut <= n
  /\ w.cursor \in Nat
  /\ w.actRun \in Done(rs) \cup {0}

\* What an open resolution will say: the same as the newest run outside its
\* targets; and no news of an identity that nothing was requested for.
Announced(O, n, rs, G, b) ==
  \A i \in Identity :
    /\ i \notin G \cup Kin(b.result, b.targets) => Same(b.result, LatestIn(rs, n), i)
    /\ i \notin G => FreshIn(O, n, LatestIn(rs, n), i, b.at)
    /\ Kin(b.result, {i}) \cap b.beside = {} =>
         FreshIn(O, n, b.result, i, b.at) /\ \A g \in Done(rs) : rs[g].at < b.at

\* A run and a cutoff give an identity's members what the newest run and the
\* evidence of today give them.
Good(O, n, rs, i, g, cut) ==
  Same(ResultIn(rs, g), LatestIn(rs, n), i) /\ FreshIn(O, n, LatestIn(rs, n), i, cut)

\* The row of key k writes an identity's members at a run, or is its own row.
Concerns(n, rs, i, k, g) == k \in Kin(ResultIn(rs, g), {i}) \cup Kin(LatestIn(rs, n), {i})
GoodFor(O, n, rs, i, k, g, cut) == Concerns(n, rs, i, k, g) => Good(O, n, rs, i, g, cut)

\* What the row of key k has at revision t or later is good for an identity.
GoodRow(O, n, rs, i, k, w, t) ==
  w.status \in Active =>
    /\ w.req > w.act /\ w.req >= t => GoodFor(O, n, rs, i, k, RunIn(rs, w.reqCut), w.reqCut)
    /\ w.act >= t => /\ GoodFor(O, n, rs, i, k, w.actRun, w.actCut)
                     /\ w.actRun = 0 => GoodFor(O, n, rs, i, k, RunIn(rs, w.actCut), w.actCut)

\* A row of work will still write member m at revision t or later.
Awaits(w, m, t) ==
  \/ w.status = "FAILED"
  \/ /\ w.status \in Active
     /\ (w.req > w.act /\ w.req >= t) \/ (w.act >= t /\ w.cursor < m)

\* Member m, with row x, has been written since revision t and is current, or
\* the work of its key will write it.
Promised(O, n, rs, q, x, m, t) ==
  /\ x.rev >= t => x.shown = Shown(O, x.group, IdentityOf[m], LatestIn(rs, n), n)
  /\ x.rev < t => Awaits(q[CanonicalIn(LatestIn(rs, n), IdentityOf[m])], m, t)
  /\ \A k \in Identity : GoodRow(O, n, rs, IdentityOf[m], k, q[k], t)

Kept(O, n, rs, q, z, x, m) == \E t \in 1..z : Promised(O, n, rs, q, x, m, t)

ObsInv == Observed(obs, now)
TimeInv == Dated(runs, now)
HoldInv ==
  \A r \in Resolver : open[r] # None =>
    /\ Holds(runs, now, r, open[r])
    /\ \A s \in Resolver : open[s] # None /\ open[s].at = open[r].at => s = r
PhaseInv == \A k \in Identity : Phased(runs, now, work[k])
OpenPromise == \A r \in Resolver : open[r] # None => Announced(obs, now, runs, gap, open[r])
MemberPromise ==
  \A m \in Member : member[m].present /\ member[m].known /\ IdentityOf[m] \notin gap =>
    Kept(obs, now, runs, work, rev, member[m], m)

CurrentInv == ObsInv /\ TimeInv /\ HoldInv /\ PhaseInv /\ OpenPromise /\ MemberPromise

(***************************************************************************)
(* An open request b of an observer or a scan: the names that it stores    *)
(* are its own identities', of its own time.  Beside the names of which it *)
(* took note, none has been stored since that time; and while no run was   *)
(* completed beside it, the newest run is the one it has read, and the     *)
(* newest at its time.                                                     *)
(***************************************************************************)
With(O, b) == O \cup b.writes.names

Asks(O, n, rs, b) ==
  /\ b.at \in Nat /\ b.at <= n /\ Formed(b.result)
  /\ b.sources \subseteq Identity /\ b.targets = CanonicalsIn(b.result, b.sources)
  /\ \A o \in b.writes.names : o.id \in b.sources /\ o.at = b.at
  /\ \A m \in b.writes.rows : m \in Member /\ IdentityOf[m] \in b.sources
  /\ Observed(With(O, b), n)
  /\ \A j \in Identity \ b.beside : NameIn(With(O, b), j, b.at) = NameIn(With(O, b), j, n)
  /\ \/ Identity \subseteq b.beside
     \/ b.result = LatestIn(rs, n) /\ ResultIn(rs, RunIn(rs, b.at)) = LatestIn(rs, n)

AskInv ==
  /\ \A a \in Requester : open[a] # None => Asks(obs, now, runs, open[a])
  /\ \A p \in Projector : open[p] # None => open[p].writes.names = {}

\* The model's operators are these, at the present state.
LEMMA InTheState ==
  /\ Latest = LatestIn(runs, now) /\ CompletedRuns = Done(runs)
  /\ \A cut : RunAt(cut) = RunIn(runs, cut)
  /\ \A g : ResultOf(g) = ResultIn(runs, g)
  /\ \A m \in Member : \A R, cut :
       Effective(m, R, cut) = Shown(obs, member[m].group, IdentityOf[m], R, cut)
<1>1. CompletedRuns = Done(runs)
  BY DEF CompletedRuns, Done
<1>2. ASSUME NEW cut
      PROVE  RunAt(cut) = RunIn(runs, cut)
  BY <1>1 DEF RunAt, RunIn
<1>3. ASSUME NEW g
      PROVE  ResultOf(g) = ResultIn(runs, g)
  BY DEF ResultOf, ResultIn
<1>4. Latest = LatestIn(runs, now)
  BY <1>2, <1>3 DEF Latest, LatestIn
<1>5. ASSUME NEW m \in Member, NEW R, NEW cut
      PROVE  Effective(m, R, cut) = Shown(obs, member[m].group, IdentityOf[m], R, cut)
  BY DEF Effective, Shown
<1> QED BY <1>1, <1>2, <1>3, <1>4, <1>5

-----------------------------------------------------------------------------
(***************************************************************************)
(* Push names.                                                             *)
(***************************************************************************)
\* The newest of some observations is the one that names.
LEMMA NewestNames ==
  ASSUME NEW S, \A o \in S : o.id \in Nat /\ o.src \in Nat /\ o.at \in Nat,
         NEW o \in S, \A p \in S : o = p \/ Newer(o, p)
  PROVE  LastName(S) = o.name
<1> DEFINE c == CHOOSE x \in S : \A p \in S : x = p \/ Newer(x, p)
<1>1. c \in S /\ \A p \in S : c = p \/ Newer(c, p)
  OBVIOUS
<1>2. S # {}
  OBVIOUS
<1>3. LastName(S) = c.name
  BY <1>2 DEF LastName
<1> HIDE DEF c
<1>4. ~(Newer(c, o) /\ Newer(o, c))
  BY <1>1 DEF Newer
<1> QED BY <1>1, <1>3, <1>4

\* Observations of one identity, one at a time, have a newest.
LEMMA NewestExists ==
  ASSUME NEW S, S # {}, NEW n \in Nat,
         \A o \in S : o.src \in Nat /\ o.at \in Nat /\ o.src <= n /\ o.at <= n,
         \A o, p \in S : o.at = p.at => o = p
  PROVE  \E o \in S : \A p \in S : o = p \/ Newer(o, p)
<1> DEFINE srcs == {o.src : o \in S}
<1>1. PICK a \in srcs : \A y \in srcs : y <= a
  <2>1. srcs \subseteq Nat /\ srcs # {} /\ \A y \in srcs : y <= n
    OBVIOUS
  <2> HIDE DEF srcs
  <2> QED BY <2>1, BoundedMax
<1> DEFINE T == {o \in S : o.src = a}
           ats == {o.at : o \in T}
<1>2. PICK b \in ats : \A y \in ats : y <= b
  <2>1. ats \subseteq Nat /\ ats # {} /\ \A y \in ats : y <= n
    BY <1>1
  <2> HIDE DEF ats
  <2> QED BY <2>1, BoundedMax
<1>3. PICK o \in S : o.src = a /\ o.at = b
  BY <1>2
<1>4. ASSUME NEW p \in S
      PROVE  o = p \/ Newer(o, p)
  <2>1. p.src <= a /\ p.src \in Nat /\ a \in Nat /\ b \in Nat /\ p.at \in Nat
    BY <1>1, <1>3
  <2>2. CASE p.src < a
    BY <1>3, <2>1, <2>2 DEF Newer
  <2>3. CASE p.src = a
    <3>1. p.at <= b
      BY <1>2, <2>3
    <3>2. p.at = b => o = p
      BY <1>3
    <3>3. p.at < b => Newer(o, p)
      BY <1>3, <2>1, <2>3 DEF Newer
    <3> QED BY <2>1, <3>1, <3>2, <3>3
  <2> QED BY <2>1, <2>2, <2>3
<1> QED BY <1>4

\* An identity's observations are such.
LEMMA OwnNewest ==
  ASSUME NEW O, NEW n \in Nat, Observed(O, n), NEW j, NEW S, S \subseteq {o \in O : o.id = j}
  PROVE  /\ \A o \in S : o.id \in Nat /\ o.src \in Nat /\ o.at \in Nat
         /\ S # {} => \E o \in S : \A p \in S : o = p \/ Newer(o, p)
<1>1. \A o \in S : o.id \in Nat /\ o.src \in Nat /\ o.at \in Nat /\ o.src <= n /\ o.at <= n
  BY ResolutionAssumption DEF Observed, Exact
<1>2. \A o, p \in S : o.at = p.at => o = p
  BY DEF Observed
<1> QED BY <1>1, <1>2, NewestExists

\* An observation that asks for no work does not change the last name.
LEMMA NameNotDirty ==
  ASSUME NEW O, NEW n \in Nat, Observed(O, n), NEW o,
         o.id \in Nat /\ o.src \in Nat /\ o.at = n + 1,
         NEW p \in O, p.id = o.id,
         \/ ~Newer(o, p)
         \/ o.name = LastName({x \in O : x.id = o.id})
  PROVE  NameIn(O \cup {o}, o.id, n + 1) = NameIn(O, o.id, n)
<1> DEFINE S == {x \in O : x.id = o.id}
           T == {x \in O \cup {o} : x.id = o.id /\ x.at <= n + 1}
<1>1. S = {x \in O : x.id = o.id /\ x.at <= n}
  BY DEF Observed
<1>2. T = S \cup {o}
  BY DEF Observed
<1>3. NameIn(O, o.id, n) = LastName(S) /\ NameIn(O \cup {o}, o.id, n + 1) = LastName(T)
  BY <1>1 DEF NameIn
<1>4. /\ \A x \in S : x.id \in Nat /\ x.src \in Nat /\ x.at \in Nat
      /\ S # {} => \E x \in S : \A y \in S : x = y \/ Newer(x, y)
  BY OwnNewest
<1>5. S # {} /\ p \in S
  OBVIOUS
<1>6. PICK c \in S : \A y \in S : c = y \/ Newer(c, y)
  BY <1>4, <1>5
<1>7. \A x \in T : x.id \in Nat /\ x.src \in Nat /\ x.at \in Nat
  BY <1>2, <1>4
<1>8. LastName(S) = c.name
  BY <1>4, <1>6, NewestNames
<1>9. c.at <= n /\ c.id = o.id
  BY <1>1
<1>10. Newer(o, c) \/ Newer(c, o)
  BY <1>4, <1>9 DEF Newer
<1>11. CASE Newer(c, o)
  <2>1. c \in T /\ \A y \in T : c = y \/ Newer(c, y)
    BY <1>2, <1>6, <1>11
  <2> HIDE DEF T
  <2>2. LastName(T) = c.name
    BY <1>7, <2>1, NewestNames
  <2> QED BY <1>3, <1>8, <2>2
<1>12. CASE Newer(o, c)
  <2>1. \A y \in S : Newer(o, y)
    BY <1>4, <1>6, <1>12 DEF Newer
  <2>2. o \in T /\ \A y \in T : o = y \/ Newer(o, y)
    BY <1>2, <2>1
  <2>3. o.name = LastName(S)
    BY <1>5, <2>1
  <2> HIDE DEF T
  <2>4. LastName(T) = o.name
    BY <1>7, <2>2, NewestNames
  <2> QED BY <1>3, <2>3, <2>4
<1> QED BY <1>10, <1>11, <1>12

\* Nor does the loss of an observation that a newer one has replaced.
LEMMA NameReplaced ==
  ASSUME NEW O, NEW n \in Nat, Observed(O, n), NEW o \in O,
         NEW p \in O, p.id = o.id, Newer(p, o), NEW j
  PROVE  NameIn(O \ {o}, j, n) = NameIn(O, j, n)
<1> DEFINE S == {x \in O : x.id = j /\ x.at <= n}
           T == {x \in O \ {o} : x.id = j /\ x.at <= n}
<1>1. NameIn(O, j, n) = LastName(S) /\ NameIn(O \ {o}, j, n) = LastName(T)
  BY DEF NameIn
<1>2. CASE j # o.id
  <2>1. S = T
    BY <1>2
  <2> QED BY <1>1, <2>1
<1>3. CASE j = o.id
  <2>1. S \subseteq {x \in O : x.id = j} /\ p \in S /\ o \in S
    BY <1>3 DEF Observed
  <2>2. /\ \A x \in S : x.id \in Nat /\ x.src \in Nat /\ x.at \in Nat
        /\ S # {} => \E x \in S : \A y \in S : x = y \/ Newer(x, y)
    <3> HIDE DEF S
    <3> QED BY <2>1, OwnNewest
  <2>3. PICK c \in S : \A y \in S : c = y \/ Newer(c, y)
    BY <2>1, <2>2
  <2>4. c # o
    BY <2>1, <2>2, <2>3 DEF Newer
  <2>5. T \subseteq S /\ c \in T
    BY <2>4
  <2>6. LastName(S) = c.name /\ LastName(T) = c.name
    <3> HIDE DEF S, T
    <3> QED BY <2>2, <2>3, <2>5, NewestNames
  <2> QED BY <1>1, <2>6
<1> QED BY <1>2, <1>3

\* A member shows the same where the results say the same of its identity and
\* its kin have the same names: an identity has at most one exact alias.
LEMMA ShownSame ==
  ASSUME NEW i \in Exact, NEW R, Formed(R), NEW P, Formed(P), Same(R, P, i),
         NEW O, \A o \in O : o.id \in Exact, NEW Q, \A o \in Q : o.id \in Exact,
         NEW c, NEW d, \A j \in Kin(R, {i}) : NameIn(O, j, c) = NameIn(Q, j, d),
         NEW group
  PROVE  Shown(O, group, i, R, c) = Shown(Q, group, i, P, d)
<1> DEFINE aliases(S) == {j \in Identity : /\ S.assign[i].status = "RESOLVED" /\ j # i
                                           /\ S.assign[j].status = "RESOLVED"
                                           /\ S.assign[j].cluster = S.assign[i].cluster}
           contact(S) == IF S.assign[i].status = "RESOLVED"
                         THEN S.clusters[S.assign[i].cluster].name ELSE None
           phone(S) == IF S.assign[i].status = "RESOLVED" THEN S.assign[i].phone
                       ELSE IF TypeOf[i] = "PHONE_JID" THEN Derived[i] ELSE None
           alias(U, S, e) == LastName({o \in U : o.id \in aliases(S) /\ o.at <= e})
           push(U, e) == LastName({o \in U : o.id = i /\ o.at <= e})
           Row(x, y, z, u) ==
             LET Show(name, source) == [name |-> name, source |-> source, phone |-> u]
             IN  CASE x # None -> Show(x, "OPENWA_CONTACT_NAME")
                   [] x = None /\ group # None -> Show(group, "GROUP_PARTICIPANT_NAME")
                   [] x = None /\ group = None /\ y # None -> Show(y, "OPENWA_PUSH_NAME")
                   [] x = None /\ group = None /\ y = None /\ z # None
                        -> Show(z, "RESOLVED_ALIAS_PUSH_NAME")
                   [] OTHER -> Show(None, None)
<1>1. /\ Shown(O, group, i, R, c) = Row(contact(R), push(O, c), alias(O, R, c), phone(R))
      /\ Shown(Q, group, i, P, d) = Row(contact(P), push(Q, d), alias(Q, P, d), phone(P))
  BY DEF Shown
<1>2. contact(R) = contact(P) /\ phone(R) = phone(P)
  BY DEF Same
<1>3. i \in Identity
  BY DEF Exact
<1>4. ASSUME NEW S, Formed(S)
      PROVE  aliases(S) = Kin(S, {i}) \ {i}
  <2>1. CASE S.assign[i].status = "RESOLVED"
    <3>1. Kin(S, {i}) = {j \in Identity : InCluster(S, j, S.assign[i].cluster)}
      BY <1>3, <1>4, <2>1, FormedKin
    <3> QED BY <2>1, <3>1 DEF InCluster
  <2>2. CASE S.assign[i].status # "RESOLVED"
    <3>1. Kin(S, {i}) = {i}
      BY <1>3, <1>4, <2>2, FormedKin
    <3> QED BY <2>2, <3>1
  <2> QED BY <2>1, <2>2
<1>5. push(O, c) = push(Q, d)
  <2>1. i \in Kin(R, {i})
    BY <1>3 DEF Kin
  <2>2. NameIn(O, i, c) = NameIn(Q, i, d)
    BY <2>1
  <2> QED BY <2>2 DEF NameIn
<1> DEFINE A == Kin(R, {i}) \ {i}
<1>6. aliases(R) = A /\ aliases(P) = A
  BY <1>4 DEF Same
<1>7. alias(O, R, c) = alias(Q, P, d)
  <2> DEFINE named(U, e) == {o \in U : o.id \in A /\ o.at <= e}
             of(U, a, e) == {o \in U : o.id = a /\ o.at <= e}
  <2>1. alias(O, R, c) = LastName(named(O, c)) /\ alias(Q, P, d) = LastName(named(Q, d))
    BY <1>6
  <2>2. ASSUME NEW U, \A o \in U : o.id \in Exact, NEW e
        PROVE  \/ (\A a \in A : a \notin Exact) /\ named(U, e) = {}
               \/ \E a \in A : /\ a \in Exact /\ \A b \in A : b \in Exact => b = a
                               /\ named(U, e) = of(U, a, e)
    <3>1. CASE \A a \in A : a \notin Exact
      BY <2>2, <3>1
    <3>2. CASE \E a \in A : a \in Exact
      <4>1. PICK a \in A : a \in Exact
        BY <3>2
      <4>2. ASSUME NEW b \in A, b \in Exact
            PROVE  b = a
        <5>1. i # a /\ i # b /\ a \in Kin(R, {i}) /\ b \in Kin(R, {i})
          BY <4>1, <4>2
        <5> QED BY <4>1, <4>2, <5>1 DEF Formed
      <4>3. named(U, e) = of(U, a, e)
        BY <2>2, <4>1, <4>2
      <4> HIDE DEF A, named, of
      <4> QED BY <4>1, <4>2, <4>3
    <3> QED BY <3>1, <3>2
  <2> HIDE DEF named, of
  <2>3. CASE \A a \in A : a \notin Exact
    <3>1. named(O, c) = {} /\ named(Q, d) = {}
      BY <2>2, <2>3
    <3> QED BY <2>1, <3>1
  <2>4. CASE \E a \in A : a \in Exact
    <3>1. PICK a \in A : a \in Exact /\ named(O, c) = of(O, a, c)
      BY <2>2, <2>4
    <3>2. named(Q, d) = of(Q, a, d)
      BY <2>2, <3>1
    <3>3. NameIn(O, a, c) = NameIn(Q, a, d)
      BY <3>1
    <3>4. LastName(of(O, a, c)) = LastName(of(Q, a, d))
      BY <3>3 DEF NameIn, of
    <3> QED BY <2>1, <3>1, <3>2, <3>4
  <2> QED BY <2>3, <2>4
<1> HIDE DEF contact, phone, alias, push, Row
<1> QED BY <1>1, <1>2, <1>5, <1>7

-----------------------------------------------------------------------------
(***************************************************************************)
(* Runs and time.                                                          *)
(***************************************************************************)
\* The newest run by a time, if there is one.
LEMMA NewestRun ==
  ASSUME NEW rs, NEW n \in Nat, Dated(rs, n), NEW cut \in Nat
  PROVE  \/ RunIn(rs, cut) = 0 /\ \A h \in Done(rs) : ~(rs[h].at <= cut)
         \/ /\ RunIn(rs, cut) \in Done(rs) /\ rs[RunIn(rs, cut)].at <= cut
            /\ \A h \in Done(rs) : rs[h].at <= cut => rs[h].at <= rs[RunIn(rs, cut)].at
<1> DEFINE G == {g \in Done(rs) : rs[g].at <= cut}
           x == CHOOSE g \in G : \A h \in G : rs[h].at <= rs[g].at
<1>1. CASE G = {}
  <2>1. RunIn(rs, cut) = 0
    BY <1>1 DEF RunIn
  <2> QED BY <1>1, <2>1
<1>2. CASE G # {}
  <2> DEFINE ats == {rs[g].at : g \in G}
  <2>1. ats \subseteq Nat /\ ats # {} /\ \A y \in ats : y <= cut
    BY <1>2 DEF Dated
  <2>2. PICK y \in ats : \A a \in ats : a <= y
    <3> HIDE DEF ats
    <3> QED BY <2>1, BoundedMax
  <2>3. \E g \in G : \A h \in G : rs[h].at <= rs[g].at
    BY <2>2
  <2>4. x \in G /\ \A h \in G : rs[h].at <= rs[x].at
    <3> HIDE DEF G
    <3> QED BY <2>3
  <2>5. RunIn(rs, cut) = x
    BY <1>2 DEF RunIn
  <2> HIDE DEF x
  <2> QED BY <2>4, <2>5
<1> QED BY <1>1, <1>2

\* It is the only one.
LEMMA RunIsNewest ==
  ASSUME NEW rs, NEW n \in Nat, Dated(rs, n), NEW cut \in Nat,
         NEW x \in Done(rs), rs[x].at <= cut,
         \A h \in Done(rs) : rs[h].at <= cut => rs[h].at <= rs[x].at
  PROVE  RunIn(rs, cut) = x
<1> DEFINE y == RunIn(rs, cut)
<1>1. /\ y \in Done(rs) /\ rs[y].at <= cut
      /\ \A h \in Done(rs) : rs[h].at <= cut => rs[h].at <= rs[y].at
  BY NewestRun
<1> HIDE DEF y
<1>2. rs[y].at = rs[x].at
  BY <1>1 DEF Dated
<1>3. y = x
  BY <1>1, <1>2 DEF Dated
<1> QED BY <1>3 DEF y

\* What a run says is formed.
LEMMA ResultsFormed ==
  ASSUME NEW rs, NEW n \in Nat, Dated(rs, n)
  PROVE  /\ \A g \in Done(rs) \cup {0} : Formed(ResultIn(rs, g))
         /\ \A cut \in Nat : RunIn(rs, cut) \in Done(rs) \cup {0}
         /\ Formed(LatestIn(rs, n))
<1>1. \A g \in Done(rs) \cup {0} : Formed(ResultIn(rs, g))
  BY NoResultFormed DEF Dated, ResultIn
<1>2. \A cut \in Nat : RunIn(rs, cut) \in Done(rs) \cup {0}
  BY NewestRun
<1> QED BY <1>1, <1>2 DEF LatestIn

\* Time passes, and rows of runs change that are not completed.
LEMMA RunsSame ==
  ASSUME NEW rs, NEW n \in Nat, Dated(rs, n), NEW x \in Nat, n <= x,
         NEW ss, 0 \notin DOMAIN ss, Done(ss) = Done(rs),
         \A g \in Done(rs) : ss[g].at = rs[g].at /\ ss[g].result = rs[g].result
  PROVE  /\ Dated(ss, x)
         /\ \A cut \in Nat : RunIn(ss, cut) = RunIn(rs, cut)
         /\ \A g \in Done(rs) \cup {0} : ResultIn(ss, g) = ResultIn(rs, g)
         /\ LatestIn(ss, x) = LatestIn(rs, n)
<1>1. Dated(ss, x)
  BY DEF Dated
<1>2. ASSUME NEW cut \in Nat
      PROVE  RunIn(ss, cut) = RunIn(rs, cut)
  <2> DEFINE y == RunIn(rs, cut)
  <2>1. CASE y = 0 /\ \A h \in Done(rs) : ~(rs[h].at <= cut)
    <3>1. \A h \in Done(ss) : ~(ss[h].at <= cut)
      BY <2>1
    <3>2. RunIn(ss, cut) = 0
      BY <1>1, <3>1, NewestRun
    <3> QED BY <2>1, <3>2
  <2>2. CASE /\ y \in Done(rs) /\ rs[y].at <= cut
             /\ \A h \in Done(rs) : rs[h].at <= cut => rs[h].at <= rs[y].at
    <3> HIDE DEF y
    <3>1. /\ y \in Done(ss) /\ ss[y].at <= cut
          /\ \A h \in Done(ss) : ss[h].at <= cut => ss[h].at <= ss[y].at
      BY <2>2
    <3>2. RunIn(ss, cut) = y
      BY ONLY <1>1, <3>1, RunIsNewest, x \in Nat, cut \in Nat
    <3> QED BY <3>2 DEF y
  <2> QED BY <2>1, <2>2, NewestRun
<1>3. \A g \in Done(rs) \cup {0} : ResultIn(ss, g) = ResultIn(rs, g)
  BY DEF ResultIn, Dated
<1>4. RunIn(rs, x) = RunIn(rs, n)
  <2>1. \A h \in Done(rs) : rs[h].at <= x /\ rs[h].at <= n
    BY DEF Dated
  <2>2. CASE RunIn(rs, n) = 0 /\ \A h \in Done(rs) : ~(rs[h].at <= n)
    BY <2>1, <2>2, NewestRun
  <2>3. CASE RunIn(rs, n) \in Done(rs) /\ \A h \in Done(rs) : rs[h].at <= n => rs[h].at <= rs[RunIn(rs, n)].at
    BY <2>1, <2>3, RunIsNewest
  <2> QED BY <2>2, <2>3, NewestRun
<1>5. RunIn(rs, n) \in Done(rs) \cup {0}
  BY ResultsFormed
<1> QED BY <1>1, <1>2, <1>3, <1>4, <1>5 DEF LatestIn

\* Run g completes with result R and time a.
LEMMA RunsCompleted ==
  ASSUME NEW rs, NEW n \in Nat, Dated(rs, n),
         NEW g, g # 0, g \notin Done(rs), NEW a \in Nat, a <= n, \A h \in Done(rs) : rs[h].at # a,
         NEW R, Formed(R), NEW ss, 0 \notin DOMAIN ss, Done(ss) = Done(rs) \cup {g},
         ss[g].at = a, ss[g].result = R, \A h \in Done(rs) : ss[h] = rs[h]
  PROVE  /\ Dated(ss, n)
         /\ \A cut \in Nat : RunIn(ss, cut) \in {RunIn(rs, cut), g}
         /\ RunIn(ss, a) = g
         /\ (\A h \in Done(rs) : rs[h].at < a) => \A cut \in Nat : a <= cut => RunIn(ss, cut) = g
         /\ \A h \in Done(rs) \cup {0} : ResultIn(ss, h) = ResultIn(rs, h)
         /\ ResultIn(ss, g) = R
<1>1. Dated(ss, n)
  BY DEF Dated
<1>2. ASSUME NEW cut \in Nat, RunIn(ss, cut) # g
      PROVE  RunIn(ss, cut) = RunIn(rs, cut)
  <2> DEFINE y == RunIn(ss, cut)
  <2>1. CASE y = 0 /\ \A h \in Done(ss) : ~(ss[h].at <= cut)
    <3>1. \A h \in Done(rs) : ~(rs[h].at <= cut)
      BY <2>1
    <3> QED BY <2>1, <3>1, NewestRun
  <2>2. CASE /\ y \in Done(ss) /\ ss[y].at <= cut
             /\ \A h \in Done(ss) : ss[h].at <= cut => ss[h].at <= ss[y].at
    <3>1. y # g
      BY <1>2
    <3> HIDE DEF y
    <3>2. /\ y \in Done(rs) /\ rs[y].at <= cut
          /\ \A h \in Done(rs) : rs[h].at <= cut => rs[h].at <= rs[y].at
      BY <2>2, <3>1
    <3>3. RunIn(rs, cut) = y
      BY <3>2, RunIsNewest
    <3> QED BY <3>3 DEF y
  <2> QED BY <1>1, <2>1, <2>2, NewestRun
<1>3. ASSUME \A h \in Done(rs) : rs[h].at < a, NEW cut \in Nat, a <= cut
      PROVE  RunIn(ss, cut) = g
  <2>1. g \in Done(ss) /\ ss[g].at <= cut /\ \A h \in Done(ss) : ss[h].at <= ss[g].at
    BY <1>3 DEF Dated
  <2> QED BY <1>1, <2>1, RunIsNewest
<1>4. \A h \in Done(rs) \cup {0} : ResultIn(ss, h) = ResultIn(rs, h)
  BY DEF ResultIn, Dated, Done
<1>5. ResultIn(ss, g) = R
  BY DEF ResultIn
<1>6. RunIn(ss, a) = g
  <2>1. /\ g \in Done(ss) /\ ss[g].at <= a
        /\ \A h \in Done(ss) : ss[h].at <= a => ss[h].at <= ss[g].at
    BY DEF Dated
  <2> QED BY <1>1, <2>1, RunIsNewest
<1> QED BY <1>1, <1>2, <1>3, <1>4, <1>5, <1>6

-----------------------------------------------------------------------------
(***************************************************************************)
(* A change of the evidence, the runs and the time, from O, rs and n to Q, *)
(* ss and x, that is no news of identity i.                                *)
(***************************************************************************)
NameStays(O, n, Q, x, j) ==
  /\ NameIn(Q, j, x) = NameIn(O, j, n)
  /\ \A cut \in 0..n : NameIn(Q, j, cut) = NameIn(O, j, cut)

NoNews(O, n, rs, Q, x, ss, i) ==
  /\ Same(LatestIn(ss, x), LatestIn(rs, n), i)
  /\ \A g \in Done(rs) \cup {0} : ResultIn(ss, g) = ResultIn(rs, g)
  /\ \A cut \in 0..n : \/ RunIn(ss, cut) = RunIn(rs, cut)
                       \/ Same(ResultIn(ss, RunIn(ss, cut)), LatestIn(ss, x), i)
  /\ \A j \in Kin(LatestIn(rs, n), {i}) : NameStays(O, n, Q, x, j)

\* What was good for the identity still is.
LEMMA GoodStays ==
  ASSUME NEW O, NEW n \in Nat, NEW rs, NEW Q, NEW x \in Nat, NEW ss, NEW i,
         NoNews(O, n, rs, Q, x, ss, i), NEW cut \in Nat, cut <= n
  PROVE  /\ \A k : \A g \in Done(rs) \cup {0} :
              GoodFor(O, n, rs, i, k, g, cut) => GoodFor(Q, x, ss, i, k, g, cut)
         /\ RunIn(rs, cut) \in Done(rs) \cup {0} => \A k :
              GoodFor(O, n, rs, i, k, RunIn(rs, cut), cut) =>
                GoodFor(Q, x, ss, i, k, RunIn(ss, cut), cut)
<1> DEFINE L == LatestIn(rs, n)
           M == LatestIn(ss, x)
<1>1. /\ Same(M, L, i) /\ cut \in 0..n
      /\ \A g \in Done(rs) \cup {0} : ResultIn(ss, g) = ResultIn(rs, g)
      /\ RunIn(ss, cut) = RunIn(rs, cut) \/ Same(ResultIn(ss, RunIn(ss, cut)), M, i)
      /\ \A j \in Kin(L, {i}) : NameStays(O, n, Q, x, j)
  BY DEF NoNews
<1>2. /\ \A j \in Kin(L, {i}) : NameIn(O, j, cut) = NameIn(O, j, n) =>
                                  NameIn(Q, j, cut) = NameIn(Q, j, x)
      /\ Kin(M, {i}) = Kin(L, {i})
  BY <1>1 DEF NameStays, Same
<1>3. FreshIn(O, n, L, i, cut) => FreshIn(Q, x, M, i, cut)
  BY <1>2 DEF FreshIn
<1>4. \A R : Same(R, L, i) => Same(R, M, i)
  <2>1. Same(L, M, i)
    BY <1>1, SameEquivalent
  <2> HIDE DEF L, M
  <2> QED BY <2>1, SameEquivalent
<1>5. \A g \in Done(rs) \cup {0} : Good(O, n, rs, i, g, cut) => Good(Q, x, ss, i, g, cut)
  BY <1>1, <1>3, <1>4 DEF Good
<1>6. ASSUME NEW k, NEW g \in Done(rs) \cup {0}, GoodFor(O, n, rs, i, k, g, cut),
             Concerns(x, ss, i, k, g)
      PROVE  Good(Q, x, ss, i, g, cut)
  <2>1. Concerns(n, rs, i, k, g)
    BY <1>1, <1>2, <1>6 DEF Concerns
  <2> QED BY <1>5, <1>6, <2>1 DEF GoodFor
<1>7. ASSUME NEW k, RunIn(rs, cut) \in Done(rs) \cup {0},
             GoodFor(O, n, rs, i, k, RunIn(rs, cut), cut), Concerns(x, ss, i, k, RunIn(ss, cut))
      PROVE  Good(Q, x, ss, i, RunIn(ss, cut), cut)
  <2>1. CASE RunIn(ss, cut) = RunIn(rs, cut)
    BY <1>6, <1>7, <2>1
  <2>2. CASE Same(ResultIn(ss, RunIn(ss, cut)), M, i)
    <3>1. Kin(ResultIn(ss, RunIn(ss, cut)), {i}) = Kin(L, {i})
      BY <1>2, <2>2 DEF Same
    <3>2. Concerns(n, rs, i, k, RunIn(rs, cut))
      BY <1>2, <1>7, <3>1 DEF Concerns
    <3>3. Good(O, n, rs, i, RunIn(rs, cut), cut)
      BY <1>7, <3>2 DEF GoodFor
    <3> QED BY <1>3, <2>2, <3>3 DEF Good
  <2> QED BY <1>1, <2>1, <2>2
<1> QED BY <1>6, <1>7 DEF GoodFor

\* So does what a row of work has for it.
LEMMA GoodRowStays ==
  ASSUME NEW O, NEW n \in Nat, NEW rs, Dated(rs, n), NEW Q, NEW x \in Nat, NEW ss, NEW i,
         NoNews(O, n, rs, Q, x, ss, i), NEW k, NEW w, Phased(rs, n, w), NEW t,
         GoodRow(O, n, rs, i, k, w, t)
  PROVE  GoodRow(Q, x, ss, i, k, w, t)
<1>1. /\ w.reqCut \in Nat /\ w.reqCut <= n /\ w.actCut \in Nat /\ w.actCut <= n
      /\ w.actRun \in Done(rs) \cup {0}
  BY DEF Phased
<1>2. RunIn(rs, w.reqCut) \in Done(rs) \cup {0} /\ RunIn(rs, w.actCut) \in Done(rs) \cup {0}
  BY <1>1, ResultsFormed
<1>3. /\ GoodFor(O, n, rs, i, k, RunIn(rs, w.reqCut), w.reqCut) =>
           GoodFor(Q, x, ss, i, k, RunIn(ss, w.reqCut), w.reqCut)
      /\ GoodFor(O, n, rs, i, k, RunIn(rs, w.actCut), w.actCut) =>
           GoodFor(Q, x, ss, i, k, RunIn(ss, w.actCut), w.actCut)
      /\ GoodFor(O, n, rs, i, k, w.actRun, w.actCut) =>
           GoodFor(Q, x, ss, i, k, w.actRun, w.actCut)
  BY <1>1, <1>2, GoodStays
<1> QED BY <1>3 DEF GoodRow

\* A member's promise is kept through it.
LEMMA PromiseStays ==
  ASSUME NEW O, NEW n \in Nat, NEW rs, Dated(rs, n), Observed(O, n),
         NEW Q, NEW x \in Nat, NEW ss, Dated(ss, x), Observed(Q, x),
         NEW m \in Member, NoNews(O, n, rs, Q, x, ss, IdentityOf[m]),
         NEW q, \A k \in Identity : Phased(rs, n, q[k]), NEW y, NEW t,
         Promised(O, n, rs, q, y, m, t)
  PROVE  Promised(Q, x, ss, q, y, m, t)
<1> DEFINE i == IdentityOf[m]
           L == LatestIn(rs, n)
           M == LatestIn(ss, x)
<1>1. i \in Exact
  BY ProjectionAssumption
<1>2. Same(M, L, i) /\ \A j \in Kin(L, {i}) : NameIn(O, j, n) = NameIn(Q, j, x)
  BY DEF NoNews, NameStays
<1>3. Same(L, M, i) /\ CanonicalIn(L, i) = CanonicalIn(M, i)
  <2> HIDE DEF L, M, i
  <2> QED BY <1>2, SameEquivalent
<1>4. Shown(O, y.group, i, L, n) = Shown(Q, y.group, i, M, x)
  <2>1. Formed(L) /\ Formed(M)
    BY ResultsFormed
  <2>2. (\A o \in O : o.id \in Exact) /\ (\A o \in Q : o.id \in Exact)
    BY DEF Observed
  <2> HIDE DEF L, M, i
  <2> QED BY <1>1, <1>2, <1>3, <2>1, <2>2, ShownSame
<1>5. \A k \in Identity : GoodRow(Q, x, ss, i, k, q[k], t)
  BY GoodRowStays DEF Promised
<1> HIDE DEF L, M
<1> QED BY <1>3, <1>4, <1>5 DEF Promised, L, M

-----------------------------------------------------------------------------
(***************************************************************************)
(* Requests: the queue q with revisions up to z becomes p, up to y.        *)
(***************************************************************************)
Asked(q, z, p, y, S, T, cut) ==
  \A k \in Identity :
    /\ k \in T => \E r \in (z + 1)..y : p[k] = Requested(q[k], r, cut)
    /\ k \in S \ T => p[k] = Retired(q[k])
    /\ k \notin S \cup T => p[k] = q[k]

\* The upsert is such a request.
LEMMA UpsertAsks ==
  ASSUME QueueInv, NEW S, NEW T, T \subseteq Identity, NEW cut,
         work' = Upserted(S, T, cut), rev' = rev + Cardinality(T)
  PROVE  Asked(work, rev, work', rev', S, T, cut) /\ rev \in Nat /\ rev' \in Nat /\ rev <= rev'
<1>1. IsFiniteSet(T) /\ Cardinality(T) \in Nat /\ rev \in Nat
  BY ResolutionAssumption, FS_Subset, FS_CardinalityType DEF QueueInv
<1>2. ASSUME NEW k \in T
      PROVE  \E r \in (rev + 1)..rev' : work'[k] = Requested(work[k], r, cut)
  <2> DEFINE below == {j \in T : j <= k}
  <2>1. below \subseteq T /\ k \in below
    BY ResolutionAssumption
  <2>2. work'[k] = Requested(work[k], rev + Cardinality(below), cut)
    BY DEF Upserted
  <2> HIDE DEF below
  <2>3. IsFiniteSet(below) /\ Cardinality(below) <= Cardinality(T) /\ Cardinality(below) \in Nat
        /\ Cardinality(below) # 0
    BY <1>1, <2>1, FS_Subset, FS_CardinalityType, FS_EmptySet
  <2>4. rev + Cardinality(below) \in (rev + 1)..rev'
    BY <1>1, <2>3
  <2> QED BY <2>2, <2>4
<1>3. \A k \in Identity : /\ k \in S \ T => work'[k] = Retired(work[k])
                          /\ k \notin S \cup T => work'[k] = work[k]
  BY DEF Upserted
<1> QED BY <1>1, <1>2, <1>3 DEF Asked

\* The columns of a requested and of a retired row.
LEMMA RequestColumns ==
  ASSUME NEW w, NEW C, w \in WorkSet(C), NEW r, NEW cut
  PROVE  /\ Requested(w, r, cut).req = r /\ Requested(w, r, cut).reqCut = cut
         /\ \/ /\ w.status \in Active /\ Requested(w, r, cut).status = w.status
               /\ w.act # 0 /\ Requested(w, r, cut).act = w.act
               /\ Requested(w, r, cut).actCut = w.actCut
               /\ Requested(w, r, cut).actRun = w.actRun
               /\ Requested(w, r, cut).cursor = w.cursor
            \/ /\ Requested(w, r, cut).status = "PENDING" /\ Requested(w, r, cut).act = 0
               /\ Requested(w, r, cut).actCut = 0 /\ Requested(w, r, cut).actRun = 0
               /\ Requested(w, r, cut).cursor = 0
         /\ \/ Retired(w) = w /\ w.status \notin {"PENDING", "RETRY", "FAILED"}
            \/ /\ Retired(w).status = "IDLE" /\ Retired(w).act = 0 /\ Retired(w).cursor = 0
               /\ Retired(w).actRun = 0 /\ Retired(w).actCut = 0
               /\ Retired(w).reqCut = w.reqCut
<1>1. CASE w.status \in {"RUNNING", "RETRY"} /\ w.act # 0
  <2>1. Requested(w, r, cut) = [w EXCEPT !.req = r, !.reqCut = cut]
    BY <1>1 DEF Requested
  <2>2. w.status \in Active
    BY <1>1 DEF Active
  <2> QED BY <1>1, <2>1, <2>2 DEF WorkSet, Retired
<1>2. CASE ~(w.status \in {"RUNNING", "RETRY"} /\ w.act # 0)
  BY <1>2 DEF Requested, NoWork, WorkSet, Retired
<1> QED BY <1>1, <1>2

\* Requests keep the phases of the rows.
LEMMA AskedPhased ==
  ASSUME NEW q, NEW z \in Nat, NEW p, NEW y \in Nat, NEW S, NEW T, NEW cut \in Nat,
         Asked(q, z, p, y, S, T, cut),
         NEW rs, NEW n \in Nat, cut <= n, NEW k \in Identity,
         WorkRow(q[k], z), Phased(rs, n, q[k])
  PROVE  Phased(rs, n, p[k])
<1> DEFINE w == q[k]
           C == {w.reqCut, w.actCut, w.actRun, w.cursor, w.lease}
<1>1. w \in WorkSet(C) /\ Phased(rs, n, w)
  BY DEF WorkRow
<1>2. p[k] = w \/ p[k] = Retired(w) \/ \E r \in (z + 1)..y : p[k] = Requested(w, r, cut)
  BY DEF Asked
<1> HIDE DEF w, C
<1>3. ASSUME NEW r \in (z + 1)..y
      PROVE  Phased(rs, n, Requested(w, r, cut))
  <2> DEFINE v == Requested(w, r, cut)
  <2>1. /\ v.req = r /\ v.reqCut = cut
        /\ \/ /\ w.status \in Active /\ v.status = w.status /\ w.act # 0 /\ v.act = w.act
              /\ v.actCut = w.actCut /\ v.actRun = w.actRun /\ v.cursor = w.cursor
           \/ /\ v.status = "PENDING" /\ v.act = 0 /\ v.actCut = 0 /\ v.actRun = 0 /\ v.cursor = 0
    BY <1>1, RequestColumns
  <2> HIDE DEF v
  <2>2. r # 0
    OBVIOUS
  <2>3. Phased(rs, n, v)
    BY <1>1, <2>1, <2>2 DEF Phased
  <2> QED BY <2>3 DEF v
<1>4. Phased(rs, n, Retired(w))
  <2> DEFINE v == Retired(w)
  <2>1. \/ v = w
        \/ /\ v.status = "IDLE" /\ v.act = 0 /\ v.cursor = 0 /\ v.actRun = 0 /\ v.actCut = 0
           /\ v.reqCut = w.reqCut
    BY <1>1, RequestColumns
  <2> HIDE DEF v
  <2>2. Phased(rs, n, v)
    BY <1>1, <2>1 DEF Phased, Active
  <2> QED BY <2>2 DEF v
<1> QED BY <1>1, <1>2, <1>3, <1>4 DEF w

\* What is asked for at a cutoff that is good for an identity is good for it,
\* and nothing else is at a new revision.
LEMMA AskedGood ==
  ASSUME NEW q, NEW z \in Nat, NEW p, NEW y \in Nat, NEW S, NEW T, NEW cut,
         Asked(q, z, p, y, S, T, cut),
         NEW O, NEW n, NEW rs, NEW i, NEW t \in 1..y, NEW k \in Identity, WorkRow(q[k], z),
         k \in T => GoodFor(O, n, rs, i, k, RunIn(rs, cut), cut),
         z < t \/ GoodRow(O, n, rs, i, k, q[k], t)
  PROVE  GoodRow(O, n, rs, i, k, p[k], t)
<1> DEFINE w == q[k]
           C == {w.reqCut, w.actCut, w.actRun, w.cursor, w.lease}
<1>1. w \in WorkSet(C) /\ w.act <= w.req /\ w.req <= z
  BY DEF WorkRow
<1>2. w.act \in Nat /\ w.req \in Nat
  BY <1>1 DEF WorkSet
<1>3. \/ p[k] = w
      \/ p[k] = Retired(w)
      \/ k \in T /\ \E r \in (z + 1)..y : p[k] = Requested(w, r, cut)
  BY DEF Asked
<1>4. GoodRow(O, n, rs, i, k, w, t)
  BY <1>1, <1>2 DEF GoodRow
<1> HIDE DEF w, C
<1>5. ASSUME NEW r \in (z + 1)..y, k \in T
      PROVE  GoodRow(O, n, rs, i, k, Requested(w, r, cut), t)
  <2> DEFINE v == Requested(w, r, cut)
  <2>1. /\ v.req = r /\ v.reqCut = cut
        /\ \/ /\ w.status \in Active /\ v.act = w.act
              /\ v.actCut = w.actCut /\ v.actRun = w.actRun
           \/ v.act = 0
    BY <1>1, RequestColumns
  <2> HIDE DEF v
  <2>2. GoodRow(O, n, rs, i, k, v, t)
    BY <1>4, <1>5, <2>1 DEF GoodRow
  <2> QED BY <2>2 DEF v
<1>6. GoodRow(O, n, rs, i, k, Retired(w), t)
  <2> DEFINE v == Retired(w)
  <2>1. v = w \/ v.status = "IDLE"
    BY <1>1, RequestColumns
  <2> HIDE DEF v
  <2>2. GoodRow(O, n, rs, i, k, v, t)
    BY <1>4, <2>1 DEF GoodRow, Active
  <2> QED BY <2>2 DEF v
<1> QED BY <1>3, <1>4, <1>5, <1>6

\* A row that is asked for will write every member.
LEMMA AskedAwaits ==
  ASSUME NEW q, NEW z \in Nat, NEW p, NEW y \in Nat, NEW S, NEW T, NEW cut,
         Asked(q, z, p, y, S, T, cut), NEW k \in Identity, k \in T, WorkRow(q[k], z)
  PROVE  \E r \in (z + 1)..y : \A m : \A t \in 1..r : Awaits(p[k], m, t)
<1> DEFINE w == q[k]
           C == {w.reqCut, w.actCut, w.actRun, w.cursor, w.lease}
<1>1. w \in WorkSet(C) /\ w.act <= w.req /\ w.req <= z
  BY DEF WorkRow
<1>2. w.act \in Nat /\ w.req \in Nat
  BY <1>1 DEF WorkSet
<1>3. PICK r \in (z + 1)..y : p[k] = Requested(w, r, cut)
  BY DEF Asked
<1> HIDE DEF w, C
<1> DEFINE v == Requested(w, r, cut)
<1>4. /\ v.req = r
      /\ \/ w.status \in Active /\ v.status = w.status /\ v.act = w.act
         \/ v.status = "PENDING" /\ v.act = 0
  BY <1>1, RequestColumns
<1> HIDE DEF v
<1>5. v.status \in Active /\ v.act < v.req
  BY <1>1, <1>2, <1>4 DEF Active
<1>6. \A m : \A t \in 1..r : Awaits(v, m, t)
  BY <1>2, <1>4, <1>5 DEF Awaits
<1> QED BY <1>3, <1>6 DEF v

\* Work asked for a member's key at a good cutoff is a promise to the member.
LEMMA AskedKeeps ==
  ASSUME NEW q, NEW z \in Nat, NEW p, NEW y \in Nat, z <= y, NEW S, NEW T, NEW cut,
         Asked(q, z, p, y, S, T, cut), \A k \in Identity : WorkRow(q[k], z),
         NEW O, NEW n, NEW rs, NEW m \in Member, NEW u, u.rev \in Nat, u.rev <= z,
         \A k \in Identity : k \in T =>
           GoodFor(O, n, rs, IdentityOf[m], k, RunIn(rs, cut), cut),
         CanonicalIn(LatestIn(rs, n), IdentityOf[m]) \in Identity
  PROVE  /\ CanonicalIn(LatestIn(rs, n), IdentityOf[m]) \in T => Kept(O, n, rs, p, y, u, m)
         /\ CanonicalIn(LatestIn(rs, n), IdentityOf[m]) \notin S \ T =>
              (Kept(O, n, rs, q, z, u, m) => Kept(O, n, rs, p, y, u, m))
<1> DEFINE i == IdentityOf[m]
           c == CanonicalIn(LatestIn(rs, n), i)
<1>1. ASSUME NEW t \in 1..y, z < t \/ \A k \in Identity : GoodRow(O, n, rs, i, k, q[k], t)
      PROVE  \A k \in Identity : GoodRow(O, n, rs, i, k, p[k], t)
  <2> HIDE DEF i
  <2> SUFFICES ASSUME NEW k \in Identity
               PROVE  GoodRow(O, n, rs, i, k, p[k], t)
    OBVIOUS
  <2>1. WorkRow(q[k], z) /\ (z < t \/ GoodRow(O, n, rs, i, k, q[k], t))
    BY <1>1
  <2>2. k \in T => GoodFor(O, n, rs, i, k, RunIn(rs, cut), cut)
    BY DEF i
  <2> QED BY <2>1, <2>2, AskedGood
<1> HIDE DEF c
<1>2. c \in Identity
  BY DEF c
<1>3. c \in T => \E r \in (z + 1)..y : \A x : \A t \in 1..r : Awaits(p[c], x, t)
  BY <1>2, AskedAwaits
<1>4. ASSUME c \in T
      PROVE  Kept(O, n, rs, p, y, u, m)
  <2>1. PICK r \in (z + 1)..y : \A x : \A t \in 1..r : Awaits(p[c], x, t)
    BY <1>3, <1>4
  <2>2. r \in 1..y /\ r \in 1..r /\ z < r /\ ~(u.rev >= r)
    OBVIOUS
  <2>3. Awaits(p[c], m, r)
    BY <2>1, <2>2
  <2>4. \A k \in Identity : GoodRow(O, n, rs, i, k, p[k], r)
    BY <1>1, <2>2
  <2>5. Promised(O, n, rs, p, u, m, r)
    BY <2>2, <2>3, <2>4 DEF Promised, c
  <2> QED BY <2>2, <2>5 DEF Kept
<1>5. ASSUME c \notin S \ T, Kept(O, n, rs, q, z, u, m)
      PROVE  Kept(O, n, rs, p, y, u, m)
  <2>1. PICK t \in 1..z : Promised(O, n, rs, q, u, m, t)
    BY <1>5 DEF Kept
  <2>2. t \in 1..y
    OBVIOUS
  <2>3. Awaits(q[c], m, t) => Awaits(p[c], m, t)
    <3>1. CASE c \in T
      <4>1. PICK r \in (z + 1)..y : \A x : \A s \in 1..r : Awaits(p[c], x, s)
        BY <1>3, <3>1
      <4>2. t \in 1..r
        OBVIOUS
      <4> QED BY <4>1, <4>2
    <3>2. CASE c \notin T
      <4>1. p[c] = q[c]
        BY <1>2, <1>5, <3>2 DEF Asked
      <4> QED BY <4>1
    <3> QED BY <3>1, <3>2
  <2>4. \A k \in Identity : GoodRow(O, n, rs, i, k, p[k], t)
    BY <1>1, <2>1, <2>2 DEF Promised
  <2>5. Promised(O, n, rs, p, u, m, t)
    BY <2>1, <2>3, <2>4 DEF Promised, c
  <2> QED BY <2>2, <2>5 DEF Kept
<1> QED BY <1>4, <1>5 DEF c

\* Work asked for up to the present is good for everyone.
LEMMA GoodNow ==
  ASSUME NEW O, NEW n, NEW rs, NEW i
  PROVE  Good(O, n, rs, i, RunIn(rs, n), n)
<1>1. Same(LatestIn(rs, n), LatestIn(rs, n), i)
  BY SameEquivalent
<1> QED BY <1>1 DEF Good, FreshIn, LatestIn

-----------------------------------------------------------------------------
(***************************************************************************)
(* What the parts of the invariant need of a step.                         *)
(***************************************************************************)
\* What an open resolution will say, while requests are noted and no run completes.
LEMMA AnnouncedStays ==
  ASSUME NEW O, NEW n \in Nat, NEW rs, NEW G, NEW b, Announced(O, n, rs, G, b),
         b.at \in Nat, b.at <= n,
         NEW c, c.result = b.result, c.targets = b.targets, c.at = b.at, b.beside \subseteq c.beside,
         NEW Q, NEW x, NEW ss, NEW H,
         LatestIn(ss, x) = LatestIn(rs, n), Done(ss) = Done(rs),
         \A g \in Done(rs) : ss[g].at = rs[g].at,
         \A i \in Identity : i \notin H =>
           i \notin G /\ \A j \in Kin(LatestIn(rs, n), {i}) : NameStays(O, n, Q, x, j),
         \A j \in Identity : j \notin c.beside => NameStays(O, n, Q, x, j)
  PROVE  Announced(Q, x, ss, H, c)
<1> DEFINE L == LatestIn(rs, n)
<1>1. b.at \in 0..n
  OBVIOUS
<1>2. ASSUME NEW R, NEW i, \A j \in Kin(R, {i}) : NameStays(O, n, Q, x, j),
             FreshIn(O, n, R, i, b.at)
      PROVE  FreshIn(Q, x, R, i, b.at)
  BY <1>1, <1>2 DEF FreshIn, NameStays
<1> SUFFICES ASSUME NEW i \in Identity
             PROVE  /\ i \notin H \cup Kin(b.result, b.targets) => Same(b.result, L, i)
                    /\ i \notin H => FreshIn(Q, x, L, i, b.at)
                    /\ Kin(b.result, {i}) \cap c.beside = {} =>
                         FreshIn(Q, x, b.result, i, b.at) /\ \A g \in Done(rs) : rs[g].at < b.at
  BY DEF Announced
<1>3. /\ i \notin G \cup Kin(b.result, b.targets) => Same(b.result, L, i)
      /\ i \notin G => FreshIn(O, n, L, i, b.at)
      /\ Kin(b.result, {i}) \cap b.beside = {} =>
           FreshIn(O, n, b.result, i, b.at) /\ \A g \in Done(rs) : rs[g].at < b.at
  BY DEF Announced
<1>4. ASSUME i \notin H
      PROVE  FreshIn(Q, x, L, i, b.at)
  <2>1. (\A j \in Kin(L, {i}) : NameStays(O, n, Q, x, j)) /\ FreshIn(O, n, L, i, b.at)
    BY <1>3, <1>4
  <2> HIDE DEF L
  <2> QED BY <1>2, <2>1
<1>5. ASSUME Kin(b.result, {i}) \cap c.beside = {}
      PROVE  FreshIn(Q, x, b.result, i, b.at) /\ \A g \in Done(rs) : rs[g].at < b.at
  <2>1. \A j \in Kin(b.result, {i}) : NameStays(O, n, Q, x, j)
    BY <1>5 DEF Kin
  <2>2. Kin(b.result, {i}) \cap b.beside = {}
    BY <1>5
  <2> QED BY <1>2, <1>3, <2>1, <2>2
<1> QED BY <1>3, <1>4, <1>5

\* Time passes and other runs change while a resolution is open.
LEMMA HoldStays ==
  ASSUME NEW rs, NEW n \in Nat, NEW r, NEW b, Holds(rs, n, r, b),
         NEW c, c.gen = b.gen, c.result = b.result, c.at = b.at, c.sources = b.sources,
         c.targets = b.targets, NEW x \in Nat, n <= x, NEW ss,
         b.gen \in DOMAIN ss, ss[b.gen].status = "RUNNING", ss[b.gen].lease = r,
         Done(ss) = Done(rs), \A g \in Done(rs) : ss[g].at = rs[g].at
  PROVE  Holds(ss, x, r, c)
BY DEF Holds

\* The phases of a row do not depend on how far time and the runs have come.
LEMMA PhaseStays ==
  ASSUME NEW rs, NEW n \in Nat, NEW w, Phased(rs, n, w), NEW x \in Nat, n <= x,
         NEW ss, Done(rs) \subseteq Done(ss)
  PROVE  Phased(ss, x, w)
BY DEF Phased

\* A note adds to what is requested beside an open resolution.
LEMMA NotedColumns ==
  ASSUME OpenInv, NEW K, NEW r \in Actor, Noted(K)[r] # None
  PROVE  /\ open[r] # None /\ open[r].at \in Nat
         /\ Noted(K)[r].gen = open[r].gen /\ Noted(K)[r].result = open[r].result
         /\ Noted(K)[r].at = open[r].at /\ Noted(K)[r].sources = open[r].sources
         /\ Noted(K)[r].targets = open[r].targets /\ Noted(K)[r].writes = open[r].writes
         /\ Noted(K)[r].beside = open[r].beside \cup K
<1>1. open[r] # None /\ Noted(K)[r] = [open[r] EXCEPT !.beside = @ \cup K]
  BY DEF Noted
<1> DEFINE b == open[r]
           C == {b.gen, b.result, b.beside, b.sources, b.writes}
<1>2. b \in OpenSet(C)
  BY <1>1 DEF OpenInv, OpenRow
<1> HIDE DEF C
<1> QED BY <1>1, <1>2 DEF OpenSet

\* The rows of the queue and of the runs are typed.
LEMMA Rows ==
  ASSUME Inv
  PROVE  /\ now \in Nat /\ rev \in Nat /\ 0 \notin DOMAIN runs
         /\ \A k \in Identity : WorkRow(work[k], rev)
         /\ \A m \in Member : member[m].rev \in Nat /\ member[m].rev <= rev
<1>1. 0 \notin DOMAIN runs
  BY DEF Inv, RunInv
<1>2. \A m \in Member : member[m].rev \in Nat /\ member[m].rev <= rev
  BY DEF Inv, MemberInv, MemberRow, MemberSet
<1> QED BY <1>1, <1>2 DEF Inv, ClockInv, QueueInv

\* Nothing is requested and no run completes: names may only change in the gap.
LEMMA QuietKept ==
  ASSUME Inv, CurrentInv, now' \in Nat, now <= now', UNCHANGED <<work, rev>>,
         Observed(obs', now'),
         0 \notin DOMAIN runs', Done(runs') = Done(runs),
         \A g \in Done(runs) : runs'[g].at = runs[g].at /\ runs'[g].result = runs[g].result,
         \A i \in Identity : i \notin gap' =>
           i \notin gap /\ \A j \in Kin(Latest, {i}) : NameStays(obs, now, obs', now', j),
         \A m \in Member :
           member'[m].present /\ member'[m].known => member'[m] = member[m]
  PROVE  ObsInv' /\ TimeInv' /\ PhaseInv' /\ MemberPromise'
<1> DEFINE L == LatestIn(runs, now)
<1>1. now \in Nat /\ Dated(runs, now) /\ L = Latest
  BY Rows, InTheState DEF CurrentInv, TimeInv
<1>2. /\ Dated(runs', now') /\ LatestIn(runs', now') = L
      /\ \A c \in Nat : RunIn(runs', c) = RunIn(runs, c)
      /\ \A g \in Done(runs) \cup {0} : ResultIn(runs', g) = ResultIn(runs, g)
  BY <1>1, RunsSame
<1>3. ObsInv' /\ TimeInv'
  BY <1>2 DEF ObsInv, TimeInv
<1>4. PhaseInv'
  <2>1. ASSUME NEW k \in Identity
        PROVE  Phased(runs', now', work[k])
    <3>1. Phased(runs, now, work[k])
      BY DEF CurrentInv, PhaseInv
    <3> QED BY <1>1, <3>1, PhaseStays
  <2> QED BY <2>1 DEF PhaseInv
<1>5. ASSUME NEW m \in Member, member'[m].present, member'[m].known, IdentityOf[m] \notin gap'
      PROVE  Kept(obs', now', runs', work, rev, member'[m], m)
  <2> DEFINE i == IdentityOf[m]
             u == member'[m]
  <2>1. i \in Identity /\ i \notin gap /\ \A j \in Kin(L, {i}) : NameStays(obs, now, obs', now', j)
    <3>1. i \in Identity
      BY ProjectionAssumption DEF Exact
    <3> QED BY <1>1, <1>5, <3>1
  <2>2. u = member[m]
    BY <1>5
  <2>3. NoNews(obs, now, runs, obs', now', runs', i)
    <3>1. Same(L, L, i)
      BY SameEquivalent
    <3>2. \A c \in 0..now : RunIn(runs', c) = RunIn(runs, c)
      BY <1>1, <1>2
    <3> HIDE DEF i
    <3> QED BY <1>2, <2>1, <3>1, <3>2 DEF NoNews
  <2> HIDE DEF u
  <2>4. PICK t \in 1..rev : Promised(obs, now, runs, work, u, m, t)
    BY <1>5, <2>1, <2>2 DEF CurrentInv, MemberPromise, Kept, u
  <2>5. (\A k \in Identity : Phased(runs, now, work[k])) /\ Observed(obs, now)
    BY DEF CurrentInv, PhaseInv, ObsInv
  <2>6. Promised(obs', now', runs', work, u, m, t)
    <3> HIDE DEF L
    <3> QED BY <1>1, <1>2, <2>3, <2>4, <2>5, PromiseStays
  <2> QED BY <2>4, <2>6 DEF Kept, u
<1>6. MemberPromise'
  BY <1>5 DEF MemberPromise
<1> QED BY <1>3, <1>4, <1>6

\* What is open stays announced and held by its run.
LEMMA OpenKept ==
  ASSUME Inv, CurrentInv, now' \in Nat, now <= now',
         0 \notin DOMAIN runs', Done(runs') = Done(runs),
         \A g \in Done(runs) : runs'[g].at = runs[g].at /\ runs'[g].result = runs[g].result,
         \A i \in Identity : i \notin gap' =>
           i \notin gap /\ \A j \in Kin(Latest, {i}) : NameStays(obs, now, obs', now', j),
         NEW r \in Resolver, NEW c, open[r] # None,
         c.gen = open[r].gen, c.result = open[r].result, c.at = open[r].at,
         c.sources = open[r].sources, c.targets = open[r].targets,
         open[r].beside \subseteq c.beside,
         c.gen \in DOMAIN runs', runs'[c.gen].status = "RUNNING", runs'[c.gen].lease = r,
         \A j \in Identity : j \notin c.beside => NameStays(obs, now, obs', now', j)
  PROVE  Holds(runs', now', r, c) /\ Announced(obs', now', runs', gap', c)
<1> DEFINE b == open[r]
           L == LatestIn(runs, now)
<1>1. now \in Nat /\ Dated(runs, now) /\ L = Latest
  BY Rows, InTheState DEF CurrentInv, TimeInv
<1>2. LatestIn(runs', now') = L
  BY <1>1, RunsSame
<1>3. Holds(runs, now, r, b) /\ Announced(obs, now, runs, gap, b)
  BY DEF CurrentInv, HoldInv, OpenPromise
<1>4. b.at \in Nat /\ b.at <= now
  BY <1>3 DEF Holds
<1> HIDE DEF b
<1>5. /\ c.gen = b.gen /\ c.result = b.result /\ c.at = b.at /\ c.sources = b.sources
      /\ c.targets = b.targets /\ b.beside \subseteq c.beside
  BY DEF b
<1>6. Holds(runs', now', r, c)
  BY <1>1, <1>3, <1>5, HoldStays
<1>7. Announced(obs', now', runs', gap', c)
  BY <1>1, <1>2, <1>3, <1>4, <1>5, AnnouncedStays
<1> QED BY <1>6, <1>7

\* The open resolutions of a step that asks for nothing.
LEMMA NotedKept ==
  ASSUME Inv, CurrentInv, now' \in Nat, now <= now', UNCHANGED runs,
         \A i \in Identity : i \notin gap' =>
           i \notin gap /\ \A j \in Kin(Latest, {i}) : NameStays(obs, now, obs', now', j),
         NEW K, \A r \in Resolver : open'[r] = Noted(K)[r] \/ (open'[r] = open[r] /\ K = {}),
         \A j \in Identity : j \notin K => NameStays(obs, now, obs', now', j)
  PROVE  HoldInv' /\ OpenPromise'
<1>1. ASSUME NEW r \in Resolver, open'[r] # None
      PROVE  /\ open[r] # None /\ open'[r].at = open[r].at
             /\ Holds(runs', now', r, open'[r]) /\ Announced(obs', now', runs', gap', open'[r])
  <2> DEFINE c == open'[r]
  <2>1. /\ open[r] # None /\ c.gen = open[r].gen /\ c.result = open[r].result
        /\ c.at = open[r].at /\ c.sources = open[r].sources /\ c.targets = open[r].targets
        /\ c.beside = open[r].beside \cup K
    <3>1. OpenInv /\ r \in Actor
      BY DEF Inv, Actor
    <3>2. CASE c = Noted(K)[r]
      BY <1>1, <3>1, <3>2, NotedColumns
    <3>3. CASE c = open[r] /\ K = {}
      BY <1>1, <3>3
    <3> QED BY <3>2, <3>3
  <2>2. c.gen \in DOMAIN runs /\ runs[c.gen].status = "RUNNING" /\ runs[c.gen].lease = r
    BY <2>1 DEF CurrentInv, HoldInv, Holds
  <2>3. \A j \in Identity : j \notin c.beside => NameStays(obs, now, obs', now', j)
    BY <2>1
  <2>4. 0 \notin DOMAIN runs' /\ runs' = runs
    BY Rows
  <2> HIDE DEF c
  <2>5. Holds(runs', now', r, c) /\ Announced(obs', now', runs', gap', c)
    BY <2>1, <2>2, <2>3, <2>4, OpenKept
  <2> QED BY <2>1, <2>5 DEF c
<1> QED BY <1>1 DEF HoldInv, OpenPromise, CurrentInv

\* New observations leave all past names, and the names of other identities.
LEMMA ObservedStays ==
  ASSUME NEW O, NEW n \in Nat, Observed(O, n), NEW N,
         \A o \in N : o.id \in Exact /\ o.src \in Nat /\ o.src <= n + 1 /\ o.at = n + 1,
         \A o, p \in N : o.id = p.id => o = p
  PROVE  /\ Observed(O \cup N, n + 1)
         /\ \A j : \A cut \in 0..n : NameIn(O \cup N, j, cut) = NameIn(O, j, cut)
         /\ \A j : (\A o \in N : o.id # j) => NameStays(O, n, O \cup N, n + 1, j)
<1>1. Observed(O \cup N, n + 1)
  BY DEF Observed
<1>2. ASSUME NEW j, NEW cut \in 0..n
      PROVE  NameIn(O \cup N, j, cut) = NameIn(O, j, cut)
  <2>1. {o \in O \cup N : o.id = j /\ o.at <= cut} = {o \in O : o.id = j /\ o.at <= cut}
    OBVIOUS
  <2> QED BY <2>1 DEF NameIn
<1>3. ASSUME NEW j, \A o \in N : o.id # j
      PROVE  NameStays(O, n, O \cup N, n + 1, j)
  <2>1. {o \in O \cup N : o.id = j /\ o.at <= n + 1} = {o \in O : o.id = j /\ o.at <= n}
    BY <1>3 DEF Observed
  <2> QED BY <1>2, <2>1 DEF NameStays, NameIn
<1> QED BY <1>1, <1>2, <1>3

\* An identity whose observations are left alone keeps its names.
LEMMA SameNames ==
  ASSUME NEW O, NEW n \in Nat, NEW x \in Nat, n <= x, Observed(O, n), NEW Q, NEW j,
         {o \in Q : o.id = j} = {o \in O : o.id = j}
  PROVE  NameStays(O, n, Q, x, j)
<1>1. \A cut : {o \in Q : o.id = j /\ o.at <= cut} = {o \in O : o.id = j /\ o.at <= cut}
  OBVIOUS
<1>2. {o \in O : o.id = j /\ o.at <= x} = {o \in O : o.id = j /\ o.at <= n}
  BY DEF Observed
<1> QED BY <1>1, <1>2 DEF NameStays, NameIn

-----------------------------------------------------------------------------
(***************************************************************************)
(* Requests of observers and scans.                                        *)
(***************************************************************************)
\* What an open request knows stays true beside the names that it notes.
LEMMA AsksStay ==
  ASSUME NEW O, NEW n \in Nat, NEW rs, NEW b, Asks(O, n, rs, b),
         NEW c, c.result = b.result, c.at = b.at, c.sources = b.sources, c.targets = b.targets,
         c.writes = b.writes, b.beside \subseteq c.beside,
         NEW Q, NEW x \in Nat, n <= x, NEW ss, Observed(With(Q, c), x),
         \A j \in Identity \ c.beside : NameStays(With(O, b), n, With(Q, c), x, j),
         \/ Identity \subseteq c.beside
         \/ /\ LatestIn(ss, x) = LatestIn(rs, n)
            /\ ResultIn(ss, RunIn(ss, b.at)) = ResultIn(rs, RunIn(rs, b.at))
  PROVE  Asks(Q, x, ss, c)
<1>1. b.at \in 0..n /\ c.at \in Nat /\ c.at <= x
  BY DEF Asks
<1>2. \A j \in Identity \ c.beside : NameIn(With(Q, c), j, c.at) = NameIn(With(Q, c), j, x)
  BY <1>1 DEF Asks, NameStays
<1>3. \/ Identity \subseteq c.beside
      \/ c.result = LatestIn(ss, x) /\ ResultIn(ss, RunIn(ss, c.at)) = LatestIn(ss, x)
  BY DEF Asks
<1> QED BY <1>1, <1>2, <1>3 DEF Asks

\* Nothing is stored or requested, and no run completes.
LEMMA AskQuiet ==
  ASSUME Inv, CurrentInv, AskInv, now' \in Nat, now <= now', UNCHANGED obs,
         0 \notin DOMAIN runs', Done(runs') = Done(runs),
         \A g \in Done(runs) : runs'[g].at = runs[g].at /\ runs'[g].result = runs[g].result,
         NEW c, c # None, Asks(obs, now, runs, c)
  PROVE  Asks(obs', now', runs', c)
<1>1. now \in Nat /\ Dated(runs, now)
  BY Rows DEF CurrentInv, TimeInv
<1>2. /\ \A cut \in Nat : RunIn(runs', cut) = RunIn(runs, cut)
      /\ \A g \in Done(runs) \cup {0} : ResultIn(runs', g) = ResultIn(runs, g)
      /\ LatestIn(runs', now') = LatestIn(runs, now)
  BY <1>1, RunsSame
<1>3. /\ c.at \in Nat /\ Observed(With(obs, c), now) /\ Observed(With(obs, c), now')
  BY <1>1 DEF Asks, Observed
<1>4. ResultIn(runs', RunIn(runs', c.at)) = ResultIn(runs, RunIn(runs, c.at))
  <2>1. RunIn(runs, c.at) \in Done(runs) \cup {0}
    BY <1>1, <1>3, ResultsFormed
  <2> QED BY <1>2, <1>3, <2>1
<1>5. \A j : NameStays(With(obs, c), now, With(obs, c), now', j)
  BY <1>1, <1>3, SameNames
<1> QED BY <1>1, <1>2, <1>3, <1>4, <1>5, AsksStay

\* The requests that stay open.
LEMMA AskKept ==
  ASSUME Inv, CurrentInv, AskInv, now' \in Nat, now <= now', UNCHANGED obs,
         0 \notin DOMAIN runs', Done(runs') = Done(runs),
         \A g \in Done(runs) : runs'[g].at = runs[g].at /\ runs'[g].result = runs[g].result,
         \A a \in Requester : open'[a] # None => open'[a] = open[a]
  PROVE  AskInv'
<1>1. ASSUME NEW a \in Requester, open'[a] # None
      PROVE  Asks(obs', now', runs', open'[a])
  <2> DEFINE c == open[a]
  <2>1. c # None /\ open'[a] = c /\ Asks(obs, now, runs, c)
    BY <1>1 DEF AskInv
  <2> HIDE DEF c
  <2>2. Asks(obs', now', runs', c)
    BY <2>1, AskQuiet
  <2> QED BY <2>1, <2>2
<1>2. \A p \in Projector : p \in Requester
  BY DEF Requester
<1> QED BY <1>1, <1>2 DEF AskInv

\* A request begins: it has read the newest run, and all names up to its time.
LEMMA OpensKept ==
  ASSUME Inv, CurrentInv, AskInv, NEW a \in Requester, NEW I, I \subseteq Identity, NEW w,
         Opens(a, I, now', w), now' \in {now, now + 1},
         UNCHANGED <<obs, runs, work, rev, member, gap>>,
         \A o \in w.names : /\ o.id \in I /\ o.id \in Exact /\ o.src \in Nat /\ o.src <= now + 1
                            /\ o.at = now + 1 /\ now' = now + 1,
         \A o, p \in w.names : o.id = p.id => o = p,
         \A m \in w.rows : m \in Member /\ IdentityOf[m] \in I,
         a \in Projector => w.names = {}
  PROVE  CurrentInv' /\ AskInv'
<1> DEFINE L == LatestIn(runs, now)
           b == [gen |-> 0, result |-> L, at |-> now', beside |-> {},
                 sources |-> I, targets |-> CanonicalsIn(L, I), writes |-> w]
<1>1. /\ now \in Nat /\ now' \in Nat /\ now <= now' /\ 0 \notin DOMAIN runs
      /\ Dated(runs, now) /\ Observed(obs, now)
  BY Rows DEF CurrentInv, TimeInv, ObsInv
<1>2. Formed(L) /\ LatestIn(runs, now') = L
  BY <1>1, ResultsFormed, RunsSame
<1>3. open' = [open EXCEPT ![a] = b]
  BY InTheState DEF Opens
<1>4. DOMAIN open = Actor /\ a \in Actor /\ \A r \in Resolver : r \in Actor /\ r # a
  BY ProjectionAssumption DEF Inv, OpenInv, Actor, Requester
<1> HIDE DEF b
<1>5. open'[a] = b /\ \A c \in Actor : c # a => open'[c] = open[c]
  BY <1>3, <1>4
<1>6. Observed(obs', now') /\ \A j : NameStays(obs, now, obs', now', j)
  <2>1. Observed(obs', now')
    BY <1>1 DEF Observed
  <2> QED BY <1>1, <2>1, SameNames
<1>7. ObsInv' /\ TimeInv' /\ PhaseInv' /\ MemberPromise'
  BY <1>1, <1>6, QuietKept
<1>8. HoldInv' /\ OpenPromise'
  <2>1. \A r \in Resolver : open'[r] = open[r] /\ {} = {}
    BY <1>4, <1>5
  <2> QED BY <1>1, <1>6, <2>1, NotedKept
<1>9. Asks(obs, now', runs, b)
  <2>1. /\ b.result = L /\ b.at = now' /\ b.beside = {} /\ b.sources = I
        /\ b.targets = CanonicalsIn(L, I) /\ b.writes = w
    BY DEF b
  <2>2. Observed(obs \cup w.names, now')
    <3>1. CASE w.names = {}
      <4>1. obs \cup w.names = obs'
        BY <3>1
      <4> QED BY <1>6, <4>1
    <3>2. CASE w.names # {}
      <4>1. now' = now + 1
        BY <3>2
      <4> DEFINE N == w.names
      <4>2. /\ \A o \in N : o.id \in Exact /\ o.src \in Nat /\ o.src <= now + 1 /\ o.at = now + 1
            /\ \A o, p \in N : o.id = p.id => o = p
        OBVIOUS
      <4> HIDE DEF N
      <4>3. Observed(obs \cup N, now + 1)
        BY <1>1, <4>2, ObservedStays
      <4> QED BY <4>1, <4>3 DEF N
    <3> QED BY <3>1, <3>2
  <2>3. \A o \in w.names : o.id \in I /\ o.at = now'
    OBVIOUS
  <2>4. ResultIn(runs, RunIn(runs, now')) = LatestIn(runs, now')
    BY DEF LatestIn
  <2> HIDE DEF L
  <2> QED BY <1>1, <1>2, <2>1, <2>2, <2>3, <2>4 DEF Asks, With
<1>10. ASSUME NEW c \in Requester, c # a, open'[c] # None
       PROVE  Asks(obs', now', runs', open'[c])
  <2> DEFINE d == open[c]
  <2>1. d # None /\ open'[c] = d /\ Asks(obs, now, runs, d)
    BY <1>5, <1>10 DEF AskInv, Actor
  <2> HIDE DEF d
  <2>2. Asks(obs', now', runs', d)
    BY <1>1, <2>1, AskQuiet
  <2> QED BY <2>1, <2>2
<1>11. \A c \in Requester : open'[c] # None => Asks(obs', now', runs', open'[c])
  BY <1>5, <1>9, <1>10
<1>12. ASSUME NEW p \in Projector, open'[p] # None
       PROVE  open'[p].writes.names = {}
  <2>1. p \in Actor
    BY DEF Actor, Requester
  <2>2. CASE p = a
    BY <1>5, <2>2 DEF b
  <2>3. CASE p # a
    BY <1>5, <1>12, <2>1, <2>3 DEF AskInv
  <2> QED BY <2>2, <2>3
<1> QED BY <1>7, <1>8, <1>11, <1>12 DEF CurrentInv, AskInv

\* A request commits: it gives a new promise to the kin of its identities that
\* it has not missed a name of, and is no news of the others.
LEMMA StoredKept ==
  ASSUME Inv, CurrentInv, AskInv, NEW a \in Requester, RequestCommit(a)
  PROVE  CurrentInv'
<1> DEFINE b == open[a]
           N == b.writes.names
           S == b.sources
           T == b.targets
           at == b.at
           L == LatestIn(runs, now)
           P == ResultIn(runs, RunIn(runs, at))
           news == NewsOf(b)
           K == KinTouched(b)
           late == LateIn(b, K)
<1>1. /\ b # None /\ UNCHANGED <<now, runs>> /\ obs' = obs \cup N
      /\ member' = [m \in Member |->
           IF m \in b.writes.rows
           THEN [member[m] EXCEPT !.present = TRUE, !.known = TRUE, !.group = b.writes.group]
           ELSE member[m]]
      /\ work' = Upserted(S, T, at) /\ rev' = rev + Cardinality(T)
      /\ open' = [Noted(news) EXCEPT ![a] = None]
      /\ gap' = IF \E r \in Resolver : open[r] # None
                THEN gap \cup late \cup Kin(Latest, news)
                ELSE (gap \ K) \cup late
  BY RequestStores DEF Stores
<1>2. Asks(obs, now, runs, b)
  BY <1>1 DEF AskInv
<1>3. /\ now \in Nat /\ rev \in Nat /\ 0 \notin DOMAIN runs
      /\ (\A k \in Identity : WorkRow(work[k], rev))
      /\ (\A m \in Member : member[m].rev \in Nat /\ member[m].rev <= rev)
      /\ Observed(obs, now) /\ Dated(runs, now)
      /\ \A k \in Identity : Phased(runs, now, work[k])
  BY Rows DEF CurrentInv, ObsInv, TimeInv, PhaseInv
<1>4. /\ at \in Nat /\ at <= now /\ Formed(b.result)
      /\ S \subseteq Identity /\ T = CanonicalsIn(b.result, S)
      /\ (\A o \in N : o.id \in S)
      /\ (\A m \in b.writes.rows : m \in Member /\ IdentityOf[m] \in S)
      /\ Observed(obs', now)
      /\ \A j \in Identity \ b.beside : NameIn(obs', j, at) = NameIn(obs', j, now)
  BY <1>1, <1>2 DEF Asks, With
<1>5. \/ Identity \subseteq b.beside
      \/ b.result = L /\ P = L
  BY <1>2 DEF Asks
<1>6. /\ K = Kin(L, S \cup T) \cup Kin(P, S \cup T)
      /\ late = {i \in K : Kin(L, {i}) \cap b.beside # {}}
      /\ news = {o.id : o \in N} /\ Latest = L
  BY InTheState DEF KinTouched, Touched, LateIn, NewsOf
<1>7. Formed(L)
  BY <1>3, ResultsFormed
<1>8. T \subseteq Identity
  <2> HIDE DEF S, T
  <2> QED BY <1>4, KinOfKeys
<1>9. Asked(work, rev, work', rev', S, T, at) /\ rev' \in Nat /\ rev <= rev'
  <2>1. QueueInv
    BY DEF Inv
  <2> HIDE DEF S, T, at
  <2> QED BY ONLY <1>1, <1>8, <2>1, UpsertAsks
<1> HIDE DEF N, S, T, at, P, L, news, K, late
<1>10. ASSUME NEW j, j \notin news
       PROVE  NameStays(obs, now, obs', now, j)
  <2>1. \A o \in N : o.id # j
    BY <1>6, <1>10
  <2>2. {o \in obs' : o.id = j} = {o \in obs : o.id = j}
    BY <1>1, <2>1
  <2> QED BY <1>3, <2>2, SameNames
<1>11. news \subseteq S
  BY <1>4, <1>6
<1>12. ASSUME NEW i \in Identity, i \notin K
       PROVE  NoNews(obs, now, runs, obs', now, runs, i)
  <2>1. \A j \in Kin(L, {i}) : j \notin S
    BY <1>6, <1>12 DEF Kin
  <2>2. Same(L, L, i)
    BY SameEquivalent
  <2> QED BY <1>10, <1>11, <2>1, <2>2 DEF NoNews, L
<1>13. ASSUME NEW i \in Identity, i \in K, i \notin late
       PROVE  /\ b.result = L /\ P = L
              /\ Good(obs', now, runs, i, RunIn(runs, at), at)
  <2>1. i \in Kin(L, {i}) /\ Kin(L, {i}) \subseteq Identity /\ Kin(L, {i}) \cap b.beside = {}
    BY <1>6, <1>13 DEF Kin
  <2>2. b.result = L /\ P = L
    BY <1>5, <2>1
  <2>3. Same(P, L, i)
    BY <2>2, SameEquivalent
  <2>4. FreshIn(obs', now, L, i, at)
    BY <1>4, <2>1 DEF FreshIn
  <2> QED BY <2>2, <2>3, <2>4 DEF Good, P, L
<1>14. ASSUME NEW m \in Member
       PROVE  /\ member'[m].rev \in Nat /\ member'[m].rev <= rev
              /\ IdentityOf[m] \notin K => member'[m] = member[m]
  <2>1. CASE m \in b.writes.rows
    <3> DEFINE x == member[m]
               name == b.writes.group
    <3>1. member'[m] = [x EXCEPT !.present = TRUE, !.known = TRUE, !.group = name]
      BY <1>1, <2>1
    <3>2. x \in MemberSet({x.group, x.shown}) /\ x.rev \in Nat /\ x.rev <= rev
      BY <1>3 DEF Inv, MemberInv, MemberRow
    <3>3. IdentityOf[m] \in S /\ IdentityOf[m] \in Identity
      BY <1>4, <2>1
    <3>4. IdentityOf[m] \in K
      BY <1>6, <3>3 DEF Kin
    <3> HIDE DEF x, name
    <3>5. member'[m].rev = x.rev
      BY <3>1, <3>2, Zenon DEF MemberSet
    <3> QED BY <3>2, <3>4, <3>5
  <2>2. CASE m \notin b.writes.rows
    BY <1>1, <1>3, <2>2
  <2> QED BY <2>1, <2>2
<1>15. ASSUME NEW i \in Identity, i \notin gap'
       PROVE  \/ i \notin K /\ i \notin gap
              \/ i \in K /\ i \notin late
  BY <1>1, <1>15
<1>16. ASSUME NEW m \in Member, member'[m].present, member'[m].known, IdentityOf[m] \notin gap'
       PROVE  Kept(obs', now, runs, work', rev', member'[m], m)
  <2> DEFINE i == IdentityOf[m]
             u == member'[m]
             c == CanonicalIn(L, i)
  <2>1. i \in Identity
    BY ProjectionAssumption DEF Exact
  <2>2. c \in Identity /\ CanonicalIn(L, c) = c
    <3> HIDE DEF i
    <3> QED BY <1>7, <2>1, FormedKin
  <2>3. (\A k \in Identity : k \in T => GoodFor(obs', now, runs, i, k, RunIn(runs, at), at)) =>
          /\ c \in T => Kept(obs', now, runs, work', rev', u, m)
          /\ c \notin S \ T => (Kept(obs', now, runs, work, rev, u, m) =>
                                Kept(obs', now, runs, work', rev', u, m))
    <3>1. u.rev \in Nat /\ u.rev <= rev
      BY <1>14
    <3> HIDE DEF u
    <3>2. CanonicalIn(LatestIn(runs, now), IdentityOf[m]) \in Identity
      BY <2>2 DEF L
    <3> QED BY <1>3, <1>9, <3>1, <3>2, AskedKeeps DEF L
  <2> HIDE DEF i, u, c
  <2>4. CASE i \in K /\ i \notin late
    <3>1. b.result = L /\ P = L /\ Good(obs', now, runs, i, RunIn(runs, at), at)
      BY <1>13, <2>1, <2>4
    <3>2. \A k \in Identity : k \in T => GoodFor(obs', now, runs, i, k, RunIn(runs, at), at)
      BY <3>1 DEF GoodFor
    <3>3. c \in T
      <4>1. i \in Kin(L, S \cup T)
        BY <1>6, <2>4, <3>1
      <4>2. PICK s \in S \cup T : CanonicalIn(L, i) = CanonicalIn(L, s)
        BY <4>1 DEF Kin
      <4>3. CanonicalIn(L, s) \in T
        <5>1. CASE s \in S
          BY <1>4, <3>1, <5>1 DEF CanonicalsIn
        <5>2. CASE s \in T
          <6>1. PICK k \in S : s = CanonicalIn(L, k)
            BY <1>4, <3>1, <5>2 DEF CanonicalsIn
          <6>2. CanonicalIn(L, s) = s
            BY <1>4, <1>7, <6>1, FormedKin
          <6> QED BY <5>2, <6>2
        <5> QED BY <5>1, <5>2
      <4> QED BY <4>2, <4>3 DEF c
    <3> QED BY <2>3, <3>2, <3>3 DEF u
  <2>5. CASE i \notin K /\ i \notin gap
    <3>1. u = member[m]
      BY <1>14, <2>5 DEF u, i
    <3>2. PICK t \in 1..rev : Promised(obs, now, runs, work, u, m, t)
      BY <1>16, <2>5, <3>1 DEF CurrentInv, MemberPromise, Kept, u, i
    <3>3. NoNews(obs, now, runs, obs', now, runs, IdentityOf[m])
      BY <1>12, <2>1, <2>5 DEF i
    <3>4. Promised(obs', now, runs, work, u, m, t)
      BY <1>3, <1>4, <3>2, <3>3, PromiseStays
    <3>5. \A k \in Identity : k \in T => GoodFor(obs', now, runs, i, k, RunIn(runs, at), at)
      <4>1. ASSUME NEW k \in T
            PROVE  k \notin Kin(P, {i}) /\ k \notin Kin(L, {i})
        BY <1>6, <2>1, <2>5 DEF Kin
      <4> QED BY <4>1 DEF GoodFor, Concerns, P, L
    <3>6. c \notin S \ T
      BY <1>6, <2>1, <2>2, <2>5 DEF Kin, c
    <3> QED BY <2>3, <3>2, <3>4, <3>5, <3>6 DEF Kept, u
  <2> QED BY <1>15, <1>16, <2>1, <2>4, <2>5 DEF i
<1>17. MemberPromise'
  BY <1>1, <1>16 DEF MemberPromise
<1>18. \A r \in Resolver : open'[r] = Noted(news)[r]
  <2>1. DOMAIN Noted(news) = Actor /\ \A r \in Resolver : r # a /\ r \in Actor
    BY ProjectionAssumption DEF Noted, Requester, Actor
  <2> HIDE DEF b
  <2> QED BY <1>1, <2>1
<1>19. HoldInv' /\ OpenPromise'
  <2>1. CASE \A r \in Resolver : open[r] = None
    <3>1. \A r \in Resolver : open'[r] = None
      BY <1>18, <2>1 DEF Noted, Actor
    <3> QED BY <3>1 DEF HoldInv, OpenPromise
  <2>2. CASE \E r \in Resolver : open[r] # None
    <3>1. gap \subseteq gap' /\ Kin(Latest, news) \subseteq gap'
      BY <1>1, <2>2
    <3>2. \A i \in Identity : i \notin gap' =>
            i \notin gap /\ \A j \in Kin(Latest, {i}) : NameStays(obs, now, obs', now', j)
      <4> SUFFICES ASSUME NEW i \in Identity, i \notin gap', NEW j \in Kin(Latest, {i})
                   PROVE  NameStays(obs, now, obs', now', j)
        BY <3>1
      <4>1. j \notin news
        BY <3>1 DEF Kin
      <4> QED BY <1>1, <1>10, <4>1
    <3>3. \A j \in Identity : j \notin news => NameStays(obs, now, obs', now', j)
      BY <1>1, <1>10
    <3>4. now' \in Nat /\ now <= now' /\ UNCHANGED runs
      <4>1. now' = now /\ runs' = runs
        BY <1>1
      <4> QED BY <1>3, <4>1
    <3> HIDE DEF b
    <3> QED BY <1>18, <3>2, <3>3, <3>4, NotedKept
  <2> QED BY <2>1, <2>2
<1>20. PhaseInv'
  <2>1. ASSUME NEW k \in Identity
        PROVE  Phased(runs, now, work'[k])
    BY <1>3, <1>4, <1>9, AskedPhased
  <2> QED BY <1>1, <2>1 DEF PhaseInv
<1>21. ObsInv' /\ TimeInv'
  BY <1>1, <1>3, <1>4 DEF ObsInv, TimeInv
<1> QED BY <1>17, <1>19, <1>20, <1>21 DEF CurrentInv

\* Two sets of observations have the same ones of an identity.
SameOf(Q, O, j) == {o \in Q : o.id = j} = {o \in O : o.id = j}

\* A request that takes note of the names that change keeps what it knows.
LEMMA NotedAsks ==
  ASSUME Inv, AskInv, NEW K, NEW c \in Requester, NEW e, e = Noted(K)[c], e # None,
         NEW Q, NEW x \in Nat, now <= x, NEW ss, Observed(Q \cup open[c].writes.names, x),
         \A j \in Identity : j \notin K => SameOf(Q, obs, j),
         \/ Identity \subseteq K
         \/ /\ LatestIn(ss, x) = LatestIn(runs, now)
            /\ \A cut \in Nat : ResultIn(ss, RunIn(ss, cut)) = ResultIn(runs, RunIn(runs, cut))
  PROVE  open[c] # None /\ Asks(Q, x, ss, e) /\ e.writes = open[c].writes
<1> DEFINE d == open[c]
<1>1. /\ d # None /\ e.result = d.result /\ e.at = d.at /\ e.sources = d.sources
      /\ e.targets = d.targets /\ e.writes = d.writes /\ e.beside = d.beside \cup K
  BY NotedColumns DEF Inv, Actor
<1>2. Asks(obs, now, runs, d) /\ now \in Nat
  BY <1>1, Rows DEF AskInv
<1>3. With(Q, e) = Q \cup d.writes.names
  BY <1>1 DEF With
<1>4. Observed(With(Q, e), x)
  BY <1>3
<1> HIDE DEF d
<1>5. d.at \in Nat /\ Observed(With(obs, d), now)
  BY <1>2 DEF Asks
<1>6. ASSUME NEW j \in Identity \ e.beside
      PROVE  NameStays(With(obs, d), now, With(Q, e), x, j)
  <2>1. {o \in Q : o.id = j} = {o \in obs : o.id = j}
    BY <1>1, <1>6 DEF SameOf
  <2>2. {o \in With(Q, e) : o.id = j} = {o \in With(obs, d) : o.id = j}
    BY <1>3, <2>1 DEF With, d
  <2> QED BY <1>2, <1>4, <1>5, <2>2, SameNames
<1>7. \/ Identity \subseteq e.beside
      \/ /\ LatestIn(ss, x) = LatestIn(runs, now)
         /\ ResultIn(ss, RunIn(ss, d.at)) = ResultIn(runs, RunIn(runs, d.at))
  BY <1>1, <1>5
<1>8. Asks(Q, x, ss, e)
  BY <1>1, <1>2, <1>4, <1>6, <1>7, AsksStay
<1> QED BY <1>1, <1>8 DEF d

\* The other requests, when one commits.
LEMMA StoredAsks ==
  ASSUME Inv, CurrentInv, AskInv, NEW a \in Requester, RequestCommit(a)
  PROVE  AskInv'
<1> DEFINE N == open[a].writes.names
           news == NewsOf(open[a])
<1>1. /\ open[a] # None /\ UNCHANGED <<now, runs>> /\ obs' = obs \cup N
      /\ open' = [Noted(news) EXCEPT ![a] = None]
  BY RequestStores DEF Stores
<1>2. news = {o.id : o \in N} /\ now \in Nat /\ DOMAIN Noted(news) = Actor
  BY Rows DEF NewsOf, Noted
<1>3. Observed(obs \cup N, now) /\ (a \in Projector => N = {})
  BY <1>1 DEF AskInv, Asks, With
<1> HIDE DEF N, news
<1>4. \A j \in Identity : j \notin news => SameOf(obs', obs, j)
  BY <1>1, <1>2 DEF SameOf
<1>5. ASSUME NEW c \in Requester, open'[c] # None
      PROVE  /\ open[c] # None /\ Asks(obs', now', runs', open'[c])
             /\ open'[c].writes = open[c].writes
  <2> DEFINE e == open'[c]
             M == open[c].writes.names
  <2>1. c # a /\ e = Noted(news)[c] /\ e # None
    BY <1>1, <1>2, <1>5 DEF Actor
  <2>2. open[c] # None
    BY <2>1 DEF Noted, Actor
  <2>3. Observed(obs \cup M, now) /\ (c \in Projector => M = {})
    BY <2>2 DEF AskInv, Asks, With
  <2>4. N = {} \/ M = {}
    BY <1>3, <2>1, <2>3 DEF Requester
  <2> HIDE DEF M
  <2>5. obs' \cup M = obs \cup N \/ obs' \cup M = obs \cup M
    BY <1>1, <2>4
  <2>6. Observed(obs' \cup M, now)
    BY <1>3, <2>3, <2>5
  <2> HIDE DEF e
  <2>7. Asks(obs', now, runs, e) /\ e.writes = open[c].writes
    <3>1. /\ now \in Nat /\ now <= now /\ LatestIn(runs, now) = LatestIn(runs, now)
          /\ \A cut \in Nat : ResultIn(runs, RunIn(runs, cut)) = ResultIn(runs, RunIn(runs, cut))
      BY <1>2
    <3>2. Observed(obs' \cup open[c].writes.names, now)
      BY <2>6 DEF M
    <3>3. c \in Requester /\ e = Noted(news)[c] /\ e # None
      BY <2>1
    <3> HIDE DEF M
    <3> QED BY ONLY Inv, AskInv, <1>4, <3>1, <3>2, <3>3, NotedAsks
  <2> QED BY <1>1, <2>1, <2>2, <2>7 DEF e
<1>6. \A p \in Projector : p \in Requester
  BY DEF Requester
<1> QED BY <1>5, <1>6 DEF AskInv

\* Both, when a request commits.
LEMMA CommitsKept ==
  ASSUME Inv, CurrentInv, AskInv, NEW a \in Requester, RequestCommit(a)
  PROVE  CurrentInv' /\ AskInv'
BY StoredKept, StoredAsks

\* A message, whether it asks for work or not.
LEMMA ObserveKept ==
  ASSUME Inv, CurrentInv, AskInv, NEW i \in Sender, NEW name, NEW src \in {1, now + 1},
         ObserveMessageSender(i, name, src)
  PROVE  CurrentInv' /\ AskInv'
<1> DEFINE o == [id |-> i, name |-> name, src |-> src, at |-> now + 1, gen |-> 0]
           w == [NoWrites EXCEPT !.names = {o}, !.ids = {i}, !.since = now + 1]
<1>1. /\ now \in Nat /\ now' = now + 1 /\ now' \in Nat /\ now <= now'
      /\ UNCHANGED <<runs, work, rev, member, gap>> /\ open[Observer] = None
      /\ i \in Exact /\ i \in Identity /\ src \in Nat /\ src <= now + 1
  BY Rows, ProjectionAssumption DEF ObserveMessageSender, Exact
<1>2. /\ o.id = i /\ o.src = src /\ o.at = now + 1 /\ o.name = name
  OBVIOUS
<1>3. Observed(obs, now)
  BY DEF CurrentInv, ObsInv
<1>4. Dirty(o) => Opens(Observer, {i}, now + 1, w) /\ UNCHANGED obs
  BY DEF ObserveMessageSender
<1>5. ~Dirty(o) => obs' = obs \cup {o} /\ UNCHANGED open
  BY DEF ObserveMessageSender
<1> HIDE DEF o
<1>6. w.names = {o} /\ w.rows = {}
  BY DEF NoWrites
<1> HIDE DEF w
<1>7. CASE Dirty(o)
  <2> DEFINE I == {i}
  <2>1. I \subseteq Identity /\ Observer \in Requester /\ Observer \notin Projector
    BY <1>1, ProjectionAssumption DEF Requester
  <2>2. /\ \A x \in w.names : /\ x.id \in I /\ x.id \in Exact /\ x.src \in Nat /\ x.src <= now + 1
                              /\ x.at = now + 1 /\ now' = now + 1
        /\ \A x, y \in w.names : x.id = y.id => x = y
        /\ \A m \in w.rows : m \in Member /\ IdentityOf[m] \in I
    BY <1>1, <1>2, <1>6
  <2>3. Opens(Observer, I, now', w) /\ now' \in {now, now + 1} /\ UNCHANGED obs
    BY <1>1, <1>4, <1>7
  <2> HIDE DEF I
  <2> QED BY <1>1, <2>1, <2>2, <2>3, OpensKept
<1>8. CASE ~Dirty(o)
  <2>1. /\ Observed(obs', now')
        /\ \A j : \A cut \in 0..now : NameIn(obs', j, cut) = NameIn(obs, j, cut)
        /\ \A j : j # i => NameStays(obs, now, obs', now', j)
    <3> DEFINE N == {o}
    <3>1. /\ \A x \in N : x.id \in Exact /\ x.src \in Nat /\ x.src <= now + 1 /\ x.at = now + 1
          /\ \A x, y \in N : x.id = y.id => x = y
          /\ \A j : j # i => \A x \in N : x.id # j
      BY <1>1, <1>2
    <3>2. now \in Nat /\ now' = now + 1 /\ obs' = obs \cup N
      BY <1>1, <1>5, <1>8
    <3> HIDE DEF N
    <3>3. /\ Observed(obs \cup N, now + 1)
          /\ \A j : \A cut \in 0..now : NameIn(obs \cup N, j, cut) = NameIn(obs, j, cut)
          /\ \A j : (\A x \in N : x.id # j) => NameStays(obs, now, obs \cup N, now + 1, j)
      BY <1>3, <3>1, <3>2, ObservedStays
    <3> QED BY <3>1, <3>2, <3>3
  <2>2. NameStays(obs, now, obs', now', i)
    <3>1. PICK p \in obs : p.id = o.id /\ (~Newer(o, p) \/ o.name = LastName({x \in obs : x.id = o.id}))
      BY <1>8 DEF Dirty
    <3>2. o.id \in Nat /\ o.src \in Nat /\ o.at = now + 1
      BY <1>1, <1>2, ResolutionAssumption
    <3>3. NameIn(obs \cup {o}, o.id, now + 1) = NameIn(obs, o.id, now)
      <4>1. p \in obs /\ p.id = o.id
        BY <3>1
      <4> QED BY ONLY <1>1, <1>3, <3>1, <3>2, <4>1, NameNotDirty
    <3>4. \A cut \in 0..now : NameIn(obs', i, cut) = NameIn(obs, i, cut)
      BY <2>1
    <3> QED BY <1>1, <1>2, <1>5, <1>8, <3>3, <3>4 DEF NameStays
  <2>3. \A j : NameStays(obs, now, obs', now', j)
    BY <2>1, <2>2
  <2>4. UNCHANGED <<work, rev, open, gap, runs, member>>
    BY <1>1, <1>5, <1>8
  <2>5. HoldInv' /\ OpenPromise'
    <3>1. \A r \in Resolver : open'[r] = open[r] /\ {} = {}
      BY <2>4
    <3> QED BY <1>1, <2>3, <2>4, <3>1, NotedKept
  <2>6. ObsInv' /\ TimeInv' /\ PhaseInv' /\ MemberPromise'
    BY <1>1, <2>1, <2>3, <2>4, QuietKept, Rows
  <2>7. ASSUME NEW p \in Requester, open'[p] # None
        PROVE  Asks(obs', now', runs', open'[p])
    <3> DEFINE c == open[p]
    <3>1. c # None /\ open'[p] = c /\ Asks(obs, now, runs, c) /\ c.writes.names = {}
      BY <1>1, <2>4, <2>7 DEF AskInv, Requester
    <3> HIDE DEF c
    <3>2. With(obs, c) = obs /\ With(obs', c) = obs'
      BY <3>1 DEF With
    <3>3. LatestIn(runs, now') = LatestIn(runs, now)
      BY <1>1, Rows, RunsSame DEF CurrentInv, TimeInv
    <3>4. /\ Observed(With(obs', c), now')
          /\ \A j \in Identity \ c.beside : NameStays(With(obs, c), now, With(obs', c), now', j)
      BY <2>1, <2>3, <3>2
    <3>5. Asks(obs', now', runs, c)
      BY <1>1, <3>1, <3>3, <3>4, AsksStay
    <3> QED BY <2>4, <3>1, <3>5
  <2>8. AskInv'
    BY <2>4, <2>7 DEF AskInv
  <2> QED BY <2>5, <2>6, <2>8 DEF CurrentInv
<1> QED BY <1>7, <1>8

\* A member comes, changes or goes.
LEMMA MemberKept ==
  ASSUME Inv, CurrentInv, AskInv, NEW m \in Member,
         (\E name : SeedGroupMember(m, name)) \/ RemoveGroupMember(m)
  PROVE  CurrentInv' /\ AskInv'
<1>1. /\ now \in Nat /\ now' = now + 1 /\ now' \in Nat /\ now <= now'
      /\ UNCHANGED <<obs, runs, work, rev, gap>>
  <2>1. now' = now + 1 /\ UNCHANGED <<obs, runs, work, rev, gap>>
    BY DEF SeedGroupMember, RemoveGroupMember, evidence
  <2> QED BY <2>1, Rows
<1>2. Observed(obs', now') /\ \A j : NameStays(obs, now, obs', now', j)
  <2>1. Observed(obs, now) /\ Observed(obs', now')
    BY <1>1 DEF CurrentInv, ObsInv, Observed
  <2> QED BY <1>1, <2>1, SameNames
<1>3. ASSUME NEW name, SeedGroupMember(m, name)
      PROVE  CurrentInv' /\ AskInv'
  <2> DEFINE I == {IdentityOf[m]}
             w == [NoWrites EXCEPT !.ids = I, !.since = now + 1, !.rows = {m}, !.group = name,
                                   !.lock = TRUE]
  <2>1. IdentityOf[m] \in Identity
    BY ProjectionAssumption DEF Exact
  <2>2. Opens(Observer, I, now', w) /\ UNCHANGED member
    BY <1>1, <1>3 DEF SeedGroupMember
  <2>3. w.names = {} /\ w.rows = {m}
    BY DEF NoWrites
  <2>4. /\ I \subseteq Identity /\ Observer \in Requester /\ now' \in {now, now + 1}
        /\ \A x \in w.rows : x \in Member /\ IdentityOf[x] \in I
    BY <1>1, <2>1, <2>3 DEF Requester
  <2> HIDE DEF I, w
  <2> QED BY <1>1, <2>2, <2>3, <2>4, OpensKept
<1>4. ASSUME RemoveGroupMember(m)
      PROVE  CurrentInv' /\ AskInv'
  <2>1. UNCHANGED open /\ member' = [member EXCEPT ![m] = Absent]
    BY <1>4 DEF RemoveGroupMember
  <2>2. \A x \in Member : member'[x].present => member'[x] = member[x]
    BY <2>1 DEF Absent, Inv, MemberInv
  <2>3. HoldInv' /\ OpenPromise'
    <3>1. \A r \in Resolver : open'[r] = open[r] /\ {} = {}
      BY <2>1
    <3> QED BY <1>1, <1>2, <3>1, NotedKept
  <2>4. ObsInv' /\ TimeInv' /\ PhaseInv' /\ MemberPromise'
    BY <1>1, <1>2, <2>2, QuietKept, Rows
  <2>5. AskInv'
    BY <1>1, <2>1, AskKept, Rows
  <2> QED BY <2>3, <2>4, <2>5 DEF CurrentInv
<1> QED BY <1>3, <1>4

\* A published snapshot.
LEMMA PublishKept ==
  ASSUME Inv, CurrentInv, AskInv, NEW c \in Snapshot, PublishSnapshot(c)
  PROVE  CurrentInv' /\ AskInv'
<1> DEFINE N == {[id |-> i, name |-> c[i].push, src |-> now + 1, at |-> now + 1,
                  gen |-> Len(gens) + 1] : i \in Uncovered(c)}
           K == Uncovered(c)
<1>1. /\ now \in Nat /\ now' = now + 1 /\ now' \in Nat /\ now <= now'
      /\ UNCHANGED <<runs, work, rev, member>>
      /\ gap' = gap \cup Kin(Latest, K) /\ open' = Noted(K)
  BY Rows DEF PublishSnapshot
<1>2. obs' = obs \cup N
  BY DEF PublishSnapshot
<1>3. K \subseteq DOMAIN c /\ DOMAIN c \subseteq Exact /\ Exact \subseteq Identity
  BY ProjectionAssumption DEF Uncovered, Exact
<1>4. /\ \A o \in N : o.id \in Exact /\ o.src \in Nat /\ o.src <= now + 1 /\ o.at = now + 1
      /\ \A o, p \in N : o.id = p.id => o = p
      /\ \A j : j \notin K => \A o \in N : o.id # j
  BY <1>1, <1>3
<1> HIDE DEF N, K
<1>5. Observed(obs, now)
  BY DEF CurrentInv, ObsInv
<1>6. /\ Observed(obs', now')
      /\ \A j : j \notin K => NameStays(obs, now, obs', now', j)
  <2>1. /\ Observed(obs \cup N, now + 1)
        /\ \A j : (\A o \in N : o.id # j) => NameStays(obs, now, obs \cup N, now + 1, j)
    BY <1>1, <1>4, <1>5, ObservedStays
  <2> QED BY <1>1, <1>2, <1>4, <2>1
<1>7. ASSUME NEW i \in Identity, i \notin gap'
      PROVE  i \notin gap /\ \A j \in Kin(Latest, {i}) : NameStays(obs, now, obs', now', j)
  <2>1. i \notin gap /\ i \notin Kin(Latest, K)
    BY <1>1, <1>7
  <2>2. ASSUME NEW j \in Kin(Latest, {i})
        PROVE  j \notin K
    BY <2>1 DEF Kin
  <2> QED BY <1>6, <2>1, <2>2
<1>8. HoldInv' /\ OpenPromise'
  BY <1>1, <1>6, <1>7, NotedKept
<1>9. ObsInv' /\ TimeInv' /\ PhaseInv' /\ MemberPromise'
  BY <1>1, <1>6, <1>7, QuietKept, Rows
<1>10. ASSUME NEW a \in Requester, open'[a] # None
       PROVE  /\ open[a] # None /\ Asks(obs', now', runs', open'[a])
              /\ open'[a].writes = open[a].writes
  <2> DEFINE e == open'[a]
             M == open[a].writes.names
  <2>1. e # None /\ e = Noted(K)[a] /\ open[a] # None
    BY <1>1, <1>10 DEF Noted, Actor
  <2>2. Observed(obs \cup M, now)
    BY <2>1 DEF AskInv, Asks, With
  <2> HIDE DEF M
  <2>3. Observed((obs \cup M) \cup N, now + 1)
    BY <1>1, <1>4, <2>2, ObservedStays
  <2>4. obs' \cup M = (obs \cup M) \cup N
    BY <1>2
  <2>5. \A j \in Identity : j \notin K => SameOf(obs', obs, j)
    BY <1>2, <1>4 DEF SameOf
  <2>6. /\ LatestIn(runs, now') = LatestIn(runs, now)
        /\ \A cut \in Nat : ResultIn(runs, RunIn(runs, cut)) = ResultIn(runs, RunIn(runs, cut))
    BY <1>1, Rows, RunsSame DEF CurrentInv, TimeInv
  <2>7. Observed(obs' \cup M, now')
    BY <1>1, <2>3, <2>4
  <2> HIDE DEF e
  <2>8. Asks(obs', now', runs, e) /\ e.writes = open[a].writes
    <3>1. Observed(obs' \cup open[a].writes.names, now')
      BY <2>7 DEF M
    <3> QED BY <1>1, <2>1, <2>5, <2>6, <3>1, NotedAsks
  <2> QED BY <1>1, <2>1, <2>8 DEF e
<1>11. \A p \in Projector : p \in Requester
  BY DEF Requester
<1>12. AskInv'
  BY <1>10, <1>11 DEF AskInv
<1> QED BY <1>8, <1>9, <1>12 DEF CurrentInv

\* The retention tick: nothing is queued, and no resolution is open.
LEMMA DeleteKept ==
  ASSUME Inv, CurrentInv, AskInv, NEW o \in obs, DeleteRedundantContactObservation(o)
  PROVE  CurrentInv' /\ AskInv'
<1> DEFINE L == LatestIn(runs, now)
           K == {o.id}
<1>1. /\ obs' = obs \ {o} /\ UNCHANGED <<now, runs, work, rev, member, gap>> /\ open' = Noted(K)
      /\ \A g \in DOMAIN runs : runs[g].status \notin Active
      /\ \A i \in Identity : work[i].status \notin Active
  BY DEF DeleteRedundantContactObservation
<1>2. PICK p \in obs : p.id = o.id /\ Newer(p, o)
  BY DEF DeleteRedundantContactObservation
<1>3. now \in Nat /\ Observed(obs, now) /\ Observed(obs', now)
  BY <1>1, Rows DEF CurrentInv, ObsInv, Observed
<1>4. \A j : NameIn(obs', j, now) = NameIn(obs, j, now)
  BY <1>1, <1>2, <1>3, NameReplaced
<1>5. \A r \in Resolver : open'[r] = None
  <2>1. \A r \in Resolver : open[r] = None
    BY <1>1 DEF CurrentInv, HoldInv, Holds, Active
  <2> QED BY <1>1, <2>1 DEF Noted, Actor
<1>6. ASSUME NEW m \in Member, NEW t \in 1..rev,
             Promised(obs, now, runs, work, member[m], m, t)
      PROVE  Promised(obs', now, runs, work, member[m], m, t)
  <2> DEFINE i == IdentityOf[m]
             u == member[m]
  <2>1. Shown(obs', u.group, i, L, now) = Shown(obs, u.group, i, L, now)
    <3>1. Formed(L) /\ Same(L, L, i) /\ i \in Exact
      BY <1>3, ResultsFormed, SameEquivalent, ProjectionAssumption DEF CurrentInv, TimeInv
    <3>2. (\A x \in obs : x.id \in Exact) /\ (\A x \in obs' : x.id \in Exact)
      BY <1>3 DEF Observed
    <3>3. \A j \in Kin(L, {i}) : NameIn(obs', j, now) = NameIn(obs, j, now)
      BY <1>4
    <3> HIDE DEF L, i, u
    <3> QED BY ONLY <3>1, <3>2, <3>3, ShownSame
  <2>2. \A k \in Identity : GoodRow(obs', now, runs, i, k, work[k], t)
    BY <1>1 DEF GoodRow
  <2> HIDE DEF L
  <2> QED BY <1>6, <2>1, <2>2 DEF Promised, L
<1>7. MemberPromise'
  BY <1>1, <1>6 DEF CurrentInv, MemberPromise, Kept
<1>8. \A j \in Identity : j \notin K => SameOf(obs', obs, j)
  BY <1>1 DEF SameOf
<1> HIDE DEF K
<1>9. ASSUME NEW a \in Requester, open'[a] # None
      PROVE  /\ open[a] # None /\ Asks(obs', now', runs', open'[a])
             /\ open'[a].writes = open[a].writes
  <2> DEFINE e == open'[a]
             M == open[a].writes.names
  <2>1. e # None /\ e = Noted(K)[a] /\ open[a] # None
    BY <1>1, <1>9 DEF Noted, Actor
  <2>2. Observed(obs \cup M, now)
    BY <2>1 DEF AskInv, Asks, With
  <2> HIDE DEF M
  <2>3. Observed(obs' \cup M, now)
    BY <1>1, <2>2 DEF Observed
  <2> HIDE DEF e
  <2>4. Asks(obs', now, runs, e) /\ e.writes = open[a].writes
    <3>1. now <= now /\ \A cut \in Nat : ResultIn(runs, RunIn(runs, cut)) = ResultIn(runs, RunIn(runs, cut))
      BY <1>3
    <3>2. Observed(obs' \cup open[a].writes.names, now)
      BY <2>3 DEF M
    <3> QED BY <1>3, <1>8, <2>1, <3>1, <3>2, NotedAsks
  <2> QED BY <1>1, <2>1, <2>4 DEF e
<1>10. \A q \in Projector : q \in Requester
  BY DEF Requester
<1>11. AskInv'
  BY <1>9, <1>10 DEF AskInv
<1>12. ObsInv' /\ TimeInv' /\ PhaseInv'
  BY <1>1, <1>3 DEF CurrentInv, ObsInv, TimeInv, PhaseInv
<1>13. HoldInv' /\ OpenPromise'
  BY <1>5 DEF HoldInv, OpenPromise
<1> QED BY <1>7, <1>11, <1>12, <1>13 DEF CurrentInv

\* What transactions store beside their requests, over values C.
WriteSet(C) == [names : C, ids : C, since : C, rows : C, group : C, job : C, state : C, lock : C]

\* The housekeeping scans begin their request, or commit it.
LEMMA ScanKept ==
  ASSUME Inv, CurrentInv, AskInv, NEW p \in Projector, Scan(p)
  PROVE  CurrentInv' /\ AskInv'
<1>1. p \in Requester
  BY DEF Requester
<1>2. CASE RequestCommit(p)
  BY <1>1, <1>2, CommitsKept
<1>3. SUFFICES ASSUME ~RequestCommit(p)
               PROVE  CurrentInv' /\ AskInv'
  BY <1>2
<1>4. now \in Nat /\ now' = now /\ UNCHANGED <<obs, runs, work, rev, member, gap>>
  BY <1>3, Rows DEF Scan, evidence
<1>5. ASSUME NEW I, I \subseteq Identity, NEW w, Opens(p, I, now, w), w.names = {},
             \A m \in w.rows : m \in Member /\ IdentityOf[m] \in I
      PROVE  CurrentInv' /\ AskInv'
  BY <1>1, <1>4, <1>5, OpensKept
<1>6. \A S, n : First(S, n) \subseteq S
  BY DEF First
<1>7. ASSUME NEW page, page \subseteq Present, NEW v, v.names = {}, Materialize(p, page, v),
             NEW C, v \in WriteSet(C)
      PROVE  CurrentInv' /\ AskInv'
  <2> DEFINE missing == {m \in page : ~member[m].known}
             I == {IdentityOf[m] : m \in missing}
             w == [v EXCEPT !.ids = I, !.since = 1, !.rows = missing]
  <2>1. I \subseteq Identity /\ \A m \in missing : m \in Member /\ IdentityOf[m] \in I
    BY <1>7, ProjectionAssumption DEF Present, Exact
  <2>2. Opens(p, I, now, w)
    BY <1>7 DEF Materialize
  <2> HIDE DEF missing, I
  <2>3. w.names = {} /\ w.rows = missing
    BY <1>7
  <2> HIDE DEF w
  <2> QED BY <1>5, <2>1, <2>2, <2>3
<1>8. CASE BackfillEvidence(p)
  <2> DEFINE page == First({m \in Present : m > scan["backfill"].at}, ScanLimit)
             s == Advanced(scan["backfill"], page)
             v == [NoWrites EXCEPT !.job = "backfill", !.state = s]
  <2>1. page \subseteq Present /\ Materialize(p, page, v)
    BY <1>6, <1>8 DEF BackfillEvidence
  <2> HIDE DEF page, s
  <2>2. v.names = {}
    BY DEF NoWrites
  <2>3. \E C : v \in WriteSet(C)
    <3> DEFINE C == {NoWrites[f] : f \in DOMAIN NoWrites} \cup {"backfill", s}
    <3>1. NoWrites \in WriteSet(C)
      BY DEF NoWrites, WriteSet
    <3>2. "backfill" \in C /\ s \in C
      OBVIOUS
    <3> HIDE DEF C
    <3>3. v \in WriteSet(C)
      BY <3>1, <3>2, Zenon DEF WriteSet
    <3> QED BY <3>3
  <2> HIDE DEF v
  <2> QED BY <1>7, <2>1, <2>2, <2>3
<1>9. CASE CatchUpMissingEvidence(p)
  <2> DEFINE page == First({m \in Present : ~member[m].known}, ScanLimit)
             v == [NoWrites EXCEPT !.job = "late", !.lock = TRUE]
  <2>1. page \subseteq Present /\ Materialize(p, page, v)
    BY <1>6, <1>9 DEF CatchUpMissingEvidence
  <2> HIDE DEF page
  <2>2. v.names = {}
    BY DEF NoWrites
  <2>3. \E C : v \in WriteSet(C)
    <3> DEFINE C == {NoWrites[f] : f \in DOMAIN NoWrites} \cup {"late", TRUE}
    <3>1. NoWrites \in WriteSet(C)
      BY DEF NoWrites, WriteSet
    <3>2. "late" \in C /\ TRUE \in C
      OBVIOUS
    <3> HIDE DEF C
    <3>3. v \in WriteSet(C)
      BY <3>1, <3>2, Zenon DEF WriteSet
    <3> QED BY <3>3
  <2> HIDE DEF v
  <2> QED BY <1>7, <2>1, <2>2, <2>3
<1>10. CASE EnqueueBootstrap(p)
  <2> DEFINE page == First({i \in Identity : /\ i > scan["bootstrap"].at
                                             /\ \E m \in Present : member[m].known
                                                                   /\ IdentityOf[m] = i},
                           ScanLimit)
             s == Advanced(scan["bootstrap"], page)
             v == [NoWrites EXCEPT !.job = "bootstrap", !.state = s]
  <2>1. Opens(p, page, now, v)
    BY <1>10 DEF EnqueueBootstrap
  <2>2. page \subseteq Identity
    BY <1>6
  <2> HIDE DEF page, s
  <2>3. v.names = {} /\ v.rows = {}
    BY DEF NoWrites
  <2> HIDE DEF v
  <2> QED BY <1>5, <2>1, <2>2, <2>3
<1>11. CASE CoalesceResolvedAliases(p)
  <2> DEFINE page == First({i \in Identity \ AliasesHeld :
                              /\ work[i].status \in {"PENDING", "RETRY", "FAILED"}
                              /\ Canonical(i) # i}, ScanLimit)
             v == [NoWrites EXCEPT !.job = "aliases"]
  <2>1. Opens(p, page, now, v)
    BY <1>11 DEF CoalesceResolvedAliases
  <2>2. page \subseteq Identity
    BY <1>6
  <2> HIDE DEF page
  <2>3. v.names = {} /\ v.rows = {}
    BY DEF NoWrites
  <2> HIDE DEF v
  <2> QED BY <1>5, <2>1, <2>2, <2>3
<1>12. CASE CatchUpUnprojected(p)
  <2> DEFINE behind == {Canonical(IdentityOf[m]) :
                          m \in {m \in Present : member[m].known /\ member[m].rev = 0}}
             idle == {i \in behind : work[i].status \in {"NONE", "IDLE", "FAILED"}}
             page == First(idle, ScanLimit)
             v == [NoWrites EXCEPT !.job = "unprojected"]
  <2>1. Opens(p, page, now, v)
    BY <1>12 DEF CatchUpUnprojected
  <2>2. page \subseteq Identity
    <3>1. \A i \in Identity : Canonical(i) \in Identity
      BY LatestSound DEF Inv, Sound, Canonical
    <3>2. idle \subseteq Identity
      BY <3>1, ProjectionAssumption DEF Present, Exact
    <3> HIDE DEF idle
    <3> QED BY <1>6, <3>2
  <2> HIDE DEF page
  <2>3. v.names = {} /\ v.rows = {}
    BY DEF NoWrites
  <2> HIDE DEF v
  <2> QED BY <1>5, <2>1, <2>2, <2>3
<1> QED BY <1>3, <1>8, <1>9, <1>10, <1>11, <1>12 DEF Scan

-----------------------------------------------------------------------------
(***************************************************************************)
(* Runs.                                                                   *)
(***************************************************************************)
\* Rows of runs change that are not completed, and what is open keeps its run.
LEMMA RunsKeptQuiet ==
  ASSUME Inv, CurrentInv, AskInv, UNCHANGED <<now, obs, work, rev, member, gap>>,
         0 \notin DOMAIN runs', Done(runs') = Done(runs),
         \A g \in Done(runs) : runs'[g].at = runs[g].at /\ runs'[g].result = runs[g].result,
         \A r \in Resolver : open'[r] # None =>
           /\ open'[r] = open[r] /\ open[r].gen \in DOMAIN runs'
           /\ runs'[open[r].gen].status = "RUNNING" /\ runs'[open[r].gen].lease = r,
         \A a \in Requester : open'[a] # None => open'[a] = open[a]
  PROVE  CurrentInv' /\ AskInv'
<1>1. now' \in Nat /\ now <= now'
  BY Rows
<1>2. Observed(obs', now') /\ \A j : NameStays(obs, now, obs', now', j)
  BY DEF CurrentInv, ObsInv, NameStays
<1>3. \A i \in Identity : i \notin gap' =>
        i \notin gap /\ \A j \in Kin(Latest, {i}) : NameStays(obs, now, obs', now', j)
  BY <1>2
<1>4. ObsInv' /\ TimeInv' /\ PhaseInv' /\ MemberPromise'
  BY <1>1, <1>2, <1>3, QuietKept
<1>5. ASSUME NEW r \in Resolver, open'[r] # None
      PROVE  /\ open[r] # None /\ open'[r] = open[r]
             /\ Holds(runs', now', r, open'[r]) /\ Announced(obs', now', runs', gap', open'[r])
  <2> DEFINE c == open'[r]
  <2>1. /\ open[r] # None /\ c = open[r] /\ c.gen \in DOMAIN runs'
        /\ runs'[c.gen].status = "RUNNING" /\ runs'[c.gen].lease = r
        /\ \A j \in Identity : j \notin c.beside => NameStays(obs, now, obs', now', j)
    BY <1>2, <1>5
  <2> HIDE DEF c
  <2>2. Holds(runs', now', r, c) /\ Announced(obs', now', runs', gap', c)
    BY <1>1, <1>3, <2>1, OpenKept
  <2> QED BY <2>1, <2>2 DEF c
<1>6. HoldInv' /\ OpenPromise'
  BY <1>5 DEF HoldInv, OpenPromise, CurrentInv
<1>7. AskInv'
  BY <1>1, AskKept
<1> QED BY <1>4, <1>6, <1>7 DEF CurrentInv

\* A row that is not completed, or only loses its lease, is rewritten.
LEMMA RunRewritten ==
  ASSUME Inv, CurrentInv, AskInv, UNCHANGED <<now, obs, work, rev, member, gap>>,
         NEW h \in DOMAIN runs, NEW v, runs' = [runs EXCEPT ![h] = v],
         v.status = "COMPLETED" <=> runs[h].status = "COMPLETED",
         v.at = runs[h].at, v.result = runs[h].result,
         \A r \in Resolver : open'[r] # None =>
           /\ open'[r] = open[r]
           /\ open[r].gen = h => v.status = "RUNNING" /\ v.lease = r,
         \A a \in Requester : open'[a] # None => open'[a] = open[a]
  PROVE  CurrentInv' /\ AskInv'
<1>1. DOMAIN runs' = DOMAIN runs /\ runs'[h] = v /\ \A g \in DOMAIN runs : g # h => runs'[g] = runs[g]
  OBVIOUS
<1>2. Done(runs') = Done(runs)
  BY <1>1 DEF Done
<1>3. \A g \in Done(runs) : runs'[g].at = runs[g].at /\ runs'[g].result = runs[g].result
  BY <1>1 DEF Done
<1>4. ASSUME NEW r \in Resolver, open'[r] # None
      PROVE  /\ open'[r] = open[r] /\ open[r].gen \in DOMAIN runs'
             /\ runs'[open[r].gen].status = "RUNNING" /\ runs'[open[r].gen].lease = r
  <2>1. open'[r] = open[r] /\ open[r] # None
    BY <1>4
  <2>2. /\ open[r].gen \in DOMAIN runs /\ runs[open[r].gen].status = "RUNNING"
        /\ runs[open[r].gen].lease = r
    BY <2>1 DEF CurrentInv, HoldInv, Holds
  <2>3. CASE open[r].gen = h
    BY <1>1, <1>4, <2>1, <2>2, <2>3
  <2>4. CASE open[r].gen # h
    BY <1>1, <2>1, <2>2, <2>4
  <2> QED BY <2>3, <2>4
<1>5. 0 \notin DOMAIN runs'
  BY <1>1, Rows
<1> QED BY <1>2, <1>3, <1>4, <1>5, RunsKeptQuiet

\* The claim, the failure, the expiry and the loss of a run, and a new one.
LEMMA RunStepKept ==
  ASSUME Inv, CurrentInv, AskInv, NEW r, NEW g,
         \/ g \in DOMAIN runs /\ ClaimRun(r, g)
         \/ r \in Resolver /\ (ResolveFail(r) \/ CrashResolver(r))
         \/ g \in DOMAIN runs /\ ExpireRun(g)
         \/ EnqueuePublished
  PROVE  CurrentInv' /\ AskInv'
<1>1. UNCHANGED <<now, obs, work, rev, member, gap>>
  BY DEF ClaimRun, ResolveFail, CrashResolver, ExpireRun, EnqueuePublished, evidence
<1>2. \A h \in DOMAIN runs :
        runs[h] \in RunSet({runs[h].status, runs[h].att, runs[h].lease, runs[h].live, runs[h].result})
  BY DEF Inv, RunInv, RunRow
<1>3. /\ DOMAIN open = Actor
      /\ \A q \in Resolver : q \in Actor
      /\ \A q \in Requester : q \in Actor /\ q \notin Resolver
  BY ProjectionAssumption DEF Inv, OpenInv, Actor, Requester
<1>4. CASE g \in DOMAIN runs /\ ClaimRun(r, g)
  <2> DEFINE a == AtMost(runs[g].att)
             v == [runs[g] EXCEPT !.status = "RUNNING", !.att = a, !.lease = r, !.live = TRUE]
  <2>1. /\ runs' = [runs EXCEPT ![g] = v] /\ open' = open /\ g \in DOMAIN runs
        /\ \A q \in Resolver : open[q] # None => open[q].gen # g
        /\ runs[g].status # "COMPLETED"
    BY <1>4 DEF ClaimRun, Claimable
  <2> HIDE DEF a
  <2>2. v.status = "RUNNING" /\ v.at = runs[g].at /\ v.result = runs[g].result
    BY <1>2, <2>1, Zenon DEF RunSet
  <2> HIDE DEF v
  <2> QED BY <1>1, <2>1, <2>2, RunRewritten
<1>5. CASE r \in Resolver /\ ResolveFail(r)
  <2>1. open' = [open EXCEPT ![r] = None] /\ \A q \in Actor : open'[q] # None => q # r /\ open'[q] = open[q]
    BY <1>3, <1>5 DEF ResolveFail
  <2>2. CASE OwnsRun(r)
    <3> DEFINE h == claim[r]
               s == IF runs[h].att >= MaxAttempts THEN "FAILED" ELSE "RETRY"
               v == [runs[h] EXCEPT !.status = s, !.lease = None, !.live = FALSE]
    <3>1. /\ h \in DOMAIN runs /\ runs[h].status = "RUNNING" /\ runs[h].lease = r
      BY <1>5, <2>2 DEF OwnsRun, Inv, ClaimInv, RunInv
    <3>2. runs' = [runs EXCEPT ![h] = v]
      BY <1>5, <2>2 DEF ResolveFail, Failed
    <3>3. s # "COMPLETED"
      OBVIOUS
    <3> HIDE DEF s
    <3>4. v.status = s /\ v.at = runs[h].at /\ v.result = runs[h].result
      BY <1>2, <3>1, Zenon DEF RunSet
    <3>5. \A q \in Resolver : open'[q] # None => open[q].gen # h
      BY <1>3, <2>1, <3>1 DEF CurrentInv, HoldInv, Holds
    <3> HIDE DEF v, h
    <3> QED BY <1>1, <1>3, <2>1, <3>1, <3>2, <3>3, <3>4, <3>5, RunRewritten
  <2>3. CASE ~OwnsRun(r)
    <3>1. runs' = runs
      BY <1>5, <2>3 DEF ResolveFail
    <3>2. \A q \in Resolver : open'[q] # None =>
            /\ open'[q] = open[q] /\ open[q].gen \in DOMAIN runs'
            /\ runs'[open[q].gen].status = "RUNNING" /\ runs'[open[q].gen].lease = q
      BY <1>3, <2>1, <3>1 DEF CurrentInv, HoldInv, Holds
    <3> QED BY <1>1, <1>3, <2>1, <3>1, <3>2, Rows, RunsKeptQuiet
  <2> QED BY <2>2, <2>3
<1>6. ASSUME NEW h \in DOMAIN runs, runs' = [runs EXCEPT ![h] = Expired(@)],
             \A q \in Actor : open'[q] # None => open'[q] = open[q]
      PROVE  CurrentInv' /\ AskInv'
  <2> DEFINE v == [runs[h] EXCEPT !.live = FALSE]
  <2>1. runs' = [runs EXCEPT ![h] = v]
    BY <1>6 DEF Expired
  <2>2. /\ v.status = runs[h].status /\ v.lease = runs[h].lease
        /\ v.at = runs[h].at /\ v.result = runs[h].result
    BY <1>2, Zenon DEF RunSet
  <2> HIDE DEF v
  <2>3. \A q \in Resolver : open'[q] # None =>
          /\ open'[q] = open[q]
          /\ open[q].gen = h => v.status = "RUNNING" /\ v.lease = q
    BY <1>3, <1>6, <2>2 DEF CurrentInv, HoldInv, Holds
  <2>4. v.status = "COMPLETED" <=> runs[h].status = "COMPLETED"
    BY <2>2
  <2>5. \A q \in Requester : open'[q] # None => open'[q] = open[q]
    BY <1>3, <1>6
  <2> QED BY ONLY <1>1, <2>1, <2>2, <2>3, <2>4, <2>5, h \in DOMAIN runs, Inv, CurrentInv,
                  AskInv, RunRewritten
<1>7. CASE r \in Resolver /\ CrashResolver(r)
  <2>1. \A q \in Actor : open'[q] # None => open'[q] = open[q]
    BY <1>3, <1>7 DEF CrashResolver
  <2>2. CASE OwnsRun(r)
    <3>1. claim[r] \in DOMAIN runs /\ runs' = [runs EXCEPT ![claim[r]] = Expired(@)]
      BY <1>7, <2>2 DEF CrashResolver, OwnsRun, Inv, ClaimInv, RunInv
    <3> QED BY <1>6, <2>1, <3>1
  <2>3. CASE ~OwnsRun(r)
    <3>1. runs' = runs
      BY <1>7, <2>3 DEF CrashResolver
    <3>2. \A q \in Resolver : open'[q] # None =>
            /\ open'[q] = open[q] /\ open[q].gen \in DOMAIN runs'
            /\ runs'[open[q].gen].status = "RUNNING" /\ runs'[open[q].gen].lease = q
      BY <1>3, <2>1, <3>1 DEF CurrentInv, HoldInv, Holds
    <3> QED BY <1>1, <1>3, <2>1, <3>1, <3>2, Rows, RunsKeptQuiet
  <2> QED BY <2>2, <2>3
<1>8. CASE g \in DOMAIN runs /\ ExpireRun(g)
  BY <1>6, <1>8 DEF ExpireRun
<1>9. CASE EnqueuePublished
  <2> DEFINE v == NewRun(Len(runs) + 1)
             S == Elements(runs) \cup {v}
  <2>1. runs' = Append(runs, v) /\ open' = open /\ v.status = "PENDING"
    BY <1>9 DEF EnqueuePublished, NewRun
  <2>2. runs \in Seq(Elements(runs)) /\ Len(runs) \in Nat /\ DOMAIN runs = 1..Len(runs)
    BY DEF Inv, RunInv
  <2>3. runs \in Seq(S) /\ v \in S
    <3> DEFINE R == Elements(runs)
    <3>1. R \subseteq S /\ runs \in Seq(R)
      BY <2>2
    <3>2. \A k \in 1..Len(runs) : runs[k] \in S
      BY <2>2 DEF Elements
    <3> HIDE DEF S, R
    <3> QED BY <2>2, <3>1, <3>2, SeqDef DEF S
  <2> HIDE DEF v, S
  <2>4. /\ Len(runs') = Len(runs) + 1 /\ runs' \in Seq(S)
        /\ \A h \in 1..Len(runs) : runs'[h] = runs[h]
        /\ runs'[Len(runs) + 1] = v
    BY <2>1, <2>2, <2>3, AppendProperties
  <2>5. DOMAIN runs' = 1..(Len(runs) + 1)
    BY <2>4
  <2>6. Done(runs') = Done(runs) /\ \A h \in Done(runs) : runs'[h] = runs[h]
    BY <2>1, <2>2, <2>4, <2>5 DEF Done
  <2>7. \A q \in Resolver : open'[q] # None =>
          /\ open'[q] = open[q] /\ open[q].gen \in DOMAIN runs'
          /\ runs'[open[q].gen].status = "RUNNING" /\ runs'[open[q].gen].lease = q
    BY <2>1, <2>2, <2>4, <2>5 DEF CurrentInv, HoldInv, Holds
  <2>8. 0 \notin DOMAIN runs' /\ \A h \in Done(runs) : runs'[h].at = runs[h].at /\ runs'[h].result = runs[h].result
    BY <2>2, <2>5, <2>6
  <2> QED BY <2>8, <1>1, <2>1, <2>5, <2>6, <2>7, RunsKeptQuiet
<1> QED BY <1>4, <1>5, <1>7, <1>8, <1>9

\* What a resolver opens: a formed result, and what it says new.
LEMMA BeginOpens ==
  ASSUME Inv, NEW r \in Resolver, ResolveBegin(r)
  PROVE  \E result :
           /\ Formed(result)
           /\ open' = [open EXCEPT ![r] =
                [gen |-> claim[r], result |-> result, at |-> now + 1, beside |-> {},
                 sources |-> AffectedBy(Latest, result),
                 targets |-> CanonicalsIn(result, AffectedBy(Latest, result)),
                 writes |-> NoWrites]]
<1> DEFINE g == claim[r]
           Opened(result, affected) ==
             open' = [open EXCEPT ![r] =
               [gen |-> g, result |-> result, at |-> now + 1, beside |-> {},
                sources |-> affected, targets |-> CanonicalsIn(result, affected),
                writes |-> NoWrites]]
           Stored(nodes, names, conflicted, component) ==
             \E clusters \in {Clusters(component, names)} :
             \E result \in {[assign |-> Assignments(component, clusters, conflicted),
                             clusters |-> clusters]} :
             \E affected \in {AffectedBy(Latest, result)} : Opened(result, affected)
<1>1. gens[g].content \in Snapshot
  <2>1. g \in 1..Len(gens)
    BY DEF ResolveBegin, OwnsRun, Inv, ClaimInv, RunInv, GenInv
  <2>2. gens[g] \in [at : Nat, content : Snapshot]
    <3> HIDE DEF g
    <3> QED BY <2>1, ElementOfSeq DEF Inv, GenInv
  <2> QED BY <2>2
<1>2. PICK E, nodes, names, conflicted, eligible, component :
        /\ E = EvidenceOf(g) /\ nodes = Nodes(g)
        /\ conflicted = Conflicted(E) /\ eligible = Eligible(E, conflicted)
        /\ component = ComponentOf(eligible, nodes)
        /\ Stored(nodes, names, conflicted, component)
  <2> HIDE DEF Opened
  <2>1. PICK E \in {EvidenceOf(claim[r])}, nodes \in {Nodes(claim[r])},
           names \in {ContactNames(claim[r])}, previous \in {Latest} :
     \E conflicted \in {Conflicted(E)} :
     \E eligible \in {Eligible(E, conflicted)} :
     \E closed \in {Closed(eligible)} :
     \E classes \in {Classes(nodes, closed)} :
     \E component \in {Components(nodes, classes)} :
     \E clusters \in {Clusters(component, names)} :
     \E result \in {[assign |-> Assignments(component, clusters, conflicted),
                     clusters |-> clusters]} :
     \E affected \in {AffectedBy(previous, result)} : Opened(result, affected)
    BY DEF ResolveBegin, Opened
  <2> HIDE DEF Stored
  <2>2. PICK conflicted, eligible, closed, classes, component :
          /\ conflicted = Conflicted(E) /\ eligible = Eligible(E, conflicted)
          /\ closed = Closed(eligible) /\ classes = Classes(nodes, closed)
          /\ component = Components(nodes, classes)
          /\ Stored(nodes, names, conflicted, component)
    BY <2>1 DEF Stored
  <2> WITNESS E, nodes, names, conflicted, eligible, component
  <2> QED BY <2>1, <2>2 DEF ComponentOf
<1>3. PICK clusters, result :
        /\ clusters = Clusters(component, names)
        /\ result = [assign |-> Assignments(component, clusters, conflicted),
                     clusters |-> clusters]
        /\ Opened(result, AffectedBy(Latest, result))
  <2> HIDE DEF Opened
  <2> QED BY <1>2
<1>4. Formed(result)
  <2>1. Derivable(E)
    BY <1>1, <1>2, EvidenceDerived
  <2>2. nodes \subseteq Identity
    BY <1>2 DEF Nodes
  <2>3. /\ conflicted = Conflicted(E) /\ eligible = Eligible(E, conflicted)
        /\ component = ComponentOf(eligible, nodes)
        /\ clusters = Clusters(component, names)
        /\ result = [assign |-> Assignments(component, clusters, conflicted),
                     clusters |-> clusters]
    BY <1>2, <1>3
  <2> QED BY ONLY <2>1, <2>2, <2>3, ResultFormed
<1> QED BY <1>3, <1>4

\* A resolution begins: it announces what its targets cover.
LEMMA BeginKept ==
  ASSUME Inv, CurrentInv, AskInv, NEW r \in Resolver, ResolveBegin(r)
  PROVE  CurrentInv' /\ AskInv'
<1> DEFINE L == LatestIn(runs, now)
<1>1. PICK result :
        /\ Formed(result)
        /\ open' = [open EXCEPT ![r] =
             [gen |-> claim[r], result |-> result, at |-> now + 1, beside |-> {},
              sources |-> AffectedBy(L, result),
              targets |-> CanonicalsIn(result, AffectedBy(L, result)),
              writes |-> NoWrites]]
  BY BeginOpens, InTheState
<1> DEFINE b == [gen |-> claim[r], result |-> result, at |-> now + 1, beside |-> {},
                 sources |-> AffectedBy(L, result),
                 targets |-> CanonicalsIn(result, AffectedBy(L, result)),
                 writes |-> NoWrites]
<1>2. /\ now \in Nat /\ now' = now + 1 /\ now' \in Nat /\ now <= now'
      /\ UNCHANGED <<obs, runs, work, rev, member, gap>> /\ 0 \notin DOMAIN runs
      /\ claim[r] \in DOMAIN runs /\ runs[claim[r]].status = "RUNNING" /\ runs[claim[r]].lease = r
  <2>1. claim[r] \in DOMAIN runs
    BY DEF ResolveBegin, OwnsRun, Inv, ClaimInv, RunInv
  <2> QED BY <2>1, Rows DEF ResolveBegin, OwnsRun, evidence
<1>3. Dated(runs, now) /\ Formed(L) /\ Dated(runs, now') /\ LatestIn(runs, now') = L
  <2>1. Dated(runs, now)
    BY DEF CurrentInv, TimeInv
  <2> QED BY <1>2, <2>1, ResultsFormed, RunsSame
<1>4. Observed(obs', now') /\ \A j : NameStays(obs, now, obs', now', j)
  <2>1. Observed(obs, now) /\ obs' = obs \cup {}
    BY <1>2 DEF CurrentInv, ObsInv
  <2> QED BY <1>2, <2>1, ObservedStays
<1>5. \A i \in Identity : i \notin gap' =>
        i \notin gap /\ \A j \in Kin(Latest, {i}) : NameStays(obs, now, obs', now', j)
  BY <1>2, <1>4
<1>6. ObsInv' /\ TimeInv' /\ PhaseInv' /\ MemberPromise'
  BY <1>2, <1>4, <1>5, QuietKept
<1> HIDE DEF b
<1>7. \A q \in Resolver \cup Requester : q # r => open'[q] = open[q]
  BY <1>1 DEF Inv, OpenInv, Actor, b
<1>8. open'[r] = b
  BY <1>1 DEF Inv, OpenInv, Actor, b
<1> USE DEF b
<1>9. Holds(runs, now', r, b)
  <2>1. AffectedBy(L, result) \subseteq Identity
    BY <1>1, <1>3 DEF AffectedBy, Formed
  <2>2. \A h \in Done(runs) : runs[h].at # now + 1
    BY <1>2, <1>3 DEF Dated
  <2> HIDE DEF L
  <2> QED BY <1>1, <1>2, <2>1, <2>2 DEF Holds
<1>10. Announced(obs', now', runs, gap, b)
  <2>1. ASSUME NEW i \in Identity, i \notin Kin(b.result, b.targets)
        PROVE  Same(b.result, L, i)
    <3>1. b.result = result /\ b.targets = CanonicalsIn(result, AffectedBy(L, result))
      OBVIOUS
    <3>2. i \notin Kin(result, CanonicalsIn(result, AffectedBy(L, result)))
      BY <2>1, <3>1
    <3> HIDE DEF b, L
    <3> QED BY <1>1, <1>3, <3>1, <3>2, AffectedCovers
  <2>2. b.at = now'
    BY <1>2
  <2>3. \A h \in Done(runs) : runs[h].at < b.at
    BY <1>2, <1>3 DEF Dated
  <2> HIDE DEF b, L
  <2> QED BY <1>3, <2>1, <2>2, <2>3 DEF Announced, FreshIn
<1>11. ASSUME NEW q \in Resolver, q # r, open[q] # None
       PROVE  /\ Holds(runs, now', q, open[q]) /\ Announced(obs', now', runs, gap, open[q])
              /\ open[q].at # now + 1
  <2> DEFINE c == open[q]
  <2>1. Holds(runs, now, q, c)
    BY <1>11 DEF CurrentInv, HoldInv
  <2>2. /\ c.gen \in DOMAIN runs' /\ runs'[c.gen].status = "RUNNING" /\ runs'[c.gen].lease = q
        /\ c.at # now + 1
    BY <1>2, <2>1 DEF Holds
  <2>3. c.beside \subseteq c.beside /\ \A j \in Identity : j \notin c.beside => NameStays(obs, now, obs', now', j)
    BY <1>4
  <2>4. c = open[q]
    OBVIOUS
  <2> HIDE DEF c
  <2>5. Holds(runs', now', q, c) /\ Announced(obs', now', runs', gap', c)
    BY <1>2, <1>5, <1>11, <2>2, <2>3, <2>4, OpenKept
  <2> QED BY <1>2, <2>2, <2>4, <2>5
<1> HIDE DEF b, L
<1>12. b.at = now + 1
  BY DEF b
<1>13. HoldInv'
  <2>1. ASSUME NEW q \in Resolver, open'[q] # None
        PROVE  /\ Holds(runs', now', q, open'[q])
               /\ \A s \in Resolver : open'[s] # None /\ open'[s].at = open'[q].at => s = q
    <3>1. CASE q = r
      BY <1>2, <1>7, <1>8, <1>9, <1>11, <1>12, <3>1
    <3>2. CASE q # r
      BY <1>2, <1>7, <1>8, <1>11, <1>12, <2>1, <3>2 DEF CurrentInv, HoldInv
    <3> QED BY <3>1, <3>2
  <2> QED BY <2>1 DEF HoldInv
<1>14. OpenPromise'
  BY <1>2, <1>7, <1>8, <1>10, <1>11 DEF OpenPromise
<1>15. AskInv'
  <2>1. \A c \in Requester : open'[c] = open[c]
    BY <1>7, ProjectionAssumption DEF Requester
  <2> QED BY <1>2, <2>1, AskKept
<1> QED BY <1>6, <1>13, <1>14, <1>15 DEF CurrentInv

\* A resolution commits: its request promises its result to the kin of its
\* targets, unless something was asked for beside it, and is no news of others.
LEMMA CommitKept ==
  ASSUME Inv, CurrentInv, NEW r \in Resolver, ResolveCommit(r)
  PROVE  CurrentInv'
<1> DEFINE b == open[r]
           S == b.sources
           T == b.targets
           R == b.result
           a == b.at
           g == b.gen
           K == Kin(R, T)
           L == LatestIn(runs, now)
           M == LatestIn(runs', now)
           v == [runs[g] EXCEPT !.status = "COMPLETED", !.lease = None, !.live = FALSE,
                                !.at = a, !.result = R]
<1>1. /\ b # None /\ UNCHANGED <<now, obs, member>>
      /\ work' = Upserted(S, T, a) /\ rev' = rev + Cardinality(T)
      /\ open' = [Noted(Identity) EXCEPT ![r] = None]
      /\ runs' = [runs EXCEPT ![g] = v]
      /\ gap' = Covered(r)
  BY DEF ResolveCommit, evidence
<1>2. Holds(runs, now, r, b) /\ Announced(obs, now, runs, gap, b)
  BY <1>1 DEF CurrentInv, HoldInv, OpenPromise
<1>3. /\ now \in Nat /\ rev \in Nat /\ 0 \notin DOMAIN runs
      /\ (\A k \in Identity : WorkRow(work[k], rev))
      /\ (\A m \in Member : member[m].rev \in Nat /\ member[m].rev <= rev)
      /\ Observed(obs, now) /\ Dated(runs, now)
      /\ \A k \in Identity : Phased(runs, now, work[k])
  BY Rows DEF CurrentInv, ObsInv, TimeInv, PhaseInv
<1>4. /\ g \in DOMAIN runs /\ g # 0 /\ g \notin Done(runs) /\ a \in Nat /\ a <= now
      /\ (\A h \in Done(runs) : runs[h].at # a) /\ Formed(R)
      /\ S \subseteq Identity /\ T = CanonicalsIn(R, S)
  BY <1>2, <1>3 DEF Holds, Done
<1>5. v.status = "COMPLETED" /\ v.at = a /\ v.result = R
  <2>1. runs[g] \in RunSet({runs[g].status, runs[g].att, runs[g].lease, runs[g].live, runs[g].result})
    BY <1>4 DEF Inv, RunInv, RunRow
  <2> HIDE DEF a, R, g
  <2> QED BY <2>1, Zenon DEF RunSet
<1> HIDE DEF v
<1>6. /\ 0 \notin DOMAIN runs' /\ Done(runs') = Done(runs) \cup {g}
      /\ runs'[g].at = a /\ runs'[g].result = R
      /\ \A h \in DOMAIN runs : h # g => runs'[h] = runs[h] /\ h \in DOMAIN runs'
  <2> HIDE DEF g
  <2> QED BY <1>1, <1>3, <1>4, <1>5 DEF Done
<1>7. \A h \in Done(runs) : runs'[h] = runs[h]
  <2> HIDE DEF g
  <2> QED BY <1>4, <1>6 DEF Done
<1>8. /\ Dated(runs', now)
      /\ \A cut \in Nat : RunIn(runs', cut) \in {RunIn(runs, cut), g}
      /\ RunIn(runs', a) = g
      /\ (\A h \in Done(runs) : runs[h].at < a) => \A cut \in Nat : a <= cut => RunIn(runs', cut) = g
      /\ \A h \in Done(runs) \cup {0} : ResultIn(runs', h) = ResultIn(runs, h)
      /\ ResultIn(runs', g) = R
  <2> HIDE DEF g, a, R
  <2> QED BY ONLY <1>3, <1>4, <1>6, <1>7, RunsCompleted
<1>9. M = L \/ M = R
  <2>1. RunIn(runs, now) \in Done(runs) \cup {0} /\ RunIn(runs', now) \in {RunIn(runs, now), g}
    BY <1>3, <1>8, ResultsFormed
  <2> HIDE DEF g, R
  <2> QED BY <1>8, <2>1 DEF LatestIn
<1>10. Asked(work, rev, work', rev', S, T, a) /\ rev' \in Nat /\ rev <= rev'
  <2>1. T \subseteq Identity
    <3> HIDE DEF R, S, T
    <3> QED BY <1>4, KinOfKeys
  <2>2. QueueInv
    BY DEF Inv
  <2> HIDE DEF S, T, a
  <2> QED BY ONLY <1>1, <2>1, <2>2, UpsertAsks
<1>11. Formed(M)
  BY <1>3, <1>8, ResultsFormed
<1> HIDE DEF b, S, T, R, a, g, M, L
<1>12. ASSUME NEW i \in Identity, i \notin gap, i \notin K
       PROVE  /\ Same(R, L, i) /\ Same(M, L, i) /\ Same(R, M, i) /\ FreshIn(obs, now, L, i, a)
  <2>1. Same(R, L, i) /\ FreshIn(obs, now, L, i, a)
    BY <1>2, <1>12 DEF Announced, R, T, L, a
  <2>2. Same(L, L, i) /\ Same(R, R, i)
    BY SameEquivalent
  <2> QED BY <1>9, <2>1, <2>2
<1>13. ASSUME NEW i \in Identity, i \notin gap'
       PROVE  \/ i \notin K /\ i \notin gap
              \/ /\ i \in K /\ Kin(R, {i}) \cap b.beside = {}
                 /\ \A q \in Resolver : q # r => open[q] = None
  BY <1>1, <1>13 DEF Covered, K, R, T, b
<1>14. ASSUME NEW i \in Identity, i \notin gap, i \notin K
       PROVE  NoNews(obs, now, runs, obs, now, runs', i)
  <2>1. \A cut \in 0..now : \/ RunIn(runs', cut) = RunIn(runs, cut)
                            \/ Same(ResultIn(runs', RunIn(runs', cut)), M, i)
    BY <1>3, <1>8, <1>12, <1>14
  <2>2. Same(M, L, i)
    BY <1>12, <1>14
  <2> QED BY <1>8, <2>1, <2>2 DEF NoNews, NameStays, M, L
<1>15. ASSUME NEW m \in Member, member[m].present, member[m].known, IdentityOf[m] \notin gap'
       PROVE  Kept(obs, now, runs', work', rev', member[m], m)
  <2> DEFINE i == IdentityOf[m]
             u == member[m]
             c == CanonicalIn(M, i)
  <2>1. i \in Identity
    BY ProjectionAssumption DEF Exact
  <2>2. c \in Identity /\ CanonicalIn(M, c) = c
    BY <1>11, <2>1, FormedKin
  <2>3. Good(obs, now, runs', i, RunIn(runs', a), a) =>
          /\ c \in T => Kept(obs, now, runs', work', rev', u, m)
          /\ c \notin S \ T => (Kept(obs, now, runs', work, rev, u, m) =>
                                Kept(obs, now, runs', work', rev', u, m))
    <3>1. u.rev \in Nat /\ u.rev <= rev
      BY <1>3
    <3> HIDE DEF u
    <3>2. CanonicalIn(LatestIn(runs', now), IdentityOf[m]) \in Identity
      BY <2>2 DEF M
    <3>3. ASSUME Good(obs, now, runs', i, RunIn(runs', a), a)
          PROVE  \A k \in Identity : k \in T =>
                   GoodFor(obs, now, runs', IdentityOf[m], k, RunIn(runs', a), a)
      BY <3>3 DEF GoodFor
    <3> HIDE DEF i
    <3> QED BY <1>3, <1>10, <3>1, <3>2, <3>3, AskedKeeps DEF M, i
  <2> HIDE DEF i, u, c
  <2>4. i \notin gap'
    BY <1>15 DEF i
  <2>5. CASE i \notin K /\ i \notin gap
    <3>1. Same(R, M, i) /\ Same(M, L, i) /\ FreshIn(obs, now, L, i, a)
      BY <1>12, <2>1, <2>5
    <3>2. Kin(M, {i}) = Kin(L, {i}) /\ CanonicalIn(R, i) = CanonicalIn(M, i)
      BY <3>1, SameEquivalent
    <3>3. Good(obs, now, runs', i, RunIn(runs', a), a)
      BY <1>8, <3>1, <3>2 DEF Good, FreshIn, M
    <3>4. c \notin S \ T
      <4>1. CanonicalIn(R, i) = c
        BY <3>2 DEF c
      <4>2. CanonicalIn(R, c) = c
        BY <1>4, <2>1, <4>1, FormedKin
      <4> QED BY <1>4, <4>2 DEF CanonicalsIn
    <3>5. PICK t \in 1..rev : Promised(obs, now, runs, work, u, m, t)
      BY <1>15, <2>5 DEF CurrentInv, MemberPromise, Kept, u, i
    <3>6. Promised(obs, now, runs', work, u, m, t)
      <4>1. NoNews(obs, now, runs, obs, now, runs', IdentityOf[m])
        BY <1>14, <2>1, <2>5 DEF i
      <4> QED BY <1>3, <1>8, <3>5, <4>1, PromiseStays
    <3> QED BY <2>3, <3>3, <3>4, <3>5, <3>6 DEF Kept, u
  <2>6. CASE i \in K /\ Kin(R, {i}) \cap b.beside = {}
    <3>1. FreshIn(obs, now, R, i, a) /\ \A h \in Done(runs) : runs[h].at < a
      BY <1>2, <2>1, <2>6 DEF Announced, R, a
    <3>2. RunIn(runs', now) = g
      BY <1>3, <1>4, <1>8, <3>1
    <3>3. M = R
      BY <1>8, <3>2 DEF M, LatestIn
    <3>4. Same(R, R, i)
      BY SameEquivalent
    <3>5. Good(obs, now, runs', i, RunIn(runs', a), a)
      BY <1>8, <3>1, <3>3, <3>4 DEF Good, M
    <3>6. c \in T
      <4>1. PICK k \in T : CanonicalIn(R, i) = CanonicalIn(R, k)
        BY <2>6 DEF K, Kin
      <4>2. PICK s \in S : k = CanonicalIn(R, s)
        BY <1>4, <4>1 DEF CanonicalsIn
      <4>3. CanonicalIn(R, k) = k
        BY <1>4, <4>2, FormedKin
      <4> QED BY <3>3, <4>1, <4>3 DEF c
    <3> QED BY <2>3, <3>5, <3>6 DEF u
  <2> QED BY <1>13, <2>1, <2>4, <2>5, <2>6
<1>16. ASSUME NEW q \in Resolver, open'[q] # None
       PROVE  /\ q # r /\ open[q] # None /\ open'[q].at = open[q].at
              /\ Holds(runs', now, q, open'[q]) /\ Announced(obs, now, runs', gap', open'[q])
  <2> DEFINE d == open[q]
             c == open'[q]
  <2>1. q # r /\ c = Noted(Identity)[q]
    <3>1. DOMAIN Noted(Identity) = Actor /\ q \in Actor
      BY DEF Noted, Actor
    <3> QED BY <1>1, <1>16, <3>1
  <2>2. /\ d # None /\ d.at \in Nat /\ c.gen = d.gen /\ c.result = d.result /\ c.at = d.at
        /\ c.sources = d.sources /\ c.targets = d.targets /\ c.beside = d.beside \cup Identity
    <3>1. OpenInv /\ Noted(Identity)[q] # None /\ q \in Actor
      BY <1>16, <2>1 DEF Inv, Actor
    <3> QED BY <2>1, <3>1, NotedColumns
  <2>3. /\ Holds(runs, now, q, d) /\ Announced(obs, now, runs, gap, d) /\ d.at # a
    BY <1>1, <2>1, <2>2 DEF CurrentInv, HoldInv, OpenPromise, a, b
  <2>4. gap \subseteq gap' /\ K \subseteq gap'
    <3>1. \E s \in Resolver \ {r} : open[s] # None
      BY <2>1, <2>2
    <3> QED BY <1>1, <3>1 DEF Covered, K, R, T, b
  <2> HIDE DEF c, d
  <2>5. Holds(runs', now, q, c)
    <3>1. d.gen \in DOMAIN runs /\ runs[d.gen].status = "RUNNING" /\ runs[d.gen].lease = q /\ d.gen # g
      BY <1>2, <2>1, <2>3 DEF Holds, g
    <3>2. d.gen \in DOMAIN runs' /\ runs'[d.gen] = runs[d.gen]
      BY <1>6, <3>1
    <3>3. \A h \in Done(runs') : runs'[h].at # d.at
      BY <1>6, <1>7, <2>3 DEF Holds
    <3> QED BY <2>2, <2>3, <3>1, <3>2, <3>3 DEF Holds
  <2>6. Announced(obs, now, runs', gap', c)
    <3> SUFFICES ASSUME NEW i \in Identity
                 PROVE  /\ i \notin gap' \cup Kin(c.result, c.targets) => Same(c.result, M, i)
                        /\ i \notin gap' => FreshIn(obs, now, M, i, c.at)
                        /\ Kin(c.result, {i}) \cap c.beside # {}
      BY DEF Announced, M
    <3>1. /\ i \notin gap \cup Kin(d.result, d.targets) => Same(d.result, L, i)
          /\ i \notin gap => FreshIn(obs, now, L, i, d.at)
      BY <2>3 DEF Announced, L
    <3>2. i \notin gap' => Same(L, M, i) /\ Kin(L, {i}) = Kin(M, {i})
      <4>1. i \notin gap' => Same(M, L, i)
        BY <1>12, <2>4
      <4> QED BY <4>1, SameEquivalent
    <3>3. i \notin gap' \cup Kin(c.result, c.targets) => Same(c.result, M, i)
      <4>1. ASSUME i \notin gap', i \notin Kin(c.result, c.targets)
            PROVE  Same(c.result, M, i)
        <5>1. Same(c.result, L, i) /\ Same(L, M, i)
          BY <2>2, <2>4, <3>1, <3>2, <4>1
        <5> QED BY <5>1, SameEquivalent
      <4> QED BY <4>1
    <3>4. i \notin gap' => FreshIn(obs, now, M, i, c.at)
      BY <2>2, <2>4, <3>1, <3>2 DEF FreshIn
    <3>5. i \in Kin(c.result, {i}) /\ i \in c.beside
      BY <2>2 DEF Kin
    <3> QED BY <3>3, <3>4, <3>5
  <2> QED BY <2>1, <2>2, <2>5, <2>6 DEF c, d
<1>17. HoldInv' /\ OpenPromise'
  <2>1. UNCHANGED <<now, obs>>
    BY <1>1
  <2>2. \A q, s \in Resolver :
          open[q] # None /\ open[s] # None /\ open[s].at = open[q].at => s = q
    BY DEF CurrentInv, HoldInv
  <2>3. \A q, s \in Resolver :
          open'[q] # None /\ open'[s] # None /\ open'[s].at = open'[q].at => s = q
    BY ONLY <1>16, <2>2
  <2>4. \A q \in Resolver : open'[q] # None =>
          Holds(runs', now', q, open'[q]) /\ Announced(obs', now', runs', gap', open'[q])
    BY ONLY <1>16, <2>1
  <2> QED BY ONLY <2>3, <2>4 DEF HoldInv, OpenPromise
<1>18. PhaseInv'
  <2>1. ASSUME NEW k \in Identity
        PROVE  Phased(runs', now, work'[k])
    <3>1. Phased(runs, now, work'[k])
      BY <1>3, <1>4, <1>10, AskedPhased
    <3>2. Done(runs) \subseteq Done(runs') /\ now <= now
      BY <1>3, <1>6
    <3> QED BY <1>3, <3>1, <3>2, PhaseStays
  <2> QED BY <1>1, <2>1 DEF PhaseInv
<1>19. ObsInv' /\ TimeInv'
  BY <1>1, <1>3, <1>8 DEF ObsInv, TimeInv
<1>20. MemberPromise'
  BY <1>1, <1>15 DEF MemberPromise
<1> QED BY <1>17, <1>18, <1>19, <1>20 DEF CurrentInv

\* The requests beside it: it takes every identity's news away from them.
LEMMA CommitAsks ==
  ASSUME Inv, CurrentInv, AskInv, NEW r \in Resolver, ResolveCommit(r)
  PROVE  AskInv'
<1>1. UNCHANGED <<now, obs>> /\ open' = [Noted(Identity) EXCEPT ![r] = None]
  BY DEF ResolveCommit, evidence
<1>2. DOMAIN Noted(Identity) = Actor /\ r \notin Requester /\ \A c \in Requester : c \in Actor
  BY ProjectionAssumption DEF Noted, Requester, Actor
<1>3. ASSUME NEW c \in Requester, open'[c] # None
      PROVE  /\ open[c] # None /\ Asks(obs', now', runs', open'[c])
             /\ open'[c].writes = open[c].writes
  <2> DEFINE e == open'[c]
             M == open[c].writes.names
  <2>1. e = Noted(Identity)[c] /\ e # None
    BY <1>1, <1>2, <1>3
  <2>2. open[c] # None
    BY <1>2, <2>1 DEF Noted
  <2>3. Observed(obs \cup M, now)
    BY <2>2 DEF AskInv, Asks, With
  <2>4. now \in Nat /\ now <= now /\ Identity \subseteq Identity
    BY Rows
  <2> HIDE DEF e
  <2>5. Asks(obs, now, runs', e) /\ e.writes = open[c].writes
    BY <2>1, <2>3, <2>4, NotedAsks
  <2> QED BY <1>1, <2>2, <2>5 DEF e
<1>4. \A p \in Projector : p \in Requester
  BY DEF Requester
<1> QED BY <1>3, <1>4 DEF AskInv

-----------------------------------------------------------------------------
(***************************************************************************)
(* Rows of work.  Row v of key k carries what row w promises.              *)
(***************************************************************************)
Carries(k, w, v) ==
  /\ Phased(runs, now, v)
  /\ \A i \in Identity : \A t \in 1..rev :
       GoodRow(obs, now, runs, i, k, w, t) => GoodRow(obs, now, runs, i, k, v, t)
  /\ \A m \in Member : \A t \in 1..rev : Awaits(w, m, t) => Awaits(v, m, t)

\* A row changes into one that carries its promises.
LEMMA RowKept ==
  ASSUME Inv, CurrentInv, UNCHANGED <<obs, now, runs, rev, member, gap>>,
         \A r \in Resolver : open'[r] = open[r],
         NEW k \in Identity, NEW v, work' = [work EXCEPT ![k] = v], Carries(k, work[k], v)
  PROVE  CurrentInv'
<1>1. DOMAIN work = Identity
  BY DEF Inv, QueueInv
<1>2. \A j \in Identity : work'[j] = IF j = k THEN v ELSE work[j]
  BY <1>1
<1>3. PhaseInv'
  BY <1>2 DEF CurrentInv, PhaseInv, Carries
<1>4. ASSUME NEW m \in Member, NEW t \in 1..rev,
             Promised(obs, now, runs, work, member[m], m, t)
      PROVE  Promised(obs, now, runs, work', member[m], m, t)
  <2> DEFINE i == IdentityOf[m]
             c == CanonicalIn(LatestIn(runs, now), i)
  <2>1. i \in Identity
    BY ProjectionAssumption DEF Exact
  <2>2. \A j \in Identity : GoodRow(obs, now, runs, i, j, work'[j], t)
    <3> SUFFICES ASSUME NEW j \in Identity PROVE GoodRow(obs, now, runs, i, j, work'[j], t)
      OBVIOUS
    <3>1. GoodRow(obs, now, runs, i, j, work[j], t)
      BY <1>4 DEF Promised
    <3> HIDE DEF i
    <3> QED BY <1>2, <2>1, <3>1 DEF Carries
  <2>3. c \in Identity
    <3>1. Formed(LatestIn(runs, now))
      BY Rows, ResultsFormed DEF CurrentInv, TimeInv
    <3> HIDE DEF i
    <3> QED BY <2>1, <3>1, FormedKin
  <2>4. Awaits(work[c], m, t) => Awaits(work'[c], m, t)
    <3> HIDE DEF c
    <3> QED BY <1>2, <2>3 DEF Carries
  <2> QED BY <1>4, <2>2, <2>4 DEF Promised
<1>5. MemberPromise'
  BY <1>4 DEF CurrentInv, MemberPromise, Kept
<1> QED BY <1>3, <1>5 DEF CurrentInv, ObsInv, TimeInv, HoldInv, OpenPromise

\* The lease is given back or runs out: active work keeps all it has.
LEMMA GivenBack ==
  ASSUME Inv, CurrentInv, NEW k \in Identity, NEW v,
         \/ v = Expired(work[k])
         \/ \E s \in {"PENDING", "RETRY", "FAILED"} :
              /\ work[k].status = "RUNNING"
              /\ v = [work[k] EXCEPT !.status = s, !.lease = None, !.live = FALSE]
  PROVE  Carries(k, work[k], v)
<1> DEFINE w == work[k]
           C == {w.reqCut, w.actCut, w.actRun, w.cursor, w.lease}
<1>1. w \in WorkSet(C) /\ Phased(runs, now, w)
  BY DEF Inv, QueueInv, WorkRow, CurrentInv, PhaseInv
<1>2. \/ v = [w EXCEPT !.live = FALSE]
      \/ \E s \in {"PENDING", "RETRY", "FAILED"} :
           w.status = "RUNNING" /\ v = [w EXCEPT !.status = s, !.lease = None, !.live = FALSE]
  BY DEF Expired
<1> HIDE DEF C, w
<1>3. /\ v.req = w.req /\ v.reqCut = w.reqCut /\ v.act = w.act /\ v.actCut = w.actCut
      /\ v.actRun = w.actRun /\ v.cursor = w.cursor
      /\ v.status = w.status \/ (w.status = "RUNNING" /\ v.status \in {"PENDING", "RETRY", "FAILED"})
  BY <1>1, <1>2, ZenonT(40) DEF WorkSet
<1>4. Carries(k, w, v)
  BY <1>1, <1>3 DEF Carries, Phased, GoodRow, Awaits, Active
<1> QED BY <1>4 DEF w

\* A claim takes the request over, with the newest run by its cutoff, or
\* resumes with what was active.
LEMMA ClaimCarries ==
  ASSUME Inv, CurrentInv, NEW k \in Identity, NEW p, NEW n, NEW v, Claimable(work[k]),
         NEW cut, cut = (IF work[k].act # 0 THEN work[k].actCut ELSE work[k].reqCut),
         v = [work[k] EXCEPT
                !.status = "RUNNING",
                !.act = IF work[k].act # 0 THEN work[k].act ELSE work[k].req, !.actCut = cut,
                !.actRun = IF work[k].actRun # 0 THEN work[k].actRun ELSE RunIn(runs, cut),
                !.att = n, !.lease = p, !.live = TRUE]
  PROVE  Carries(k, work[k], v)
<1> DEFINE w == work[k]
           C == {w.reqCut, w.actCut, w.actRun, w.cursor, w.lease}
           act == IF w.act # 0 THEN w.act ELSE w.req
           run == IF w.actRun # 0 THEN w.actRun ELSE RunIn(runs, cut)
<1>1. w \in WorkSet(C) /\ Phased(runs, now, w) /\ rev \in Nat
  BY DEF Inv, QueueInv, WorkRow, CurrentInv, PhaseInv
<1>2. /\ w.status \in Active
      /\ v = [w EXCEPT !.status = "RUNNING", !.act = act, !.actCut = cut, !.actRun = run,
                       !.att = n, !.lease = p, !.live = TRUE]
  BY DEF Claimable, Active
<1>3. cut = IF w.act # 0 THEN w.actCut ELSE w.reqCut
  OBVIOUS
<1>4. Dated(runs, now) /\ now \in Nat
  BY Rows DEF CurrentInv, TimeInv
<1>5. cut \in Nat /\ cut <= now /\ RunIn(runs, cut) \in Done(runs) \cup {0}
  <2> HIDE DEF w
  <2>1. cut \in Nat /\ cut <= now
    BY <1>1, <1>3 DEF Phased
  <2> QED BY <1>4, <2>1, ResultsFormed
<1> HIDE DEF C, w, act, run
<1>6. /\ v.req = w.req /\ v.reqCut = w.reqCut /\ v.act = act /\ v.actCut = cut
      /\ v.actRun = run /\ v.cursor = w.cursor /\ v.status = "RUNNING"
  BY <1>1, <1>2, ZenonT(40) DEF WorkSet
<1>7. w.req \in Nat /\ w.act \in Nat /\ w.req # 0
  BY <1>1, <1>2 DEF WorkSet, Phased
<1>8. Phased(runs, now, v)
  BY <1>1, <1>5, <1>6, <1>7 DEF Phased, act, run
<1>9. ASSUME NEW i \in Identity, NEW t \in 1..rev, GoodRow(obs, now, runs, i, k, w, t)
      PROVE  GoodRow(obs, now, runs, i, k, v, t)
  <2>1. CASE w.act = 0
    <3>1. act = w.req /\ cut = w.reqCut /\ run = RunIn(runs, cut)
      BY <1>1, <1>3, <2>1 DEF act, run, Phased
    <3> QED BY <1>2, <1>6, <1>7, <1>9, <2>1, <3>1 DEF GoodRow
  <2>2. CASE w.act # 0
    <3>1. act = w.act /\ cut = w.actCut
      BY <1>3, <2>2 DEF act
    <3>2. run = w.actRun \/ (w.actRun = 0 /\ run = RunIn(runs, cut))
      BY DEF run
    <3> QED BY <1>2, <1>6, <1>7, <1>9, <3>1, <3>2 DEF GoodRow
  <2> QED BY <2>1, <2>2
<1>10. ASSUME NEW m \in Member, NEW t \in 1..rev, Awaits(w, m, t)
       PROVE  Awaits(v, m, t)
  <2>1. m \in Nat /\ m # 0
    BY ProjectionAssumption
  <2>2. v.status \in Active
    BY <1>6 DEF Active
  <2>3. CASE w.act = 0
    <3>1. act = w.req /\ w.cursor = 0
      BY <1>1, <2>3 DEF act, Phased
    <3> QED BY <1>2, <1>6, <1>7, <1>10, <2>1, <2>2, <2>3, <3>1 DEF Awaits, Active
  <2>4. CASE w.act # 0
    <3>1. act = w.act
      BY <2>4 DEF act
    <3> QED BY <1>2, <1>6, <1>7, <1>10, <2>2, <3>1 DEF Awaits, Active
  <2> QED BY <2>3, <2>4
<1>11. Carries(k, w, v)
  BY <1>8, <1>9, <1>10 DEF Carries
<1> QED BY <1>11 DEF w

\* The claim, the release, the failure, the expiry and the loss of work.
LEMMA WorkStepKept ==
  ASSUME Inv, CurrentInv, AskInv,
         \/ \E p \in Projector :
              \/ \E i \in Identity : Claim(p, i)
              \/ Release(p) \/ ProjectFail(p) \/ CrashProjector(p)
         \/ \E i \in Identity : ExpireWork(i)
  PROVE  CurrentInv' /\ AskInv'
<1>1. /\ UNCHANGED <<obs, now, runs, rev, member, gap>>
      /\ \A r \in Resolver : open'[r] = open[r]
      /\ \A c \in Requester : open'[c] # None => open'[c] = open[c]
  <2>1. UNCHANGED <<obs, now, runs, rev, member, gap>>
    BY DEF Claim, Release, ProjectFail, CrashProjector, ExpireWork, evidence
  <2>2. open' = open \/ \E p \in Projector : open' = [open EXCEPT ![p] = None]
    BY DEF Claim, Release, ProjectFail, CrashProjector, ExpireWork
  <2>3. DOMAIN open = Actor /\ \A c \in Requester \cup Resolver : c \in Actor
    BY DEF Inv, OpenInv, Actor
  <2>4. \A p \in Projector : p \notin Resolver
    BY ProjectionAssumption
  <2> QED BY <2>1, <2>2, <2>3, <2>4
<1>2. AskInv'
  <2>1. now' \in Nat /\ now <= now' /\ 0 \notin DOMAIN runs' /\ Done(runs') = Done(runs)
    BY <1>1, Rows
  <2> QED BY <1>1, <2>1, AskKept
<1>3. ASSUME NEW k \in Identity, NEW v, work' = [work EXCEPT ![k] = v], Carries(k, work[k], v)
      PROVE  CurrentInv' /\ AskInv'
  BY <1>1, <1>3, <1>2, RowKept
<1>4. CASE work' = work
  BY <1>1, <1>4, <1>2 DEF CurrentInv, ObsInv, TimeInv, HoldInv, PhaseInv, OpenPromise, MemberPromise
<1>5. \A p \in Projector : Owns(p) => job[p].id \in Identity /\ work[job[p].id].status = "RUNNING"
  BY DEF Inv, JobInv, Owns
<1>6. ASSUME NEW p \in Projector, NEW i \in Identity, Claim(p, i)
      PROVE  CurrentInv' /\ AskInv'
  <2> DEFINE w == work[i]
             cut == IF w.act # 0 THEN w.actCut ELSE w.reqCut
             v == [w EXCEPT !.status = "RUNNING", !.act = IF w.act # 0 THEN w.act ELSE w.req,
                            !.actCut = cut,
                            !.actRun = IF w.actRun # 0 THEN w.actRun ELSE RunIn(runs, cut),
                            !.att = AtMost(w.att), !.lease = p, !.live = TRUE]
  <2>1. \A c : RunAt(c) = RunIn(runs, c)
    BY InTheState
  <2>2. Claimable(w) /\ work' = [work EXCEPT ![i] = v]
    BY <1>6, <2>1 DEF Claim
  <2>3. Carries(i, work[i], v)
    BY <2>2, ClaimCarries
  <2> HIDE DEF v
  <2> QED BY <1>3, <2>2, <2>3
<1>7. ASSUME NEW i \in Identity, work' = [work EXCEPT ![i] = Expired(@)]
      PROVE  CurrentInv' /\ AskInv'
  <2>1. Carries(i, work[i], Expired(work[i]))
    BY GivenBack
  <2> QED BY <1>3, <1>7, <2>1
<1>8. ASSUME NEW p \in Projector, Owns(p), NEW s \in {"PENDING", "RETRY", "FAILED"},
             work' = [work EXCEPT ![job[p].id] = [@ EXCEPT !.status = s, !.lease = None,
                                                           !.live = FALSE]]
      PROVE  CurrentInv' /\ AskInv'
  <2> DEFINE i == job[p].id
             v == [work[i] EXCEPT !.status = s, !.lease = None, !.live = FALSE]
  <2>1. i \in Identity /\ work[i].status = "RUNNING" /\ work' = [work EXCEPT ![i] = v]
    BY <1>5, <1>8
  <2> HIDE DEF i
  <2>2. Carries(i, work[i], v)
    BY <2>1, GivenBack
  <2> HIDE DEF v
  <2> QED BY <1>3, <2>1, <2>2
<1>9. ASSUME NEW p \in Projector, Release(p)
      PROVE  CurrentInv' /\ AskInv'
  BY <1>4, <1>8, <1>9 DEF Release
<1>10. ASSUME NEW p \in Projector, ProjectFail(p)
      PROVE  CurrentInv' /\ AskInv'
  BY <1>4, <1>8, <1>10 DEF ProjectFail, Failed
<1>11. ASSUME NEW p \in Projector, CrashProjector(p)
       PROVE  CurrentInv' /\ AskInv'
  BY <1>4, <1>5, <1>7, <1>11 DEF CrashProjector
<1>12. ASSUME NEW i \in Identity, ExpireWork(i)
       PROVE  CurrentInv' /\ AskInv'
  BY <1>7, <1>12 DEF ExpireWork
<1> QED BY <1>6, <1>9, <1>10, <1>11, <1>12

-----------------------------------------------------------------------------
(***************************************************************************)
(* Pages.                                                                  *)
(***************************************************************************)
\* A finite set of naturals that is not empty has a greatest element.
LEMMA MaxInside ==
  ASSUME NEW S, S \subseteq Nat, IsFiniteSet(S), S # {}
  PROVE  Max(S) \in S /\ \A y \in S : y <= Max(S)
<1> DEFINE Topless(U) == U # {} /\ ~ \E x \in U : \A y \in U : y <= x
           K == {Cardinality(U) : U \in {U \in SUBSET S : Topless(U)}}
<1>1. \A U \in SUBSET S : IsFiniteSet(U) /\ Cardinality(U) \in Nat
  BY FS_Subset, FS_CardinalityType
<1>2. K = {}
  <2> SUFFICES ASSUME K # {} PROVE FALSE
    OBVIOUS
  <2>1. K \subseteq Nat
    BY <1>1
  <2>2. Min(K) \in K /\ \A k \in K : Min(K) <= k
    <3> HIDE DEF K
    <3> QED BY <2>1, MinInside
  <2>3. PICK U \in SUBSET S : Topless(U) /\ Cardinality(U) = Min(K)
    BY <2>2
  <2>4. PICK x \in U : TRUE
    BY <2>3
  <2> DEFINE V == U \ {x}
  <2>5. V \in SUBSET S /\ Cardinality(V) < Cardinality(U)
    <3>1. IsFiniteSet(U) /\ Cardinality(U) \in Nat
      BY <1>1
    <3>2. Cardinality(V) = Cardinality(U) - 1
      BY <2>4, <3>1, FS_RemoveElement
    <3> QED BY <3>1, <3>2
  <2>6. ~Topless(V)
    <3> SUFFICES ASSUME Topless(V) PROVE FALSE
      OBVIOUS
    <3>1. Cardinality(V) \in K
      BY <2>5
    <3>2. Min(K) <= Cardinality(V) /\ Cardinality(V) \in Nat /\ Min(K) \in Nat
      BY <1>1, <2>1, <2>2, <2>5, <3>1
    <3> HIDE DEF K, V
    <3> QED BY <2>3, <2>5, <3>2
  <2>7. x \in Nat /\ \A y \in U : y \in Nat /\ (y = x \/ y \in V)
    BY <2>4
  <2>8. CASE V = {}
    <3>1. \A y \in U : y <= x
      BY <2>7, <2>8
    <3> QED BY <2>3, <2>4, <3>1
  <2>9. CASE V # {}
    <3>1. PICK z \in V : \A y \in V : y <= z
      BY <2>6, <2>9
    <3>2. z \in U /\ z \in Nat
      BY <2>7, <3>1
    <3>3. CASE x <= z
      <4>1. \A y \in U : y <= z
        BY <2>7, <3>1, <3>3
      <4> QED BY <2>3, <3>2, <4>1
    <3>4. CASE z <= x
      <4>1. \A y \in U : y <= x
        BY <2>7, <3>1, <3>2, <3>4
      <4> QED BY <2>3, <2>4, <4>1
    <3> QED BY <2>7, <3>2, <3>3, <3>4
  <2> QED BY <2>8, <2>9
<1>3. \E x \in S : \A y \in S : y <= x
  <2>1. S \in SUBSET S /\ ~Topless(S)
    BY <1>2
  <2> QED BY <2>1
<1>4. \E x \in S : \A y \in S : x >= y
  BY <1>3
<1> DEFINE c == CHOOSE x \in S : \A y \in S : x >= y
<1>5. c \in S /\ \A y \in S : c >= y
  BY ONLY <1>4
<1> HIDE DEF c
<1>6. \A y \in S : y <= c
  BY <1>5
<1> QED BY <1>5, <1>6 DEF Max, c

\* A page below its limit has everything; what it leaves is past all it has.
LEMMA FirstOf ==
  ASSUME NEW S, S \subseteq Nat, IsFiniteSet(S), NEW n \in Nat
  PROVE  /\ First(S, n) \subseteq S
         /\ Cardinality(First(S, n)) < n => First(S, n) = S
         /\ \A m \in S \ First(S, n) : \A y \in First(S, n) : y < m
<1> DEFINE F == First(S, n)
           Below(x) == {y \in S : y <= x}
<1>1. F \subseteq S /\ \A x \in S : x \in F <=> Cardinality(Below(x)) <= n
  BY DEF First
<1>2. \A x \in S : IsFiniteSet(Below(x)) /\ Cardinality(Below(x)) \in Nat
  BY FS_Subset, FS_CardinalityType
<1>3. ASSUME NEW y \in F, NEW m \in S, m <= y
      PROVE  m \in F
  <2>1. Below(m) \subseteq Below(y) /\ y \in S
    <3>1. y \in S /\ m \in Nat /\ y \in Nat /\ \A z \in S : z \in Nat
      BY <1>1, <1>3
    <3>2. ASSUME NEW z \in S, z <= m
          PROVE  z <= y
      <4>1. z \in Nat /\ m \in Nat /\ y \in Nat /\ m <= y
        BY <1>3, <3>1
      <4> QED BY ONLY <3>2, <4>1
    <3> QED BY <3>1, <3>2
  <2>2. Cardinality(Below(m)) <= Cardinality(Below(y))
    BY <1>2, <2>1, FS_Subset
  <2>3. Cardinality(Below(y)) <= n
    BY <1>1, <2>1
  <2> HIDE DEF F, Below
  <2>4. Cardinality(Below(m)) <= n
    BY <1>2, <2>1, <2>2, <2>3
  <2> QED BY <1>1, <2>4
<1>4. ASSUME NEW m \in S \ F, NEW y \in F
      PROVE  y < m
  <2>1. m \in Nat /\ y \in Nat /\ ~(m <= y)
    BY <1>1, <1>3
  <2> QED BY <2>1
<1>5. ASSUME Cardinality(F) < n, S \ F # {}
      PROVE  FALSE
  <2> DEFINE m == Min(S \ F)
             G == F \cup {m}
  <2>1. m \in S \ F /\ \A y \in S \ F : m <= y
    BY <1>5, MinInside
  <2>2. IsFiniteSet(F) /\ Cardinality(F) \in Nat
    BY <1>1, FS_Subset, FS_CardinalityType
  <2>3. IsFiniteSet(G) /\ Cardinality(G) = Cardinality(F) + 1
    <3> HIDE DEF F, m
    <3> QED BY <2>1, <2>2, FS_AddElement
  <2>4. Below(m) \subseteq G
    <3> SUFFICES ASSUME NEW y \in S, y <= m, y \notin F PROVE y = m
      OBVIOUS
    <3>1. m <= y /\ m \in Nat /\ y \in Nat
      BY <2>1
    <3> QED BY <3>1
  <2>5. Cardinality(Below(m)) <= Cardinality(G)
    <3> HIDE DEF F, Below, G
    <3> QED BY <2>3, <2>4, FS_Subset
  <2> HIDE DEF F, Below, m, G
  <2>6. Cardinality(Below(m)) <= n
    BY <1>2, <1>5, <2>1, <2>2, <2>3, <2>5
  <2> QED BY <1>1, <2>1, <2>6
<1> QED BY <1>1, <1>4, <1>5

\* A batch writes what its members show today, if it writes at or past a
\* promised revision, and what it leaves it keeps waiting for.
LEMMA BatchKept ==
  ASSUME Inv, CurrentInv, AskInv, NEW p \in Projector, ProjectBatch(p)
  PROVE  CurrentInv' /\ AskInv'
<1> DEFINE k == job[p].id
           w == work[k]
           page == Page(k)
           completed == Cardinality(page) < BatchSize
           v == IF completed THEN Finished(w) ELSE [w EXCEPT !.cursor = Max(page)]
           R == ResultIn(runs, w.actRun)
           L == LatestIn(runs, now)
           S == {m \in Member : /\ member[m].present /\ member[m].known /\ m > w.cursor
                                /\ IdentityOf[m] \in AffectedIdentities(k, R)}
<1>1. /\ UNCHANGED <<obs, now, runs, rev, open, gap>> /\ k \in Identity /\ w.status = "RUNNING"
      /\ member' = [m \in Member |-> IF m \in page THEN Write(m, w) ELSE member[m]]
      /\ work' = [work EXCEPT ![k] = v]
  BY DEF ProjectBatch, Owns, Inv, JobInv, evidence
<1>2. /\ w \in WorkSet({w.reqCut, w.actCut, w.actRun, w.cursor, w.lease}) /\ Phased(runs, now, w)
      /\ now \in Nat /\ rev \in Nat /\ Dated(runs, now) /\ Observed(obs, now)
      /\ DOMAIN work = Identity
  BY <1>1, Rows DEF Inv, QueueInv, WorkRow, CurrentInv, PhaseInv, TimeInv, ObsInv
<1>3. Formed(R) /\ Formed(L)
  <2>1. w.actRun \in Done(runs) \cup {0}
    BY <1>2 DEF Phased
  <2> HIDE DEF w
  <2> QED BY <1>2, <2>1, ResultsFormed
<1>4. page = First(S, BatchSize)
  <2>1. ResultOf(w.actRun) = R
    BY InTheState
  <2> QED BY <2>1 DEF Page, Present
<1>5. S \subseteq Nat /\ IsFiniteSet(S) /\ BatchSize \in Nat /\ BatchSize # 0
  <2>1. S \subseteq Member
    OBVIOUS
  <2> HIDE DEF S
  <2> QED BY <2>1, ProjectionAssumption, FS_Subset
<1> HIDE DEF S
<1>6. /\ page \subseteq S
      /\ completed => page = S
      /\ \A m \in S \ page : \A y \in page : y < m
  <2> DEFINE F == First(S, BatchSize)
  <2>1. /\ F \subseteq S
        /\ Cardinality(F) < BatchSize => F = S
        /\ \A m \in S \ F : \A y \in F : y < m
    BY ONLY <1>5, FirstOf
  <2> HIDE DEF F, page
  <2> QED BY ONLY <1>4, <2>1 DEF F
<1>7. ~completed => Max(page) \in page /\ Max(page) \in Nat
  <2> HIDE DEF page
  <2>1. page \subseteq Nat /\ IsFiniteSet(page)
    <3>1. page \subseteq S
      BY <1>6
    <3> QED BY ONLY <1>5, <3>1, FS_Subset
  <2>2. page = {} => completed
    BY <1>5, FS_EmptySet
  <2> QED BY <2>1, <2>2, MaxInside
<1> HIDE DEF page
<1>8. w.req \in Nat /\ w.act \in Nat /\ w.req # 0 /\ w.act # 0 /\ w.cursor \in Nat /\ w.status \in Active
  BY <1>1, <1>2 DEF WorkSet, Phased, Active
<1>9. \/ /\ completed /\ v.req = w.req /\ v.reqCut = w.reqCut /\ v.act = 0 /\ v.actCut = 0
         /\ v.actRun = 0 /\ v.cursor = 0
         /\ \/ w.req > w.act /\ v.status = "PENDING"
            \/ ~(w.req > w.act) /\ v.status = "IDLE"
      \/ /\ ~completed /\ v.req = w.req /\ v.reqCut = w.reqCut /\ v.act = w.act
         /\ v.actCut = w.actCut /\ v.actRun = w.actRun /\ v.cursor = Max(page)
         /\ v.status = w.status
  <2>1. CASE completed
    <3>1. v = Finished(w)
      BY <2>1
    <3> HIDE DEF v, w
    <3> QED BY <2>1, <3>1 DEF Finished, NoWork
  <2>2. CASE ~completed
    <3> DEFINE c == Max(page)
    <3>1. v = [w EXCEPT !.cursor = c]
      BY <2>2
    <3> HIDE DEF v, w, c
    <3>2. /\ v.req = w.req /\ v.reqCut = w.reqCut /\ v.act = w.act /\ v.actCut = w.actCut
          /\ v.actRun = w.actRun /\ v.cursor = c /\ v.status = w.status
      BY <1>2, <3>1, Zenon DEF WorkSet
    <3> QED BY <2>2, <3>2 DEF c
  <2> QED BY <2>1, <2>2
<1> HIDE DEF completed, v, w
<1>10. Phased(runs, now, v)
  BY <1>2, <1>7, <1>8, <1>9 DEF Phased, Active
<1>11. \A j, t : t \in 1..rev /\ GoodRow(obs, now, runs, j, k, w, t) =>
         GoodRow(obs, now, runs, j, k, v, t)
  BY <1>8, <1>9 DEF GoodRow, Active
<1>12. \A m, t : t \in 1..rev /\ w.req > w.act /\ w.req >= t => Awaits(v, m, t)
  BY <1>8, <1>9 DEF Awaits, Active
<1>13. \A j \in Identity : work'[j] = IF j = k THEN v ELSE work[j]
  BY <1>1, <1>2
<1>14. PhaseInv'
  BY <1>1, <1>10, <1>13 DEF CurrentInv, PhaseInv
<1>15. ASSUME NEW m \in Member, member[m].present, member[m].known, NEW t \in 1..rev,
              Promised(obs, now, runs, work, member[m], m, t)
       PROVE  Promised(obs, now, runs, work', member'[m], m, t)
  <2> DEFINE i == IdentityOf[m]
             x == member[m]
             y == member'[m]
             c == CanonicalIn(L, i)
  <2>1. i \in Identity /\ i \in Exact /\ m \in Nat
    BY ProjectionAssumption DEF Exact
  <2>2. /\ x.rev >= t => x.shown = Shown(obs, x.group, i, L, now)
        /\ x.rev < t => Awaits(work[c], m, t)
        /\ \A j \in Identity : GoodRow(obs, now, runs, i, j, work[j], t)
    BY <1>15 DEF Promised
  <2>3. c \in Identity
    <3> HIDE DEF i, L
    <3> QED BY <1>3, <2>1, FormedKin
  <2>4. \A j \in Identity : GoodRow(obs, now, runs, i, j, work'[j], t)
    <3> HIDE DEF i
    <3> QED BY <1>11, <1>13, <2>2 DEF w
  <2>5. ASSUME w.act >= t, k \in Kin(R, {i}) \cup Kin(L, {i})
        PROVE  Good(obs, now, runs, i, w.actRun, w.actCut)
    <3>1. GoodFor(obs, now, runs, i, k, w.actRun, w.actCut)
      BY <1>1, <1>8, <2>2, <2>5 DEF GoodRow, w
    <3> QED BY <2>5, <3>1 DEF GoodFor, Concerns
  <2>6. ASSUME w.act >= t, k \in Kin(R, {i}) \cup Kin(L, {i})
        PROVE  /\ Same(R, L, i)
               /\ \A j \in Kin(R, {i}) : NameIn(obs, j, w.actCut) = NameIn(obs, j, now)
    BY <2>5, <2>6 DEF Good, FreshIn, Same
  <2>7. x.rev \in Nat
    BY Rows
  <2>8. CASE m \in page /\ x.rev <= w.act
    <3>1. y.rev = w.act /\ y.group = x.group /\ y.shown = Shown(obs, x.group, i, R, w.actCut)
      <4> DEFINE e == Effective(m, ResultOf(w.actRun), w.actCut)
                 a == w.act
      <4>1. y = [x EXCEPT !.rev = a, !.shown = e]
        BY <1>1, <2>8 DEF Write, w
      <4>2. e = Shown(obs, x.group, i, R, w.actCut)
        BY InTheState
      <4>3. x \in MemberSet({x.group, x.shown})
        BY DEF Inv, MemberInv, MemberRow
      <4> HIDE DEF e, a, x, y
      <4>4. y.rev = a /\ y.group = x.group /\ y.shown = e
        BY <4>1, <4>3, Zenon DEF MemberSet
      <4> QED BY <4>2, <4>4 DEF a
    <3>2. ASSUME y.rev >= t
          PROVE  y.shown = Shown(obs, y.group, i, L, now)
      <4>1. Same(R, L, i) /\ \A j \in Kin(R, {i}) : NameIn(obs, j, w.actCut) = NameIn(obs, j, now)
        <5>1. i \in AffectedIdentities(k, R)
          BY <1>6, <2>8 DEF S
        <5>2. k \in Kin(R, {i})
          <6> HIDE DEF R, i, k
          <6>1. i \in Kin(R, {k})
            BY <1>1, <1>3, <5>1, FormedKin
          <6> QED BY <1>1, <6>1, KinEquivalent
        <5> QED BY <2>6, <3>1, <3>2, <5>2
      <4>2. \A o \in obs : o.id \in Exact
        BY <1>2 DEF Observed
      <4> DEFINE g == x.group
                 d == w.actCut
      <4>3. Shown(obs, g, i, R, d) = Shown(obs, g, i, L, now)
        <5>1. \A j \in Kin(R, {i}) : NameIn(obs, j, d) = NameIn(obs, j, now)
          BY <4>1
        <5> HIDE DEF i, R, L, g, d
        <5> QED BY ONLY <1>3, <2>1, <4>1, <4>2, <5>1, ShownSame
      <4> QED BY <3>1, <4>3
    <3>3. ASSUME y.rev < t
          PROVE  Awaits(work'[c], m, t)
      <4>1. w.act < t /\ Awaits(work[c], m, t)
        BY <1>8, <2>2, <2>7, <2>8, <3>1, <3>3
      <4> HIDE DEF c
      <4>2. CASE c = k
        <5>1. Awaits(w, m, t)
          BY <4>1, <4>2 DEF w
        <5>2. w.req > w.act /\ w.req >= t
          BY <1>1, <1>8, <4>1, <5>1 DEF Awaits, w
        <5> QED BY <1>12, <1>13, <2>3, <4>2, <5>2
      <4> QED BY <1>13, <2>3, <4>1, <4>2
    <3> QED BY <2>4, <3>2, <3>3 DEF Promised
  <2>9. CASE ~(m \in page /\ x.rev <= w.act)
    <3>1. y = x
      BY <1>1, <2>9 DEF Write, w
    <3>2. ASSUME x.rev < t
          PROVE  Awaits(work'[c], m, t)
      <4>1. Awaits(work[c], m, t)
        BY <2>2, <3>2
      <4>2. CASE c # k
        <5> HIDE DEF c
        <5> QED BY <1>13, <2>3, <4>1, <4>2
      <4>3. CASE c = k /\ w.req > w.act /\ w.req >= t
        <5> HIDE DEF c
        <5> QED BY <1>12, <1>13, <2>3, <4>3
      <4>4. CASE c = k /\ ~(w.req > w.act /\ w.req >= t)
        <5>1. Awaits(w, m, t)
          <6> HIDE DEF c
          <6> QED BY <4>1, <4>4 DEF w
        <5>2. w.act >= t /\ w.cursor < m
          BY <1>1, <4>4, <5>1 DEF Awaits, w
        <5>3. m \notin page
          BY <1>8, <2>7, <2>9, <3>2, <5>2
        <5>4. i \in AffectedIdentities(k, R)
          <6>1. Same(R, L, i)
            <7>1. k \in Kin(L, {i})
              <8> HIDE DEF L, i, k
              <8> QED BY <1>1, <1>3, <2>1, <4>4, FormedKin, KinOf
            <7> QED BY <2>6, <5>2, <7>1
          <6>2. CanonicalIn(R, i) = k
            <7> HIDE DEF R, L, i
            <7> QED BY <4>4, <6>1, SameEquivalent
          <6> HIDE DEF R, L, i, k
          <6>3. CanonicalIn(R, k) = k /\ AffectedIdentities(k, R) = Kin(R, {k})
            BY <1>1, <1>3, <2>1, <6>2, FormedKin
          <6> QED BY <2>1, <6>2, <6>3, KinOf
        <5>5. m \in S
          BY <1>8, <1>15, <2>1, <5>2, <5>4 DEF S
        <5>6. ~completed /\ Max(page) < m
          <6>1. ~completed
            BY <1>6, <5>3, <5>5
          <6>2. Max(page) \in page /\ m \in S \ page
            BY <1>7, <5>3, <5>5, <6>1
          <6> QED BY ONLY <1>6, <6>1, <6>2
        <5>7. Awaits(v, m, t)
          BY <1>1, <1>8, <1>9, <5>2, <5>6 DEF Awaits
        <5> HIDE DEF c
        <5> QED BY <1>13, <2>3, <4>4, <5>7
      <4> QED BY <4>2, <4>3, <4>4
    <3> QED BY <2>2, <2>4, <3>1, <3>2 DEF Promised
  <2> QED BY <2>8, <2>9
<1>16. ASSUME NEW m \in Member, member'[m].present, member'[m].known
       PROVE  member[m].present /\ member[m].known
  <2> DEFINE x == member[m]
             a == w.act
             e == Effective(m, ResultOf(w.actRun), w.actCut)
  <2>1. member'[m] = x \/ member'[m] = [x EXCEPT !.rev = a, !.shown = e]
    BY <1>1 DEF Write, w
  <2>2. x \in MemberSet({x.group, x.shown})
    BY DEF Inv, MemberInv, MemberRow
  <2> HIDE DEF x, a, e
  <2>3. x.present /\ x.known
    BY <1>16, <2>1, <2>2, Zenon DEF MemberSet
  <2> QED BY <2>3 DEF x
<1>17. MemberPromise'
  BY <1>1, <1>15, <1>16 DEF CurrentInv, MemberPromise, Kept
<1>18. AskInv'
  <2>1. now' \in Nat /\ now <= now' /\ 0 \notin DOMAIN runs' /\ Done(runs') = Done(runs)
    BY <1>1, Rows
  <2> QED BY <1>1, <2>1, AskKept
<1> QED BY <1>1, <1>14, <1>17, <1>18 DEF CurrentInv, ObsInv, TimeInv, HoldInv, OpenPromise

-----------------------------------------------------------------------------
(***************************************************************************)
(* The theorem.                                                            *)
(***************************************************************************)
\* At the start there is no evidence, nothing runs and no member is known.
LEMMA CurrentInit == Init => CurrentInv /\ AskInv
<1> SUFFICES ASSUME Init PROVE CurrentInv /\ AskInv
  OBVIOUS
<1>1. Done(runs) = {} /\ 0 \notin DOMAIN runs
  BY DEF Init, Done
<1>2. ObsInv /\ TimeInv /\ HoldInv /\ OpenPromise
  BY <1>1 DEF Init, ObsInv, Observed, TimeInv, Dated, HoldInv, OpenPromise, Actor
<1>3. PhaseInv
  <2>1. NoWork.status \notin Active /\ NoWork.status # "RUNNING"
    BY DEF NoWork, Active
  <2>2. /\ NoWork.cursor = 0 /\ NoWork.actRun = 0
        /\ NoWork.reqCut = 0 /\ NoWork.actCut = 0
    BY DEF NoWork
  <2>3. Phased(runs, now, NoWork)
    BY <2>1, <2>2 DEF Phased, Init
  <2> QED BY <2>3 DEF Init, PhaseInv
<1>4. ASSUME NEW m \in Member
      PROVE  ~member[m].known
  <2> DEFINE b == m \in Legacy
             y == [Absent EXCEPT !.present = b]
             D == {None, NoShown}
  <2>1. member[m] = y
    BY DEF Init
  <2>2. None \in D /\ NoShown \in D
    OBVIOUS
  <2> HIDE DEF b, D
  <2>3. Absent \in MemberSet(D) /\ Absent.known = FALSE
    BY <2>2 DEF Absent, MemberSet
  <2>4. ~y.known
    BY <2>3, Zenon DEF MemberSet
  <2> HIDE DEF y
  <2> QED BY <2>1, <2>4, Zenon
<1>5. MemberPromise
  BY <1>4 DEF MemberPromise
<1>6. AskInv
  BY DEF Init, AskInv, Actor, Requester
<1> QED BY <1>2, <1>3, <1>5, <1>6 DEF CurrentInv

\* Every step keeps the invariant.
LEMMA CurrentNext == Inv /\ CurrentInv /\ AskInv /\ [Next]_vars => CurrentInv' /\ AskInv'
<1> SUFFICES ASSUME Inv, CurrentInv, AskInv, [Next]_vars
             PROVE  CurrentInv' /\ AskInv'
  OBVIOUS
<1>1. CASE Environment
  <2>1. ASSUME NEW i \in Sender, NEW name \in PushName, NEW src \in {1, now + 1},
               ObserveMessageSender(i, name, src)
        PROVE  CurrentInv' /\ AskInv'
    BY <2>1, ObserveKept
  <2>2. ASSUME NEW m \in Member, \/ \E name \in GroupName \cup {None} : SeedGroupMember(m, name)
                                 \/ RemoveGroupMember(m)
        PROVE  CurrentInv' /\ AskInv'
    BY <2>2, MemberKept
  <2>3. ASSUME NEW c \in Snapshot, PublishSnapshot(c)
        PROVE  CurrentInv' /\ AskInv'
    BY <2>3, PublishKept
  <2>4. ASSUME NEW o \in obs, DeleteRedundantContactObservation(o)
        PROVE  CurrentInv' /\ AskInv'
    BY <2>4, DeleteKept
  <2>5. ASSUME NEW r \in Resolver, CrashResolver(r)
        PROVE  CurrentInv' /\ AskInv'
    BY <2>5, RunStepKept
  <2>6. ASSUME NEW p \in Projector, CrashProjector(p)
        PROVE  CurrentInv' /\ AskInv'
    BY <2>6, WorkStepKept
  <2> QED BY <1>1, <2>1, <2>2, <2>3, <2>4, <2>5, <2>6 DEF Environment
<1>2. CASE EnqueuePublished
  BY <1>2, RunStepKept
<1>3. ASSUME NEW r \in Resolver, ResolverStep(r)
      PROVE  CurrentInv' /\ AskInv'
  BY <1>3, RunStepKept, BeginKept, CommitKept, CommitAsks DEF ResolverStep
<1>4. ASSUME NEW p \in Projector, ProjectorStep(p) \/ Scan(p)
      PROVE  CurrentInv' /\ AskInv'
  BY <1>4, ScanKept, BatchKept, WorkStepKept DEF ProjectorStep
<1>5. ASSUME NEW i \in Identity, ExpireWork(i)
      PROVE  CurrentInv' /\ AskInv'
  BY <1>5, WorkStepKept
<1>6. ASSUME NEW g \in DOMAIN runs, ExpireRun(g)
      PROVE  CurrentInv' /\ AskInv'
  BY <1>6, RunStepKept
<1>7. CASE UNCHANGED vars
  BY <1>7 DEF vars, evidence, CurrentInv, ObsInv, TimeInv, HoldInv, PhaseInv, OpenPromise,
     MemberPromise, AskInv
<1>8. CASE RequestCommit(Observer)
  BY <1>8, CommitsKept DEF Requester
<1> QED BY <1>1, <1>2, <1>3, <1>4, <1>5, <1>6, <1>7, <1>8 DEF Next

\* A drained queue awaits no member: every one outside the gap is current.
LEMMA CurrentSuffices == Inv /\ CurrentInv => ProjectionCurrent
<1> SUFFICES ASSUME Inv, CurrentInv, Drained, NEW m \in Present, IdentityOf[m] \notin gap
             PROVE  member[m].shown = Effective(m, Latest, now)
  BY DEF ProjectionCurrent
<1> DEFINE L == LatestIn(runs, now)
           c == CanonicalIn(L, IdentityOf[m])
           x == member[m]
<1>1. m \in Member /\ x.present /\ x.known
  BY DEF Present, Drained
<1>2. PICK t \in 1..rev : Promised(obs, now, runs, work, x, m, t)
  BY <1>1 DEF CurrentInv, MemberPromise, Kept
<1>3. c \in Identity
  <2>1. IdentityOf[m] \in Identity /\ Formed(L)
    BY <1>1, ProjectionAssumption, Rows, ResultsFormed DEF Exact, CurrentInv, TimeInv
  <2> HIDE DEF L
  <2> QED BY <2>1, FormedKin
<1>4. ~Awaits(work[c], m, t)
  <2>1. work[c].status \in {"NONE", "IDLE"}
    BY <1>3 DEF Drained
  <2> HIDE DEF c
  <2> QED BY <2>1 DEF Awaits, Active
<1>5. x.rev >= t
  BY <1>1, <1>2, <1>4, Rows DEF Promised
<1>6. x.shown = Shown(obs, x.group, IdentityOf[m], L, now)
  BY <1>2, <1>5 DEF Promised
<1> QED BY <1>1, <1>6, InTheState

\* The invariants hold in every reachable state.
LEMMA CurrentHolds == Spec => [](Inv /\ CurrentInv /\ AskInv)
<1>1. Init => Inv /\ CurrentInv /\ AskInv
  BY InitInv, CurrentInit
<1>2. (Inv /\ CurrentInv /\ AskInv) /\ [Next]_vars => (Inv /\ CurrentInv /\ AskInv)'
  BY NextInv, CurrentNext
<1> QED BY <1>1, <1>2, PTL DEF Spec

\* Once the queue has drained and no statement is open, every member outside the gap shows what the
\* evidence and the newest run say today: for any evidence, any overlap of requests (of resolvers,
\* scans and observers), pages, claims, lost leases and crashes, and any number of resolvers and
\* projectors.  The gap has what RequestCommit, Covered and Uncovered leave without a promise; an
\* assumption of the model is that revisions are ordered as the requests commit.
THEOREM ProjectionIsCurrent == Spec => []ProjectionCurrent
BY CurrentHolds, CurrentSuffices, PTL
=============================================================================
