--------------------------- MODULE ContactResolution ---------------------------
(***************************************************************************)
(* The resolution of observed identities into contacts: link evidence      *)
(* between an exact identity and a phone, the conflicts that quarantine an *)
(* identity, and the clusters that the remaining links connect.  Pure      *)
(* definitions, used by ContactProjection.                                 *)
(*                                                                         *)
(* An identity is the number of its row: a cluster is named by the least   *)
(* identity of its component.  A phone number is the identity of type      *)
(* PHONE that stands for it.                                               *)
(***************************************************************************)
EXTENDS Naturals, FiniteSets, FiniteSetsExt

CONSTANTS
  Identity,
  TypeOf,     \* "LID", "PHONE_JID" or "PHONE"
  None

ASSUME ResolutionAssumption ==
  /\ Identity \subseteq Nat /\ IsFiniteSet(Identity)
  /\ None \notin Identity /\ None \notin {"QUARANTINED", "RESOLVED"}
  /\ TypeOf \in [Identity -> {"LID", "PHONE_JID", "PHONE"}]

\* Evidence links an identity to a phone, from a contact or from a phone JID.
Link(left, right, source) == [left |-> left, right |-> right, source |-> source]

SharedPhones(E) ==
  {p \in Identity : \E e, f \in E :
     /\ e.source = "CONTACT_PHONE" /\ f.source = "CONTACT_PHONE"
     /\ TypeOf[e.left] # "PHONE_JID" /\ TypeOf[f.left] # "PHONE_JID"
     /\ e.right = p /\ f.right = p /\ e.left # f.left}

\* Mutant: a phone that several LIDs claim is no conflict.
Conflicted_PerIdentity(E) ==
  {e.left : e \in {e \in E : \E f \in E : f.left = e.left /\ f.right # e.right}}

\* Several phones for one identity, or one phone for several LIDs.
Conflicted(E) ==
  {e.left : e \in {e \in E : \E f \in E : f.left = e.left /\ f.right # e.right}}
    \cup {e.left : e \in {e \in E : e.source = "CONTACT_PHONE" /\ e.right \in SharedPhones(E)}}

Eligible(E, conflicted) ==
  {e \in E : e.source = "PHONE_JID_DERIVATION" \/ e.left \notin conflicted}

\* The sets that no link leads into or out of.
Closed(E) == {S \in SUBSET Identity : \A e \in E : e.left \in S <=> e.right \in S}

\* What a root reaches: every closed set that holds the root holds it.
Reach(root, closed) == {j \in Identity : \A S \in closed : root \in S => j \in S}

Classes(nodes, closed) == {Reach(i, closed) : i \in nodes}

\* The component of each identity that a known node reaches; classes has what
\* each of the nodes reaches.
Components(nodes, classes) ==
  [j \in UNION classes |-> Min({i \in nodes : \E C \in classes : i \in C /\ j \in C})]

NoAssignment == [cluster |-> None, status |-> None, phone |-> None]
NoCluster == [phone |-> None, count |-> 0, name |-> None]

(***************************************************************************)
(* The clusters of a run with their phone, size and contact name, and the  *)
(* assignment of every identity.  names gives the contact name that the    *)
(* generation has for an identity, or None.                                *)
(***************************************************************************)
Clusters(component, names) ==
  [c \in Identity |->
     LET inside == {j \in DOMAIN component : component[j] = c}
         phones == {j \in inside : TypeOf[j] = "PHONE"}
         named == {j \in inside : names[j] # None}
     IN  IF inside = {} THEN NoCluster
         ELSE [phone |-> IF Cardinality(phones) = 1 THEN Min(phones) ELSE None,
               count |-> Cardinality(inside),
               name |-> IF named = {} THEN None ELSE names[Max(named)]]]

Assignments(component, clusters, conflicted) ==
  [i \in Identity |->
     IF i \notin DOMAIN component THEN NoAssignment
     ELSE [cluster |-> component[i],
           status |-> IF i \in conflicted THEN "QUARANTINED" ELSE "RESOLVED",
           phone |-> IF i \in conflicted THEN None
                     ELSE clusters[component[i]].phone]]

NoResult ==
  [assign |-> [i \in Identity |-> NoAssignment],
   clusters |-> [c \in Identity |-> NoCluster]]

(***************************************************************************)
(* The identities whose projection a run changes: a changed or dropped     *)
(* assignment, by its present cluster, and a changed cluster.              *)
(***************************************************************************)
AffectedBy(previous, current) ==
  LET changed == {i \in Identity : current.assign[i] # previous.assign[i]}
  IN  {IF current.assign[i].cluster # None THEN current.assign[i].cluster ELSE i : i \in changed}
        \cup {c \in Identity : /\ current.clusters[c] # NoCluster
                               /\ current.clusters[c] # previous.clusters[c]}

\* The key of an identity's projection work under a run.
CanonicalIn(result, i) ==
  IF result.assign[i].status = "RESOLVED" THEN result.assign[i].cluster ELSE i

CanonicalsIn(result, I) == {CanonicalIn(result, i) : i \in I}
=============================================================================
