--------------------------- MODULE BridgeRunProofs ---------------------------
(***************************************************************************)
(* Theorems about a sprint, for every set of ids, manifests, causes and    *)
(* scores and for every bound.  First DysonOrchestrator: what the          *)
(* operators of TaskGraph preserve, what the calls emit, what healing does *)
(* to the graph, then one invariant after the other.  Then the bridge      *)
(* process for every plan and every MaxSteps: its types, one node at a     *)
(* time, counters of the panel that are those of the graph, a last line    *)
(* that shows the final state, and the safety part of SprintRun.           *)
(***************************************************************************)
EXTENDS BridgeRun, Induction, FiniteSetTheorems, SequenceTheorems, TLAPS

------------------------------------------------------------------------------
(* The number of nodes is a number: the ids are finitely many.             *)
LEMMA NodeCount ==
    ASSUME NEW g \in Graph
    PROVE  Cardinality(Nodes(g)) \in Nat
  <1>1. IsFiniteSet(Nodes(g))
    BY IdAssumption, FS_Subset DEF Nodes
  <1> QED
    BY <1>1, FS_CardinalityType

(* from_manifest gives a graph whose nodes are the modules of the spec,    *)
(* each of them pending.                                                   *)
LEMMA FromManifestGraph ==
    ASSUME NEW m \in Manifest
    PROVE  /\ FromManifest(m) \in Graph
           /\ \A n \in Id : FromManifest(m).status[n] \in {"absent", "pending"}
  BY DEF Manifest, FromManifest, Graph, Status, Risk

(* mark_running, mark_done and mark_blocked keep the edges and the nodes.  *)
LEMMA SetStatusGraph ==
    ASSUME NEW g \in Graph, NEW n \in Id, NEW s \in Status \ {"absent"}
    PROVE  /\ SetStatus(g, n, s) \in Graph
           /\ SetStatus(g, n, s).edges = g.edges
           /\ SetStatus(g, n, s).status = [g.status EXCEPT ![n] = s]
           /\ Nodes(g) \subseteq Nodes(SetStatus(g, n, s))
           /\ n \in Nodes(SetStatus(g, n, s))
  BY DEF SetStatus, Graph, Nodes, Status

(* add_edge keeps what is there.                                           *)
LEMMA AddEdgeGraph ==
    ASSUME NEW g \in Graph, NEW c \in Id \cup FailClass, NEW n \in Id
    PROVE  /\ AddEdge(g, c, n) \in Graph
           /\ AddEdge(g, c, n).edges = g.edges \cup {<<c, n>>}
           /\ AddEdge(g, c, n).status = g.status
           /\ Nodes(AddEdge(g, c, n)) = Nodes(g)
  BY DEF AddEdge, Graph, Nodes

(* The sources of the edges into a ready node are finished nodes.          *)
LEMMA ReadySources ==
    ASSUME NEW g \in Graph, NEW n \in ReadyNodes(g),
           NEW c \in Id \cup FailClass, <<c, n>> \in g.edges
    PROVE  c \in Id /\ g.status[c] = "done"
  BY DEF ReadyNodes, Foreign, Unfinished, Incoming, Nodes

-----------------------------------------------------------------------------
(***************************************************************************)
(* The graph that the loop over a log of constraints builds, without the   *)
(* loop: a node is inserted by the first constraint that asks for it.      *)
(***************************************************************************)
MissingDeps(log, k) == {i \in 1 .. k : log[i].type = "missing_dep"}

(* The nodes of the graph once the first k constraints are applied.        *)
NodesAfter(g, log, k) ==
    Nodes(g) \cup {DepNode[log[i].dependency] : i \in MissingDeps(log, k)}

Inserts(g, log, k) ==
    /\ log[k].type = "missing_dep"
    /\ DepNode[log[k].dependency] \notin NodesAfter(g, log, k - 1)

Inserted(g, log, n) ==
    \E k \in DOMAIN log : Inserts(g, log, k) /\ DepNode[log[k].dependency] = n

InsertionRank(g, log, n) ==
    LET k == CHOOSE i \in DOMAIN log : Inserts(g, log, i) /\ DepNode[log[i].dependency] = n
    IN  1 + Cardinality(NodesAfter(g, log, k - 1))

Resets(g, log, n) ==
    g.status[n] = "blocked" /\ \E k \in DOMAIN log : log[k].blocked = n

ConstraintEdges(g, log) ==
    {e \in Id \X Id : \E k \in DOMAIN log :
        /\ e[2] = log[k].blocked
        /\ e[2] \in NodesAfter(g, log, k)
        /\ \/ Inserts(g, log, k) /\ e[1] = DepNode[log[k].dependency]
           \/ /\ log[k].type = "path_blocked"
              /\ e[1] = log[k].dependency
              /\ e[1] \in NodesAfter(g, log, k)}

AtOnce(g, log) ==
    [rank   |-> [n \in Id |-> IF Inserted(g, log, n) THEN InsertionRank(g, log, n) ELSE g.rank[n]],
     status |-> [n \in Id |-> IF Inserted(g, log, n) \/ Resets(g, log, n)
                              THEN "pending" ELSE g.status[n]],
     risk   |-> [n \in Id |-> IF Inserted(g, log, n) THEN 2 ELSE g.risk[n]],
     edges  |-> g.edges \cup ConstraintEdges(g, log)]

(* The nodes that the constraints of a log ask for are ids.                *)
LEMMA NodesAfterAreIds ==
    ASSUME NEW g \in Graph, NEW log \in Seq(Constraint), NEW k \in 0 .. Len(log)
    PROVE  /\ Nodes(g) \subseteq NodesAfter(g, log, k)
           /\ NodesAfter(g, log, k) \subseteq Id
           /\ Cardinality(NodesAfter(g, log, k)) \in Nat
  <1>1. ASSUME NEW i \in MissingDeps(log, k)
        PROVE  DepNode[log[i].dependency] \in Id
    <2>1. i \in 1 .. Len(log)
      BY DEF MissingDeps
    <2>2. log[i] \in Constraint
      BY <2>1
    <2>3. log[i].dependency \in Dependency
      BY <2>2 DEF Constraint
    <2> QED
      BY <2>3, IdAssumption
  <1>2. Nodes(g) \subseteq NodesAfter(g, log, k) /\ NodesAfter(g, log, k) \subseteq Id
    BY <1>1 DEF NodesAfter, Nodes
  <1>3. IsFiniteSet(NodesAfter(g, log, k))
    BY <1>2, IdAssumption, FS_Subset
  <1> QED
    BY <1>2, <1>3, FS_CardinalityType

(* Only an id that is no node is inserted, and at a position of its own.   *)
LEMMA InsertedIsNew ==
    ASSUME NEW g \in Graph, NEW log \in Seq(Constraint), NEW n \in Id, Inserted(g, log, n)
    PROVE  g.status[n] = "absent" /\ InsertionRank(g, log, n) \in Nat
  <1> DEFINE Asks(k) == Inserts(g, log, k) /\ DepNode[log[k].dependency] = n
  <1>1. PICK i \in DOMAIN log : Asks(i)
    BY DEF Inserted
  <1>2. i - 1 \in 0 .. Len(log)
    OBVIOUS
  <1>3. n \notin Nodes(g)
    BY <1>1, <1>2, NodesAfterAreIds DEF Inserts
  <1>4. (CHOOSE k \in DOMAIN log : Asks(k)) - 1 \in 0 .. Len(log)
    BY <1>1
  <1>5. InsertionRank(g, log, n) \in Nat
    BY <1>4, NodesAfterAreIds DEF InsertionRank
  <1> QED
    BY <1>3, <1>5 DEF Nodes

(* Applying a log gives a graph again.                                     *)
LEMMA AtOnceGraph ==
    ASSUME NEW g \in Graph, NEW log \in Seq(Constraint)
    PROVE  AtOnce(g, log) \in Graph
  <1>1. [n \in Id |-> IF Inserted(g, log, n) THEN InsertionRank(g, log, n) ELSE g.rank[n]]
            \in [Id -> Nat]
    BY InsertedIsNew DEF Graph
  <1>2. [n \in Id |-> IF Inserted(g, log, n) \/ Resets(g, log, n)
                      THEN "pending" ELSE g.status[n]] \in [Id -> Status]
    BY DEF Graph, Status
  <1>3. [n \in Id |-> IF Inserted(g, log, n) THEN 2 ELSE g.risk[n]] \in [Id -> Risk]
    BY DEF Graph, Risk
  <1>4. g.edges \cup ConstraintEdges(g, log) \subseteq (Id \cup FailClass) \X Id
    BY DEF Graph, ConstraintEdges
  <1> QED
    BY <1>1, <1>2, <1>3, <1>4 DEF AtOnce, Graph

(* Applying a log keeps the nodes and the edges, leaves running and done   *)
(* nodes as they are and blocks none.                                      *)
LEMMA AtOnceGrows ==
    ASSUME NEW g \in Graph, NEW log \in Seq(Constraint)
    PROVE  LET h == AtOnce(g, log) IN
           /\ Nodes(g) \subseteq Nodes(h)
           /\ g.edges \subseteq h.edges
           /\ \A n \in Id : /\ g.status[n] \in {"running", "done"} => h.status[n] = g.status[n]
                            /\ h.status[n] = "blocked" => g.status[n] = "blocked"
  <1> DEFINE h == AtOnce(g, log)
  <1>1. h.edges = g.edges \cup ConstraintEdges(g, log)
    BY DEF AtOnce
  <1>2. ASSUME NEW n \in Id
        PROVE  h.status[n] = IF Inserted(g, log, n) \/ Resets(g, log, n)
                             THEN "pending" ELSE g.status[n]
    BY DEF AtOnce
  <1>3. ASSUME NEW n \in Id, g.status[n] \in {"running", "done"}
        PROVE  h.status[n] = g.status[n]
    BY <1>2, <1>3, InsertedIsNew DEF Resets
  <1>4. ASSUME NEW n \in Id, h.status[n] = "blocked"
        PROVE  g.status[n] = "blocked"
    BY <1>2, <1>4
  <1>5. Nodes(g) \subseteq Nodes(h)
    BY <1>2 DEF Nodes
  <1> QED
    BY <1>1, <1>3, <1>4, <1>5

-----------------------------------------------------------------------------
(***************************************************************************)
(* The loop of replan against AtOnce.  The fields of the graph             *)
(* after k constraints are written down (Upto), one more constraint is     *)
(* shown to lead from k to k + 1, and the loop is the same sequence by     *)
(* induction over k.                                                       *)
(***************************************************************************)
(* c inserts a node into h. *)
Adds(h, c) == c.type = "missing_dep" /\ DepNode[c.dependency] \notin Nodes(h)
NodesWith(h, c) == IF Adds(h, c) THEN Nodes(h) \cup {DepNode[c.dependency]} ELSE Nodes(h)
EdgesOf(h, c) ==
  {e \in Id \X Id : /\ e[2] = c.blocked /\ e[2] \in NodesWith(h, c)
                    /\ \/ Adds(h, c) /\ e[1] = DepNode[c.dependency]
                       \/ /\ c.type = "path_blocked" /\ e[1] = c.dependency
                          /\ e[1] \in Nodes(h)}

(* What the three changes to a graph do to each of its fields.             *)
LEMMA ResetIs ==
    ASSUME NEW h \in Graph, NEW b \in Id, NEW a, a = ResetBlockedNode(h, b)
    PROVE  /\ a \in Graph /\ a.rank = h.rank /\ a.risk = h.risk /\ a.edges = h.edges
           /\ \A n \in Id : a.status[n] = IF n = b /\ h.status[n] = "blocked" THEN "pending"
                                                                             ELSE h.status[n]
  <1>1. CASE h.status[b] = "blocked"
    <2>1. ResetBlockedNode(h, b) = [h EXCEPT !.status[b] = "pending"]
      BY <1>1 DEF ResetBlockedNode, SetStatus
    <2> QED
      BY <1>1, <2>1 DEF Graph, Status
  <1>2. CASE h.status[b] # "blocked"
    BY <1>2 DEF ResetBlockedNode
  <1> QED
    BY <1>1, <1>2

LEMMA EdgeIs ==
    ASSUME NEW h \in Graph, NEW s, NEW b \in Id, NEW a, a = AddEdgeBetweenNodes(h, s, b)
    PROVE  /\ a \in Graph /\ a.rank = h.rank /\ a.risk = h.risk /\ a.status = h.status
           /\ a.edges = h.edges \cup {e \in Id \X Id : /\ e[2] = b /\ b \in Nodes(h)
                                                       /\ e[1] = s /\ s \in Nodes(h)}
  <1>1. CASE s \in Nodes(h) /\ b \in Nodes(h)
    <2>1. s \in Id
      BY <1>1 DEF Nodes
    <2>2. AddEdgeBetweenNodes(h, s, b) = [h EXCEPT !.edges = @ \cup {<<s, b>>}]
      BY <1>1 DEF AddEdgeBetweenNodes, AddEdge
    <2>3. {e \in Id \X Id : /\ e[2] = b /\ b \in Nodes(h) /\ e[1] = s /\ s \in Nodes(h)}
            = {<<s, b>>}
      BY <1>1, <2>1
    <2> QED
      BY <2>1, <2>2, <2>3 DEF Graph
  <1>2. CASE ~(s \in Nodes(h) /\ b \in Nodes(h))
    <2>1. AddEdgeBetweenNodes(h, s, b) = h
      BY <1>2 DEF AddEdgeBetweenNodes
    <2>2. {e \in Id \X Id : /\ e[2] = b /\ b \in Nodes(h) /\ e[1] = s /\ s \in Nodes(h)} = {}
      BY <1>2
    <2> QED
      BY <2>1, <2>2
  <1> QED
    BY <1>1, <1>2

LEMMA NodeIs ==
    ASSUME NEW h \in Graph, NEW d \in Id, d \notin Nodes(h), NEW a, a = AddNode(h, d)
    PROVE  /\ a \in Graph /\ a.edges = h.edges /\ Nodes(a) = Nodes(h) \cup {d}
           /\ \A n \in Id : /\ a.rank[n] = IF n = d THEN 1 + Cardinality(Nodes(h)) ELSE h.rank[n]
                            /\ a.risk[n] = IF n = d THEN 2 ELSE h.risk[n]
                            /\ a.status[n] = IF n = d THEN "pending" ELSE h.status[n]
  <1>1. PICK r \in Nat : r = 1 + Cardinality(Nodes(h))
    BY NodeCount
  <1>2. AddNode(h, d) = [h EXCEPT !.rank[d] = r, !.status[d] = "pending", !.risk[d] = 2]
    BY <1>1 DEF AddNode
  <1>a. PICK ra, st, ri : /\ ra = [h.rank EXCEPT ![d] = r]
                          /\ st = [h.status EXCEPT ![d] = "pending"]
                          /\ ri = [h.risk EXCEPT ![d] = 2]
    OBVIOUS
  <1>b. ra \in [Id -> Nat] /\ st \in [Id -> Status] /\ ri \in [Id -> Risk]
    BY <1>a DEF Graph, Status, Risk
  <1>c. AddNode(h, d) = [rank |-> ra, status |-> st, risk |-> ri, edges |-> h.edges]
    BY <1>2, <1>a DEF Graph
  <1>3. /\ AddNode(h, d) \in Graph /\ AddNode(h, d).edges = h.edges
        /\ AddNode(h, d).status = [h.status EXCEPT ![d] = "pending"]
        /\ AddNode(h, d).rank = [h.rank EXCEPT ![d] = r]
        /\ AddNode(h, d).risk = [h.risk EXCEPT ![d] = 2]
    BY <1>a, <1>b, <1>c DEF Graph
  <1>4. \A n \in Id : /\ AddNode(h, d).rank[n] = IF n = d THEN r ELSE h.rank[n]
                      /\ AddNode(h, d).risk[n] = IF n = d THEN 2 ELSE h.risk[n]
                      /\ AddNode(h, d).status[n] = IF n = d THEN "pending" ELSE h.status[n]
    BY <1>3 DEF Graph
  <1>5. Nodes(AddNode(h, d)) = Nodes(h) \cup {d}
    BY <1>4 DEF Nodes
  <1> QED
    BY <1>1, <1>3, <1>4, <1>5

(* A constraint that inserts a node. *)
LEMMA AddingConstraintIs ==
    ASSUME NEW h \in Graph, NEW c \in Constraint, Adds(h, c), NEW a, a = ApplyConstraint(h, c),
           NEW d, d = DepNode[c.dependency]
    PROVE  /\ a \in Graph /\ a.edges = h.edges \cup EdgesOf(h, c)
           /\ \A n \in Id :
                /\ a.rank[n] = IF n = d THEN 1 + Cardinality(Nodes(h)) ELSE h.rank[n]
                /\ a.risk[n] = IF n = d THEN 2 ELSE h.risk[n]
                /\ n = d => a.status[n] = "pending"
                /\ n = c.blocked /\ h.status[n] = "blocked" => a.status[n] = "pending"
                /\ n # d /\ ~(n = c.blocked /\ h.status[n] = "blocked") => a.status[n] = h.status[n]
  <1>2. PICK b : b = c.blocked
    OBVIOUS
  <1>3. d \in Id /\ b \in Id
    BY <1>2, IdAssumption DEF Constraint
  <1>b. d \notin Nodes(h) /\ c.type = "missing_dep"
    BY DEF Adds
  <1>1. PICK x : x = AddNode(h, d)
    OBVIOUS
  <1>r. PICK r : r = 1 + Cardinality(Nodes(h))
    OBVIOUS
  <1>4. /\ x \in Graph /\ x.edges = h.edges /\ Nodes(x) = Nodes(h) \cup {d}
        /\ \A n \in Id : /\ x.rank[n] = IF n = d THEN r ELSE h.rank[n]
                         /\ x.risk[n] = IF n = d THEN 2 ELSE h.risk[n]
                         /\ x.status[n] = IF n = d THEN "pending" ELSE h.status[n]
    BY <1>3, <1>1, <1>b, <1>r, NodeIs
  <1>5. PICK y : y = AddEdgeBetweenNodes(x, d, b)
    OBVIOUS
  <1>6. /\ y \in Graph /\ y.rank = x.rank /\ y.risk = x.risk /\ y.status = x.status
        /\ y.edges = x.edges \cup {e \in Id \X Id : /\ e[2] = b /\ b \in Nodes(x)
                                                    /\ e[1] = d /\ d \in Nodes(x)}
    BY <1>3, <1>4, <1>5, EdgeIs
  <1>7. a = ResetBlockedNode(y, b)
    BY <1>1, <1>2, <1>b, <1>5 DEF ApplyConstraint, ApplyMissingDep
  <1>8. {e \in Id \X Id : /\ e[2] = b /\ b \in Nodes(x) /\ e[1] = d /\ d \in Nodes(x)}
          = EdgesOf(h, c)
    BY <1>2, <1>b, <1>4 DEF EdgesOf, NodesWith, Adds
  <1>g. y \in Graph /\ b \in Id
    BY <1>3, <1>6
  <1>9. a \in Graph /\ a.rank = y.rank /\ a.risk = y.risk /\ a.edges = y.edges
    BY <1>g, <1>7, ResetIs
  <1>10. \A n \in Id : a.status[n] = IF n = b /\ y.status[n] = "blocked" THEN "pending"
                                                                         ELSE y.status[n]
    BY <1>g, <1>7, ResetIs
  <1>11. a.edges = h.edges \cup EdgesOf(h, c)
    BY <1>4, <1>6, <1>8, <1>9
  <1>12. \A n \in Id : /\ a.rank[n] = IF n = d THEN r ELSE h.rank[n]
                       /\ a.risk[n] = IF n = d THEN 2 ELSE h.risk[n]
    BY <1>4, <1>6, <1>9
  <1>13. \A n \in Id : /\ n = d => a.status[n] = "pending"
                       /\ n = b /\ h.status[n] = "blocked" => a.status[n] = "pending"
                       /\ n # d /\ ~(n = b /\ h.status[n] = "blocked") => a.status[n] = h.status[n]
    BY <1>4, <1>6, <1>10
  <1> QED
    BY <1>r, <1>2, <1>9, <1>11, <1>12, <1>13

(* Any other constraint. *)
LEMMA OtherConstraintIs ==
    ASSUME NEW h \in Graph, NEW c \in Constraint, ~Adds(h, c), NEW a, a = ApplyConstraint(h, c)
    PROVE  /\ a \in Graph /\ a.edges = h.edges \cup EdgesOf(h, c)
           /\ a.rank = h.rank /\ a.risk = h.risk
           /\ \A n \in Id : a.status[n] = IF n = c.blocked /\ h.status[n] = "blocked"
                                          THEN "pending" ELSE h.status[n]
  <1>1. PICK b : b = c.blocked
    OBVIOUS
  <1>2. b \in Id
    BY <1>1 DEF Constraint
  <1>3. PICK s : s = c.dependency
    OBVIOUS
  <1>4. \E y \in Graph : /\ y.rank = h.rank /\ y.risk = h.risk /\ y.status = h.status
                         /\ y.edges = h.edges \cup EdgesOf(h, c)
                         /\ a = ResetBlockedNode(y, b)
    <2>1. CASE c.type = "path_blocked"
      <3>1. PICK y : y = AddEdgeBetweenNodes(h, s, b)
        OBVIOUS
      <3>2. /\ y \in Graph /\ y.rank = h.rank /\ y.risk = h.risk /\ y.status = h.status
            /\ y.edges = h.edges \cup {e \in Id \X Id : /\ e[2] = b /\ b \in Nodes(h)
                                                        /\ e[1] = s /\ s \in Nodes(h)}
        BY <1>2, <3>1, EdgeIs
      <3>3. a = ResetBlockedNode(y, b)
        BY <1>1, <1>3, <2>1, <3>1 DEF ApplyConstraint
      <3>4. {e \in Id \X Id : e[2] = b /\ b \in Nodes(h) /\ e[1] = s /\ s \in Nodes(h)}
              = EdgesOf(h, c)
        BY <1>1, <1>3, <2>1 DEF EdgesOf, NodesWith
      <3> QED
        BY <3>2, <3>3, <3>4
    <2>2. CASE c.type # "path_blocked"
      <3>1. a = ResetBlockedNode(h, b)
        BY <1>1, <2>2 DEF ApplyConstraint, ApplyMissingDep, Adds
      <3>2. EdgesOf(h, c) = {}
        BY <2>2 DEF EdgesOf
      <3> QED
        BY <3>1, <3>2
    <2> QED
      BY <2>1, <2>2
  <1>5. PICK y \in Graph : /\ y.rank = h.rank /\ y.risk = h.risk /\ y.status = h.status
                           /\ y.edges = h.edges \cup EdgesOf(h, c)
                           /\ a = ResetBlockedNode(y, b)
    BY <1>4
  <1>6. a \in Graph /\ a.rank = y.rank /\ a.risk = y.risk /\ a.edges = y.edges
    BY <1>2, <1>5, ResetIs
  <1>7. \A n \in Id : a.status[n] = IF n = b /\ y.status[n] = "blocked" THEN "pending"
                                                                        ELSE y.status[n]
    BY <1>2, <1>5, ResetIs
  <1> QED
    BY <1>1, <1>5, <1>6, <1>7

(* The graph once the first k constraints of the log are applied, in the   *)
(* form of AtOnce.                                                         *)
InsertedBy(g, log, k, n) == \E i \in 1 .. k : Inserts(g, log, i) /\ DepNode[log[i].dependency] = n

ResetBy(g, log, k, n) == g.status[n] = "blocked" /\ \E i \in 1 .. k : log[i].blocked = n

EdgesAt(g, log, i) ==
  {e \in Id \X Id :
      /\ e[2] = log[i].blocked
      /\ e[2] \in NodesAfter(g, log, i)
      /\ \/ Inserts(g, log, i) /\ e[1] = DepNode[log[i].dependency]
         \/ /\ log[i].type = "path_blocked"
            /\ e[1] = log[i].dependency
            /\ e[1] \in NodesAfter(g, log, i)}

EdgesIn(g, log, R) == UNION {EdgesAt(g, log, i) : i \in R}

Upto(g, log, k) ==
  [rank   |-> [n \in Id |-> IF InsertedBy(g, log, k, n) THEN InsertionRank(g, log, n)
                                                        ELSE g.rank[n]],
   status |-> [n \in Id |-> IF InsertedBy(g, log, k, n) \/ ResetBy(g, log, k, n)
                            THEN "pending" ELSE g.status[n]],
   risk   |-> [n \in Id |-> IF InsertedBy(g, log, k, n) THEN 2 ELSE g.risk[n]],
   edges  |-> g.edges \cup EdgesIn(g, log, 1 .. k)]

(* None of the log is none of the changes, all of it is all of them.       *)
LEMMA UptoNone ==
    ASSUME NEW g \in Graph, NEW log \in Seq(Constraint)
    PROVE  Upto(g, log, 0) = g
  <1>1. 1 .. 0 = {}
    OBVIOUS
  <1>2. \A n \in Id : ~InsertedBy(g, log, 0, n) /\ ~ResetBy(g, log, 0, n)
    BY <1>1 DEF InsertedBy, ResetBy
  <1>3. EdgesIn(g, log, 1 .. 0) = {}
    BY <1>1 DEF EdgesIn
  <1>4. /\ [n \in Id |-> IF InsertedBy(g, log, 0, n) THEN InsertionRank(g, log, n) ELSE g.rank[n]]
             = g.rank
        /\ [n \in Id |-> IF InsertedBy(g, log, 0, n) \/ ResetBy(g, log, 0, n)
                         THEN "pending" ELSE g.status[n]] = g.status
        /\ [n \in Id |-> IF InsertedBy(g, log, 0, n) THEN 2 ELSE g.risk[n]] = g.risk
    BY <1>2 DEF Graph
  <1> QED
    BY <1>3, <1>4 DEF Upto, Graph

LEMMA UptoAll ==
    ASSUME NEW g \in Graph, NEW log \in Seq(Constraint)
    PROVE  Upto(g, log, Len(log)) = AtOnce(g, log)
  <1>1. DOMAIN log = 1 .. Len(log)
    OBVIOUS
  <1>2. \A n \in Id : /\ InsertedBy(g, log, Len(log), n) <=> Inserted(g, log, n)
                      /\ ResetBy(g, log, Len(log), n) <=> Resets(g, log, n)
    BY <1>1 DEF InsertedBy, ResetBy, Inserted, Resets
  <1>3. EdgesIn(g, log, 1 .. Len(log)) = ConstraintEdges(g, log)
    BY <1>1 DEF EdgesIn, EdgesAt, ConstraintEdges
  <1>4. /\ [n \in Id |-> IF InsertedBy(g, log, Len(log), n) THEN InsertionRank(g, log, n)
                                                            ELSE g.rank[n]]
             = [n \in Id |-> IF Inserted(g, log, n) THEN InsertionRank(g, log, n) ELSE g.rank[n]]
        /\ [n \in Id |-> IF InsertedBy(g, log, Len(log), n) \/ ResetBy(g, log, Len(log), n)
                         THEN "pending" ELSE g.status[n]]
             = [n \in Id |-> IF Inserted(g, log, n) \/ Resets(g, log, n)
                             THEN "pending" ELSE g.status[n]]
        /\ [n \in Id |-> IF InsertedBy(g, log, Len(log), n) THEN 2 ELSE g.risk[n]]
             = [n \in Id |-> IF Inserted(g, log, n) THEN 2 ELSE g.risk[n]]
    BY <1>2
  <1> QED
    BY <1>3, <1>4 DEF Upto, AtOnce

(* A node is inserted once.                                                *)
LEMMA InsertedOnce ==
    ASSUME NEW g \in Graph, NEW log \in Seq(Constraint),
           NEW i \in DOMAIN log, NEW j \in DOMAIN log, Inserts(g, log, i), Inserts(g, log, j),
           DepNode[log[i].dependency] = DepNode[log[j].dependency]
    PROVE  i = j
  <1>1. \A a, b \in DOMAIN log : a < b => a \in 1 .. b - 1
    OBVIOUS
  <1>2. \A a, b \in DOMAIN log :
          a < b /\ Inserts(g, log, a) => DepNode[log[a].dependency] \in NodesAfter(g, log, b - 1)
    BY <1>1 DEF Inserts, NodesAfter, MissingDeps
  <1>3. ~(i < j) /\ ~(j < i)
    BY <1>2 DEF Inserts
  <1> QED
    BY <1>3

(* The constraint that inserts a node decides its rank.                    *)
LEMMA RankOfInserted ==
    ASSUME NEW g \in Graph, NEW log \in Seq(Constraint), NEW i \in DOMAIN log,
           Inserts(g, log, i), NEW n, n = DepNode[log[i].dependency]
    PROVE  InsertionRank(g, log, n) = 1 + Cardinality(NodesAfter(g, log, i - 1))
  <1> DEFINE k == CHOOSE j \in DOMAIN log : Inserts(g, log, j) /\ DepNode[log[j].dependency] = n
  <1>1. k \in DOMAIN log /\ Inserts(g, log, k) /\ DepNode[log[k].dependency] = n
    OBVIOUS
  <1>2. k = i
    BY <1>1, InsertedOnce
  <1> QED
    BY <1>2 DEF InsertionRank

(* The nodes so far: of the constraints that ask for a node the first one  *)
(* inserts it.                                                             *)
LEMMA UptoNodes ==
    ASSUME NEW g \in Graph, NEW log \in Seq(Constraint), NEW k \in 0 .. Len(log)
    PROVE  Nodes(Upto(g, log, k)) = NodesAfter(g, log, k)
  <1>1. \A n \in Id : n \in Nodes(Upto(g, log, k)) <=> n \in Nodes(g) \/ InsertedBy(g, log, k, n)
    BY DEF Nodes, Upto, ResetBy
  <1>2. \A i \in 1 .. k : i \in DOMAIN log /\ log[i] \in Constraint
    OBVIOUS
  <1>3. \A i \in 1 .. k : DepNode[log[i].dependency] \in Id
    BY <1>2, IdAssumption DEF Constraint
  <1>4. \A n : InsertedBy(g, log, k, n) => n \in NodesAfter(g, log, k)
    BY DEF InsertedBy, Inserts, NodesAfter, MissingDeps
  <1>5. ASSUME NEW n, n \in NodesAfter(g, log, k), n \notin Nodes(g)
        PROVE  InsertedBy(g, log, k, n)
    <2> DEFINE I == {i \in MissingDeps(log, k) : DepNode[log[i].dependency] = n}
    <2>1. I # {} /\ I \subseteq Nat
      BY <1>5 DEF NodesAfter, MissingDeps
    <2>2. PICK i \in I : \A j \in I : i <= j
      BY <2>1, FirstOf
    <2>3. i \in 1 .. k /\ log[i].type = "missing_dep" /\ DepNode[log[i].dependency] = n
      BY <2>2 DEF MissingDeps
    <2>4. \A j \in MissingDeps(log, i - 1) : j \in MissingDeps(log, k) /\ j < i /\ j \in Nat
      BY <2>3 DEF MissingDeps
    <2>5. \A j \in MissingDeps(log, i - 1) : DepNode[log[j].dependency] # n
      <3> SUFFICES ASSUME NEW j \in MissingDeps(log, i - 1), DepNode[log[j].dependency] = n
                   PROVE  FALSE
        OBVIOUS
      <3>1. j \in I /\ j < i /\ j \in Nat /\ i \in Nat
        BY <2>3, <2>4
      <3> QED
        BY <2>2, <3>1
    <2>6. n \notin NodesAfter(g, log, i - 1)
      BY <1>5, <2>5 DEF NodesAfter
    <2> QED
      BY <2>3, <2>6 DEF InsertedBy, Inserts
  <1>6. NodesAfter(g, log, k) \subseteq Id
    BY <1>3 DEF NodesAfter, MissingDeps, Nodes
  <1>7. \A n \in Nodes(g) : n \in NodesAfter(g, log, k)
    BY DEF NodesAfter
  <1>8. Nodes(Upto(g, log, k)) \subseteq Id
    BY DEF Nodes
  <1> QED
    BY <1>1, <1>4, <1>5, <1>6, <1>7, <1>8

(* It is a graph.                                                          *)
LEMMA UptoType ==
    ASSUME NEW g \in Graph, NEW log \in Seq(Constraint), NEW k \in 0 .. Len(log)
    PROVE  Upto(g, log, k) \in Graph
  <1>1. \A i \in 1 .. k : i \in DOMAIN log
    OBVIOUS
  <1>2. \A i \in DOMAIN log : Cardinality(NodesAfter(g, log, i - 1)) \in Nat
    <2> SUFFICES ASSUME NEW i \in DOMAIN log
                 PROVE  Cardinality(NodesAfter(g, log, i - 1)) \in Nat
      OBVIOUS
    <2>1. \A j \in 1 .. i - 1 : log[j] \in Constraint
      OBVIOUS
    <2>2. NodesAfter(g, log, i - 1) \subseteq Id
      BY <2>1, IdAssumption DEF NodesAfter, MissingDeps, Nodes, Constraint
    <2> QED
      BY <2>2, IdAssumption, FS_Subset, FS_CardinalityType
  <1>3. \A n \in Id : InsertedBy(g, log, k, n) => InsertionRank(g, log, n) \in Nat
    <2> SUFFICES ASSUME NEW n \in Id, InsertedBy(g, log, k, n)
                 PROVE  InsertionRank(g, log, n) \in Nat
      OBVIOUS
    <2>1. PICK i \in 1 .. k : Inserts(g, log, i) /\ DepNode[log[i].dependency] = n
      BY DEF InsertedBy
    <2>2. i \in DOMAIN log
      BY <1>1
    <2>3. InsertionRank(g, log, n) = 1 + Cardinality(NodesAfter(g, log, i - 1))
      BY <2>1, <2>2, RankOfInserted
    <2> QED
      BY <1>2, <2>2, <2>3
  <1>4. EdgesIn(g, log, 1 .. k) \subseteq (Id \cup FailClass) \X Id
    BY DEF EdgesIn, EdgesAt
  <1>5. Upto(g, log, k).rank \in [Id -> Nat]
    BY <1>3 DEF Upto, Graph
  <1>6. Upto(g, log, k).status \in [Id -> Status]
    BY DEF Upto, Graph, Status
  <1>7. Upto(g, log, k).risk \in [Id -> Risk]
    BY DEF Upto, Graph, Risk
  <1>8. Upto(g, log, k).edges \subseteq (Id \cup FailClass) \X Id
    BY <1>4 DEF Upto, Graph
  <1> QED
    BY <1>5, <1>6, <1>7, <1>8 DEF Upto, Graph

(* A graph is its four fields.                                             *)
LEMMA SameGraph ==
    ASSUME NEW a \in Graph, NEW b \in Graph, a.rank = b.rank, a.status = b.status,
           a.risk = b.risk, a.edges = b.edges
    PROVE  a = b
  <1>1. \A x \in Graph : x = [rank |-> x.rank, status |-> x.status, risk |-> x.risk, edges |-> x.edges]
    BY DEF Graph
  <1> QED
    BY <1>1

(* One constraint more.                                                    *)
LEMMA UptoNext ==
    ASSUME NEW g \in Graph, NEW log \in Seq(Constraint), NEW k \in 0 .. Len(log) - 1
    PROVE  ApplyConstraint(Upto(g, log, k), log[k + 1]) = Upto(g, log, k + 1)
  <1>0. /\ k + 1 \in DOMAIN log /\ log[k + 1] \in Constraint /\ k \in Nat
        /\ 1 .. k + 1 = (1 .. k) \cup {k + 1} /\ (k + 1) - 1 = k
        /\ k \in 0 .. Len(log) /\ k + 1 \in 0 .. Len(log)
    OBVIOUS
  <1>1. PICK h \in Graph : h = Upto(g, log, k)
    BY <1>0, UptoType
  <1>2. PICK u \in Graph : u = Upto(g, log, k + 1)
    BY <1>0, UptoType
  <1>3. PICK c \in Constraint : c = log[k + 1]
    BY <1>0
  <1>4. PICK a : a = ApplyConstraint(h, c)
    OBVIOUS
  <1>5. PICK d : d = DepNode[c.dependency]
    OBVIOUS
  <1>6. Nodes(h) = NodesAfter(g, log, k)
    BY <1>0, <1>1, UptoNodes
  <1>7. Adds(h, c) <=> Inserts(g, log, k + 1)
    BY <1>0, <1>3, <1>6 DEF Adds, Inserts
  <1>8. \A n \in Id : InsertedBy(g, log, k + 1, n)
                        <=> InsertedBy(g, log, k, n) \/ (Adds(h, c) /\ n = d)
    BY <1>0, <1>3, <1>5, <1>7 DEF InsertedBy
  <1>9. \A n \in Id : ResetBy(g, log, k + 1, n)
                        <=> ResetBy(g, log, k, n) \/ (g.status[n] = "blocked" /\ n = c.blocked)
    BY <1>0, <1>3 DEF ResetBy
  <1>10. NodesWith(h, c) = NodesAfter(g, log, k + 1)
    <2>1. MissingDeps(log, k + 1) = MissingDeps(log, k) \cup
                                       (IF c.type = "missing_dep" THEN {k + 1} ELSE {})
      BY <1>0, <1>3 DEF MissingDeps
    <2> QED
      BY <1>3, <1>6, <2>1 DEF NodesWith, NodesAfter, Adds
  <1>11. EdgesOf(h, c) = EdgesAt(g, log, k + 1)
    <2>1. c.type = "path_blocked" => NodesWith(h, c) = Nodes(h)
      BY DEF NodesWith, Adds
    <2> QED
      BY <1>3, <1>7, <1>10, <2>1 DEF EdgesOf, EdgesAt
  <1>12. u.edges = h.edges \cup EdgesOf(h, c)
    <2>1. EdgesIn(g, log, 1 .. k + 1)
            = EdgesIn(g, log, 1 .. k) \cup EdgesAt(g, log, k + 1)
      <3>1. \A A : EdgesIn(g, log, A \cup {k + 1}) = EdgesIn(g, log, A) \cup EdgesAt(g, log, k + 1)
        BY DEF EdgesIn
      <3> QED
        BY <1>0, <3>1
    <2>2. /\ u.edges = g.edges \cup EdgesIn(g, log, 1 .. k + 1)
          /\ h.edges = g.edges \cup EdgesIn(g, log, 1 .. k)
      BY <1>1, <1>2 DEF Upto
    <2> QED
      BY <1>11, <2>1, <2>2
  <1>u. \A n \in Id : /\ u.rank[n] = IF InsertedBy(g, log, k + 1, n) THEN InsertionRank(g, log, n)
                                                                 ELSE g.rank[n]
                      /\ u.risk[n] = IF InsertedBy(g, log, k + 1, n) THEN 2 ELSE g.risk[n]
                      /\ u.status[n] = IF InsertedBy(g, log, k + 1, n) \/ ResetBy(g, log, k + 1, n)
                                       THEN "pending" ELSE g.status[n]
    BY <1>2 DEF Upto
  <1>h. \A n \in Id : /\ h.rank[n] = IF InsertedBy(g, log, k, n) THEN InsertionRank(g, log, n)
                                                                 ELSE g.rank[n]
                      /\ h.risk[n] = IF InsertedBy(g, log, k, n) THEN 2 ELSE g.risk[n]
                      /\ h.status[n] = IF InsertedBy(g, log, k, n) \/ ResetBy(g, log, k, n)
                                       THEN "pending" ELSE g.status[n]
    BY <1>1 DEF Upto
  <1>13. \A n \in Id : h.status[n] = "blocked" /\ n = c.blocked
                         => g.status[n] = "blocked" /\ ResetBy(g, log, k + 1, n)
    BY <1>h, <1>9
  <1>14. CASE Adds(h, c)
    <2>1. /\ a \in Graph /\ a.edges = h.edges \cup EdgesOf(h, c)
          /\ \A n \in Id :
                /\ a.rank[n] = IF n = d THEN 1 + Cardinality(Nodes(h)) ELSE h.rank[n]
                /\ a.risk[n] = IF n = d THEN 2 ELSE h.risk[n]
                /\ n = d => a.status[n] = "pending"
                /\ n = c.blocked /\ h.status[n] = "blocked" => a.status[n] = "pending"
                /\ n # d /\ ~(n = c.blocked /\ h.status[n] = "blocked") => a.status[n] = h.status[n]
      BY <1>4, <1>5, <1>14, AddingConstraintIs
    <2>2. PICK r : r = 1 + Cardinality(Nodes(h))
      OBVIOUS
    <2>3. InsertionRank(g, log, d) = r
      BY <1>0, <1>3, <1>5, <1>6, <1>7, <1>14, <2>2, RankOfInserted
    <2>4. \A n \in Id : a.rank[n] = u.rank[n]
      BY <1>u, <1>h, <1>8, <1>14, <2>1, <2>2, <2>3
    <2>5. \A n \in Id : a.risk[n] = u.risk[n]
      BY <1>u, <1>h, <1>8, <1>14, <2>1
    <2>6. ASSUME NEW n \in Id PROVE a.status[n] = u.status[n]
      <3>1. CASE n = d \/ (n = c.blocked /\ h.status[n] = "blocked")
        <4>1. a.status[n] = "pending"
          BY <2>1, <3>1
        <4>2. InsertedBy(g, log, k + 1, n) \/ ResetBy(g, log, k + 1, n)
          BY <1>8, <1>13, <1>14, <3>1
        <4> QED
          BY <4>1, <4>2, <1>u
      <3>2. CASE ~(n = d \/ (n = c.blocked /\ h.status[n] = "blocked"))
        <4>1. a.status[n] = h.status[n]
          BY <2>1, <3>2
        <4>2. InsertedBy(g, log, k + 1, n) <=> InsertedBy(g, log, k, n)
          BY <1>8, <3>2
        <4> QED
          BY <4>1, <4>2, <1>u, <1>h, <1>9, <3>2
      <3> QED
        BY <3>1, <3>2
    <2>7. a.rank = u.rank /\ a.risk = u.risk /\ a.status = u.status
      BY <2>1, <2>4, <2>5, <2>6 DEF Graph
    <2>8. a \in Graph /\ u \in Graph /\ a.edges = u.edges
      BY <1>12, <2>1
    <2>9. a = u
      BY <2>7, <2>8, SameGraph
    <2> QED
      BY <1>1, <1>2, <1>3, <1>4, <2>9
  <1>15. CASE ~Adds(h, c)
    <2>1. /\ a \in Graph /\ a.edges = h.edges \cup EdgesOf(h, c)
          /\ a.rank = h.rank /\ a.risk = h.risk
          /\ \A n \in Id : a.status[n] = IF n = c.blocked /\ h.status[n] = "blocked"
                                         THEN "pending" ELSE h.status[n]
      BY <1>4, <1>15, OtherConstraintIs
    <2>2. \A n \in Id : InsertedBy(g, log, k + 1, n) <=> InsertedBy(g, log, k, n)
      BY <1>8, <1>15
    <2>3. \A n \in Id : a.rank[n] = u.rank[n] /\ a.risk[n] = u.risk[n]
      BY <1>u, <1>h, <2>1, <2>2
    <2>4. ASSUME NEW n \in Id PROVE a.status[n] = u.status[n]
      <3>1. CASE n = c.blocked /\ h.status[n] = "blocked"
        BY <1>13, <1>u, <2>1, <3>1
      <3>2. CASE ~(n = c.blocked /\ h.status[n] = "blocked")
        <4>1. a.status[n] = h.status[n]
          BY <2>1, <3>2
        <4> QED
          BY <4>1, <1>u, <1>h, <1>9, <2>2, <3>2
      <3> QED
        BY <3>1, <3>2
    <2>7. a.rank = u.rank /\ a.risk = u.risk /\ a.status = u.status
      BY <2>1, <2>3, <2>4 DEF Graph
    <2>8. a \in Graph /\ u \in Graph /\ a.edges = u.edges
      BY <1>12, <2>1
    <2>9. a = u
      BY <2>7, <2>8, SameGraph
    <2> QED
      BY <1>1, <1>2, <1>3, <1>4, <2>9
  <1> QED
    BY <1>14, <1>15

(* The loop: the function ApplyConstraints chooses is the one of Upto, since *)
(* there is one, and since its equations leave no choice.                  *)
LEMMA LoopIsUpto ==
    ASSUME NEW g \in Graph, NEW log \in Seq(Constraint)
    PROVE  ApplyConstraints(g, log) = Upto(g, log, Len(log))
  <1> DEFINE D == 0 .. Len(log)
             step(f, k) == IF k = 0 THEN g ELSE ApplyConstraint(f[k - 1], log[k])
             loop == CHOOSE f : f = [k \in D |-> step(f, k)]
             up == [k \in D |-> Upto(g, log, k)]
  <1>1. ApplyConstraints(g, log) = loop[Len(log)]
    BY DEF ApplyConstraints
  <1>2. up = [k \in D |-> step(up, k)]
    <2>1. ASSUME NEW k \in D PROVE up[k] = step(up, k)
      <3>1. CASE k = 0
        BY <3>1, UptoNone
      <3>2. CASE k # 0
        <4>1. k - 1 \in 0 .. Len(log) - 1 /\ k - 1 \in D /\ (k - 1) + 1 = k
          BY <3>2
        <4>2. ApplyConstraint(Upto(g, log, k - 1), log[k]) = Upto(g, log, k)
          BY <4>1, UptoNext
        <4>3. up[k - 1] = Upto(g, log, k - 1)
          BY <4>1
        <4> QED
          BY <3>2, <4>2, <4>3
      <3> QED
        BY <3>1, <3>2
    <2> HIDE DEF step
    <2>2. up = [k \in D |-> up[k]]
      OBVIOUS
    <2> QED
      BY <2>1, <2>2
  <1>3. loop = [k \in D |-> step(loop, k)]
    <2>1. \E f : f = [k \in D |-> step(f, k)]
      BY <1>2
    <2> HIDE DEF step, D, up
    <2> QED
      BY <2>1
  <1>4. \A k \in D : loop[k] = step(loop, k)
    <2> HIDE DEF step, D, up, loop
    <2> QED
      BY <1>3
  <1> HIDE DEF loop
  <1> DEFINE Good == {k \in Nat : k \in D => loop[k] = Upto(g, log, k)}
  <1>5. 0 \in Good
    BY <1>4, UptoNone
  <1>6. ASSUME NEW k \in Nat, k \in Good PROVE k + 1 \in Good
    <2> SUFFICES ASSUME k + 1 \in D PROVE loop[k + 1] = Upto(g, log, k + 1)
      OBVIOUS
    <2>1. k \in 0 .. Len(log) - 1 /\ k \in D /\ k + 1 # 0 /\ (k + 1) - 1 = k
      OBVIOUS
    <2>2. loop[k] = Upto(g, log, k)
      BY <1>6, <2>1
    <2>3. loop[k + 1] = ApplyConstraint(loop[k], log[k + 1])
      BY <1>4, <2>1
    <2> QED
      BY <2>1, <2>2, <2>3, UptoNext
  <1> HIDE DEF Good
  <1>7. Len(log) \in Good
    BY <1>5, <1>6, NatsIn
  <1>8. loop[Len(log)] = Upto(g, log, Len(log))
    BY <1>7 DEF Good
  <1> QED
    BY <1>1, <1>8

(* So the graph that heal_and_replan builds is AtOnce: whatever the log    *)
(* holds, a node is inserted once, and edges ask for the nodes of their    *)
(* moment.                                                                 *)
LEMMA LoopIsAtOnce ==
    ASSUME NEW g \in Graph, NEW log \in Seq(Constraint)
    PROVE  ApplyConstraints(g, log) = AtOnce(g, log)
  BY LoopIsUpto, UptoAll

LEMMA ApplyConstraintsGraph ==
    ASSUME NEW g \in Graph, NEW log \in Seq(Constraint)
    PROVE  ApplyConstraints(g, log) \in Graph
  BY LoopIsAtOnce, AtOnceGraph

(* Applying a log keeps the nodes and the edges, leaves running and done   *)
(* nodes as they are and blocks none.                                      *)
LEMMA ApplyConstraintsGrows ==
    ASSUME NEW g \in Graph, NEW log \in Seq(Constraint)
    PROVE  LET h == ApplyConstraints(g, log) IN
           /\ Nodes(g) \subseteq Nodes(h)
           /\ g.edges \subseteq h.edges
           /\ \A n \in Id : /\ g.status[n] \in {"running", "done"} => h.status[n] = g.status[n]
                            /\ h.status[n] = "blocked" => g.status[n] = "blocked"
  BY LoopIsAtOnce, AtOnceGrows


------------------------------------------------------------------------------
(* The events are well formed.                                             *)
LEMMA EventTypes ==
    /\ \A type \in EventType : Plain(type) \in Event
    /\ \A type \in EventType, n \in Id : OfNode(type, n) \in Event
    /\ \A s \in DysonState : To(s) \in Event
    /\ \A s \in DysonState, n \in Id : ToWith(s, n) \in Event
    /\ \A s \in DysonState, k \in Nat : ToCounted(s, k) \in Event
  <1>1. \A type \in EventType : Plain(type) \in Event
    BY DEF Plain, Event
  <1>2. \A type \in EventType, n \in Id : OfNode(type, n) \in Event
    BY DEF OfNode, Plain, Event
  <1>3. \A s \in DysonState : To(s) \in Event
    BY DEF To, Plain, Event, EventType
  <1>4. \A s \in DysonState, n \in Id : ToWith(s, n) \in Event
    BY <1>3 DEF ToWith, Event
  <1>5. \A s \in DysonState, k \in Nat : ToCounted(s, k) \in Event
    BY <1>3 DEF ToCounted, Event
  <1> QED
    BY <1>1, <1>2, <1>3, <1>4, <1>5

(* The events of a failure, whether or not it comes with a constraint.     *)
LEMMA FailureEventsType ==
    ASSUME NEW n \in Id, NEW new \in Seq(Constraint)
    PROVE  FailureEvents(n, new) \in Seq(Event)
  <1> DEFINE added == [k \in 1 .. Len(new) |-> Plain("constraint_added")]
             rest  == <<OfNode("road_update", n), OfNode("node_blocked", n), ToWith("HEALING", n)>>
  <1>1. Plain("constraint_added") \in Event
    BY EventTypes DEF EventType
  <1>2. added \in Seq(Event)
    BY <1>1
  <1>3. OfNode("road_update", n) \in Event /\ OfNode("node_blocked", n) \in Event
    BY EventTypes DEF EventType
  <1>4. ToWith("HEALING", n) \in Event
    BY EventTypes DEF DysonState
  <1>5. rest \in Seq(Event)
    BY <1>3, <1>4
  <1>6. added \o rest \in Seq(Event)
    BY <1>2, <1>5
  <1> QED
    BY <1>6 DEF FailureEvents

(* A failing node is a node of a graph that has one edge more.             *)
LEMMA FailedGraphType ==
    ASSUME graph \in Graph, NEW n \in Id, NEW class \in FailClass
    PROVE  /\ FailedGraph(n, class) \in Graph
           /\ FailedGraph(n, class).edges = graph.edges \cup {<<class, n>>}
           /\ FailedGraph(n, class).status = [graph.status EXCEPT ![n] = "blocked"]
           /\ Nodes(graph) \subseteq Nodes(FailedGraph(n, class))
           /\ n \in Nodes(FailedGraph(n, class))
  <1>1. "blocked" \in Status \ {"absent"}
    BY DEF Status
  <1> QED
    BY <1>1, SetStatusGraph, AddEdgeGraph DEF FailedGraph

(***************************************************************************)
(* What heal_and_replan does to graph g: it only adds, keeps what is done  *)
(* or running, blocks nothing, and leaves a call state only by EXECUTING,  *)
(* with a node of the graph, or by HUMAN_GATE.                             *)
(***************************************************************************)
LEMMA HealEffect ==
    ASSUME NEW g \in Graph, NEW log \in Seq(Constraint), NEW before \in DysonState,
           NEW events \in Seq(Event), Heal(g, log, before, events)
    PROVE  /\ graph' \in Graph
           /\ Nodes(g) \subseteq Nodes(graph')
           /\ g.edges \subseteq graph'.edges
           /\ \A n \in Id : /\ g.status[n] \in {"running", "done"} => graph'.status[n] = g.status[n]
                            /\ graph'.status[n] = "blocked" => g.status[n] = "blocked"
           /\ \/ state' = before /\ current' = current
              \/ state' = "HUMAN_GATE" /\ current' = current
              \/ state' = "EXECUTING" /\ current' \in Nodes(graph')
           /\ raised' \in BOOLEAN
           /\ emitted' \in Seq(Event)
  <1> DEFINE h == ApplyConstraints(g, log)
  <1>1. h \in Graph
    BY ApplyConstraintsGraph
  <1>2. /\ Nodes(g) \subseteq Nodes(h)
        /\ g.edges \subseteq h.edges
        /\ \A n \in Id : /\ g.status[n] \in {"running", "done"} => h.status[n] = g.status[n]
                         /\ h.status[n] = "blocked" => g.status[n] = "blocked"
    BY ApplyConstraintsGrows
  <1> HIDE DEF h
  <1>3. CASE graph' = h /\ state' = before /\ raised' = TRUE /\ emitted' = events /\ UNCHANGED current
    BY <1>1, <1>2, <1>3
  <1>4. CASE graph' = h /\ state' = "HUMAN_GATE" /\ Returns(Append(events, To("HUMAN_GATE")))
             /\ UNCHANGED current
    <2>1. To("HUMAN_GATE") \in Event
      BY EventTypes DEF DysonState
    <2>2. Append(events, To("HUMAN_GATE")) \in Seq(Event)
      BY <2>1
    <2>3. raised' \in BOOLEAN /\ emitted' \in Seq(Event)
      BY <1>4, <2>2 DEF Returns
    <2> QED
      BY <1>1, <1>2, <1>4, <2>3
  <1>5. ASSUME NEW n \in Pending(h), graph' = SetStatus(h, n, "running"), current' = n,
               Returns(Append(events, ToWith("EXECUTING", n))), state' = "EXECUTING"
        PROVE  /\ graph' \in Graph
               /\ Nodes(g) \subseteq Nodes(graph')
               /\ g.edges \subseteq graph'.edges
               /\ \A m \in Id : /\ g.status[m] \in {"running", "done"} => graph'.status[m] = g.status[m]
                                /\ graph'.status[m] = "blocked" => g.status[m] = "blocked"
               /\ state' = "EXECUTING" /\ current' \in Nodes(graph')
               /\ raised' \in BOOLEAN
               /\ emitted' \in Seq(Event)
    <2>1. n \in Id /\ h.status[n] = "pending"
      BY DEF Pending
    <2>2. "running" \in Status \ {"absent"}
      BY DEF Status
    <2>3. /\ graph' \in Graph
          /\ graph'.edges = h.edges
          /\ graph'.status = [h.status EXCEPT ![n] = "running"]
          /\ Nodes(h) \subseteq Nodes(graph')
          /\ n \in Nodes(graph')
      BY <1>1, <1>5, <2>1, <2>2, SetStatusGraph
    <2>4. h.status \in [Id -> Status]
      BY <1>1 DEF Graph
    <2>5. \A m \in Id : graph'.status[m] = IF m = n THEN "running" ELSE h.status[m]
      BY <2>1, <2>3, <2>4
    <2>6. \A m \in Id : /\ g.status[m] \in {"running", "done"} => graph'.status[m] = g.status[m]
                        /\ graph'.status[m] = "blocked" => g.status[m] = "blocked"
      BY <1>2, <2>1, <2>5
    <2>7. ToWith("EXECUTING", n) \in Event
      BY <2>1, EventTypes DEF DysonState
    <2>8. Append(events, ToWith("EXECUTING", n)) \in Seq(Event)
      BY <2>7
    <2>9. raised' \in BOOLEAN /\ emitted' \in Seq(Event)
      BY <1>5, <2>8 DEF Returns
    <2> QED
      BY <1>2, <1>5, <2>3, <2>6, <2>9
  <1> QED
    BY <1>3, <1>4, <1>5 DEF Heal, h

-----------------------------------------------------------------------------
(* A constraint of the classifier is well formed.                          *)
LEMMA ConstraintOnType ==
    ASSUME NEW n \in Id, NEW cause \in Causes
    PROVE  ConstraintOn(n, cause) \in Constraint
  <1>1. cause \in [type : ConstraintType, dependency : Dependency]
    BY OrchestratorAssumption
  <1> QED
    BY <1>1 DEF ConstraintOn, Constraint

(* What recording a failure does to the three logs.                        *)
LEMMA RecordFailureType ==
    ASSUME SprintTypeOK, NEW n \in Id, NEW class \in FailClass, NEW new \in Seq(Constraint),
           RecordFailure(n, class, new)
    PROVE  failures' \in Seq(Failure) /\ constraints' \in Nat /\ store' \in Seq(Constraint)
  <1>1. [class |-> class, node |-> n] \in Failure
    BY DEF Failure
  <1>2. failures' \in Seq(Failure)
    BY <1>1 DEF RecordFailure, SprintTypeOK
  <1>3. constraints' \in Nat
    BY DEF RecordFailure, SprintTypeOK
  <1>4. store' \in Seq(Constraint)
    BY DEF RecordFailure, SprintTypeOK
  <1> QED
    BY <1>2, <1>3, <1>4

(* A call that returns well-formed events.                                 *)
LEMMA ReturnsType ==
    ASSUME NEW events \in Seq(Event), Returns(events)
    PROVE  CallTypeOK'
  BY DEF Returns, CallTypeOK

(***************************************************************************)
(* Type correctness.  That the current node is a node of the graph is what *)
(* makes every mark_done and mark_blocked one of a known node; a plan is   *)
(* made only while there is no graph that the current node could be of.    *)
(***************************************************************************)
CurrentInGraph == current # None => graph # None /\ current \in Nodes(graph)

PlanningHasNoGraph == state = "PLANNING" => graph = None

TypeInv == SprintTypeOK /\ CurrentInGraph /\ PlanningHasNoGraph

LEMMA TypeInit == Init => TypeInv /\ CallTypeOK
  <1> SUFFICES ASSUME Init PROVE TypeInv /\ CallTypeOK
    OBVIOUS
  <1>1. raised \in BOOLEAN
    BY DEF Init
  <1>2. failures \in Seq(Failure) /\ store \in Seq(Constraint) /\ emitted \in Seq(Event)
    BY DEF Init
  <1>3. state = "IDLE" /\ autonomy \in {"FULL_AUTO", "PAUSED"} /\ constraints \in Nat
    BY DEF Init
  <1>4. graph = None /\ current = None /\ score = None /\ verdict = None
    BY DEF Init
  <1> QED
    BY <1>1, <1>2, <1>3, <1>4
       DEF TypeInv, SprintTypeOK, CallTypeOK, CurrentInGraph, PlanningHasNoGraph, DysonState

LEMMA StartSprintType == ASSUME TypeInv, StartSprint PROVE TypeInv' /\ CallTypeOK'
  <1>1. Plain("sprint_started") \in Event /\ To("PLANNING") \in Event
    BY EventTypes DEF EventType, DysonState
  <1>2. <<Plain("sprint_started"), To("PLANNING")>> \in Seq(Event)
    BY <1>1
  <1>3. CallTypeOK'
    BY <1>2, ReturnsType DEF StartSprint
  <1>4. SprintTypeOK' /\ CurrentInGraph' /\ PlanningHasNoGraph'
    BY DEF StartSprint, TypeInv, SprintTypeOK, CurrentInGraph, PlanningHasNoGraph, DysonState
  <1> QED
    BY <1>3, <1>4 DEF TypeInv

LEMMA ExecutePlanningType == ASSUME TypeInv, ExecutePlanning PROVE TypeInv' /\ CallTypeOK'
  <1>1. PICK m \in Manifests :
            /\ graph' = FromManifest(m)
            /\ Returns(<<ToCounted("EXECUTING", Cardinality(Nodes(FromManifest(m))))>>)
    BY DEF ExecutePlanning
  <1>2. FromManifest(m) \in Graph
    BY FromManifestGraph, OrchestratorAssumption
  <1>3. ToCounted("EXECUTING", Cardinality(Nodes(FromManifest(m)))) \in Event
    BY <1>2, NodeCount, EventTypes DEF DysonState
  <1>4. <<ToCounted("EXECUTING", Cardinality(Nodes(FromManifest(m))))>> \in Seq(Event)
    BY <1>3
  <1>5. CallTypeOK'
    BY <1>1, <1>4, ReturnsType
  <1>6. current = None
    BY DEF ExecutePlanning, TypeInv, CurrentInGraph, PlanningHasNoGraph
  <1>7. SprintTypeOK' /\ CurrentInGraph' /\ PlanningHasNoGraph'
    BY <1>1, <1>2, <1>6
       DEF ExecutePlanning, TypeInv, SprintTypeOK, CurrentInGraph, PlanningHasNoGraph, DysonState
  <1> QED
    BY <1>5, <1>7 DEF TypeInv

(* An action that leaves the graph, the node and the logs alone.           *)
LEMMA StateOnlyType ==
    ASSUME TypeInv, UNCHANGED <<graph, current, failures, constraints, store>>,
           state' \in DysonState, state' = "PLANNING" => state = "PLANNING",
           score' \in Scores \cup {None}, verdict' \in DoneVerdict \cup {None},
           autonomy' \in {"FULL_AUTO", "PAUSED"}
    PROVE  TypeInv'
  BY DEF TypeInv, SprintTypeOK, CurrentInGraph, PlanningHasNoGraph

LEMMA ExecuteNextNodeType == ASSUME TypeInv, ExecuteNextNode PROVE TypeInv' /\ CallTypeOK'
  <1>0. /\ graph \in Graph /\ graph # None /\ score \in Scores \cup {None}
        /\ verdict \in DoneVerdict \cup {None} /\ state \in DysonState
        /\ autonomy \in {"FULL_AUTO", "PAUSED"}
    BY DEF ExecuteNextNode, TypeInv, SprintTypeOK
  <1>1. CASE raised' = TRUE /\ emitted' = <<>> /\ UNCHANGED sprint /\ UNCHANGED <<store, autonomy>>
    <2>1. CallTypeOK'
      BY <1>1 DEF CallTypeOK
    <2>2. TypeInv'
      BY <1>0, <1>1, StateOnlyType DEF sprint
    <2> QED
      BY <2>1, <2>2
  <1>2. CASE /\ state' = "DONE_GATE" /\ Returns(<<To("DONE_GATE")>>)
             /\ UNCHANGED <<graph, current, failures, constraints, score, verdict>>
             /\ UNCHANGED <<store, autonomy>>
    <2>1. To("DONE_GATE") \in Event
      BY EventTypes DEF DysonState
    <2>2. <<To("DONE_GATE")>> \in Seq(Event)
      BY <2>1
    <2>3. CallTypeOK'
      BY <1>2, <2>2, ReturnsType
    <2>4. TypeInv'
      BY <1>0, <1>2, StateOnlyType DEF DysonState
    <2> QED
      BY <2>3, <2>4
  <1>3. ASSUME NEW n \in ReadyNodes(graph), graph' = SetStatus(graph, n, "running"), current' = n,
               Returns(<<ToWith("NODE_READY", n)>>), state' = "NODE_READY",
               UNCHANGED <<failures, constraints, score, verdict>>, UNCHANGED <<store, autonomy>>
        PROVE  TypeInv' /\ CallTypeOK'
    <2>1. n \in Id
      BY DEF ReadyNodes, Pending
    <2>2. graph' \in Graph /\ n \in Nodes(graph')
      BY <1>0, <1>3, <2>1, SetStatusGraph DEF Status
    <2>3. ToWith("NODE_READY", n) \in Event
      BY <2>1, EventTypes DEF DysonState
    <2>4. <<ToWith("NODE_READY", n)>> \in Seq(Event)
      BY <2>3
    <2>5. CallTypeOK'
      BY <1>3, <2>4, ReturnsType
    <2>6. graph' # None
      BY <2>2, OrchestratorAssumption
    <2>7. SprintTypeOK'
      BY <1>3, <2>1, <2>2 DEF TypeInv, SprintTypeOK, DysonState
    <2>8. CurrentInGraph' /\ PlanningHasNoGraph'
      BY <1>3, <2>2, <2>6 DEF CurrentInGraph, PlanningHasNoGraph
    <2> QED
      BY <2>5, <2>7, <2>8 DEF TypeInv
  <1> QED
    BY <1>1, <1>2, <1>3 DEF ExecuteNextNode

(* An action that puts a graph with the current node in the place of graph. *)
LEMMA GraphStepType ==
    ASSUME TypeInv, graph' \in Graph, current' \in Nodes(graph') \/ current' = None,
           state' \in DysonState \ {"PLANNING"},
           failures' \in Seq(Failure), constraints' \in Nat, store' \in Seq(Constraint),
           UNCHANGED <<score, verdict, autonomy>>
    PROVE  TypeInv'
  <1>1. graph' # None
    BY OrchestratorAssumption
  <1>2. SprintTypeOK'
    BY DEF TypeInv, SprintTypeOK, Nodes
  <1> QED
    BY <1>1, <1>2 DEF TypeInv, CurrentInGraph, PlanningHasNoGraph

(* complete_node and the successful execute_builder_node.                  *)
LEMMA CompleteType ==
    ASSUME TypeInv, NEW n \in Id, n = current,
           NEW next \in {"NODE_TEST", "NODE_REVIEW"}, Complete(n, next)
    PROVE  TypeInv' /\ CallTypeOK'
  <1>1. graph \in Graph
    BY OrchestratorAssumption DEF TypeInv, SprintTypeOK, CurrentInGraph
  <1>2. graph' \in Graph /\ current' \in Nodes(graph')
    BY <1>1, SetStatusGraph DEF Complete, Status
  <1>3. TypeInv'
    BY <1>2, GraphStepType DEF Complete, TypeInv, SprintTypeOK, DysonState
  <1>4. ToWith(next, n) \in Event /\ OfNode("node_done", n) \in Event
    BY EventTypes DEF DysonState, EventType
  <1>5. <<ToWith(next, n), OfNode("node_done", n)>> \in Seq(Event)
    BY <1>4
  <1>6. CallTypeOK'
    BY <1>5, ReturnsType DEF Complete
  <1> QED
    BY <1>3, <1>6

LEMMA RejectedByCriticType ==
    ASSUME TypeInv, NEW n \in Id, n = current, NEW class \in FailClass,
           RejectedByCritic(n, class)
    PROVE  TypeInv' /\ CallTypeOK'
  <1>1. graph \in Graph
    BY OrchestratorAssumption DEF TypeInv, SprintTypeOK, CurrentInGraph
  <1>2. /\ SetStatus(graph, n, "done") \in Graph
        /\ n \in Nodes(SetStatus(graph, n, "done"))
    BY <1>1, SetStatusGraph DEF Status
  <1>3. graph' \in Graph /\ current' \in Nodes(graph')
    BY <1>2, AddEdgeGraph DEF RejectedByCritic
  <1>4. [class |-> class, node |-> n] \in Failure
    BY DEF Failure
  <1>5. failures' \in Seq(Failure) /\ constraints' \in Nat /\ store' \in Seq(Constraint)
    BY <1>4 DEF RejectedByCritic, TypeInv, SprintTypeOK
  <1>6. TypeInv'
    BY <1>3, <1>5, GraphStepType DEF RejectedByCritic, DysonState
  <1>7. /\ OfNode("road_update", n) \in Event
        /\ ToWith("HEALING", n) \in Event
        /\ OfNode("node_done", n) \in Event
    BY EventTypes DEF DysonState, EventType
  <1>8. <<OfNode("road_update", n), ToWith("HEALING", n), OfNode("node_done", n)>> \in Seq(Event)
    BY <1>7
  <1>9. CallTypeOK'
    BY <1>8, ReturnsType DEF RejectedByCritic
  <1> QED
    BY <1>6, <1>9

LEMMA CompleteNodeType == ASSUME TypeInv, CompleteNode PROVE TypeInv' /\ CallTypeOK'
  <1>1. current \in Id
    BY DEF CompleteNode, TypeInv, SprintTypeOK
  <1> QED
    BY <1>1, CompleteType, RejectedByCriticType DEF CompleteNode

LEMMA FailNodeType == ASSUME TypeInv, FailNode PROVE TypeInv' /\ CallTypeOK'
  <1>1. current \in Id /\ graph \in Graph
    BY OrchestratorAssumption DEF FailNode, TypeInv, SprintTypeOK, CurrentInGraph
  <1>2. PICK class \in FailClass,
             new \in {<<>>} \cup {<<ConstraintOn(current, cause)>> : cause \in Causes} :
          /\ RecordFailure(current, class, new)
          /\ graph' = FailedGraph(current, class)
          /\ Returns(FailureEvents(current, new))
    BY DEF FailNode
  <1>3. new \in Seq(Constraint)
    <2>1. CASE new = <<>>
      BY <2>1
    <2>2. ASSUME NEW cause \in Causes, new = <<ConstraintOn(current, cause)>>
          PROVE  new \in Seq(Constraint)
      <3>1. ConstraintOn(current, cause) \in Constraint
        BY <1>1, ConstraintOnType
      <3> QED
        BY <2>2, <3>1
    <2> QED
      BY <2>1, <2>2
  <1>4. failures' \in Seq(Failure) /\ constraints' \in Nat /\ store' \in Seq(Constraint)
    BY <1>1, <1>2, <1>3, RecordFailureType DEF TypeInv
  <1>5. graph' \in Graph /\ current' \in Nodes(graph')
    BY <1>1, <1>2, FailedGraphType DEF FailNode
  <1>6. TypeInv'
    BY <1>4, <1>5, GraphStepType DEF FailNode, DysonState
  <1>7. FailureEvents(current, new) \in Seq(Event)
    BY <1>1, <1>3, FailureEventsType
  <1>8. CallTypeOK'
    BY <1>2, <1>7, ReturnsType
  <1> QED
    BY <1>6, <1>8

LEMMA HealAndReplanType == ASSUME TypeInv, HealAndReplan PROVE TypeInv' /\ CallTypeOK'
  <1>1. graph \in Graph /\ store \in Seq(Constraint) /\ state \in DysonState /\ state # "PLANNING"
    BY DEF HealAndReplan, TypeInv, SprintTypeOK, PlanningHasNoGraph
  <1>2. <<>> \in Seq(Event)
    OBVIOUS
  <1>3. /\ graph' \in Graph
        /\ Nodes(graph) \subseteq Nodes(graph')
        /\ \/ state' \in {state, "HUMAN_GATE"} /\ current' = current
           \/ state' = "EXECUTING" /\ current' \in Nodes(graph')
        /\ CallTypeOK'
    BY <1>1, <1>2, HealEffect DEF HealAndReplan, CallTypeOK
  <1>4. current' \in Nodes(graph') \/ current' = None
    BY <1>3 DEF TypeInv, CurrentInGraph
  <1>5. state' \in DysonState \ {"PLANNING"}
    BY <1>1, <1>3 DEF DysonState
  <1>6. TypeInv'
    BY <1>3, <1>4, <1>5, GraphStepType DEF HealAndReplan, TypeInv, SprintTypeOK
  <1> QED
    BY <1>3, <1>6

LEMMA BuilderFailsType ==
    ASSUME TypeInv, current \in Id, NEW class \in FailClass, NEW c \in Constraint,
           NEW autoRecover \in BOOLEAN, BuilderFails(class, c, autoRecover)
    PROVE  TypeInv' /\ CallTypeOK'
  <1>1. graph \in Graph /\ store \in Seq(Constraint)
    BY OrchestratorAssumption DEF TypeInv, SprintTypeOK, CurrentInGraph
  <1>2. <<c>> \in Seq(Constraint) /\ Append(store, c) \in Seq(Constraint)
    BY <1>1
  <1>3. failures' \in Seq(Failure) /\ constraints' \in Nat /\ store' \in Seq(Constraint)
    BY <1>2, RecordFailureType DEF BuilderFails, TypeInv
  <1>4. FailedGraph(current, class) \in Graph /\ current \in Nodes(FailedGraph(current, class))
    BY <1>1, FailedGraphType
  <1>5. FailureEvents(current, <<c>>) \in Seq(Event)
    BY <1>2, FailureEventsType
  <1>6. CASE autoRecover
    <2>1. Heal(FailedGraph(current, class), Append(store, c), "HEALING",
               FailureEvents(current, <<c>>))
      BY <1>6 DEF BuilderFails
    <2>2. /\ graph' \in Graph
          /\ Nodes(FailedGraph(current, class)) \subseteq Nodes(graph')
          /\ \/ state' \in {"HEALING", "HUMAN_GATE"} /\ current' = current
             \/ state' = "EXECUTING" /\ current' \in Nodes(graph')
          /\ CallTypeOK'
      BY <1>2, <1>4, <1>5, <2>1, HealEffect DEF CallTypeOK, DysonState
    <2>3. TypeInv'
      BY <1>3, <1>4, <2>2, GraphStepType DEF BuilderFails, DysonState
    <2> QED
      BY <2>2, <2>3
  <1>7. CASE ~autoRecover
    <2>1. TypeInv'
      BY <1>3, <1>4, <1>7, GraphStepType DEF BuilderFails, DysonState
    <2>2. CallTypeOK'
      BY <1>5, <1>7, ReturnsType DEF BuilderFails
    <2> QED
      BY <2>1, <2>2
  <1> QED
    BY <1>6, <1>7

LEMMA ExecuteBuilderNodeType ==
    ASSUME TypeInv, NEW autoRecover \in BOOLEAN, ExecuteBuilderNode(autoRecover)
    PROVE  TypeInv' /\ CallTypeOK'
  <1>1. current \in Id
    BY DEF ExecuteBuilderNode, TypeInv, SprintTypeOK
  <1>2. CASE Complete(current, "NODE_TEST")
    BY <1>1, <1>2, CompleteType
  <1>3. CASE \E class \in FailClass, cause \in Causes :
               BuilderFails(class, ConstraintOn(current, cause), autoRecover)
    BY <1>1, <1>3, ConstraintOnType, BuilderFailsType
  <1>4. CASE SessionRaises
    <2>1. raised' \in BOOLEAN /\ emitted' \in Seq(Event)
      BY <1>4 DEF SessionRaises
    <2>2. SprintTypeOK' /\ CurrentInGraph' /\ PlanningHasNoGraph'
      BY <1>4 DEF SessionRaises, sprint, TypeInv, SprintTypeOK, CurrentInGraph, PlanningHasNoGraph
    <2> QED
      BY <2>1, <2>2 DEF TypeInv, CallTypeOK
  <1> QED
    BY <1>2, <1>3, <1>4 DEF ExecuteBuilderNode

LEMMA RunHarnessAndFinalizeType ==
    ASSUME TypeInv, RunHarnessAndFinalize
    PROVE  TypeInv' /\ CallTypeOK'
  <1>1. PICK s \in Scores :
          /\ score' = s
          /\ verdict' = GateVerdict(s)
          /\ state' = IF GateVerdict(s) = "BLOCKED" THEN "BLOCKED" ELSE "SPRINT_DONE"
          /\ Returns(<<To("DONE_GATE"), Plain("score_update")>>
                \o IF GateVerdict(s) = "BLOCKED" THEN <<To("BLOCKED")>>
                   ELSE <<To("SPRINT_DONE"), Plain("sprint_done")>>)
    BY DEF RunHarnessAndFinalize
  <1>2. GateVerdict(s) \in DoneVerdict
    BY DEF GateVerdict, DoneVerdict
  <1>3. TypeInv'
    BY <1>1, <1>2, StateOnlyType DEF RunHarnessAndFinalize, TypeInv, SprintTypeOK, DysonState
  <1>4. /\ To("DONE_GATE") \in Event /\ To("BLOCKED") \in Event /\ To("SPRINT_DONE") \in Event
        /\ Plain("score_update") \in Event /\ Plain("sprint_done") \in Event
    BY EventTypes DEF DysonState, EventType
  <1>5. /\ <<To("DONE_GATE"), Plain("score_update")>> \in Seq(Event)
        /\ <<To("BLOCKED")>> \in Seq(Event)
        /\ <<To("SPRINT_DONE"), Plain("sprint_done")>> \in Seq(Event)
    BY <1>4
  <1>6. (<<To("DONE_GATE"), Plain("score_update")>>
            \o IF GateVerdict(s) = "BLOCKED" THEN <<To("BLOCKED")>>
               ELSE <<To("SPRINT_DONE"), Plain("sprint_done")>>) \in Seq(Event)
    BY <1>5
  <1>7. CallTypeOK'
    BY <1>1, <1>6, ReturnsType
  <1> QED
    BY <1>3, <1>7

LEMMA FinalizeSprintType == ASSUME TypeInv, FinalizeSprint PROVE TypeInv' /\ CallTypeOK'
  <1>1. LegacyVerdict(score) \in DoneVerdict
    BY DEF LegacyVerdict, DoneVerdict
  <1>2. TypeInv'
    BY <1>1, StateOnlyType DEF FinalizeSprint, TypeInv, SprintTypeOK, DysonState
  <1>3. To("SPRINT_DONE") \in Event
    BY EventTypes DEF DysonState
  <1>4. <<To("SPRINT_DONE")>> \in Seq(Event)
    BY <1>3
  <1>5. CallTypeOK'
    BY <1>4, ReturnsType DEF FinalizeSprint
  <1> QED
    BY <1>2, <1>5

LEMMA PauseResumeType == ASSUME TypeInv, Pause \/ Resume PROVE TypeInv' /\ CallTypeOK'
  <1>1. TypeInv'
    BY StateOnlyType DEF Pause, Resume, sprint, TypeInv, SprintTypeOK
  <1>2. Plain("state_change") \in Event
    BY EventTypes DEF EventType
  <1>3. AutonomyEvent \in Seq(Event)
    BY <1>2 DEF AutonomyEvent
  <1>4. CallTypeOK'
    BY <1>3, ReturnsType DEF Pause, Resume
  <1> QED
    BY <1>1, <1>4

LEMMA AbortType == ASSUME TypeInv, Abort PROVE TypeInv' /\ CallTypeOK'
  <1>1. <<>> \in Seq(Event)
    OBVIOUS
  <1>2. CallTypeOK'
    BY <1>1, ReturnsType DEF Abort
  <1>3. SprintTypeOK' /\ CurrentInGraph' /\ PlanningHasNoGraph'
    BY DEF Abort, TypeInv, SprintTypeOK, CurrentInGraph, PlanningHasNoGraph, DysonState
  <1> QED
    BY <1>2, <1>3 DEF TypeInv

LEMMA ProceedType == ASSUME TypeInv, Proceed PROVE TypeInv' /\ CallTypeOK'
  <1>1. TypeInv'
    BY StateOnlyType DEF Proceed, Returns, TypeInv, SprintTypeOK, DysonState
  <1>2. To("EXECUTING") \in Event
    BY EventTypes DEF DysonState
  <1>3. <<>> \in Seq(Event) /\ <<To("EXECUTING")>> \in Seq(Event)
    BY <1>2
  <1>4. CallTypeOK'
    BY <1>3, ReturnsType DEF Proceed
  <1> QED
    BY <1>1, <1>4

LEMMA TypeStep == TypeInv /\ CallTypeOK /\ [Next]_vars => TypeInv' /\ CallTypeOK'
  <1> SUFFICES ASSUME TypeInv, CallTypeOK, [Next]_vars PROVE TypeInv' /\ CallTypeOK'
    OBVIOUS
  <1>1. CASE Next
    BY <1>1, StartSprintType, ExecutePlanningType, ExecuteNextNodeType, ExecuteBuilderNodeType,
       CompleteNodeType, FailNodeType, HealAndReplanType, RunHarnessAndFinalizeType,
       FinalizeSprintType, PauseResumeType, AbortType, ProceedType DEF Next
  <1>2. CASE UNCHANGED vars
    BY <1>2 DEF vars, TypeInv, SprintTypeOK, CallTypeOK, CurrentInGraph, PlanningHasNoGraph
  <1> QED
    BY <1>1, <1>2

(* Every reachable state is well typed, and every event handed to the      *)
(* listeners is well formed.                                               *)
THEOREM TypeCorrect == Spec => []TypeOK
  <1>1. TypeInv /\ CallTypeOK => TypeOK
    BY DEF TypeInv, TypeOK
  <1> QED
    BY <1>1, TypeInit, TypeStep, PTL DEF Spec

(* The current node is a node of the current graph.                        *)
THEOREM TypeInvariant == Spec => []TypeInv
  BY TypeInit, TypeStep, PTL DEF Spec

-----------------------------------------------------------------------------
(***************************************************************************)
(* What any step does to the graph and the failures, in five kinds: it     *)
(* leaves them alone, drops the sprint, makes the plan, works on the graph *)
(* without blocking a node, or records a failure of the current node.      *)
(***************************************************************************)
Idle == UNCHANGED <<graph, failures, constraints>>

Dropped == graph' = None /\ failures' = <<>> /\ constraints' = 0

Planned ==
    /\ graph = None /\ graph' \in Graph
    /\ UNCHANGED <<failures, constraints>>
    /\ \A n \in Id : graph'.status[n] # "blocked"

Grows ==
    /\ graph \in Graph /\ graph' \in Graph
    /\ Nodes(graph) \subseteq Nodes(graph')
    /\ graph.edges \subseteq graph'.edges

KeepsStatus(n) ==
    /\ graph.status[n] = "done" => graph'.status[n] = "done"
    /\ graph'.status[n] = "blocked" => graph.status[n] = "blocked"

Worked == Grows /\ UNCHANGED <<failures, constraints>> /\ \A n \in Id : KeepsStatus(n)

Taught(class) ==
    /\ Grows
    /\ failures' = Append(failures, [class |-> class, node |-> current])
    /\ constraints' = constraints + 1
    /\ <<class, current>> \in graph'.edges
    /\ \A n \in Id : n # current => KeepsStatus(n)

StepEffect == Idle \/ Dropped \/ Planned \/ Worked \/ \E class \in FailClass : Taught(class)

(* Choosing a node: it is pending before.                                  *)
LEMMA ChooseEffect ==
    ASSUME graph \in Graph, NEW n \in ReadyNodes(graph), graph' = SetStatus(graph, n, "running"),
           UNCHANGED <<failures, constraints>>
    PROVE  Worked
  <1>1. n \in Id /\ graph.status[n] = "pending"
    BY DEF ReadyNodes, Pending
  <1>2. /\ Grows
        /\ graph'.status = [graph.status EXCEPT ![n] = "running"]
    BY <1>1, SetStatusGraph DEF Grows, Status
  <1>3. graph.status \in [Id -> Status]
    BY DEF Graph
  <1>4. \A m \in Id : KeepsStatus(m)
    BY <1>1, <1>2, <1>3 DEF KeepsStatus
  <1> QED
    BY <1>2, <1>4 DEF Worked

(* Completing the current node.                                            *)
LEMMA CompleteEffect ==
    ASSUME graph \in Graph, NEW n \in Id, NEW next, Complete(n, next)
    PROVE  Worked
  <1>1. /\ Grows
        /\ graph'.status = [graph.status EXCEPT ![n] = "done"]
    BY SetStatusGraph DEF Complete, Grows, Status
  <1>2. graph.status \in [Id -> Status]
    BY DEF Graph
  <1>3. \A m \in Id : KeepsStatus(m)
    BY <1>1, <1>2 DEF KeepsStatus
  <1> QED
    BY <1>1, <1>3 DEF Worked, Complete

LEMMA CompleteNodeEffect == ASSUME TypeInv, CompleteNode PROVE StepEffect
  <1>1. current \in Id /\ graph \in Graph
    BY OrchestratorAssumption DEF CompleteNode, TypeInv, SprintTypeOK, CurrentInGraph
  <1>2. CASE Complete(current, "NODE_TEST") \/ Complete(current, "NODE_REVIEW")
    BY <1>1, <1>2, CompleteEffect DEF StepEffect
  <1>3. ASSUME NEW class \in FailClass, RejectedByCritic(current, class)
        PROVE  Taught(class)
    <2> DEFINE g == SetStatus(graph, current, "done")
    <2>1. /\ g \in Graph
          /\ g.edges = graph.edges
          /\ g.status = [graph.status EXCEPT ![current] = "done"]
          /\ Nodes(graph) \subseteq Nodes(g)
      BY <1>1, SetStatusGraph DEF Status
    <2> HIDE DEF g
    <2>2. graph' = AddEdge(g, class, current)
      BY <1>3 DEF RejectedByCritic, g
    <2>3. /\ graph' \in Graph
          /\ graph'.edges = g.edges \cup {<<class, current>>}
          /\ graph'.status = g.status
          /\ Nodes(graph') = Nodes(g)
      BY <1>1, <2>1, <2>2, AddEdgeGraph
    <2>4. graph.status \in [Id -> Status]
      BY <1>1 DEF Graph
    <2>5. \A n \in Id : n # current => KeepsStatus(n)
      BY <2>1, <2>3, <2>4 DEF KeepsStatus
    <2>6. Grows /\ <<class, current>> \in graph'.edges
      BY <1>1, <2>1, <2>3 DEF Grows
    <2> QED
      BY <1>3, <2>5, <2>6 DEF Taught, RejectedByCritic
  <1> QED
    BY <1>2, <1>3 DEF CompleteNode, StepEffect

(* The graph of a failed node, before it is healed.                        *)
LEMMA FailedGraphEffect ==
    ASSUME graph \in Graph, current \in Id, NEW class \in FailClass
    PROVE  LET g == FailedGraph(current, class) IN
           /\ g \in Graph
           /\ Nodes(graph) \subseteq Nodes(g)
           /\ graph.edges \cup {<<class, current>>} \subseteq g.edges
           /\ \A n \in Id : n # current => g.status[n] = graph.status[n]
  <1>1. graph.status \in [Id -> Status]
    BY DEF Graph
  <1> QED
    BY <1>1, FailedGraphType

LEMMA FailNodeEffect == ASSUME TypeInv, FailNode PROVE StepEffect
  <1>1. current \in Id /\ graph \in Graph
    BY OrchestratorAssumption DEF FailNode, TypeInv, SprintTypeOK, CurrentInGraph
  <1>2. PICK class \in FailClass :
          /\ \E new : RecordFailure(current, class, new)
          /\ graph' = FailedGraph(current, class)
    BY DEF FailNode
  <1>3. Taught(class)
    BY <1>1, <1>2, FailedGraphEffect DEF Taught, Grows, KeepsStatus, RecordFailure
  <1> QED
    BY <1>3 DEF StepEffect

LEMMA HealAndReplanEffect == ASSUME TypeInv, HealAndReplan PROVE StepEffect
  <1>1. graph \in Graph /\ store \in Seq(Constraint) /\ state \in DysonState
    BY DEF HealAndReplan, TypeInv, SprintTypeOK
  <1>2. <<>> \in Seq(Event)
    OBVIOUS
  <1>3. /\ graph' \in Graph
        /\ Nodes(graph) \subseteq Nodes(graph')
        /\ graph.edges \subseteq graph'.edges
        /\ \A n \in Id : KeepsStatus(n)
    BY <1>1, <1>2, HealEffect DEF HealAndReplan, KeepsStatus
  <1> QED
    BY <1>1, <1>3 DEF StepEffect, Worked, Grows, HealAndReplan

LEMMA ExecuteBuilderNodeEffect ==
    ASSUME TypeInv, NEW autoRecover \in BOOLEAN, ExecuteBuilderNode(autoRecover)
    PROVE  StepEffect
  <1>1. current \in Id /\ graph \in Graph /\ store \in Seq(Constraint)
    BY OrchestratorAssumption DEF ExecuteBuilderNode, TypeInv, SprintTypeOK, CurrentInGraph
  <1>2. CASE Complete(current, "NODE_TEST")
    BY <1>1, <1>2, CompleteEffect DEF StepEffect
  <1>3. ASSUME NEW class \in FailClass, NEW cause \in Causes,
               BuilderFails(class, ConstraintOn(current, cause), autoRecover)
        PROVE  Taught(class)
    <2> DEFINE c == ConstraintOn(current, cause)
               g == FailedGraph(current, class)
    <2>1. c \in Constraint
      BY <1>1, ConstraintOnType
    <2> HIDE DEF c
    <2>2. /\ g \in Graph
          /\ Nodes(graph) \subseteq Nodes(g)
          /\ graph.edges \cup {<<class, current>>} \subseteq g.edges
          /\ \A n \in Id : n # current => g.status[n] = graph.status[n]
      BY <1>1, FailedGraphEffect
    <2> HIDE DEF g
    <2>3. CASE graph' = g
      BY <1>1, <1>3, <2>2, <2>3 DEF Taught, Grows, KeepsStatus, BuilderFails, RecordFailure
    <2>4. CASE Heal(g, Append(store, c), "HEALING", FailureEvents(current, <<c>>))
      <3>1. <<c>> \in Seq(Constraint) /\ Append(store, c) \in Seq(Constraint)
        BY <1>1, <2>1
      <3>2. FailureEvents(current, <<c>>) \in Seq(Event)
        BY <1>1, <3>1, FailureEventsType
      <3>3. /\ graph' \in Graph
            /\ Nodes(g) \subseteq Nodes(graph')
            /\ g.edges \subseteq graph'.edges
            /\ \A n \in Id : /\ g.status[n] \in {"running", "done"} => graph'.status[n] = g.status[n]
                             /\ graph'.status[n] = "blocked" => g.status[n] = "blocked"
        BY <2>2, <2>4, <3>1, <3>2, HealEffect DEF DysonState
      <3>4. Grows /\ <<class, current>> \in graph'.edges
        BY <1>1, <2>2, <3>3 DEF Grows
      <3>5. \A n \in Id : n # current => KeepsStatus(n)
        BY <2>2, <3>3 DEF KeepsStatus
      <3> QED
        BY <1>3, <3>4, <3>5 DEF Taught, BuilderFails, RecordFailure
    <2> QED
      BY <1>3, <2>3, <2>4 DEF BuilderFails, c, g
  <1>4. CASE SessionRaises
    BY <1>4 DEF SessionRaises, sprint, StepEffect, Idle
  <1> QED
    BY <1>2, <1>3, <1>4 DEF ExecuteBuilderNode, StepEffect

LEMMA EveryStep == ASSUME TypeInv, [Next]_vars PROVE StepEffect
  <1>1. CASE StartSprint \/ Abort
    BY <1>1 DEF StartSprint, Abort, StepEffect, Dropped
  <1>2. CASE ExecutePlanning
    <2>1. PICK m \in Manifests : graph' = FromManifest(m)
      BY <1>2 DEF ExecutePlanning
    <2>2. graph' \in Graph /\ \A n \in Id : graph'.status[n] # "blocked"
      BY <2>1, FromManifestGraph, OrchestratorAssumption
    <2> QED
      BY <1>2, <2>2 DEF ExecutePlanning, StepEffect, Planned, TypeInv, PlanningHasNoGraph
  <1>3. CASE ExecuteNextNode
    <2>1. graph \in Graph
      BY <1>3 DEF ExecuteNextNode, TypeInv, SprintTypeOK
    <2>2. CASE UNCHANGED <<graph, failures, constraints>>
      BY <2>2 DEF StepEffect, Idle
    <2>3. ASSUME NEW n \in ReadyNodes(graph), graph' = SetStatus(graph, n, "running"),
                 UNCHANGED <<failures, constraints>>
          PROVE  StepEffect
      BY <2>1, <2>3, ChooseEffect DEF StepEffect
    <2> QED
      BY <1>3, <2>2, <2>3 DEF ExecuteNextNode, sprint
  <1>4. CASE RunHarnessAndFinalize \/ FinalizeSprint \/ Pause \/ Resume \/ Proceed \/ UNCHANGED vars
    BY <1>4 DEF RunHarnessAndFinalize, FinalizeSprint, Pause, Resume, Proceed, vars, sprint,
                StepEffect, Idle
  <1> QED
    BY <1>1, <1>2, <1>3, <1>4, CompleteNodeEffect, FailNodeEffect, HealAndReplanEffect,
       ExecuteBuilderNodeEffect DEF Next

-----------------------------------------------------------------------------
(* Within a sprint neither a node nor an edge is ever lost.                *)
THEOREM NothingIsForgotten == Spec => GraphOnlyGrows
  <1>1. TypeInv /\ [Next]_vars =>
            [graph # None /\ graph' # None =>
                Nodes(graph) \subseteq Nodes(graph') /\ graph.edges \subseteq graph'.edges]_vars
    <2> SUFFICES ASSUME TypeInv, [Next]_vars, graph # None, graph' # None
                 PROVE  Nodes(graph) \subseteq Nodes(graph') /\ graph.edges \subseteq graph'.edges
      OBVIOUS
    <2>1. StepEffect
      BY EveryStep
    <2> QED
      BY <2>1 DEF StepEffect, Idle, Dropped, Planned, Worked, Taught, Grows
  <1> QED
    BY <1>1, TypeInvariant, PTL DEF Spec, GraphOnlyGrows

(* The failures after one more is recorded.                                *)
LEMMA TaughtFailures ==
    ASSUME TypeInv, NEW class \in FailClass, Taught(class)
    PROVE  /\ current \in Id
           /\ Len(failures') = Len(failures) + 1
           /\ DOMAIN failures' = DOMAIN failures \cup {Len(failures')}
           /\ \A k \in DOMAIN failures : failures'[k] = failures[k]
           /\ failures'[Len(failures')] = [class |-> class, node |-> current]
  <1>1. failures \in Seq(Failure)
    BY DEF TypeInv, SprintTypeOK
  <1>2. current \in Id
    BY DEF Taught, Grows, Graph
  <1> DEFINE e == [class |-> class, node |-> current]
  <1>3. e \in Failure
    BY <1>2 DEF Failure
  <1> HIDE DEF e
  <1>4. /\ Append(failures, e) \in Seq(Failure)
        /\ Len(Append(failures, e)) = Len(failures) + 1
        /\ \A k \in 1 .. Len(failures) : Append(failures, e)[k] = failures[k]
        /\ Append(failures, e)[Len(failures) + 1] = e
    BY <1>1, <1>3, AppendProperties
  <1>5. failures' = Append(failures, e)
    BY DEF Taught, e
  <1>6. DOMAIN failures = 1 .. Len(failures) /\ DOMAIN failures' = 1 .. Len(failures')
    BY <1>1, <1>4, <1>5
  <1>7. Len(failures) \in Nat
    BY <1>1
  <1>8. 1 .. (Len(failures) + 1) = (1 .. Len(failures)) \cup {Len(failures) + 1}
    BY <1>7
  <1>9. failures'[Len(failures')] = e
    BY <1>4, <1>5
  <1> QED
    BY <1>2, <1>4, <1>5, <1>6, <1>8, <1>9 DEF e

(***************************************************************************)
(* The failures of a sprint and its graph belong together.  By itself      *)
(* inductive once the types are known: a failure and its edge come in one  *)
(* step, and no edge is lost.                                              *)
(***************************************************************************)
LEMMA FailuresAreEdgesStep ==
    ASSUME TypeInv, FailuresAreEdges, [Next]_vars
    PROVE  FailuresAreEdges'
  <1>1. CASE Idle
    BY <1>1 DEF Idle, FailuresAreEdges
  <1>2. CASE Dropped
    BY <1>2 DEF Dropped, FailuresAreEdges
  <1>3. CASE Planned
    <2>1. failures = <<>>
      BY <1>3 DEF Planned, FailuresAreEdges
    <2> QED
      BY <1>3, <2>1 DEF Planned, FailuresAreEdges
  <1>4. CASE Worked
    BY <1>4, OrchestratorAssumption DEF Worked, Grows, FailuresAreEdges
  <1>5. ASSUME NEW class \in FailClass, Taught(class)
        PROVE  FailuresAreEdges'
    <2>1. /\ failures' = Append(failures, [class |-> class, node |-> current])
          /\ constraints' = constraints + 1
          /\ <<class, current>> \in graph'.edges
          /\ graph.edges \subseteq graph'.edges
          /\ graph' # None
      BY <1>5, OrchestratorAssumption DEF Taught, Grows
    <2>2. /\ Len(failures') = Len(failures) + 1
          /\ DOMAIN failures' = DOMAIN failures \cup {Len(failures')}
          /\ \A k \in DOMAIN failures : failures'[k] = failures[k]
          /\ failures'[Len(failures')] = [class |-> class, node |-> current]
      BY <1>5, TaughtFailures
    <2>3. Len(failures') = constraints'
      BY <2>1, <2>2 DEF FailuresAreEdges
    <2>4. ASSUME NEW k \in DOMAIN failures'
          PROVE  <<failures'[k].class, failures'[k].node>> \in graph'.edges
      <3>1. CASE k = Len(failures')
        BY <2>1, <2>2, <3>1
      <3>2. CASE k \in DOMAIN failures
        BY <2>1, <2>2, <3>2 DEF FailuresAreEdges
      <3> QED
        BY <2>2, <3>1, <3>2
    <2> QED
      BY <2>1, <2>3, <2>4 DEF FailuresAreEdges
  <1> QED
    BY <1>1, <1>2, <1>3, <1>4, <1>5, EveryStep DEF StepEffect

(* Every failure is an edge of the graph.                                  *)
THEOREM FailuresAreRemembered == Spec => []FailuresAreEdges
  <1>1. Init => FailuresAreEdges
    BY DEF Init, FailuresAreEdges
  <1>2. TypeInv /\ FailuresAreEdges /\ [Next]_vars => FailuresAreEdges'
    BY FailuresAreEdgesStep
  <1> QED
    BY <1>1, <1>2, TypeInvariant, PTL DEF Spec

-----------------------------------------------------------------------------
(* A node that fails is among the failed ones from then on.                *)
LEMMA FailedNodesGrow ==
    ASSUME TypeInv, NEW class \in FailClass, Taught(class)
    PROVE  FailedNodes' = FailedNodes \cup {current}
  <1>1. /\ DOMAIN failures' = DOMAIN failures \cup {Len(failures')}
        /\ \A k \in DOMAIN failures : failures'[k] = failures[k]
        /\ failures'[Len(failures')] = [class |-> class, node |-> current]
    BY TaughtFailures
  <1>2. Len(failures') \in DOMAIN failures'
    BY <1>1
  <1>3. /\ \A k \in DOMAIN failures : failures'[k].node = failures[k].node
        /\ failures'[Len(failures')].node = current
    BY <1>1
  <1>4. FailedNodes' \subseteq FailedNodes \cup {current}
    BY <1>1, <1>3 DEF FailedNodes
  <1>5. FailedNodes \cup {current} \subseteq FailedNodes'
    BY <1>1, <1>2, <1>3 DEF FailedNodes
  <1> QED
    BY <1>4, <1>5

(* A finished node is undone only by a failure of its own.                 *)
THEOREM DoneStaysDone == Spec => DoneIsUndoneOnlyByFailure
  <1>1. TypeInv /\ [Next]_vars =>
            [graph # None /\ graph' # None =>
                \A n \in Id : graph.status[n] = "done" /\ graph'.status[n] # "done"
                                  => n \in FailedNodes']_vars
    <2> SUFFICES ASSUME TypeInv, [Next]_vars, graph # None, graph' # None,
                        NEW n \in Id, graph.status[n] = "done", graph'.status[n] # "done"
                 PROVE  n \in FailedNodes'
      OBVIOUS
    <2>1. StepEffect
      BY EveryStep
    <2>2. PICK class \in FailClass : Taught(class)
      BY <2>1 DEF StepEffect, Idle, Dropped, Planned, Worked, KeepsStatus
    <2>3. n = current
      BY <2>2 DEF Taught, KeepsStatus
    <2> QED
      BY <2>2, <2>3, FailedNodesGrow
  <1> QED
    BY <1>1, TypeInvariant, PTL DEF Spec, DoneIsUndoneOnlyByFailure

-----------------------------------------------------------------------------
(***************************************************************************)
(* A node that appears within a sprint.  FirstWaits is what                *)
(* OnlyTheFirstAskerWaits says of it, for a graph g, the graph h it grows  *)
(* into, the log and the failures on record.                               *)
(***************************************************************************)
PathBlocked(log, d, n) ==
    \E i \in DOMAIN log : log[i] = [type |-> "path_blocked", dependency |-> d, blocked |-> n]

FailedBy(fs, d, n) == \E i \in DOMAIN fs : fs[i] = [class |-> d, node |-> n]

FirstWaits(g, h, log, fs, d) ==
    \E k \in DOMAIN log :
        /\ FirstAsks(log, k, d)
        /\ log[k].blocked \in Nodes(g) => <<d, log[k].blocked>> \in h.edges
        /\ \A n \in Id : <<d, n>> \in h.edges \ g.edges =>
              n = log[k].blocked \/ PathBlocked(log, d, n) \/ FailedBy(fs, d, n)

(* The edges of g that are not edges of the graph before are failures.     *)
TaughtBy(b, g, fs) ==
    \A d, n \in Id : <<d, n>> \in g.edges \ b.edges => FailedBy(fs, d, n)

(* What the loop of replan does with a new node.                           *)
LEMMA AddedByTheLog ==
    ASSUME NEW g \in Graph, NEW log \in Seq(Constraint), NEW h, h = ApplyConstraints(g, log),
           NEW d \in Nodes(h), d \notin Nodes(g)
    PROVE  \E k \in DOMAIN log :
              /\ FirstAsks(log, k, d)
              /\ log[k].blocked \in Nodes(g) => <<d, log[k].blocked>> \in h.edges
              /\ \A n \in Id : <<d, n>> \in h.edges \ g.edges =>
                    n = log[k].blocked \/ PathBlocked(log, d, n)
  <1>1. h = AtOnce(g, log)
    BY LoopIsAtOnce
  <1>2. d \in Id /\ h.status[d] = (IF Inserted(g, log, d) \/ Resets(g, log, d)
                                   THEN "pending" ELSE g.status[d])
    BY <1>1 DEF AtOnce, Nodes
  <1>3. ~Resets(g, log, d)
    BY <1>2 DEF Resets, Nodes
  <1>4. Inserted(g, log, d)
    BY <1>2, <1>3 DEF Nodes
  <1>5. PICK k \in DOMAIN log : Inserts(g, log, k) /\ DepNode[log[k].dependency] = d
    BY <1>4 DEF Inserted
  <1>6. FirstAsks(log, k, d)
    <2>1. d \notin NodesAfter(g, log, k - 1) /\ log[k].type = "missing_dep"
      BY <1>5 DEF Inserts
    <2>2. \A i \in 1 .. k - 1 : log[i].type = "missing_dep" => DepNode[log[i].dependency] # d
      BY <2>1 DEF NodesAfter, MissingDeps
    <2> QED
      BY <1>5, <2>1, <2>2 DEF FirstAsks
  <1>7. h.edges = g.edges \cup ConstraintEdges(g, log)
    BY <1>1 DEF AtOnce
  <1>8. ASSUME log[k].blocked \in Nodes(g)
        PROVE  <<d, log[k].blocked>> \in h.edges
    <2>1. log[k].blocked \in Id /\ log[k].blocked \in NodesAfter(g, log, k)
      BY <1>8 DEF Nodes, NodesAfter
    <2>2. PICK e : e = <<d, log[k].blocked>>
      OBVIOUS
    <2>3. e \in Id \X Id /\ e[1] = d /\ e[2] = log[k].blocked
      BY <1>2, <2>1, <2>2
    <2>4. e \in ConstraintEdges(g, log)
      BY <1>5, <2>1, <2>3 DEF ConstraintEdges
    <2> QED
      BY <1>7, <2>2, <2>4
  <1>9. ASSUME NEW n \in Id, <<d, n>> \in h.edges \ g.edges
        PROVE  n = log[k].blocked \/ PathBlocked(log, d, n)
    <2>1. <<d, n>> \in ConstraintEdges(g, log)
      BY <1>7, <1>9
    <2>2. PICK i \in DOMAIN log :
              /\ n = log[i].blocked
              /\ \/ Inserts(g, log, i) /\ d = DepNode[log[i].dependency]
                 \/ log[i].type = "path_blocked" /\ d = log[i].dependency
      BY <2>1 DEF ConstraintEdges
    <2>3. CASE Inserts(g, log, i) /\ d = DepNode[log[i].dependency]
      <3>1. i = k
        BY <1>5, <2>3, InsertedOnce
      <3> QED
        BY <2>2, <3>1
    <2>4. CASE log[i].type = "path_blocked" /\ d = log[i].dependency
      <3>1. log[i] \in Constraint
        OBVIOUS
      <3>2. log[i] = [type |-> log[i].type, blocked |-> log[i].blocked,
                      dependency |-> log[i].dependency]
        BY <3>1 DEF Constraint
      <3>3. log[i] = [type |-> "path_blocked", dependency |-> d, blocked |-> n]
        BY <2>2, <2>4, <3>2
      <3> QED
        BY <3>3 DEF PathBlocked
    <2> QED
      BY <2>2, <2>3, <2>4
  <1> QED
    BY <1>6, <1>8, <1>9

(* The same of heal_and_replan on a graph g that a failure may have taught. *)
LEMMA HealWaits ==
    ASSUME NEW b \in Graph, NEW g \in Graph, Nodes(g) = Nodes(b), NEW log \in Seq(Constraint),
           NEW fs, TaughtBy(b, g, fs),
           NEW before, NEW events, Heal(g, log, before, events),
           NEW d \in Nodes(graph'), d \notin Nodes(b)
    PROVE  FirstWaits(b, graph', log, fs, d)
  <1>1. PICK h : h = ApplyConstraints(g, log)
    OBVIOUS
  <1>2. h \in Graph
    BY <1>1, ApplyConstraintsGraph
  <1>3. graph' = h \/ \E n \in Pending(h) : graph' = SetStatus(h, n, "running")
    BY <1>1 DEF Heal
  <1>4. Nodes(graph') = Nodes(h) /\ graph'.edges = h.edges
    <2>1. CASE graph' = h
      BY <2>1
    <2>2. ASSUME NEW n \in Pending(h), graph' = SetStatus(h, n, "running")
          PROVE  Nodes(graph') = Nodes(h) /\ graph'.edges = h.edges
      BY <1>2, <2>2 DEF Pending, SetStatus, Nodes, Graph
    <2> QED
      BY <1>3, <2>1, <2>2
  <1>5. d \in Nodes(h) /\ d \notin Nodes(g) /\ d \in Id
    BY <1>4 DEF Nodes
  <1>6. PICK k \in DOMAIN log :
              /\ FirstAsks(log, k, d)
              /\ log[k].blocked \in Nodes(g) => <<d, log[k].blocked>> \in h.edges
              /\ \A n \in Id : <<d, n>> \in h.edges \ g.edges =>
                    n = log[k].blocked \/ PathBlocked(log, d, n)
    BY <1>1, <1>5, AddedByTheLog
  <1>7. \A n \in Id : <<d, n>> \in h.edges \ b.edges =>
              n = log[k].blocked \/ PathBlocked(log, d, n) \/ FailedBy(fs, d, n)
    BY <1>5, <1>6 DEF TaughtBy
  <1> QED
    BY <1>4, <1>6, <1>7 DEF FirstWaits

(* A node of the graph that gets another status is none more.              *)
LEMMA StatusKeepsNodes ==
    ASSUME NEW g \in Graph, NEW n \in Nodes(g), NEW s
    PROVE  Nodes(SetStatus(g, n, s)) \subseteq Nodes(g)
  BY DEF SetStatus, Nodes, Graph

(* The failed graph has the nodes of the graph and the edge of its failure. *)
LEMMA FailedGraphTeaches ==
    ASSUME graph \in Graph, current \in Nodes(graph), NEW class \in FailClass,
           failures \in Seq(Failure),
           NEW fs, fs = Append(failures, [class |-> class, node |-> current])
    PROVE  /\ Nodes(FailedGraph(current, class)) = Nodes(graph)
           /\ TaughtBy(graph, FailedGraph(current, class), fs)
  <1>1. current \in Id
    BY DEF Nodes
  <1>2. /\ FailedGraph(current, class).edges = graph.edges \cup {<<class, current>>}
        /\ FailedGraph(current, class).status = [graph.status EXCEPT ![current] = "blocked"]
    BY <1>1, FailedGraphType
  <1>3. Nodes(FailedGraph(current, class)) = Nodes(graph)
    BY <1>1, <1>2 DEF Nodes, Graph
  <1>4. \E i \in DOMAIN fs : fs[i] = [class |-> class, node |-> current]
    <2>1. [class |-> class, node |-> current] \in Failure
      BY <1>1 DEF Failure
    <2>2. /\ Len(fs) = Len(failures) + 1 /\ fs \in Seq(Failure)
          /\ fs[Len(failures) + 1] = [class |-> class, node |-> current]
      BY <2>1, AppendProperties
    <2>3. Len(failures) + 1 \in DOMAIN fs
      BY <2>2, LenProperties
    <2> QED
      BY <2>2, <2>3
  <1>5. ASSUME NEW d \in Id, NEW n \in Id,
               <<d, n>> \in FailedGraph(current, class).edges \ graph.edges
        PROVE  FailedBy(fs, d, n)
    <2>1. d = class /\ n = current
      BY <1>2, <1>5
    <2> QED
      BY <1>4, <2>1 DEF FailedBy
  <1> QED
    BY <1>3, <1>5 DEF TaughtBy

(* Every step: a call that heals, or one that adds no node.                *)
LEMMA FirstWaitsStep ==
    ASSUME TypeInv, [Next]_vars, graph # None, graph' # None,
           NEW d \in Nodes(graph'), d \notin Nodes(graph)
    PROVE  FirstWaits(graph, graph', store', failures', d)
  <1>1. /\ graph \in Graph /\ store \in Seq(Constraint) /\ failures \in Seq(Failure)
        /\ current # None => current \in Nodes(graph) /\ current \in Id
    BY DEF TypeInv, SprintTypeOK, CurrentInGraph, Nodes
  <1>2. CASE HealAndReplan
    <2>1. /\ Heal(graph, store, state, <<>>) /\ store' = store /\ failures' = failures
      BY <1>2 DEF HealAndReplan
    <2>2. TaughtBy(graph, graph, failures)
      BY DEF TaughtBy
    <2>3. FirstWaits(graph, graph', store, failures, d)
      BY <1>1, <2>1, <2>2, HealWaits
    <2> QED
      BY <2>1, <2>3
  <1>3. ASSUME NEW autoRecover \in BOOLEAN, ExecuteBuilderNode(autoRecover)
        PROVE  FirstWaits(graph, graph', store', failures', d)
    <2>1. current \in Nodes(graph) /\ current \in Id
      BY <1>1, <1>3 DEF ExecuteBuilderNode
    <2>2. CASE Complete(current, "NODE_TEST")
      BY <1>1, <2>1, <2>2, StatusKeepsNodes DEF Complete
    <2>3. CASE SessionRaises
      BY <2>3 DEF SessionRaises, sprint
    <2>4. ASSUME NEW class \in FailClass, NEW cause \in Causes,
                 BuilderFails(class, ConstraintOn(current, cause), autoRecover)
          PROVE  FirstWaits(graph, graph', store', failures', d)
      <3>1. PICK c \in Constraint : c = ConstraintOn(current, cause)
        BY <2>1, ConstraintOnType
      <3>2. /\ failures' = Append(failures, [class |-> class, node |-> current])
            /\ store' = store \o <<c>>
        BY <2>4, <3>1 DEF BuilderFails, RecordFailure
      <3>3. store' = Append(store, c) /\ Append(store, c) \in Seq(Constraint)
        BY <1>1, <3>2
      <3>4. PICK g : g = FailedGraph(current, class)
        OBVIOUS
      <3>5. g \in Graph /\ Nodes(g) = Nodes(graph) /\ TaughtBy(graph, g, failures')
        BY <1>1, <2>1, <3>2, <3>4, FailedGraphType, FailedGraphTeaches
      <3>6. CASE graph' = g
        BY <3>5, <3>6
      <3>7. CASE Heal(g, Append(store, c), "HEALING", FailureEvents(current, <<c>>))
        BY <1>1, <3>3, <3>5, <3>7, HealWaits
      <3> QED
        BY <2>4, <3>1, <3>4, <3>6, <3>7 DEF BuilderFails
    <2> QED
      BY <1>3, <2>2, <2>3, <2>4 DEF ExecuteBuilderNode
  <1>4. CASE StartSprint \/ ExecutePlanning \/ Abort
    BY <1>4 DEF StartSprint, ExecutePlanning, Abort, TypeInv, PlanningHasNoGraph
  <1>5. CASE ExecuteNextNode
    <2>1. UNCHANGED graph \/ \E n \in ReadyNodes(graph) : graph' = SetStatus(graph, n, "running")
      BY <1>5 DEF ExecuteNextNode, sprint
    <2>2. ReadyNodes(graph) \subseteq Nodes(graph)
      BY DEF ReadyNodes, Pending, Nodes
    <2> QED
      BY <1>1, <2>1, <2>2, StatusKeepsNodes
  <1>6. CASE CompleteNode
    <2>1. current \in Nodes(graph) /\ current \in Id
      BY <1>1, <1>6 DEF CompleteNode
    <2>2. PICK g : g = SetStatus(graph, current, "done")
      OBVIOUS
    <2>3. g \in Graph /\ Nodes(g) \subseteq Nodes(graph)
      BY <1>1, <2>1, <2>2, SetStatusGraph, StatusKeepsNodes DEF Status
    <2>4. graph' = g \/ \E class \in FailClass : graph' = AddEdge(g, class, current)
      BY <1>6, <2>2 DEF CompleteNode, Complete, RejectedByCritic
    <2> QED
      BY <2>1, <2>3, <2>4, AddEdgeGraph
  <1>7. CASE FailNode
    <2>1. current \in Nodes(graph) /\ current \in Id
      BY <1>1, <1>7 DEF FailNode
    <2>2. PICK class \in FailClass : graph' = FailedGraph(current, class)
      BY <1>7 DEF FailNode
    <2>3. Nodes(graph') = Nodes(graph)
      BY <1>1, <2>1, <2>2, FailedGraphTeaches
    <2> QED
      BY <2>3
  <1>8. CASE RunHarnessAndFinalize \/ FinalizeSprint \/ Pause \/ Resume \/ Proceed \/ UNCHANGED vars
    BY <1>8 DEF RunHarnessAndFinalize, FinalizeSprint, Pause, Resume, Proceed, vars, sprint
  <1> QED
    BY <1>2, <1>3, <1>4, <1>5, <1>6, <1>7, <1>8 DEF Next

(* What a new node keeps waiting: the node that the first entry of the log *)
(* blocked, and besides it only what a blocked path or a failure of the    *)
(* same name tells to wait, for every order of the calls and every log.    *)
THEOREM OnlyTheFirstWaits == Spec => OnlyTheFirstAskerWaits
  <1>1. TypeInv /\ [Next]_vars =>
          [graph # None /\ graph' # None =>
            \A d \in Nodes(graph') \ Nodes(graph) : \E k \in DOMAIN store' :
              /\ FirstAsks(store', k, d)
              /\ store'[k].blocked \in Nodes(graph) => <<d, store'[k].blocked>> \in graph'.edges
              /\ \A n \in Id : <<d, n>> \in graph'.edges \ graph.edges =>
                    \/ n = store'[k].blocked
                    \/ \E i \in DOMAIN store' : store'[i] = [type |-> "path_blocked",
                                                           dependency |-> d, blocked |-> n]
                    \/ \E i \in DOMAIN failures' : failures'[i] = [class |-> d, node |-> n]]_vars
    <2> SUFFICES ASSUME TypeInv, [Next]_vars, graph # None, graph' # None,
                        NEW d \in Nodes(graph') \ Nodes(graph)
                 PROVE  FirstWaits(graph, graph', store', failures', d)
      BY Zenon DEF FirstWaits, PathBlocked, FailedBy
    <2> QED
      BY FirstWaitsStep
  <1> QED
    BY <1>1, TypeInvariant, PTL DEF Spec, OnlyTheFirstAskerWaits

-----------------------------------------------------------------------------
(***************************************************************************)
(* What any step does to the state, in five kinds: it stays, on a graph    *)
(* that keeps what is running or done; it hands out a ready node; it       *)
(* finishes the current node; it turns to healing, with a failure on       *)
(* record; or it goes to a state that speaks of no node.                   *)
(***************************************************************************)
NodeState == {"NODE_READY", "NODE_REVIEW", "NODE_TEST", "HEALING"}

Stays ==
    /\ UNCHANGED <<state, current, failures>>
    /\ \/ UNCHANGED graph
       \/ \A n \in Id : graph.status[n] \in {"running", "done"} => graph'.status[n] = graph.status[n]

HandsOut(n) ==
    /\ state' = "NODE_READY" /\ n \in ReadyNodes(graph) /\ current' = n
    /\ graph \in Graph /\ graph' = SetStatus(graph, n, "running")
    /\ UNCHANGED failures

Finishes ==
    /\ state' \in {"NODE_REVIEW", "NODE_TEST"} /\ current # None
    /\ UNCHANGED current
    /\ graph \in Graph /\ graph' = SetStatus(graph, current, "done")

Heals == state' = "HEALING" /\ current # None /\ UNCHANGED current /\ failures' # <<>>

StateEffect ==
    Stays \/ (\E n \in Id : HandsOut(n)) \/ Finishes \/ Heals \/ state' \notin NodeState

LEMMA NextNodeStateEffect == ASSUME TypeInv, ExecuteNextNode PROVE StateEffect
  <1>1. graph \in Graph
    BY DEF ExecuteNextNode, TypeInv, SprintTypeOK
  <1>2. CASE UNCHANGED sprint
    BY <1>2 DEF sprint, StateEffect, Stays
  <1>3. CASE state' = "DONE_GATE"
    BY <1>3 DEF StateEffect, NodeState
  <1>4. ASSUME NEW n \in ReadyNodes(graph), graph' = SetStatus(graph, n, "running"), current' = n,
               state' = "NODE_READY", UNCHANGED failures
        PROVE  StateEffect
    BY <1>1, <1>4 DEF StateEffect, HandsOut, ReadyNodes, Pending
  <1> QED
    BY <1>2, <1>3, <1>4 DEF ExecuteNextNode

(* Recording a failure leaves a failure on record.                         *)
LEMMA RecordedFailure ==
    ASSUME TypeInv, NEW n \in Id, NEW class \in FailClass, NEW new, RecordFailure(n, class, new)
    PROVE  failures' # <<>>
  <1>1. failures \in Seq(Failure) /\ [class |-> class, node |-> n] \in Failure
    BY DEF TypeInv, SprintTypeOK, Failure
  <1> QED
    BY <1>1, AppendProperties DEF RecordFailure

LEMMA CompleteNodeStateEffect == ASSUME TypeInv, CompleteNode PROVE StateEffect
  <1>1. current \in Id /\ current # None /\ graph \in Graph
    BY OrchestratorAssumption DEF CompleteNode, TypeInv, SprintTypeOK, CurrentInGraph
  <1>2. CASE Complete(current, "NODE_TEST") \/ Complete(current, "NODE_REVIEW")
    BY <1>1, <1>2 DEF Complete, StateEffect, Finishes
  <1>3. ASSUME NEW class \in FailClass, RejectedByCritic(current, class)
        PROVE  Heals
    <2>1. failures \in Seq(Failure) /\ [class |-> class, node |-> current] \in Failure
      BY <1>1 DEF TypeInv, SprintTypeOK, Failure
    <2>2. failures' # <<>>
      BY <1>3, <2>1, AppendProperties DEF RejectedByCritic
    <2> QED
      BY <1>1, <1>3, <2>2 DEF RejectedByCritic, Heals
  <1> QED
    BY <1>2, <1>3 DEF CompleteNode, StateEffect

LEMMA FailNodeStateEffect == ASSUME TypeInv, FailNode PROVE StateEffect
  <1>1. current \in Id /\ current # None
    BY DEF FailNode, TypeInv, SprintTypeOK
  <1>2. PICK class \in FailClass : \E new : RecordFailure(current, class, new)
    BY DEF FailNode
  <1>3. failures' # <<>>
    BY <1>1, <1>2, RecordedFailure
  <1> QED
    BY <1>1, <1>3 DEF FailNode, StateEffect, Heals

LEMMA HealAndReplanStateEffect == ASSUME TypeInv, HealAndReplan PROVE StateEffect
  <1>1. graph \in Graph /\ store \in Seq(Constraint) /\ state \in DysonState
    BY DEF HealAndReplan, TypeInv, SprintTypeOK
  <1>2. <<>> \in Seq(Event)
    OBVIOUS
  <1>3. \A n \in Id : graph.status[n] \in {"running", "done"} => graph'.status[n] = graph.status[n]
    BY <1>1, <1>2, HealEffect DEF HealAndReplan
  <1>4. \/ state' = state /\ current' = current
        \/ state' \in {"HUMAN_GATE", "EXECUTING"}
    BY <1>1, <1>2, HealEffect DEF HealAndReplan
  <1> QED
    BY <1>3, <1>4 DEF HealAndReplan, StateEffect, Stays, NodeState

LEMMA BuilderStateEffect ==
    ASSUME TypeInv, NEW autoRecover \in BOOLEAN, ExecuteBuilderNode(autoRecover)
    PROVE  StateEffect
  <1>1. current \in Id /\ current # None /\ graph \in Graph /\ store \in Seq(Constraint)
    BY OrchestratorAssumption DEF ExecuteBuilderNode, TypeInv, SprintTypeOK, CurrentInGraph
  <1>2. CASE Complete(current, "NODE_TEST")
    BY <1>1, <1>2 DEF Complete, StateEffect, Finishes
  <1>3. ASSUME NEW class \in FailClass, NEW cause \in Causes,
               BuilderFails(class, ConstraintOn(current, cause), autoRecover)
        PROVE  StateEffect
    <2> DEFINE c == ConstraintOn(current, cause)
               g == FailedGraph(current, class)
    <2>1. failures' # <<>>
      BY <1>1, <1>3, RecordedFailure DEF BuilderFails
    <2>2. c \in Constraint
      BY <1>1, ConstraintOnType
    <2>3. g \in Graph
      BY <1>1, FailedGraphEffect
    <2> HIDE DEF c, g
    <2>4. CASE state' = "HEALING" /\ UNCHANGED current
      BY <1>1, <2>1, <2>4 DEF StateEffect, Heals
    <2>5. CASE Heal(g, Append(store, c), "HEALING", FailureEvents(current, <<c>>))
      <3>1. <<c>> \in Seq(Constraint) /\ Append(store, c) \in Seq(Constraint)
        BY <1>1, <2>2
      <3>2. FailureEvents(current, <<c>>) \in Seq(Event)
        BY <1>1, <3>1, FailureEventsType
      <3>3. \/ state' = "HEALING" /\ current' = current
            \/ state' \in {"HUMAN_GATE", "EXECUTING"}
        BY <2>3, <2>5, <3>1, <3>2, HealEffect DEF DysonState
      <3> QED
        BY <2>4, <3>3 DEF StateEffect, NodeState
    <2> QED
      BY <1>3, <2>4, <2>5 DEF BuilderFails, c, g
  <1>4. CASE SessionRaises
    BY <1>4 DEF SessionRaises, sprint, StateEffect, Stays
  <1> QED
    BY <1>2, <1>3, <1>4 DEF ExecuteBuilderNode

LEMMA EveryStateStep == ASSUME TypeInv, [Next]_vars PROVE StateEffect
  <1>1. CASE StartSprint \/ ExecutePlanning \/ RunHarnessAndFinalize \/ FinalizeSprint \/ Abort
    BY <1>1 DEF StartSprint, ExecutePlanning, RunHarnessAndFinalize, FinalizeSprint, Abort,
                StateEffect, NodeState
  <1>2. CASE Pause \/ Resume \/ Proceed \/ UNCHANGED vars
    BY <1>2 DEF Pause, Resume, Proceed, vars, sprint, StateEffect, Stays, NodeState
  <1> QED
    BY <1>1, <1>2, NextNodeStateEffect, CompleteNodeStateEffect, FailNodeStateEffect,
       HealAndReplanStateEffect, BuilderStateEffect DEF Next

-----------------------------------------------------------------------------
(***************************************************************************)
(* The states that speak of a node have one, and its past is theirs.  By   *)
(* itself inductive: a call that leaves the state as it is changes no      *)
(* status that the state tells of, although healing may then be under way. *)
(***************************************************************************)
LEMMA ActiveNodeStep ==
    ASSUME TypeInv, TypeInv', ActiveNodeIsKnown, StateEffect
    PROVE  ActiveNodeIsKnown'
  <1>0. (current # None => graph # None /\ current \in Nodes(graph))'
    BY DEF TypeInv, CurrentInGraph
  <1>1. CASE Stays
    <2>1. current # None => current \in Id
      BY DEF TypeInv, SprintTypeOK
    <2> QED
      BY <1>0, <1>1, <2>1 DEF Stays, ActiveNodeIsKnown
  <1>2. ASSUME NEW n \in Id, HandsOut(n)
        PROVE  ActiveNodeIsKnown'
    <2>1. graph'.status[n] = "running"
      BY <1>2 DEF HandsOut, SetStatus, Graph
    <2>2. n # None
      BY OrchestratorAssumption
    <2> QED
      BY <1>0, <1>2, <2>1, <2>2 DEF HandsOut, ActiveNodeIsKnown
  <1>3. CASE Finishes
    <2>1. current \in Id
      BY <1>3 DEF Finishes, TypeInv, SprintTypeOK
    <2>2. graph'.status[current] = "done"
      BY <1>3, <2>1 DEF Finishes, SetStatus, Graph
    <2> QED
      BY <1>0, <1>3, <2>2 DEF Finishes, ActiveNodeIsKnown
  <1>4. CASE Heals
    BY <1>0, <1>4 DEF Heals, ActiveNodeIsKnown
  <1>5. CASE state' \notin NodeState
    BY <1>0, <1>5 DEF NodeState, ActiveNodeIsKnown
  <1> QED
    BY <1>1, <1>2, <1>3, <1>4, <1>5 DEF StateEffect

(* Whatever the order of the calls, a state that speaks of a node has it.  *)
THEOREM ActiveNodeKnown == Spec => []ActiveNodeIsKnown
  <1>1. Init => ActiveNodeIsKnown
    BY DEF Init, ActiveNodeIsKnown
  <1>2. TypeInv /\ TypeInv' /\ ActiveNodeIsKnown /\ [Next]_vars => ActiveNodeIsKnown'
    BY EveryStateStep, ActiveNodeStep
  <1> QED
    BY <1>1, <1>2, TypeInvariant, PTL DEF Spec

-----------------------------------------------------------------------------
(***************************************************************************)
(* A failed node waits for its class.  The blocked nodes are among the     *)
(* failed ones by induction; that a ready node's classes are done follows  *)
(* from the edges of its failures in any one state; and a node that was    *)
(* handed out keeps it, because what is done stays done until it fails.    *)
(***************************************************************************)
BlockedHaveFailed ==
    graph # None => \A n \in Id : graph.status[n] = "blocked" => n \in FailedNodes

ClassIsDone(k) == failures[k].class \in Id /\ graph.status[failures[k].class] = "done"

HandedOutIsCleared ==
    state = "NODE_READY" => \A k \in DOMAIN failures : failures[k].node = current => ClassIsDone(k)

LEMMA BlockedHaveFailedStep ==
    ASSUME TypeInv, BlockedHaveFailed, [Next]_vars
    PROVE  BlockedHaveFailed'
  <1>1. CASE Idle
    BY <1>1 DEF Idle, BlockedHaveFailed, FailedNodes
  <1>2. CASE Dropped \/ Planned
    BY <1>2 DEF Dropped, Planned, BlockedHaveFailed
  <1>3. CASE Worked
    <2>1. FailedNodes' = FailedNodes /\ graph # None
      BY <1>3, OrchestratorAssumption DEF Worked, Grows, FailedNodes
    <2> QED
      BY <1>3, <2>1 DEF Worked, KeepsStatus, BlockedHaveFailed
  <1>4. ASSUME NEW class \in FailClass, Taught(class)
        PROVE  BlockedHaveFailed'
    <2>1. FailedNodes' = FailedNodes \cup {current} /\ graph # None
      BY <1>4, FailedNodesGrow, OrchestratorAssumption DEF Taught, Grows
    <2> QED
      BY <1>4, <2>1 DEF Taught, KeepsStatus, BlockedHaveFailed
  <1> QED
    BY <1>1, <1>2, <1>3, <1>4, EveryStep DEF StepEffect

(* A ready node that has failed: its class is a node, and done.            *)
LEMMA ReadyIsCleared ==
    ASSUME TypeInv, FailuresAreEdges, graph # None,
           NEW k \in DOMAIN failures, failures[k].node \in ReadyNodes(graph)
    PROVE  ClassIsDone(k)
  <1>1. graph \in Graph /\ failures \in Seq(Failure)
    BY DEF TypeInv, SprintTypeOK
  <1>2. failures[k] \in Failure
    BY <1>1
  <1>3. failures[k].class \in Id \cup FailClass
    BY <1>2 DEF Failure
  <1>4. <<failures[k].class, failures[k].node>> \in graph.edges
    BY DEF FailuresAreEdges
  <1> QED
    BY <1>1, <1>3, <1>4, ReadySources DEF ClassIsDone

LEMMA HandedOutStep ==
    ASSUME TypeInv, TypeInv', FailuresAreEdges, HandedOutIsCleared, ActiveNodeIsKnown, StateEffect
    PROVE  HandedOutIsCleared'
  <1>1. CASE Stays
    BY <1>1 DEF Stays, HandedOutIsCleared, ClassIsDone
  <1>2. ASSUME NEW n \in Id, HandsOut(n)
        PROVE  HandedOutIsCleared'
    <2> SUFFICES ASSUME NEW k \in DOMAIN failures, failures[k].node = n
                 PROVE  ClassIsDone(k)'
      BY <1>2 DEF HandsOut, HandedOutIsCleared
    <2>1. ClassIsDone(k)
      BY <1>2, ReadyIsCleared, OrchestratorAssumption DEF HandsOut
    <2>2. graph.status[n] = "pending"
      BY <1>2 DEF HandsOut, ReadyNodes, Pending
    <2>3. \A m \in Id : m # n => graph'.status[m] = graph.status[m]
      BY <1>2 DEF HandsOut, SetStatus, Graph
    <2> QED
      BY <1>2, <2>1, <2>2, <2>3 DEF HandsOut, ClassIsDone
  <1> QED
    BY <1>1, <1>2 DEF StateEffect, Finishes, Heals, NodeState, HandedOutIsCleared

(* A node that has failed is not ready, and not handed out, before its     *)
(* class is a finished node.                                               *)
THEOREM FailedWaits == Spec => []FailedWaitsForItsClass
  <1>1. Init => BlockedHaveFailed /\ HandedOutIsCleared
    BY DEF Init, BlockedHaveFailed, HandedOutIsCleared
  <1>2. TypeInv /\ BlockedHaveFailed /\ [Next]_vars => BlockedHaveFailed'
    BY BlockedHaveFailedStep
  <1>3. /\ TypeInv /\ TypeInv' /\ FailuresAreEdges /\ ActiveNodeIsKnown
        /\ HandedOutIsCleared /\ [Next]_vars
        => HandedOutIsCleared'
    BY EveryStateStep, HandedOutStep
  <1>4. TypeInv /\ FailuresAreEdges /\ BlockedHaveFailed /\ HandedOutIsCleared
            => FailedWaitsForItsClass
    BY ReadyIsCleared DEF BlockedHaveFailed, HandedOutIsCleared, ClassIsDone, FailedWaitsForItsClass
  <1> QED
    BY <1>1, <1>2, <1>3, <1>4, TypeInvariant, FailuresAreRemembered, ActiveNodeKnown, PTL DEF Spec

-----------------------------------------------------------------------------
(***************************************************************************)
(* A sprint ends only when it is judged.  A score is one of Scores, which  *)
(* is what keeps None apart from the scores that open the gates.           *)
(***************************************************************************)
LEMMA VerdictOfScore ==
    ASSUME NEW s \in Scores
    PROVE  /\ GateVerdict(s) \in DoneVerdict /\ LegacyVerdict(s) \in DoneVerdict
           /\ GateVerdict(s) \in {"DONE", "PARTIAL"} => s.gates /\ s.total >= 70
           /\ LegacyVerdict(s) \in {"DONE", "PARTIAL"} => s.gates /\ s.total >= 70
  <1>1. s.gates \in BOOLEAN /\ s.total \in 0 .. 100
    BY OrchestratorAssumption
  <1> QED
    BY <1>1 DEF GateVerdict, LegacyVerdict, DoneVerdict

LEMMA EndedStep ==
    ASSUME TypeInv, EndedSprintIsJudged, [Next]_vars
    PROVE  EndedSprintIsJudged'
  <1>1. CASE StartSprint \/ Abort
    BY <1>1, OrchestratorAssumption DEF StartSprint, Abort, EndedSprintIsJudged, DoneVerdict
  <1>2. CASE RunHarnessAndFinalize
    <2>1. PICK s \in Scores :
              /\ score' = s /\ verdict' = GateVerdict(s)
              /\ state' = IF GateVerdict(s) = "BLOCKED" THEN "BLOCKED" ELSE "SPRINT_DONE"
      BY <1>2 DEF RunHarnessAndFinalize
    <2>2. /\ score' # None /\ verdict' # None
          /\ verdict' \in {"DONE", "PARTIAL"} => score'.gates /\ score'.total >= 70
      BY <2>1, VerdictOfScore, OrchestratorAssumption DEF DoneVerdict
    <2> QED
      BY <2>1, <2>2 DEF EndedSprintIsJudged
  <1>3. CASE FinalizeSprint
    <2>1. score \in Scores /\ score # None
      BY <1>3 DEF FinalizeSprint, TypeInv, SprintTypeOK
    <2>2. /\ verdict' # None
          /\ verdict' \in {"DONE", "PARTIAL"} => score.gates /\ score.total >= 70
      BY <1>3, <2>1, VerdictOfScore, OrchestratorAssumption DEF FinalizeSprint, DoneVerdict
    <2> QED
      BY <1>3, <2>1, <2>2 DEF FinalizeSprint, EndedSprintIsJudged
  <1>4. ASSUME UNCHANGED <<score, verdict>>,
               state' \in {"SPRINT_DONE", "BLOCKED"} => state' = state
        PROVE  EndedSprintIsJudged'
    BY <1>4 DEF EndedSprintIsJudged
  <1>5. CASE HealAndReplan
    <2>1. graph \in Graph /\ store \in Seq(Constraint) /\ state \in DysonState
      BY <1>5 DEF HealAndReplan, TypeInv, SprintTypeOK
    <2>2. <<>> \in Seq(Event)
      OBVIOUS
    <2>3. state' = state \/ state' \in {"HUMAN_GATE", "EXECUTING"}
      BY <1>5, <2>1, <2>2, HealEffect DEF HealAndReplan
    <2> QED
      BY <1>4, <1>5, <2>3 DEF HealAndReplan
  <1>6. ASSUME NEW autoRecover \in BOOLEAN, ExecuteBuilderNode(autoRecover)
        PROVE  EndedSprintIsJudged'
    <2>1. UNCHANGED <<score, verdict>>
      BY <1>6 DEF ExecuteBuilderNode, Complete, SessionRaises, sprint, BuilderFails
    <2>2. state' = state \/ state' \notin {"SPRINT_DONE", "BLOCKED"}
      BY <1>6 DEF ExecuteBuilderNode, Complete, SessionRaises, sprint, BuilderFails, Heal
    <2> QED
      BY <1>4, <2>1, <2>2
  <1>7. CASE ExecutePlanning \/ ExecuteNextNode \/ CompleteNode \/ FailNode
    <2>1. UNCHANGED <<score, verdict>>
      BY <1>7 DEF ExecutePlanning, ExecuteNextNode, sprint, CompleteNode, Complete,
                  RejectedByCritic, FailNode
    <2>2. state' = state \/ state' \notin {"SPRINT_DONE", "BLOCKED"}
      BY <1>7 DEF ExecutePlanning, ExecuteNextNode, sprint, CompleteNode, Complete,
                  RejectedByCritic, FailNode
    <2> QED
      BY <1>4, <2>1, <2>2
  <1>8. CASE Pause \/ Resume \/ Proceed \/ UNCHANGED vars
    <2>1. UNCHANGED <<score, verdict>> /\ (state' = state \/ state' = "EXECUTING")
      BY <1>8 DEF Pause, Resume, Proceed, vars, sprint
    <2> QED
      BY <1>4, <2>1
  <1> QED
    BY <1>1, <1>2, <1>3, <1>5, <1>6, <1>7, <1>8 DEF Next

(* No order of the calls ends a sprint that was never measured, or lifts   *)
(* its verdict above BLOCKED past a closed hard gate.                      *)
THEOREM EndedIsJudged == Spec => []EndedSprintIsJudged
  <1>1. Init => EndedSprintIsJudged
    BY OrchestratorAssumption DEF Init, EndedSprintIsJudged, DoneVerdict
  <1>2. TypeInv /\ EndedSprintIsJudged /\ [Next]_vars => EndedSprintIsJudged'
    BY EndedStep
  <1> QED
    BY <1>1, <1>2, TypeInvariant, PTL DEF Spec
-----------------------------------------------------------------------------
(* A kernel call of the bridge emits at most four events, which the mirror *)
(* takes one after the other.                                              *)
LEMMA EventsInOrder ==
    ASSUME NEW m, NEW es \in Seq(Event), Len(es) <= 4
    PROVE  /\ Len(es) = 0 => ApplyEvents(m, es) = m
           /\ Len(es) = 1 => ApplyEvents(m, es) = Apply(m, es[1])
           /\ Len(es) = 2 => ApplyEvents(m, es) = Apply(Apply(m, es[1]), es[2])
           /\ Len(es) = 4 => ApplyEvents(m, es) =
                 Apply(Apply(Apply(Apply(m, es[1]), es[2]), es[3]), es[4])
  <1>1. Len(es) \in 0 .. 4
    <2>1. es \in Seq(Event) /\ Len(es) <= 4
      OBVIOUS
    <2>2. Len(es) \in Nat
      BY <2>1, LenProperties
    <2>3. \A k \in Nat : k <= 4 => k \in 0 .. 4
      OBVIOUS
    <2> QED
      BY <2>1, <2>2, <2>3
  <1> DEFINE one == Apply(m, es[1])
             two == Apply(one, es[2])
             three == Apply(two, es[3])
             four == Apply(three, es[4])
             taken == [k \in 0 .. Len(es) |-> IF k = 0 THEN m ELSE IF k = 1 THEN one
                          ELSE IF k = 2 THEN two ELSE IF k = 3 THEN three ELSE four]
             Follows(f) == f = [k \in 0 .. Len(es) |->
                                   IF k = 0 THEN m ELSE Apply(f[k - 1], es[k])]
             after == CHOOSE f : Follows(f)
  <1>2. Follows(taken)
    <2>1. \A k \in 0 .. Len(es) : taken[k] = IF k = 0 THEN m ELSE Apply(taken[k - 1], es[k])
      <3> SUFFICES ASSUME NEW k \in 0 .. Len(es), k # 0
                   PROVE  taken[k] = Apply(taken[k - 1], es[k])
        OBVIOUS
      <3>1. k \in {1, 2, 3, 4} /\ k - 1 \in 0 .. Len(es)
        BY <1>1
      <3>2. CASE k = 1
        BY <3>1, <3>2
      <3>3. CASE k = 2
        BY <3>1, <3>3
      <3>4. CASE k = 3
        BY <3>1, <3>4
      <3>5. CASE k = 4
        BY <3>1, <3>5
      <3> QED
        BY <3>1, <3>2, <3>3, <3>4, <3>5
    <2> QED
      BY <2>1
  <1>3. Follows(after)
    BY <1>2
  <1>4. ApplyEvents(m, es) = after[Len(es)]
    BY DEF ApplyEvents
  <1> HIDE DEF after
  <1>5. \A k \in 0 .. Len(es) : after[k] = IF k = 0 THEN m ELSE Apply(after[k - 1], es[k])
    BY <1>3
  <1>6. after[0] = m /\ (Len(es) >= 1 => after[1] = one)
    BY <1>1, <1>5
  <1>7. Len(es) >= 2 => after[2] = two
    BY <1>1, <1>5, <1>6
  <1>8. Len(es) >= 3 => after[3] = three
    BY <1>1, <1>5, <1>7
  <1>9. Len(es) >= 4 => after[4] = four
    BY <1>1, <1>5, <1>8
  <1> QED
    BY <1>1, <1>4, <1>6, <1>7, <1>8, <1>9

LEMMA SingleEvent ==
    ASSUME NEW m, NEW e \in Event
    PROVE  ApplyEvents(m, <<e>>) = Apply(m, e)
  <1>1. <<e>> \in Seq(Event) /\ Len(<<e>>) = 1 /\ <<e>>[1] = e /\ Len(<<e>>) <= 4
    OBVIOUS
  <1>2. ApplyEvents(m, <<e>>) = Apply(m, <<e>>[1])
    BY <1>1, EventsInOrder, Zenon
  <1> QED
    BY <1>1, <1>2, Zenon

-----------------------------------------------------------------------------
(* What each event does to the mirror, as far as it counts the graph.      *)
Shows(m, node, total, completed, learned) ==
    /\ m \in Mirror
    /\ m.node = node /\ m.total = total /\ m.completed = completed /\ m.learned = learned

LEMMA ThreeFields ==
    ASSUME NEW m \in Mirror, NEW s \in DysonState, NEW n \in Id \cup {None}, NEW k \in Nat
    PROVE  Shows([m EXCEPT !.shown = s, !.node = n, !.total = k], n, k, m.completed, m.learned)
  <1> DEFINE a == [m EXCEPT !.shown = s]
             b == [a EXCEPT !.node = n]
             c == [b EXCEPT !.total = k]
  <1>1. /\ a \in Mirror /\ a.completed = m.completed /\ a.learned = m.learned
    BY DEF Mirror
  <1> HIDE DEF a
  <1>2. /\ b \in Mirror /\ b.completed = m.completed /\ b.learned = m.learned /\ b.node = n
    BY <1>1 DEF Mirror
  <1> HIDE DEF b
  <1>3. Shows(c, n, k, m.completed, m.learned)
    BY <1>2 DEF Mirror, Shows
  <1> QED
    BY <1>3, Zenon DEF a, b

LEMMA StateChange ==
    ASSUME NEW m \in Mirror, NEW e, e.type = "state_change", e.to \in DysonState,
           e.node \in Id \cup {None}, e.count \in Nat \cup {None}
    PROVE  Shows(Apply(m, e), Known(e.node, m.node), Known(e.count, m.total),
                 m.completed, m.learned)
  <1>1. Apply(m, e) = [m EXCEPT !.shown = Known(e.to, @), !.node = Known(e.node, @),
                                !.total = Known(e.count, @)]
    BY DEF Apply
  <1>2. /\ Known(e.to, m.shown) \in DysonState
        /\ Known(e.node, m.node) \in Id \cup {None}
        /\ Known(e.count, m.total) \in Nat
    BY KeyAssumption DEF Known, Mirror
  <1>3. Shows([m EXCEPT !.shown = Known(e.to, m.shown), !.node = Known(e.node, m.node),
                        !.total = Known(e.count, m.total)],
              Known(e.node, m.node), Known(e.count, m.total), m.completed, m.learned)
    BY <1>2, ThreeFields, Zenon
  <1> QED
    BY <1>1, <1>3

LEMMA SprintEventEffects ==
    ASSUME NEW m \in Mirror, NEW s \in DysonState, NEW k \in Nat
    PROVE  /\ Shows(Apply(m, Plain("sprint_started")), m.node, m.total, m.completed, m.learned)
           /\ Shows(Apply(m, Plain("constraint_added")),
                    m.node, m.total, m.completed, m.learned + 1)
           /\ Shows(Apply(m, To(s)), m.node, m.total, m.completed, m.learned)
           /\ Shows(Apply(m, ToCounted(s, k)), m.node, k, m.completed, m.learned)
  <1>1. s # None /\ k # None
    BY KeyAssumption
  <1>2. Shows(Apply(m, Plain("sprint_started")), m.node, m.total, m.completed, m.learned)
    BY DEF Shows, Apply, Plain, Mirror
  <1>3. Shows(Apply(m, Plain("constraint_added")), m.node, m.total, m.completed, m.learned + 1)
    BY DEF Shows, Apply, Plain, Mirror
  <1>4. Shows(Apply(m, To(s)), m.node, m.total, m.completed, m.learned)
    BY <1>1 DEF Shows, Apply, To, Plain, Known, Mirror
  <1>5. Shows(Apply(m, ToCounted(s, k)), m.node, k, m.completed, m.learned)
    <2>1. To(s) = [type |-> "state_change", to |-> s, node |-> None, count |-> None]
      BY DEF To, Plain
    <2>2. ToCounted(s, k) = [type |-> "state_change", to |-> s, node |-> None, count |-> k]
      BY <2>1 DEF ToCounted
    <2>3. /\ ToCounted(s, k).type = "state_change" /\ ToCounted(s, k).to = s
          /\ ToCounted(s, k).node = None /\ ToCounted(s, k).count = k
      BY <2>2
    <2>4. Known(None, m.node) = m.node /\ Known(k, m.total) = k
      BY <1>1 DEF Known
    <2>5. None \in Id \cup {None} /\ k \in Nat \cup {None}
      OBVIOUS
    <2> QED
      BY <2>3, <2>4, <2>5, StateChange, Zenon
  <1> QED
    BY <1>2, <1>3, <1>4, <1>5

LEMMA NodeEventEffects ==
    ASSUME NEW m \in Mirror, NEW n \in Id, NEW s \in DysonState
    PROVE  /\ Shows(Apply(m, ToWith(s, n)), n, m.total, m.completed, m.learned)
           /\ Shows(Apply(m, OfNode("node_done", n)), n, m.total, m.completed + 1, m.learned)
           /\ Shows(Apply(m, OfNode("node_blocked", n)), n, m.total, m.completed, m.learned)
           /\ Shows(Apply(m, OfNode("road_update", n)), n, m.total, m.completed, m.learned)
  <1>1. s # None /\ n # None
    BY KeyAssumption, OrchestratorAssumption
  <1>2. ToWith(s, n) = [type |-> "state_change", to |-> s, node |-> n, count |-> None]
    <2>1. To(s) = [type |-> "state_change", to |-> s, node |-> None, count |-> None]
      BY DEF To, Plain
    <2> QED
      BY <2>1 DEF ToWith
  <1>3. Shows(Apply(m, ToWith(s, n)), n, m.total, m.completed, m.learned)
    <2>1. /\ ToWith(s, n).type = "state_change" /\ ToWith(s, n).to = s
          /\ ToWith(s, n).node = n /\ ToWith(s, n).count = None
      BY <1>2
    <2>2. Known(n, m.node) = n /\ Known(None, m.total) = m.total
      BY <1>1 DEF Known
    <2>3. None \in Nat \cup {None} /\ n \in Id \cup {None}
      OBVIOUS
    <2> QED
      BY <2>1, <2>2, <2>3, StateChange, Zenon
  <1>4. Shows(Apply(m, OfNode("node_done", n)), n, m.total, m.completed + 1, m.learned)
    <2>1. OfNode("node_done", n).type = "node_done" /\ OfNode("node_done", n).node = n
      BY DEF OfNode, Plain
    <2>2. Apply(m, OfNode("node_done", n)) =
            [m EXCEPT !.node = n, !.shown = "DONE", !.completed = @ + 1]
      BY <2>1 DEF Apply
    <2> DEFINE a == [m EXCEPT !.node = n]
               b == [a EXCEPT !.shown = "DONE"]
    <2>3. a \in Mirror /\ a.node = n /\ a.total = m.total
            /\ a.completed = m.completed /\ a.learned = m.learned
      BY DEF Mirror
    <2>4. Shows([[a EXCEPT !.shown = "DONE"] EXCEPT !.completed = m.completed + 1],
                n, m.total, m.completed + 1, m.learned)
      <3> HIDE DEF a
      <3>1. b \in Mirror /\ b.node = n /\ b.total = m.total
              /\ b.completed = m.completed /\ b.learned = m.learned
        BY <2>3 DEF Mirror
      <3> HIDE DEF b
      <3>2. Shows([b EXCEPT !.completed = m.completed + 1],
                  n, m.total, m.completed + 1, m.learned)
        BY <3>1 DEF Mirror, Shows
      <3> QED
        BY <3>2, Zenon DEF b
    <2> QED
      BY <2>2, <2>4
  <1>5. Shows(Apply(m, OfNode("node_blocked", n)), n, m.total, m.completed, m.learned)
    <2>1. OfNode("node_blocked", n).type = "node_blocked" /\ OfNode("node_blocked", n).node = n
      BY DEF OfNode, Plain
    <2>2. Apply(m, OfNode("node_blocked", n)) = [m EXCEPT !.node = n, !.shown = "BLOCKED"]
      BY <2>1 DEF Apply
    <2> QED
      BY <2>2 DEF Shows, Mirror, DysonState
  <1>6. Shows(Apply(m, OfNode("road_update", n)), n, m.total, m.completed, m.learned)
    BY DEF Shows, Apply, OfNode, Plain, Mirror
  <1> QED
    BY <1>3, <1>4, <1>5, <1>6

(* The events of a failure, one by one.                                    *)
LEMMA FailureEventsAre ==
    ASSUME NEW n \in Id, NEW c \in Constraint
    PROVE  LET es == FailureEvents(n, <<c>>) IN
           /\ es \in Seq(Event) /\ Len(es) = 4
           /\ es[1] = Plain("constraint_added") /\ es[2] = OfNode("road_update", n)
           /\ es[3] = OfNode("node_blocked", n) /\ es[4] = ToWith("HEALING", n)
  <1> DEFINE es == FailureEvents(n, <<c>>)
             learned == [k \in 1 .. Len(<<c>>) |-> Plain("constraint_added")]
             rest == <<OfNode("road_update", n), OfNode("node_blocked", n), ToWith("HEALING", n)>>
  <1>1. <<c>> \in Seq(Constraint) /\ Len(<<c>>) = 1
    OBVIOUS
  <1>2. es \in Seq(Event)
    BY <1>1, FailureEventsType
  <1>3. /\ Plain("constraint_added") \in Event /\ OfNode("road_update", n) \in Event
        /\ OfNode("node_blocked", n) \in Event
    BY EventTypes DEF EventType
  <1>4. ToWith("HEALING", n) \in Event
    BY EventTypes DEF DysonState
  <1>5. learned \in Seq(Event) /\ Len(learned) = 1 /\ learned[1] = Plain("constraint_added")
    BY <1>1, <1>3
  <1>6. /\ rest \in Seq(Event) /\ Len(rest) = 3
        /\ rest[1] = OfNode("road_update", n) /\ rest[2] = OfNode("node_blocked", n)
        /\ rest[3] = ToWith("HEALING", n)
    BY <1>3, <1>4
  <1>7. es = learned \o rest
    BY DEF FailureEvents
  <1> HIDE DEF es, learned, rest
  <1>8. /\ Len(es) = 4
        /\ \A i \in 1 .. 4 : es[i] = IF i <= 1 THEN learned[i] ELSE rest[i - 1]
    <2>1. learned \in Seq(Event) /\ rest \in Seq(Event)
      BY <1>5, <1>6
    <2>2. Len(learned) = 1 /\ Len(rest) = 3
      BY <1>5, <1>6
    <2>3. /\ Len(learned \o rest) = Len(learned) + Len(rest)
          /\ \A i \in 1 .. Len(learned) + Len(rest) :
                (learned \o rest)[i] = IF i <= Len(learned) THEN learned[i]
                                       ELSE rest[i - Len(learned)]
      BY <2>1, ConcatProperties, Zenon
    <2> QED
      BY <2>2, <2>3, <1>7
  <1>9. es[1] = learned[1] /\ es[2] = rest[1] /\ es[3] = rest[2] /\ es[4] = rest[3]
    BY <1>8
  <1>10. /\ es \in Seq(Event) /\ Len(es) = 4
         /\ es[1] = Plain("constraint_added") /\ es[2] = OfNode("road_update", n)
         /\ es[3] = OfNode("node_blocked", n) /\ es[4] = ToWith("HEALING", n)
    BY <1>2, <1>5, <1>6, <1>8, <1>9, Zenon
  <1> QED
    BY <1>10, Zenon DEF es

(* What the events of each kernel call do to the mirror.                   *)
LEMMA NoCallEffect == ASSUME NEW m PROVE ApplyEvents(m, <<>>) = m
  <1>1. <<>> \in Seq(Event) /\ Len(<<>>) = 0 /\ Len(<<>>) <= 4
    OBVIOUS
  <1> QED
    BY <1>1, EventsInOrder, Zenon

LEMMA SprintCallEffects ==
    ASSUME NEW m \in Mirror, NEW k \in Nat
    PROVE  /\ Shows(ApplyEvents(m, <<Plain("sprint_started"), To("PLANNING")>>),
                    m.node, m.total, m.completed, m.learned)
           /\ Shows(ApplyEvents(m, <<ToCounted("EXECUTING", k)>>),
                    m.node, k, m.completed, m.learned)
           /\ Shows(ApplyEvents(m, <<To("DONE_GATE")>>),
                    m.node, m.total, m.completed, m.learned)
  <1>1. {"PLANNING", "EXECUTING", "DONE_GATE"} \subseteq DysonState
    BY DEF DysonState
  <1>2. /\ Plain("sprint_started") \in Event /\ To("PLANNING") \in Event
        /\ ToCounted("EXECUTING", k) \in Event /\ To("DONE_GATE") \in Event
    BY <1>1, EventTypes DEF EventType
  <1>3. Shows(ApplyEvents(m, <<Plain("sprint_started"), To("PLANNING")>>),
              m.node, m.total, m.completed, m.learned)
    <2> DEFINE es == <<Plain("sprint_started"), To("PLANNING")>>
    <2>1. /\ es \in Seq(Event) /\ Len(es) = 2
          /\ es[1] = Plain("sprint_started") /\ es[2] = To("PLANNING")
      BY <1>2
    <2> HIDE DEF es
    <2>2. ApplyEvents(m, es) = Apply(Apply(m, es[1]), es[2])
      <3>1. Len(es) <= 4
        BY <2>1
      <3> QED
        BY <2>1, <3>1, EventsInOrder, Zenon
    <2>3. Shows(Apply(m, es[1]), m.node, m.total, m.completed, m.learned)
      BY <2>1, <1>1, SprintEventEffects
    <2> QED
      BY <1>1, <2>1, <2>2, <2>3, SprintEventEffects DEF Shows, es
  <1>4. Shows(ApplyEvents(m, <<ToCounted("EXECUTING", k)>>),
              m.node, k, m.completed, m.learned)
    <2>1. ApplyEvents(m, <<ToCounted("EXECUTING", k)>>) = Apply(m, ToCounted("EXECUTING", k))
      BY <1>2, SingleEvent
    <2> QED
      BY <1>1, <2>1, SprintEventEffects
  <1>5. Shows(ApplyEvents(m, <<To("DONE_GATE")>>), m.node, m.total, m.completed, m.learned)
    <2>1. ApplyEvents(m, <<To("DONE_GATE")>>) = Apply(m, To("DONE_GATE"))
      BY <1>2, SingleEvent
    <2> QED
      BY <1>1, <2>1, SprintEventEffects
  <1> QED
    BY <1>3, <1>4, <1>5

LEMMA NodeCallEffects ==
    ASSUME NEW m \in Mirror, NEW n \in Id
    PROVE  /\ Shows(ApplyEvents(m, <<ToWith("NODE_READY", n)>>),
                    n, m.total, m.completed, m.learned)
           /\ Shows(ApplyEvents(m, <<ToWith("NODE_TEST", n), OfNode("node_done", n)>>),
                    n, m.total, m.completed + 1, m.learned)
  <1>1. {"NODE_READY", "NODE_TEST"} \subseteq DysonState
    BY DEF DysonState
  <1>2. /\ ToWith("NODE_READY", n) \in Event /\ ToWith("NODE_TEST", n) \in Event
        /\ OfNode("node_done", n) \in Event
    BY <1>1, EventTypes DEF EventType
  <1>3. Shows(ApplyEvents(m, <<ToWith("NODE_READY", n)>>), n, m.total, m.completed, m.learned)
    <2>1. ApplyEvents(m, <<ToWith("NODE_READY", n)>>) = Apply(m, ToWith("NODE_READY", n))
      BY <1>2, SingleEvent
    <2> QED
      BY <1>1, <2>1, NodeEventEffects
  <1>4. Shows(ApplyEvents(m, <<ToWith("NODE_TEST", n), OfNode("node_done", n)>>),
              n, m.total, m.completed + 1, m.learned)
    <2> DEFINE es == <<ToWith("NODE_TEST", n), OfNode("node_done", n)>>
    <2>1. /\ es \in Seq(Event) /\ Len(es) = 2
          /\ es[1] = ToWith("NODE_TEST", n) /\ es[2] = OfNode("node_done", n)
      BY <1>2
    <2> HIDE DEF es
    <2>2. ApplyEvents(m, es) = Apply(Apply(m, es[1]), es[2])
      <3>1. Len(es) <= 4
        BY <2>1
      <3> QED
        BY <2>1, <3>1, EventsInOrder, Zenon
    <2>3. Shows(Apply(m, es[1]), n, m.total, m.completed, m.learned)
      BY <2>1, <1>1, NodeEventEffects
    <2> QED
      BY <1>1, <2>1, <2>2, <2>3, NodeEventEffects DEF Shows, es
  <1> QED
    BY <1>3, <1>4

LEMMA FailureCallEffect ==
    ASSUME NEW m \in Mirror, NEW n \in Id, NEW c \in Constraint
    PROVE  Shows(ApplyEvents(m, FailureEvents(n, <<c>>)),
                 n, m.total, m.completed, m.learned + 1)
  <1>1. "HEALING" \in DysonState /\ 0 \in Nat
    BY DEF DysonState
  <1> DEFINE es == FailureEvents(n, <<c>>)
             one == Apply(m, es[1])
             two == Apply(one, es[2])
             three == Apply(two, es[3])
  <1>2. /\ es \in Seq(Event) /\ Len(es) = 4
        /\ es[1] = Plain("constraint_added") /\ es[2] = OfNode("road_update", n)
        /\ es[3] = OfNode("node_blocked", n) /\ es[4] = ToWith("HEALING", n)
    BY FailureEventsAre
  <1> HIDE DEF es
  <1>3. ApplyEvents(m, es) = Apply(three, es[4])
    <2>1. Len(es) <= 4
      BY <1>2
    <2> QED
      BY <1>2, <2>1, EventsInOrder, Zenon
  <1>4. Shows(one, m.node, m.total, m.completed, m.learned + 1)
    BY <1>1, <1>2, SprintEventEffects, Zenon
  <1>5. one \in Mirror /\ one.total = m.total /\ one.completed = m.completed
          /\ one.learned = m.learned + 1
    BY <1>4 DEF Shows
  <1> HIDE DEF one
  <1>6. Shows(two, n, one.total, one.completed, one.learned)
    BY <1>1, <1>2, <1>5, NodeEventEffects, Zenon
  <1>7. two \in Mirror /\ two.total = one.total /\ two.completed = one.completed
          /\ two.learned = one.learned
    BY <1>6 DEF Shows
  <1> HIDE DEF two
  <1>8. Shows(three, n, two.total, two.completed, two.learned)
    BY <1>1, <1>2, <1>7, NodeEventEffects, Zenon
  <1>9. three \in Mirror /\ three.total = two.total /\ three.completed = two.completed
          /\ three.learned = two.learned
    BY <1>8 DEF Shows
  <1> HIDE DEF three
  <1>10. Shows(Apply(three, es[4]), n, three.total, three.completed, three.learned)
    BY <1>1, <1>2, <1>9, NodeEventEffects, Zenon
  <1> QED
    BY <1>3, <1>5, <1>7, <1>9, <1>10 DEF es

-----------------------------------------------------------------------------
(***************************************************************************)
(* The inductive invariant: the place in run_bridge determines the states  *)
(* the sprint can be in, the node in work is the current one, the mirror   *)
(* counts the graph, and what was drained is what is shown.                *)
(***************************************************************************)
Line == [event : Event, state : Mirror]

BridgeTypes ==
    /\ mirror \in Mirror
    /\ pc \in {"start", "plan", "drain_start", "next", "drain_node", "work", "drain_step",
               "drain_last", "complete"} \cup Exited
    /\ steps \in 0 .. MaxSteps
    /\ pending \in Seq(Event)
    /\ lines \in Seq(Line)

LoopControl ==
    /\ pc = "start" => state = "IDLE"
    /\ pc = "plan" => state = "PLANNING"
    /\ pc = "drain_start" => state = "EXECUTING"
    /\ pc = "next" => state \in {"EXECUTING", "NODE_TEST"}
    /\ pc \in {"drain_node", "work"} => state = "NODE_READY" /\ steps < MaxSteps
    /\ pc = "drain_step" => state = "NODE_TEST"
    /\ pc = "drain_last" => state \in {"DONE_GATE", "HEALING"}
    /\ pc \in {"complete", "exit0"} => state \in {"EXECUTING", "NODE_TEST", "DONE_GATE", "HEALING"}
    /\ graph = None <=> pc \in {"start", "plan"}
    /\ graph = None => current = None

Drains == {"drain_start", "drain_node", "drain_step", "drain_last"}

Drained ==
    /\ pc \in Drains => pending # <<>>
    /\ pc \in {"next", "work", "complete", "exit0"}
         => pending = <<>> /\ lines # <<>> /\ lines[Len(lines)].state = mirror

BridgeInv ==
    /\ TypeInv
    /\ CallTypeOK
    /\ BridgeTypes
    /\ LoopControl
    /\ OneNodeInWork
    /\ MirrorCountsTheGraph
    /\ Drained

LEMMA BridgeInvInit == BridgeInit => BridgeInv
  <1> SUFFICES ASSUME BridgeInit
               PROVE  BridgeInv
    OBVIOUS
  <1>1. TypeInv /\ CallTypeOK
    BY TypeInit DEF BridgeInit
  <1>2. BridgeTypes
    <2>1. <<>> \in Seq(Event) /\ <<>> \in Seq(Line)
      OBVIOUS
    <2>2. EmptyMirror \in Mirror
      BY DEF EmptyMirror, Mirror, DysonState
    <2>3. 0 \in 0 .. MaxSteps
      BY StepsAssumption
    <2> QED
      BY <2>1, <2>2, <2>3, Zenon DEF BridgeInit, BridgeTypes
  <1>3. LoopControl /\ Drained
    BY DEF BridgeInit, Init, LoopControl, Drained, Drains, Exited
  <1>4. \A s : StatusIs(s) = {}
    BY DEF BridgeInit, Init, StatusIs
  <1>5. OneNodeInWork
    BY <1>4 DEF BridgeInit, Init, OneNodeInWork
  <1>6. MirrorCountsTheGraph
    BY <1>4, FS_EmptySet DEF BridgeInit, Init, MirrorCountsTheGraph, EmptyMirror
  <1> QED
    BY <1>1, <1>2, <1>3, <1>5, <1>6 DEF BridgeInv

(* Giving a node of the graph another status.                              *)
LEMMA StatusStep ==
    ASSUME graph \in Graph, graph' \in Graph, NEW n \in Nodes(graph),
           NEW s \in Status \ {"absent"}, graph'.status = [graph.status EXCEPT ![n] = s]
    PROVE  /\ Nodes(graph') = Nodes(graph)
           /\ \A t : StatusIs(t)' = IF t = s THEN StatusIs(t) \cup {n} ELSE StatusIs(t) \ {n}
  <1>1. graph # None /\ graph' # None
    BY OrchestratorAssumption
  <1>2. \A k \in Id : graph'.status[k] = IF k = n THEN s ELSE graph.status[k]
    BY DEF Graph
  <1>3. Nodes(graph') = Nodes(graph)
    BY <1>2 DEF Nodes
  <1>4. \A t : StatusIs(t) = {k \in Nodes(graph) : graph.status[k] = t}
    BY <1>1 DEF StatusIs
  <1>5. \A t : StatusIs(t)' = {k \in Nodes(graph') : graph'.status[k] = t}
    BY <1>1 DEF StatusIs
  <1>6. n \in Id /\ Nodes(graph) \subseteq Id
    BY DEF Nodes
  <1> QED
    BY <1>2, <1>3, <1>4, <1>5, <1>6

(* A call that emits leaves something to drain.                            *)
LEMMA ObservedQueue ==
    ASSUME BridgeTypes, Observed, emitted' \in Seq(Event)
    PROVE  /\ pending' \in Seq(Event) /\ lines' = lines
           /\ Len(emitted') > 0 => pending' # <<>>
  <1>1. pending \in Seq(Event) /\ pending' = pending \o emitted' /\ lines' = lines
    BY DEF BridgeTypes, Observed
  <1>2. pending' \in Seq(Event) /\ Len(pending') = Len(pending) + Len(emitted')
    BY <1>1, ConcatProperties
  <1>3. Len(pending) \in Nat /\ Len(emitted') \in Nat
    BY <1>1, LenProperties
  <1>4. Len(emitted') > 0 => Len(pending') # 0
    BY <1>2, <1>3
  <1>5. Len(<<>>) = 0
    OBVIOUS
  <1> QED
    BY <1>1, <1>2, <1>4, <1>5

(* The state machine of the sprint waits while lines are written.          *)
LEMMA QuietStep ==
    ASSUME BridgeInv, UNCHANGED <<vars, mirror>>
    PROVE  /\ TypeInv' /\ CallTypeOK' /\ OneNodeInWork' /\ MirrorCountsTheGraph'
           /\ mirror' \in Mirror /\ UNCHANGED <<state, graph, current>>
  <1>1. TypeInv' /\ CallTypeOK'
    BY TypeStep DEF BridgeInv
  <1>2. UNCHANGED <<state, graph, current, store, mirror>>
    BY DEF vars
  <1>3. \A t : StatusIs(t)' = StatusIs(t)
    BY <1>2 DEF StatusIs
  <1>4. OneNodeInWork'
    BY <1>2, <1>3 DEF BridgeInv, OneNodeInWork
  <1>5. MirrorCountsTheGraph'
    BY <1>2, <1>3 DEF BridgeInv, MirrorCountsTheGraph
  <1> QED
    BY <1>1, <1>2, <1>4, <1>5 DEF BridgeInv, BridgeTypes

LEMMA DrainStep == ASSUME BridgeInv, DrainSnapshots PROVE BridgeInv'
  <1> DEFINE shown == [k \in DOMAIN pending |-> [event |-> pending[k], state |-> mirror]]
  <1>1. UNCHANGED <<vars, mirror>> /\ steps' = steps /\ pending' = <<>>
          /\ lines' = lines \o shown
    BY DEF DrainSnapshots, Drain
  <1>2. \/ pc = "drain_start" /\ pc' = "next"
        \/ pc = "drain_node" /\ pc' = "work"
        \/ pc = "drain_step" /\ pc' = "next"
        \/ pc = "drain_last" /\ pc' = "complete"
    BY DEF DrainSnapshots, Drain
  <1>3. /\ TypeInv' /\ CallTypeOK' /\ OneNodeInWork' /\ MirrorCountsTheGraph'
        /\ mirror' \in Mirror /\ UNCHANGED <<state, graph, current>>
    BY <1>1, QuietStep
  <1>4. pending \in Seq(Event) /\ pending # <<>> /\ mirror \in Mirror /\ lines \in Seq(Line)
    BY <1>2 DEF BridgeInv, BridgeTypes, Drained, Drains
  <1>5. DOMAIN pending = 1 .. Len(pending) /\ Len(pending) \in Nat \ {0}
    BY <1>4, LenProperties, EmptySeq
  <1>6. shown \in Seq(Line) /\ Len(shown) = Len(pending)
    <2>1. \A k \in 1 .. Len(pending) : [event |-> pending[k], state |-> mirror] \in Line
      BY <1>4, ElementOfSeq DEF Line
    <2> HIDE DEF Line
    <2> QED
      BY <1>5, <2>1
  <1>7. \A k \in 1 .. Len(shown) : shown[k].state = mirror
    BY <1>5, <1>6
  <1> HIDE DEF shown
  <1>8. /\ lines' \in Seq(Line) /\ Len(lines') = Len(lines) + Len(shown)
        /\ \A i \in 1 .. Len(lines) + Len(shown) :
              lines'[i] = IF i <= Len(lines) THEN lines[i] ELSE shown[i - Len(lines)]
    <2>1. lines \in Seq(Line) /\ shown \in Seq(Line) /\ lines' = lines \o shown
      BY <1>1, <1>4, <1>6
    <2> QED
      BY <2>1, ConcatProperties, Zenon
  <1>9. Len(lines) \in Nat
    BY <1>4, LenProperties
  <1>10. /\ Len(lines') \in 1 .. Len(lines) + Len(shown) /\ ~(Len(lines') <= Len(lines))
         /\ Len(lines') - Len(lines) = Len(shown) /\ Len(shown) \in 1 .. Len(shown)
    BY <1>5, <1>6, <1>8, <1>9
  <1>11. lines'[Len(lines')].state = mirror /\ Len(lines') # 0
    BY <1>7, <1>8, <1>10
  <1>12. lines' # <<>>
    BY <1>11, EmptySeq
  <1>13. BridgeTypes'
    BY <1>1, <1>2, <1>3, <1>8 DEF BridgeInv, BridgeTypes
  <1>14. LoopControl'
    BY <1>1, <1>2, <1>3 DEF BridgeInv, LoopControl, Exited
  <1>15. Drained'
    BY <1>1, <1>2, <1>11, <1>12 DEF Drained, Drains, vars
  <1> QED
    BY <1>3, <1>13, <1>14, <1>15 DEF BridgeInv

LEMMA EndStep == ASSUME BridgeInv, StepsExhausted \/ CompleteLine PROVE BridgeInv'
  <1>1. UNCHANGED <<vars, mirror>> /\ UNCHANGED <<steps, pending, lines>>
    BY DEF StepsExhausted, CompleteLine
  <1>2. \/ pc = "next" /\ pc' = "complete"
        \/ pc = "complete" /\ pc' = "exit0"
    BY DEF StepsExhausted, CompleteLine
  <1>3. /\ TypeInv' /\ CallTypeOK' /\ OneNodeInWork' /\ MirrorCountsTheGraph'
        /\ mirror' \in Mirror /\ UNCHANGED <<state, graph, current>>
    BY <1>1, QuietStep
  <1>4. BridgeTypes'
    BY <1>1, <1>2, <1>3 DEF BridgeInv, BridgeTypes, Exited
  <1>5. LoopControl'
    BY <1>1, <1>2, <1>3 DEF BridgeInv, LoopControl, Exited
  <1>6. Drained'
    BY <1>1, <1>2 DEF BridgeInv, Drained, Drains
  <1> QED
    BY <1>3, <1>4, <1>5, <1>6 DEF BridgeInv

LEMMA StutterStep == ASSUME BridgeInv, UNCHANGED bridgeVars PROVE BridgeInv'
  <1>1. UNCHANGED <<vars, mirror>> /\ UNCHANGED <<pc, steps, pending, lines>>
    BY DEF bridgeVars
  <1>2. /\ TypeInv' /\ CallTypeOK' /\ OneNodeInWork' /\ MirrorCountsTheGraph'
        /\ mirror' \in Mirror /\ UNCHANGED <<state, graph, current>>
    BY <1>1, QuietStep
  <1>3. BridgeTypes' /\ Drained'
    BY <1>1 DEF BridgeInv, BridgeTypes, Drained
  <1>4. LoopControl'
    BY <1>1, <1>2 DEF BridgeInv, LoopControl
  <1> QED
    BY <1>2, <1>3, <1>4 DEF BridgeInv

LEMMA StartStep == ASSUME BridgeInv, StartCommand PROVE BridgeInv'
  <1> DEFINE es == <<Plain("sprint_started"), To("PLANNING")>>
  <1>1. TypeInv' /\ CallTypeOK'
    BY StartSprintType DEF StartCommand, BridgeInv
  <1>2. /\ pc = "start" /\ pc' = "plan" /\ steps' = steps
        /\ state' = "PLANNING" /\ graph' = None /\ current' = None /\ store' = store
        /\ emitted' = es /\ Observed
    BY DEF StartCommand, StartSprint, Returns
  <1>3. graph = None /\ current = None
    BY <1>2 DEF BridgeInv, LoopControl
  <1>4. Shows(mirror', mirror.node, mirror.total, mirror.completed, mirror.learned)
    <2>1. mirror' = ApplyEvents(mirror, es)
      BY <1>2 DEF Observed, Forward
    <2>2. mirror \in Mirror /\ 0 \in Nat
      BY DEF BridgeInv, BridgeTypes
    <2> QED
      BY <2>1, <2>2, SprintCallEffects, Zenon
  <1>5. \A t : StatusIs(t) = {} /\ StatusIs(t)' = {}
    BY <1>2, <1>3 DEF StatusIs
  <1>6. OneNodeInWork'
    BY <1>2, <1>5 DEF OneNodeInWork
  <1>7. MirrorCountsTheGraph'
    BY <1>2, <1>3, <1>4, <1>5 DEF BridgeInv, MirrorCountsTheGraph, Shows
  <1>8. pending' \in Seq(Event) /\ lines' = lines
    BY <1>1, <1>2, ObservedQueue DEF BridgeInv, CallTypeOK
  <1>9. BridgeTypes'
    BY <1>2, <1>4, <1>8 DEF BridgeInv, BridgeTypes, Shows
  <1>10. LoopControl' /\ Drained'
    BY <1>2 DEF LoopControl, Drained, Drains, Exited
  <1> QED
    BY <1>1, <1>6, <1>7, <1>9, <1>10 DEF BridgeInv

LEMMA PlanStep == ASSUME BridgeInv, PlanCommand PROVE BridgeInv'
  <1>1. TypeInv' /\ CallTypeOK'
    BY ExecutePlanningType DEF PlanCommand, BridgeInv
  <1>2. /\ pc = "plan" /\ pc' = "drain_start" /\ steps' = steps /\ Observed
        /\ state' = "EXECUTING" /\ current' = current /\ store' = store
    BY DEF PlanCommand, ExecutePlanning
  <1>3. graph = None /\ current = None
    BY <1>2 DEF BridgeInv, LoopControl
  <1>4. PICK m \in Manifests :
            /\ graph' = FromManifest(m)
            /\ emitted' = <<ToCounted("EXECUTING", Cardinality(Nodes(FromManifest(m))))>>
    BY DEF PlanCommand, ExecutePlanning, Returns
  <1>5. graph' \in Graph /\ \A n \in Id : graph'.status[n] \in {"absent", "pending"}
    BY <1>4, FromManifestGraph, OrchestratorAssumption
  <1>6. graph' # None /\ Cardinality(Nodes(graph')) \in Nat
    BY <1>5, NodeCount, OrchestratorAssumption
  <1>7. Shows(mirror', mirror.node, Cardinality(Nodes(graph')), mirror.completed, mirror.learned)
    <2>1. mirror' = ApplyEvents(mirror, <<ToCounted("EXECUTING", Cardinality(Nodes(graph')))>>)
      BY <1>2, <1>4 DEF Observed, Forward
    <2>2. mirror \in Mirror
      BY DEF BridgeInv, BridgeTypes
    <2> QED
      BY <1>6, <2>1, <2>2, SprintCallEffects, Zenon
  <1>8. /\ StatusIs("done") = {}
        /\ StatusIs("done")' = {} /\ StatusIs("running")' = {}
    BY <1>3, <1>5 DEF StatusIs, Nodes
  <1>9. OneNodeInWork'
    BY <1>2, <1>8 DEF OneNodeInWork
  <1>10. MirrorCountsTheGraph'
    BY <1>2, <1>3, <1>7, <1>8 DEF BridgeInv, MirrorCountsTheGraph, Shows
  <1>11. pending' \in Seq(Event) /\ lines' = lines /\ pending' # <<>>
    <2>1. Len(emitted') > 0
      BY <1>4
    <2> QED
      BY <1>1, <1>2, <2>1, ObservedQueue DEF BridgeInv, CallTypeOK
  <1>12. BridgeTypes'
    BY <1>2, <1>7, <1>11 DEF BridgeInv, BridgeTypes, Shows
  <1>13. LoopControl' /\ Drained'
    BY <1>2, <1>6, <1>11 DEF LoopControl, Drained, Drains, Exited
  <1> QED
    BY <1>1, <1>9, <1>10, <1>12, <1>13 DEF BridgeInv

(* The three ends of execute_next_node, as the bridge sees them.           *)
LEMMA NextNodeStep == ASSUME BridgeInv, NextNodeCommand PROVE BridgeInv'
  <1>1. TypeInv' /\ CallTypeOK'
    BY ExecuteNextNodeType DEF NextNodeCommand, BridgeInv
  <1>2. /\ pc = "next" /\ steps < MaxSteps /\ steps' = steps /\ Observed /\ store' = store
        /\ pc' = IF raised' THEN "exit1"
                 ELSE IF state' = "NODE_READY" THEN "drain_node" ELSE "drain_last"
    BY DEF NextNodeCommand, ExecuteNextNode
  <1>3. /\ graph \in Graph /\ graph # None /\ state \in {"EXECUTING", "NODE_TEST"}
        /\ mirror \in Mirror /\ StatusIs("running") = {}
    BY <1>2 DEF BridgeInv, TypeInv, SprintTypeOK, LoopControl, BridgeTypes, OneNodeInWork
  <1>4. emitted' \in Seq(Event) /\ pending' \in Seq(Event) /\ lines' = lines
          /\ (Len(emitted') > 0 => pending' # <<>>)
    BY <1>1, <1>2, ObservedQueue DEF BridgeInv, CallTypeOK
  <1>5. CASE /\ raised' = TRUE /\ emitted' = <<>>
             /\ UNCHANGED sprint
    <2>1. UNCHANGED <<state, graph, current>> /\ pc' = "exit1"
      BY <1>2, <1>5 DEF sprint
    <2>2. mirror' = mirror
      BY <1>2, <1>5, NoCallEffect DEF Observed, Forward
    <2>3. \A t : StatusIs(t)' = StatusIs(t)
      BY <2>1 DEF StatusIs
    <2>4. OneNodeInWork' /\ MirrorCountsTheGraph'
      BY <1>2, <2>1, <2>2, <2>3 DEF BridgeInv, OneNodeInWork, MirrorCountsTheGraph
    <2>5. BridgeTypes'
      BY <1>2, <1>3, <1>4, <2>1, <2>2 DEF BridgeInv, BridgeTypes, Exited
    <2>6. LoopControl' /\ Drained'
      BY <1>3, <2>1 DEF LoopControl, Drained, Drains, Exited
    <2> QED
      BY <1>1, <2>4, <2>5, <2>6 DEF BridgeInv
  <1>6. CASE /\ raised' = FALSE /\ state' = "DONE_GATE" /\ emitted' = <<To("DONE_GATE")>>
             /\ UNCHANGED <<graph, current>>
    <2>1. pc' = "drain_last"
      BY <1>2, <1>6
    <2>2. Shows(mirror', mirror.node, mirror.total, mirror.completed, mirror.learned)
      <3>1. mirror' = ApplyEvents(mirror, <<To("DONE_GATE")>>) /\ 0 \in Nat
        BY <1>2, <1>6 DEF Observed, Forward
      <3> QED
        BY <1>3, <3>1, SprintCallEffects, Zenon
    <2>3. \A t : StatusIs(t)' = StatusIs(t)
      BY <1>6 DEF StatusIs
    <2>4. OneNodeInWork' /\ MirrorCountsTheGraph'
      BY <1>2, <1>3, <1>6, <2>2, <2>3
         DEF BridgeInv, OneNodeInWork, MirrorCountsTheGraph, Shows
    <2>5. BridgeTypes'
      BY <1>2, <1>4, <2>1, <2>2 DEF BridgeInv, BridgeTypes, Shows
    <2>6. Len(emitted') > 0
      BY <1>6
    <2>7. LoopControl' /\ Drained'
      BY <1>3, <1>4, <1>6, <2>1, <2>6 DEF LoopControl, Drained, Drains, Exited
    <2> QED
      BY <1>1, <2>4, <2>5, <2>7 DEF BridgeInv
  <1>7. CASE \E n \in ReadyNodes(graph) :
                /\ graph' = SetStatus(graph, n, "running") /\ current' = n
                /\ raised' = FALSE /\ emitted' = <<ToWith("NODE_READY", n)>>
                /\ state' = "NODE_READY"
    <2>1. PICK n \in ReadyNodes(graph) :
                /\ graph' = SetStatus(graph, n, "running") /\ current' = n
                /\ raised' = FALSE /\ emitted' = <<ToWith("NODE_READY", n)>>
                /\ state' = "NODE_READY"
      BY <1>7
    <2>2. n \in Id /\ n \in Nodes(graph) /\ graph.status[n] = "pending"
      BY DEF ReadyNodes, Pending, Nodes
    <2>3. /\ graph' \in Graph /\ graph' # None
          /\ graph'.status = [graph.status EXCEPT ![n] = "running"]
      BY <1>3, <2>1, <2>2, SetStatusGraph, OrchestratorAssumption DEF Status
    <2>4. /\ Nodes(graph') = Nodes(graph)
          /\ \A t : StatusIs(t)' = IF t = "running" THEN StatusIs(t) \cup {n}
                                  ELSE StatusIs(t) \ {n}
      BY <1>3, <2>2, <2>3, StatusStep DEF Status
    <2>5. pc' = "drain_node"
      BY <1>2, <2>1
    <2>6. Shows(mirror', n, mirror.total, mirror.completed, mirror.learned)
      <3>1. mirror' = ApplyEvents(mirror, <<ToWith("NODE_READY", n)>>)
        BY <1>2, <2>1 DEF Observed, Forward
      <3> QED
        BY <1>3, <2>2, <3>1, NodeCallEffects, Zenon
    <2>7. StatusIs("done")' = StatusIs("done") /\ StatusIs("running")' = {n}
      <3>1. n \notin StatusIs("done")
        BY <1>3, <2>2 DEF StatusIs
      <3> QED
        BY <1>3, <2>4, <3>1
    <2>8. OneNodeInWork' /\ MirrorCountsTheGraph'
      BY <1>2, <1>3, <2>1, <2>4, <2>6, <2>7
         DEF BridgeInv, OneNodeInWork, MirrorCountsTheGraph, Shows
    <2>9. BridgeTypes'
      BY <1>2, <1>4, <2>5, <2>6 DEF BridgeInv, BridgeTypes, Shows
    <2>10. Len(emitted') > 0
      BY <2>1
    <2>11. LoopControl' /\ Drained'
      BY <1>2, <1>3, <1>4, <2>1, <2>3, <2>5, <2>10 DEF LoopControl, Drained, Drains, Exited
    <2> QED
      BY <1>1, <2>8, <2>9, <2>11 DEF BridgeInv
  <1> QED
    BY <1>5, <1>6, <1>7 DEF NextNodeCommand, ExecuteNextNode, Returns

(* The node in work is done, or it is blocked and its failure recorded, or *)
(* an exception of its session leaves it as it is.                         *)
WorkRaised == raised' = TRUE /\ emitted' = <<>> /\ UNCHANGED <<state, graph, current, store>>

WorkDone ==
    /\ raised' = FALSE
    /\ graph' = SetStatus(graph, current, "done")
    /\ state' = "NODE_TEST" /\ store' = store /\ current' = current
    /\ emitted' = <<ToWith("NODE_TEST", current), OfNode("node_done", current)>>

WorkFailed(class, c) ==
    /\ raised' = FALSE
    /\ graph' = FailedGraph(current, class)
    /\ state' = "HEALING" /\ store' = store \o <<c>> /\ current' = current
    /\ emitted' = FailureEvents(current, <<c>>)

LEMMA WorkEffect ==
    ASSUME BridgeInv, Work
    PROVE  /\ TypeInv' /\ CallTypeOK'
           /\ graph \in Graph /\ graph # None /\ current \in Nodes(graph)
           /\ current \in Id /\ graph.status[current] = "running"
           /\ \/ WorkDone
              \/ WorkRaised
              \/ \E class \in FailClass, c \in Constraint : WorkFailed(class, c)
  <1>1. state = "NODE_READY" /\ graph # None /\ StatusIs("running") = {current}
    BY DEF Work, BridgeInv, LoopControl, OneNodeInWork
  <1>2. current \in Nodes(graph) /\ current \in Id /\ graph.status[current] = "running"
    BY <1>1 DEF StatusIs, Nodes
  <1>3. graph \in Graph
    BY <1>1 DEF BridgeInv, TypeInv, SprintTypeOK
  <1>4. CASE Role[current] = "builder"
    <2>1. ExecuteBuilderNode(FALSE)
      BY <1>4 DEF Work
    <2>2. TypeInv' /\ CallTypeOK'
      BY <2>1, ExecuteBuilderNodeType DEF BridgeInv
    <2>3. CASE Complete(current, "NODE_TEST")
      BY <1>2, <1>3, <1>1, <2>2, <2>3 DEF Complete, Returns, WorkDone
    <2>4. CASE \E class \in FailClass, cause \in Causes :
                  BuilderFails(class, ConstraintOn(current, cause), FALSE)
      <3>1. PICK class \in FailClass, cause \in Causes :
                  BuilderFails(class, ConstraintOn(current, cause), FALSE)
        BY <2>4
      <3>2. ConstraintOn(current, cause) \in Constraint
        BY <1>2, ConstraintOnType
      <3>3. WorkFailed(class, ConstraintOn(current, cause))
        BY <3>1, Zenon DEF BuilderFails, RecordFailure, Returns, WorkFailed
      <3> QED
        BY <1>1, <1>2, <1>3, <2>2, <3>2, <3>3
    <2>5. CASE SessionRaises
      <3>1. WorkRaised
        BY <2>5 DEF SessionRaises, sprint, WorkRaised
      <3> QED
        BY <1>1, <1>2, <1>3, <2>2, <3>1
    <2> QED
      BY <2>1, <2>3, <2>4, <2>5, Zenon DEF ExecuteBuilderNode
  <1>5. CASE Role[current] # "builder"
    <2>1. Complete(current, "NODE_TEST")
      BY <1>5 DEF Work
    <2>2. TypeInv' /\ CallTypeOK'
      BY <1>2, <2>1, CompleteType DEF BridgeInv
    <2> QED
      BY <1>1, <1>2, <1>3, <2>1, <2>2 DEF Complete, Returns, WorkDone
  <1> QED
    BY <1>4, <1>5

LEMMA WorkStep == ASSUME BridgeInv, Work PROVE BridgeInv'
  <1>1. /\ TypeInv' /\ CallTypeOK'
        /\ graph \in Graph /\ graph # None /\ current \in Nodes(graph)
        /\ current \in Id /\ graph.status[current] = "running"
    BY WorkEffect
  <1>2. /\ pc = "work" /\ Observed
        /\ raised' = TRUE => pc' = "exit1" /\ steps' = steps
        /\ raised' = FALSE /\ state' = "HEALING" => pc' = "drain_last" /\ steps' = steps
        /\ raised' = FALSE /\ state' # "HEALING" => pc' = "drain_step" /\ steps' = steps + 1
    BY DEF Work
  <1>3. /\ state = "NODE_READY" /\ steps \in 0 .. MaxSteps /\ steps < MaxSteps
        /\ mirror \in Mirror /\ StatusIs("running") = {current}
    BY <1>2 DEF BridgeInv, LoopControl, BridgeTypes, OneNodeInWork
  <1>4. steps' \in 0 .. MaxSteps
    BY <1>1, <1>2, <1>3, StepsAssumption DEF CallTypeOK
  <1>5. emitted' \in Seq(Event) /\ pending' \in Seq(Event) /\ lines' = lines
          /\ (Len(emitted') > 0 => pending' # <<>>)
    BY <1>1, <1>2, ObservedQueue DEF BridgeInv, CallTypeOK
  <1>6. IsFiniteSet(StatusIs("done")) /\ current \notin StatusIs("done")
    <2>1. StatusIs("done") \subseteq Id
      BY <1>1 DEF StatusIs, Nodes
    <2>2. IsFiniteSet(StatusIs("done"))
      BY <2>1, FS_Subset, IdAssumption
    <2> QED
      BY <1>1, <2>2 DEF StatusIs
  <1>7. CASE WorkDone
    <2>1. /\ graph' \in Graph /\ graph' # None
          /\ graph'.status = [graph.status EXCEPT ![current] = "done"]
      BY <1>1, <1>7, SetStatusGraph, OrchestratorAssumption DEF Status, WorkDone
    <2>2. /\ Nodes(graph') = Nodes(graph)
          /\ \A t : StatusIs(t)' = IF t = "done" THEN StatusIs(t) \cup {current}
                                  ELSE StatusIs(t) \ {current}
      BY <1>1, <2>1, StatusStep DEF Status
    <2>3. /\ StatusIs("done")' = StatusIs("done") \cup {current}
          /\ StatusIs("running")' = {}
      BY <1>3, <2>2
    <2>4. Cardinality(StatusIs("done"))' = Cardinality(StatusIs("done")) + 1
      BY <1>6, <2>3, FS_AddElement
    <2>5. Shows(mirror', current, mirror.total, mirror.completed + 1, mirror.learned)
      <3>1. mirror' = ApplyEvents(mirror, <<ToWith("NODE_TEST", current),
                                           OfNode("node_done", current)>>)
        BY <1>2, <1>7 DEF Observed, Forward, WorkDone
      <3> QED
        BY <1>1, <1>3, <3>1, NodeCallEffects, Zenon
    <2>6. /\ state' = "NODE_TEST" /\ current' = current /\ store' = store /\ Len(emitted') > 0
          /\ raised' = FALSE
      BY <1>7 DEF WorkDone
    <2>7. OneNodeInWork'
      BY <2>3, <2>6 DEF OneNodeInWork
    <2>8. MirrorCountsTheGraph'
      BY <1>3, <2>2, <2>4, <2>5, <2>6 DEF BridgeInv, MirrorCountsTheGraph, Shows
    <2>9. BridgeTypes'
      BY <1>2, <1>4, <1>5, <2>5, <2>6 DEF BridgeInv, BridgeTypes, Shows
    <2>10. LoopControl' /\ Drained'
      BY <1>2, <1>5, <2>1, <2>6 DEF LoopControl, Drained, Drains, Exited
    <2> QED
      BY <1>1, <2>7, <2>8, <2>9, <2>10 DEF BridgeInv
  <1>8. ASSUME NEW class \in FailClass, NEW c \in Constraint, WorkFailed(class, c)
        PROVE  BridgeInv'
    <2>1. /\ graph' \in Graph /\ graph' # None
          /\ graph'.status = [graph.status EXCEPT ![current] = "blocked"]
      BY <1>1, <1>8, FailedGraphType, OrchestratorAssumption DEF WorkFailed
    <2>2. /\ Nodes(graph') = Nodes(graph)
          /\ \A t : StatusIs(t)' = IF t = "blocked" THEN StatusIs(t) \cup {current}
                                  ELSE StatusIs(t) \ {current}
      BY <1>1, <2>1, StatusStep DEF Status
    <2>3. StatusIs("done")' = StatusIs("done") /\ StatusIs("running")' = {}
      BY <1>3, <1>6, <2>2
    <2>4. Shows(mirror', current, mirror.total, mirror.completed, mirror.learned + 1)
      <3>1. mirror' = ApplyEvents(mirror, FailureEvents(current, <<c>>))
        BY <1>2, <1>8 DEF Observed, Forward, WorkFailed
      <3> QED
        BY <1>1, <1>3, <3>1, FailureCallEffect, Zenon
    <2>5. state' = "HEALING" /\ current' = current /\ raised' = FALSE
      BY <1>8 DEF WorkFailed
    <2>6. Len(emitted') > 0
      BY <1>1, <1>8, FailureEventsAre DEF WorkFailed
    <2>7. Len(store)' = Len(store) + 1
      <3>1. store \in Seq(Constraint) /\ <<c>> \in Seq(Constraint) /\ Len(<<c>>) = 1
        BY DEF BridgeInv, TypeInv, SprintTypeOK
      <3> QED
        BY <1>8, <3>1, ConcatProperties DEF WorkFailed
    <2>8. OneNodeInWork'
      BY <2>3, <2>5 DEF OneNodeInWork
    <2>9. MirrorCountsTheGraph'
      BY <1>3, <2>2, <2>3, <2>4, <2>5, <2>7 DEF BridgeInv, MirrorCountsTheGraph, Shows
    <2>10. BridgeTypes'
      BY <1>2, <1>4, <1>5, <2>4, <2>5 DEF BridgeInv, BridgeTypes, Shows
    <2>11. LoopControl' /\ Drained'
      BY <1>2, <1>5, <2>1, <2>5, <2>6 DEF LoopControl, Drained, Drains, Exited
    <2> QED
      BY <1>1, <2>8, <2>9, <2>10, <2>11 DEF BridgeInv
  <1>9. CASE WorkRaised
    <2>1. /\ UNCHANGED <<state, graph, current, store>> /\ emitted' = <<>>
          /\ pc' = "exit1" /\ steps' = steps
      BY <1>2, <1>9 DEF WorkRaised
    <2>2. mirror' = mirror
      BY <1>2, <2>1, NoCallEffect DEF Observed, Forward
    <2>3. \A t : StatusIs(t)' = StatusIs(t)
      BY <2>1 DEF StatusIs
    <2>4. OneNodeInWork' /\ MirrorCountsTheGraph'
      BY <2>1, <2>2, <2>3 DEF BridgeInv, OneNodeInWork, MirrorCountsTheGraph
    <2>5. BridgeTypes'
      BY <1>3, <1>4, <1>5, <2>1, <2>2 DEF BridgeInv, BridgeTypes, Exited
    <2>6. LoopControl' /\ Drained'
      BY <1>1, <2>1 DEF LoopControl, Drained, Drains, Exited
    <2> QED
      BY <1>1, <2>4, <2>5, <2>6 DEF BridgeInv
  <1> QED
    BY <1>7, <1>8, <1>9, WorkEffect

LEMMA BridgeInvStep == BridgeInv /\ [BridgeNext]_bridgeVars => BridgeInv'
  BY StartStep, PlanStep, DrainStep, NextNodeStep, WorkStep, EndStep, StutterStep DEF BridgeNext

LEMMA BridgeInvariant == BridgeSpec => []BridgeInv
  BY BridgeInvInit, BridgeInvStep, PTL DEF BridgeSpec

(* The types of the whole process: kernel, mirror, loop counter and lines. *)
THEOREM BridgeIsTyped == BridgeSpec => []BridgeTypeOK
  <1>1. BridgeInv => BridgeTypeOK
    BY DEF BridgeInv, BridgeTypes, BridgeTypeOK, TypeInv, TypeOK, Line
  <1> QED
    BY <1>1, BridgeInvariant, PTL

(* run_bridge works on one node at a time, the current one.                *)
THEOREM OneAtATime == BridgeSpec => []OneNodeInWork
  <1>1. BridgeInv => OneNodeInWork
    BY DEF BridgeInv
  <1> QED
    BY <1>1, BridgeInvariant, PTL

(* The panel's counters are those of the graph after every kernel call.    *)
THEOREM PanelCountsTheGraph == BridgeSpec => []MirrorCountsTheGraph
  <1>1. BridgeInv => MirrorCountsTheGraph
    BY DEF BridgeInv
  <1> QED
    BY <1>1, BridgeInvariant, PTL

(* When the process has ended, its last snapshot line shows the mirror.    *)
THEOREM LastLineIsCurrent == BridgeSpec => []FinalLineIsCurrent
  <1>1. BridgeInv => FinalLineIsCurrent
    BY DEF BridgeInv, Drained, FinalLineIsCurrent
  <1> QED
    BY <1>1, BridgeInvariant, PTL

-----------------------------------------------------------------------------
(***************************************************************************)
(* The bridge keeps the promise of SprintRun.  Plan, Needs, Doing and Over *)
(* are what the mapping of Run makes of the state of the process.          *)
(***************************************************************************)
Plan == IF graph = None THEN {} ELSE Nodes(graph)
Needs == IF graph = None THEN {} ELSE graph.edges
Doing == IF state = "NODE_READY" THEN current ELSE None
Over == pc \in {"drain_last", "complete"} \cup Exited

Mapped == <<Plan, Needs, Doing, StatusIs("done"), Over>>

LEMMA PromiseInit == BridgeInit => Run!RunInit
  <1> SUFFICES ASSUME BridgeInit
               PROVE  Run!RunInit
    OBVIOUS
  <1>1. Plan = {} /\ Needs = {} /\ Doing = None /\ StatusIs("done") = {}
    BY DEF BridgeInit, Init, Plan, Needs, Doing, StatusIs
  <1>2. Over = FALSE
    BY DEF BridgeInit, Over, Exited
  <1> QED
    BY <1>1, <1>2, Zenon DEF Run!RunInit, Plan, Needs, Doing, Over

(* Nothing of the plan changes unless a node is worked on.                 *)
LEMMA PromiseStutter ==
    ASSUME UNCHANGED Mapped
    PROVE  UNCHANGED Run!runVars
  BY Zenon DEF Run!runVars, Mapped, Plan, Needs, Doing, Over

LEMMA PromiseStop ==
    ASSUME Over' = TRUE, UNCHANGED <<Plan, Needs, Doing, StatusIs("done")>>
    PROVE  Run!RunNext
  BY Zenon DEF Run!RunNext, Run!Stop, Plan, Needs, Doing, Over

LEMMA PromiseQuiet ==
    ASSUME BridgeInv, UNCHANGED <<vars, mirror>>
    PROVE  UNCHANGED <<Plan, Needs, Doing, StatusIs("done")>>
  BY DEF vars, Plan, Needs, Doing, StatusIs

LEMMA PromiseEnd ==
    ASSUME BridgeInv, StepsExhausted \/ CompleteLine \/ DrainSnapshots \/ UNCHANGED bridgeVars
    PROVE  [Run!RunNext]_(Run!runVars)
  <1>1. UNCHANGED <<Plan, Needs, Doing, StatusIs("done")>>
    <2>1. UNCHANGED <<vars, mirror>>
      BY DEF StepsExhausted, CompleteLine, DrainSnapshots, Drain, bridgeVars
    <2> QED
      BY <2>1, PromiseQuiet
  <1>2. CASE StepsExhausted
    <2>1. Over' = TRUE
      BY <1>2 DEF StepsExhausted, Over
    <2> QED
      BY <1>1, <2>1, PromiseStop
  <1>3. CASE CompleteLine \/ DrainSnapshots \/ UNCHANGED bridgeVars
    <2>1. Over' = Over
      BY <1>3 DEF CompleteLine, DrainSnapshots, Drain, bridgeVars, Over, Exited
    <2> QED
      BY <1>1, <2>1, PromiseStutter, Zenon DEF Mapped
  <1> QED
    BY <1>2, <1>3

LEMMA PromiseStart ==
    ASSUME BridgeInv, StartCommand
    PROVE  [Run!RunNext]_(Run!runVars)
  <1>1. /\ pc = "start" /\ pc' = "plan" /\ state' = "PLANNING" /\ graph' = None
    BY DEF StartCommand, StartSprint
  <1>2. graph = None /\ state = "IDLE"
    BY <1>1 DEF BridgeInv, LoopControl
  <1>3. UNCHANGED <<Plan, Needs, Doing, StatusIs("done")>>
    BY <1>1, <1>2 DEF Plan, Needs, Doing, StatusIs
  <1>4. Over' = Over
    BY <1>1 DEF Over, Exited
  <1> QED
    BY <1>3, <1>4, PromiseStutter, Zenon DEF Mapped

LEMMA PromisePlan ==
    ASSUME BridgeInv, PlanCommand
    PROVE  [Run!RunNext]_(Run!runVars)
  <1>1. /\ pc = "plan" /\ pc' = "drain_start" /\ state' = "EXECUTING" /\ state = "PLANNING"
    BY DEF PlanCommand, ExecutePlanning
  <1>2. graph = None
    BY <1>1 DEF BridgeInv, LoopControl
  <1>3. PICK m \in Manifests : graph' = FromManifest(m)
    BY DEF PlanCommand, ExecutePlanning
  <1>4. /\ graph' \in Graph /\ graph' # None
        /\ \A n \in Id : graph'.status[n] \in {"absent", "pending"}
    BY <1>3, FromManifestGraph, OrchestratorAssumption
  <1>5. Plan = {} /\ Doing = None /\ StatusIs("done") = {} /\ Doing' = Doing
    BY <1>1, <1>2 DEF Plan, Doing, StatusIs
  <1>6. StatusIs("done")' = StatusIs("done")
    <2>1. StatusIs("done")' = {}
      BY <1>4 DEF StatusIs, Nodes
    <2> QED
      BY <1>5, <2>1
  <1>7. Plan' \in SUBSET Id /\ Needs' \in SUBSET ((Id \cup FailClass) \X Id)
    BY <1>4 DEF Plan, Needs, Nodes, Graph
  <1>8. ~Over /\ Over' = Over
    BY <1>1 DEF Over, Exited
  <1>9. /\ Plan = {} /\ StatusIs("done") = {} /\ Doing = None /\ ~Over
        /\ Plan' \in SUBSET Id
        /\ Needs' \in SUBSET ((Id \cup FailClass) \X Id)
        /\ UNCHANGED <<Doing, StatusIs("done"), Over>>
    BY <1>5, <1>6, <1>7, <1>8, Zenon
  <1>10. Run!MakePlan
    BY <1>9, Zenon DEF Run!MakePlan, Plan, Needs, Doing, Over
  <1> QED
    BY <1>10 DEF Run!RunNext

(* A node that execute_next_node hands out has only finished sources.      *)
LEMMA PromiseNext ==
    ASSUME BridgeInv, NextNodeCommand
    PROVE  [Run!RunNext]_(Run!runVars)
  <1>1. /\ pc = "next"
        /\ pc' = IF raised' THEN "exit1"
                 ELSE IF state' = "NODE_READY" THEN "drain_node" ELSE "drain_last"
    BY DEF NextNodeCommand
  <1>2. graph \in Graph /\ graph # None /\ state \in {"EXECUTING", "NODE_TEST"}
    BY <1>1 DEF BridgeInv, LoopControl, TypeInv, SprintTypeOK
  <1>3. ~Over /\ Doing = None
    BY <1>1, <1>2 DEF Over, Doing, Exited
  <1>4. CASE \/ raised' = TRUE /\ UNCHANGED sprint
             \/ raised' = FALSE /\ state' = "DONE_GATE" /\ UNCHANGED <<graph, current>>
    <2>1. graph' = graph /\ state' # "NODE_READY" /\ pc' \in {"exit1", "drain_last"}
      BY <1>1, <1>2, <1>4 DEF sprint
    <2>2. UNCHANGED <<Plan, Needs, Doing, StatusIs("done")>>
      BY <1>3, <2>1 DEF Plan, Needs, Doing, StatusIs
    <2>3. Over' = TRUE
      BY <2>1 DEF Over, Exited
    <2> QED
      BY <2>2, <2>3, PromiseStop
  <1>5. CASE \E n \in ReadyNodes(graph) :
                /\ graph' = SetStatus(graph, n, "running") /\ current' = n
                /\ raised' = FALSE /\ state' = "NODE_READY"
    <2>1. PICK n \in ReadyNodes(graph) :
                /\ graph' = SetStatus(graph, n, "running") /\ current' = n
                /\ raised' = FALSE /\ state' = "NODE_READY"
      BY <1>5
    <2>2. n \in Id /\ n \in Nodes(graph) /\ graph.status[n] = "pending"
      BY DEF ReadyNodes, Pending, Nodes
    <2>3. /\ graph' \in Graph /\ graph' # None /\ graph'.edges = graph.edges
          /\ graph'.status = [graph.status EXCEPT ![n] = "running"]
      BY <1>2, <2>1, <2>2, SetStatusGraph, OrchestratorAssumption DEF Status
    <2>4. /\ Nodes(graph') = Nodes(graph)
          /\ \A t : StatusIs(t)' = IF t = "running" THEN StatusIs(t) \cup {n}
                                  ELSE StatusIs(t) \ {n}
      BY <1>2, <2>2, <2>3, StatusStep DEF Status
    <2>5. n \notin StatusIs("done")
      BY <1>2, <2>2 DEF StatusIs
    <2>6. UNCHANGED <<Plan, Needs, StatusIs("done")>> /\ n \in Plan \ StatusIs("done")
      <3>1. StatusIs("done")' = StatusIs("done")
        BY <2>4, <2>5
      <3> QED
        BY <1>2, <2>2, <2>3, <2>4, <2>5, <3>1 DEF Plan, Needs
    <2>7. Doing' = n /\ Over' = Over
      BY <1>1, <2>1 DEF Doing, Over, Exited
    <2>8. {e \in Needs : e[2] = n} \subseteq StatusIs("done") \X {n}
      <3> SUFFICES ASSUME NEW e \in graph.edges, e[2] = n
                   PROVE  e \in StatusIs("done") \X {n}
        BY <1>2 DEF Needs
      <3>1. e = <<e[1], n>> /\ e[1] \in Id \cup FailClass
        BY <1>2 DEF Graph
      <3>2. e[1] \in Id /\ graph.status[e[1]] = "done"
        BY <1>2, <3>1, ReadySources
      <3>3. e[1] \in StatusIs("done")
        BY <1>2, <3>2 DEF StatusIs, Nodes
      <3> QED
        BY <3>1, <3>3
    <2>9. Run!Start(n)
      BY <1>3, <2>6, <2>7, <2>8, Zenon DEF Run!Start, Plan, Needs, Doing, Over
    <2> QED
      BY <2>2, <2>9, Zenon DEF Run!RunNext
  <1> QED
    BY <1>4, <1>5 DEF NextNodeCommand, ExecuteNextNode, Returns

LEMMA PromiseWork ==
    ASSUME BridgeInv, Work
    PROVE  [Run!RunNext]_(Run!runVars)
  <1>1. /\ graph \in Graph /\ graph # None /\ current \in Nodes(graph)
        /\ current \in Id /\ graph.status[current] = "running"
    BY WorkEffect
  <1>2. /\ pc = "work"
        /\ raised' = TRUE => pc' = "exit1"
        /\ raised' = FALSE /\ state' = "HEALING" => pc' = "drain_last"
        /\ raised' = FALSE /\ state' # "HEALING" => pc' = "drain_step"
    BY DEF Work
  <1>3. Doing = current /\ Doing # None /\ ~Over
    BY <1>1, <1>2, OrchestratorAssumption DEF BridgeInv, LoopControl, Doing, Over, Exited
  <1>4. current \notin StatusIs("done")
    BY <1>1 DEF StatusIs
  <1>5. CASE WorkDone
    <2>1. /\ graph' \in Graph /\ graph' # None /\ graph'.edges = graph.edges
          /\ graph'.status = [graph.status EXCEPT ![current] = "done"]
      BY <1>1, <1>5, SetStatusGraph, OrchestratorAssumption DEF Status, WorkDone
    <2>2. /\ Nodes(graph') = Nodes(graph)
          /\ \A t : StatusIs(t)' = IF t = "done" THEN StatusIs(t) \cup {current}
                                  ELSE StatusIs(t) \ {current}
      BY <1>1, <2>1, StatusStep DEF Status
    <2>3. UNCHANGED <<Plan, Needs>>
      BY <1>1, <2>1, <2>2 DEF Plan, Needs
    <2>4. StatusIs("done")' = StatusIs("done") \cup {Doing}
      BY <1>3, <2>2
    <2>5. Doing' = None /\ Over' = Over
      BY <1>2, <1>5 DEF WorkDone, Doing, Over, Exited
    <2>6. Run!Finish
      BY <1>3, <2>3, <2>4, <2>5, Zenon DEF Run!Finish, Plan, Needs, Doing, Over
    <2> QED
      BY <2>6, Zenon DEF Run!RunNext
  <1>6. ASSUME NEW class \in FailClass, NEW c \in Constraint, WorkFailed(class, c)
        PROVE  Run!RunNext
    <2>1. /\ graph' \in Graph /\ graph' # None
          /\ graph'.edges = graph.edges \cup {<<class, current>>}
          /\ graph'.status = [graph.status EXCEPT ![current] = "blocked"]
      BY <1>1, <1>6, FailedGraphType, OrchestratorAssumption DEF WorkFailed
    <2>2. /\ Nodes(graph') = Nodes(graph)
          /\ \A t : StatusIs(t)' = IF t = "blocked" THEN StatusIs(t) \cup {current}
                                  ELSE StatusIs(t) \ {current}
      BY <1>1, <2>1, StatusStep DEF Status
    <2>3. StatusIs("done")' = StatusIs("done")
      BY <1>4, <2>2
    <2>4. Plan' = Plan
      BY <1>1, <2>1, <2>2 DEF Plan
    <2>5. Needs' = Needs \cup {<<class, Doing>>} /\ class \in Id \cup FailClass
      BY <1>1, <1>3, <2>1 DEF Needs
    <2>6. Doing' = None /\ Over' = TRUE
      BY <1>2, <1>6 DEF WorkFailed, Doing, Over, Exited
    <2>7. Run!Fail
      BY <1>3, <2>3, <2>4, <2>5, <2>6, Zenon DEF Run!Fail, Plan, Needs, Doing, Over
    <2> QED
      BY <2>7, Zenon DEF Run!RunNext
  <1>7. CASE WorkRaised
    <2>1. UNCHANGED <<state, graph, current>> /\ pc' = "exit1"
      BY <1>2, <1>7 DEF WorkRaised
    <2>2. UNCHANGED <<Plan, Needs, Doing, StatusIs("done")>>
      BY <2>1 DEF Plan, Needs, Doing, StatusIs
    <2>3. Over' = TRUE
      BY <2>1 DEF Over, Exited
    <2> QED
      BY <2>2, <2>3, PromiseStop
  <1> QED
    BY <1>5, <1>6, <1>7, WorkEffect, Zenon

(* The bridge starts as SprintRun does, and each of its steps is one of    *)
(* SprintRun's or leaves what SprintRun speaks of alone: one node at a     *)
(* time, in the order of the edges, and nothing after a failure or after   *)
(* an exception that ends the process in the midst of a node.              *)
THEOREM BridgeKeepsItsPromise ==
    BridgeSpec => Run!RunInit /\ [][Run!RunNext]_(Run!runVars)
  <1>1. BridgeInv /\ [BridgeNext]_bridgeVars => [Run!RunNext]_(Run!runVars)
    BY PromiseStart, PromisePlan, PromiseEnd, PromiseNext, PromiseWork, Zenon DEF BridgeNext
  <1> QED
    BY <1>1, PromiseInit, BridgeInvariant, PTL DEF BridgeSpec
=============================================================================
