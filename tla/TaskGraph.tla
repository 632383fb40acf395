------------------------------ MODULE TaskGraph ------------------------------
(***************************************************************************)
(* The task graph of kore/task_graph.py, the constraint application of     *)
(* kore/dyson_road.py and the selection of kore/replanner.py, as operators *)
(* on a graph value.  A graph is a record:                                 *)
(*   rank    insertion position in the dict self.nodes, 0 for an id that   *)
(*           is not a key of it                                            *)
(*   status  TaskNode.status, "absent" for an id that is not a key         *)
(*   risk    TaskNode.risk_score in tenths                                 *)
(*   edges   the pairs <<source, target>> of _adjacency and _incoming      *)
(* An edge source need not be a node: a FailureClass is the source of the  *)
(* edge its failures add, and an EDGE line may mention any name.  The      *)
(* members of FailureClass are strings, so that a module of the spec may   *)
(* bear the name of one.                                                   *)
(***************************************************************************)
EXTENDS Integers, Sequences, FiniteSets

CONSTANTS
    Id,          \* ids a task node may have, and names an EDGE line may mention
    FailClass,   \* FailureClass
    Dependency,  \* what Constraint.dependency may be: a node id or a file path
    DepNode,     \* path_to_node_id: lower-cased, slugged and cut to 48 characters,
                 \* so two paths may be given the same node id
    Role,        \* TaskNode.role of each id
    Gain         \* progress_gain * context_retention of each id, in hundredths

ASSUME IdAssumption ==
    /\ IsFiniteSet(Id)
    /\ DepNode \in [Dependency -> Id]
    /\ Role \in [Id -> {"builder", "critic", "other"}]
    /\ Gain \in [Id -> Nat]

Status == {"absent", "pending", "running", "done", "blocked"}
ConstraintType == {"missing_dep", "path_blocked", "behavior_wrong", "spec_unclear"}
Constraint == [type : ConstraintType, blocked : Id, dependency : Dependency]
Risk == 0 .. 10

Graph == [rank : [Id -> Nat], status : [Id -> Status], risk : [Id -> Risk],
          edges : SUBSET ((Id \cup FailClass) \X Id)]

(* A manifest is what spec_to_task_graph makes of a spec: the MODULE lines *)
(* by position, their risks and the edges of EDGE lines and depends_on.    *)
Manifest == [rank : [Id -> Nat], risk : [Id -> Risk], edges : SUBSET (Id \X Id)]

-----------------------------------------------------------------------------
Nodes(g) == {n \in Id : g.status[n] # "absent"}

Incoming(g, n) == {d \in Id \cup FailClass : <<d, n>> \in g.edges}

FromManifest(m) ==
    [rank   |-> m.rank,
     status |-> [n \in Id |-> IF m.rank[n] = 0 THEN "absent" ELSE "pending"],
     risk   |-> m.risk,
     edges  |-> m.edges]

SetStatus(g, n, s) == [g EXCEPT !.status[n] = s]

\* Mutants of AddEdge: the ends swapped; the earlier edges of the target lost.
AddEdgeReversed(g, source, target) == [g EXCEPT !.edges = @ \cup {<<target, source>>}]
AddEdgeReplacing(g, source, target) ==
    [g EXCEPT !.edges = {e \in @ : e[2] # target} \cup {<<source, target>>}]

AddEdge(g, source, target) == [g EXCEPT !.edges = @ \cup {<<source, target>>}]

(***************************************************************************)
(* get_ready_nodes asks self.nodes[d].status of every source d of an edge  *)
(* into a pending node.  A source that is not a node raises KeyError,      *)
(* unless all() met an unfinished node first: the sources are a set of     *)
(* strings, whose iteration order depends on the interpreter's hash seed.  *)
(***************************************************************************)
Pending(g) == {n \in Id : g.status[n] = "pending"}

Foreign(g, n) == Incoming(g, n) \ Nodes(g)

Unfinished(g, n) == {d \in Incoming(g, n) \cap Nodes(g) : g.status[d] # "done"}

\* Mutant of ReadyNodes: a node is ready while its sources are unfinished.
ReadyNodesEager(g) == {n \in Pending(g) : Foreign(g, n) = {}}

ReadyNodes(g) == {n \in Pending(g) : Foreign(g, n) = {} /\ Unfinished(g, n) = {}}

ReadyMayRaise(g) == \E n \in Pending(g) : Foreign(g, n) # {}

ReadyMayReturn(g) == \A n \in Pending(g) : Foreign(g, n) # {} => Unfinished(g, n) # {}

(* dyson_road_score is gain / max(risk, 0.1); compared without dividing.   *)
Weight(g, n) == IF g.risk[n] = 0 THEN 1 ELSE g.risk[n]

ScoresAtLeast(g, a, b) == Gain[a] * Weight(g, b) >= Gain[b] * Weight(g, a)

(* The head of compute_dyson_road: the best score, ties by insertion.      *)
IsRoadHead(g, n) ==
    /\ n \in ReadyNodes(g)
    /\ \A m \in ReadyNodes(g) :
          /\ ScoresAtLeast(g, n, m)
          /\ ScoresAtLeast(g, m, n) => g.rank[n] <= g.rank[m]

(* Replanner.check falls back to the first pending node by insertion.      *)
IsFirstPending(g, n) ==
    /\ n \in Pending(g)
    /\ \A m \in Pending(g) : g.rank[n] <= g.rank[m]

-----------------------------------------------------------------------------
(***************************************************************************)
(* apply_constraint: a missing dependency becomes a node, once, with an    *)
(* edge to the node it blocks when it is new; a blocked path becomes an    *)
(* edge between two nodes; every constraint sets its blocked node pending. *)
(***************************************************************************)
\* Mutant of ResetBlockedNode: without its test of the status.
ResetBlockedNodeAny(g, n) ==
    IF g.status[n] # "absent" THEN SetStatus(g, n, "pending") ELSE g

ResetBlockedNode(g, n) ==
    IF g.status[n] = "blocked" THEN SetStatus(g, n, "pending") ELSE g

AddNode(g, n) ==
    [g EXCEPT !.rank[n] = 1 + Cardinality(Nodes(g)), !.status[n] = "pending", !.risk[n] = 2]

AddEdgeBetweenNodes(g, source, target) ==
    IF {source, target} \subseteq Nodes(g) THEN AddEdge(g, source, target) ELSE g

\* Mutant of ApplyMissingDep: the edge is added for every constraint that asks.
ApplyMissingDepAgain(g, dep, blocked) ==
    AddEdgeBetweenNodes(IF dep \in Nodes(g) THEN g ELSE AddNode(g, dep), dep, blocked)

ApplyMissingDep(g, dep, blocked) ==
    IF dep \in Nodes(g) THEN g ELSE AddEdgeBetweenNodes(AddNode(g, dep), dep, blocked)

ApplyConstraint(g, c) ==
    ResetBlockedNode(
        CASE c.type = "missing_dep"  -> ApplyMissingDep(g, DepNode[c.dependency], c.blocked)
          [] c.type = "path_blocked" -> AddEdgeBetweenNodes(g, c.dependency, c.blocked)
          [] OTHER                   -> g,
        c.blocked)

(* The loop of replan: every constraint of the log, oldest first.          *)
ApplyConstraints(g, log) ==
    LET after[k \in 0 .. Len(log)] ==
            IF k = 0 THEN g ELSE ApplyConstraint(after[k - 1], log[k])
    IN  after[Len(log)]
=============================================================================
