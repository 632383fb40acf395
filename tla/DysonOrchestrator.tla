-------------------------- MODULE DysonOrchestrator --------------------------
(***************************************************************************)
(* The sprint state machine of kore/orchestrator.py.  One action per       *)
(* method; a call whose guard raises RuntimeError changes nothing and is   *)
(* no step.  The methods have no caller in common, so every order of calls *)
(* the guards admit is a behaviour.                                        *)
(***************************************************************************)
EXTENDS TaskGraph

CONSTANTS
    Manifests,       \* what spec_to_task_graph makes of the specs considered
    Causes,          \* the type and dependency FailureClassifier may give a constraint
    Scores,          \* what HarnessEngine.run_all may measure
    MaxFailures,     \* bound on the failures of a sprint
    MaxConstraints,  \* bound on the append-only constraint log
    None

ASSUME OrchestratorAssumption ==
    /\ Manifests \subseteq Manifest
    /\ Causes \subseteq [type : ConstraintType, dependency : Dependency]
    /\ Scores \subseteq [gates : BOOLEAN, total : 0 .. 100]
    /\ MaxFailures \in Nat
    /\ MaxConstraints \in Nat
    /\ None \notin Id
    /\ None \notin Graph
    /\ None \notin Scores
    /\ None \notin {"DONE", "PARTIAL", "BLOCKED"}

VARIABLES
    state,        \* current_sprint.state, "IDLE" while there is no sprint
    graph,        \* current_sprint.task_graph
    current,      \* current_sprint.current_node
    failures,     \* current_sprint.failures, the class and the node of each
    constraints,  \* the number of entries of current_sprint.constraints
    score,        \* current_sprint.harness_score
    verdict,      \* current_sprint.done_verdict
    store,        \* the log of the ConstraintStore
    autonomy,
    raised,       \* the last call ended in an exception of the kernel's own
    emitted       \* the events the last call handed to the listeners

sprint == <<state, graph, current, failures, constraints, score, verdict>>
vars == <<state, graph, current, failures, constraints, score, verdict,
          store, autonomy, raised, emitted>>

DysonState == {"IDLE", "PLANNING", "EXECUTING", "NODE_READY", "NODE_REVIEW", "NODE_TEST",
               "HEALING", "DONE_GATE", "HUMAN_GATE", "SPRINT_DONE", "BLOCKED"}

DoneVerdict == {"DONE", "PARTIAL", "BLOCKED"}

Failure == [class : FailClass, node : Id]

EventType == {"sprint_started", "state_change", "node_done", "node_blocked",
              "road_update", "constraint_added", "score_update", "sprint_done"}

(* What a listener reads of an event: the payload keys "to", "node_id" and *)
(* "node_count".  None stands for a key the payload does not have.         *)
Event == [type : EventType, to : DysonState \cup {None}, node : Id \cup {None},
          count : Nat \cup {None}]

SprintTypeOK ==
    /\ state \in DysonState
    /\ graph \in Graph \cup {None}
    /\ current \in Id \cup {None}
    /\ failures \in Seq(Failure)
    /\ constraints \in Nat
    /\ score \in Scores \cup {None}
    /\ verdict \in DoneVerdict \cup {None}
    /\ store \in Seq(Constraint)
    /\ autonomy \in {"FULL_AUTO", "PAUSED"}

CallTypeOK == raised \in BOOLEAN /\ emitted \in Seq(Event)

TypeOK == SprintTypeOK /\ CallTypeOK

Init ==
    /\ state = "IDLE"
    /\ graph = None
    /\ current = None
    /\ failures = <<>>
    /\ constraints = 0
    /\ score = None
    /\ verdict = None
    /\ store = <<>>
    /\ autonomy = "FULL_AUTO"
    /\ raised = FALSE
    /\ emitted = <<>>

-----------------------------------------------------------------------------
Plain(type) == [type |-> type, to |-> None, node |-> None, count |-> None]
OfNode(type, n) == [Plain(type) EXCEPT !.node = n]
To(s) == [Plain("state_change") EXCEPT !.to = s]
ToWith(s, n) == [To(s) EXCEPT !.node = n]
ToCounted(s, k) == [To(s) EXCEPT !.count = k]

(* A call that returns, with the events it emitted.                        *)
Returns(events) == raised' = FALSE /\ emitted' = events

-----------------------------------------------------------------------------
StartSprint ==
    /\ state \in {"IDLE", "SPRINT_DONE", "BLOCKED"}
    /\ state' = "PLANNING"
    /\ graph' = None
    /\ current' = None
    /\ failures' = <<>>
    /\ constraints' = 0
    /\ score' = None
    /\ verdict' = None
    /\ Returns(<<Plain("sprint_started"), To("PLANNING")>>)
    /\ UNCHANGED <<store, autonomy>>

ExecutePlanning ==
    /\ state = "PLANNING"
    /\ \E m \in Manifests :
          LET g == FromManifest(m) IN
          /\ graph' = g
          /\ Returns(<<ToCounted("EXECUTING", Cardinality(Nodes(g)))>>)
    /\ state' = "EXECUTING"
    /\ UNCHANGED <<current, failures, constraints, score, verdict, store, autonomy>>

(* The best ready node is set running.  No ready node means DONE_GATE,     *)
(* whatever the status of the remaining nodes.                             *)
ExecuteNextNode ==
    /\ graph # None
    /\ autonomy # "PAUSED"
    /\ \/ /\ ReadyMayRaise(graph)
          /\ raised' = TRUE
          /\ emitted' = <<>>
          /\ UNCHANGED sprint
       \/ /\ ReadyMayReturn(graph)
          /\ ReadyNodes(graph) = {}
          /\ state' = "DONE_GATE"
          /\ Returns(<<To("DONE_GATE")>>)
          /\ UNCHANGED <<graph, current, failures, constraints, score, verdict>>
       \/ /\ ReadyMayReturn(graph)
          /\ \E n \in ReadyNodes(graph) :
                /\ IsRoadHead(graph, n)
                /\ graph' = SetStatus(graph, n, "running")
                /\ current' = n
                /\ Returns(<<ToWith("NODE_READY", n)>>)
          /\ state' = "NODE_READY"
          /\ UNCHANGED <<failures, constraints, score, verdict>>
    /\ UNCHANGED <<store, autonomy>>

(***************************************************************************)
(* complete_node: the node is done whatever its result; a critic's         *)
(* FailureNote is recorded and becomes an edge first.  node.done is        *)
(* emitted last, after the state change.                                   *)
(***************************************************************************)
Complete(n, next) ==
    /\ graph' = SetStatus(graph, n, "done")
    /\ state' = next
    /\ Returns(<<ToWith(next, n), OfNode("node_done", n)>>)
    /\ UNCHANGED <<current, failures, constraints, score, verdict, store, autonomy>>

RejectedByCritic(n, class) ==
    /\ Len(failures) < MaxFailures
    /\ graph' = AddEdge(SetStatus(graph, n, "done"), class, n)
    /\ failures' = Append(failures, [class |-> class, node |-> n])
    /\ constraints' = constraints + 1
    /\ state' = "HEALING"
    /\ Returns(<<OfNode("road_update", n), ToWith("HEALING", n), OfNode("node_done", n)>>)
    /\ UNCHANGED <<current, score, verdict, store, autonomy>>

CompleteNode ==
    /\ current # None
    /\ \/ Complete(current, "NODE_TEST")
       \/ Role[current] = "builder" /\ Complete(current, "NODE_REVIEW")
       \/ Role[current] = "critic" /\ \E class \in FailClass : RejectedByCritic(current, class)

(***************************************************************************)
(* fail_node: the optional constraint goes to the log, the node is         *)
(* blocked, the failure is recorded and becomes an edge from its class.    *)
(***************************************************************************)
\* Mutant of FailedGraph: the failure teaches no edge.
FailedGraphUntaught(n, class) == SetStatus(graph, n, "blocked")

FailedGraph(n, class) == AddEdge(SetStatus(graph, n, "blocked"), class, n)

FailureEvents(n, new) ==
    [k \in 1 .. Len(new) |-> Plain("constraint_added")]
        \o <<OfNode("road_update", n), OfNode("node_blocked", n), ToWith("HEALING", n)>>

(* The classifier blocks the node of the failing tool call.                *)
ConstraintOn(n, cause) ==
    [type |-> cause.type, blocked |-> n, dependency |-> cause.dependency]

RecordFailure(n, class, new) ==
    /\ Len(failures) < MaxFailures
    /\ Len(store) + Len(new) <= MaxConstraints
    /\ failures' = Append(failures, [class |-> class, node |-> n])
    /\ constraints' = constraints + 1
    /\ store' = store \o new

FailNode ==
    /\ current # None
    /\ \E class \in FailClass,
          new \in {<<>>} \cup {<<ConstraintOn(current, cause)>> : cause \in Causes} :
          /\ RecordFailure(current, class, new)
          /\ graph' = FailedGraph(current, class)
          /\ Returns(FailureEvents(current, new))
    /\ state' = "HEALING"
    /\ UNCHANGED <<current, score, verdict, autonomy>>

(***************************************************************************)
(* heal_and_replan on graph g and log: every constraint is applied, then   *)
(* the head of the road is set running, or else the first pending node,    *)
(* whose dependencies are then not done.  KeyError leaves the state and    *)
(* keeps what was applied.  before: the state and events so far.           *)
(***************************************************************************)
Replanned(g, n) ==
    \/ IsRoadHead(g, n)
    \/ ReadyNodes(g) = {} /\ IsFirstPending(g, n)

Heal(g, log, before, events) ==
    LET h == ApplyConstraints(g, log) IN
    \/ /\ ReadyMayRaise(h)
       /\ graph' = h
       /\ state' = before
       /\ raised' = TRUE
       /\ emitted' = events
       /\ UNCHANGED current
    \/ /\ ReadyMayReturn(h)
       /\ Pending(h) = {}
       /\ graph' = h
       /\ state' = "HUMAN_GATE"
       /\ Returns(Append(events, To("HUMAN_GATE")))
       /\ UNCHANGED current
    \/ /\ ReadyMayReturn(h)
       /\ \E n \in Pending(h) :
             /\ Replanned(h, n)
             /\ graph' = SetStatus(h, n, "running")
             /\ current' = n
             /\ Returns(Append(events, ToWith("EXECUTING", n)))
       /\ state' = "EXECUTING"

HealAndReplan ==
    /\ graph # None
    /\ Heal(graph, store, state, <<>>)
    /\ UNCHANGED <<failures, constraints, score, verdict, store, autonomy>>

(***************************************************************************)
(* execute_builder_node: a session of tool calls ends in a CodeDelta, or   *)
(* in a BuilderFailure on this node, healed in the same call by default.   *)
(* Of its exceptions only KoreExecFatalError is caught (a failure as any   *)
(* other); an OSError of a mocked tool or a ValueError of an unknown       *)
(* status leaves the call with the node running.                           *)
(***************************************************************************)
BuilderFails(class, c, autoRecover) ==
    /\ RecordFailure(current, class, <<c>>)
    /\ IF autoRecover
       THEN Heal(FailedGraph(current, class), Append(store, c), "HEALING",
                 FailureEvents(current, <<c>>))
       ELSE /\ graph' = FailedGraph(current, class)
            /\ state' = "HEALING"
            /\ Returns(FailureEvents(current, <<c>>))
            /\ UNCHANGED current
    /\ UNCHANGED <<score, verdict, autonomy>>

SessionRaises ==
    /\ raised' = TRUE
    /\ emitted' = <<>>
    /\ UNCHANGED <<sprint, store, autonomy>>

ExecuteBuilderNode(autoRecover) ==
    /\ current # None
    /\ Role[current] = "builder"
    /\ \/ Complete(current, "NODE_TEST")
       \/ SessionRaises
       \/ \E class \in FailClass, cause \in Causes :
             BuilderFails(class, ConstraintOn(current, cause), autoRecover)

-----------------------------------------------------------------------------
\* Mutant of GateVerdict: the hard gates are not asked for.
GateVerdictByTotal(s) ==
    IF s.total >= 75 THEN "DONE" ELSE IF s.total >= 70 THEN "PARTIAL" ELSE "BLOCKED"

(* DoneGate.evaluate_sprint and to_done_verdict; HarnessScore.verdict.     *)
GateVerdict(s) ==
    IF ~s.gates THEN "BLOCKED"
    ELSE IF s.total >= 75 THEN "DONE"
    ELSE IF s.total >= 70 THEN "PARTIAL" ELSE "BLOCKED"

LegacyVerdict(s) ==
    IF ~s.gates THEN "BLOCKED"
    ELSE IF s.total >= 90 THEN "DONE"
    ELSE IF s.total >= 70 THEN "PARTIAL" ELSE "BLOCKED"

RunHarnessAndFinalize ==
    /\ state # "IDLE"
    /\ \E s \in Scores :
          /\ score' = s
          /\ verdict' = GateVerdict(s)
          /\ state' = IF GateVerdict(s) = "BLOCKED" THEN "BLOCKED" ELSE "SPRINT_DONE"
          /\ Returns(<<To("DONE_GATE"), Plain("score_update")>>
                \o IF GateVerdict(s) = "BLOCKED" THEN <<To("BLOCKED")>>
                   ELSE <<To("SPRINT_DONE"), Plain("sprint_done")>>)
    /\ UNCHANGED <<graph, current, failures, constraints, store, autonomy>>

(* finalize_sprint with a score: SPRINT_DONE whatever the verdict.         *)
FinalizeSprint ==
    /\ score # None
    /\ verdict' = LegacyVerdict(score)
    /\ state' = "SPRINT_DONE"
    /\ Returns(<<To("SPRINT_DONE")>>)
    /\ UNCHANGED <<graph, current, failures, constraints, score, store, autonomy>>

-----------------------------------------------------------------------------
(* _emit drops every event while there is no sprint.                       *)
AutonomyEvent == IF state = "IDLE" THEN <<>> ELSE <<Plain("state_change")>>

Pause ==
    /\ autonomy' = "PAUSED"
    /\ Returns(AutonomyEvent)
    /\ UNCHANGED <<sprint, store>>

Resume ==
    /\ autonomy' = "FULL_AUTO"
    /\ Returns(AutonomyEvent)
    /\ UNCHANGED <<sprint, store>>

(* The sprint is dropped before the event, which nobody receives.          *)
Abort ==
    /\ state' = "IDLE"
    /\ graph' = None
    /\ current' = None
    /\ failures' = <<>>
    /\ constraints' = 0
    /\ score' = None
    /\ verdict' = None
    /\ Returns(<<>>)
    /\ UNCHANGED <<store, autonomy>>

(* human_decision("proceed"); "cancel" is Abort.                           *)
Proceed ==
    /\ autonomy' = "FULL_AUTO"
    /\ IF state = "IDLE"
       THEN state' = state /\ Returns(<<>>)
       ELSE state' = "EXECUTING" /\ Returns(<<To("EXECUTING")>>)
    /\ UNCHANGED <<graph, current, failures, constraints, score, verdict, store>>

Next ==
    \/ StartSprint
    \/ ExecutePlanning
    \/ ExecuteNextNode
    \/ \E autoRecover \in BOOLEAN : ExecuteBuilderNode(autoRecover)
    \/ CompleteNode
    \/ FailNode
    \/ HealAndReplan
    \/ RunHarnessAndFinalize
    \/ FinalizeSprint
    \/ Pause
    \/ Resume
    \/ Abort
    \/ Proceed

Spec == Init /\ [][Next]_vars

-----------------------------------------------------------------------------
FailedNodes == {failures[k].node : k \in DOMAIN failures}

(* Every recorded failure is an edge from its class into its node: the     *)
(* failure-as-constraint rule of _inject_constraint, whichever of the      *)
(* three methods recorded it, and nothing that runs later removes it.      *)
FailuresAreEdges ==
    /\ Len(failures) = constraints
    /\ failures # <<>> => graph # None
    /\ \A k \in DOMAIN failures : <<failures[k].class, failures[k].node>> \in graph.edges

(* A node that has failed is not ready, and not the one handed out by      *)
(* execute_next_node, unless a module bears the name of its failure class  *)
(* and is done: a class that is no node is never done.  After fail_node    *)
(* only Replanner's fallback can select the node again.                    *)
FailedWaitsForItsClass ==
    graph # None =>
        /\ \A n \in Id : graph.status[n] = "blocked" => n \in FailedNodes
        /\ \A k \in DOMAIN failures :
              \/ failures[k].node \in ReadyNodes(graph)
              \/ state = "NODE_READY" /\ failures[k].node = current
              => failures[k].class \in Id /\ graph.status[failures[k].class] = "done"

(* The states that speak of a node have one, that node is in the graph,    *)
(* and the node of a HEALING or NODE_READY state has the matching past.    *)
ActiveNodeIsKnown ==
    /\ state \in {"NODE_READY", "NODE_REVIEW", "NODE_TEST", "HEALING"} => current # None
    /\ current # None => graph # None /\ current \in Nodes(graph)
    /\ state = "HEALING" => failures # <<>>
    /\ state = "NODE_READY" => graph.status[current] = "running"
    /\ state \in {"NODE_TEST", "NODE_REVIEW"} => graph.status[current] = "done"

(* A sprint ends only with a measured score, BLOCKED only with the verdict *)
(* BLOCKED, and no verdict above BLOCKED without the hard gates.           *)
EndedSprintIsJudged ==
    /\ state \in {"SPRINT_DONE", "BLOCKED"} => score # None /\ verdict # None
    /\ state = "BLOCKED" => verdict = "BLOCKED"
    /\ verdict \in {"DONE", "PARTIAL"} => score.gates /\ score.total >= 70

(* A finished node leaves "done" only by a failure recorded against it.    *)
DoneIsUndoneOnlyByFailure ==
    [][graph # None /\ graph' # None =>
          \A n \in Id : graph.status[n] = "done" /\ graph'.status[n] # "done"
                            => n \in FailedNodes']_vars

(* Within a sprint the graph only grows: replanning never drops a node or  *)
(* an edge that an earlier failure taught.                                 *)
GraphOnlyGrows ==
    [][graph # None /\ graph' # None =>
          Nodes(graph) \subseteq Nodes(graph') /\ graph.edges \subseteq graph'.edges]_vars

(* Entry k is the first of the log, which outlives the sprints, that asks  *)
(* for node d.                                                             *)
FirstAsks(log, k, d) ==
    /\ log[k].type = "missing_dep" /\ DepNode[log[k].dependency] = d
    /\ \A i \in 1 .. k - 1 : log[i].type = "missing_dep" => DepNode[log[i].dependency] # d

(* A node that appears within a sprint was asked for.  What the first      *)
(* entry that asked blocked waits for it, if it is in the graph, even when *)
(* that entry is of an earlier sprint; a node blocked by a later entry     *)
(* that asks for the same is set pending without an edge, and waits only   *)
(* if a blocked path or a failure class of that name tells it to.          *)
OnlyTheFirstAskerWaits ==
    [][graph # None /\ graph' # None =>
          \A d \in Nodes(graph') \ Nodes(graph) : \E k \in DOMAIN store' :
              /\ FirstAsks(store', k, d)
              /\ store'[k].blocked \in Nodes(graph) => <<d, store'[k].blocked>> \in graph'.edges
              /\ \A n \in Id : <<d, n>> \in graph'.edges \ graph.edges =>
                    \/ n = store'[k].blocked
                    \/ \E i \in DOMAIN store' : store'[i] = [type |-> "path_blocked",
                                                           dependency |-> d, blocked |-> n]
                    \/ \E i \in DOMAIN failures' : failures'[i] = [class |-> d, node |-> n]]_vars

(* "HEALING -> EXECUTING via dyson_road.replan oder -> HUMAN_GATE (unsat)", *)
(* the docstring of heal_and_replan, whenever it is called.                *)
HealingLeadsOn ==
    [][HealAndReplan => state' \in {"EXECUTING", "HUMAN_GATE"}]_vars
=============================================================================
