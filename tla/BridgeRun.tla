------------------------------ MODULE BridgeRun ------------------------------
(***************************************************************************)
(* kore/ui/electron_bridge.py: one Python process that starts a sprint,    *)
(* works through at most MaxSteps nodes and writes a line to stdout for    *)
(* each kernel event.  The process is one asyncio task; between two awaits *)
(* nothing else runs, and the publish tasks run at the sleep(0) with which *)
(* drain_snapshots begins.                                                 *)
(***************************************************************************)
EXTENDS MissionControl

CONSTANT MaxSteps     \* --max-steps, at least 1

ASSUME StepsAssumption == MaxSteps \in Nat \ {0}

VARIABLES
    pc,        \* where run_bridge is
    steps,     \* its counter of finished nodes
    pending,   \* events with a publish task or in the queue, not yet drained
    lines      \* the snapshot lines written: the event and the mirror shown

bridgeVars == <<vars, mirror, pc, steps, pending, lines>>

Exited == {"exit0", "exit1"}

BridgeTypeOK ==
    /\ TypeOK
    /\ mirror \in Mirror
    /\ pc \in {"start", "plan", "drain_start", "next", "drain_node", "work", "drain_step",
               "drain_last", "complete"} \cup Exited
    /\ steps \in 0 .. MaxSteps
    /\ pending \in Seq(Event)
    /\ lines \in Seq([event : Event, state : Mirror])

BridgeInit ==
    /\ Init
    /\ mirror = EmptyMirror
    /\ pc = "start"
    /\ steps = 0
    /\ pending = <<>>
    /\ lines = <<>>

-----------------------------------------------------------------------------
(* A kernel call: its events reach the mirror and wait to be drained.      *)
Observed ==
    /\ Forward
    /\ pending' = pending \o emitted'
    /\ UNCHANGED lines

(* mc.command("start_sprint") is these two calls without an await between. *)
StartCommand ==
    /\ pc = "start"
    /\ StartSprint
    /\ Observed
    /\ pc' = "plan"
    /\ UNCHANGED steps

PlanCommand ==
    /\ pc = "plan"
    /\ ExecutePlanning
    /\ Observed
    /\ pc' = "drain_start"
    /\ UNCHANGED steps

(* Every event gets a line of its own, but each line shows the mirror as   *)
(* it is when the queue is drained.                                        *)
Drain(from, to) ==
    /\ pc = from
    /\ pc' = to
    /\ lines' = lines \o [k \in DOMAIN pending |-> [event |-> pending[k], state |-> mirror]]
    /\ pending' = <<>>
    /\ UNCHANGED <<vars, mirror, steps>>

DrainSnapshots ==
    \/ Drain("drain_start", "next")
    \/ Drain("drain_node", "work")
    \/ Drain("drain_step", "next")
    \/ Drain("drain_last", "complete")

\* Mutant of NextNodeCommand: the loop asks for the next node again without
\* working on this one.
NextNodeUnworked ==
    /\ pc = "next"
    /\ steps < MaxSteps
    /\ ExecuteNextNode
    /\ Observed
    /\ pc' = IF raised' THEN "exit1"
             ELSE IF state' = "NODE_READY" THEN "drain_step" ELSE "drain_last"
    /\ UNCHANGED steps

(* An exception of the kernel ends the process with an error line.         *)
NextNodeCommand ==
    /\ pc = "next"
    /\ steps < MaxSteps
    /\ ExecuteNextNode
    /\ Observed
    /\ pc' = IF raised' THEN "exit1"
             ELSE IF state' = "NODE_READY" THEN "drain_node" ELSE "drain_last"
    /\ UNCHANGED steps

\* Mutant of Work: a failure leaves the loop without draining.
WorkUndrained ==
    /\ pc = "work"
    /\ IF Role[current] = "builder"
       THEN ExecuteBuilderNode(FALSE)
       ELSE Complete(current, "NODE_TEST")
    /\ Observed
    /\ pc' = IF raised' THEN "exit1"
             ELSE IF state' = "HEALING" THEN "complete" ELSE "drain_step"
    /\ steps' = IF pc' = "drain_step" THEN steps + 1 ELSE steps

(* A builder node is executed without recovery, any other one completed.   *)
(* An exception of the session ends the process in the midst of the node.  *)
Work ==
    /\ pc = "work"
    /\ IF Role[current] = "builder"
       THEN ExecuteBuilderNode(FALSE)
       ELSE Complete(current, "NODE_TEST")
    /\ Observed
    /\ pc' = IF raised' THEN "exit1"
             ELSE IF state' = "HEALING" THEN "drain_last" ELSE "drain_step"
    /\ steps' = IF pc' = "drain_step" THEN steps + 1 ELSE steps

\* Mutant of StepsExhausted: off by one.
StepsExhaustedLate ==
    /\ pc = "next"
    /\ steps > MaxSteps
    /\ pc' = "complete"
    /\ UNCHANGED <<vars, mirror, steps, pending, lines>>

StepsExhausted ==
    /\ pc = "next"
    /\ steps = MaxSteps
    /\ pc' = "complete"
    /\ UNCHANGED <<vars, mirror, steps, pending, lines>>

CompleteLine ==
    /\ pc = "complete"
    /\ pc' = "exit0"
    /\ UNCHANGED <<vars, mirror, steps, pending, lines>>

BridgeNext ==
    \/ StartCommand
    \/ PlanCommand
    \/ DrainSnapshots
    \/ NextNodeCommand
    \/ Work
    \/ StepsExhausted
    \/ CompleteLine

(* The process is scheduled as long as it can run; tool calls end, each    *)
(* backend puts a timeout on them.                                         *)
BridgeSpec == BridgeInit /\ [][BridgeNext]_bridgeVars /\ WF_bridgeVars(BridgeNext)

-----------------------------------------------------------------------------
StatusIs(s) == IF graph = None THEN {} ELSE {n \in Nodes(graph) : graph.status[n] = s}

(* The node in work is the current node, and there is no other.            *)
OneNodeInWork ==
    StatusIs("running") = IF state = "NODE_READY" THEN {current} ELSE {}

(* The panel counts what the graph holds, between any two kernel calls.    *)
MirrorCountsTheGraph ==
    /\ mirror.completed = Cardinality(StatusIs("done"))
    /\ state \notin {"IDLE", "PLANNING"} => mirror.total = Cardinality(Nodes(graph))
    /\ mirror.node = current
    /\ mirror.learned = Len(store)

(* The complete line shows no more than the last snapshot line: whatever   *)
(* the kernel did before the end, it was drained first.                    *)
FinalLineIsCurrent ==
    pc = "exit0" => /\ pending = <<>>
                    /\ lines # <<>>
                    /\ lines[Len(lines)].state = mirror

(* The process ends.                                                       *)
Termination == <>(pc \in Exited)

(* "Alle Knoten done -> DONE_GATE", the comment in execute_next_node.       *)
DoneGateMeansDone ==
    state = "DONE_GATE" => StatusIs("done") = Nodes(graph)

Run == INSTANCE SprintRun WITH
    Node   <- Id,
    Source <- Id \cup FailClass,
    Nobody <- None,
    plan   <- IF graph = None THEN {} ELSE Nodes(graph),
    needs  <- IF graph = None THEN {} ELSE graph.edges,
    doing  <- IF state = "NODE_READY" THEN current ELSE None,
    done   <- StatusIs("done"),
    over   <- pc \in {"drain_last", "complete"} \cup Exited

(* The bridge keeps the promise of SprintRun: one node at a time, in the   *)
(* order of the edges, never undone, nothing started after a failure.      *)
KeepsSprintRun == Run!RunSpec
=============================================================================
