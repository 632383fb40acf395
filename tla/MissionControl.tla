--------------------------- MODULE MissionControl ---------------------------
(***************************************************************************)
(* The mirror Mission Control keeps of a sprint: MissionControlState of    *)
(* kore/ui/panel_state.py, updated by KOREMissionControl._forward_event in *)
(* the same call that emits the event.  The stream, score and badge panels *)
(* hold text and measurements and are left out.                            *)
(***************************************************************************)
EXTENDS DysonOrchestrator

(* No state and no count stands for a missing key.                         *)
ASSUME KeyAssumption == None \notin DysonState /\ None \notin Nat

VARIABLE mirror

Mirror == [node      : Id \cup {None},                 \* road.current_node
           shown     : DysonState \cup {"DONE"},        \* road.node_state
           total     : Nat,                            \* road.total_nodes
           completed : Nat,                            \* road.completed_nodes
           learned   : Nat,                            \* constraint.active_constraints
           started   : Nat,                            \* gauge.total_started
           finished  : Nat]                            \* gauge.completed

EmptyMirror == [node |-> None, shown |-> "IDLE", total |-> 0, completed |-> 0,
                learned |-> 0, started |-> 0, finished |-> 0]

\* Mutant of Known: an absent key overwrites what is shown.
KnownOrNot(value, old) == value

Known(value, old) == IF value = None THEN old ELSE value

(* MissionControlState.apply.  Nothing ever resets a counter.              *)
Apply(m, e) ==
    CASE e.type = "sprint_started"   -> [m EXCEPT !.started = @ + 1]
      [] e.type = "state_change"     -> [m EXCEPT !.shown = Known(e.to, @),
                                                  !.node  = Known(e.node, @),
                                                  !.total = Known(e.count, @)]
      [] e.type = "node_done"        -> [m EXCEPT !.node = e.node, !.shown = "DONE",
                                                  !.completed = @ + 1]
      [] e.type = "node_blocked"     -> [m EXCEPT !.node = e.node, !.shown = "BLOCKED"]
      [] e.type = "road_update"      -> [m EXCEPT !.node = e.node]
      [] e.type = "constraint_added" -> [m EXCEPT !.learned = @ + 1]
      [] e.type = "sprint_done"      -> [m EXCEPT !.finished = @ + 1]
      [] e.type = "score_update"     -> m

ApplyEvents(m, events) ==
    LET after[k \in 0 .. Len(events)] ==
            IF k = 0 THEN m ELSE Apply(after[k - 1], events[k])
    IN  after[Len(events)]

(* The listener of wire_orchestrator_events sees what the call emitted.    *)
Forward == mirror' = ApplyEvents(mirror, emitted')
=============================================================================
