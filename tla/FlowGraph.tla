------------------------------- MODULE FlowGraph -------------------------------
(***************************************************************************)
(* The flow canvas and its graph: the tables nodes, node_views, edges and  *)
(* execution_log behind graph-service.ts, the graph part of the store      *)
(* (appStore.ts), FlowCanvas with its local copy of the nodes, and the     *)
(* agent and test nodes that run and save their outcome.                   *)
(*                                                                         *)
(* Every change ends with a new loadGraph; invocations are handled and     *)
(* answered in order.  What a call's promise continues with travels in its *)
(* field after.  App mounts FlowCanvas without a session today: this is    *)
(* the component's behaviour for the sessions its interface asks for.      *)
(* Labels, sizes and modes are left out; nothing calls deleteNode or       *)
(* deleteEdge, so no foreign key can fail.                                 *)
(***************************************************************************)
EXTENDS Naturals, Sequences, FiniteSets

CONSTANTS FlowSessions,
          MaxStored,\* bound: nodes a session has from before
          MaxNodes, \* bound: nodes ever created
          MaxActs   \* bound: what the user does, all kinds of acts together;
                    \* the first lies before the behaviour

ASSUME FlowBounds == /\ {MaxStored, MaxNodes} \subseteq Nat /\ MaxStored <= MaxNodes
                     /\ MaxActs \in Nat \ {0} /\ FlowSessions # {}

VARIABLES rows,     \* nodes in the order they were created
          edges,    \* the edges table
          log,      \* execution_log: the runs, oldest first
          selected, \* sessionTextId of the canvas
          shown,    \* graphSessionId, graphNodes and graphEdges of the store
          canvas,   \* where FlowCanvas draws the nodes
          pending,  \* pendingLayoutViews; the timer runs while it is not empty
          boot,     \* bootstrapSelfHost: its step and what it has found
          runs,     \* node runs: [node, prompt, phase]
          attached, \* runs whose component is still the one that started them
          graphCalls,    \* invocations on their way to the main process
          graphAnswers,  \* their answers
          acts,     \* the user's acts so far; drags, edits and runs bear their number
          edited,   \* history: the last edit of each node, 0 for none
          dragged,  \* history: the last drag of each node that was dragged
          overwritten, \* history: nodes whose place a later drag may have undone
          disturbed,\* history: the canvas was redrawn over an unsaved layout
          clashed   \* history: nodes saved twice without a reload in between

tableVars == <<rows, edges, log>>
canvasVars  == <<shown, canvas, disturbed>>
placeVars == <<dragged, overwritten>>
userVars  == <<acts, edited, clashed, placeVars>>
flowVars  == <<tableVars, canvasVars, userVars, selected, pending, boot, runs, attached,
               graphCalls, graphAnswers>>

Kinds == <<"repo", "vault", "agent", "test">>
Wires == << <<"repo", "agent">>, <<"vault", "agent">>, <<"repo", "test">>, <<"test", "agent">> >>
NoPlaces == [n \in {} |-> 0]
NoBoot == [step |-> 0, session |-> CHOOSE s \in FlowSessions : TRUE,
           found |-> [k \in {"repo", "vault", "agent", "test"} |-> 0], wired |-> {}]

\* rows of a session as getGraph returns them: node -> row.
NodesOf(s) == {n \in DOMAIN rows : rows[n].session = s}
GraphOf(s) == [session |-> s, nodes |-> [n \in NodesOf(s) |-> rows[n]],
               edges |-> {e \in edges : e.session = s}]

(* mapGraphNode: a node is drawn where the graph has it.                   *)
MapGraphNodes(graph) == [n \in DOMAIN graph.nodes |-> graph.nodes[n].at]

NewRow(s, kind) == [session |-> s, kind |-> kind, at |-> 0, prompt |-> 0, last |-> 0]

\* Mutant of LayoutPayload: only the node that was dragged is committed.
DraggedNode(places, n) == [m \in {n} |-> places[m]]

\* toLayoutPayload: every node of the canvas, whichever was dragged.
LayoutPayload(places, n) == places

(* What act 1, before the behaviour, has left under way: nothing; a run,   *)
(* the component of which is gone (another session was shown and left);    *)
(* or a drag, its commit still pending, over which the canvas was redrawn. *)
(* (Of the newest node, when there are MaxStored: a bound.)                *)
LeftNothing == runs = <<>> /\ pending = NoPlaces /\ dragged = NoPlaces /\ disturbed = FALSE
LeftRun(n) ==
  /\ runs = <<[node |-> n, prompt |-> 0, phase |-> "working"]>>
  /\ pending = NoPlaces /\ dragged = NoPlaces /\ disturbed = FALSE
LeftDrag(n) ==
  /\ pending = LayoutPayload([canvas EXCEPT ![n] = 1], n) /\ dragged = [m \in {n} |-> 1]
  /\ disturbed = TRUE /\ runs = <<>>

FlowInit ==
  /\ selected \in FlowSessions
  /\ \E stored \in 0 .. MaxStored : rows = [n \in 1 .. stored |-> NewRow(selected, "agent")]
  /\ edges = {} /\ log = <<>> /\ edited = [n \in DOMAIN rows |-> 0]
  /\ shown = GraphOf(selected) /\ canvas = MapGraphNodes(shown)
  /\ boot = NoBoot /\ attached = {} /\ graphCalls = <<>> /\ graphAnswers = <<>>
  /\ acts = 1 /\ overwritten = {} /\ clashed = {}
  /\ \/ LeftNothing
     \/ MaxStored \in DOMAIN rows /\ (LeftRun(MaxStored) \/ LeftDrag(MaxStored))

-------------------------------------------------------------------------------
User == [who |-> "user", id |-> 0]
Boot == [who |-> "boot", id |-> 0]
OfRun(r) == [who |-> "run", id |-> r]
OfEdit(n) == [who |-> "edit", id |-> n]

Get(s, after)     == [op |-> "get", session |-> s, after |-> after]
NewNode(s, k, after) == [op |-> "node", session |-> s, kind |-> k, after |-> after]
NewEdge(s, a, b, after) == [op |-> "edge", session |-> s, source |-> a, target |-> b, after |-> after]
Save(n, prompt, last, after) ==
  [op |-> "save", node |-> n, prompt |-> prompt, last |-> last, after |-> after]
Layout(places)    == [op |-> "layout", places |-> places, after |-> User]
Log(r)            == [op |-> "log", run |-> r, after |-> OfRun(r)]

UnderWay == {graphCalls[i] : i \in DOMAIN graphCalls} \cup {graphAnswers[i] : i \in DOMAIN graphAnswers}
UserActs == acts < MaxActs /\ acts' = acts + 1
Room(k) == Len(rows) + k + Cardinality({i \in DOMAIN graphCalls : graphCalls[i].op = "node"}) <= MaxNodes
Unsaved == pending # NoPlaces \/ \E m \in UnderWay : m.op = "layout"

\* A node is being saved until the graph has been loaded again.
Saving(n) == \E m \in UnderWay :
  \/ m.after = OfEdit(n)
  \/ m.after.who = "run" /\ runs[m.after.id].node = n /\ m.op # "log"
Running(n) == \E r \in DOMAIN runs : runs[r].node = n /\ runs[r].phase = "working"

\* The Run button of the component that is mounted now: an agent's is
\* disabled while it works, a test's until its outcome has been logged.
RunDisabled(n) == \E r \in attached :
  /\ runs[r].node = n
  /\ runs[r].phase = "working" \/ (shown.nodes[n].kind = "test" /\ runs[r].phase # "over")

-------------------------------------------------------------------------------
(* The user.                                                               *)
SelectFlowSession(s) ==
  /\ UserActs /\ s # selected
  /\ selected' = s /\ graphCalls' = Append(graphCalls, Get(s, User))
  /\ UNCHANGED <<tableVars, canvasVars, edited, clashed, placeVars, pending, boot, runs, attached, graphAnswers>>

SelectModule ==
  /\ UserActs /\ Room(1 + IF boot.step = 0 THEN 0 ELSE 4)
  /\ graphCalls' = Append(graphCalls, NewNode(selected, "agent", User))
  /\ UNCHANGED <<tableVars, canvasVars, edited, clashed, placeVars, selected, pending, boot, runs, attached, graphAnswers>>

Connect(a, b) ==
  /\ UserActs /\ a # b
  /\ [session |-> selected, source |-> a, target |-> b] \notin edges
  /\ graphCalls' = Append(graphCalls, NewEdge(selected, a, b, User))
  /\ UNCHANGED <<tableVars, canvasVars, edited, clashed, placeVars, selected, pending, boot, runs, attached, graphAnswers>>

(* The end of a drag: scheduleLayoutCommit replaces what an earlier drag   *)
(* has scheduled within the last 500 ms.  On a canvas that was redrawn     *)
(* over an unsaved layout this may undo the places of the other nodes      *)
(* scheduled or drawn.                                                     *)
Drag(n) ==
  /\ UserActs
  /\ canvas' = [canvas EXCEPT ![n] = acts']
  /\ pending' = LayoutPayload(canvas', n)
  /\ dragged' = [m \in DOMAIN dragged \cup {n} |-> IF m = n THEN acts' ELSE dragged[m]]
  /\ overwritten' = (IF disturbed THEN overwritten \cup DOMAIN canvas \cup DOMAIN pending
                     ELSE overwritten) \ {n}
  /\ UNCHANGED <<tableVars, shown, disturbed, edited, clashed, selected, boot, runs, attached,
                 graphCalls, graphAnswers>>

CommitLayout ==
  /\ pending # NoPlaces
  /\ graphCalls' = Append(graphCalls, Layout(pending)) /\ pending' = NoPlaces
  /\ UNCHANGED <<tableVars, canvasVars, userVars, selected, boot, runs, attached, graphAnswers>>

(* A keystroke in the prompt of an agent or the command of a test saves    *)
(* all the node's data as they are shown.                                  *)
EditPrompt(n) ==
  /\ UserActs
  /\ edited' = [edited EXCEPT ![n] = acts']
  /\ graphCalls' = Append(graphCalls, Save(n, acts', shown.nodes[n].last, OfEdit(n)))
  /\ clashed' = IF Saving(n) \/ Running(n) THEN clashed \cup {n} ELSE clashed
  /\ UNCHANGED <<tableVars, canvasVars, placeVars, selected, pending, boot, runs, attached, graphAnswers>>

(* executeAgent, runTests: the run keeps the data of the moment it starts. *)
(* A component that was mounted anew knows nothing of an earlier run.      *)
RunNode(n) ==
  /\ UserActs /\ ~RunDisabled(n)
  /\ attached' = attached \cup {Len(runs) + 1}
  /\ runs' = Append(runs, [node |-> n, prompt |-> shown.nodes[n].prompt, phase |-> "working"])
  /\ clashed' = IF Saving(n) \/ Running(n) THEN clashed \cup {n} ELSE clashed
  /\ UNCHANGED <<tableVars, canvasVars, edited, placeVars, selected, pending, boot, graphCalls, graphAnswers>>

\* agent:execute or shell:exec: its output, its error, or a rejection.
Outcome(r) == runs' = [runs EXCEPT ![r].phase = "saving"]

(* The run has its output or its error: both are saved the same way.       *)
RunEnds(r) ==
  /\ runs[r].phase = "working" /\ Outcome(r)
  /\ graphCalls' = Append(graphCalls, Save(runs[r].node, runs[r].prompt, r, OfRun(r)))
  /\ UNCHANGED <<tableVars, canvasVars, userVars, selected, pending, boot, attached, graphAnswers>>

-------------------------------------------------------------------------------
(* bootstrapSelfHost awaits one creation after the other.  Steps 1 to 4    *)
(* are nodes, 5 to 8 edges, 9 the end; what exists already is passed over. *)
Given(step, b) ==
  IF step <= 4 THEN b.found[Kinds[step]] # 0
  ELSE <<b.found[Wires[step - 4][1]], b.found[Wires[step - 4][2]]>> \in b.wired
NextStep(b) == LET open == {i \in b.step .. 8 : ~Given(i, b)}
               IN IF open = {} THEN 9 ELSE CHOOSE i \in open : \A j \in open : i <= j

BootCall(b) ==
  IF b.step <= 4 THEN NewNode(b.session, Kinds[b.step], Boot)
  ELSE NewEdge(b.session, b.found[Wires[b.step - 4][1]], b.found[Wires[b.step - 4][2]], Boot)

BootGoesOn(b) ==
  LET next == [b EXCEPT !.step = NextStep(b)]
  IN IF next.step = 9 THEN boot' = NoBoot /\ UNCHANGED graphCalls
     ELSE boot' = next /\ graphCalls' = Append(graphCalls, BootCall(next))

\* The last node of each kind counts, and the graph the store shows now.
BootstrapSelfHost ==
  /\ UserActs /\ boot.step = 0 /\ Room(4)
  /\ LET last(k) == {n \in DOMAIN shown.nodes : shown.nodes[n].kind = k}
         found == [k \in DOMAIN NoBoot.found |->
                     IF last(k) = {} THEN 0 ELSE CHOOSE n \in last(k) : \A m \in last(k) : m <= n]
     IN BootGoesOn([step |-> 1, session |-> selected, found |-> found,
                    wired |-> {<<e.source, e.target>> : e \in shown.edges}])
  /\ UNCHANGED <<tableVars, canvasVars, edited, clashed, placeVars, selected, pending, runs, attached,
                 graphAnswers>>

-------------------------------------------------------------------------------
(* The main process: one call, one answer.                                 *)
Placed(places) == [n \in DOMAIN rows |->
  IF n \in DOMAIN places THEN [rows[n] EXCEPT !.at = places[n]] ELSE rows[n]]

(* updateNode, createEdge and logExecution.                                *)
UpdateNode(c) == rows' = [rows EXCEPT ![c.node].prompt = c.prompt, ![c.node].last = c.last]
CreateEdge(c) ==
  edges' = edges \cup {[session |-> c.session, source |-> c.source, target |-> c.target]}
LogExecution(r) == log' = Append(log, r)

HandleGraphCall ==
  /\ graphCalls # <<>> /\ graphCalls' = Tail(graphCalls)
  /\ LET c == Head(graphCalls) IN
     \/ /\ c.op = "get"
        /\ graphAnswers' = Append(graphAnswers, [op |-> "graph", graph |-> GraphOf(c.session), after |-> c.after])
        /\ UNCHANGED <<tableVars, edited>>
     \/ /\ c.op = "node"
        /\ rows' = Append(rows, NewRow(c.session, c.kind)) /\ edited' = Append(edited, 0)
        /\ graphAnswers' = Append(graphAnswers, [op |-> "created", session |-> c.session,
                                       id |-> Len(rows'), after |-> c.after])
        /\ UNCHANGED <<edges, log>>
     \/ /\ c.op = "edge"
        /\ CreateEdge(c)
        /\ graphAnswers' = Append(graphAnswers, [op |-> "created", session |-> c.session,
                                       id |-> 0, after |-> c.after])
        /\ UNCHANGED <<rows, log, edited>>
     \/ /\ c.op = "save"
        /\ UpdateNode(c)
        /\ graphAnswers' = Append(graphAnswers, [op |-> "saved", after |-> c.after])
        /\ UNCHANGED <<edges, log, edited>>
     \/ /\ c.op = "layout"
        /\ rows' = Placed(c.places)
        /\ graphAnswers' = Append(graphAnswers, [op |-> "layout", after |-> c.after])
        /\ UNCHANGED <<edges, log, edited>>
     \/ /\ c.op = "log"
        /\ LogExecution(c.run)
        /\ graphAnswers' = Append(graphAnswers, [op |-> "logged", after |-> c.after])
        /\ UNCHANGED <<rows, edges, edited>>
  /\ UNCHANGED <<canvasVars, acts, clashed, placeVars, selected, pending, boot, runs, attached>>

-------------------------------------------------------------------------------
(* The renderer goes on where a promise resolves.                          *)

\* What waits for loadGraph, or for a creation that needs none.
GoOn(after) ==
  CASE after.who = "run"  -> /\ graphCalls' = Append(graphCalls, Log(after.id))
                             /\ UNCHANGED <<boot, runs>>
    [] after.who = "boot" -> BootGoesOn(boot) /\ UNCHANGED runs
    [] OTHER              -> UNCHANGED <<graphCalls, boot, runs>>

(* addNode and addEdge load the graph again if the store shows the session *)
(* they belong to.                                                         *)
GraphCreated(a) ==
  LET b == IF a.after.who # "boot" THEN boot
           ELSE IF boot.step <= 4 THEN [boot EXCEPT !.found[Kinds[boot.step]] = a.id, !.step = @ + 1]
           ELSE [boot EXCEPT !.step = @ + 1]
  IN IF shown.session = a.session
     THEN boot' = b /\ graphCalls' = Append(graphCalls, Get(a.session, a.after)) /\ UNCHANGED runs
     ELSE /\ IF a.after.who = "boot" THEN BootGoesOn(b) ELSE UNCHANGED <<boot, graphCalls>>
          /\ UNCHANGED runs

HandleGraphAnswer ==
  /\ graphAnswers # <<>> /\ graphAnswers' = Tail(graphAnswers)
  /\ LET a == Head(graphAnswers) IN
     \/ /\ a.op = "graph"
        /\ shown' = a.graph
        /\ canvas' = MapGraphNodes(a.graph)
        /\ disturbed' = Unsaved
        /\ attached' = {r \in attached : runs[r].node \in DOMAIN a.graph.nodes}
        /\ GoOn(a.after)
     \/ /\ a.op = "created" /\ GraphCreated(a)
        /\ UNCHANGED <<shown, canvas, disturbed, attached>>
     \/ /\ a.op = "saved"
        /\ graphCalls' = Append(graphCalls, Get(shown.session, a.after))
        /\ UNCHANGED <<shown, canvas, disturbed, boot, runs, attached>>
     \/ /\ a.op = "logged" /\ runs' = [runs EXCEPT ![a.after.id].phase = "over"]
        /\ UNCHANGED <<shown, canvas, disturbed, boot, attached, graphCalls>>
     \/ /\ a.op = "layout"
        /\ UNCHANGED <<shown, canvas, disturbed, boot, runs, attached, graphCalls>>
  /\ UNCHANGED <<tableVars, userVars, selected, pending>>

FlowNext ==
  \/ \E s \in FlowSessions : SelectFlowSession(s)
  \/ SelectModule \/ CommitLayout \/ BootstrapSelfHost
  \/ \E n \in DOMAIN shown.nodes :
       \/ Drag(n)
       \/ shown.nodes[n].kind \in {"agent", "test"} /\ (EditPrompt(n) \/ RunNode(n))
       \/ \E m \in DOMAIN shown.nodes : Connect(n, m)
  \/ \E r \in DOMAIN runs : RunEnds(r)
  \/ HandleGraphCall \/ HandleGraphAnswer

\* Timers fire, the main process and the renderer handle what has arrived.
\* Nothing obliges a command or a model to end, nor the user to act.
FlowFairness == /\ WF_flowVars(CommitLayout)
                /\ WF_flowVars(HandleGraphCall) /\ WF_flowVars(HandleGraphAnswer)

FlowSpec == FlowInit /\ [][FlowNext]_flowVars /\ FlowFairness

-------------------------------------------------------------------------------
Rows == [session: FlowSessions, kind: {"repo", "vault", "agent", "test"}, at: 0 .. MaxActs,
         prompt: 0 .. MaxActs, last: 0 .. MaxActs]

EdgeRows == [session: FlowSessions, source: DOMAIN rows, target: DOMAIN rows]

(* Types of the graph and of the canvas.                                   *)
FlowTypeOK ==
  /\ rows \in Seq(Rows) /\ Len(rows) <= MaxNodes
  /\ edges \subseteq EdgeRows
  /\ \A i \in DOMAIN log : log[i] \in 1 .. MaxActs
  /\ selected \in FlowSessions /\ shown.session \in FlowSessions
  /\ DOMAIN shown.nodes \subseteq DOMAIN rows /\ DOMAIN canvas = DOMAIN shown.nodes
  /\ boot.step \in 0 .. 9 /\ disturbed \in BOOLEAN /\ clashed \subseteq DOMAIN rows
  /\ attached \subseteq DOMAIN runs

FlowAtRest == /\ graphCalls = <<>> /\ graphAnswers = <<>> /\ pending = NoPlaces
              /\ \A r \in DOMAIN runs : runs[r].phase = "over"

(* Once nothing is under way, whatever edits, runs, drags, bootstraps and  *)
(* switches of session overlapped:                                         *)
(*   - the store shows the session it claims to show as the database has   *)
(*     it (positions aside), with every node and edge created meanwhile;   *)
(*   - a node lies in the database where the user dragged it last, however *)
(*     many drags one commit replaced and whatever session was shown in    *)
(*     between, unless another node was dragged afterwards on a canvas     *)
(*     that had been redrawn over an unsaved layout (then the layout with  *)
(*     the first drag is replaced, or its node is sent back to where that  *)
(*     canvas drew it);                                                    *)
(*   - the canvas draws the nodes where the database has them, unless it   *)
(*     was redrawn while a layout was on its way there;                    *)
(*   - a node's data hold its last edit and its last logged run, unless it *)
(*     was saved from data that were no longer the newest.                 *)
FlowIsKept ==
  FlowAtRest =>
    /\ /\ DOMAIN shown.nodes = NodesOf(shown.session)
       /\ shown.edges = {e \in edges : e.session = shown.session}
       /\ \A n \in DOMAIN shown.nodes : [shown.nodes[n] EXCEPT !.at = rows[n].at] = rows[n]
    /\ \A n \in DOMAIN dragged \ overwritten : rows[n].at = dragged[n]
    /\ ~disturbed => \A n \in DOMAIN canvas : rows[n].at = canvas[n]
    /\ \A n \in DOMAIN rows \ clashed :
         LET logged == {i \in DOMAIN log : runs[log[i]].node = n}
         IN /\ rows[n].prompt = edited[n]
            /\ \/ logged = {} /\ rows[n].last = 0
               \/ \E i \in logged : rows[n].last = log[i] /\ \A j \in logged : j <= i

(* A bootstrap ends, whatever session is selected meanwhile.               *)
BootstrapEnds == (boot.step # 0) ~> (boot.step = 0)
================================================================================
