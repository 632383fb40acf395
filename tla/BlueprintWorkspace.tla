-------------------------- MODULE BlueprintWorkspace --------------------------
(***************************************************************************)
(* The planning canvas of the renderer (BlueprintWorkspace.tsx): the       *)
(* hidden deliberation between Architect and Reviewer, the Forge that      *)
(* watches the log of deliberations, the per-module pipeline of Builder,   *)
(* Critic and Tester, and the Navigator.                                   *)
(*                                                                         *)
(* Every command of the user starts an asynchronous handler.  Handlers run *)
(* on one thread and interleave at their awaits; each works with the       *)
(* values its closure captured at the last render before it was called.    *)
(* An action is one handler from one await to the next at which it can see *)
(* or change something shared; a model's answer is chosen by \E, and a     *)
(* call of agent.execute or insertMessage may also throw.                  *)
(***************************************************************************)
EXTENDS Naturals, Sequences, FiniteSets

CONSTANTS Modules,      \* what parseBlueprintToModuleSpec finds in a plan
          Labels,       \* labels a Reviewer gives its FAILs
          Handlers,     \* bound: the commands the user may give
          MaxMoves,     \* bound: how often the user edits the plan or
                        \* picks another session
          ForgeN,       \* FORGE_OBSERVATION_N
          EarlierLogs   \* <<deliberationLog.length, blockedProposals.length>>
                        \* that earlier mounts may have left

ASSUME ForgeAssumption == /\ ForgeN \in Nat \ {0}
                          /\ EarlierLogs \subseteq (0 .. 3 * ForgeN) \X Nat
ASSUME BlueprintBounds == /\ Handlers \subseteq Nat   \* in the order of the calls
                          /\ IsFiniteSet(Modules) /\ Modules # {}
                          /\ MaxMoves \in Nat

VARIABLES jobs,     \* [Handlers -> handler]
          created,  \* sessions in the database are 1 .. created
          sessions, \* the store's list of sessions
          active,   \* activeSessionId, 0 for null
          rows,     \* <<handler, session>>: messages a handler inserted
          busy, execState, issues,
          draft,    \* there is a blueprintDraft
          log,      \* deliberationLog.length   (module state, outlives mounts)
          blocked,  \* blockedProposals.length  (module state)
          forges,   \* runForge calls under way
          surfaces, \* the surfaces that ever ran at the end of a pipeline
          moves,    \* bound: edits and session switches made
          overlap,  \* history: two handlers were once at work together
          stranded  \* history: a pipeline threw before its try block

store  == <<created, sessions, active, rows>>
panel  == <<busy, execState, issues, draft>>
forge  == <<log, blocked, forges>>
hist   == <<surfaces, moves, overlap, stranded>>
bpVars == <<jobs, store, panel, forge, hist>>

Checks == {"RESOLVED", "UNRESOLVED", "unclear"}
(* A handler "resynthesize" is a synthesis whose closure holds a plan.      *)
Kinds  == {"plan", "ask", "go", "synthesize", "resynthesize", "execute",
           "planExecute", "navigate"}
Stages == {"queued", "started", "built", "reviewed", "passed", "failed", "threw"}
Tested == {"passed", "failed"}
Pcs    == {"idle", "start", "greet", "purpose", "round", "finish", "deliver",
           "answer", "synthesize", "pipeline", "contracts", "subagents",
           "navigate", "done"}

(* DeliberationState: what the convergence check looks at.                 *)
NoDelib == [round |-> 0, fails |-> <<>>, checks |-> {}]

(* A handler: its closure (home, list) and how far it has come.            *)
Idle == [kind |-> "ask", pc |-> "idle", home |-> 0, list |-> {}, sess |-> 0,
         delib |-> NoDelib, chain |-> [m \in Modules |-> "queued"]]

Working(j) == jobs[j].pc \notin {"idle", "done"}
AtWork     == {j \in Handlers : Working(j)}
(* Promise.all rejects with the first subagent that throws; the others go  *)
(* on behind the handler's back.                                           *)
Unattended(j, m) == /\ jobs[j].pc = "done"
                    /\ jobs[j].chain[m] \in {"started", "built", "reviewed"}

BPInit ==
  /\ jobs = [j \in Handlers |-> Idle]
  /\ created = 1 /\ sessions = {1}       \* SessionList has loaded one session
  /\ active \in {0, 1} /\ rows = {}
  /\ busy = FALSE /\ execState = "idle" /\ issues = {} /\ draft = FALSE
  /\ \E e \in EarlierLogs : log = e[1] /\ blocked = e[2]
  /\ forges = 0
  /\ surfaces = {} /\ moves = 0 /\ overlap = FALSE /\ stranded = FALSE

-------------------------------------------------------------------------------
\* Mutant of Resolved: the live session, not the one of the closure.
ResolvedLive(j) == IF active # 0 THEN active ELSE created + 1

(* ensureSession: the session of the closure, or a new one that replaces   *)
(* the list by the closure's own list plus the new session.                *)
Resolved(j) == IF jobs[j].home # 0 THEN jobs[j].home ELSE created + 1

EnsureSession(j) ==
  IF jobs[j].home # 0
  THEN UNCHANGED <<created, sessions, active>>
  ELSE /\ created' = created + 1
       /\ sessions' = {created + 1} \union jobs[j].list
       /\ active' = created + 1

(* insertMessage, then addMessage: the row is the handler's session's (the *)
(* display, which takes it whatever session it shows, is left out).        *)
Post(j, s) == rows' = rows \union {<<j, s>>}

Say(j) == Post(j, jobs[j].sess) /\ UNCHANGED <<created, sessions, active>>

(* A session resolved without a message yet.                               *)
Open(j) == EnsureSession(j) /\ UNCHANGED rows

(* A message for which the handler resolves its session once more; both    *)
(* the session and the message may fail.                                   *)
Report(j) == \/ EnsureSession(j) /\ Post(j, Resolved(j))
             \/ Open(j)
             \/ UNCHANGED store

At(j, pc)   == jobs[j].pc = pc
Go(j, pc)   == jobs' = [jobs EXCEPT ![j].pc = pc]
Done(j)     == jobs' = [jobs EXCEPT ![j].pc = "done", ![j].sess = 0,
                                    ![j].delib = NoDelib]
Settle(j, s, pc) == jobs' = [jobs EXCEPT ![j].pc = pc, ![j].sess = s]

(* The catch clause of a handler that reports its error with a fresh       *)
(* ensureSession, and its finally.                                         *)
ThrowAndReport(j) ==
  /\ Done(j) /\ busy' = FALSE
  /\ Report(j)
  /\ UNCHANGED <<execState, issues, draft, forge, hist>>

\* Mutant of ThrowQuietly: no finally.
ThrowQuietlyBusy(j) ==
  /\ Done(j) /\ UNCHANGED <<store, busy, execState, issues, draft, forge, hist>>

ThrowQuietly(j) ==
  /\ Done(j) /\ busy' = FALSE
  /\ UNCHANGED <<store, execState, issues, draft, forge, hist>>

-------------------------------------------------------------------------------
(* Commands.  A handler captures the session, the list and the plan of the *)
(* last render; the session only counts while the list still holds it.     *)
Begin(j, kind, pc) ==
  /\ At(j, "idle") /\ \A i \in Handlers : i < j => ~At(i, "idle")
  /\ jobs' = [jobs EXCEPT ![j] =
       [Idle EXCEPT !.kind = kind, !.pc = pc, !.list = sessions,
                    !.home = IF active \in sessions THEN active ELSE 0]]
  /\ overlap' = (overlap \/ AtWork # {})
  /\ UNCHANGED <<store, issues, draft, forge, surfaces, moves, stranded>>

(* sendPlanChat: the send button is disabled while busy, the Enter key is  *)
(* not.  In execute mode "go" needs a plan; in plan mode the deliberation  *)
(* starts; in the other modes the Architect answers once.                  *)
SendPlanChat(j) ==
  /\ \/ Begin(j, "plan", "start")
     \/ Begin(j, "ask", "start")
     \/ draft /\ Begin(j, "go", "start")
  /\ busy' = TRUE /\ UNCHANGED execState

SynthesizeBlueprint(j) ==
  /\ ~busy /\ Begin(j, IF draft THEN "resynthesize" ELSE "synthesize", "start")
  /\ busy' = TRUE /\ UNCHANGED execState

(* The mode bar calls executeBlueprintPlan directly, whatever busy says.   *)
SwitchToExecute(j) ==
  /\ draft /\ Begin(j, "execute", "pipeline")
  /\ busy' = TRUE /\ execState' = "execute"

(* handlePlanAndExecute: synthesizes only when the closure has no plan; the *)
(* plan it then made is not in the closure, so that call executes nothing. *)
HandlePlanAndExecute(j) ==
  /\ ~busy
  /\ \/ /\ ~draft /\ execState \in {"refine", "execute", "solve"}
        /\ Begin(j, "synthesize", "start") /\ UNCHANGED execState
     \/ /\ draft /\ Begin(j, "planExecute", "pipeline")
        /\ execState' = "execute"
  /\ busy' = TRUE

RunNavigator(j) == Begin(j, "navigate", "start") /\ UNCHANGED <<busy, execState>>

(* The user edits the plan or picks a session.                             *)
EditDraft ==
  /\ moves < MaxMoves /\ moves' = moves + 1
  /\ draft' = ~draft
  /\ UNCHANGED <<jobs, store, busy, execState, issues, forge,
                 surfaces, overlap, stranded>>

SwitchSession ==
  /\ moves < MaxMoves /\ moves' = moves + 1
  /\ \E s \in sessions \ {active} : active' = s
  /\ UNCHANGED <<jobs, created, sessions, rows, panel, forge,
                 surfaces, overlap, stranded>>

(* The first await of a handler: its session.  What it does next.          *)
Second(kind) == CASE kind = "navigate" -> "navigate"
                  [] kind \in {"synthesize", "resynthesize"} -> "synthesize"
                  [] OTHER -> "greet"

Start(j) ==
  /\ At(j, "start")
  /\ \/ /\ Open(j)
        /\ Settle(j, Resolved(j), Second(jobs[j].kind))
        /\ UNCHANGED <<panel, forge, hist>>
     \/ jobs[j].kind \in {"plan", "ask"} /\ ThrowAndReport(j)
     \/ jobs[j].kind \in {"go", "synthesize", "resynthesize"} /\ ThrowQuietly(j)
     \/ /\ jobs[j].kind = "navigate" /\ Done(j)
        /\ UNCHANGED <<store, panel, forge, hist>>

(* The second: the user's message.                                         *)
Greet(j) ==
  /\ At(j, "greet")
  /\ \/ /\ Say(j)
        /\ Go(j, CASE jobs[j].kind = "plan" -> "purpose"
                   [] jobs[j].kind = "ask"  -> "answer"
                   [] OTHER                 -> "pipeline")
        /\ execState' = CASE jobs[j].kind = "plan" -> "planning"
                          [] jobs[j].kind = "go"   -> "execute"
                          [] OTHER                 -> execState
        /\ UNCHANGED <<busy, issues, draft, forge, hist>>
     \/ jobs[j].kind \in {"plan", "ask"} /\ ThrowAndReport(j)
     \/ jobs[j].kind = "go" /\ ThrowQuietly(j)

(* Ask and review modes: one answer of the Architect.                      *)
Answer(j) ==
  /\ At(j, "answer")
  /\ \/ /\ Say(j) /\ Done(j) /\ busy' = FALSE
        /\ UNCHANGED <<execState, issues, draft, forge, hist>>
     \/ ThrowAndReport(j)

(* runNavigator resolves its session a second time for the answer.         *)
Navigate(j) ==
  /\ At(j, "navigate") /\ Done(j) /\ Report(j)
  /\ UNCHANGED <<panel, forge, hist>>

-------------------------------------------------------------------------------
(* runFrameLock: nothing between its call and sendPlanChat's catch.        *)
FrameLockFails(j) == ThrowAndReport(j)

(* runDeliberation.  The Purpose Interrogator may post a question and never *)
(* stops the loop; the Frame Lock that follows may throw; the Navigator's  *)
(* GAP check is optional.                                                  *)
Purpose(j) ==
  /\ At(j, "purpose")
  /\ \/ /\ Say(j) \/ UNCHANGED store
        /\ Go(j, "round") /\ UNCHANGED <<panel, forge, hist>>
     \/ FrameLockFails(j)

(* checkConvergence: /RESOLVED/i also finds the word in UNRESOLVED, and    *)
(* every() of no checks is true.                                           *)
SaysResolved(c) == c \in {"RESOLVED", "UNRESOLVED"}
Circular(fails) == /\ Len(fails) >= 2
                   /\ fails[Len(fails)] = fails[Len(fails) - 1]
CheckConvergence(d) ==
  CASE \A c \in d.checks : SaysResolved(c) -> "all CHECKs RESOLVED"
    [] d.round >= 3                        -> "round cap"
    [] Circular(d.fails)                   -> "circular loop"
    [] OTHER                               -> "none"

(* What a Reviewer may answer: a new FAIL or none, a CHECK or none, and    *)
(* CONVERGED or not.  (The CHECKs of later rounds add to these.)           *)
Reviews == [fails: {<<>>} \union {<<l>> : l \in Labels},
            checks: {{}} \union {{c} : c \in Checks}, converged: BOOLEAN]

(* One round: Architect, optional Navigator, Reviewer, convergence check.  *)
Round(j) ==
  /\ At(j, "round")
  /\ \/ \E r \in Reviews :
          LET d   == jobs[j].delib
              new == [d EXCEPT !.round  = @ + 1,
                               !.fails  = @ \o r.fails,
                               !.checks = @ \union r.checks]
              end == IF r.converged THEN "Reviewer CONVERGED"
                                    ELSE CheckConvergence(new)
          IN /\ jobs' = [jobs EXCEPT
                  ![j].delib = new,
                  ![j].pc    = IF end # "none" THEN "finish" ELSE "round"]
             /\ UNCHANGED <<store, panel, forge, hist>>
     \/ ThrowAndReport(j)

(* logDeliberation keeps at most 3 N entries, dropping the oldest N.       *)
LogDeliberation(n) == IF n + 1 > 3 * ForgeN THEN n + 1 - ForgeN ELSE n + 1

(* renderFinalPlan: the one call after convergence nobody catches.         *)
RenderFails(j) == ThrowAndReport(j)

(* After convergence: Navigator and timescale passes, the rendered plan,   *)
(* a summary, the log entry; from N entries on, every deliberation starts  *)
(* a Forge that nobody awaits.                                             *)
Finish(j) ==
  /\ At(j, "finish")
  /\ \/ /\ Say(j) \/ UNCHANGED store
        /\ jobs' = [jobs EXCEPT ![j].pc = "deliver", ![j].delib = NoDelib]
        /\ log' = LogDeliberation(log)
        /\ forges' = IF log' >= ForgeN THEN forges + 1 ELSE forges
        /\ UNCHANGED <<panel, blocked, hist>>
     \/ RenderFails(j)

(* computeRatchetScore: six marks a plan may bear, and one it always has.  *)
RatchetScores == 1 .. 7
ExecThreshold == 4

(* The delivered plan decides between refine and execute by its score; an  *)
(* empty one is passed over.                                               *)
Deliver(j) ==
  /\ At(j, "deliver")
  /\ \/ /\ draft' = TRUE
        /\ \E rc \in RatchetScores :
             execState' = IF rc >= ExecThreshold THEN "execute" ELSE "refine"
        /\ Say(j) \/ Report(j)
     \/ UNCHANGED <<draft, execState, store>>
  /\ Done(j) /\ busy' = FALSE
  /\ UNCHANGED <<issues, forge, hist>>

(* runForge: proposes, has the proposal reviewed, and clears the log when  *)
(* any of its calls throws.                                                *)
RunForge ==
  /\ forges > 0 /\ forges' = forges - 1
  /\ \/ UNCHANGED <<log, blocked>>                    \* FORGE-APPROVED
     \/ blocked' = blocked + 1 /\ UNCHANGED log
     \/ log' = 0 /\ (UNCHANGED blocked \/ blocked' = blocked + 1)
  /\ UNCHANGED <<jobs, store, panel, hist>>

-------------------------------------------------------------------------------
(* synthesizeBlueprint: a plan from the discussion, empty or not, replaces *)
(* the draft before its message is inserted, which may throw.  With        *)
(* auto-execution on in the closure the new plan is executed, and when it  *)
(* is empty the one the closure holds; without any nothing starts.         *)
Synthesize(j) ==
  /\ At(j, "synthesize")
  /\ \/ ThrowQuietly(j)
     \/ \E found, auto \in BOOLEAN :
          LET go == auto /\ (found \/ jobs[j].kind = "resynthesize")
          IN /\ draft' = found
             /\ \/ /\ Say(j)
                   /\ IF go THEN Go(j, "pipeline") ELSE Done(j)
                   /\ busy' = go
                   /\ execState' = IF go THEN "execute" ELSE execState
                \/ Done(j) /\ busy' = FALSE /\ UNCHANGED <<store, execState>>
             /\ UNCHANGED <<issues, forge, hist>>

(* executeBlueprintPlan up to its try block: a throw here passes every     *)
(* finally of its own; only a caller's finally clears busy.                *)
PipelineStart(j) ==
  /\ At(j, "pipeline")
  /\ \/ /\ EnsureSession(j) /\ Post(j, Resolved(j))
        /\ Settle(j, Resolved(j), "contracts")
        /\ UNCHANGED <<panel, forge, hist>>
     \/ jobs[j].kind # "execute" /\ ThrowQuietly(j)
     \/ /\ jobs[j].kind = "execute" /\ Done(j) /\ stranded' = TRUE
        /\ UNCHANGED <<store, panel, forge, surfaces, moves, overlap>>

(* Inside the try block a throw is reported into the pipeline's session.   *)
PipelineThrow(j) ==
  /\ Done(j) /\ busy' = FALSE
  /\ (Say(j) \/ UNCHANGED store)
  /\ UNCHANGED <<execState, issues, draft, forge, hist>>

(* parseBlueprintToModuleSpec: every plan has a module, if only its title. *)
PlanModules == SUBSET Modules \ {{}}

Contracts(j) ==
  /\ At(j, "contracts")
  /\ \/ /\ Say(j) /\ UNCHANGED <<panel, forge, hist>>
        /\ \E ms \in PlanModules :
             jobs' = [jobs EXCEPT ![j].pc = "subagents",
               ![j].chain = [m \in Modules |-> IF m \in ms THEN "started" ELSE "queued"]]
     \/ PipelineThrow(j)

(* One step of the subagent of module m: Builder, Critic, Tester.  All     *)
(* modules run at once, whatever the plan says of their dependencies.      *)
NextStages(stage) == CASE stage = "started"  -> {"built"}
                       [] stage = "built"    -> {"reviewed"}
                       [] stage = "reviewed" -> Tested
                       [] OTHER              -> {}

SubagentStep(j, m) ==
  /\ At(j, "subagents") \/ Unattended(j, m)
  /\ \/ \E s \in NextStages(jobs[j].chain[m]) :
          /\ jobs' = [jobs EXCEPT ![j].chain[m] = s]
          /\ Say(j) /\ UNCHANGED <<panel, forge, hist>>
     \/ /\ jobs[j].chain[m] \in {"started", "built", "reviewed"}
        /\ jobs' = [jobs EXCEPT ![j].chain[m] = "threw", ![j].pc = "done"]
        /\ IF At(j, "subagents") THEN busy' = FALSE /\ (Say(j) \/ UNCHANGED store)
                                 ELSE UNCHANGED <<busy, store>>
        /\ UNCHANGED <<execState, issues, draft, forge, hist>>

Verdict(j)   == {m \in Modules : jobs[j].chain[m] = "failed"}
\* Mutant of AllTested: the first verdict ends the pipeline.
FirstTested(j) == \E m \in Modules : jobs[j].chain[m] \in Tested
AllTested(j) == \A m \in Modules : jobs[j].chain[m] \in Tested \union {"queued"}

(* The surfaces that look at the length of the log when a pipeline ends.   *)
(* The third waits for a multiple of 20 in a log cut back at 15.           *)
LogSurfaces ==
  {s \in {"topology", "crystallizer", "cross-instance"} :
     /\ log > 0
     /\ log % (CASE s = "topology"     -> 5
                 [] s = "crystallizer" -> 10
                 [] OTHER              -> 20) = 0}
  \union (IF blocked > 0 /\ blocked % 5 = 0 THEN {"contradiction"} ELSE {})

(* The surfaces every pipeline ends with, whatever their answers.          *)
ModuleSurfaces == {"drift", "coverage", "confidence", "complexity", "why", "fuzz"}

(* Integration test (only when all passed), Memory Keeper, summary, the    *)
(* surfaces, and the transition to solve.                                  *)
Wrap(j) ==
  /\ At(j, "subagents") /\ AllTested(j)
  /\ \/ /\ Say(j) /\ Done(j) /\ busy' = FALSE
        /\ surfaces' = surfaces \union ModuleSurfaces \union LogSurfaces
        /\ issues' = IF Verdict(j) = {} THEN issues ELSE Verdict(j)
        /\ execState' = IF Verdict(j) = {} THEN execState ELSE "solve"
        /\ UNCHANGED <<draft, forge, moves, overlap, stranded>>
     \/ PipelineThrow(j)

HandlerStep(j) ==
  \/ Start(j) \/ Greet(j) \/ Answer(j) \/ Navigate(j)
  \/ Purpose(j) \/ Round(j) \/ Finish(j) \/ Deliver(j)
  \/ Synthesize(j) \/ PipelineStart(j) \/ Contracts(j) \/ Wrap(j)
  \/ \E m \in Modules : SubagentStep(j, m)

Command(j) ==
  \/ SendPlanChat(j) \/ SynthesizeBlueprint(j) \/ SwitchToExecute(j)
  \/ HandlePlanAndExecute(j) \/ RunNavigator(j)

BPNext == \/ \E j \in Handlers : Command(j) \/ HandlerStep(j)
          \/ EditDraft \/ SwitchSession \/ RunForge

BPSpec == BPInit /\ [][BPNext]_bpVars
-------------------------------------------------------------------------------
(* Types of the canvas, its handlers and the module-level logs.            *)
BPTypeOK ==
  /\ jobs \in [Handlers -> [kind: Kinds, pc: Pcs, home: 0 .. created,
                            list: SUBSET (1 .. created), sess: 0 .. created,
                            delib: [round: 0 .. 3, fails: Seq(Labels),
                                    checks: SUBSET Checks],
                            chain: [Modules -> Stages]]]
  /\ created \in Nat /\ sessions \subseteq 1 .. created
  /\ active \in 0 .. created
  /\ rows \subseteq Handlers \X (1 .. created)
  /\ {busy, draft} \subseteq BOOLEAN /\ issues \subseteq Modules
  /\ execState \in {"idle", "planning", "refine", "execute", "solve"}
  /\ log \in Nat /\ blocked \in Nat /\ forges \in Nat
  /\ surfaces \subseteq ModuleSurfaces \union
                 {"topology", "crystallizer", "cross-instance", "contradiction"}
  /\ moves \in 0 .. MaxMoves /\ overlap \in BOOLEAN /\ stranded \in BOOLEAN

(* A handler that began with a listed session writes its messages there,   *)
(* wherever the user goes meanwhile.  One that began without opens its     *)
(* own, at most two, and never writes into a session it found in the list. *)
HandlerKeepsItsSession ==
  \A j \in Handlers :
    LET mine == {r[2] : r \in {q \in rows : q[1] = j}}
    IN IF jobs[j].home # 0 THEN mine \subseteq {jobs[j].home}
       ELSE mine \intersect jobs[j].list = {} /\ Cardinality(mine) <= 2

(* busy stands for "some command is at work": it can be up with nothing at *)
(* work only after a pipeline that threw before its try block, and down    *)
(* during work only after two handlers overlapped (the Enter key and the   *)
(* mode bar do not look at it).                                            *)
BusyFlagAccount ==
  LET atWork == {j \in AtWork : jobs[j].kind # "navigate"}
  IN /\ busy /\ atWork = {} => stranded
     /\ ~busy /\ atWork # {} => overlap

(* A pipeline is over while one of its subagents still works only if       *)
(* another subagent of it threw: a reported verdict covers every module.   *)
NothingWorksUnattended ==
  \A j \in Handlers :
    (\E m \in Modules : Unattended(j, m)) => \E m \in Modules : jobs[j].chain[m] = "threw"
===============================================================================
