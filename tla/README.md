# A verification of DysonCode

DysonCode is a desktop application that plans and carries out programming work
with language models. This directory holds TLA+ specifications of its core, the
TLC runs that check them on small instances and theorems that TLAPS proves for
every instance. Paths below are relative to the root of the repository.

## The system

| Part | State | Operations | Talks to |
|---|---|---|---|
| Task graph (`kore/task_graph.py`, `dyson_road.py`, `replanner.py`) | nodes with a status and a risk, edges | readiness, road order, constraint application | called by the sprint state machine |
| Sprint state machine (`kore/orchestrator.py`) | one sprint: state, graph, current node, failures, score, verdict; the constraint log; the autonomy level | start, plan, next node, builder node, complete, fail, heal, harness, finalize, pause, resume, abort, human decision, jcode request | emits events to listeners in the call that causes them |
| Builder session and backends (`kore/execution/`) | the files changed by one session | a list of tool calls on kore-exec or OpenHands | called by execute_builder_node |
| Mission Control (`kore/ui/`) | a mirror of the sprint, an event bus with subscriber queues | commands, SSE, render loop | listens to the state machine |
| Electron bridge (`kore/ui/electron_bridge.py`) | one run: step counter, queue | start, work through nodes, write lines | commands in, stdout lines out |
| Mission Control manager (`src/main/mission-control-manager.ts`) | child handle, status, last snapshot | start, stop, line, stderr and exit handlers | spawns the bridge, informs the windows |
| jcode pipeline (`kore/jcode_*.py`, `omega_router.py`, `fixpoint_evaluator.py`, `ratchet_scorer.py`) | a request's stage, best score, route | precheck, two passes, scoring, routing | changes the sprint through omega routes |
| Working memory (`kore/memory/`) | nodes by temperature, session store, archive | add, mark active, evict, archive | awaits a language model |
| kore-api credits (`kore-api/middleware/credits.py`, `middleware/billing.py`, `routes/register.py`, `main.py`) | two JSON files: balances with their history, meters; the keys a worker knows | registration, call, purchase, webhook | two workers, Stripe's retries |
| kore-api subscriptions (`kore-api/webhook_router_v2.py`, `billing_v2.py`) | in each worker: pools, tenants, subscription records, grace periods | one handler per Stripe event | Stripe events in any order, to any worker |
| kore-api other billing (`billing_pg/`, `routes/wallet_store_redis.py`, `middleware/quotas.py`) | balances in PostgreSQL or Redis, quotas | deduction, charging | no caller, or counters of one process |
| kore-api endpoints (`kore-api/routes/`) | none of their own | one answer per request | billing |
| Planning canvas (`renderer/components/BlueprintWorkspace.tsx`) | messages, sessions, plan, issues, busy; logs at module level that outlive a mount | commands, each an async handler with the closure of its render | agent:execute, the sessions table |
| Chat (`ChatPanel/`, `main/jcode-client.ts`) | messages, token buffer, busy; one jcode process per prompt, one session id | send, abort, reset, leave; lines, errors, close | run-stream and its events |
| Agent panel (`JcodePanel.tsx`, `main/agent-executor.ts`) | rounds, tool badges; endpoints | send, tools, endpoints in turn | kore:execute, preload bridge |
| Panel manager and browser (`main/panel-manager.ts`, `BrowserPanel.tsx`) | bounds and visibility of native views; tabs | messages from the layout, navigations | one native view shared by sidebar and centre |
| Terminals (`main/terminal-manager.ts`, `Terminal.tsx`) | shells; tabs | create, kill, list, exits, quit | node-pty |
| Flow graph (`components/flow/`, `main/graph-service.ts`) | tables, store, canvas, unsaved layout | edits, drags, runs, bootstrap, session switch | SQLite |
| Workspace (`appStore.ts`, `RepoDropdown`, `SessionList`, `FileTree`, `main/repo-context.ts`, `main/db.ts`) | repository, path, file tree, sessions, cached context | browse, activate, scan, select, create, delete | SQLite, file system |
| Frame modulator (`DysonFrameModulator.tsx`) | text, chosen frames, one fusion | fuse, toggle, type, send, audit | a model with one fallback |
| Prompt vault (`PromptVault.tsx`, `main/vault-import.ts`) | rows, list, search | seed, import, pin, use, delete, search | SQLite, file dialog |
| Agent memory (`main/kore-memory.ts`) | one JSON file | store, context, clear | file system |
| Mission Control view (`hooks/useIpc.ts`) | snapshot and status shown | subscribe, ask | Mission Control manager |
| kore-exec (`kore-exec/src/`) | none | one tool request, one answer | spawned by the Python backends |

What is hard in it:

* *legal calls in unusual orders*: the methods of the state machine guard little
  more than "there is a sprint" or "there is a current node", and Mission
  Control, tests and scripts call them in any order;
* *partial failure*: `KeyError` in the middle of a replanning, a builder that
  fails on its third tool call, an exception between two stages;
* *event order*: child processes whose lines, errors and exits are handled late,
  after the manager has moved on to another child;
* *state across awaits and processes*: memory eviction around a model call,
  balances read and written back, Stripe events redelivered and reordered;
* *stale closures*: a handler of a React component works on with the values of
  the render in which it was created, while others change the store behind it;
* *two copies that must agree*: what the renderer shows and what the main
  process has, with invocations, answers and events under way in between;
* *state of several processes*: the two workers of kore-api read, empty and rewrite the
  same files without a lock, block by block, and each keeps subscriptions of its own in memory.

For the components the properties that make them correct are: the state machine
never forgets what a failure taught and never undoes finished work; the bridge
works in dependency order, one node at a time, and ends; the mirror agrees with
the kernel; the manager can always kill what it started; the memory loses no
node without a snapshot of it; a balance is the sum of its history and never more than was
granted, and a tenant has only pools its own customer paid for. In the
desktop: every line of a process is shown once, busy means that something is at
work, a message goes to the session it belongs to, what gives up has tried
everything, and once nothing is under way both copies agree.

## Modules

| Module | Models |
|---|---|
| `TaskGraph` | the task graph as operators on a graph value: readiness, road order, `replan` |
| `DysonOrchestrator` | the sprint state machine, one action per method |
| `MissionControl` | the mirror, extending the state machine with what its listener does |
| `BridgeRun` | the bridge process, composing the two above with its own control |
| `SprintRun` | the abstract specification of an unattended run; `BridgeRun` implements it |
| `MissionControlManager` | the manager in the Electron main process and its children |
| `MemoryTiers` | working memory, session store and archive under concurrent evictions |
| `BlueprintWorkspace` | the planning canvas: commands from await to await with stale closures |
| `ChatStream` | the streaming chat, from the reducer to the jcode processes |
| `JcodeAgent` | the agent loop, the endpoints and the tools of a round |
| `Panels`, `BrowserTabs` | where the native views lie; the tabs that share one view |
| `Terminals` | shells in the main process, tabs in the renderer |
| `FlowGraph` | the graph of the flow canvas, in the database, the store and on screen |
| `Workspace` | repository, file tree and session list against the main process |
| `FrameFuser` | the input and the frame modulator |
| `PromptVault` | the vault's table and the list shown of it |
| `KoreMemory` | the memory file of the agent panel |
| `MissionView` | what the renderer shows of Mission Control |
| `CreditLedger` | the prepaid credits of kore-api: two workers, two files, Stripe's deliveries |
| `SubscriptionWallet` | the subscription pools of kore-api under Stripe's events, in a store per worker |
| `KoreApi` | composes the two |
| `DesktopRun` | composes the eleven parts of the desktop above, from `ChatStream` on |
| `BridgeRunProofs` | the theorems about `TaskGraph`, `DysonOrchestrator`, `MissionControl` and `BridgeRun` |
| `MemoryTiersProofs`, `MissionControlManagerProofs`, `BlueprintWorkspaceProofs` | the theorems about the module of that name |
| `KoreApiProofs` | those about `CreditLedger`, `SubscriptionWallet` and `KoreApi` |
| `DesktopStoresProofs` | those about `PromptVault`, `Workspace` and `FlowGraph` |
| `DesktopRunProofs` | those about the other parts of the desktop and about `DesktopRun` |
| `Induction` | induction over numbers and along queues as facts about sets, cited by the proofs |
| `MCDysonOrchestrator`, `MCBridgeRun`, `MCMemoryTiers`, `MCBlueprintWorkspace`, `MCKoreApi` | instances for TLC |

### TaskGraph

A graph is a record of functions over `Id`: `rank` (position in the dict `nodes`,
which the ties of the road order and `pending[0]` depend on), `status`, `risk`
and the set of `edges`. An edge source need not be a node: `_inject_constraint`
uses a failure class as a source, and an `EDGE:` line may mention any name. That
is why readiness has three outcomes in the model: `ReadyMayRaise` (a source is
no key of `nodes`, `KeyError`), `ReadyMayReturn`, and both, where `all()` stops
early or not with the iteration order of a set of strings.

`dyson_road_score` is a quotient of floats. The model compares
`gain * context` in hundredths against risk in tenths by cross-multiplication,
which orders the nodes as the code does for risks with one decimal.

`replan` applies the constraint log in a loop, and so does `ApplyConstraints`. What the loop
amounts to is said without a loop in `BridgeRunProofs` only, as a lemma.

### DysonOrchestrator

Each action is a whole method. `graph`, `current`, `failures`, `score`,
`verdict` are the fields of `Sprint`; `state` is `"IDLE"` when
`current_sprint` is `None`. A `RuntimeError` guard is a guard of the action;
`KeyError` is an outcome (`raised`), because what was changed before it stays
changed. `emitted` holds the events of the call with the payload keys a listener
reads. Events that the mirror ignores (`kore.role.stream`,
`kore.exec.backend`) are left out.

`ExecuteBuilderNode` is the method including the session, the failure and, with
`auto_recover`, the healing in the same call. The outcomes of the session and of
`complete_node` are choices: any failure class, any typed constraint of `Causes`
on this node, a `CodeDelta` of high or low confidence, or an exception that
`execute_builder_node` does not catch (`SessionRaises`): it catches
`KoreExecFatalError` only (`orchestrator.py:400`), and the mock's file tools may raise `OSError`, an
unknown status `ValueError`. The node then stays running.

`heal_and_replan` reads the state nowhere, so the model lets it be called in any
state, as a caller can; the same holds of `human_decision`, `complete_node` and
the finalizers.

### MissionControl, BridgeRun, SprintRun

`_forward_event` runs inside `_emit`, so the mirror changes in the step that
emits (`Forward`). The publish tasks it creates run at the next `sleep(0)`, which
is the first statement of `drain_snapshots`; until then events are `pending`.
Between awaits the bridge is atomic. The program counter `pc` has one value
per statement of `run_bridge` that touches the kernel or stdout. The option
`--execute-builder` is parsed and never read by `run_bridge`; builder nodes are
executed in any case, and so they are in the model.

`SprintRun` promises what a user of the bridge relies on: a plan is made once, one
node is worked on at a time and only when all it needs is done, nothing done is
undone, nothing is started after a failure, and the run is over eventually, whatever it
is at: it may break off in the midst of a node (`Stop`), which is what an exception of the
builder session does to the process. The
mapping takes the graph for the plan, its edges for the needs, the current node in
`NODE_READY` for the one being worked on, and the end of the loop for `over`.

### MissionControlManager

A child process is numbered by its start. `life` is what the operating system
does with it, `stdout` and `stderr` what Node has not handed over yet. The four
handlers are closures that do not know whether their child is still the one in
`this.proc`, and neither do their actions. Lines may be handled after the exit,
because the pipe and the process are different event sources. A spawn that fails (there is no
`python`) still gives `start` a handle and the status "starting"; what follows is an
`error` event, for which the manager has no listener. Electron's default handler of the
uncaught exception shows a dialog and goes on, and no exit event comes (`failed`). The two history
variables `overlapped` and `interrupted` record whether the manager was used in
the way that is safe: a start only when the last bridge is gone, no kill.

### MemoryTiers

Tasks of one event loop call the memory keeper on one `MemoryGraph`. An eviction is
atomic up to `await self.llm.complete` and after it, so it is two actions:
`ReadColdNodes` remembers in `cold[t]` what it read, `ModelAnswers` makes the
snapshot of that and removes whatever bears those ids by then. `ModelFails` is an
exception, the timeout of 120 seconds or a cancellation. The coroutines that
`archive_session_overflow` awaits never suspend: it is one action, which may stop
at any row because a write raises. The graph and the session store live in
memory only, so a crash loses them by design and is not modelled.

The content of a node is the number of its add; a snapshot is the set of the
entries that went into its prompt. The kind of a node matters only for its
initial temperature: the forced branch of `evict_cold_nodes` that would sort by
`eviction_priority` cannot be reached. `memory_keeper.py` does not import
`NodeTemperature`, so that with no cold node a forced eviction raises
`NameError` at the first node off the active path; when there is no such node
it has no candidates. In both cases nothing changes. The default limits 40, 60,
300 and the 50 snapshots below the limit are the constants `SoftLimit`,
`HardLimit`, `SessionLimit` and `Batch`.

Four history variables name what the code cannot help: entries replaced under
their id, added under an id that was being evicted, or read by two evictions at
once, and whether `evict_cold_nodes` was called without its trigger.

### BlueprintWorkspace

Each command of the user is a handler `j` with a program counter. An action runs
from one await to the next at which the handler can see or change something shared.
`home` and `list` are the session and the list its closure captured; the session
counts only while the list still holds it, as in `ensureSession`. What a model
answers is a choice: the reviewer's FAILs (labels), CHECKs and CONVERGED, the
score of a plan, the outcome of a subagent. `checkConvergence` is modelled by what
its regular expression accepts: `/RESOLVED/i` also matches `UNRESOLVED` (`SaysResolved`), and
`every` of an empty list is true. `log` and `blocked` are the module-level arrays,
of which only the length matters; `EarlierLogs` is what earlier mounts may have
left in them. The subagents of a pipeline are the stages in `chain`; when one throws,
`Promise.all` ends the handler and the others go on (`Unattended`).

The branch of `executeBlueprintPlan` for a plan without modules cannot be reached:
the parser falls back to one module. It is not in the model.

### ChatStream

Prompts are numbered, and a prompt is also the name of its message, its process
and the session that process founds. `wire` holds what the main process has sent,
in order; `buffer` the tokens that wait for an animation frame. Receiving the end of a message
acts at once, which is what may come before its tokens. A process may fail to spawn, write tokens
and error lines, and close; its session id is taken on close. `jcode:cancel-stream`
comes without a payload, for which the handler returns, so an abort changes the
renderer only.

### JcodeAgent

`handleSend` is sequential except for the tools of a round, which run side by side;
`phase` says where it stands. `Endpoints` is the list `executeAgent` builds from the
routing profile. Of a tool call only its name and parameters matter, since
`updateToolGroup` matches badges by these two; a round may contain equal calls. No output and no
error, or an error that reads like a missing binary, sends a call to the preload
bridge although kore-exec has performed it: `performed` counts up to 2.

### Panels and BrowserTabs

`Panels` has the messages each change of the layout posts, in the order in which
React runs the effects (cleanups first, then children before parents), and the
state `panel-manager.ts` derives the place of the views from. `leftover` records the
one way in which the view legitimately stays behind: a reload under the sidebar's
browser. `BrowserTabs` has the requests and reports between the tabs and the view.

### Terminals, FlowGraph, Workspace, PromptVault, MissionView

All five follow one pattern: the renderer's handlers post an invocation, the main
process handles invocations in the order in which they arrive, and the answer
carries what the rest of the handler after its `await` needs, values captured before it included.
A component that is mounted anew has forgotten that it runs: `attached` has the runs whose
component is still the one that started them, and only these disable the Run button.
Each names in a history variable the circumstances under which the copies may
differ (`disturbed`, `clashed`, `strayed`, `overlapped`, `latecomer`, `orphan`,
`raced`); the comment at the variable says what happens then in the code.

### FrameFuser and KoreMemory

A fusion works on the text and the frames of the render it was clicked in. A text
is its version and the frames that rewrote it; the prompt chosen for a set of frames is part of the
result, because only some orders of a pair are keys of `FUSION_FRAMES`.
`KoreMemory` reads and writes the whole file in each call; a write may fail, which
the code swallows, or be cut short by the end of the process, after which the file
counts as empty. The history variable `lost` has the nodes these writes lose: what the call
added, or all there were.

### CreditLedger, SubscriptionWallet, KoreApi

In `CreditLedger` a worker is at one request (`job`), because no handler awaits while
it accounts. Between two workers each access to a file is a step: `LoadToAdd` and
`LoadToSpend` read it, `OpenBalances` and `OpenMeters` empty it (`open(..., "w")`), and then
the dump goes out block by block (`WriteBalances`, `WriteMeters`), the last block with the step that ends
it (`Registered`, `Purchased`, `Charged`, `Served`). `texts` has the dumps that may have blocks
in a file. While there is one, the file reads as nothing until the dump is complete; once there are
two, each block may leave any mixture of their entries that parses (`Mixtures`), among
them what the seam of two texts may read as (`Garbled`), or something that does not. A file that cannot be
parsed is taken for no file. `agents` is the dictionary `_agents` of a worker: a key is known
only to the worker that issued it. Of Stripe the model has what the code relies on: a paid
session with its metadata, delivered to any worker and again until it is answered
200. The code never answers a granted session so (`Purchased`), so that only the bound ends the
deliveries. `overlapped` records that two requests were in work at once or one was cut off,
`mingled` that the balances were opened while another dump of them was under way.

In `SubscriptionWallet` each handler is one step, because none of them really waits with
`InMemoryWalletStore`. `railway.toml` starts two workers and restarts them: each has a store of its
own (`store[r]`), an event goes to any of them, and `Restart` empties one. `main.py` calls no
`configure_store`, so that as it stands every event is answered 500;
`kore-api/billing-v2-deployment.md` says how to call it. `configured` stands for both. The constant `Named` has the
customers whose subscriptions name their tenant; the others are found by the customer, once that is known. A
price comes as its id or as the object Stripe sends, for which a creation does nothing. An
invoice may be written after the end of its subscription. A pool is full or absent; its
number of credits follows from its tier.

The two share no state; `KoreApi` shows one of them at a time, as `DesktopRun` does with the
parts of the desktop.

### DesktopRun

The eleven parts share no variable, so their product would only multiply their states.
`DesktopRun` shows one of them at a time: `scene` is chosen in the initial state, and
the other parts rest. For a property of one part that is the same as running it on
its own, since no step of another part could change its variables. For a property
that joins two parts it is weaker than a product only in that both are never away from their
initial states at once; all such properties here are conjunctions of
statements about one part each. Off scene each part has one initial state;
on scene it has all of them. `OffScene` also asks that one fixed directory be
readable: the directories are interchangeable, and with none readable the tree stays
empty.

## Runs

| Run | Checks | Result |
|---|---|---|
| `orchestrator` | `FailuresAreEdges`, `FailedWaitsForItsClass`, `EndedSprintIsJudged`, `OnlyTheFirstAskerWaits`, `DoneIsUndoneOnlyByFailure`, `GraphOnlyGrows` | hold, 403,668 states |
| `bridge` | `OneNodeInWork`, `MirrorCountsTheGraph`, `FinalLineIsCurrent`, `KeepsSprintRun`, `Termination` | hold, 7,503 states |
| `mission_control_manager` | `HandleIsNewest`, `NoBridgeEscapes`, `EndsVisibly` | hold, 551,068 states |
| `memory_tiers` | `NothingForgotten`, `SummarisedOnce`, `SnapshotsAgeInOrder`, `ActiveNodeIsPinned`, `SessionOvershoot` | hold, 1,322,995 states |
| `blueprint_workspace` | `HandlerKeepsItsSession`, `BusyFlagAccount`, `NothingWorksUnattended` | hold, 3,460,250 states |
| `desktop` | `DesktopTypeOK`, `TokensArriveOnce`, `StreamsAgree`, `FailuresAreExhaustive`, `BadgesSettle`, `BrowserAgrees`, `TabsAreTheTerminals`, `SavedIsKept`, `SidebarAgrees`, `DesktopComesToRest` | hold, 551,458 states |
| `kore_api` | `BalanceIsHistory`, `CreditsWereGranted`, `LedgerIsComplete`, `PoolsWerePaidFor` | hold, 1,742,951 states |
| `active_node_evicted` | `ActiveNodeStays` | violated |
| `heal_stuck` | `HealingLeadsOn` | violated |
| `done_gate_unfinished` | `DoneGateMeansDone` | violated |
| `stop_leaves_bridge` | `StopLeavesNoBridge` | violated |
| `abort_goes_on` | `AbortIsFinal` | violated |

**orchestrator.** Any order of calls. Bounds: two failures of a sprint
(`MaxFailures`) and two entries of the log (`MaxConstraints`), three ids, one
of which (`tool`) is at once a module of a spec and the name of a failure class,
one a dependency that does not exist at first; specs with an edge, without one,
and of one module. Two failures are enough for a node to fail again after
healing, for two nodes to fail and for one constraint to change what a later one
does; the log outlives the sprint, so that the second sprint starts with a full
log. Scores are one above each threshold with and without the hard gates. The
view leaves out `raised` and `emitted`, which no action and no property of the run reads. Deadlock is not checked: a
sprint in which nothing can be called any more is a legal end within the bounds.

**bridge.** All graphs over one, two and three modules with up to four edges
between them or from an unknown name: chains, forks, joins, cycles, self-edges; and
a spec without modules. `MaxSteps` is 2, the default of `--max-steps`: one or two
modules can be finished, three cannot. So each way out of the loop occurs: the
step bound with and without work left, an empty road with and without unfinished
nodes, a builder failure, a `KeyError`. The mirror has no counterpart for
blocked nodes, so `MirrorCountsTheGraph` compares what it counts.

**mission_control_manager.** Three bridges, each with at most one snapshot and
a last line, started and stopped at any time. Three are enough for a handler of
the first to run after the third was started.

**memory_tiers.** Two tasks, three ids, four adds and three evictions: a node is
added again under its id while one or two evictions read it, an eviction is
retried, and the session store (limit 2) is filled past its limit by two tasks
at once. The ids and the tasks are symmetric, and the run checks invariants
only. Deadlock is not checked: the bounds end every behaviour.

**blueprint_workspace.** Two commands of any of the seven kinds, a plan of two
modules, two labels, one edit of the plan or switch of session. Two handlers are what it takes to
overlap, and their order of calls is fixed by number. `ForgeN` is the 5 of the code;
the logs start at 9 and at 15 entries, the last lengths before the gates of the
surfaces (10 and 3 N) open, so that short behaviours reach both sides of them. A
deliberation may take all three of its rounds. Deadlock is not checked: a user
may stop.

**desktop.** Per scene: two prompts of two lines with one reset or departure (an
overlap of two streams, each of which can fail, end or be aborted); two rounds of
two tool calls, equal ones included, over every routing mode; any layout with one
message under way beside the one being posted; two queued navigations and one more
tab; two shells and two open calls; two sessions of the flow graph, with up to two stored nodes and
three acts of the user, of which the first lies before the behaviour: it has left nothing behind, or a run
of the newest node whose component is gone, or a drag of it that is not committed and over which the
canvas was redrawn (`LeftNothing`, `LeftRun`, `LeftDrag`), so that two more acts are enough for a second run
beside the first and for a drag that replaces the one before; room for the four nodes of a bootstrap
and one more; two directories, two visits and a session more; three frames, among them
a named pair whose key is sorted and one whose key is not, with one more text; three acts on a vault of two rows; three memories for a limit of
two; three emissions over two pages. Most of these hazards need two actors and two
operations. Deadlock is not checked: the bounds end every behaviour, and a desktop
that nobody uses rests.

**kore_api.** Credits: prices are small numbers instead of thousands: one credit free, two in a
pack, services for one and two, so that a balance is enough, short by one and used
up. Two workers share the accounts of two customers and those of nobody (`unknown`,
`anonymous`), with one purchase, one crash and a quota of one call: each overlap of two requests
on a file, a file cut short, two dumps in one text and a delivery lost with its
worker occur. A quota of one is enough to be passed, for the meter may be lost. Once a file that parses
holds blocks of two dumps no property speaks of the credits any more, and the run goes no
further (`MCNotMixed`); the theorems hold without that constraint. Pools: two customers, of whom one is
named in its events, two tiers, two subscriptions
each, and three events, each delivered up to twice, in any order, to two workers that may restart
at any time, with both forms of a price; so each handler meets an event of the other customer, of an
older subscription and of a tenant not yet known. Deadlock is not checked: the quota and the
bounds on deliveries and events end every behaviour.

The type invariants of the kernel, the bridge, the manager and the memory are not in
the runs: they are proved for all values of the constants.

The five violated properties are statements of comments, docstrings and tests; the
findings in `PROJECT.json` quote them:

1. *Healing gets stuck.* After a failure the graph has an edge from a failure
   class, and `get_ready_nodes` raises `KeyError` for it as soon as the failed node
   is pending again. `heal_and_replan` leaves the sprint in `HEALING`.
2. *DONE_GATE with unfinished nodes.* An empty road is taken for a finished sprint.
3. *Stop leaves a bridge running.* The exit handler of an older child drops the
   handle of the newer one.
4. *The active node is evicted.* A node that becomes active while the model
   summarises it is removed all the same.
5. *An abort is not final.* The cancel message carries no id, the process goes on,
   and its tokens are shown behind the abort marker.

`NoBridgeEscapes` holds under `~overlapped`, that is
when each bridge was gone before the next was started; finding 3 is what happens
without this condition. `EndsVisibly` names the run that does not end visibly: the one whose process
could not be spawned, which is shown as starting for good. `FailedWaitsForItsClass` states as an invariant what
finding 1 follows from: a failed node never becomes ready again by itself.

### Fairness

The safety properties need none, and `DysonOrchestrator` has none: nobody is
obliged to call a method. `BridgeSpec` assumes weak fairness of the process as a
whole: a process that can run is scheduled, and a tool call returns because each
backend puts a timeout on it. `MissionControlManager` assumes that a bridge ends
(shown by `Termination`), that a kill is carried out, and that Node's event loop
handles what is pending. It assumes no order between the event sources and
nothing of the user, who need not start or stop anything.

In the desktop only what runs by itself is fair. `ChatFairness`: events on the wire
are received, a jcode process that was asked for runs (or fails), and it closes, because
`jcode-client.ts` kills it after 120 seconds. `AgentFairness`: each await of
`handleSend` has an end (3 seconds for the preflight, 60 for a tool, 30 for the
bridge, fetch's own limit for an endpoint). `TerminalsFairness`: calls are handled and answered, and
Node reports the end of a shell that was killed. `FlowFairness` and `VaultFairness`:
invocations are handled and answered and the timers of the layout and of the search
fire. No user action, no end of a shell by itself and no load of a page is fair.
`CreditLedger` and `SubscriptionWallet` have only safety properties and assume none: of what kore-api
owes nothing is certain to arrive.

`DesktopComesToRest` is all of the desktop's liveness: a busy chat and a working agent come
to rest, a bootstrap ends, a kill takes effect. The planning canvas has no
liveness property: an `agent:execute` that never answers leaves its handler where it is.

## Theorems

For every set of ids, specs, causes and scores, and for any number of failures:

| Theorem | States |
|---|---|
| `TypeCorrect` | `Spec => []TypeOK` |
| `TypeInvariant` | `Spec => []TypeInv` |
| `NothingIsForgotten` | `Spec => GraphOnlyGrows` |
| `FailuresAreRemembered` | `Spec => []FailuresAreEdges` |
| `DoneStaysDone` | `Spec => DoneIsUndoneOnlyByFailure` |
| `ActiveNodeKnown` | `Spec => []ActiveNodeIsKnown` |
| `FailedWaits` | `Spec => []FailedWaitsForItsClass` |
| `EndedIsJudged` | `Spec => []EndedSprintIsJudged` |
| `OnlyTheFirstWaits` | `Spec => OnlyTheFirstAskerWaits` |

for every set of plans, every `MaxSteps` and every bound on the failures of the bridge:

| Theorem | States |
|---|---|
| `BridgeIsTyped` | `BridgeSpec => []BridgeTypeOK` |
| `OneAtATime` | `BridgeSpec => []OneNodeInWork` |
| `PanelCountsTheGraph` | `BridgeSpec => []MirrorCountsTheGraph` |
| `LastLineIsCurrent` | `BridgeSpec => []FinalLineIsCurrent` |
| `BridgeKeepsItsPromise` | `BridgeSpec => Run!RunInit /\ [][Run!RunNext]_(Run!runVars)` |

for every set of ids, every finite set of tasks and every limit of the memory:

| Theorem | States |
|---|---|
| `TiersTyped` | `Spec => []TypeOK` |
| `NothingIsLost` | `Spec => []NothingForgotten` |
| `NothingTwice` | `Spec => []SummarisedOnce` |
| `OrderKept` | `Spec => []SnapshotsAgeInOrder` |
| `ActiveIsPinned` | `Spec => []ActiveNodeIsPinned` |
| `OvershootIsBounded` | `Spec => []SessionOvershoot` |

for any number of bridges and of lines each of them writes:

| Theorem | States |
|---|---|
| `ManagerTyped` | `Spec => []TypeOK` |
| `TheHandleIsNewest` | `Spec => []HandleIsNewest` |
| `OnlyOverlapLetsEscape` | `Spec => []NoBridgeEscapes` |

for any number of commands, modules, labels and sessions of the planning canvas:

| Theorem | States |
|---|---|
| `BusyIsAccountedFor` | `BPSpec => []BusyFlagAccount` |
| `OnlyAThrowLeavesWork` | `BPSpec => []NothingWorksUnattended` |
| `SessionsAreKept` | `BPSpec => []HandlerKeepsItsSession` |

for any workers, customers, purchases, prices, seams of two texts, tenants, tiers, events and
deliveries of kore-api:

| Theorem | States |
|---|---|
| `TheBalanceIsItsHistory` | `LedgerSpec => []BalanceIsHistory` |
| `NoCreditIsMade` | `LedgerSpec => []CreditsWereGranted` |
| `TheLedgerIsComplete` | `LedgerSpec => []LedgerIsComplete` |
| `OnlyOwnPayment` | `WalletSpec => []PoolsWerePaidFor` |
| `StoresKeepTheirTypes` | `WalletSpec => []WalletTypeOK` |
| `TheBooksAreRight` | `KoreSpec => []` of the four |

and for any number of prompts, lines, endpoints' failures, tools, calls, frames, tabs, shells,
rows, directories, sessions and nodes of the desktop:

| Theorem | States |
|---|---|
| `ChatTyped` | `ChatSpec => []ChatTypeOK` |
| `SessionsAreFounded` | `ChatSpec => []ResumesWhatWasFounded` |
| `BusyIsJustified` | `ChatSpec => []BusyMeansStreaming` |
| `TheTokensArriveOnce` | `ChatSpec => []TokensArriveOnce` |
| `AgentGivesUpLast` | `AgentSpec => []FailureIsExhaustive` |
| `BadgesKeepUp` | `AgentSpec => []BadgesSettle` |
| `TheViewFollowsTheLayout` | `PanelsSpec => []ViewFollowsLayout` |
| `TheTabBearsItsPage` | `TabsSpec => []ActiveTabShowsThePage` |
| `TheTabsAreTheTerminals` | `TerminalsSpec => []TabsAreTheTerminals` |
| `TheMissionIsShown` | `MissionSpec => []MissionIsShown` |
| `TheListIsCurrent` | `VaultSpec => []VaultListIsCurrent` |
| `TheWorkspaceAgrees` | `WorkspaceSpec => []WorkspaceAgrees` |
| `TheMemoryIsKept` | `MemorySpec => []MemoryIsKept` |
| `TheGraphIsKept` | `FlowSpec => []FlowIsKept` |
| `DesktopStreamsAgree` | `DesktopSpec => []StreamsAgree` |
| `DesktopFailuresAreExhaustive` | `DesktopSpec => []FailuresAreExhaustive` |
| `DesktopBadgesKeepUp` | `DesktopSpec => []BadgesSettle` |
| `DesktopTokensArriveOnce` | `DesktopSpec => []TokensArriveOnce` |
| `DesktopBrowserAgrees` | `DesktopSpec => []BrowserAgrees` |
| `DesktopTabsAreTheTerminals` | `DesktopSpec => []TabsAreTheTerminals` |
| `DesktopSidebarAgrees` | `DesktopSpec => []SidebarAgrees` |
| `DesktopSavedIsKept` | `DesktopSpec => []SavedIsKept` |
| `DesktopIsTyped` | `DesktopSpec => []DesktopTypeOK` |

Assumptions: `IdAssumption` (`Id` is finite, and the functions over it have their
types) and `OrchestratorAssumption` (the parameters have their types and `None` is
none of the values it stands in for), `KeyAssumption` (nor is it a state or a count) and
`StepsAssumption` (`MaxSteps` is positive) for the bridge, `MemoryAssumption` (the tasks are finite,
the limits are numbers and archiving takes at least one snapshot), and for the
modules of the desktop that the bounds are numbers and the sets finite where they
are counted (`BlueprintBounds`, `ForgeAssumption`, `ChatBounds`, `AgentBounds`,
`FuserBounds` and the like). Some say more than that. `FlowBounds` has the nodes stored
before the start fit into `MaxNodes` and counts one act at least, the one before the
behaviour; `ViewBounds` has at least one page of the Mission Control view. `TabBounds` keeps the
value that stands for a view that loads nothing apart from the pages. `LedgerBounds` has the prices
positive and lets the seam of two texts read as any entries that are a number with a sequence of numbers.
`TenantsAreTheirs` says that no two customers name the
same tenant, and that no tenant is the value for `None`: the store has room for one subscription
of a tenant (`webhook_router_v2.py` keeps its record by tenant id), so that two customers of
one tenant would overwrite each other's. TLC evaluates the assumptions on the runs.

The argument. Types alone are not inductive: `complete_node` writes the status of
the current node, which needs that node to be in the graph. So
`TypeInv == SprintTypeOK /\ CurrentInGraph /\ PlanningHasNoGraph`; the last
conjunct is needed because `execute_planning` replaces the graph and leaves the
current node alone. The lemmas about `TaskGraph` say that applying constraints
yields a graph, drops no node and no edge, and changes the status only of inserted
and of blocked nodes. With them each action is summarised once as an effect
on the sprint (`StepEffect`: nothing, the sprint dropped, planned, worked on, a
failure taught) and on the state (`StateEffect`), and each property is proved from
the effects instead of from the thirteen actions. `FailedWaitsForItsClass` needs
two strengthenings: a blocked node has failed (`BlockedHaveFailed`), and what is
handed out was ready when it was chosen (`HandedOutIsCleared`).

Replanning. `ApplyConstraints` is the loop of `replan` over the log; the proofs reason with what it
amounts to, `AtOnce`. `Upto`
describes each field of the graph after the first `k` constraints; one more constraint is shown to
lead from `Upto` of `k` to that of `k + 1` (`UptoNext`), and the loop passes through
the same graphs by `NatsIn` (`LoopIsUpto`, `LoopIsAtOnce`). Where the two could differ is a node that
several constraints insert: it keeps the rank and the edges it was given first
(`InsertedOnce`, `RankOfInserted`). `OnlyTheFirstAskerWaits` follows from that for one replanning
(`FirstWaits`); for a call that teaches a failure and heals at once, the edges that appear are those of
the log and those of the failures on record (`TaughtBy`).

The bridge. `BridgeInv` adds to the invariant of the kernel which states the sprint can
be in at each place of `run_bridge` (`LoopControl`) and what is still to be drained
(`Drained`). A kernel call emits at most four events; `EventsInOrder` unfolds
`ApplyEvents` for so many, and `SprintCallEffects`, `NodeCallEffects` and
`FailureCallEffect` say what each call does to the mirror's node and counters.
`StatusStep` says how a change of status moves a node between the sets that
`StatusIs` counts; that the node handed out was not done, and the one in work was
running, makes each counter move by exactly one. For `SprintRun` every step is
mapped to a step or a stutter (`PromiseNext`, `PromiseWork` and so on);
`ReadySources` is what makes `NextNodeCommand` a `Start`, and an exception of the builder session is
a `Stop` with the node still being worked on. That the run is over
eventually, the fairness of `SprintRun`, is left to TLC.

The memory tiers. `NothingForgotten` speaks of the session store and the archive,
between which snapshots move; it is proved for their history (`EveryEntryIsHeld`)
and carried over by `SnapshotsAgeInOrder`. It needs `EvictedWasRead`: what bears
an id under eviction was read by it or came during it. `SummarisedOnce` needs that
entries are numbered and name one id (`EntriesAreNumbered`), and that what was
summarised has left the graph (`SummarisedAreGone`). `SessionOvershoot` counts the
tasks between the check and the append.

The manager. `ManagerInv` ties the handle to the bridges: it is none or the newest
one, not yet reaped; a bridge not yet started has written nothing; and without
`overlapped` every bridge but the newest is gone and the newest, if at work, is the
handle. Handlers of old bridges change nothing the invariant says of the newest. A bridge that was
never spawned may be the handle for good: it is gone, and nothing of it is ever handled.

The planning canvas. Three layers, each proved from the one below. `CanvasInv` says
of each handler which of its fields its program counter allows (`DelibOK` for the
deliberation, `ChainOK` for the subagents, `KindOK` for its kind) and what busy
accounts for; the first two theorems follow. `StoreInv` keeps sessions, list and
closures among the sessions created so far. `KeepInv` says
for each handler into which sessions it has written (`Written`): only its home, or
sessions created after its closure was taken, at most one where it resolves once
and two where it resolves again.

The chat. A busy flag is right for a reason that lies elsewhere: in a process, on
the wire, or in a message that was lost. `WireInv` says that an event on the wire is
of a prompt that was sent, an end of a process that is gone, and that no end is there
twice. `ViewInv` says that a busy chat has a current message, open and with its end
still `Coming`; that an end to come is of an open or a lost message; and that an
open message either follows a lost one or is the current one of a busy chat, with no
earlier end to come. `SessionInv` says that the session kept was founded by a process
that is gone, and that processes are asked for in the order of their prompts. `TokenInv` adds up, for
each prompt, what is shown, buffered and on the wire: the lines in it are as many as its process
wrote, and tokens rise through all three. Receiving, flushing and sending move
a line from one part of that concatenation to the next, so the lemmas are about
sequences in two parts (`Joined`).

The agent. `AgentInv` is the loop invariant of `executeAgent`: the endpoints before
`next` were unreachable or were asked, in order. `BadgeInv` says that for each tool call
the running badges are as many as the calls not settled; the step that
settles a call needs that there is a first running badge to pick, which follows
from the equality of the two cardinalities and the well-foundedness of `<`.

The views. `WillAgree` follows the messages posted to their end: the state the panel manager
will be in when it has handled them agrees with the layout, whatever it is in now. `Leads` in
`Induction` says to which state a queue of messages leads, and that this is unchanged
when the first message is handled. The same goes for the Mission Control view (`MissionInv`, with
the history variable `raced` as part of the state led to). The tabs need less: the newest
report names the page of the view (`TabInv`).

The terminals. `TermInv` says that every terminal the manager has is to be listed again, or is
in the list that comes with the last answer (`TabsFollow`), and that the manager's map has each
shell once (`MapOfShells`).

Vault and workspace. In both, calls and answers stay in order, and what is shown in the end is
decided by the last of a kind: the newest list call, or else the newest list answer, or else what is
shown (`RowsAreNewest`, `SearchIsNewest`, `TreeFollows`, `ContextFollows`). The list of sessions
is written by several handlers, each from its own copy; `SessionsFollow` says that without an
overlap at most one of them is under way, and began with the list and the table as they are.

The memory. What `NodesAt` keeps lies at increasing positions of what it was given (`LeftAt`), which
is proved along its loop. `FileOK` says that the file is such a rest of the history, cold
only where old; `NoneIsMissed` that what the file lacks was cleared, is in `lost` or has `Limit` nodes after it:
a file never holds more nodes of the end of the history than there are. A failed write leaves the old
file, which lacks the node of the call, and a torn one leaves nothing: both are entered in `lost` by
the step itself.

The flow graph. `GraphInv` says of each copy that it is right or that something under way will make it
so: a graph is complete, in data and in place, or a later answer, a load or a save
replaces what is wrong (`ViewsComplete`, `ViewsInData`, `ViewsInPlace`, `CanvasIsSaved`). For
edits and runs a node that was not saved or run twice at a time (`clashed`) has at most one message that
carries it, and none while it runs (`OneCarrier`, `NoCarrier`); its runs are logged in their order
(`LogInOrder`), and the table has its last edit and run or the save on its way has (`SavedLast`). Each
of the shapes a step can take (a call is handled, an answer is, a node is added, a run begins, ends
or is logged, a layout is drawn or saved) is one lemma over constants, so that the queues before and
after are plain parameters. Where a node lies has an invariant of its own (`PlacesKept`):
the layout not yet committed decides, then the last one on its way that places the node, then the table; what
decides for a dragged node is that drag, until another one may have undone it.

The composition. A step of the desktop is a step of a part or leaves its variables
alone (`PartsStep`), so each part's invariant is carried over as it is; the
modulator's invariant `FuserInv` is proved next to it.

The types of the desktop. Three of them are not inductive without more. In the flow graph
(`FlowTyped`) the rows stay within `MaxNodes` although a call creates its node long after the guard
that counted it: `FlowTyped` counts the calls under way that will (`NodeCalls`), says that the
bootstrap has one message under way at most, that this is the one its step waits for, and that there is
room for the nodes it has yet to create (`BootInv`); everything on its way names nodes that are
there (`TablesFit`, `ScreenFits`); and the runs whose component still stands are runs that were
started (`AttachedKept`). The store of the Mission Control view would show the
mark for nothing held if the status came before the state: `MissionTypes` says that the status comes
once and after the state or with it held (`AnswersInOrder`). A tool is started twice at most because
a call handed to the bridge was started once or not at all (`AgentCounts`).

The wallet. `WalletInv` says that an event names the tenant of its customer or none
(`StripeInv`), and that in every worker's store pools and record of a tenant hold tiers some event of its own
customer speaks of (`StoreOK`). The record is needed because a renewal takes the tier from it; that
events are never taken back (`PaidStays`) carries both over to the next state. Each handler is shown to keep
`StoreOK` of the one store it is given, and a restart begins with a store that has it.

The ledger. A balance is compared with `FoldSeq(+, 0, history)`, which the community module
defines over sets of positions in an order chosen by `CHOOSE`; `Sum` is shown not to depend on
that order (by induction over the set), and to grow by what is appended. `LedgerTyped` holds of any mixture of
dumps. `MoneyInv` is about what holds until two dumps of the balances overlap: one worker at most is at a
dump, and the dumps the file may hold are one (`OneText`), so that a block leaves it unreadable and
the end of the dump complete; then what a worker has read and is about to dump is as sound as the file, and
holds no more than was granted and what the request itself is about to grant. So both properties pass
through every other overlap. `LedgerIsComplete` needs `Alone`: as long as nothing
overlapped one worker at most is at a request, and what it holds differs from what is expected by
what it is about to add or to take (`RequestComplete`).

Induction. The library's induction theorems take the proposition as an operator, which the provers at
hand cannot instantiate. `Induction` states the same for sets: a set that holds 0 and with each number
the next holds all numbers (`NatsIn`), of any set of numbers there is a least one (`FirstOf`). A
proof names the set of the numbers for which its claim holds.

Only model-checked is what is liveness, which is out of the reach of the prover:
`DesktopComesToRest`, `EndsVisibly`, `Termination` and the fairness part of
`KeepsSprintRun`. Every safety property of the passing runs is proved for all values of the
constants.

## Behaviour the models show

These are in the models and no run claims them violated: of most of them no document of the
repository speaks, and they are what the conditions in the properties are about. Where a comment or a
prompt says otherwise, it is quoted.

* Planning canvas: open FAILs are taken for resolved: `/RESOLVED/i` (`:163`) also matches
  `CHECK UNRESOLVED`, although the reviewer's prompt has "When all CHECKs are RESOLVED, output
  CONVERGED" (`:139`) and the final plan is to list "Open Questions (unresolved at round cap)"
  (`:233`); the cross-instance surface ("every 20th convergence (rare)", `:1574`) never runs, because the
  log whose length is tested is cut back at 15 and never has 20 entries; two
  commands begun without a session open two; Plan & Execute never executes the plan
  it has just synthesized; the execute button of the mode bar leaves busy set when
  the session cannot be opened; a subagent that throws leaves the others running;
  an error leaves `execState` at "planning".
* Chat and agent: a last line that cannot be parsed is lost
  (`jcode-client.ts:311`); a badge never shows an error; a silent command runs a
  tool twice; memories are stored under a session id that is new with each send, so
  that the context read for it is always empty.
* Views: the message that would show the right browser goes to
  `window.dyson.electronAPI`, which does not exist; a reload leaves the browser
  over the sidebar; a centre that collapses keeps its bounds; a closed last tab is
  replaced by one that is not active.
* Terminals: keys go to the terminal that was active when the panel was mounted
  (`Terminal.tsx:71-76`); a shell that ends by itself keeps its tab until the next
  operation.
* Flow graph: a node that is saved from data no longer current takes the other's
  edit back; a layout under way is lost to a reload, and the next drag on a canvas so redrawn sends other
  nodes back to where it drew them; a component that is mounted anew offers to run a node that is
  running; a session switched during an
  addition is shown under the new name until the next load.
* Workspace: activating a repository and browsing to a path are not tied together
  (`activeRepo` and `repoPath` may differ); an entry of an outdated tree leads to
  the other directory; a scan's answer replaces a list browsed meanwhile.
* Frame modulator: the keys `vectorscan,sigma` and `erkenntnis,dyson` are not in the
  order in which the ids are sorted, so these fusions are never chosen; a result
  replaces what was typed meanwhile.
* Sprint: `Replanner.check` answers `sat` with the first pending node when none is ready,
  so that healing may run a node whose dependencies are unfinished.
* Sprint: an exception of the builder session other than `KoreExecFatalError` ends the bridge with the node
  still running and no failure recorded (`orchestrator.py:400`).
* Manager: when `python` cannot be spawned the status stays "starting", and the bridge that
  `start` killed before is gone (`mission-control-manager.ts:87`).
* kore-api credits: what one worker saves overwrites what the other saved since, a charge
  among it, so that more is spent than was granted; blocks of two dumps may end up in one
  text that parses, which is then taken for the truth (`credits.py:56`). "Your credits have been
  added" (`main.py:288`) is shown to a buyer whose pack is booked for `unknown`, since the payment link
  carries no customer (`main.py:181`), or not at all, or twice: after granting a pack the
  webhook fails with a `NameError` (`main.py:185`), so that Stripe delivers the session again. The look-up
  of the customer "from api key" (`main.py:226`) finds the keys of its own worker only.
* kore-api subscriptions: as `main.py` configures no store, every event is answered 500. With
  one, a creation whose price is an object grants nothing, although its docstring has "Action:
  grant_pool(tenant, tier, credits)" (`webhook_router_v2.py:190`); a change of plan revokes and grants as its docstring says (`:221`),
  but leaves the tier of the record, so that "find current tier and re-grant" (`:302`) finds the old
  one; an event that comes after the deletion grants the pool again; what one worker was told the other does
  not know, and a restart forgets.
* kore-api keys: a key is refused by every worker but the one that issued it, and by that one
  after a restart; a file that is read while another worker writes it is taken for
  empty, and every account is dropped with the next save.
* Vault, memory, Mission Control view: deleting every prompt brings the seeds back;
  "remove oldest cold ones" (`kore-memory.ts:93`) takes the oldest, which are the cold ones as long as there
  are any (no node is colder than an older one) and hot ones when there are none; a failed write is answered with ok; a snapshot that comes between the
  two awaited answers is overwritten by the older one.

## What is not modelled, and why

* *jcode pipeline, omega routing, fixpoint, ratchet*: each stage decides by words it
  finds in a text; with the scores as free choices nothing is left to check but
  that any route is possible. `process_jcode_request` calls methods of the state
  machine that are modelled.
* *kore-api, other billing*: `RedisWalletStore` and `billing_pg` have no caller; `deduct` of
  `billing_v2.py` works on a wallet made for the call, and the quotas are counters of one process. Of
  the credits, the daily allowance, the services that are always free and the metering to Stripe
  are branches no route reaches; `lab.py` charges a second time by the same functions.
  The endpoints answer from their input.
* *Partial failure of `process_jcode_request`* (`kore/orchestrator.py:705`): part of the
  pipeline above; it stays a hazard without a property.
* *Event bus with the console front, HTTP/SSE front*: not used by the desktop; the bus as the
  bridge uses it is part of `BridgeRun`.
* *Builder session, harness, kore-exec, LiteLLM start*: child processes with a
  timeout, whose outcome is a choice in the actions that wait for them. The start of
  the LiteLLM proxy (`index.js:100-138`) may answer twice, once by its timer and
  once by its error event.
* *Code-server, Monaco, stream and analyst panels, the non-streaming chat*: mounted nowhere
  or without a caller. The planning canvas and the agent panel are mounted nowhere
  in `App.tsx` today either; they are modelled because they hold most of the
  renderer's logic and are complete. `FlowCanvas` is mounted without a session; it is modelled for
  the sessions its interface asks for.
* *Presentation, single SQL statements, prompt texts, the blueprint parser, scripts
  and documents*: no protocol behind them, or pure functions of text.

The runs of a language model, of build and test tools and of a shell are choices of
the environment.
