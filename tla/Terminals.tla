------------------------------- MODULE Terminals -------------------------------
(***************************************************************************)
(* The integrated terminals: terminal-manager.ts in the main process owns  *)
(* the shells, useTerminalLifecycle and TerminalPanel keep a list of them  *)
(* in the renderer's store.  Nothing tells the renderer that a shell has   *)
(* ended (no component subscribes to terminal:exit); each of its own       *)
(* operations ends with a new terminal:list.                               *)
(*                                                                         *)
(* Invocations and their answers travel in order.  Shells are numbered as  *)
(* they are created; the main process creates the first one at startup.    *)
(***************************************************************************)
EXTENDS Naturals, Sequences

CONSTANTS MaxShells,   \* bound: shells ever created
          MaxTermCalls \* bound: the user waits while so many calls are open

ASSUME TerminalBounds == MaxShells \in Nat \ {0} /\ MaxTermCalls \in Nat \ {0}

VARIABLES ptyWorks,  \* node-pty could be loaded
          shells,    \* life of each shell
          terminals, \* keys of the manager's map, oldest first
          activeId,  \* of the manager, 0 for null
          termCalls,     \* invocations on their way to the main process
          termAnswers,   \* their answers on the way back
          listed,    \* terminals of the store
          activeTerminal, \* of the store, 0 for null
          panelOpen, \* TerminalPanel is mounted
          keysGoTo,  \* the terminal its xterm writes to, 0 for none
          quitting

mainTermVars == <<ptyWorks, shells, terminals, activeId, quitting>>
listVars    == <<listed, activeTerminal, panelOpen, keysGoTo>>
termVars     == <<mainTermVars, listVars, termCalls, termAnswers>>

Shells == 1 .. MaxShells
MadeShells == {s \in Shells : shells[s] # "none"}
Known(ids) == {ids[i] : i \in DOMAIN ids}

\* A Map holds a key once and keeps the order of the others.
Without(ids, id) ==
  IF id \in Known(ids)
  THEN LET k == CHOOSE k \in DOMAIN ids : ids[k] = id
       IN SubSeq(ids, 1, k - 1) \o SubSeq(ids, k + 1, Len(ids))
  ELSE ids

TerminalsInit ==
  /\ ptyWorks \in BOOLEAN
  /\ shells = [s \in Shells |-> IF ptyWorks /\ s = 1 THEN "alive" ELSE "none"]
  /\ terminals = IF ptyWorks THEN <<1>> ELSE <<>>
  /\ activeId = IF ptyWorks THEN 1 ELSE 0
  /\ termCalls = <<>> /\ termAnswers = <<>>
  /\ listed = <<>> /\ activeTerminal = 0 /\ panelOpen = FALSE /\ keysGoTo = 0
  /\ quitting = FALSE

-------------------------------------------------------------------------------
(* The renderer.                                                           *)
Call(c) == termCalls' = Append(termCalls, c)
UserMayCall == ~quitting /\ Len(termCalls) + Len(termAnswers) < MaxTermCalls

\* The xterm of a mount keeps the active terminal of that moment.
MountTerminal == keysGoTo' = activeTerminal

OpenPanel ==
  /\ UserMayCall /\ ~panelOpen
  /\ panelOpen' = TRUE /\ MountTerminal
  /\ Call([op |-> "list", first |-> activeTerminal = 0])
  /\ UNCHANGED <<mainTermVars, termAnswers, listed, activeTerminal>>

ClosePanel ==
  /\ panelOpen /\ panelOpen' = FALSE /\ keysGoTo' = 0
  /\ UNCHANGED <<mainTermVars, termCalls, termAnswers, listed, activeTerminal>>

NewTerminal ==
  /\ UserMayCall /\ panelOpen
  /\ Call([op |-> "create"])
  /\ UNCHANGED <<mainTermVars, listVars, termAnswers>>

SelectTerminal(s) ==
  /\ panelOpen /\ s \in Known(listed) /\ s # activeTerminal
  /\ activeTerminal' = s
  /\ UNCHANGED <<mainTermVars, termCalls, termAnswers, listed, panelOpen, keysGoTo>>

KillTerminal(s) ==
  /\ UserMayCall /\ panelOpen /\ s \in Known(listed) /\ Len(listed) > 1
  /\ Call([op |-> "kill", id |-> s])
  /\ UNCHANGED <<mainTermVars, listVars, termAnswers>>

(* What follows an await, also after the panel was unmounted.  A new       *)
(* terminal is activated before it is listed, a killed one stays active.   *)
HandleAnswer ==
  /\ termAnswers # <<>> /\ termAnswers' = Tail(termAnswers)
  /\ LET a == Head(termAnswers) IN
     CASE a.op = "created" ->
            /\ activeTerminal' = a.id
            /\ Call([op |-> "list", first |-> FALSE])
            /\ UNCHANGED listed
       [] a.op = "killed" ->
            /\ Call([op |-> "list", first |-> FALSE])
            /\ UNCHANGED <<listed, activeTerminal>>
       [] a.op = "listed" ->
            /\ listed' = a.ids
            /\ activeTerminal' = IF a.first /\ a.ids # <<>> THEN Head(a.ids) ELSE activeTerminal
            /\ UNCHANGED termCalls
  /\ UNCHANGED <<mainTermVars, panelOpen, keysGoTo>>

-------------------------------------------------------------------------------
(* The main process.                                                       *)
Answer(a) == termAnswers' = Append(termAnswers, a)

ListTerminals(c) == /\ Answer([op |-> "listed", ids |-> terminals, first |-> c.first])
                    /\ UNCHANGED <<shells, terminals, activeId>>

(* getPtyModule, and a number that is free.                                *)
CanSpawn == ptyWorks /\ MadeShells # Shells

Create ==
  IF CanSpawn
  THEN LET s == CHOOSE s \in Shells \ MadeShells : \A r \in Shells \ MadeShells : s <= r
       IN /\ shells' = [shells EXCEPT ![s] = "alive"]
          /\ terminals' = Append(terminals, s)
          /\ activeId' = IF activeId = 0 THEN s ELSE activeId
          /\ Answer([op |-> "created", id |-> s])
  ELSE UNCHANGED <<shells, terminals, activeId, termAnswers>>  \* the call is rejected

\* Mutant of Kill: the map forgets a shell that goes on running.
KillDeaf(s) ==
  /\ Answer([op |-> "killed"])
  /\ terminals' = Without(terminals, s)
  /\ activeId' = IF activeId = s THEN 0 ELSE activeId
  /\ UNCHANGED shells

Kill(s) ==
  /\ Answer([op |-> "killed"])
  /\ terminals' = Without(terminals, s)
  /\ shells' = IF s \in Known(terminals) /\ shells[s] = "alive"
               THEN [shells EXCEPT ![s] = "killed"] ELSE shells
  /\ activeId' = IF activeId = s THEN 0 ELSE activeId

HandleCall ==
  /\ termCalls # <<>> /\ termCalls' = Tail(termCalls)
  /\ LET c == Head(termCalls) IN
     CASE c.op = "create" -> Create
       [] c.op = "kill"   -> Kill(c.id)
       [] c.op = "list"   -> ListTerminals(c)
  /\ UNCHANGED <<ptyWorks, quitting, listVars>>

(* A shell ends by itself; Node reports the end of a shell later.          *)
ShellExits(s) ==
  /\ shells[s] = "alive" /\ shells' = [shells EXCEPT ![s] = "leaving"]
  /\ UNCHANGED <<ptyWorks, terminals, activeId, quitting, listVars, termCalls, termAnswers>>

HandleExit(s) ==
  /\ shells[s] \in {"leaving", "killed"}
  /\ shells' = [shells EXCEPT ![s] = IF @ = "leaving" THEN "left" ELSE "gone"]
  /\ terminals' = Without(terminals, s)
  /\ activeId' = IF activeId = s THEN 0 ELSE activeId
  /\ UNCHANGED <<ptyWorks, quitting, listVars, termCalls, termAnswers>>

(* before-quit: killAll, and the windows are closed.                       *)
BeforeQuit ==
  /\ ~quitting /\ quitting' = TRUE
  /\ shells' = [s \in Shells |-> IF s \in Known(terminals) /\ shells[s] = "alive"
                                 THEN "killed" ELSE shells[s]]
  /\ terminals' = <<>> /\ activeId' = 0
  /\ termCalls' = <<>> /\ termAnswers' = <<>>
  /\ UNCHANGED <<ptyWorks, listVars>>

TerminalsNext ==
  \/ OpenPanel \/ ClosePanel \/ NewTerminal \/ HandleAnswer \/ HandleCall \/ BeforeQuit
  \/ \E s \in Shells : SelectTerminal(s) \/ KillTerminal(s) \/ ShellExits(s) \/ HandleExit(s)

TerminalsFairness ==
  /\ WF_termVars(HandleAnswer) /\ WF_termVars(HandleCall)
  /\ \A s \in Shells : WF_termVars(HandleExit(s))

TerminalsSpec == TerminalsInit /\ [][TerminalsNext]_termVars /\ TerminalsFairness

-------------------------------------------------------------------------------
(* Types of the terminals.                                                 *)
TerminalsTypeOK ==
  /\ ptyWorks \in BOOLEAN /\ panelOpen \in BOOLEAN /\ quitting \in BOOLEAN
  /\ shells \in [Shells -> {"none", "alive", "leaving", "left", "killed", "gone"}]
  /\ terminals \in Seq(Shells) /\ listed \in Seq(Shells)
  /\ activeId \in Shells \cup {0} /\ activeTerminal \in Shells \cup {0}
  /\ keysGoTo \in Shells \cup {0}
  /\ \A i \in DOMAIN termCalls : termCalls[i].op \in {"create", "kill", "list"}
  /\ \A i \in DOMAIN termAnswers : termAnswers[i].op \in {"created", "killed", "listed"}

(* No shell runs unknown to the manager, which kills those it knows when   *)
(* the application quits; and once no call is open the tabs show every     *)
(* terminal there is, and besides them only shells that ended by           *)
(* themselves, whatever creations, kills and exits overlapped.             *)
TabsAreTheTerminals ==
  /\ \A s \in Shells : shells[s] = "alive" => s \in Known(terminals)
  /\ activeId # 0 => activeId \in Known(terminals)
  /\ (panelOpen /\ ~quitting /\ termCalls = <<>> /\ termAnswers = <<>>) =>
       /\ Known(terminals) \subseteq Known(listed)
       /\ \A s \in Known(listed) \ Known(terminals) : shells[s] = "left"

(* A shell the user asked to kill ends, also when he quits meanwhile.      *)
KillsTakeEffect ==
  \A s \in Shells :
    (\E i \in DOMAIN termCalls : termCalls[i] = [op |-> "kill", id |-> s])
      ~> shells[s] \in {"left", "gone"}
===============================================================================
