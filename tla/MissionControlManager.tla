------------------------ MODULE MissionControlManager ------------------------
(***************************************************************************)
(* MissionControlManager of src/main/mission-control-manager.ts: the       *)
(* Electron main process starts electron_bridge.py as a child process,     *)
(* relays its stdout lines to the windows and kills it on stop.  Each      *)
(* chat message sent through jcode:send starts it again.                   *)
(*                                                                         *)
(* A bridge is known by the order of its start.  Node delivers its stdout  *)
(* lines, its stderr chunks and its exit to handlers, each from a source   *)
(* of its own, so that a line may be handled after the exit.               *)
(***************************************************************************)
EXTENDS Integers, Sequences, FiniteSets

CONSTANTS
    MaxStarts,     \* bound on the bridges started
    MaxSnapshots   \* bound on the snapshot lines of a bridge

ASSUME BoundsAssumption == MaxStarts \in Nat \ {0} /\ MaxSnapshots \in Nat

Bridge == 1 .. MaxStarts
NoBridge == 0

VARIABLES
    started,     \* how many bridges have been spawned
    proc,        \* this.proc
    status,      \* this.status.state
    shown,       \* the bridge whose state is this.latestSnapshot
    life,        \* the life of each child process
    stdout,      \* its lines that no handler has seen yet
    stderr,      \* its pending stderr chunks
    overlapped,  \* history: a bridge was started before an earlier one was gone
    interrupted  \* history: a working bridge was killed

vars == <<started, proc, status, shown, life, stdout, stderr, overlapped, interrupted>>

Line == {"snapshot", "complete", "error", "broken"}

(* "booting": nothing is written yet; "ending": the last line is written;  *)
(* "killed": SIGTERM is on its way; "exited": the exit event waits;        *)
(* "reaped": its handler has run; "failed": there is no such process, its  *)
(* 'error' event went to no listener and no exit event will come.          *)
Life == {"none", "booting", "running", "ending", "killed", "exited", "reaped",
         "failed"}

TypeOK ==
    /\ started \in 0 .. MaxStarts
    /\ proc \in Bridge \cup {NoBridge}
    /\ status \in {"idle", "starting", "running", "stopped", "error"}
    /\ shown \in Bridge \cup {NoBridge}
    /\ life \in [Bridge -> Life]
    /\ stdout \in [Bridge -> Seq(Line)]
    /\ stderr \in [Bridge -> 0 .. 1]
    /\ overlapped \in BOOLEAN
    /\ interrupted \in BOOLEAN

Init ==
    /\ started = 0
    /\ proc = NoBridge
    /\ status = "idle"
    /\ shown = NoBridge
    /\ life = [b \in Bridge |-> "none"]
    /\ stdout = [b \in Bridge |-> <<>>]
    /\ stderr = [b \in Bridge |-> 0]
    /\ overlapped = FALSE
    /\ interrupted = FALSE

-----------------------------------------------------------------------------
Working(b) == life[b] \in {"booting", "running", "ending"}

(* proc.kill() on a child that has exited already is without effect.       *)
Killed == IF proc # NoBridge /\ Working(proc)
          THEN [life EXCEPT ![proc] = "killed"] ELSE life

Gone(b) == life[b] \in {"none", "reaped", "failed"} /\ stdout[b] = <<>>

\* Mutant of Stop: the handle is dropped, the child left alone.
StopWithoutKill ==
    /\ proc' = NoBridge
    /\ status' = "stopped"
    /\ UNCHANGED <<started, shown, life, stdout, stderr, overlapped, interrupted>>

(* Whether any of the candidate roots holds kore/ui/electron_bridge.py.    *)
ResolveBridgePath == BOOLEAN

(* start() stops first, then spawns; the bridge script may be missing.     *)
(* There may be no `python` to spawn: the handle and the status are set    *)
(* all the same, and as nobody listens to the 'error' that follows,        *)
(* nothing ever takes them back.                                           *)
Start == \E found \in ResolveBridgePath :
    /\ \/ /\ found /\ started < MaxStarts
          /\ started' = started + 1
          /\ proc' = started + 1
          /\ status' = "starting"
          /\ \E born \in {"booting", "failed"} :
                life' = [Killed EXCEPT ![started + 1] = born]
          /\ overlapped' = (overlapped \/ \E b \in Bridge : ~Gone(b))
       \/ /\ ~found /\ started' = started
          /\ proc' = NoBridge
          /\ status' = "error"
          /\ life' = Killed
          /\ overlapped' = overlapped
    /\ interrupted' = (interrupted \/ Killed # life)
    /\ UNCHANGED <<shown, stdout, stderr>>

Stop ==
    /\ proc' = NoBridge
    /\ status' = "stopped"
    /\ life' = Killed
    /\ interrupted' = (interrupted \/ Killed # life)
    /\ UNCHANGED <<started, shown, stdout, stderr, overlapped>>

-----------------------------------------------------------------------------
(* The child process.                                                      *)
WriteSnapshot(b) ==
    /\ life[b] \in {"booting", "running"}
    /\ Len(stdout[b]) < MaxSnapshots
    /\ stdout' = [stdout EXCEPT ![b] = Append(@, "snapshot")]
    /\ life' = [life EXCEPT ![b] = "running"]
    /\ UNCHANGED <<started, proc, status, shown, stderr, overlapped, interrupted>>

(* run_bridge writes a complete line last, after the snapshots of its      *)
(* first command, main_async an error line; a failing import or a bad      *)
(* argument ends Python with a message on stderr before any line.          *)
Finish(b) ==
    /\ \/ /\ life[b] = "booting"
          /\ stderr' = [stderr EXCEPT ![b] = 1]
          /\ stdout' = stdout
       \/ /\ life[b] \in {"booting", "running"}
          /\ stdout' = [stdout EXCEPT ![b] = Append(@, "error")]
          /\ stderr' = stderr
       \/ /\ life[b] = "running"
          /\ stdout' = [stdout EXCEPT ![b] = Append(@, "complete")]
          /\ stderr' = stderr
    /\ life' = [life EXCEPT ![b] = "ending"]
    /\ UNCHANGED <<started, proc, status, shown, overlapped, interrupted>>

(* A killed child may leave half a line, which readline still hands over.  *)
Exit(b) ==
    /\ \/ life[b] = "ending" /\ stdout' = stdout
       \/ /\ life[b] = "killed"
          /\ \/ stdout' = stdout
             \/ stdout' = [stdout EXCEPT ![b] = Append(@, "broken")]
    /\ life' = [life EXCEPT ![b] = "exited"]
    /\ UNCHANGED <<started, proc, status, shown, stderr, overlapped, interrupted>>

-----------------------------------------------------------------------------
\* Mutant of HandleLine: a complete line is taken for a snapshot line.
HandleLineAsSnapshot(b) ==
    /\ stdout[b] # <<>>
    /\ LET line == Head(stdout[b]) IN
          /\ status' = IF line \in {"snapshot", "complete"} THEN "running" ELSE "error"
          /\ shown' = IF line \in {"snapshot", "complete"} THEN b ELSE shown
    /\ stdout' = [stdout EXCEPT ![b] = Tail(@)]
    /\ UNCHANGED <<started, proc, life, stderr, overlapped, interrupted>>

(* The handlers, which run whether or not b is still the bridge in proc.   *)
HandleLine(b) ==
    /\ stdout[b] # <<>>
    /\ LET line == Head(stdout[b]) IN
          /\ status' = CASE line = "snapshot" -> "running"
                         [] line = "complete" -> "stopped"
                         [] OTHER             -> "error"
          /\ shown' = IF line \in {"snapshot", "complete"} THEN b ELSE shown
    /\ stdout' = [stdout EXCEPT ![b] = Tail(@)]
    /\ UNCHANGED <<started, proc, life, stderr, overlapped, interrupted>>

HandleStderr(b) ==
    /\ stderr[b] > 0
    /\ status' = "error"
    /\ stderr' = [stderr EXCEPT ![b] = @ - 1]
    /\ UNCHANGED <<started, proc, shown, life, stdout, overlapped, interrupted>>

\* Mutant of HandleExit: this.proc keeps the child that is gone.
HandleExitKeepingProc(b) ==
    /\ life[b] = "exited"
    /\ life' = [life EXCEPT ![b] = "reaped"]
    /\ status' = IF status = "error" THEN status ELSE "stopped"
    /\ UNCHANGED <<started, proc, shown, stdout, stderr, overlapped, interrupted>>

HandleExit(b) ==
    /\ life[b] = "exited"
    /\ life' = [life EXCEPT ![b] = "reaped"]
    /\ status' = IF status = "error" THEN status ELSE "stopped"
    /\ proc' = NoBridge
    /\ UNCHANGED <<started, shown, stdout, stderr, overlapped, interrupted>>

Child(b) == WriteSnapshot(b) \/ Finish(b) \/ Exit(b)
Handle(b) == HandleLine(b) \/ HandleStderr(b) \/ HandleExit(b)

Next == Start \/ Stop \/ \E b \in Bridge : Child(b) \/ Handle(b)

(* The bridge terminates by itself, a kill is carried out, and the event   *)
(* loop of Node handles what is pending.                                   *)
Fairness ==
    \A b \in Bridge : /\ WF_vars(Finish(b))
                      /\ WF_vars(Exit(b))
                      /\ WF_vars(HandleLine(b))
                      /\ WF_vars(HandleStderr(b))
                      /\ WF_vars(HandleExit(b))

Spec == Init /\ [][Next]_vars /\ Fairness

-----------------------------------------------------------------------------
(* Whatever the order of starts, stops and exits, the handle never points  *)
(* at an older bridge than the newest, nor at one already reaped.          *)
HandleIsNewest ==
    proc # NoBridge =>
      proc = started /\ (Working(proc) \/ life[proc] \in {"exited", "failed"})

(* As long as each bridge was gone before the next was started, a bridge   *)
(* that works and was not killed is the one the manager can kill.          *)
NoBridgeEscapes ==
    ~overlapped => \A b \in Bridge : Working(b) => proc = b

(* A bridge that is left to end by itself leaves a final status: once it   *)
(* is gone the windows do not show it as running.  The one exception is a  *)
(* bridge that could not be spawned, which is shown as starting for good.  *)
EndsVisibly ==
    <>[](\/ status \in {"idle", "stopped", "error"}
         \/ status = "starting" /\ started > 0 /\ life[started] = "failed"
         \/ overlapped
         \/ interrupted)

(* stop() reports "mission control stopped": no bridge is left working.    *)
StopLeavesNoBridge ==
    [][Stop => \A b \in Bridge : ~Working(b)']_vars
=============================================================================
