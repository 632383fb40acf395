------------------------------- MODULE MissionView ------------------------------
(***************************************************************************)
(* What the renderer shows of Mission Control (useMissionControlBridge in  *)
(* useIpc.ts and the mission-control channels of ipc-handlers.ts): once    *)
(* its effect runs, it subscribes to the manager's events and asks for the *)
(* snapshot and the status, in two invocations it awaits together.         *)
(*                                                                         *)
(* The manager's snapshots and statuses (MissionControlManager) are        *)
(* numbered here in the order in which they are emitted, 0 for none.       *)
(***************************************************************************)
EXTENDS Naturals, Sequences

CONSTANTS MaxEmits, MaxPages \* bounds: lines of the bridge, pages loaded

ASSUME ViewBounds == MaxEmits \in Nat /\ MaxPages \in Nat \ {0}

VARIABLES snapshotNo, statusNo, \* the manager's latestSnapshot and status
          pageNo,     \* the page that is loaded
          subscribed, \* its effect has run
          viewAsks,   \* invocations under way
          toPage,     \* events and answers under way to the page
          heldState,  \* the answer to getState while getStatus is awaited
          missionControl, missionControlStatus, \* of the store
          raced       \* history: a snapshot came in between the two answers

managerVars == <<snapshotNo, statusNo>>
missionStore == <<missionControl, missionControlStatus>>
missionVars == <<managerVars, pageNo, subscribed, viewAsks, toPage, heldState,
                 missionStore, raced>>

NotHeld == MaxEmits + 1
Message(kind, no) == [kind |-> kind, no |-> no]

MissionInit ==
  /\ snapshotNo = 0 /\ statusNo = 0 /\ pageNo = 1 /\ subscribed = FALSE
  /\ viewAsks = <<>> /\ toPage = <<>> /\ heldState = NotHeld
  /\ missionControl = 0 /\ missionControlStatus = 0 /\ raced = FALSE

-------------------------------------------------------------------------------
(* A line of the bridge, an exit, a start or a stop: a snapshot line emits *)
(* its status first, a complete line its snapshot, the others a status.    *)
Emit ==
  /\ statusNo < MaxEmits /\ statusNo' = statusNo + 1
  /\ \/ /\ snapshotNo' = snapshotNo + 1
        /\ LET both == {Message("snapshot", snapshotNo'), Message("status", statusNo')}
           IN \E a, b \in both : a # b /\ toPage' = toPage \o <<a, b>>
     \/ /\ toPage' = Append(toPage, Message("status", statusNo'))
        /\ UNCHANGED snapshotNo
  /\ UNCHANGED <<pageNo, subscribed, viewAsks, heldState, missionStore, raced>>

(* The two invocations, which Promise.all awaits together.                 *)
Asks == <<"getState", "getStatus">>

Subscribe ==
  /\ ~subscribed /\ subscribed' = TRUE
  /\ viewAsks' = Asks
  /\ UNCHANGED <<managerVars, pageNo, toPage, heldState, missionStore, raced>>

(* getState and getStatus                                                  *)
AnswerAsk ==
  /\ viewAsks # <<>> /\ viewAsks' = Tail(viewAsks)
  /\ toPage' = Append(toPage, IF Head(viewAsks) = "getState"
                              THEN Message("state_answer", snapshotNo)
                              ELSE Message("status_answer", statusNo))
  /\ UNCHANGED <<managerVars, pageNo, subscribed, heldState, missionStore, raced>>

(* The snapshot, and the two answers together, reach the store.            *)
SetMissionControl(state, status) ==
  missionControl' = state /\ missionControlStatus' = status

(* An event before the effect has run finds no listener.                   *)
TakeMessage ==
  /\ toPage # <<>> /\ toPage' = Tail(toPage)
  /\ LET m == Head(toPage) IN
     \/ /\ m.kind = "snapshot" /\ subscribed
        /\ SetMissionControl(m.no, missionControlStatus)
        /\ raced' = (heldState # NotHeld) /\ UNCHANGED heldState
     \/ /\ m.kind = "status" /\ subscribed
        /\ SetMissionControl(missionControl, m.no)
        /\ UNCHANGED <<heldState, raced>>
     \/ /\ m.kind = "state_answer" /\ heldState' = m.no
        /\ UNCHANGED <<missionStore, raced>>
     \/ /\ m.kind = "status_answer" /\ heldState' = NotHeld
        /\ SetMissionControl(heldState, m.no)
        /\ UNCHANGED raced
     \/ m.kind \in {"snapshot", "status"} /\ ~subscribed
        /\ UNCHANGED <<missionStore, heldState, raced>>
  /\ UNCHANGED <<managerVars, pageNo, subscribed, viewAsks>>

(* The page is loaded again, with the defaults of its store.               *)
LoadPage ==
  /\ pageNo < MaxPages /\ pageNo' = pageNo + 1 /\ subscribed' = FALSE
  /\ viewAsks' = <<>> /\ toPage' = <<>> /\ heldState' = NotHeld
  /\ missionControl' = 0 /\ missionControlStatus' = 0 /\ raced' = FALSE
  /\ UNCHANGED managerVars

MissionNext == Emit \/ Subscribe \/ AnswerAsk \/ TakeMessage \/ LoadPage
MissionSpec == MissionInit /\ [][MissionNext]_missionVars

-------------------------------------------------------------------------------
(* Types of the view.                                                      *)
MissionTypeOK ==
  /\ {snapshotNo, statusNo, missionControl, missionControlStatus} \subseteq 0..MaxEmits
  /\ heldState \in 0..NotHeld /\ pageNo \in 1..MaxPages
  /\ {subscribed, raced} \subseteq BOOLEAN

(* Once a page has subscribed and nothing is under way to it, it shows the *)
(* manager's status and its last snapshot, whatever was emitted while it   *)
(* was loading, unless a snapshot came in between the two answers.         *)
MissionIsShown ==
  subscribed /\ viewAsks = <<>> /\ toPage = <<>> =>
    /\ missionControlStatus = statusNo
    /\ ~raced => missionControl = snapshotNo
================================================================================
