------------------------------- MODULE DesktopRun -------------------------------
(***************************************************************************)
(* The parts of the desktop application that share no state, side by side: *)
(* chat, agent panel, browser views, browser tabs, terminals, flow graph,  *)
(* workspace, frame modulator, prompt vault, working memory and the view   *)
(* of Mission Control.  A behaviour shows one of them, its scene; as they  *)
(* share no variable, what the others do meanwhile changes nothing in it.  *)
(* Each part has all its initial states in its own scene and one of them   *)
(* in the others.                                                          *)
(***************************************************************************)
EXTENDS ChatStream, JcodeAgent, Panels, BrowserTabs, Terminals, FlowGraph,
        Workspace, FrameFuser, PromptVault, KoreMemory, MissionView

VARIABLE scene

desktopVars == <<scene, chatVars, agentVars, panelVars, tabVars, termVars, flowVars,
                 workspaceVars, fuserVars, vaultVars, memoryVars, missionVars>>

Scenes == {"chat", "agent", "panels", "tabs", "terminals", "flow", "workspace",
           "frames", "vault", "memory", "mission"}

(* The initial states of the parts that are not on scene.  On scene or     *)
(* off, one directory can be read: by symmetry the chosen one.             *)
OffScene ==
  /\ scene # "agent" => routing = [mode |-> "hybrid", cloudKey |-> TRUE, ownFallback |-> FALSE]
  /\ scene # "terminals" => ptyWorks
  /\ scene # "flow" => rows = <<>> /\ selected = CHOOSE s \in FlowSessions : TRUE
  /\ scene # "workspace" => readable = Dirs /\ created = <<>>
  /\ (CHOOSE d \in Dirs : TRUE) \in readable
  /\ scene # "frames" => cloudKey /\ sameModel

DesktopInit ==
  /\ scene \in Scenes
  /\ ChatInit /\ AgentInit /\ PanelsInit /\ TabsInit /\ TerminalsInit /\ FlowInit
  /\ WorkspaceInit /\ FuserInit /\ VaultInit /\ MemoryInit /\ MissionInit
  /\ OffScene

Plays(name, vars, step) == IF scene = name THEN step ELSE UNCHANGED vars

DesktopNext ==
  /\ UNCHANGED scene
  /\ Plays("chat", chatVars, ChatNext)
  /\ Plays("agent", agentVars, AgentNext)
  /\ Plays("panels", panelVars, PanelsNext)
  /\ Plays("tabs", tabVars, TabsNext)
  /\ Plays("terminals", termVars, TerminalsNext)
  /\ Plays("flow", flowVars, FlowNext)
  /\ Plays("workspace", workspaceVars, WorkspaceNext)
  /\ Plays("frames", fuserVars, FuserNext)
  /\ Plays("vault", vaultVars, VaultNext)
  /\ Plays("memory", memoryVars, MemoryNext)
  /\ Plays("mission", missionVars, MissionNext)

DesktopSpec == /\ DesktopInit /\ [][DesktopNext]_desktopVars
               /\ ChatFairness /\ AgentFairness /\ TerminalsFairness
               /\ FlowFairness /\ VaultFairness

-------------------------------------------------------------------------------
(* Types of every part.                                                    *)
DesktopTypeOK ==
  /\ ChatTypeOK /\ AgentTypeOK /\ PanelsTypeOK /\ TabsTypeOK /\ TerminalsTypeOK
  /\ FlowTypeOK /\ WorkspaceTypeOK /\ FuserTypeOK /\ VaultTypeOK /\ MemoryTypeOK
  /\ MissionTypeOK

(* The chat shows busy as long as a stream is open, and each prompt goes   *)
(* on in the session that the earlier ones founded (ChatStream).           *)
StreamsAgree == BusyMeansStreaming /\ ResumesWhatWasFounded

(* What gives up has tried all it was given: executeAgent every endpoint   *)
(* (JcodeAgent), fuseText its fallback (FrameFuser).                       *)
FailuresAreExhaustive == FailureIsExhaustive /\ FusionIsExhaustive

(* Once nothing is under way, the one browser view lies where the layout   *)
(* has it (Panels) and the active tab bears its page (BrowserTabs).        *)
BrowserAgrees == ViewFollowsLayout /\ ActiveTabShowsThePage

(* Once nothing is under way, the sidebar shows what the main process has: *)
(* the workspace and its sessions (Workspace), the prompts of the vault    *)
(* (PromptVault) and the state of Mission Control (MissionView).           *)
SidebarAgrees == WorkspaceAgrees /\ VaultListIsCurrent /\ MissionIsShown

(* What was saved is there: the user's edits, layouts and runs (FlowGraph) *)
(* and the memories of the agent panel (KoreMemory).                       *)
SavedIsKept == FlowIsKept /\ MemoryIsKept

(* Nothing stays busy: a chat that streams and an agent that works come to *)
(* an end, so do the bootstrap of the flow graph and a terminal that was   *)
(* killed.                                                                 *)
DesktopComesToRest ==
  ChatComesToRest /\ AgentComesToRest /\ BootstrapEnds /\ KillsTakeEffect
=================================================================================
