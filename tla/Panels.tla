-------------------------------- MODULE Panels --------------------------------
(***************************************************************************)
(* Where the native browser views lie.  The renderer only leaves holes in  *)
(* its layout (center panel, left sidebar, right panel) and tells the      *)
(* main process about them; panel-manager.ts keeps a state of its own and  *)
(* moves the views over the holes.  What the renderer sends, by invoke or  *)
(* by send, arrives in order (posted).                                     *)
(*                                                                         *)
(* A rectangle is "wide", or "collapsed" to 10 pixels or less.  The stream,*)
(* monaco and code-server views follow the same rule as the browser in the *)
(* center, but no mounted component ever selects them.                     *)
(***************************************************************************)
EXTENDS Naturals, Sequences

CONSTANT MaxPosted  \* bound: the user waits while more messages are posted

ASSUME PanelBounds == MaxPosted \in Nat

VARIABLES tab,       \* activePanel of the store
          center,    \* centerPanelContent of ChatWorkspace
          closed,    \* the browser panel's own close button was pressed
          centerSize,
          sidebar,   \* sidebarOpen, sidebarModule and the size of its hole
          right,     \* rightPanelOpen
          posted,    \* messages on their way to the main process
          panel,     \* state of panel-manager.ts
          place,     \* where the two browser views lie
          leftover   \* history: the page was reloaded under the sidebar's
                     \* browser, and no other has been mounted there since

layoutVars == <<tab, center, closed, centerSize, sidebar, right, leftover>>
panelVars  == <<layoutVars, posted, panel, place>>

Tabs  == {"chat", "flow", "canvas", "mesh"}
Sizes == {"wide", "collapsed"}

Post(ch, value) == [ch |-> ch, value |-> value]

(* What ChatWorkspace sends when it is mounted; it starts with the chat.   *)
MountChat == <<Post("tab", "chat"), Post("panel", "none")>>

(* The state panel-manager.ts starts with.                                 *)
StateAtStart == [activePanel |-> "none", bounds |-> "none", sidebarVisible |-> FALSE,
                 sidebarBounds |-> "none", rightVisible |-> FALSE, rightBounds |-> "none"]

PanelsInit ==
  /\ tab = "chat" /\ center = "chat" /\ closed = FALSE /\ centerSize = "wide"
  /\ sidebar = [open |-> TRUE, module |-> "explorer", size |-> "wide"]
  /\ right = FALSE /\ leftover = FALSE
  /\ posted = MountChat
  /\ panel = StateAtStart
  /\ place = [browser |-> "offscreen", right |-> "offscreen"]

-------------------------------------------------------------------------------
(* The user, and the effects React runs for the new layout: cleanups of    *)
(* what is unmounted first, then effects from the child to its parent.     *)
CenterMounted == tab = "chat" /\ center = "browser"
SidebarMounted(s) == s.open /\ s.module = "browser"

\* usePanelManager ignores a collapsed element and keeps silent.
CenterBounds(size) == IF size = "wide" THEN <<Post("bounds", "wide")>> ELSE <<>>

UserMayAct == Len(posted) <= MaxPosted

ClickTab(t) ==
  /\ UserMayAct /\ t # tab
  /\ tab' = t
  /\ center' = "chat" /\ closed' = FALSE
  /\ posted' = posted \o (IF CenterMounted THEN <<Post("panel", "none")>> ELSE <<>>)
                      \o (IF t = "chat" THEN MountChat ELSE <<>>)
  /\ UNCHANGED <<centerSize, sidebar, right, leftover, panel, place>>

\* Mutant of ClickCenter: unmounting the browser panel posts nothing and the
\* parent's effect runs for the browser only.
ClickCenterSilently(mode) ==
  /\ UserMayAct /\ tab = "chat" /\ mode # center
  /\ center' = mode /\ closed' = FALSE
  /\ centerSize' \in Sizes
  /\ posted' = posted \o
       (IF mode = "browser"
        THEN <<Post("tab", "chat"), Post("panel", "browser")>>
             \o CenterBounds(centerSize') \o <<Post("panel", "browser")>>
        ELSE <<>>)
  /\ UNCHANGED <<tab, sidebar, right, leftover, panel, place>>

ClickCenter(mode) ==
  /\ UserMayAct /\ tab = "chat" /\ mode # center
  /\ center' = mode /\ closed' = FALSE
  /\ centerSize' \in Sizes
  /\ posted' = posted \o
       (IF mode = "browser"
        THEN <<Post("tab", "chat"), Post("panel", "browser")>>
             \o CenterBounds(centerSize') \o <<Post("panel", "browser")>>
        ELSE <<Post("panel", "none"), Post("panel", "none")>>)
  /\ UNCHANGED <<tab, sidebar, right, leftover, panel, place>>

(* The close button hides the view and leaves the panel mounted.           *)
CloseBrowserPanel ==
  /\ UserMayAct /\ CenterMounted
  /\ closed' = TRUE
  /\ posted' = Append(posted, Post("panel", "none"))
  /\ UNCHANGED <<tab, center, centerSize, sidebar, right, leftover, panel, place>>

ResizeCenter(size) ==
  /\ UserMayAct /\ CenterMounted /\ size # centerSize
  /\ centerSize' = size
  /\ posted' = posted \o CenterBounds(size)
  /\ UNCHANGED <<tab, center, closed, sidebar, right, leftover, panel, place>>

(* The sidebar's icons, its close buttons, Ctrl+B, the toggle of the top   *)
(* bar and its resize handle.                                              *)
SidebarMoves(s) ==
  /\ s # sidebar
  /\ s.module # sidebar.module => s.open /\ sidebar.open
  /\ s.size # sidebar.size => SidebarMounted(s)

(* BrowserViewContainer posts what such a move changed.                    *)
ChangeSidebar(s) ==
  /\ UserMayAct /\ SidebarMoves(s)
  /\ sidebar' = s
  /\ posted' = posted \o
       (CASE SidebarMounted(s) /\ ~SidebarMounted(sidebar) ->
               <<Post("sidebarVisible", TRUE), Post("sidebarBounds", s.size)>>
          [] SidebarMounted(s) /\ SidebarMounted(sidebar) -> <<Post("sidebarBounds", s.size)>>
          [] ~SidebarMounted(s) /\ SidebarMounted(sidebar) -> <<Post("sidebarVisible", FALSE)>>
          [] OTHER -> <<>>)
  /\ leftover' = (leftover /\ ~SidebarMounted(s))
  /\ UNCHANGED <<tab, center, closed, centerSize, right, panel, place>>

(* RightPanel posts its bounds; the message that would make its view       *)
(* visible goes to window.dyson.electronAPI, which does not exist.         *)
ToggleRight ==
  /\ UserMayAct
  /\ right' = ~right
  /\ posted' = posted \o (IF right THEN <<>> ELSE <<Post("rightBounds", "wide")>>)
  /\ UNCHANGED <<tab, center, closed, centerSize, sidebar, leftover, panel, place>>

(* A reload of the page, from Electron's default menu: the store starts    *)
(* anew, no cleanup runs, and the main process keeps its state.            *)
Reload ==
  /\ UserMayAct
  /\ tab' = "chat" /\ center' = "chat" /\ closed' = FALSE /\ right' = FALSE
  /\ sidebar' = [open |-> TRUE, module |-> "explorer", size |-> "wide"]
  /\ leftover' = (leftover \/ (SidebarMounted(sidebar) /\ sidebar.size = "wide"))
  /\ posted' = posted \o MountChat
  /\ UNCHANGED <<centerSize, panel, place>>

-------------------------------------------------------------------------------
(* The main process: each handler stores the value and runs                *)
(* updateVisibility.  The tab it knows is never another than the chat.     *)

BrowserPlace(s) ==
  IF s.sidebarVisible /\ s.sidebarBounds = "wide" THEN "sidebar"
  ELSE IF s.activePanel = "browser" /\ s.bounds = "wide" THEN "center"
  ELSE "offscreen"

RightPlace(s) ==
  IF s.rightVisible /\ s.rightBounds = "wide" THEN "right" ELSE "offscreen"

Stored(m) ==
  CASE m.ch = "tab"    -> panel
    [] m.ch = "panel"  -> [panel EXCEPT !.activePanel = m.value]
    [] m.ch = "bounds" -> [panel EXCEPT !.bounds = m.value]
    [] m.ch = "sidebarBounds" -> [panel EXCEPT !.sidebarBounds = m.value]
    [] m.ch = "rightBounds"   -> [panel EXCEPT !.rightBounds = m.value]
    [] m.ch = "sidebarVisible" ->
         [panel EXCEPT !.sidebarVisible = m.value,
                       !.sidebarBounds = IF m.value THEN @ ELSE "none"]

UpdateVisibility ==
  place' = [browser |-> BrowserPlace(panel'), right |-> RightPlace(panel')]

HandlePosted ==
  /\ posted # <<>>
  /\ panel' = Stored(Head(posted))
  /\ UpdateVisibility
  /\ posted' = Tail(posted)
  /\ UNCHANGED layoutVars

PanelsNext ==
  \/ \E t \in Tabs : ClickTab(t)
  \/ \E mode \in {"chat", "browser"} : ClickCenter(mode)
  \/ CloseBrowserPanel \/ ToggleRight \/ Reload
  \/ \E size \in Sizes : ResizeCenter(size)
  \/ \E s \in [open: BOOLEAN, module: {"explorer", "browser"}, size: Sizes] : ChangeSidebar(s)
  \/ HandlePosted

PanelsSpec == PanelsInit /\ [][PanelsNext]_panelVars

-------------------------------------------------------------------------------
(* Types of the layout and of the panel manager.                           *)
PanelsTypeOK ==
  /\ tab \in Tabs /\ center \in {"chat", "browser"} /\ closed \in BOOLEAN
  /\ centerSize \in Sizes /\ right \in BOOLEAN /\ leftover \in BOOLEAN
  /\ sidebar \in [open: BOOLEAN, module: {"explorer", "browser"}, size: Sizes]
  /\ panel.activePanel \in {"none", "browser"} /\ panel.bounds \in {"none", "wide"}
  /\ panel.sidebarBounds \in Sizes \cup {"none"} /\ panel.sidebarVisible \in BOOLEAN
  /\ panel.rightBounds \in {"none", "wide"} /\ panel.rightVisible = FALSE
  /\ place \in [browser: {"sidebar", "center", "offscreen"}, right: {"right", "offscreen"}]
  /\ \A i \in DOMAIN posted : DOMAIN posted[i] = {"ch", "value"}

(* Once what the renderer posted has been handled, the one browser view    *)
(* that sidebar and center share lies where the layout has room for it:    *)
(* over the sidebar's browser if that is open, else over the center's      *)
(* unless it was closed, and nowhere else.  Two ways out are in the code:  *)
(* a reload leaves it over the sidebar, and a center that collapses keeps  *)
(* the bounds it had before.                                               *)
ViewFollowsLayout ==
  posted = <<>> =>
    place.browser =
      IF leftover \/ (SidebarMounted(sidebar) /\ sidebar.size = "wide") THEN "sidebar"
      ELSE IF CenterMounted /\ ~closed /\ (centerSize = "wide" \/ panel.bounds = "wide")
           THEN "center" ELSE "offscreen"
===============================================================================
