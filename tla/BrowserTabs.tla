------------------------------ MODULE BrowserTabs ------------------------------
(***************************************************************************)
(* The tabs of the center's browser panel (BrowserPanel.tsx).  They are    *)
(* bookkeeping of the renderer: there is one native view, which            *)
(* panel-manager.ts navigates and whose committed navigations it reports.  *)
(* The view is also used by the sidebar and by perplexity:search.          *)
(*                                                                         *)
(* Requests to navigate and reports travel in order (asked, reported).     *)
(***************************************************************************)
EXTENDS Naturals, Sequences

CONSTANTS Pages,   \* pages besides the home page
          MaxTabs, \* bound: tabs ever added
          MaxQueue \* bound: the user waits while so many messages travel

Idle == "none"  \* the view loads nothing; no page has this address

ASSUME TabBounds == MaxTabs \in Nat /\ MaxQueue \in Nat \ {0} /\ Idle \notin Pages

VARIABLES shownPanel, \* BrowserPanel is mounted
          pages,      \* its tabs: sequence of [id, url]
          activeTab,  \* activeTabId
          tabCounter, \* of the module, outlives the panel
          asked,      \* panels:browserNavigate requests under way
          loading,    \* the page the view loads
          page,       \* the page the view shows
          failed,     \* its last load failed
          reported    \* panels:browserUrlChanged events under way

tabVars == <<shownPanel, pages, activeTab, tabCounter, asked, loading, page, failed, reported>>

Home  == "home"
Blank == "blank"
AllPages == Pages \cup {Home}

TabsInit ==
  /\ shownPanel = FALSE /\ pages = <<>> /\ activeTab = 0 /\ tabCounter = 1
  /\ asked = <<>> /\ loading = Idle /\ page = Blank /\ failed = FALSE
  /\ reported = <<>>

QueueFree == Len(asked) + Len(reported) < MaxQueue
TabIds == {pages[i].id : i \in DOMAIN pages}
WithUrl(id, url) == [i \in DOMAIN pages |->
                       IF pages[i].id = id THEN [pages[i] EXCEPT !.url = url] ELSE pages[i]]

(* browserNavigate: the request is on its way.                             *)
BrowserNavigate(url) == asked' = Append(asked, url)

-------------------------------------------------------------------------------
(* Each mount starts over with tab 0 on the home page.                     *)
MountPanel ==
  /\ ~shownPanel /\ QueueFree
  /\ shownPanel' = TRUE /\ activeTab' = 0
  /\ pages' = <<[id |-> 0, url |-> Home]>>
  /\ BrowserNavigate(Home)
  /\ UNCHANGED <<tabCounter, loading, page, failed, reported>>

UnmountPanel ==
  /\ shownPanel /\ shownPanel' = FALSE /\ pages' = <<>> /\ activeTab' = 0
  /\ UNCHANGED <<tabCounter, asked, loading, page, failed, reported>>

Navigate(url) ==
  /\ shownPanel /\ QueueFree
  /\ pages' = WithUrl(activeTab, url)
  /\ BrowserNavigate(url)
  /\ UNCHANGED <<shownPanel, activeTab, tabCounter, loading, page, failed, reported>>

AddTab ==
  /\ shownPanel /\ QueueFree /\ tabCounter <= MaxTabs
  /\ tabCounter' = tabCounter + 1 /\ activeTab' = tabCounter
  /\ pages' = Append(pages, [id |-> tabCounter, url |-> Home])
  /\ BrowserNavigate(Home)
  /\ UNCHANGED <<shownPanel, loading, page, failed, reported>>

SelectTab(i) ==
  /\ shownPanel /\ QueueFree /\ pages[i].id # activeTab
  /\ activeTab' = pages[i].id
  /\ BrowserNavigate(pages[i].url)
  /\ UNCHANGED <<shownPanel, pages, tabCounter, loading, page, failed, reported>>

(* Closing the active tab activates its neighbour.  Closing the last one   *)
(* puts a new tab in its place, which is not activated.                    *)
CloseTab(i) ==
  /\ shownPanel /\ QueueFree
  /\ LET next == SubSeq(pages, 1, i - 1) \o SubSeq(pages, i + 1, Len(pages))
         neighbour == next[IF i <= Len(next) THEN i ELSE Len(next)]
     IN IF next = <<>>
        THEN /\ tabCounter <= MaxTabs /\ tabCounter' = tabCounter + 1
             /\ pages' = <<[id |-> tabCounter, url |-> Home]>>
             /\ UNCHANGED <<activeTab, asked>>
        ELSE /\ pages' = next
             /\ IF pages[i].id = activeTab
                THEN activeTab' = neighbour.id /\ BrowserNavigate(neighbour.url)
                ELSE UNCHANGED <<activeTab, asked>>
             /\ UNCHANGED tabCounter
  /\ UNCHANGED <<shownPanel, loading, page, failed, reported>>

(* onBrowserUrlChanged: the active tab takes the page as its own.          *)
TakeReport ==
  /\ reported # <<>>
  /\ reported' = Tail(reported)
  /\ pages' = WithUrl(activeTab, Head(reported))
  /\ UNCHANGED <<shownPanel, activeTab, tabCounter, asked, loading, page, failed>>

-------------------------------------------------------------------------------
(* The main process and its view: loadURL gives up the load under way.     *)
HandleNavigate ==
  /\ asked # <<>>
  /\ loading' = Head(asked) /\ asked' = Tail(asked)
  /\ UNCHANGED <<shownPanel, pages, activeTab, tabCounter, page, failed, reported>>

(* A load nobody asked for: perplexity:search in the sidebar's view, a     *)
(* link of the page, back and forward, a new start after a crash.          *)
LoadsByItself(url) == loading = Idle /\ url # page

(* did-navigate                                                            *)
ViewNavigates(url) ==
  /\ Len(reported) < MaxQueue
  /\ \/ loading # Idle /\ url = loading
     \/ LoadsByItself(url)
  /\ page' = url /\ loading' = Idle /\ failed' = FALSE
  /\ reported' = Append(reported, url)
  /\ UNCHANGED <<shownPanel, pages, activeTab, tabCounter, asked>>

(* did-fail-load: the view shows an error page and reports nothing.        *)
ViewFails ==
  /\ loading # Idle
  /\ page' = loading /\ loading' = Idle /\ failed' = TRUE
  /\ UNCHANGED <<shownPanel, pages, activeTab, tabCounter, asked, reported>>

TabsNext ==
  \/ MountPanel \/ UnmountPanel \/ AddTab \/ TakeReport \/ HandleNavigate \/ ViewFails
  \/ \E url \in Pages : Navigate(url)
  \/ \E i \in DOMAIN pages : SelectTab(i) \/ CloseTab(i)
  \/ \E url \in AllPages \cup {Blank} : ViewNavigates(url)

TabsSpec == TabsInit /\ [][TabsNext]_tabVars

-------------------------------------------------------------------------------
(* Types of the tabs.                                                      *)
TabsTypeOK ==
  /\ shownPanel \in BOOLEAN /\ (shownPanel <=> pages # <<>>)
  /\ pages \in Seq([id: 0 .. MaxTabs, url: AllPages \cup {Blank}])
  /\ activeTab \in 0 .. MaxTabs /\ tabCounter \in 1 .. MaxTabs + 1
  /\ asked \in Seq(AllPages \cup {Blank}) /\ reported \in Seq(AllPages \cup {Blank})
  /\ loading \in AllPages \cup {Blank, Idle} /\ page \in AllPages \cup {Blank}

(* When nothing is under way the active tab bears the page the one view    *)
(* shows, whatever tabs were opened, closed and switched while older       *)
(* navigations were still being reported, unless the last load failed and  *)
(* so was not reported.  Only after the last tab was closed, and replaced  *)
(* by a single new one, is no tab active.                                  *)
ActiveTabShowsThePage ==
  (shownPanel /\ asked = <<>> /\ reported = <<>> /\ loading = Idle /\ ~failed) =>
     /\ \A i \in DOMAIN pages : pages[i].id = activeTab => pages[i].url = page
     /\ activeTab \in TabIds \/ Len(pages) = 1
===============================================================================
