------------------------------- MODULE Workspace -------------------------------
(***************************************************************************)
(* The workspace of the renderer: which repository is active, which path   *)
(* and which file tree the sidebar shows, and the list of sessions.  They  *)
(* are written by RepoDropdown (above the chat), RepoPicker, FileTree and  *)
(* SessionList (sidebar), PromptVault and the hooks of App, all through    *)
(* one store, and backed by the main process: fs:listFiles, repos:scan,    *)
(* repo:refreshContext and the sessions table.                             *)
(*                                                                         *)
(* Handlers read what they need, await an invocation and then write.  An   *)
(* invocation carries what its handler has read (known, current); the main *)
(* process answers in order.  Messages and open files are left out.        *)
(***************************************************************************)
EXTENDS Naturals, Sequences

CONSTANTS Dirs,        \* directories the user may open
          Roots,       \* roots scanHomeDirs tries
          MaxVisits,   \* bound: what the user does
          MaxSessions  \* bound: sessions ever created

ASSUME WorkspaceBounds == Roots \in Nat \ {0} /\ {MaxVisits, MaxSessions} \subseteq Nat

VARIABLES readable,      \* directories that listFiles can read
          repos, activeRepo, repoPath,
          tree,          \* fileTree: the directory it lists, or one below it
          sessions,      \* the list of sessions (their ids)
          activeSession, \* 0 for null
          stored,        \* the sessions table (ids)
          created,       \* the repo_path of every session ever created, by id
          cachedRoot,    \* cachedWorkspaceRoot of repo-context
          wsCalls, wsAnswers,
          visits,
          strayed,       \* history: an entry of an outdated tree was clicked
          overlapped     \* history: two handlers changed the sessions at once

storeVars == <<repos, activeRepo, repoPath, tree, strayed>>
sessionVars == <<sessions, activeSession>>
dbVars == <<stored, created, cachedRoot>>
workspaceVars == <<readable, storeVars, sessionVars, dbVars, wsCalls, wsAnswers,
                   visits, overlapped>>

NoDir == "none"

Ask(op, dir, id, who) == [op |-> op, dir |-> dir, id |-> id, who |-> who,
                          known |-> sessions, current |-> activeSession]

(* App loads the sessions of former runs, RepoDropdown scans for repos.    *)
WorkspaceInit ==
  /\ readable \in SUBSET Dirs
  /\ repos = {} /\ activeRepo = NoDir /\ repoPath = NoDir
  /\ tree = [of |-> NoDir, below |-> FALSE] /\ strayed = FALSE
  /\ sessions = {} /\ activeSession = 0
  /\ created \in {<<>>} \cup {<<d>> : d \in Dirs} /\ stored = DOMAIN created
  /\ cachedRoot = NoDir /\ wsAnswers = <<>> /\ visits = 0 /\ overlapped = FALSE
  /\ wsCalls = <<Ask("sessions", NoDir, 0, "load"), Ask("scan", NoDir, Roots, "scan")>>

-------------------------------------------------------------------------------
Visit == visits < MaxVisits /\ visits' = visits + 1

Pending(ops) == \/ \E i \in DOMAIN wsCalls : wsCalls[i].op \in ops
                \/ \E i \in DOMAIN wsAnswers : wsAnswers[i].op \in ops

SetPath(d) == repoPath' = d /\ strayed' = FALSE

(* activateRepo up to its await.                                           *)
ActivateRepo(d) ==
  /\ activeRepo' = d /\ SetPath(d)
  /\ wsCalls' = Append(wsCalls, Ask("list", d, 0, "activate"))

SelectRepo(d) ==
  /\ Visit /\ d \in repos /\ ActivateRepo(d)
  /\ UNCHANGED <<readable, repos, tree, sessionVars, dbVars, wsAnswers, overlapped>>

(* Browse..., once its dialog has returned a directory.                    *)
Browse(d) ==
  /\ Visit /\ wsCalls' = Append(wsCalls, Ask("scan", d, 0, "browse"))
  /\ UNCHANGED <<readable, storeVars, sessionVars, dbVars, wsAnswers, overlapped>>

(* RepoPicker's dialog: the sidebar moves, the active repo does not.       *)
PickRepo(d) ==
  /\ Visit /\ SetPath(d)
  /\ wsCalls' = Append(wsCalls, Ask("list", d, 0, "pick"))
  /\ UNCHANGED <<readable, repos, activeRepo, tree, sessionVars, dbVars, wsAnswers, overlapped>>

ClickDirectory ==
  /\ Visit /\ tree.of # NoDir
  /\ strayed' = (strayed \/ tree.of # repoPath)
  /\ wsCalls' = Append(wsCalls, Ask("list", tree.of, 0, "click"))
  /\ UNCHANGED <<readable, repos, activeRepo, repoPath, tree, sessionVars, dbVars,
                 wsAnswers, overlapped>>

(* The chat is mounted again, and RepoDropdown with it.                    *)
MountDropdown ==
  /\ Visit
  /\ wsCalls' = wsCalls
       \o (IF activeRepo # NoDir THEN <<Ask("refresh", activeRepo, 0, "mount")>> ELSE <<>>)
       \o (IF repos = {} THEN <<Ask("scan", NoDir, Roots, "scan")>> ELSE <<>>)
  /\ UNCHANGED <<readable, storeVars, sessionVars, dbVars, wsAnswers, overlapped>>

(* handleNewSession; the vault's ensureSession when no session is active.  *)
NewSession(dir) ==
  /\ Visit /\ Len(created) + Len(wsCalls) < MaxSessions
  /\ \/ dir = repoPath
     \/ dir = NoDir /\ activeSession = 0
  /\ wsCalls' = Append(wsCalls, Ask("create", dir, 0, "new"))
  /\ overlapped' = (overlapped \/ Pending({"create", "delete", "sessions"}))
  /\ UNCHANGED <<readable, storeVars, sessionVars, dbVars, wsAnswers>>

SelectSession(id) ==
  /\ Visit /\ id \in sessions
  /\ activeSession' = id
  /\ wsCalls' = Append(wsCalls, Ask("messages", NoDir, id, "select"))
  /\ overlapped' = (overlapped \/ Pending({"delete"}))
  /\ UNCHANGED <<readable, storeVars, sessions, dbVars, wsAnswers>>

DeleteSession(id) ==
  /\ Visit /\ id \in sessions
  /\ wsCalls' = Append(wsCalls, Ask("delete", NoDir, id, "delete"))
  /\ overlapped' = (overlapped \/ Pending({"create", "delete", "sessions"}))
  /\ UNCHANGED <<readable, storeVars, sessionVars, dbVars, wsAnswers>>

-------------------------------------------------------------------------------
(* The main process.                                                       *)
Reply(c, ok, found) ==
  wsAnswers' = Append(wsAnswers, [op |-> c.op, dir |-> c.dir, id |-> c.id, who |-> c.who,
                 known |-> c.known, current |-> c.current, ok |-> ok, found |-> found])

(* fs:listFiles throws when the directory cannot be read; repos:scan finds *)
(* what lies on the disk, or nothing.                                      *)
ListFiles(c) == Reply(c, c.dir \in readable, {}) /\ UNCHANGED dbVars
ScanRepos(c) == /\ \E found \in SUBSET Dirs : Reply(c, TRUE, found)
                /\ UNCHANGED dbVars

(* refreshContext; nobody waits for its answer.                            *)
RefreshContext(c) == cachedRoot' = c.dir /\ UNCHANGED <<stored, created, wsAnswers>>

(* The sessions table.                                                     *)
CreateSession(c) == /\ created' = Append(created, c.dir)
                    /\ stored' = stored \cup {Len(created')}
                    /\ Reply([c EXCEPT !.id = Len(created')], TRUE, {})
                    /\ UNCHANGED cachedRoot
RemoveSession(c) == /\ stored' = stored \ {c.id}
                    /\ Reply(c, TRUE, {}) /\ UNCHANGED <<created, cachedRoot>>
GetAllSessions(c) == Reply([c EXCEPT !.known = stored], TRUE, {}) /\ UNCHANGED dbVars
GetMessages(c)    == Reply(c, TRUE, {}) /\ UNCHANGED dbVars

HandleInvocation ==
  /\ wsCalls # <<>> /\ wsCalls' = Tail(wsCalls)
  /\ LET c == Head(wsCalls) IN
     \/ c.op = "list" /\ ListFiles(c)
     \/ c.op = "scan" /\ ScanRepos(c)
     \/ c.op = "refresh" /\ RefreshContext(c)
     \/ c.op = "create" /\ CreateSession(c)
     \/ c.op = "delete" /\ RemoveSession(c)
     \/ c.op = "sessions" /\ GetAllSessions(c)
     \/ c.op = "messages" /\ GetMessages(c)
  /\ UNCHANGED <<readable, storeVars, sessionVars, visits, overlapped>>

-------------------------------------------------------------------------------
(* What the handlers do with an answer.                                    *)
\* Mutant of Activated: the context is harvested if the files were listed.
ActivatedListed(a) ==
  /\ tree' = IF a.ok THEN [of |-> a.dir, below |-> FALSE] ELSE tree
  /\ wsCalls' = IF a.ok THEN Append(wsCalls, Ask("refresh", a.dir, 0, "activate")) ELSE wsCalls
  /\ activeSession' = 0
  /\ UNCHANGED <<repos, activeRepo, repoPath, strayed, sessions>>

\* The listing may fail; the context is harvested and the chat reset anyway.
Activated(a) ==
  /\ tree' = IF a.ok THEN [of |-> a.dir, below |-> FALSE] ELSE tree
  /\ wsCalls' = Append(wsCalls, Ask("refresh", a.dir, 0, "activate"))
  /\ activeSession' = 0
  /\ UNCHANGED <<repos, activeRepo, repoPath, strayed, sessions>>

\* A failed listing rejects, and nothing catches it.
Listed(a) ==
  /\ tree' = IF a.ok THEN [of |-> a.dir, below |-> a.who = "click"] ELSE tree
  /\ UNCHANGED <<repos, activeRepo, repoPath, strayed, sessionVars, wsCalls>>

\* scanHomeDirs takes the first root that has repos.
Scanned(a) ==
  /\ \/ /\ a.found = {}
        /\ wsCalls' = IF a.id > 1 THEN Append(wsCalls, Ask("scan", NoDir, a.id - 1, "scan"))
                      ELSE wsCalls
        /\ UNCHANGED <<repos, activeRepo, repoPath, strayed>>
     \/ /\ a.found # {} /\ repos' = a.found
        /\ IF activeRepo = NoDir THEN \E d \in a.found : ActivateRepo(d)
           ELSE UNCHANGED <<activeRepo, repoPath, strayed, wsCalls>>
  /\ UNCHANGED <<tree, sessionVars>>

Browsed(a) ==
  LET all == IF a.found # {} THEN a.found ELSE {a.dir}
  IN /\ repos' = repos \cup all
     /\ \E d \in all : ActivateRepo(d)
     /\ UNCHANGED <<tree, sessionVars>>

SessionDeleted(a) ==
  /\ sessions' = a.known \ {a.id}
  /\ activeSession' = IF a.current = a.id THEN 0 ELSE activeSession
  /\ UNCHANGED <<storeVars, wsCalls>>

SessionCreated(a) ==
  /\ sessions' = a.known \cup {a.id} /\ activeSession' = a.id
  /\ UNCHANGED <<storeVars, wsCalls>>

\* The session brings its repo_path back.
SessionSelected(a) ==
  /\ IF created[a.id] # NoDir
     THEN /\ SetPath(created[a.id])
          /\ wsCalls' = Append(wsCalls, Ask("list", created[a.id], 0, "select"))
     ELSE UNCHANGED <<repoPath, strayed, wsCalls>>
  /\ UNCHANGED <<repos, activeRepo, tree, sessionVars>>

HandleReply ==
  /\ wsAnswers # <<>> /\ wsAnswers' = Tail(wsAnswers)
  /\ LET a == Head(wsAnswers) IN
     \/ a.op = "list" /\ a.who = "activate" /\ Activated(a)
     \/ a.op = "list" /\ a.who # "activate" /\ Listed(a)
     \/ a.op = "scan" /\ a.who = "scan" /\ Scanned(a)
     \/ a.op = "scan" /\ a.who = "browse" /\ Browsed(a)
     \/ a.op = "create" /\ SessionCreated(a)
     \/ a.op = "delete" /\ SessionDeleted(a)
     \/ a.op = "messages" /\ SessionSelected(a)
     \/ a.op = "sessions" /\ sessions' = a.known /\ UNCHANGED <<storeVars, activeSession, wsCalls>>
  /\ UNCHANGED <<readable, dbVars, visits, overlapped>>

WorkspaceNext ==
  \/ MountDropdown \/ ClickDirectory \/ HandleInvocation \/ HandleReply
  \/ \E d \in Dirs : SelectRepo(d) \/ Browse(d) \/ PickRepo(d)
  \/ \E d \in Dirs \cup {NoDir} : NewSession(d)
  \/ \E id \in sessions : SelectSession(id) \/ DeleteSession(id)

WorkspaceSpec == WorkspaceInit /\ [][WorkspaceNext]_workspaceVars

-------------------------------------------------------------------------------
(* Types of the workspace.                                                 *)
WorkspaceTypeOK ==
  /\ readable \subseteq Dirs /\ repos \subseteq Dirs
  /\ {activeRepo, repoPath, cachedRoot} \subseteq Dirs \cup {NoDir}
  /\ tree \in [of: Dirs \cup {NoDir}, below: BOOLEAN]
  /\ created \in Seq(Dirs \cup {NoDir})
  /\ stored \cup sessions \subseteq DOMAIN created
  /\ activeSession \in 0 .. Len(created)
  /\ {strayed, overlapped} \subseteq BOOLEAN

WorkspaceAtRest == wsCalls = <<>> /\ wsAnswers = <<>>

(* Once every handler has ended, whatever repositories and sessions were   *)
(* opened one over the other:                                              *)
(*   - the sidebar lists files of the path it names, unless that cannot be *)
(*     read or the user clicked an entry of the tree from before;          *)
(*   - the repository context of the main process is the active repo's;    *)
(*   - the list shows the sessions of the database and the active one is   *)
(*     among them, unless two handlers wrote the list at once.             *)
WorkspaceAgrees ==
  WorkspaceAtRest =>
    /\ repoPath \in readable /\ ~strayed => tree.of = repoPath
    /\ activeRepo # NoDir => cachedRoot = activeRepo
    /\ ~overlapped => /\ sessions = stored
                      /\ activeSession \in sessions \cup {0}
================================================================================
