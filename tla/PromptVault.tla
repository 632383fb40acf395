------------------------------ MODULE PromptVault ------------------------------
(***************************************************************************)
(* The prompt vault: the panel of the sidebar (PromptVault.tsx) and the    *)
(* table it lists (db.ts, vault-import.ts).  The panel's handlers change   *)
(* the table by an invocation and list it again with the search of the     *)
(* render they were clicked in; the search box lists it 120 ms after the   *)
(* last key.  Invocations are handled and answered in order; the import    *)
(* first waits for a file dialog, in which the user takes any time.        *)
(*                                                                         *)
(* A row is found by a word of its texts; uses, tags and order are left    *)
(* out, and so is the chat draft of injectPrompt, which nothing reads.     *)
(***************************************************************************)
EXTENDS Naturals, Sequences, FiniteSets

CONSTANTS Words,        \* words the user's rows are found by
          Sources,      \* ids of entries of import files
          SeedWord,     \* the word the seeds are found by
          MaxRows,      \* bound: rows ever created
          MaxVaultActs  \* bound: what the user does

ASSUME VaultBounds == /\ SeedWord \notin Words /\ {MaxRows, MaxVaultActs} \subseteq Nat
                      /\ MaxRows > 0

VARIABLES vault,      \* prompt_vault: its rows
          rowsMade,   \* AUTOINCREMENT
          vaultOpen,  \* the panel is mounted
          mounts,     \* which mount it is
          items, search, importBusy,
          debounce,   \* the search's timer runs
          dialogs,    \* open file dialogs, as the imports that wait for them
          vaultCalls, vaultAnswers,
          vaultActs,
          listedFor,     \* history: the query items answers
          latecomer,  \* history: the search was typed while a handler ran
          orphan      \* history: a handler of an earlier panel changed the table

vaultPanelVars == <<vaultOpen, mounts, items, search, importBusy, debounce, listedFor, latecomer, orphan>>
vaultTableVars == <<vault, rowsMade>>
vaultVars == <<vaultTableVars, vaultPanelVars, dialogs, vaultCalls, vaultAnswers, vaultActs>>

NoWord == "" \* the empty search
NoSource == "none"
Queries == Words \cup {NoWord}
Row(id, word, pinned, source) ==
  [id |-> id, word |-> word, pinned |-> pinned, source |-> source]

(* seedPromptVault at every start, one row for its five.                   *)
Seeds(t, made) == IF t = {} THEN {Row(made + 1, SeedWord, TRUE, NoSource)} ELSE {}

(* getPromptVault                                                          *)
VaultRows(t, query) == {r \in t : query \in {NoWord, r.word}}

(* An invocation of the panel: the query is the search of its render.      *)
Invoke(op, id, data) == [op |-> op, id |-> id, data |-> data,
                         query |-> search, mount |-> mounts]
Load(query, who) == [op |-> "list", id |-> 0, data |-> who,
                     query |-> query, mount |-> mounts]

VaultInit ==
  /\ vault = Seeds({}, 0) /\ rowsMade = 1
  /\ vaultOpen = FALSE /\ mounts = 0 /\ items = {} /\ search = NoWord
  /\ importBusy = FALSE /\ debounce = FALSE /\ dialogs = {}
  /\ vaultCalls = <<>> /\ vaultAnswers = <<>> /\ vaultActs = 0
  /\ listedFor = NoWord /\ latecomer = FALSE /\ orphan = FALSE

-------------------------------------------------------------------------------
VaultUser == vaultActs < MaxVaultActs /\ vaultActs' = vaultActs + 1

StillRuns(c) == c.mount = mounts /\ ~(c.op = "list" /\ c.data = "box")
HandlerRuns == \/ \E i \in DOMAIN vaultCalls : StillRuns(vaultCalls[i])
               \/ \E i \in DOMAIN vaultAnswers : StillRuns(vaultAnswers[i].call)
               \/ \E d \in dialogs : StillRuns(d)

MountVault ==
  /\ VaultUser /\ ~vaultOpen /\ vaultOpen' = TRUE /\ mounts' = mounts + 1
  /\ items' = {} /\ search' = NoWord /\ importBusy' = FALSE
  /\ debounce' = TRUE /\ listedFor' = NoWord /\ latecomer' = FALSE /\ orphan' = FALSE
  /\ vaultCalls' = Append(vaultCalls, [Load(NoWord, "box") EXCEPT !.mount = mounts + 1])
  /\ UNCHANGED <<vaultTableVars, dialogs, vaultAnswers>>

UnmountVault ==
  /\ vaultOpen /\ vaultOpen' = FALSE /\ debounce' = FALSE
  /\ UNCHANGED <<vaultTableVars, mounts, items, search, importBusy, listedFor, latecomer, orphan,
                 dialogs, vaultCalls, vaultAnswers, vaultActs>>

(* Every key starts the timer again.                                       *)
TypeSearch(query) ==
  /\ VaultUser /\ vaultOpen /\ query # search
  /\ search' = query /\ debounce' = TRUE /\ latecomer' = HandlerRuns
  /\ UNCHANGED <<vaultTableVars, vaultOpen, mounts, items, importBusy, listedFor, orphan,
                 dialogs, vaultCalls, vaultAnswers>>

SearchTimer ==
  /\ debounce /\ debounce' = FALSE
  /\ vaultCalls' = Append(vaultCalls, Load(search, "box"))
  /\ UNCHANGED <<vaultTableVars, vaultOpen, mounts, items, search, importBusy, listedFor,
                 latecomer, orphan, dialogs, vaultAnswers, vaultActs>>

UserInvokes(call) ==
  /\ VaultUser /\ vaultOpen /\ vaultCalls' = Append(vaultCalls, call)
  /\ UNCHANGED <<vaultTableVars, vaultPanelVars, dialogs, vaultAnswers>>

TogglePinned(r)   == UserInvokes(Invoke("pin", r.id, ~r.pinned))
DeleteEntry(r)    == UserInvokes(Invoke("delete", r.id, FALSE))
InjectPrompt(r)   == UserInvokes(Invoke("use", r.id, FALSE))
CreateEntry(word) == rowsMade < MaxRows /\ UserInvokes(Invoke("create", 0, word))

ImportFromFile ==
  /\ VaultUser /\ vaultOpen /\ ~importBusy
  /\ dialogs' = dialogs \cup {Invoke("import", vaultActs, <<>>)}
  /\ UNCHANGED <<vaultTableVars, vaultPanelVars, vaultCalls, vaultAnswers>>

-------------------------------------------------------------------------------
(* The main process.                                                       *)

(* The rows an import makes of its entries: a source is taken once.        *)
Imported(t, made, file) ==
  LET new[i \in 0..Len(file)] ==
        IF i = 0 THEN {}
        ELSE LET e == file[i]
                 taken == e.source # NoSource
                            /\ \E r \in t \cup new[i - 1] : r.source = e.source
             IN IF taken THEN new[i - 1]
                ELSE new[i - 1] \cup
                     {Row(made + 1 + Cardinality(new[i - 1]), e.word, FALSE, e.source)}
  IN new[Len(file)]

Refused(file) == \E i \in DOMAIN file : file[i].word = NoWord

(* importVaultFromFile: every entry is read before any is inserted, and    *)
(* all are inserted in one transaction.                                    *)
ImportVault(file) ==
  LET new == IF Refused(file) THEN {} ELSE Imported(vault, rowsMade, file)
  IN /\ vault' = vault \cup new /\ rowsMade' = rowsMade + Cardinality(new)

Change(id, pinned) == {IF r.id = id THEN [r EXCEPT !.pinned = pinned] ELSE r : r \in vault}

(* The dialog returns a file of up to two entries, an entry NoWord being   *)
(* one normalizeEntry refuses; or it is cancelled.                         *)
Entries == [word : Queries, source : Sources \cup {NoSource}]
DialogEnds(d) ==
  /\ dialogs' = dialogs \ {d}
  /\ \/ UNCHANGED <<vaultCalls, importBusy>>
     \/ \E file \in {<<e>> : e \in Entries} \cup {<<e, f>> : e, f \in Entries} :
          /\ rowsMade + Cardinality(Imported(vault, rowsMade, file)) <= MaxRows
          /\ importBusy' = (importBusy \/ d.mount = mounts)
          /\ vaultCalls' = Append(vaultCalls, [d EXCEPT !.data = file])
  /\ UNCHANGED <<vaultTableVars, vaultOpen, mounts, items, search, debounce, listedFor,
                 latecomer, orphan, vaultAnswers, vaultActs>>

(* What the calls do to the table; a use only counts it, which is left out. *)
CreatePromptVaultEntry(word) ==
  /\ rowsMade' = rowsMade + 1
  /\ vault' = vault \cup {Row(rowsMade + 1, word, FALSE, NoSource)}
RecordUse == UNCHANGED vaultTableVars
DeletePromptVaultEntry(id) == vault' = {r \in vault : r.id # id} /\ UNCHANGED rowsMade

HandleVaultCall ==
  /\ vaultCalls # <<>> /\ vaultCalls' = Tail(vaultCalls)
  /\ LET c == Head(vaultCalls) IN
     /\ \/ c.op = "list" /\ UNCHANGED vaultTableVars
        \/ c.op = "use" /\ RecordUse
        \/ c.op = "pin" /\ vault' = Change(c.id, c.data) /\ UNCHANGED rowsMade
        \/ c.op = "delete" /\ DeletePromptVaultEntry(c.id)
        \/ c.op = "create" /\ CreatePromptVaultEntry(c.data)
        \/ c.op = "import" /\ ImportVault(c.data)
     /\ vaultAnswers' = Append(vaultAnswers,
          [call |-> c, rows |-> IF c.op = "list" THEN VaultRows(vault, c.query) ELSE {},
           ok |-> ~(c.op = "import" /\ Refused(c.data))])
     /\ orphan' = (orphan \/ (c.op # "list" /\ c.mount # mounts))
  /\ UNCHANGED <<vaultOpen, mounts, items, search, importBusy, debounce, listedFor, latecomer,
                 dialogs, vaultActs>>

(* An answer for a panel that is gone changes nothing one can see, but the *)
(* handler goes on to list.  A failed import does not.                     *)
HandleVaultAnswer ==
  /\ vaultAnswers # <<>> /\ vaultAnswers' = Tail(vaultAnswers)
  /\ LET a == Head(vaultAnswers)
         c == a.call
         here == vaultOpen /\ c.mount = mounts
     IN /\ IF c.op = "list" /\ here
           THEN items' = a.rows /\ listedFor' = c.query
           ELSE UNCHANGED <<items, listedFor>>
        /\ vaultCalls' = IF c.op # "list" /\ a.ok
                         THEN Append(vaultCalls, [Load(c.query, c.op) EXCEPT !.mount = c.mount])
                         ELSE vaultCalls
        /\ LET importEnds == c = [Load(c.query, "import") EXCEPT !.mount = c.mount] \/ ~a.ok
           IN importBusy' = (importBusy /\ ~(here /\ importEnds))
  /\ UNCHANGED <<vaultTableVars, vaultOpen, mounts, search, debounce, latecomer, orphan, dialogs, vaultActs>>

(* The application ends and starts again: only the table is kept.          *)
RestartVault ==
  /\ VaultUser
  /\ LET seeds == Seeds(vault, rowsMade)
     IN vault' = vault \cup seeds /\ rowsMade' = rowsMade + Cardinality(seeds)
  /\ vaultOpen' = FALSE /\ items' = {} /\ search' = NoWord /\ importBusy' = FALSE
  /\ debounce' = FALSE /\ dialogs' = {} /\ vaultCalls' = <<>> /\ vaultAnswers' = <<>>
  /\ UNCHANGED <<mounts, listedFor, latecomer, orphan>>

VaultNext ==
  \/ MountVault \/ UnmountVault \/ SearchTimer \/ ImportFromFile \/ RestartVault
  \/ HandleVaultCall \/ HandleVaultAnswer
  \/ \E query \in Queries : TypeSearch(query)
  \/ \E word \in Words : CreateEntry(word)
  \/ \E r \in items : TogglePinned(r) \/ DeleteEntry(r) \/ InjectPrompt(r)
  \/ \E d \in dialogs : DialogEnds(d)

VaultFairness == /\ WF_vaultVars(HandleVaultCall)
                 /\ WF_vaultVars(HandleVaultAnswer)
                 /\ WF_vaultVars(SearchTimer)
VaultSpec == VaultInit /\ [][VaultNext]_vaultVars /\ VaultFairness

-------------------------------------------------------------------------------
VaultRow == [id : 1 .. rowsMade, word : Words \cup {SeedWord}, pinned : BOOLEAN,
             source : Sources \cup {NoSource}]

(* Types of the vault.                                                     *)
VaultTypeOK ==
  /\ vault \cup items \subseteq VaultRow
  /\ {vaultOpen, importBusy, debounce, latecomer, orphan} \subseteq BOOLEAN
  /\ {search, listedFor} \subseteq Queries

VaultAtRest == vaultCalls = <<>> /\ vaultAnswers = <<>> /\ ~debounce

(* Once nothing is under way, the open panel shows exactly the rows the    *)
(* table has for the query it was last listed with, failed imports         *)
(* notwithstanding, unless a handler of an earlier panel changed it since, *)
(* and that query is the one in the search box unless it was typed while a *)
(* handler ran; and no source is ever imported twice.                      *)
VaultListIsCurrent ==
  /\ VaultAtRest /\ vaultOpen =>
       /\ ~orphan => items = VaultRows(vault, listedFor)
       /\ ~latecomer => listedFor = search
  /\ \A r, q \in vault : r.source = q.source /\ r # q => r.source = NoSource
================================================================================
