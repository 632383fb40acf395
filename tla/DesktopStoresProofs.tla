-------------------------- MODULE DesktopStoresProofs --------------------------
(***************************************************************************)
(* Theorems about the parts of the desktop that keep something in tables,  *)
(* for any number of rows, directories and nodes: once nothing is under    *)
(* way the vault, the workspace and the flow graph are shown as the main   *)
(* process has them, and a node that was never saved twice at a time keeps *)
(* its last edit and its last logged run.  The last sections are about the *)
(* types of the flow graph and the room its bootstrap has.                 *)
(***************************************************************************)
EXTENDS PromptVault, Workspace, FlowGraph, Induction, SequenceTheorems

-------------------------------------------------------------------------------
(* PromptVault                                                             *)

VaultOps == {"list", "use", "pin", "delete", "create", "import"}
Files == {<<>>} \cup {<<e>> : e \in Entries} \cup {<<e, f>> : e, f \in Entries}
VaultData == BOOLEAN \cup {"box"} \cup VaultOps \cup Words \cup Files

(* What the data of a call are, where the table depends on them.           *)
Sound(c) == /\ c.op = "create" => c.data \in Words
            /\ c.op = "pin" => c.data \in BOOLEAN
            /\ c.op = "import" => c.data \in Files

VaultCall == {c \in [op : VaultOps, id : Nat, data : VaultData, query : Queries, mount : Nat] : Sound(c)}
VaultRecord == [id : Nat, word : Words \cup {SeedWord}, pinned : BOOLEAN,
                source : Sources \cup {NoSource}]
VaultAnswer == [call : VaultCall, rows : SUBSET VaultRecord, ok : BOOLEAN]

(* Rows that an import may add: numbered on, and no source a second time.  *)
NewRows(t, made, s) ==
  /\ s \subseteq VaultRecord /\ IsFiniteSet(s)
  /\ \A r \in s : r.id \in 1 .. made + Cardinality(s)
  /\ \A r \in s, q \in t \cup s : r.source = q.source /\ r # q => r.source = NoSource

(* What one entry of a file adds.                                          *)
Fresh(t, made, s, e) ==
  IF e.source # NoSource /\ \E r \in t \cup s : r.source = e.source THEN s
  ELSE s \cup {Row(made + 1 + Cardinality(s), e.word, FALSE, e.source)}

LEMMA FreshIsNew ==
  ASSUME NEW t, NEW made \in Nat, NEW s, NewRows(t, made, s), NEW e \in Entries, e.word # NoWord
  PROVE  NewRows(t, made, Fresh(t, made, s, e))
  <1>1. PICK n \in Nat : n = Cardinality(s)
    BY FS_CardinalityType DEF NewRows
  <1>2. PICK x : x = Row(made + 1 + n, e.word, FALSE, e.source)
    OBVIOUS
  <1>3. CASE e.source # NoSource /\ \E r \in t \cup s : r.source = e.source
    BY <1>3 DEF Fresh
  <1>4. CASE ~(e.source # NoSource /\ \E r \in t \cup s : r.source = e.source)
    <2>1. Fresh(t, made, s, e) = s \cup {x}
      BY <1>1, <1>2, <1>4 DEF Fresh
    <2>2. e.word \in Words /\ e.source \in Sources \cup {NoSource}
      BY DEF Entries, Queries
    <2>3. x.id = made + 1 + n /\ x.source = e.source
      BY <1>2 DEF Row
    <2>4. x \in VaultRecord
      BY <1>2, <2>2 DEF Row, VaultRecord
    <2>5. x \notin s
      BY <1>1, <2>3 DEF NewRows
    <2>6. IsFiniteSet(s \cup {x}) /\ Cardinality(s \cup {x}) = n + 1
      BY <1>1, <2>5, FS_AddElement DEF NewRows
    <2>7. \A r \in s \cup {x} : r.id \in 1 .. made + (n + 1)
      BY <1>1, <2>3 DEF NewRows
    <2>8. \A r \in t \cup s : r.source = x.source => x.source = NoSource
      BY <1>4, <2>3
    <2>9. \A r \in s \cup {x}, q \in t \cup (s \cup {x}) : r.source = q.source /\ r # q => r.source = NoSource
      BY <2>8 DEF NewRows
    <2> QED
      BY <2>1, <2>4, <2>6, <2>7, <2>9 DEF NewRows
  <1> QED
    BY <1>3, <1>4

LEMMA NoRowsAreNew ==
  ASSUME NEW t, NEW made \in Nat
  PROVE  NewRows(t, made, {})
  BY FS_EmptySet DEF NewRows

(* The rows an import makes: the recursion, entry by entry.                *)
LEMMA ImportedIs ==
  ASSUME NEW t, NEW made, NEW file \in Files
  PROVE  \/ file = <<>> /\ Imported(t, made, file) = {}
         \/ \E e \in Entries : file = <<e>> /\ Imported(t, made, file) = Fresh(t, made, {}, e)
         \/ \E e, f \in Entries :
              /\ file = <<e, f>>
              /\ Imported(t, made, file) = Fresh(t, made, Fresh(t, made, {}, e), f)
  <1> DEFINE D == 0 .. Len(file)
             step(g, i) == IF i = 0 THEN {} ELSE Fresh(t, made, g[i - 1], file[i])
             loop == CHOOSE g : g = [i \in D |-> step(g, i)]
  <1>1. Imported(t, made, file) = loop[Len(file)]
    BY DEF Imported, Fresh
  <1>2. ASSUME NEW w, w = [i \in D |-> step(w, i)]
        PROVE  loop = [i \in D |-> step(loop, i)]
    <2> HIDE DEF step, D
    <2> QED
      BY <1>2
  <1>3. ASSUME loop = [i \in D |-> step(loop, i)]
        PROVE  \A i \in D : loop[i] = step(loop, i)
    <2> HIDE DEF step, D, loop
    <2> QED
      BY <1>3
  <1>4. CASE file = <<>>
    <2>1. D = {0}
      BY <1>4
    <2> DEFINE w == [i \in {0} |-> {}]
    <2>2. w = [i \in D |-> step(w, i)]
      BY <2>1
    <2>3. loop[0] = step(loop, 0)
      <3> HIDE DEF loop, step, w
      <3> QED
        BY <1>2, <1>3, <2>1, <2>2
    <2> HIDE DEF loop
    <2> QED
      BY <1>1, <1>4, <2>3
  <1>5. ASSUME NEW e \in Entries, file = <<e>>
        PROVE  Imported(t, made, file) = Fresh(t, made, {}, e)
    <2>1. D = {0, 1} /\ Len(file) = 1 /\ file[1] = e
      BY <1>5
    <2> DEFINE w == [i \in {0, 1} |-> IF i = 0 THEN {} ELSE Fresh(t, made, {}, e)]
    <2>2. w = [i \in D |-> step(w, i)]
      BY <2>1
    <2>3. loop[0] = step(loop, 0) /\ loop[1] = step(loop, 1)
      <3> HIDE DEF loop, step, w
      <3> QED
        BY <1>2, <1>3, <2>1, <2>2
    <2> HIDE DEF loop
    <2> QED
      BY <1>1, <2>1, <2>3
  <1>6. ASSUME NEW e \in Entries, NEW f \in Entries, file = <<e, f>>
        PROVE  Imported(t, made, file) = Fresh(t, made, Fresh(t, made, {}, e), f)
    <2>1. D = {0, 1, 2} /\ Len(file) = 2 /\ file[1] = e /\ file[2] = f
      BY <1>6
    <2> DEFINE w == [i \in {0, 1, 2} |->
                       IF i = 0 THEN {} ELSE IF i = 1 THEN Fresh(t, made, {}, e)
                       ELSE Fresh(t, made, Fresh(t, made, {}, e), f)]
    <2>2. w = [i \in D |-> step(w, i)]
      BY <2>1
    <2>3. loop[0] = step(loop, 0) /\ loop[1] = step(loop, 1) /\ loop[2] = step(loop, 2)
      <3> HIDE DEF loop, step, w
      <3> QED
        BY <1>2, <1>3, <2>1, <2>2
    <2> HIDE DEF loop
    <2> QED
      BY <1>1, <2>1, <2>3
  <1> HIDE DEF loop, D
  <1> QED
    BY <1>4, <1>5, <1>6 DEF Files

(* An import adds new rows, or, of a file that is refused, none.           *)
LEMMA ImportedIsNew ==
  ASSUME NEW t, NEW made \in Nat, NEW file \in Files, ~Refused(file)
  PROVE  NewRows(t, made, Imported(t, made, file))
  <1>1. ASSUME NEW e \in Entries, file = <<e>>, Imported(t, made, file) = Fresh(t, made, {}, e)
        PROVE  NewRows(t, made, Imported(t, made, file))
    <2>1. e.word # NoWord
      BY <1>1 DEF Refused
    <2> QED
      BY <1>1, <2>1, NoRowsAreNew, FreshIsNew
  <1>2. ASSUME NEW e \in Entries, NEW f \in Entries, file = <<e, f>>,
               Imported(t, made, file) = Fresh(t, made, Fresh(t, made, {}, e), f)
        PROVE  NewRows(t, made, Imported(t, made, file))
    <2>1. 1 \in DOMAIN file /\ 2 \in DOMAIN file /\ file[1] = e /\ file[2] = f
      BY <1>2
    <2>2. e.word # NoWord /\ f.word # NoWord
      BY <2>1 DEF Refused
    <2>3. NewRows(t, made, Fresh(t, made, {}, e))
      BY <2>2, NoRowsAreNew, FreshIsNew
    <2> QED
      BY <1>2, <2>2, <2>3, FreshIsNew
  <1>3. ASSUME file = <<>>, Imported(t, made, file) = {}
        PROVE  NewRows(t, made, Imported(t, made, file))
    BY <1>3, NoRowsAreNew
  <1>4. \/ file = <<>> /\ Imported(t, made, file) = {}
        \/ \E e \in Entries : file = <<e>> /\ Imported(t, made, file) = Fresh(t, made, {}, e)
        \/ \E e, f \in Entries :
             /\ file = <<e, f>>
             /\ Imported(t, made, file) = Fresh(t, made, Fresh(t, made, {}, e), f)
    BY ImportedIs
  <1> QED
    BY <1>1, <1>2, <1>3, <1>4

(* The calls of the panel that is mounted m-th, and the answers to them.   *)
ListsOf(m) == {c \in VaultCall : c.op = "list" /\ c.mount = m}
ListedOf(m) == {a \in VaultAnswer : a.call.op = "list" /\ a.call.mount = m}
DoneOf(m) == {a \in VaultAnswer : a.call.op # "list" /\ a.ok /\ a.call.mount = m}
Shows(t) == {a \in VaultAnswer : a.rows = VaultRows(t, a.call.query)}
AskFor(query) == {c \in VaultCall : c.query = query}
AnswersFor(query) == {a \in VaultAnswer : a.call.query = query}

(* The handlers that run with a search other than the one in the box.      *)
RunsElse(m, query) ==
  {c \in VaultCall : c.mount = m /\ ~(c.op = "list" /\ c.data = "box") /\ c.query # query}
RanElse(m, query) == {a \in VaultAnswer : a.call \in RunsElse(m, query)}

LaterCalls(m) == {c \in VaultCall : c.mount > m}
LaterAnswers(m) == {a \in VaultAnswer : a.call \in LaterCalls(m)}

VaultRowsTo(n) == {r \in VaultRecord : r.id \in 1 .. n}
RowsBeyond(n) == {a \in VaultAnswer : ~(a.rows \subseteq VaultRowsTo(n))}

OneOfASource(t) == \A r, q \in t : r.source = q.source /\ r # q => r.source = NoSource

VaultTyped ==
  /\ rowsMade \in Nat /\ mounts \in Nat /\ vaultActs \in Nat
  /\ vaultCalls \in Seq(VaultCall) /\ vaultAnswers \in Seq(VaultAnswer)
  /\ \A d \in dialogs : d \in VaultCall /\ d.op = "import"
  /\ vaultOpen \in BOOLEAN /\ importBusy \in BOOLEAN /\ debounce \in BOOLEAN
  /\ latecomer \in BOOLEAN /\ orphan \in BOOLEAN
  /\ search \in Queries /\ listedFor \in Queries

VaultTable ==
  /\ vault \subseteq VaultRowsTo(rowsMade) /\ items \subseteq VaultRowsTo(rowsMade)
  /\ Free(vaultAnswers, RowsBeyond(rowsMade))
  /\ OneOfASource(vault)

(* No call is older than its panel.                                        *)
NoneIsLater ==
  /\ Free(vaultCalls, LaterCalls(mounts)) /\ Free(vaultAnswers, LaterAnswers(mounts))
  /\ \A d \in dialogs : d \notin LaterCalls(mounts)

(* With no list call on its way, the newest list answer shows the table,   *)
(* or, with none either, the items do.                                     *)
RowsAreNewest ==
  /\ vaultOpen /\ ~orphan
  /\ Free(vaultCalls, ListsOf(mounts)) /\ Free(vaultAnswers, DoneOf(mounts))
  => /\ EndsIn(vaultAnswers, ListedOf(mounts), Shows(vault))
     /\ Free(vaultAnswers, ListedOf(mounts)) => items = VaultRows(vault, listedFor)

(* The newest list call asks for the search, or else the newest answer is  *)
(* to such a call, or else the items are.                                  *)
SearchIsNewest ==
  vaultOpen /\ ~latecomer =>
    /\ Free(vaultCalls, RunsElse(mounts, search)) /\ Free(vaultAnswers, RanElse(mounts, search))
    /\ \A d \in dialogs : d \notin RunsElse(mounts, search)
    /\ ~debounce =>
         /\ EndsIn(vaultCalls, ListsOf(mounts), AskFor(search))
         /\ Free(vaultCalls, ListsOf(mounts)) =>
              /\ EndsIn(vaultAnswers, ListedOf(mounts), AnswersFor(search))
              /\ Free(vaultAnswers, ListedOf(mounts)) => listedFor = search

VaultInv == VaultTyped /\ VaultTable /\ NoneIsLater /\ RowsAreNewest /\ SearchIsNewest

LEMMA VaultOpenTyped ==
  /\ "list" \in VaultOps /\ "use" \in VaultOps /\ "pin" \in VaultOps /\ "delete" \in VaultOps
  /\ "create" \in VaultOps /\ "import" \in VaultOps
  /\ BOOLEAN \subseteq VaultData /\ VaultOps \cup {"box"} \subseteq VaultData
  /\ Words \subseteq VaultData /\ Files \subseteq VaultData /\ <<>> \in Files
  /\ NoWord \in Queries /\ Words \subseteq Queries
  BY DEF VaultOps, VaultData, Files, Queries

LEMMA LoadIs ==
  ASSUME NEW query \in Queries, NEW who \in VaultOps \cup {"box"}, NEW m \in Nat,
         NEW c, c = [op |-> "list", id |-> 0, data |-> who, query |-> query, mount |-> m]
  PROVE  c \in VaultCall /\ c.op = "list" /\ c.data = who /\ c.query = query /\ c.mount = m
  <1>1. c.op = "list" /\ c.data = who /\ c.query = query /\ c.mount = m
    OBVIOUS
  <1>2. who \in VaultData /\ "list" \in VaultOps
    BY VaultOpenTyped
  <1>3. c \in [op : VaultOps, id : Nat, data : VaultData, query : Queries, mount : Nat]
    <2> HIDE DEF VaultOps, VaultData, Queries
    <2> QED
      BY <1>2
  <1> QED
    BY <1>1, <1>3 DEF VaultCall, Sound

LEMMA InvokeIs ==
  ASSUME NEW op \in VaultOps, NEW id \in Nat, NEW data \in VaultData, NEW query \in Queries,
         NEW m \in Nat, NEW c,
         c = [op |-> op, id |-> id, data |-> data, query |-> query, mount |-> m],
         op = "create" => data \in Words, op = "pin" => data \in BOOLEAN,
         op = "import" => data \in Files
  PROVE  c \in VaultCall /\ c.op = op /\ c.data = data /\ c.query = query /\ c.mount = m
  <1>1. c.op = op /\ c.data = data /\ c.query = query /\ c.mount = m
    OBVIOUS
  <1>2. c \in [op : VaultOps, id : Nat, data : VaultData, query : Queries, mount : Nat]
    OBVIOUS
  <1> QED
    BY <1>1, <1>2 DEF VaultCall, Sound

LEMMA VaultCallIs ==
  ASSUME NEW c \in VaultCall
  PROVE  /\ c = [op |-> c.op, id |-> c.id, data |-> c.data, query |-> c.query, mount |-> c.mount]
         /\ c.op \in VaultOps /\ c.id \in Nat /\ c.data \in VaultData /\ c.query \in Queries
         /\ c.mount \in Nat /\ Sound(c)
  BY DEF VaultCall

(* A change is asked for: a call that is no list joins the queue.          *)
LEMMA ChangeJoins ==
  ASSUME VaultInv, NEW c \in VaultCall, c.op # "list", ~(c.mount > mounts),
         vaultOpen /\ ~latecomer => c \notin RunsElse(mounts, search),
         vaultCalls' = Append(vaultCalls, c),
         UNCHANGED <<vaultTableVars, vaultOpen, mounts, items, search, debounce, listedFor,
                     latecomer, orphan, vaultAnswers>>,
         \A d \in dialogs' : d \in dialogs, vaultActs' \in Nat, importBusy' \in BOOLEAN
  PROVE  VaultInv'
  <1> USE DEF VaultInv
  <1>1. UNCHANGED <<vault, rowsMade, vaultOpen, mounts, items, search, debounce, listedFor,
                    latecomer, orphan, vaultAnswers>>
    BY DEF vaultTableVars
  <1>2. vaultCalls \in Seq(VaultCall) /\ vaultCalls' \in Seq(VaultCall)
    BY OneMoreIs DEF VaultTyped
  <1>3. c \notin ListsOf(mounts) /\ c \notin LaterCalls(mounts)
    BY DEF ListsOf, LaterCalls
  <1>4. \A L : Free(vaultCalls', L) <=> Free(vaultCalls, L) /\ c \notin L
    BY <1>2, JoinsFree
  <1>5. \A L, G : c \notin L /\ EndsIn(vaultCalls, L, G) => EndsIn(vaultCalls', L, G)
    BY <1>2, JoinsEnd
  <1>6. VaultTyped'
    BY <1>1, <1>2 DEF VaultTyped
  <1>7. VaultTable'
    BY <1>1 DEF VaultTable
  <1>8. NoneIsLater'
    BY <1>1, <1>3, <1>4 DEF NoneIsLater
  <1>9. RowsAreNewest'
    BY <1>1, <1>3, <1>4 DEF RowsAreNewest
  <1>10. SearchIsNewest'
    BY <1>1, <1>3, <1>4, <1>5 DEF SearchIsNewest
  <1> QED
    BY <1>6, <1>7, <1>8, <1>9, <1>10

(* The changes of a panel: its search and its mount are the present ones.  *)
LEMMA ChangesJoin ==
  ASSUME VaultInv, NEW op \in VaultOps \ {"list"}, NEW id \in Nat, NEW data \in VaultData,
         op = "create" => data \in Words, op = "pin" => data \in BOOLEAN,
         op = "import" => data \in Files,
         UserInvokes(Invoke(op, id, data))
  PROVE  VaultInv'
  <1>1. PICK c : c = Invoke(op, id, data)
    OBVIOUS
  <1>2. /\ mounts \in Nat /\ search \in Queries /\ vaultActs \in Nat /\ importBusy \in BOOLEAN
    BY DEF VaultInv, VaultTyped
  <1>3. c \in VaultCall /\ c.op = op /\ c.query = search /\ c.mount = mounts
    BY <1>1, <1>2, InvokeIs DEF Invoke
  <1>4. c \notin RunsElse(mounts, search) /\ ~(c.mount > mounts)
    BY <1>2, <1>3 DEF RunsElse
  <1>5. /\ vaultCalls' = Append(vaultCalls, c)
        /\ UNCHANGED <<vaultTableVars, vaultPanelVars, dialogs, vaultAnswers>>
        /\ vaultActs' \in Nat
    BY <1>1, <1>2 DEF UserInvokes, VaultUser
  <1> QED
    BY <1>2, <1>3, <1>4, <1>5, ChangeJoins DEF vaultPanelVars

LEMMA PanelChanges ==
  ASSUME VaultInv,
         \/ \E word \in Words : CreateEntry(word)
         \/ \E r \in items : TogglePinned(r) \/ DeleteEntry(r) \/ InjectPrompt(r)
  PROVE  VaultInv'
  <1>1. \A r \in items : r.id \in Nat /\ r.pinned \in BOOLEAN
    BY DEF VaultInv, VaultTable, VaultRowsTo, VaultRecord
  <1>2. ASSUME NEW word \in Words, CreateEntry(word)
        PROVE  VaultInv'
    <2>1. UserInvokes(Invoke("create", 0, word))
      BY <1>2 DEF CreateEntry
    <2>2. word \in VaultData /\ "create" \in VaultOps \ {"list"}
      BY VaultOpenTyped
    <2> QED
      BY <2>1, <2>2, ChangesJoin
  <1>3. ASSUME NEW r \in items, TogglePinned(r)
        PROVE  VaultInv'
    <2>1. PICK p \in BOOLEAN : p = ~r.pinned
      OBVIOUS
    <2>2. PICK id \in Nat : id = r.id
      BY <1>1
    <2>3. UserInvokes(Invoke("pin", id, p))
      BY <1>3, <2>1, <2>2 DEF TogglePinned
    <2>4. p \in VaultData /\ "pin" \in VaultOps \ {"list"}
      BY VaultOpenTyped
    <2>5. /\ "pin" = "create" => p \in Words
          /\ "pin" = "pin" => p \in BOOLEAN
          /\ "pin" = "import" => p \in Files
      OBVIOUS
    <2> QED
      BY <2>3, <2>4, <2>5, ChangesJoin
  <1>4. ASSUME NEW r \in items, DeleteEntry(r) \/ InjectPrompt(r)
        PROVE  VaultInv'
    <2>1. PICK p \in BOOLEAN : p = FALSE
      OBVIOUS
    <2>2. PICK id \in Nat : id = r.id
      BY <1>1
    <2>3. PICK op \in {"delete", "use"} : UserInvokes(Invoke(op, id, p))
      BY <1>4, <2>1, <2>2 DEF DeleteEntry, InjectPrompt
    <2>4. p \in VaultData /\ op \in VaultOps \ {"list"}
      BY VaultOpenTyped
    <2> QED
      BY <2>3, <2>4, ChangesJoin
  <1> QED
    BY <1>2, <1>3, <1>4

LEMMA ImportIsChosen ==
  ASSUME VaultInv, ImportFromFile
  PROVE  VaultInv'
  <1> USE DEF VaultInv
  <1>1. PICK c : c = Invoke("import", vaultActs, <<>>)
    OBVIOUS
  <1>2. mounts \in Nat /\ search \in Queries /\ vaultActs \in Nat
    BY DEF VaultTyped
  <1>3. "import" \in VaultOps /\ <<>> \in VaultData /\ <<>> \in Files
    BY VaultOpenTyped
  <1>4. c \in VaultCall /\ c.op = "import" /\ c.query = search /\ c.mount = mounts
    BY <1>1, <1>2, <1>3, InvokeIs DEF Invoke
  <1>5. c \notin RunsElse(mounts, search) /\ c \notin LaterCalls(mounts)
    BY <1>2, <1>4 DEF RunsElse, LaterCalls
  <1>6. /\ UNCHANGED <<vaultTableVars, vaultPanelVars, vaultCalls, vaultAnswers>>
        /\ vaultActs' \in Nat /\ \A d \in dialogs' : d \in dialogs \/ d = c
    BY <1>1, <1>2 DEF ImportFromFile, VaultUser
  <1>7. UNCHANGED <<vault, rowsMade, vaultOpen, mounts, items, search, importBusy, debounce, listedFor,
                    latecomer, orphan, vaultCalls, vaultAnswers>>
    BY <1>6 DEF vaultTableVars, vaultPanelVars
  <1>8. VaultTyped'
    BY <1>4, <1>6, <1>7 DEF VaultTyped
  <1>9. VaultTable'
    BY <1>7 DEF VaultTable
  <1>10. NoneIsLater'
    BY <1>5, <1>6, <1>7 DEF NoneIsLater
  <1>11. RowsAreNewest'
    BY <1>7 DEF RowsAreNewest
  <1>12. SearchIsNewest'
    BY <1>5, <1>6, <1>7 DEF SearchIsNewest
  <1> QED
    BY <1>8, <1>9, <1>10, <1>11, <1>12

LEMMA DialogCloses ==
  ASSUME VaultInv, NEW d \in dialogs, DialogEnds(d)
  PROVE  VaultInv'
  <1> USE DEF VaultInv
  <1>1. d \in VaultCall /\ d.op = "import" /\ ~(d.mount > mounts) /\ vaultActs \in Nat
        /\ importBusy \in BOOLEAN
    BY DEF VaultTyped, NoneIsLater, LaterCalls
  <1>2. /\ UNCHANGED <<vaultTableVars, vaultOpen, mounts, items, search, debounce, listedFor,
                       latecomer, orphan, vaultAnswers, vaultActs>>
        /\ \A e \in dialogs' : e \in dialogs
    BY DEF DialogEnds
  <1>3. CASE UNCHANGED <<vaultCalls, importBusy>>
    <2>1. UNCHANGED <<vault, rowsMade, vaultOpen, mounts, items, search, debounce, listedFor,
                      latecomer, orphan, vaultAnswers, vaultActs>>
      BY <1>2 DEF vaultTableVars
    <2>2. VaultTyped'
      BY <1>2, <1>3, <2>1 DEF VaultTyped
    <2>3. VaultTable' /\ NoneIsLater' /\ RowsAreNewest'
      BY <1>2, <1>3, <2>1 DEF VaultTable, NoneIsLater, RowsAreNewest
    <2>4. SearchIsNewest'
      BY <1>2, <1>3, <2>1 DEF SearchIsNewest
    <2> QED
      BY <2>2, <2>3, <2>4
  <1>4. ASSUME NEW file \in Files, importBusy' = (importBusy \/ d.mount = mounts),
               vaultCalls' = Append(vaultCalls, [d EXCEPT !.data = file])
        PROVE  VaultInv'
    <2>1. PICK c : c = [d EXCEPT !.data = file]
      OBVIOUS
    <2>2. file \in VaultData
      BY VaultOpenTyped
    <2>3. /\ d.op \in VaultOps /\ d.id \in Nat /\ d.query \in Queries /\ d.mount \in Nat
          /\ d = [op |-> d.op, id |-> d.id, data |-> d.data, query |-> d.query, mount |-> d.mount]
      BY <1>1, VaultCallIs
    <2>4. c = [op |-> d.op, id |-> d.id, data |-> file, query |-> d.query, mount |-> d.mount]
      BY <2>1, <2>3
    <2>5. c \in VaultCall /\ c.op = "import" /\ c.query = d.query /\ c.mount = d.mount
      <3>1. PICK op, id, query, m : op = d.op /\ id = d.id /\ query = d.query /\ m = d.mount
        OBVIOUS
      <3>2. op \in VaultOps /\ id \in Nat /\ query \in Queries /\ m \in Nat
            /\ c = [op |-> op, id |-> id, data |-> file, query |-> query, mount |-> m]
            /\ op = "import"
        BY <1>1, <2>3, <2>4, <3>1
      <3>3. c \in VaultCall /\ c.op = op /\ c.query = query /\ c.mount = m
        BY <2>2, <3>2, InvokeIs
      <3> QED
        BY <3>1, <3>2, <3>3
    <2>6. d \notin RunsElse(mounts, search) => c \notin RunsElse(mounts, search)
      BY <1>1, <2>5 DEF RunsElse
    <2>7. vaultOpen /\ ~latecomer => c \notin RunsElse(mounts, search)
      BY <2>6 DEF SearchIsNewest
    <2>8. importBusy' \in BOOLEAN
      BY <1>4
    <2> QED
      BY <1>1, <1>2, <1>4, <2>1, <2>5, <2>7, <2>8, ChangeJoins
  <1>5. {<<e>> : e \in Entries} \cup {<<e, f>> : e, f \in Entries} \subseteq Files
    BY DEF Files
  <1>6. \/ UNCHANGED <<vaultCalls, importBusy>>
        \/ \E file \in Files : /\ importBusy' = (importBusy \/ d.mount = mounts)
                               /\ vaultCalls' = Append(vaultCalls, [d EXCEPT !.data = file])
    BY <1>5 DEF DialogEnds
  <1> QED
    BY <1>3, <1>4, <1>6

LEMMA SearchIsAsked ==
  ASSUME VaultInv, SearchTimer
  PROVE  VaultInv'
  <1> USE DEF VaultInv
  <1>1. PICK c : c = Load(search, "box")
    OBVIOUS
  <1>2. mounts \in Nat /\ search \in Queries
    BY DEF VaultTyped
  <1>3. c \in VaultCall /\ c.op = "list" /\ c.data = "box" /\ c.query = search /\ c.mount = mounts
    BY <1>1, <1>2, LoadIs DEF Load
  <1>4. /\ c \in ListsOf(mounts) /\ c \in AskFor(search)
        /\ c \notin RunsElse(mounts, search) /\ c \notin LaterCalls(mounts)
    BY <1>2, <1>3 DEF ListsOf, AskFor, RunsElse, LaterCalls
  <1>5. UNCHANGED <<vault, rowsMade, vaultOpen, mounts, items, search, importBusy, listedFor,
                    latecomer, orphan, dialogs, vaultAnswers, vaultActs>>
    BY DEF SearchTimer, vaultTableVars
  <1>6. debounce' = FALSE /\ vaultCalls' = Append(vaultCalls, c)
    BY <1>1 DEF SearchTimer
  <1>7. vaultCalls \in Seq(VaultCall) /\ vaultCalls' \in Seq(VaultCall)
    BY <1>3, <1>6, OneMoreIs DEF VaultTyped
  <1>8. \A L : Free(vaultCalls', L) <=> Free(vaultCalls, L) /\ c \notin L
    BY <1>3, <1>6, <1>7, JoinsFree
  <1>9. EndsIn(vaultCalls', ListsOf(mounts), AskFor(search))
    BY <1>3, <1>4, <1>6, <1>7, JoinsEnd
  <1>10. VaultTyped'
    BY <1>5, <1>6, <1>7 DEF VaultTyped
  <1>11. VaultTable'
    BY <1>5 DEF VaultTable
  <1>12. NoneIsLater'
    BY <1>4, <1>5, <1>8 DEF NoneIsLater
  <1>13. RowsAreNewest'
    BY <1>4, <1>5, <1>8 DEF RowsAreNewest
  <1>14. SearchIsNewest'
    BY <1>4, <1>5, <1>8, <1>9 DEF SearchIsNewest
  <1> QED
    BY <1>10, <1>11, <1>12, <1>13, <1>14

LEMMA SearchIsTyped ==
  ASSUME VaultInv, NEW query \in Queries, TypeSearch(query)
  PROVE  VaultInv'
  <1> USE DEF VaultInv
  <1>1. UNCHANGED <<vault, rowsMade, vaultOpen, mounts, items, importBusy, listedFor, orphan,
                    dialogs, vaultCalls, vaultAnswers>>
    BY DEF TypeSearch, vaultTableVars
  <1>2. search' = query /\ debounce' = TRUE /\ latecomer' = HandlerRuns /\ vaultActs' = vaultActs + 1
    BY DEF TypeSearch, VaultUser
  <1>3. HandlerRuns \in BOOLEAN
    BY DEF HandlerRuns
  <1>4. VaultTyped'
    BY <1>1, <1>2, <1>3 DEF VaultTyped
  <1>5. VaultTable' /\ NoneIsLater' /\ RowsAreNewest'
    BY <1>1 DEF VaultTable, NoneIsLater, RowsAreNewest
  <1>6. ASSUME ~HandlerRuns
        PROVE  /\ Free(vaultCalls, RunsElse(mounts, query)) /\ Free(vaultAnswers, RanElse(mounts, query))
               /\ \A d \in dialogs : d \notin RunsElse(mounts, query)
    BY <1>6 DEF HandlerRuns, StillRuns, Free, RunsElse, RanElse
  <1>7. SearchIsNewest'
    BY <1>1, <1>2, <1>6 DEF SearchIsNewest
  <1> QED
    BY <1>4, <1>5, <1>7

(* What a call does to the table.                                          *)
VaultHandles(c) ==
  \/ c.op = "list" /\ UNCHANGED vaultTableVars
  \/ c.op = "use" /\ RecordUse
  \/ c.op = "pin" /\ vault' = Change(c.id, c.data) /\ UNCHANGED rowsMade
  \/ c.op = "delete" /\ DeletePromptVaultEntry(c.id)
  \/ c.op = "create" /\ CreatePromptVaultEntry(c.data)
  \/ c.op = "import" /\ ImportVault(c.data)

LEMMA RowsStay ==
  ASSUME NEW m \in Nat, NEW n \in Nat, m <= n
  PROVE  VaultRowsTo(m) \subseteq VaultRowsTo(n) /\ RowsBeyond(n) \subseteq RowsBeyond(m)
  <1>1. VaultRowsTo(m) \subseteq VaultRowsTo(n)
    BY DEF VaultRowsTo, VaultRecord
  <1> QED
    BY <1>1 DEF RowsBeyond

LEMMA TableAfter ==
  ASSUME VaultTyped, VaultTable, NEW c \in VaultCall, VaultHandles(c)
  PROVE  /\ rowsMade' \in Nat /\ rowsMade <= rowsMade'
         /\ vault' \subseteq VaultRowsTo(rowsMade') /\ OneOfASource(vault')
         /\ c.op = "list" => vault' = vault
         /\ c.op = "import" /\ Refused(c.data) => vault' = vault
  <1>1. rowsMade \in Nat /\ vault \subseteq VaultRowsTo(rowsMade) /\ OneOfASource(vault)
    BY DEF VaultTyped, VaultTable
  <1>2. CASE c.op \in {"list", "use"}
    <2>1. vault' = vault /\ rowsMade' = rowsMade
      BY <1>2 DEF VaultHandles, vaultTableVars, RecordUse
    <2> QED
      BY <1>1, <2>1
  <1>3. CASE c.op = "pin"
    <2>1. PICK p \in BOOLEAN : p = c.data
      BY <1>3 DEF VaultCall, Sound
    <2>2. vault' = {IF r.id = c.id THEN [r EXCEPT !.pinned = p] ELSE r : r \in vault}
          /\ rowsMade' = rowsMade
      BY <1>3, <2>1 DEF VaultHandles, Change
    <2>3. \A r \in vault : r \in VaultRecord /\ r.id \in 1 .. rowsMade
      BY <1>1 DEF VaultRowsTo
    <2>4. \A r \in vault : LET s == [r EXCEPT !.pinned = p]
                           IN s \in VaultRecord /\ s.id = r.id /\ s.source = r.source
      BY <2>3 DEF VaultRecord
    <2>5. \A s \in vault' : \E r \in vault :
            /\ s = IF r.id = c.id THEN [r EXCEPT !.pinned = p] ELSE r
            /\ s \in VaultRowsTo(rowsMade) /\ s.source = r.source
      BY <2>2, <2>3, <2>4 DEF VaultRowsTo
    <2>6. OneOfASource(vault')
      <3>1. ASSUME NEW s1 \in vault', NEW s2 \in vault', s1.source = s2.source, s1 # s2
            PROVE  s1.source = NoSource
        <4>1. PICK r1 \in vault :
                /\ s1 = IF r1.id = c.id THEN [r1 EXCEPT !.pinned = p] ELSE r1
                /\ s1.source = r1.source
          BY <2>5
        <4>2. PICK r2 \in vault :
                /\ s2 = IF r2.id = c.id THEN [r2 EXCEPT !.pinned = p] ELSE r2
                /\ s2.source = r2.source
          BY <2>5
        <4>3. r1 # r2 /\ r1.source = r2.source
          BY <3>1, <4>1, <4>2
        <4> QED
          BY <1>1, <4>1, <4>3 DEF OneOfASource
      <3> QED
        BY <3>1 DEF OneOfASource
    <2> QED
      BY <1>1, <1>3, <2>2, <2>5, <2>6
  <1>4. CASE c.op = "delete"
    <2>1. vault' \subseteq vault /\ rowsMade' = rowsMade
      BY <1>4 DEF VaultHandles, DeletePromptVaultEntry
    <2> QED
      BY <1>1, <1>4, <2>1 DEF OneOfASource
  <1>5. CASE c.op = "create"
    <2>1. PICK n \in Nat : n = rowsMade + 1
      BY <1>1
    <2>2. PICK f \in BOOLEAN : f = FALSE
      OBVIOUS
    <2>3. PICK w \in Words : w = c.data
      BY <1>5 DEF VaultCall, Sound
    <2>4. PICK r : r = [id |-> n, word |-> w, pinned |-> f, source |-> NoSource]
      OBVIOUS
    <2>5. vault' = vault \cup {r} /\ rowsMade' = n
      BY <1>5, <2>1, <2>2, <2>3, <2>4 DEF VaultHandles, CreatePromptVaultEntry, Row
    <2>6. r \in VaultRowsTo(n) /\ r.source = NoSource
      BY <1>1, <2>1, <2>4 DEF VaultRowsTo, VaultRecord
    <2>7. VaultRowsTo(rowsMade) \subseteq VaultRowsTo(n)
      BY <1>1, <2>1, RowsStay
    <2>8. OneOfASource(vault')
      BY <1>1, <2>5, <2>6 DEF OneOfASource
    <2> QED
      BY <1>1, <1>5, <2>1, <2>5, <2>6, <2>7, <2>8
  <1>6. CASE c.op = "import"
    <2>1. PICK file \in Files : file = c.data
      BY <1>6 DEF VaultCall, Sound
    <2>2. PICK new : new = IF Refused(file) THEN {} ELSE Imported(vault, rowsMade, file)
      OBVIOUS
    <2>3. vault' = vault \cup new /\ rowsMade' = rowsMade + Cardinality(new)
      BY <1>6, <2>1, <2>2 DEF VaultHandles, ImportVault
    <2>4. NewRows(vault, rowsMade, new)
      BY <1>1, <2>2, ImportedIsNew, NoRowsAreNew
    <2>5. PICK k \in Nat : k = Cardinality(new)
      BY <2>4, FS_CardinalityType DEF NewRows
    <2>6. rowsMade + k \in Nat /\ rowsMade <= rowsMade + k /\ rowsMade' = rowsMade + k
      BY <1>1, <2>3, <2>5
    <2>7. VaultRowsTo(rowsMade) \subseteq VaultRowsTo(rowsMade')
      BY <1>1, <2>6, RowsStay
    <2>8. new \subseteq VaultRowsTo(rowsMade')
      BY <2>4, <2>5, <2>6 DEF NewRows, VaultRowsTo
    <2>9. OneOfASource(vault')
      <3>1. ASSUME NEW r \in vault', NEW q \in vault', r.source = q.source, r # q
            PROVE  r.source = NoSource
        <4>1. CASE r \in new
          BY <2>3, <2>4, <3>1, <4>1 DEF NewRows
        <4>2. CASE q \in new
          BY <2>3, <2>4, <3>1, <4>2 DEF NewRows
        <4>3. CASE r \in vault /\ q \in vault
          BY <1>1, <3>1, <4>3 DEF OneOfASource
        <4> QED
          BY <2>3, <4>1, <4>2, <4>3
      <3> QED
        BY <3>1 DEF OneOfASource
    <2>10. Refused(c.data) => vault' = vault
      BY <2>1, <2>2, <2>3
    <2> QED
      BY <1>1, <1>6, <2>3, <2>6, <2>7, <2>8, <2>9, <2>10
  <1> QED
    BY <1>2, <1>3, <1>4, <1>5, <1>6 DEF VaultHandles

(* A call is handled: its answer joins the queue of answers.               *)
LEMMA CallIsHandled ==
  ASSUME VaultInv, HandleVaultCall
  PROVE  VaultInv'
  <1> USE DEF VaultInv
  <1>1. PICK c : c = Head(vaultCalls)
    OBVIOUS
  <1>2. vaultCalls \in Seq(VaultCall) /\ vaultAnswers \in Seq(VaultAnswer) /\ vaultCalls # <<>>
        /\ mounts \in Nat /\ rowsMade \in Nat
    BY DEF VaultTyped, HandleVaultCall
  <1>3. c \in VaultCall /\ vaultCalls' \in Seq(VaultCall) /\ vaultCalls' = Tail(vaultCalls)
    BY <1>1, <1>2, FirstLessIs DEF HandleVaultCall
  <1>4. VaultHandles(c)
    BY <1>1 DEF HandleVaultCall, VaultHandles
  <1>5. PICK ok \in BOOLEAN : ok = ~(c.op = "import" /\ Refused(c.data))
    OBVIOUS
  <1>6. PICK rowsGiven : rowsGiven = IF c.op = "list" THEN VaultRows(vault, c.query) ELSE {}
    OBVIOUS
  <1>7. PICK x : x = [call |-> c, rows |-> rowsGiven, ok |-> ok]
    OBVIOUS
  <1>8. vaultAnswers' = Append(vaultAnswers, x)
    BY <1>1, <1>5, <1>6, <1>7 DEF HandleVaultCall
  <1>9. UNCHANGED <<vaultOpen, mounts, items, search, importBusy, debounce, listedFor, latecomer,
                    dialogs, vaultActs>>
    BY DEF HandleVaultCall
  <1>10. rowsGiven \subseteq VaultRowsTo(rowsMade) /\ rowsGiven \subseteq VaultRecord
    BY <1>6 DEF VaultTable, VaultRows, VaultRowsTo
  <1>11. x \in VaultAnswer /\ x.call = c /\ x.rows = rowsGiven /\ x.ok = ok
    BY <1>3, <1>7, <1>10 DEF VaultAnswer
  <1>12. /\ rowsMade' \in Nat /\ rowsMade <= rowsMade'
         /\ vault' \subseteq VaultRowsTo(rowsMade') /\ OneOfASource(vault')
         /\ c.op = "list" => vault' = vault
         /\ c.op = "import" /\ Refused(c.data) => vault' = vault
    BY <1>3, <1>4, TableAfter
  <1>13. VaultRowsTo(rowsMade) \subseteq VaultRowsTo(rowsMade') /\ RowsBeyond(rowsMade') \subseteq RowsBeyond(rowsMade)
    BY <1>2, <1>12, RowsStay
  <1>14. \A L : Free(vaultCalls, L) <=> Free(vaultCalls', L) /\ c \notin L
    BY <1>1, <1>2, <1>3, LeavesFree
  <1>15. \A L : Free(vaultAnswers', L) <=> Free(vaultAnswers, L) /\ x \notin L
    BY <1>2, <1>8, <1>11, JoinsFree
  <1>16. \A L, G : EndsIn(vaultCalls, L, G) =>
           /\ EndsIn(vaultCalls', L, G) /\ (c \in L /\ Free(vaultCalls', L) => c \in G)
    BY <1>1, <1>2, <1>3, LeavesEnd
  <1>17. \A L, G : (x \in L => x \in G) /\ (x \notin L => EndsIn(vaultAnswers, L, G))
                      => EndsIn(vaultAnswers', L, G)
    BY <1>2, <1>8, <1>11, JoinsEnd
  <1>18. vaultAnswers' \in Seq(VaultAnswer)
    BY <1>2, <1>8, <1>11, OneMoreIs
  <1>19. orphan' = (orphan \/ (c.op # "list" /\ c.mount # mounts))
    BY <1>1 DEF HandleVaultCall
  <1>20. /\ x \in ListedOf(mounts) <=> c \in ListsOf(mounts)
         /\ x \in DoneOf(mounts) <=> c.op # "list" /\ ok /\ c.mount = mounts
         /\ x \in LaterAnswers(mounts) => c \in LaterCalls(mounts)
         /\ x \in RanElse(mounts, search) => c \in RunsElse(mounts, search)
         /\ c \in AskFor(search) => x \in AnswersFor(search)
         /\ c \in ListsOf(mounts) <=> c.op = "list" /\ c.mount = mounts
    BY <1>3, <1>11 DEF ListedOf, ListsOf, DoneOf, LaterAnswers, RanElse, AskFor, AnswersFor
  <1>21. VaultTyped'
    BY <1>3, <1>9, <1>12, <1>18, <1>19 DEF VaultTyped
  <1>22. VaultTable'
    <2>1. Free(vaultAnswers', RowsBeyond(rowsMade'))
      <3>1. x \notin RowsBeyond(rowsMade')
        BY <1>10, <1>11, <1>13 DEF RowsBeyond
      <3>2. Free(vaultAnswers, RowsBeyond(rowsMade'))
        BY <1>13 DEF VaultTable, Free
      <3> QED
        BY <1>15, <3>1, <3>2
    <2>2. items' \subseteq VaultRowsTo(rowsMade')
      BY <1>9, <1>13 DEF VaultTable
    <2> QED
      BY <1>12, <2>1, <2>2 DEF VaultTable
  <1>23. NoneIsLater'
    BY <1>9, <1>14, <1>15, <1>20 DEF NoneIsLater
  <1>24. RowsAreNewest'
    <2> SUFFICES ASSUME vaultOpen, ~orphan', Free(vaultCalls', ListsOf(mounts)),
                        Free(vaultAnswers', DoneOf(mounts))
                 PROVE  /\ EndsIn(vaultAnswers', ListedOf(mounts), Shows(vault'))
                        /\ Free(vaultAnswers', ListedOf(mounts)) => items = VaultRows(vault', listedFor)
      BY <1>9 DEF RowsAreNewest
    <2>1. ~orphan /\ (c.op # "list" => c.mount = mounts)
      BY <1>19
    <2>2. Free(vaultAnswers, DoneOf(mounts)) /\ x \notin DoneOf(mounts)
      BY <1>15
    <2>3. c.op = "list" \/ ~ok
      BY <1>20, <2>1, <2>2
    <2>4. vault' = vault
      <3>1. ~ok => c.op = "import" /\ Refused(c.data)
        BY <1>5, Zenon
      <3>3. CASE c.op = "list"
        BY <1>12, <3>3
      <3>4. CASE ~ok
        BY <1>12, <3>1, <3>4
      <3> QED
        BY <2>3, <3>3, <3>4
    <2>5. CASE c \in ListsOf(mounts)
      <3>1. rowsGiven = VaultRows(vault', c.query)
        BY <1>6, <1>20, <2>4, <2>5
      <3>2. x \in Shows(vault')
        BY <1>11, <3>1 DEF Shows
      <3> QED
        BY <1>15, <1>17, <1>20, <2>5, <3>2
    <2>6. CASE c \notin ListsOf(mounts)
      <3>1. Free(vaultCalls, ListsOf(mounts))
        BY <1>14, <2>6
      <3>2. /\ EndsIn(vaultAnswers, ListedOf(mounts), Shows(vault))
            /\ Free(vaultAnswers, ListedOf(mounts)) => items = VaultRows(vault, listedFor)
        BY <2>1, <2>2, <3>1 DEF RowsAreNewest
      <3> QED
        BY <1>15, <1>17, <1>20, <2>4, <2>6, <3>2
    <2> QED
      BY <2>5, <2>6
  <1>25. SearchIsNewest'
    <2> SUFFICES ASSUME vaultOpen, ~latecomer
                 PROVE  /\ Free(vaultCalls', RunsElse(mounts, search)) /\ Free(vaultAnswers', RanElse(mounts, search))
                        /\ \A d \in dialogs : d \notin RunsElse(mounts, search)
                        /\ ~debounce =>
                             /\ EndsIn(vaultCalls', ListsOf(mounts), AskFor(search))
                             /\ Free(vaultCalls', ListsOf(mounts)) =>
                                  /\ EndsIn(vaultAnswers', ListedOf(mounts), AnswersFor(search))
                                  /\ Free(vaultAnswers', ListedOf(mounts)) => listedFor = search
      BY <1>9 DEF SearchIsNewest
    <2>1. /\ Free(vaultCalls', RunsElse(mounts, search)) /\ Free(vaultAnswers', RanElse(mounts, search))
          /\ \A d \in dialogs : d \notin RunsElse(mounts, search)
      BY <1>14, <1>15, <1>20 DEF SearchIsNewest
    <2>2. ASSUME ~debounce
          PROVE  /\ EndsIn(vaultCalls', ListsOf(mounts), AskFor(search))
                 /\ c \in ListsOf(mounts) /\ Free(vaultCalls', ListsOf(mounts)) => c \in AskFor(search)
      BY <1>16, <2>2 DEF SearchIsNewest
    <2>3. ASSUME ~debounce, Free(vaultCalls', ListsOf(mounts))
          PROVE  /\ EndsIn(vaultAnswers', ListedOf(mounts), AnswersFor(search))
                 /\ Free(vaultAnswers', ListedOf(mounts)) => listedFor = search
      <3>1. CASE c \in ListsOf(mounts)
        BY <1>15, <1>17, <1>20, <2>2, <2>3, <3>1
      <3>2. CASE c \notin ListsOf(mounts)
        <4>1. Free(vaultCalls, ListsOf(mounts))
          BY <1>14, <2>3, <3>2
        <4>2. /\ EndsIn(vaultAnswers, ListedOf(mounts), AnswersFor(search))
              /\ Free(vaultAnswers, ListedOf(mounts)) => listedFor = search
          BY <2>3, <4>1 DEF SearchIsNewest
        <4> QED
          BY <1>15, <1>17, <1>20, <3>2, <4>2
      <3> QED
        BY <3>1, <3>2
    <2> QED
      BY <2>1, <2>2, <2>3
  <1> QED
    BY <1>21, <1>22, <1>23, <1>24, <1>25

(* An answer is handled: a list by the panel, of a change that it is done  *)
(* by a list call more.                                                    *)
LEMMA AnswerIsHandled ==
  ASSUME VaultInv, HandleVaultAnswer
  PROVE  VaultInv'
  <1> USE DEF VaultInv
  <1>1. PICK a, c : a = Head(vaultAnswers) /\ c = a.call
    OBVIOUS
  <1>2. vaultCalls \in Seq(VaultCall) /\ vaultAnswers \in Seq(VaultAnswer) /\ vaultAnswers # <<>>
        /\ mounts \in Nat /\ rowsMade \in Nat
    BY DEF VaultTyped, HandleVaultAnswer
  <1>3. a \in VaultAnswer /\ vaultAnswers' \in Seq(VaultAnswer) /\ vaultAnswers' = Tail(vaultAnswers)
    BY <1>1, <1>2, FirstLessIs DEF HandleVaultAnswer
  <1>4. c \in VaultCall
    BY <1>1, <1>3 DEF VaultAnswer
  <1>5. c.query \in Queries /\ c.op \in VaultOps /\ c.mount \in Nat
    BY <1>4, VaultCallIs
  <1>6. UNCHANGED <<vault, rowsMade, vaultOpen, mounts, search, debounce, latecomer, orphan,
                    dialogs, vaultActs>>
    BY DEF HandleVaultAnswer, vaultTableVars
  <1>7. IF c.op = "list" /\ vaultOpen /\ c.mount = mounts
        THEN items' = a.rows /\ listedFor' = c.query ELSE UNCHANGED <<items, listedFor>>
    BY <1>1 DEF HandleVaultAnswer
  <1>8. PICK x : x = [op |-> "list", id |-> 0, data |-> c.op, query |-> c.query, mount |-> c.mount]
    OBVIOUS
  <1>9. x \in VaultCall /\ x.op = "list" /\ x.data = c.op /\ x.query = c.query /\ x.mount = c.mount
    <2>1. PICK who, query, m : who = c.op /\ query = c.query /\ m = c.mount
      OBVIOUS
    <2>2. who \in VaultOps \cup {"box"} /\ query \in Queries /\ m \in Nat
          /\ x = [op |-> "list", id |-> 0, data |-> who, query |-> query, mount |-> m]
      BY <1>5, <1>8, <2>1
    <2>3. x \in VaultCall /\ x.op = "list" /\ x.data = who /\ x.query = query /\ x.mount = m
      BY <2>2, LoadIs
    <2> QED
      BY <2>1, <2>3
  <1>10. x = [Load(c.query, c.op) EXCEPT !.mount = c.mount]
    BY <1>8 DEF Load
  <1>11. \/ c.op # "list" /\ a.ok /\ vaultCalls' = Append(vaultCalls, x)
         \/ ~(c.op # "list" /\ a.ok) /\ vaultCalls' = vaultCalls
    BY <1>1, <1>10 DEF HandleVaultAnswer
  <1>12. importBusy' \in BOOLEAN
    BY DEF HandleVaultAnswer
  <1>13. \A L : Free(vaultAnswers, L) <=> Free(vaultAnswers', L) /\ a \notin L
    BY <1>1, <1>2, <1>3, LeavesFree
  <1>14. \A L, G : EndsIn(vaultAnswers, L, G) =>
           /\ EndsIn(vaultAnswers', L, G) /\ (a \in L /\ Free(vaultAnswers', L) => a \in G)
    BY <1>1, <1>2, <1>3, LeavesEnd
  <1>15. /\ a \in ListedOf(mounts) <=> c.op = "list" /\ c.mount = mounts
         /\ a \in DoneOf(mounts) <=> c.op # "list" /\ a.ok /\ c.mount = mounts
         /\ a \in LaterAnswers(mounts) <=> c \in LaterCalls(mounts)
         /\ a \in RanElse(mounts, search) <=> c \in RunsElse(mounts, search)
         /\ a \in AnswersFor(search) <=> c.query = search
         /\ a \in Shows(vault) <=> a.rows = VaultRows(vault, c.query)
    BY <1>1, <1>3, <1>4 DEF ListedOf, DoneOf, LaterAnswers, RanElse, AnswersFor, Shows
  <1>16. /\ x \in ListsOf(mounts) <=> c.mount = mounts
         /\ x \in LaterCalls(mounts) <=> c \in LaterCalls(mounts)
         /\ x \in RunsElse(mounts, search) => c.mount = mounts /\ c.query # search
         /\ x \in AskFor(search) <=> c.query = search
    BY <1>4, <1>9 DEF ListsOf, LaterCalls, RunsElse, AskFor
  <1>17. c.op # "list" /\ c.mount = mounts /\ c \notin RunsElse(mounts, search) => c.query = search
    BY <1>4 DEF RunsElse
  <1>18. vaultCalls' \in Seq(VaultCall)
    BY <1>2, <1>9, <1>11, OneMoreIs
  <1>19. \A L : Free(vaultCalls', L) <=> Free(vaultCalls, L) /\ (c.op # "list" /\ a.ok => x \notin L)
    <2>1. CASE c.op # "list" /\ a.ok
      <3>1. vaultCalls' = Append(vaultCalls, x)
        BY <1>11, <2>1
      <3>2. \A L : Free(vaultCalls', L) <=> Free(vaultCalls, L) /\ x \notin L
        BY <1>2, <1>9, <3>1, JoinsFree
      <3> QED
        BY <2>1, <3>2
    <2>2. CASE ~(c.op # "list" /\ a.ok)
      BY <1>11, <2>2
    <2> QED
      BY <2>1, <2>2
  <1>20. \A L, G : (x \in L => x \in G) /\ EndsIn(vaultCalls, L, G) => EndsIn(vaultCalls', L, G)
    <2>1. CASE c.op # "list" /\ a.ok
      <3>1. vaultCalls' = Append(vaultCalls, x)
        BY <1>11, <2>1
      <3> QED
        BY <1>2, <1>9, <3>1, JoinsEnd
    <2>2. CASE ~(c.op # "list" /\ a.ok)
      BY <1>11, <2>2
    <2> QED
      BY <2>1, <2>2
  <1>21. VaultTyped'
    BY <1>3, <1>5, <1>6, <1>7, <1>12, <1>18 DEF VaultTyped
  <1>22. VaultTable'
    <2>1. a \notin RowsBeyond(rowsMade) /\ Free(vaultAnswers', RowsBeyond(rowsMade))
      BY <1>13 DEF VaultTable
    <2>2. a.rows \subseteq VaultRowsTo(rowsMade)
      BY <1>3, <2>1 DEF RowsBeyond
    <2>3. items' \subseteq VaultRowsTo(rowsMade)
      BY <1>7, <2>2 DEF VaultTable
    <2> QED
      BY <1>6, <2>1, <2>3 DEF VaultTable
  <1>23. NoneIsLater'
    <2>1. Free(vaultCalls, LaterCalls(mounts)) /\ c \notin LaterCalls(mounts)
          /\ Free(vaultAnswers', LaterAnswers(mounts))
      BY <1>13, <1>15 DEF NoneIsLater
    <2> QED
      BY <1>6, <1>16, <1>19, <2>1 DEF NoneIsLater
  <1>24. RowsAreNewest'
    <2> SUFFICES ASSUME vaultOpen, ~orphan, Free(vaultCalls', ListsOf(mounts)),
                        Free(vaultAnswers', DoneOf(mounts))
                 PROVE  /\ EndsIn(vaultAnswers', ListedOf(mounts), Shows(vault))
                        /\ Free(vaultAnswers', ListedOf(mounts)) => items' = VaultRows(vault, listedFor')
      BY <1>6 DEF RowsAreNewest
    <2>1. Free(vaultCalls, ListsOf(mounts)) /\ ~(c.op # "list" /\ a.ok /\ c.mount = mounts)
      BY <1>16, <1>19
    <2>2. Free(vaultAnswers, DoneOf(mounts))
      BY <1>13, <1>15, <2>1
    <2>3. /\ EndsIn(vaultAnswers, ListedOf(mounts), Shows(vault))
          /\ Free(vaultAnswers, ListedOf(mounts)) => items = VaultRows(vault, listedFor)
      BY <2>1, <2>2 DEF RowsAreNewest
    <2>4. /\ EndsIn(vaultAnswers', ListedOf(mounts), Shows(vault))
          /\ a \in ListedOf(mounts) /\ Free(vaultAnswers', ListedOf(mounts)) => a \in Shows(vault)
      BY <1>14, <2>3
    <2>5. CASE a \in ListedOf(mounts)
      BY <1>7, <1>15, <2>4, <2>5
    <2>6. CASE a \notin ListedOf(mounts)
      BY <1>7, <1>13, <1>15, <2>3, <2>4, <2>6
    <2> QED
      BY <2>5, <2>6
  <1>25. SearchIsNewest'
    <2> SUFFICES ASSUME vaultOpen, ~latecomer
                 PROVE  /\ Free(vaultCalls', RunsElse(mounts, search)) /\ Free(vaultAnswers', RanElse(mounts, search))
                        /\ \A d \in dialogs : d \notin RunsElse(mounts, search)
                        /\ ~debounce =>
                             /\ EndsIn(vaultCalls', ListsOf(mounts), AskFor(search))
                             /\ Free(vaultCalls', ListsOf(mounts)) =>
                                  /\ EndsIn(vaultAnswers', ListedOf(mounts), AnswersFor(search))
                                  /\ Free(vaultAnswers', ListedOf(mounts)) => listedFor' = search
      BY <1>6 DEF SearchIsNewest
    <2>1. /\ Free(vaultCalls, RunsElse(mounts, search)) /\ Free(vaultAnswers', RanElse(mounts, search))
          /\ c \notin RunsElse(mounts, search)
          /\ \A d \in dialogs : d \notin RunsElse(mounts, search)
      BY <1>13, <1>15 DEF SearchIsNewest
    <2>2. c.op # "list" /\ a.ok /\ c.mount = mounts => c.query = search
      BY <1>17, <2>1
    <2>3. Free(vaultCalls', RunsElse(mounts, search))
      BY <1>16, <1>19, <2>1, <2>2
    <2>4. ASSUME ~debounce
          PROVE  EndsIn(vaultCalls', ListsOf(mounts), AskFor(search))
      <3>1. EndsIn(vaultCalls, ListsOf(mounts), AskFor(search))
        BY <2>4 DEF SearchIsNewest
      <3>2. CASE c.op # "list" /\ a.ok
        BY <1>16, <1>20, <2>2, <3>1, <3>2
      <3>3. CASE ~(c.op # "list" /\ a.ok)
        BY <1>11, <3>1, <3>3
      <3> QED
        BY <3>2, <3>3
    <2>5. ASSUME ~debounce, Free(vaultCalls', ListsOf(mounts))
          PROVE  /\ EndsIn(vaultAnswers', ListedOf(mounts), AnswersFor(search))
                 /\ Free(vaultAnswers', ListedOf(mounts)) => listedFor' = search
      <3>1. Free(vaultCalls, ListsOf(mounts))
        BY <1>19, <2>5
      <3>2. /\ EndsIn(vaultAnswers, ListedOf(mounts), AnswersFor(search))
            /\ Free(vaultAnswers, ListedOf(mounts)) => listedFor = search
        BY <2>5, <3>1 DEF SearchIsNewest
      <3>3. /\ EndsIn(vaultAnswers', ListedOf(mounts), AnswersFor(search))
            /\ a \in ListedOf(mounts) /\ Free(vaultAnswers', ListedOf(mounts)) => a \in AnswersFor(search)
        BY <1>14, <3>2
      <3>4. CASE a \in ListedOf(mounts)
        BY <1>7, <1>15, <3>3, <3>4
      <3>5. CASE a \notin ListedOf(mounts)
        BY <1>7, <1>13, <1>15, <3>2, <3>3, <3>5
      <3> QED
        BY <3>4, <3>5
    <2> QED
      BY <2>1, <2>3, <2>4, <2>5
  <1> QED
    BY <1>21, <1>22, <1>23, <1>24, <1>25

LEMMA VaultIsMounted ==
  ASSUME VaultInv, MountVault
  PROVE  VaultInv'
  <1> USE DEF VaultInv
  <1>1. PICK m \in Nat : m = mounts + 1
    BY DEF VaultTyped
  <1>2. PICK c : c = [op |-> "list", id |-> 0, data |-> "box", query |-> NoWord, mount |-> m]
    OBVIOUS
  <1>3. NoWord \in Queries /\ "box" \in VaultOps \cup {"box"} /\ mounts \in Nat
    BY VaultOpenTyped DEF VaultTyped
  <1>4. c \in VaultCall /\ c.op = "list" /\ c.data = "box" /\ c.query = NoWord /\ c.mount = m
    BY <1>2, <1>3, LoadIs
  <1>5. /\ vaultOpen' = TRUE /\ mounts' = m /\ items' = {} /\ search' = NoWord /\ importBusy' = FALSE
        /\ debounce' = TRUE /\ listedFor' = NoWord /\ latecomer' = FALSE /\ orphan' = FALSE
        /\ vaultCalls' = Append(vaultCalls, c) /\ vaultActs' = vaultActs + 1
        /\ UNCHANGED <<vault, rowsMade, dialogs, vaultAnswers>>
    BY <1>1, <1>2 DEF MountVault, VaultUser, Load, vaultTableVars
  <1>6. vaultCalls \in Seq(VaultCall) /\ vaultCalls' \in Seq(VaultCall)
    BY <1>4, <1>5, OneMoreIs DEF VaultTyped
  <1>7. \A L : Free(vaultCalls', L) <=> Free(vaultCalls, L) /\ c \notin L
    BY <1>4, <1>5, <1>6, JoinsFree
  <1>8. /\ c \in ListsOf(m) /\ c \notin LaterCalls(m) /\ c \notin RunsElse(m, NoWord)
    BY <1>1, <1>4 DEF ListsOf, LaterCalls, RunsElse
  <1>9. LaterCalls(m) \subseteq LaterCalls(mounts) /\ RunsElse(m, NoWord) \subseteq LaterCalls(mounts)
    <2>1. \A e \in VaultCall : e.mount \in Nat
      BY VaultCallIs
    <2> QED
      BY <1>1, <1>3, <2>1 DEF LaterCalls, RunsElse
  <1>10. LaterAnswers(m) \subseteq LaterAnswers(mounts) /\ RanElse(m, NoWord) \subseteq LaterAnswers(mounts)
    BY <1>9 DEF LaterAnswers, RanElse
  <1>11. VaultTyped'
    <2>1. vaultActs' \in Nat /\ mounts' \in Nat /\ search' \in Queries /\ listedFor' \in Queries
      BY <1>3, <1>5 DEF VaultTyped
    <2>2. /\ vaultOpen' \in BOOLEAN /\ importBusy' \in BOOLEAN /\ debounce' \in BOOLEAN
          /\ latecomer' \in BOOLEAN /\ orphan' \in BOOLEAN
      BY <1>5
    <2>3. /\ rowsMade' \in Nat /\ vaultAnswers' \in Seq(VaultAnswer)
          /\ \A d \in dialogs' : d \in VaultCall /\ d.op = "import"
      BY <1>5 DEF VaultTyped
    <2> QED
      BY <1>6, <2>1, <2>2, <2>3 DEF VaultTyped
  <1>12. VaultTable'
    BY <1>5 DEF VaultTable
  <1>13. NoneIsLater' /\ Free(vaultCalls', RunsElse(m, NoWord)) /\ Free(vaultAnswers', RanElse(m, NoWord))
         /\ \A d \in dialogs' : d \notin RunsElse(m, NoWord)
    <2>1. Free(vaultCalls, LaterCalls(m)) /\ Free(vaultCalls, RunsElse(m, NoWord))
      BY <1>9 DEF NoneIsLater, Free
    <2>2. Free(vaultAnswers, LaterAnswers(m)) /\ Free(vaultAnswers, RanElse(m, NoWord))
      BY <1>10 DEF NoneIsLater, Free
    <2>3. \A d \in dialogs : d \notin LaterCalls(m) /\ d \notin RunsElse(m, NoWord)
      BY <1>9 DEF NoneIsLater
    <2> QED
      BY <1>5, <1>7, <1>8, <2>1, <2>2, <2>3 DEF NoneIsLater
  <1>14. RowsAreNewest'
    BY <1>5, <1>7, <1>8 DEF RowsAreNewest
  <1>15. SearchIsNewest'
    BY <1>5, <1>13 DEF SearchIsNewest
  <1> QED
    BY <1>11, <1>12, <1>13, <1>14, <1>15

LEMMA VaultIsUnmounted ==
  ASSUME VaultInv, UnmountVault
  PROVE  VaultInv'
  <1> USE DEF VaultInv
  <1>1. vaultOpen' = FALSE /\ debounce' = FALSE
        /\ UNCHANGED <<vault, rowsMade, mounts, items, search, importBusy, listedFor, latecomer, orphan,
                       dialogs, vaultCalls, vaultAnswers, vaultActs>>
    BY DEF UnmountVault, vaultTableVars
  <1> QED
    BY <1>1 DEF VaultTyped, VaultTable, NoneIsLater, RowsAreNewest, SearchIsNewest

(* The seeds are rows like others.                                         *)
LEMMA SeedsAre ==
  ASSUME NEW t, NEW made \in Nat, NEW n, n = made + Cardinality(Seeds(t, made)),
         t \subseteq VaultRowsTo(made), OneOfASource(t)
  PROVE  /\ n \in Nat /\ made <= n /\ t \cup Seeds(t, made) \subseteq VaultRowsTo(n)
         /\ OneOfASource(t \cup Seeds(t, made))
  <1>1. CASE t = {}
    <2>1. PICK f \in BOOLEAN : f = TRUE
      OBVIOUS
    <2>2. PICK r : r = [id |-> made + 1, word |-> SeedWord, pinned |-> f, source |-> NoSource]
      OBVIOUS
    <2>3. Seeds(t, made) = {r} /\ t \cup Seeds(t, made) = {r}
      BY <1>1, <2>1, <2>2 DEF Seeds, Row
    <2>4. n = made + 1
      BY <2>3, FS_Singleton
    <2>5. r \in VaultRowsTo(n) /\ r.source = NoSource
      BY <2>2, <2>4 DEF VaultRowsTo, VaultRecord
    <2> QED
      BY <2>3, <2>4, <2>5 DEF OneOfASource
  <1>2. CASE t # {}
    <2>1. Seeds(t, made) = {} /\ t \cup Seeds(t, made) = t
      BY <1>2 DEF Seeds
    <2>2. n = made
      BY <2>1, FS_EmptySet
    <2> QED
      BY <2>1, <2>2
  <1> QED
    BY <1>1, <1>2

LEMMA VaultRestarts ==
  ASSUME VaultInv, RestartVault
  PROVE  VaultInv'
  <1> USE DEF VaultInv
  <1>1. PICK t, made, n : t = vault /\ made = rowsMade /\ n = made + Cardinality(Seeds(t, made))
    OBVIOUS
  <1>2. vault' = t \cup Seeds(t, made) /\ rowsMade' = n
    BY <1>1 DEF RestartVault
  <1>3. made \in Nat /\ t \subseteq VaultRowsTo(made) /\ OneOfASource(t)
    BY <1>1 DEF VaultTyped, VaultTable
  <1>4. n \in Nat /\ made <= n /\ vault' \subseteq VaultRowsTo(n) /\ OneOfASource(vault')
    BY <1>1, <1>2, <1>3, SeedsAre
  <1>5. /\ vaultOpen' = FALSE /\ items' = {} /\ search' = NoWord /\ importBusy' = FALSE
        /\ debounce' = FALSE /\ dialogs' = {} /\ vaultCalls' = <<>> /\ vaultAnswers' = <<>>
        /\ UNCHANGED <<mounts, listedFor, latecomer, orphan>> /\ vaultActs' = vaultActs + 1
    BY DEF RestartVault, VaultUser
  <1>6. \A L : Free(<<>>, L)
    BY NoMessages
  <1>7. VaultTyped'
    <2>1. search' \in Queries /\ listedFor' \in Queries
      BY <1>5, VaultOpenTyped DEF VaultTyped
    <2>2. /\ vaultOpen' \in BOOLEAN /\ importBusy' \in BOOLEAN /\ debounce' \in BOOLEAN
          /\ latecomer' \in BOOLEAN /\ orphan' \in BOOLEAN
      BY <1>5 DEF VaultTyped
    <2>3. vaultActs' \in Nat /\ mounts' \in Nat /\ rowsMade' \in Nat
      BY <1>2, <1>4, <1>5 DEF VaultTyped
    <2>4. vaultCalls' \in Seq(VaultCall) /\ vaultAnswers' \in Seq(VaultAnswer)
      BY <1>5, EmptySeq
    <2>5. \A d \in dialogs' : d \in VaultCall /\ d.op = "import"
      BY <1>5
    <2> QED
      BY <2>1, <2>2, <2>3, <2>4, <2>5 DEF VaultTyped
  <1>8. VaultTable'
    BY <1>2, <1>4, <1>5, <1>6 DEF VaultTable
  <1>9. NoneIsLater' /\ RowsAreNewest' /\ SearchIsNewest'
    BY <1>5, <1>6 DEF NoneIsLater, RowsAreNewest, SearchIsNewest
  <1> QED
    BY <1>7, <1>8, <1>9

LEMMA VaultInvStep ==
  ASSUME VaultInv, VaultNext \/ UNCHANGED vaultVars
  PROVE  VaultInv'
  <1>1. CASE UNCHANGED vaultVars
    BY <1>1 DEF vaultVars, vaultTableVars, vaultPanelVars, VaultInv, VaultTyped, VaultTable,
                NoneIsLater, RowsAreNewest, SearchIsNewest
  <1>2. CASE VaultNext
    BY <1>2, VaultIsMounted, VaultIsUnmounted, SearchIsAsked, ImportIsChosen, VaultRestarts,
       CallIsHandled, AnswerIsHandled, SearchIsTyped, PanelChanges, DialogCloses DEF VaultNext
  <1> QED
    BY <1>1, <1>2

LEMMA VaultInvStart == VaultInit => VaultInv
  <1> SUFFICES ASSUME VaultInit PROVE VaultInv
    OBVIOUS
  <1>2. PICK f \in BOOLEAN : f = TRUE
    OBVIOUS
  <1>3. PICK r : r = [id |-> 1, word |-> SeedWord, pinned |-> f, source |-> NoSource]
    OBVIOUS
  <1>4. vault = {r} /\ rowsMade = 1
    <2>1. r = Row(1, SeedWord, TRUE, NoSource)
      BY <1>2, <1>3 DEF Row
    <2>2. Seeds({}, 0) = {Row(0 + 1, SeedWord, TRUE, NoSource)} /\ 0 + 1 = 1
      BY DEF Seeds
    <2> QED
      BY <2>1, <2>2 DEF VaultInit
  <1>5. r \in VaultRowsTo(1)
    BY <1>3 DEF VaultRowsTo, VaultRecord
  <1>6. \A L : Free(<<>>, L)
    BY NoMessages
  <1>7. NoWord \in Queries
    BY VaultOpenTyped
  <1>8. VaultTyped
    <2>1. rowsMade \in Nat /\ mounts \in Nat /\ vaultActs \in Nat
      BY <1>4 DEF VaultInit
    <2>2. vaultCalls \in Seq(VaultCall) /\ vaultAnswers \in Seq(VaultAnswer)
      BY EmptySeq DEF VaultInit
    <2>3. /\ vaultOpen \in BOOLEAN /\ importBusy \in BOOLEAN /\ debounce \in BOOLEAN
          /\ latecomer \in BOOLEAN /\ orphan \in BOOLEAN
      BY DEF VaultInit
    <2>4. search \in Queries /\ listedFor \in Queries /\ dialogs = {}
      BY <1>7 DEF VaultInit
    <2> QED
      BY <2>1, <2>2, <2>3, <2>4 DEF VaultTyped
  <1>9. VaultTable
    BY <1>4, <1>5, <1>6 DEF VaultTable, VaultInit, OneOfASource
  <1>10. NoneIsLater /\ RowsAreNewest /\ SearchIsNewest
    BY <1>6 DEF NoneIsLater, RowsAreNewest, SearchIsNewest, VaultInit
  <1> QED
    BY <1>8, <1>9, <1>10 DEF VaultInv

LEMMA VaultInvGives == VaultInv => VaultTypeOK /\ VaultListIsCurrent
  <1> SUFFICES ASSUME VaultInv PROVE VaultTypeOK /\ VaultListIsCurrent
    OBVIOUS
  <1> USE DEF VaultInv
  <1>1. VaultTypeOK
    BY DEF VaultTyped, VaultTable, VaultTypeOK, VaultRow, VaultRowsTo, VaultRecord
  <1>2. \A L : Free(<<>>, L)
    BY NoMessages
  <1>3. ASSUME VaultAtRest, vaultOpen
        PROVE  /\ ~orphan => items = VaultRows(vault, listedFor)
               /\ ~latecomer => listedFor = search
    BY <1>2, <1>3 DEF VaultAtRest, RowsAreNewest, SearchIsNewest
  <1>4. VaultListIsCurrent
    BY <1>3 DEF VaultListIsCurrent, VaultTable, OneOfASource
  <1> QED
    BY <1>1, <1>4

(* The prompt vault's list is current, whatever was asked for, imported or *)
(* typed meanwhile, and no source is in the table twice.                   *)
THEOREM TheListIsCurrent == VaultSpec => []VaultListIsCurrent
  <1>1. VaultInv /\ [VaultNext]_vaultVars => VaultInv'
    BY VaultInvStep
  <1> QED
    BY <1>1, VaultInvStart, VaultInvGives, PTL DEF VaultSpec

-------------------------------------------------------------------------------
(* Workspace                                                               *)

WsOps == {"list", "scan", "refresh", "create", "delete", "sessions", "messages"}
WsWho == {"load", "scan", "activate", "browse", "pick", "click", "mount", "new", "select", "delete"}
AllDirs == Dirs \cup {NoDir}

(* Listings are of directories, and so are the scans of Browse.            *)
NamesADir(c) ==
  /\ c.op = "list" => c.dir \in Dirs
  /\ (c.op = "scan" /\ c.who = "browse") => c.dir \in Dirs

WsCall == {c \in [op : WsOps, dir : AllDirs, id : Nat, who : WsWho, known : SUBSET Nat,
                  current : Nat] : NamesADir(c)}
WsAnswer == {a \in [op : WsOps, dir : AllDirs, id : Nat, who : WsWho, known : SUBSET Nat,
                    current : Nat, ok : BOOLEAN, found : SUBSET Dirs] : NamesADir(a)}

Listings == {c \in WsCall : c.op = "list"}
ListingsDone == {a \in WsAnswer : a.op = "list"}
Activations == {c \in WsCall : c.op = "list" /\ c.who = "activate"}
ActivationsDone == {a \in WsAnswer : a.op = "list" /\ a.who = "activate"}
Refreshes == {c \in WsCall : c.op = "refresh"}
WsOf(d) == {c \in WsCall : c.dir = d}
WsDoneOf(d) == {a \in WsAnswer : a.dir = d}

(* The newest listing is of the path: asked for, or else answered, or else *)
(* shown by the tree, if the path can be read.                             *)
TreeFollows(q, r, path, of, legible) ==
  /\ EndsIn(q, Listings, WsOf(path))
  /\ Free(q, Listings) =>
       /\ EndsIn(r, ListingsDone, WsDoneOf(path))
       /\ Free(r, ListingsDone) => of = path \/ path \notin legible

LEMMA TreeGoesOn ==
  ASSUME NEW q \in Seq(WsCall), NEW r, NEW path, NEW of, NEW legible, NEW c \in WsCall,
         TreeFollows(q, r, path, of, legible), c \notin Listings
  PROVE  TreeFollows(Append(q, c), r, path, of, legible)
  <1>1. EndsIn(Append(q, c), Listings, WsOf(path))
    BY JoinsEnd DEF TreeFollows
  <1>2. Free(Append(q, c), Listings) <=> Free(q, Listings) /\ c \notin Listings
    BY JoinsFree
  <1> QED
    BY <1>1, <1>2 DEF TreeFollows

LEMMA TreeIsAsked ==
  ASSUME NEW q \in Seq(WsCall), NEW r, NEW of, NEW legible, NEW c \in WsCall, c \in Listings
  PROVE  TreeFollows(Append(q, c), r, c.dir, of, legible)
  <1>1. PICK d : d = c.dir
    OBVIOUS
  <1>2. c \in WsOf(d)
    BY <1>1 DEF WsOf
  <1>3. EndsIn(Append(q, c), Listings, WsOf(d))
    BY <1>2, JoinsEnd
  <1>4. ~Free(Append(q, c), Listings)
    BY JoinsFree
  <1> QED
    BY <1>1, <1>3, <1>4 DEF TreeFollows

LEMMA TreeIsListed ==
  ASSUME NEW q \in Seq(WsCall), q # <<>>, NEW r \in Seq(WsAnswer), NEW path, NEW of, NEW legible,
         NEW a \in WsAnswer, a.op = Head(q).op, a.dir = Head(q).dir,
         TreeFollows(q, r, path, of, legible)
  PROVE  TreeFollows(Tail(q), Append(r, a), path, of, legible)
  <1>1. PICK c, t, s : c = Head(q) /\ t = Tail(q) /\ s = Append(r, a)
    OBVIOUS
  <1>2. c \in WsCall
    BY <1>1, FirstLessIs
  <1>3. /\ EndsIn(t, Listings, WsOf(path))
        /\ c \in Listings /\ Free(t, Listings) => c \in WsOf(path)
    BY <1>1, LeavesEnd DEF TreeFollows
  <1>4. Free(q, Listings) <=> Free(t, Listings) /\ c \notin Listings
    BY <1>1, LeavesFree
  <1>5. Free(s, ListingsDone) <=> Free(r, ListingsDone) /\ a \notin ListingsDone
    BY <1>1, JoinsFree
  <1>6. /\ c \in Listings <=> a \in ListingsDone
        /\ c \in WsOf(path) <=> a \in WsDoneOf(path)
    BY <1>1, <1>2 DEF Listings, ListingsDone, WsOf, WsDoneOf
  <1>7. ASSUME Free(t, Listings)
        PROVE  /\ EndsIn(s, ListingsDone, WsDoneOf(path))
               /\ Free(s, ListingsDone) => of = path \/ path \notin legible
    <2>1. CASE c \in Listings
      <3>1. a \in WsDoneOf(path)
        BY <1>3, <1>6, <1>7, <2>1
      <3> QED
        BY <1>1, <1>5, <1>6, <2>1, <3>1, JoinsEnd
    <2>2. CASE c \notin Listings
      <3>1. /\ EndsIn(r, ListingsDone, WsDoneOf(path))
            /\ Free(r, ListingsDone) => of = path \/ path \notin legible
        BY <1>4, <1>7, <2>2 DEF TreeFollows
      <3> QED
        BY <1>1, <1>5, <1>6, <2>2, <3>1, JoinsEnd
    <2> QED
      BY <2>1, <2>2
  <1> QED
    BY <1>1, <1>3, <1>7 DEF TreeFollows

(* A call that nobody waits for.                                           *)
LEMMA TreeStays ==
  ASSUME NEW q \in Seq(WsCall), q # <<>>, NEW r, NEW path, NEW of, NEW legible,
         Head(q) \notin Listings, TreeFollows(q, r, path, of, legible)
  PROVE  TreeFollows(Tail(q), r, path, of, legible)
  <1>1. EndsIn(Tail(q), Listings, WsOf(path))
    BY LeavesEnd DEF TreeFollows
  <1>2. Free(q, Listings) <=> Free(Tail(q), Listings) /\ Head(q) \notin Listings
    BY LeavesFree
  <1> QED
    BY <1>1, <1>2 DEF TreeFollows

LEMMA TreeIsShown ==
  ASSUME NEW q, NEW r \in Seq(WsAnswer), r # <<>>, NEW path, NEW of, NEW legible, NEW now,
         TreeFollows(q, r, path, of, legible),
         Head(r) \in ListingsDone => now = Head(r).dir \/ Head(r).dir \notin legible,
         Head(r) \notin ListingsDone => now = of
  PROVE  TreeFollows(q, Tail(r), path, now, legible)
  <1>1. PICK a, t : a = Head(r) /\ t = Tail(r)
    OBVIOUS
  <1>2. ASSUME Free(q, Listings)
        PROVE  /\ EndsIn(t, ListingsDone, WsDoneOf(path))
               /\ Free(t, ListingsDone) => now = path \/ path \notin legible
    <2>1. /\ EndsIn(r, ListingsDone, WsDoneOf(path))
          /\ Free(r, ListingsDone) => of = path \/ path \notin legible
      BY <1>2 DEF TreeFollows
    <2>2. /\ EndsIn(t, ListingsDone, WsDoneOf(path))
          /\ a \in ListingsDone /\ Free(t, ListingsDone) => a \in WsDoneOf(path)
      BY <1>1, <2>1, LeavesEnd
    <2>3. Free(r, ListingsDone) <=> Free(t, ListingsDone) /\ a \notin ListingsDone
      BY <1>1, LeavesFree
    <2> QED
      BY <1>1, <2>1, <2>2, <2>3 DEF WsDoneOf
  <1> QED
    BY <1>1, <1>2 DEF TreeFollows

(* The context is harvested of the active repository: the newest           *)
(* activation is its, asked for or answered, or else the newest harvest.   *)
ContextFollows(q, r, repo, root) ==
  /\ EndsIn(q, Activations, WsOf(repo))
  /\ Free(q, Activations) =>
       /\ EndsIn(r, ActivationsDone, WsDoneOf(repo))
       /\ Free(r, ActivationsDone) =>
            /\ EndsIn(q, Refreshes, WsOf(repo))
            /\ Free(q, Refreshes) => root = repo

LEMMA ContextGoesOn ==
  ASSUME NEW q \in Seq(WsCall), NEW r, NEW repo, NEW root, NEW c \in WsCall,
         ContextFollows(q, r, repo, root), c \notin Activations, c \in Refreshes => c.dir = repo
  PROVE  ContextFollows(Append(q, c), r, repo, root)
  <1>1. EndsIn(Append(q, c), Activations, WsOf(repo))
    BY JoinsEnd DEF ContextFollows
  <1>2. Free(Append(q, c), Activations) <=> Free(q, Activations) /\ c \notin Activations
    BY JoinsFree
  <1>3. Free(Append(q, c), Refreshes) <=> Free(q, Refreshes) /\ c \notin Refreshes
    BY JoinsFree
  <1>4. c \in Refreshes => c \in WsOf(repo)
    BY DEF WsOf
  <1>5. EndsIn(q, Refreshes, WsOf(repo)) => EndsIn(Append(q, c), Refreshes, WsOf(repo))
    BY <1>4, JoinsEnd
  <1> QED
    BY <1>1, <1>2, <1>3, <1>5 DEF ContextFollows

LEMMA ContextIsAsked ==
  ASSUME NEW q \in Seq(WsCall), NEW r, NEW root, NEW c \in WsCall, c \in Activations
  PROVE  ContextFollows(Append(q, c), r, c.dir, root)
  <1>1. PICK d : d = c.dir
    OBVIOUS
  <1>2. c \in WsOf(d)
    BY <1>1 DEF WsOf
  <1>3. EndsIn(Append(q, c), Activations, WsOf(d))
    BY <1>2, JoinsEnd
  <1>4. ~Free(Append(q, c), Activations)
    BY JoinsFree
  <1> QED
    BY <1>1, <1>3, <1>4 DEF ContextFollows

LEMMA ContextIsListed ==
  ASSUME NEW q \in Seq(WsCall), q # <<>>, NEW r \in Seq(WsAnswer), NEW repo, NEW root,
         NEW a \in WsAnswer, a.op = Head(q).op, a.dir = Head(q).dir, a.who = Head(q).who,
         Head(q) \notin Refreshes, ContextFollows(q, r, repo, root)
  PROVE  ContextFollows(Tail(q), Append(r, a), repo, root)
  <1>1. PICK c, t, s : c = Head(q) /\ t = Tail(q) /\ s = Append(r, a)
    OBVIOUS
  <1>2. c \in WsCall
    BY <1>1, FirstLessIs
  <1>3. /\ EndsIn(t, Activations, WsOf(repo))
        /\ c \in Activations /\ Free(t, Activations) => c \in WsOf(repo)
    BY <1>1, LeavesEnd DEF ContextFollows
  <1>4. Free(q, Activations) <=> Free(t, Activations) /\ c \notin Activations
    BY <1>1, LeavesFree
  <1>5. Free(s, ActivationsDone) <=> Free(r, ActivationsDone) /\ a \notin ActivationsDone
    BY <1>1, JoinsFree
  <1>6. Free(q, Refreshes) <=> Free(t, Refreshes) /\ c \notin Refreshes
    BY <1>1, LeavesFree
  <1>7. EndsIn(q, Refreshes, WsOf(repo)) => EndsIn(t, Refreshes, WsOf(repo))
    BY <1>1, LeavesEnd
  <1>8. /\ c \in Activations <=> a \in ActivationsDone
        /\ c \in WsOf(repo) <=> a \in WsDoneOf(repo)
    BY <1>1, <1>2 DEF Activations, ActivationsDone, WsOf, WsDoneOf
  <1>9. ASSUME Free(t, Activations)
        PROVE  /\ EndsIn(s, ActivationsDone, WsDoneOf(repo))
               /\ Free(s, ActivationsDone) =>
                    /\ EndsIn(t, Refreshes, WsOf(repo))
                    /\ Free(t, Refreshes) => root = repo
    <2>1. CASE c \in Activations
      <3>1. a \in WsDoneOf(repo)
        BY <1>3, <1>8, <1>9, <2>1
      <3> QED
        BY <1>1, <1>5, <1>8, <2>1, <3>1, JoinsEnd
    <2>2. CASE c \notin Activations
      <3>1. /\ EndsIn(r, ActivationsDone, WsDoneOf(repo))
            /\ Free(r, ActivationsDone) =>
                 /\ EndsIn(q, Refreshes, WsOf(repo))
                 /\ Free(q, Refreshes) => root = repo
        BY <1>4, <1>9, <2>2 DEF ContextFollows
      <3>2. EndsIn(s, ActivationsDone, WsDoneOf(repo))
        BY <1>1, <1>8, <2>2, <3>1, JoinsEnd
      <3> QED
        BY <1>1, <1>5, <1>6, <1>7, <3>1, <3>2
    <2> QED
      BY <2>1, <2>2
  <1> QED
    BY <1>1, <1>3, <1>9 DEF ContextFollows

LEMMA ContextIsHarvested ==
  ASSUME NEW q \in Seq(WsCall), q # <<>>, NEW r, NEW repo, NEW root, Head(q) \in Refreshes,
         ContextFollows(q, r, repo, root)
  PROVE  ContextFollows(Tail(q), r, repo, Head(q).dir)
  <1>1. PICK c, t : c = Head(q) /\ t = Tail(q)
    OBVIOUS
  <1>2. EndsIn(t, Activations, WsOf(repo))
    BY <1>1, LeavesEnd DEF ContextFollows
  <1>3. c \notin Activations
    BY <1>1 DEF Activations, Refreshes
  <1>4. Free(q, Activations) <=> Free(t, Activations)
    BY <1>1, <1>3, LeavesFree
  <1>5. EndsIn(q, Refreshes, WsOf(repo)) =>
          /\ EndsIn(t, Refreshes, WsOf(repo))
          /\ Free(t, Refreshes) => c \in WsOf(repo)
    BY <1>1, LeavesEnd
  <1>6. c \in WsOf(repo) => c.dir = repo
    BY DEF WsOf
  <1> QED
    BY <1>1, <1>2, <1>4, <1>5, <1>6 DEF ContextFollows

(* An answer that is no activation's.                                      *)
LEMMA ContextStays ==
  ASSUME NEW q, NEW r \in Seq(WsAnswer), r # <<>>, NEW repo, NEW root,
         Head(r) \notin ActivationsDone, ContextFollows(q, r, repo, root)
  PROVE  ContextFollows(q, Tail(r), repo, root)
  <1>1. EndsIn(r, ActivationsDone, WsDoneOf(repo)) => EndsIn(Tail(r), ActivationsDone, WsDoneOf(repo))
    BY LeavesEnd
  <1>2. Free(r, ActivationsDone) <=> Free(Tail(r), ActivationsDone)
    BY LeavesFree
  <1> QED
    BY <1>1, <1>2 DEF ContextFollows

(* The activation's answer, on which the harvest is asked for.             *)
LEMMA ContextIsOrdered ==
  ASSUME NEW q \in Seq(WsCall), NEW r \in Seq(WsAnswer), r # <<>>, NEW repo, NEW root,
         Head(r) \in ActivationsDone, ContextFollows(q, r, repo, root),
         NEW c \in WsCall, c \in Refreshes, c.dir = Head(r).dir
  PROVE  ContextFollows(Append(q, c), Tail(r), repo, root)
  <1>1. PICK a, t, s : a = Head(r) /\ t = Tail(r) /\ s = Append(q, c)
    OBVIOUS
  <1>2. c \notin Activations
    BY DEF Activations, Refreshes
  <1>3. EndsIn(s, Activations, WsOf(repo))
    BY <1>1, <1>2, JoinsEnd DEF ContextFollows
  <1>4. Free(s, Activations) <=> Free(q, Activations)
    BY <1>1, <1>2, JoinsFree
  <1>5. ~Free(s, Refreshes)
    BY <1>1, JoinsFree
  <1>6. ASSUME Free(q, Activations)
        PROVE  /\ EndsIn(t, ActivationsDone, WsDoneOf(repo))
               /\ Free(t, ActivationsDone) => EndsIn(s, Refreshes, WsOf(repo))
    <2>1. EndsIn(r, ActivationsDone, WsDoneOf(repo))
      BY <1>6 DEF ContextFollows
    <2>2. /\ EndsIn(t, ActivationsDone, WsDoneOf(repo))
          /\ Free(t, ActivationsDone) => a \in WsDoneOf(repo)
      BY <1>1, <2>1, LeavesEnd
    <2>3. ASSUME a \in WsDoneOf(repo)
          PROVE  EndsIn(s, Refreshes, WsOf(repo))
      <3>1. c \in WsOf(repo)
        BY <1>1, <2>3 DEF WsOf, WsDoneOf
      <3> QED
        BY <1>1, <3>1, JoinsEnd
    <2> QED
      BY <2>2, <2>3
  <1> QED
    BY <1>1, <1>3, <1>4, <1>5, <1>6 DEF ContextFollows

(* What changes the list of sessions: one at a time, and with the list and *)
(* the table as they are when its call joined the queue.                   *)
Changes == {c \in WsCall : c.op \in {"create", "delete", "sessions"}}
ChangesDone == {a \in WsAnswer : a.op \in {"create", "delete", "sessions"}}

ChangesOn(s, t, act) ==
  {c \in WsCall :
     /\ c.op = "sessions" => s = {} /\ act = 0
     /\ c.op # "sessions" => c.known = s /\ s = t
     /\ c.op = "delete" => act \in {c.current, 0} /\ c.current \in s \cup {0}}

ChangesDoneOn(s, t, act) ==
  {a \in WsAnswer :
     /\ a.op = "sessions" => s = {} /\ act = 0 /\ a.known = t
     /\ a.op = "create" => a.known \cup {a.id} = t
     /\ a.op = "delete" =>
          a.known \ {a.id} = t /\ act \in {a.current, 0} /\ a.current \in a.known \cup {0}}

SessionsFollow(q, r, s, t, act) ==
  \/ Free(q, Changes) /\ Free(r, ChangesDone) /\ s = t /\ act \in s \cup {0}
  \/ HasOne(q, Changes, ChangesOn(s, t, act)) /\ Free(r, ChangesDone)
  \/ Free(q, Changes) /\ HasOne(r, ChangesDone, ChangesDoneOn(s, t, act))

LEMMA SessionsGoOn ==
  ASSUME NEW q \in Seq(WsCall), NEW r, NEW s, NEW t, NEW act, NEW c \in WsCall, c \notin Changes,
         SessionsFollow(q, r, s, t, act)
  PROVE  SessionsFollow(Append(q, c), r, s, t, act)
  <1>1. Free(q, Changes) => Free(Append(q, c), Changes)
    BY JoinsFree
  <1>2. HasOne(q, Changes, ChangesOn(s, t, act)) => HasOne(Append(q, c), Changes, ChangesOn(s, t, act))
    BY JoinsOne
  <1> QED
    BY <1>1, <1>2 DEF SessionsFollow

(* With none under way a change begins.                                    *)
LEMMA SessionsAreToChange ==
  ASSUME NEW q \in Seq(WsCall), NEW r, NEW s, NEW t, NEW act, NEW c \in WsCall,
         c.op \in {"create", "delete"}, c.known = s, c.current = act,
         Free(q, Changes), Free(r, ChangesDone), SessionsFollow(q, r, s, t, act)
  PROVE  SessionsFollow(Append(q, c), r, s, t, act)
  <1>1. s = t /\ act \in s \cup {0}
    BY DEF SessionsFollow, HasOne, Free
  <1>2. c \in Changes
    BY DEF Changes
  <1>3. c \in ChangesOn(s, t, act)
    BY <1>1 DEF ChangesOn
  <1>4. HasOne(Append(q, c), Changes, ChangesOn(s, t, act))
    BY <1>2, <1>3, JoinsOne
  <1> QED
    BY <1>4 DEF SessionsFollow

(* Another call is handled, with or without an answer.                     *)
LEMMA SessionsStay ==
  ASSUME NEW q \in Seq(WsCall), q # <<>>, NEW r \in Seq(WsAnswer), NEW s, NEW t, NEW act,
         Head(q) \notin Changes, SessionsFollow(q, r, s, t, act)
  PROVE  /\ SessionsFollow(Tail(q), r, s, t, act)
         /\ \A a \in WsAnswer : a.op = Head(q).op => SessionsFollow(Tail(q), Append(r, a), s, t, act)
  <1>1. PICK c, k : c = Head(q) /\ k = Tail(q)
    OBVIOUS
  <1>2. c \in WsCall
    BY <1>1, FirstLessIs
  <1>3. Free(q, Changes) => Free(k, Changes)
    BY <1>1, LeavesFree
  <1>4. HasOne(q, Changes, ChangesOn(s, t, act)) => HasOne(k, Changes, ChangesOn(s, t, act))
    BY <1>1, LeavesOne
  <1>5. SessionsFollow(k, r, s, t, act)
    BY <1>3, <1>4 DEF SessionsFollow
  <1>6. ASSUME NEW a \in WsAnswer, a.op = c.op
        PROVE  SessionsFollow(k, Append(r, a), s, t, act)
    <2>1. a \notin ChangesDone
      BY <1>1, <1>2, <1>6 DEF Changes, ChangesDone
    <2>2. Free(r, ChangesDone) => Free(Append(r, a), ChangesDone)
      BY <2>1, JoinsFree
    <2>3. HasOne(r, ChangesDone, ChangesDoneOn(s, t, act))
            => HasOne(Append(r, a), ChangesDone, ChangesDoneOn(s, t, act))
      BY <2>1, JoinsOne
    <2> QED
      BY <1>3, <1>4, <2>2, <2>3 DEF SessionsFollow
  <1> QED
    BY <1>1, <1>5, <1>6

(* A change of the table is handled.                                       *)
LEMMA SessionsAreChanged ==
  ASSUME NEW q \in Seq(WsCall), q # <<>>, NEW r \in Seq(WsAnswer), NEW s, NEW t, NEW act,
         Head(q) \in Changes, SessionsFollow(q, r, s, t, act), NEW a \in WsAnswer, NEW now,
         a.op = Head(q).op, a.current = Head(q).current,
         a.op = "sessions" => a.known = t /\ now = t,
         a.op = "create" => a.known = Head(q).known /\ now = t \cup {a.id},
         a.op = "delete" => a.known = Head(q).known /\ now = t \ {a.id}
  PROVE  SessionsFollow(Tail(q), Append(r, a), s, now, act)
  <1>1. PICK c, k : c = Head(q) /\ k = Tail(q)
    OBVIOUS
  <1>2. c \in WsCall
    BY <1>1, FirstLessIs
  <1>3. ~Free(q, Changes)
    BY <1>1, LeavesFree
  <1>4. HasOne(q, Changes, ChangesOn(s, t, act)) /\ Free(r, ChangesDone)
    BY <1>3 DEF SessionsFollow
  <1>5. c \in ChangesOn(s, t, act) /\ Free(k, Changes)
    BY <1>1, <1>4, LeavesOne
  <1>6. a \in ChangesDone
    BY <1>1 DEF Changes, ChangesDone
  <1>7. a \in ChangesDoneOn(s, now, act)
    BY <1>1, <1>5 DEF ChangesOn, ChangesDoneOn
  <1>8. HasOne(Append(r, a), ChangesDone, ChangesDoneOn(s, now, act))
    BY <1>4, <1>6, <1>7, JoinsOne
  <1> QED
    BY <1>1, <1>5, <1>8 DEF SessionsFollow

(* The panel that asked for it writes its list.                            *)
LEMMA SessionsAreShown ==
  ASSUME NEW q, NEW r \in Seq(WsAnswer), r # <<>>, NEW s, NEW t, NEW act,
         Head(r) \in ChangesDone, SessionsFollow(q, r, s, t, act), NEW now, NEW nowAct,
         Head(r).op = "sessions" => now = Head(r).known /\ nowAct = act,
         Head(r).op = "create" => now = Head(r).known \cup {Head(r).id} /\ nowAct = Head(r).id,
         Head(r).op = "delete" => /\ now = Head(r).known \ {Head(r).id}
                                  /\ nowAct = IF Head(r).current = Head(r).id THEN 0 ELSE act
  PROVE  SessionsFollow(q, Tail(r), now, t, nowAct)
  <1>1. PICK a, k : a = Head(r) /\ k = Tail(r)
    OBVIOUS
  <1>2. ~Free(r, ChangesDone)
    BY <1>1, LeavesFree
  <1>3. Free(q, Changes) /\ HasOne(r, ChangesDone, ChangesDoneOn(s, t, act))
    BY <1>2 DEF SessionsFollow
  <1>4. a \in ChangesDoneOn(s, t, act) /\ Free(k, ChangesDone)
    BY <1>1, <1>3, LeavesOne
  <1>5. a.op \in {"create", "delete", "sessions"}
    BY <1>1 DEF ChangesDone
  <1>6. now = t /\ nowAct \in now \cup {0}
    <2>1. CASE a.op = "sessions"
      BY <1>1, <1>4, <2>1 DEF ChangesDoneOn
    <2>2. CASE a.op = "create"
      BY <1>1, <1>4, <2>2 DEF ChangesDoneOn
    <2>3. CASE a.op = "delete"
      BY <1>1, <1>4, <2>3 DEF ChangesDoneOn
    <2> QED
      BY <1>5, <2>1, <2>2, <2>3
  <1> QED
    BY <1>1, <1>3, <1>4, <1>6 DEF SessionsFollow

LEMMA SessionsWait ==
  ASSUME NEW q, NEW r \in Seq(WsAnswer), r # <<>>, NEW s, NEW t, NEW act,
         Head(r) \notin ChangesDone, SessionsFollow(q, r, s, t, act)
  PROVE  SessionsFollow(q, Tail(r), s, t, act)
  <1>1. Free(r, ChangesDone) => Free(Tail(r), ChangesDone)
    BY LeavesFree
  <1>2. HasOne(r, ChangesDone, ChangesDoneOn(s, t, act)) => HasOne(Tail(r), ChangesDone, ChangesDoneOn(s, t, act))
    BY LeavesOne
  <1> QED
    BY <1>1, <1>2 DEF SessionsFollow

(* No session is active, or another one, while none is being deleted.      *)
LEMMA SessionIsLeft ==
  ASSUME NEW q, NEW r, NEW s, NEW t, NEW act, SessionsFollow(q, r, s, t, act)
  PROVE  SessionsFollow(q, r, s, t, 0)
  <1>1. /\ ChangesOn(s, t, act) \subseteq ChangesOn(s, t, 0)
        /\ ChangesDoneOn(s, t, act) \subseteq ChangesDoneOn(s, t, 0)
    BY DEF ChangesOn, ChangesDoneOn
  <1> QED
    BY <1>1 DEF SessionsFollow, HasOne

LEMMA SessionIsChosen ==
  ASSUME NEW q, NEW r, NEW s, NEW t, NEW act, NEW id \in s, SessionsFollow(q, r, s, t, act),
         Free(q, {c \in WsCall : c.op = "delete"}), Free(r, {a \in WsAnswer : a.op = "delete"})
  PROVE  SessionsFollow(q, r, s, t, id)
  <1>1. ASSUME NEW i \in DOMAIN q, q[i] \in ChangesOn(s, t, act)
        PROVE  q[i] \in ChangesOn(s, t, id)
    BY <1>1 DEF ChangesOn, Free
  <1>2. ASSUME NEW i \in DOMAIN r, r[i] \in ChangesDoneOn(s, t, act)
        PROVE  r[i] \in ChangesDoneOn(s, t, id)
    BY <1>2 DEF ChangesDoneOn, Free
  <1> QED
    BY <1>1, <1>2 DEF SessionsFollow, HasOne

(* Sessions that are named exist.                                          *)
WsBeyond(n) ==
  {c \in WsCall : \/ ~(c.known \subseteq 1 .. n) \/ c.current \notin 0 .. n
                  \/ c.op = "messages" /\ c.id \notin 1 .. n}
WsDoneBeyond(n) ==
  {a \in WsAnswer : \/ ~(a.known \subseteq 1 .. n) \/ a.current \notin 0 .. n
                    \/ a.op \in {"messages", "create"} /\ a.id \notin 1 .. n}

(* A listing fails if the directory cannot be read.                        *)
WsMistold(legible) ==
  {a \in WsAnswer : a.op = "list" /\ ((a.ok /\ a.dir \notin legible) \/ (~a.ok /\ a.dir \in legible))}

WsTyped ==
  /\ readable \subseteq Dirs /\ repos \subseteq Dirs
  /\ activeRepo \in AllDirs /\ repoPath \in AllDirs /\ cachedRoot \in AllDirs
  /\ tree \in [of : AllDirs, below : BOOLEAN]
  /\ created \in Seq(AllDirs)
  /\ stored \subseteq 1 .. Len(created) /\ sessions \subseteq 1 .. Len(created)
  /\ activeSession \in 0 .. Len(created)
  /\ strayed \in BOOLEAN /\ overlapped \in BOOLEAN
  /\ wsCalls \in Seq(WsCall) /\ wsAnswers \in Seq(WsAnswer)
  /\ Free(wsCalls, WsBeyond(Len(created))) /\ Free(wsAnswers, WsDoneBeyond(Len(created)))
  /\ Free(wsAnswers, WsMistold(readable))

WorkspaceInv ==
  /\ WsTyped
  /\ ~strayed => TreeFollows(wsCalls, wsAnswers, repoPath, tree.of, readable)
  /\ activeRepo # NoDir => ContextFollows(wsCalls, wsAnswers, activeRepo, cachedRoot)
  /\ ~overlapped => SessionsFollow(wsCalls, wsAnswers, sessions, stored, activeSession)

LEMMA AskIs ==
  ASSUME WsTyped, NEW op \in WsOps, NEW dir \in AllDirs, NEW id \in Nat, NEW who \in WsWho,
         op = "list" => dir \in Dirs, (op = "scan" /\ who = "browse") => dir \in Dirs,
         op = "messages" => id \in 1 .. Len(created), NEW c, c = Ask(op, dir, id, who)
  PROVE  /\ c \in WsCall /\ c \notin WsBeyond(Len(created))
         /\ c.op = op /\ c.dir = dir /\ c.id = id /\ c.who = who
         /\ c.known = sessions /\ c.current = activeSession
  <1>1. /\ c.op = op /\ c.dir = dir /\ c.id = id /\ c.who = who
        /\ c.known = sessions /\ c.current = activeSession
    BY DEF Ask
  <1>2. Len(created) \in Nat /\ sessions \subseteq 1 .. Len(created) /\ activeSession \in 0 .. Len(created)
    BY DEF WsTyped
  <1>3. sessions \in SUBSET Nat /\ activeSession \in Nat
    BY <1>2
  <1>4. c \in [op : WsOps, dir : AllDirs, id : Nat, who : WsWho, known : SUBSET Nat, current : Nat]
    BY <1>3 DEF Ask
  <1>5. c \in WsCall
    BY <1>1, <1>4 DEF WsCall, NamesADir
  <1> QED
    BY <1>1, <1>2, <1>5 DEF WsBeyond

LEMMA CallJoinsTyped ==
  ASSUME WsTyped, NEW c \in WsCall, c \notin WsBeyond(Len(created)),
         wsCalls' = Append(wsCalls, c),
         UNCHANGED <<readable, tree, created, stored, cachedRoot, sessions, wsAnswers>>,
         repos' \subseteq Dirs, activeRepo' \in AllDirs, repoPath' \in AllDirs,
         activeSession' \in 0 .. Len(created), strayed' \in BOOLEAN, overlapped' \in BOOLEAN
  PROVE  WsTyped'
  <1>1. wsCalls' \in Seq(WsCall)
    BY OneMoreIs DEF WsTyped
  <1>2. Free(wsCalls', WsBeyond(Len(created)))
    BY JoinsFree DEF WsTyped
  <1> QED
    BY <1>1, <1>2 DEF WsTyped

(* A call that neither lists nor changes the sessions joins the queue.     *)
LEMMA OtherCallJoins ==
  ASSUME WorkspaceInv, NEW c \in WsCall, c \notin WsBeyond(Len(created)),
         wsCalls' = Append(wsCalls, c), c \notin Listings, c \notin Changes,
         c \in Refreshes => c.dir = activeRepo,
         UNCHANGED <<readable, repos, activeRepo, repoPath, tree, created, stored, cachedRoot,
                     sessions, activeSession, strayed, overlapped, wsAnswers>>
  PROVE  WorkspaceInv'
  <1> USE DEF WorkspaceInv
  <1>1. WsTyped'
    BY CallJoinsTyped DEF WsTyped
  <1>2. wsCalls \in Seq(WsCall) /\ c \notin Activations
    BY DEF WsTyped, Listings, Activations
  <1>3. ~strayed => TreeFollows(wsCalls', wsAnswers, repoPath, tree.of, readable)
    BY <1>2, TreeGoesOn
  <1>4. activeRepo # NoDir => ContextFollows(wsCalls', wsAnswers, activeRepo, cachedRoot)
    BY <1>2, ContextGoesOn
  <1>5. ~overlapped => SessionsFollow(wsCalls', wsAnswers, sessions, stored, activeSession)
    BY <1>2, SessionsGoOn
  <1> QED
    BY <1>1, <1>3, <1>4, <1>5

(* A listing of the path joins it, or one of another path once strayed.    *)
LEMMA ListingJoins ==
  ASSUME WorkspaceInv, NEW c \in WsCall, c \notin WsBeyond(Len(created)),
         wsCalls' = Append(wsCalls, c), c \in Listings, c.who # "activate",
         repoPath' \in AllDirs, strayed' \in BOOLEAN, ~strayed' => repoPath' = c.dir,
         UNCHANGED <<readable, repos, activeRepo, tree, created, stored, cachedRoot,
                     sessions, activeSession, overlapped, wsAnswers>>
  PROVE  WorkspaceInv'
  <1> USE DEF WorkspaceInv
  <1>1. WsTyped'
    BY CallJoinsTyped DEF WsTyped
  <1>2. wsCalls \in Seq(WsCall) /\ c \notin Activations /\ c \notin Refreshes /\ c \notin Changes
    BY DEF WsTyped, Listings, Activations, Refreshes, Changes
  <1>3. TreeFollows(wsCalls', wsAnswers, c.dir, tree.of, readable)
    BY <1>2, TreeIsAsked
  <1>4. activeRepo # NoDir => ContextFollows(wsCalls', wsAnswers, activeRepo, cachedRoot)
    BY <1>2, ContextGoesOn
  <1>5. ~overlapped => SessionsFollow(wsCalls', wsAnswers, sessions, stored, activeSession)
    BY <1>2, SessionsGoOn
  <1> QED
    BY <1>1, <1>3, <1>4, <1>5

(* A repository is activated: selected, or found by an answer, which then  *)
(* left the queue of answers.                                              *)
LEMMA ActivationJoins ==
  ASSUME WorkspaceInv, NEW d \in Dirs, ActivateRepo(d), repos' \subseteq Dirs,
         wsAnswers' = wsAnswers \/ /\ wsAnswers # <<>> /\ wsAnswers' = Tail(wsAnswers)
                                   /\ Head(wsAnswers) \notin ChangesDone,
         UNCHANGED <<readable, tree, created, stored, cachedRoot, sessions, activeSession, overlapped>>
  PROVE  WorkspaceInv'
  <1> USE DEF WorkspaceInv
  <1>1. PICK c : c = Ask("list", d, 0, "activate")
    OBVIOUS
  <1>2. "list" \in WsOps /\ "activate" \in WsWho /\ d \in AllDirs
    BY DEF WsOps, WsWho, AllDirs
  <1>3. /\ c \in WsCall /\ c \notin WsBeyond(Len(created))
        /\ c.op = "list" /\ c.dir = d /\ c.who = "activate"
    BY <1>1, <1>2, AskIs
  <1>4. /\ activeRepo' = d /\ repoPath' = d /\ strayed' = FALSE
        /\ wsCalls' = Append(wsCalls, c)
    BY <1>1 DEF ActivateRepo, SetPath
  <1>5. /\ wsCalls \in Seq(WsCall) /\ wsAnswers \in Seq(WsAnswer)
        /\ c \in Listings /\ c \in Activations /\ c \notin Changes
    BY <1>3 DEF WsTyped, Listings, Activations, Changes
  <1>6. wsCalls' \in Seq(WsCall) /\ Free(wsCalls', WsBeyond(Len(created)))
    BY <1>3, <1>4, <1>5, OneMoreIs, JoinsFree DEF WsTyped
  <1>7. /\ wsAnswers' \in Seq(WsAnswer)
        /\ Free(wsAnswers', WsDoneBeyond(Len(created))) /\ Free(wsAnswers', WsMistold(readable))
    <2>1. CASE wsAnswers' = wsAnswers
      BY <1>5, <2>1 DEF WsTyped
    <2>2. CASE wsAnswers # <<>> /\ wsAnswers' = Tail(wsAnswers)
      <3>1. \A L : Free(wsAnswers, L) => Free(wsAnswers', L)
        BY <1>5, <2>2, LeavesFree
      <3>2. wsAnswers' \in Seq(WsAnswer)
        BY <1>5, <2>2, FirstLessIs
      <3> QED
        BY <3>1, <3>2 DEF WsTyped
    <2> QED
      BY <2>1, <2>2
  <1>8. WsTyped'
    BY <1>2, <1>4, <1>6, <1>7 DEF WsTyped
  <1>9. TreeFollows(wsCalls', wsAnswers', c.dir, tree.of, readable)
    BY <1>3, <1>4, <1>5, TreeIsAsked
  <1>10. ContextFollows(wsCalls', wsAnswers', c.dir, cachedRoot)
    BY <1>3, <1>4, <1>5, ContextIsAsked
  <1>11. ~overlapped => SessionsFollow(wsCalls, wsAnswers', sessions, stored, activeSession)
    BY <1>5, SessionsWait
  <1>12. ~overlapped => SessionsFollow(wsCalls', wsAnswers', sessions, stored, activeSession)
    BY <1>3, <1>4, <1>5, <1>11, SessionsGoOn
  <1> QED
    BY <1>3, <1>4, <1>8, <1>9, <1>10, <1>12

LEMMA SelectsRepo ==
  ASSUME WorkspaceInv, NEW d \in Dirs, SelectRepo(d)
  PROVE  WorkspaceInv'
  <1>1. /\ ActivateRepo(d)
        /\ UNCHANGED <<readable, repos, tree, created, stored, cachedRoot, sessions, activeSession,
                       overlapped, wsAnswers>>
    BY DEF SelectRepo, sessionVars, dbVars
  <1>2. repos' \subseteq Dirs
    BY <1>1 DEF WorkspaceInv, WsTyped
  <1> QED
    BY <1>1, <1>2, ActivationJoins

LEMMA WsNames ==
  /\ {"list", "scan", "refresh", "create", "delete", "sessions", "messages"} \subseteq WsOps
  /\ {"load", "scan", "activate", "browse", "pick", "click", "mount", "new", "select", "delete"} \subseteq WsWho
  /\ Dirs \subseteq AllDirs /\ NoDir \in AllDirs /\ Roots \in Nat
  BY WorkspaceBounds DEF WsOps, WsWho, AllDirs

LEMMA Browses ==
  ASSUME WorkspaceInv, NEW d \in Dirs, Browse(d)
  PROVE  WorkspaceInv'
  <1>1. PICK c : c = Ask("scan", d, 0, "browse")
    OBVIOUS
  <1>2. c \in WsCall /\ c \notin WsBeyond(Len(created)) /\ c.op = "scan"
    BY <1>1, WsNames, AskIs DEF WorkspaceInv
  <1>3. c \notin Listings /\ c \notin Changes /\ c \notin Refreshes
    BY <1>2 DEF Listings, Changes, Refreshes
  <1>4. /\ wsCalls' = Append(wsCalls, c)
        /\ UNCHANGED <<readable, repos, activeRepo, repoPath, tree, created, stored, cachedRoot,
                       sessions, activeSession, strayed, overlapped, wsAnswers>>
    BY <1>1 DEF Browse, storeVars, sessionVars, dbVars
  <1> QED
    BY <1>2, <1>3, <1>4, OtherCallJoins

LEMMA PicksRepo ==
  ASSUME WorkspaceInv, NEW d \in Dirs, PickRepo(d)
  PROVE  WorkspaceInv'
  <1>1. PICK c : c = Ask("list", d, 0, "pick")
    OBVIOUS
  <1>2. /\ c \in WsCall /\ c \notin WsBeyond(Len(created)) /\ c.op = "list" /\ c.dir = d
        /\ c.who # "activate"
    BY <1>1, WsNames, AskIs DEF WorkspaceInv
  <1>3. c \in Listings
    BY <1>2 DEF Listings
  <1>4. /\ wsCalls' = Append(wsCalls, c) /\ repoPath' = d /\ strayed' = FALSE
        /\ UNCHANGED <<readable, repos, activeRepo, tree, created, stored, cachedRoot,
                       sessions, activeSession, overlapped, wsAnswers>>
    BY <1>1 DEF PickRepo, SetPath, sessionVars, dbVars
  <1>5. repoPath' \in AllDirs /\ strayed' \in BOOLEAN
    BY <1>4, WsNames
  <1> QED
    BY <1>2, <1>3, <1>4, <1>5, ListingJoins

LEMMA ClicksDirectory ==
  ASSUME WorkspaceInv, ClickDirectory
  PROVE  WorkspaceInv'
  <1>1. PICK d \in Dirs : d = tree.of
    BY DEF ClickDirectory, WorkspaceInv, WsTyped, AllDirs
  <1>2. PICK c : c = Ask("list", d, 0, "click")
    OBVIOUS
  <1>3. /\ c \in WsCall /\ c \notin WsBeyond(Len(created)) /\ c.op = "list" /\ c.dir = d
        /\ c.who # "activate"
    BY <1>2, WsNames, AskIs DEF WorkspaceInv
  <1>4. c \in Listings
    BY <1>3 DEF Listings
  <1>5. /\ wsCalls' = Append(wsCalls, c) /\ strayed' = (strayed \/ d # repoPath)
        /\ UNCHANGED <<readable, repos, activeRepo, repoPath, tree, created, stored, cachedRoot,
                       sessions, activeSession, overlapped, wsAnswers>>
    BY <1>1, <1>2 DEF ClickDirectory, sessionVars, dbVars
  <1>6. repoPath' \in AllDirs /\ strayed' \in BOOLEAN /\ (~strayed' => repoPath' = c.dir)
    BY <1>3, <1>5 DEF WorkspaceInv, WsTyped
  <1> QED
    BY <1>3, <1>4, <1>5, <1>6, ListingJoins

(* A change of the sessions is asked for.                                  *)
LEMMA ChangeIsAsked ==
  ASSUME WorkspaceInv, NEW c \in WsCall, c \notin WsBeyond(Len(created)),
         c.op \in {"create", "delete"}, c.known = sessions, c.current = activeSession,
         wsCalls' = Append(wsCalls, c),
         overlapped' = (overlapped \/ Pending({"create", "delete", "sessions"})),
         UNCHANGED <<readable, storeVars, sessionVars, dbVars, wsAnswers>>
  PROVE  WorkspaceInv'
  <1> USE DEF WorkspaceInv
  <1>1. UNCHANGED <<readable, repos, activeRepo, repoPath, tree, created, stored, cachedRoot,
                    sessions, activeSession, strayed, wsAnswers>>
    BY DEF storeVars, sessionVars, dbVars
  <1>2. c \notin Listings /\ c \notin Activations /\ c \notin Refreshes
    BY DEF Listings, Activations, Refreshes
  <1>3. wsCalls \in Seq(WsCall) /\ overlapped' \in BOOLEAN
    BY DEF WsTyped, Pending
  <1>4. WsTyped'
    BY <1>1, <1>3, CallJoinsTyped DEF WsTyped
  <1>5. ~strayed => TreeFollows(wsCalls', wsAnswers, repoPath, tree.of, readable)
    BY <1>2, <1>3, TreeGoesOn
  <1>6. activeRepo # NoDir => ContextFollows(wsCalls', wsAnswers, activeRepo, cachedRoot)
    BY <1>2, <1>3, ContextGoesOn
  <1>7. ASSUME ~overlapped'
        PROVE  SessionsFollow(wsCalls', wsAnswers, sessions, stored, activeSession)
    <2>1. Free(wsCalls, Changes) /\ Free(wsAnswers, ChangesDone) /\ ~overlapped
      BY <1>7 DEF Pending, Free, Changes, ChangesDone
    <2> QED
      BY <1>3, <2>1, SessionsAreToChange
  <1> QED
    BY <1>1, <1>4, <1>5, <1>6, <1>7

LEMMA CreatesSession ==
  ASSUME WorkspaceInv, NEW d \in AllDirs, NewSession(d)
  PROVE  WorkspaceInv'
  <1>1. PICK c : c = Ask("create", d, 0, "new")
    OBVIOUS
  <1>2. /\ c \in WsCall /\ c \notin WsBeyond(Len(created)) /\ c.op = "create"
        /\ c.known = sessions /\ c.current = activeSession
    BY <1>1, WsNames, AskIs DEF WorkspaceInv
  <1>3. /\ wsCalls' = Append(wsCalls, c)
        /\ overlapped' = (overlapped \/ Pending({"create", "delete", "sessions"}))
        /\ UNCHANGED <<readable, storeVars, sessionVars, dbVars, wsAnswers>>
    BY <1>1 DEF NewSession
  <1> QED
    BY <1>2, <1>3, ChangeIsAsked

LEMMA DeletesSession ==
  ASSUME WorkspaceInv, NEW id \in sessions, DeleteSession(id)
  PROVE  WorkspaceInv'
  <1>1. PICK c : c = Ask("delete", NoDir, id, "delete")
    OBVIOUS
  <1>2. id \in Nat
    BY DEF WorkspaceInv, WsTyped
  <1>3. /\ c \in WsCall /\ c \notin WsBeyond(Len(created)) /\ c.op = "delete"
        /\ c.known = sessions /\ c.current = activeSession
    BY <1>1, <1>2, WsNames, AskIs DEF WorkspaceInv
  <1>4. /\ wsCalls' = Append(wsCalls, c)
        /\ overlapped' = (overlapped \/ Pending({"create", "delete", "sessions"}))
        /\ UNCHANGED <<readable, storeVars, sessionVars, dbVars, wsAnswers>>
    BY <1>1 DEF DeleteSession
  <1> QED
    BY <1>3, <1>4, ChangeIsAsked

LEMMA SelectsSession ==
  ASSUME WorkspaceInv, NEW id \in sessions, SelectSession(id)
  PROVE  WorkspaceInv'
  <1> USE DEF WorkspaceInv
  <1>1. PICK c : c = Ask("messages", NoDir, id, "select")
    OBVIOUS
  <1>2. id \in 1 .. Len(created) /\ id \in Nat /\ id \in 0 .. Len(created)
    BY DEF WsTyped
  <1>3. c \in WsCall /\ c \notin WsBeyond(Len(created)) /\ c.op = "messages"
    BY <1>1, <1>2, WsNames, AskIs
  <1>4. c \notin Listings /\ c \notin Activations /\ c \notin Refreshes /\ c \notin Changes
    BY <1>3 DEF Listings, Activations, Refreshes, Changes
  <1>5. /\ wsCalls' = Append(wsCalls, c) /\ activeSession' = id
        /\ overlapped' = (overlapped \/ Pending({"delete"}))
        /\ UNCHANGED <<readable, repos, activeRepo, repoPath, tree, created, stored, cachedRoot,
                       sessions, strayed, wsAnswers>>
    BY <1>1 DEF SelectSession, storeVars, dbVars
  <1>6. wsCalls \in Seq(WsCall) /\ overlapped' \in BOOLEAN
    BY <1>5 DEF WsTyped, Pending
  <1>7. WsTyped'
    BY <1>2, <1>3, <1>5, <1>6, CallJoinsTyped DEF WsTyped
  <1>8. ~strayed => TreeFollows(wsCalls', wsAnswers, repoPath, tree.of, readable)
    BY <1>3, <1>4, <1>5, <1>6, TreeGoesOn
  <1>9. activeRepo # NoDir => ContextFollows(wsCalls', wsAnswers, activeRepo, cachedRoot)
    BY <1>3, <1>4, <1>5, <1>6, ContextGoesOn
  <1>10. ASSUME ~overlapped'
         PROVE  SessionsFollow(wsCalls', wsAnswers, sessions, stored, id)
    <2>1. /\ Free(wsCalls, {e \in WsCall : e.op = "delete"})
          /\ Free(wsAnswers, {a \in WsAnswer : a.op = "delete"}) /\ ~overlapped
      BY <1>5, <1>10 DEF Pending, Free
    <2>2. SessionsFollow(wsCalls, wsAnswers, sessions, stored, id)
      BY <2>1, SessionIsChosen
    <2> QED
      BY <1>3, <1>4, <1>5, <1>6, <2>2, SessionsGoOn
  <1> QED
    BY <1>5, <1>7, <1>8, <1>9, <1>10

(* One call, or two, or none join: what is on its way stays in order.      *)
WsFollows(q) ==
  /\ q \in Seq(WsCall) /\ Free(q, WsBeyond(Len(created)))
  /\ ~strayed => TreeFollows(q, wsAnswers, repoPath, tree.of, readable)
  /\ activeRepo # NoDir => ContextFollows(q, wsAnswers, activeRepo, cachedRoot)
  /\ ~overlapped => SessionsFollow(q, wsAnswers, sessions, stored, activeSession)

LEMMA WsFollowsOn ==
  ASSUME NEW q, WsFollows(q), NEW c \in WsCall, c \notin WsBeyond(Len(created)),
         c \notin Listings, c \notin Changes, c \in Refreshes => c.dir = activeRepo
  PROVE  WsFollows(Append(q, c))
  <1>1. q \in Seq(WsCall) /\ c \notin Activations
    BY DEF WsFollows, Listings, Activations
  <1>2. Append(q, c) \in Seq(WsCall) /\ Free(Append(q, c), WsBeyond(Len(created)))
    BY <1>1, OneMoreIs, JoinsFree DEF WsFollows
  <1>3. ~strayed => TreeFollows(Append(q, c), wsAnswers, repoPath, tree.of, readable)
    BY <1>1, TreeGoesOn DEF WsFollows
  <1>4. activeRepo # NoDir => ContextFollows(Append(q, c), wsAnswers, activeRepo, cachedRoot)
    BY <1>1, ContextGoesOn DEF WsFollows
  <1>5. ~overlapped => SessionsFollow(Append(q, c), wsAnswers, sessions, stored, activeSession)
    BY <1>1, SessionsGoOn DEF WsFollows
  <1> QED
    BY <1>2, <1>3, <1>4, <1>5 DEF WsFollows

LEMMA MountsDropdown ==
  ASSUME WorkspaceInv, MountDropdown
  PROVE  WorkspaceInv'
  <1> USE DEF WorkspaceInv
  <1>1. PICK c1, c2 : c1 = Ask("refresh", activeRepo, 0, "mount") /\ c2 = Ask("scan", NoDir, Roots, "scan")
    OBVIOUS
  <1>2. activeRepo \in AllDirs
    BY DEF WsTyped
  <1>3. c1 \in WsCall /\ c1 \notin WsBeyond(Len(created)) /\ c1.op = "refresh" /\ c1.dir = activeRepo
    BY <1>1, <1>2, WsNames, AskIs
  <1>4. c2 \in WsCall /\ c2 \notin WsBeyond(Len(created)) /\ c2.op = "scan"
    BY <1>1, WsNames, AskIs
  <1>5. /\ c1 \notin Listings /\ c1 \notin Changes
        /\ c2 \notin Listings /\ c2 \notin Changes /\ c2 \notin Refreshes
    BY <1>3, <1>4 DEF Listings, Changes, Refreshes
  <1>6. UNCHANGED <<readable, repos, activeRepo, repoPath, tree, created, stored, cachedRoot,
                    sessions, activeSession, strayed, overlapped, wsAnswers>>
    BY DEF MountDropdown, storeVars, sessionVars, dbVars
  <1>7. PICK p1, p2 : /\ p1 = IF activeRepo # NoDir THEN <<c1>> ELSE <<>>
                      /\ p2 = IF repos = {} THEN <<c2>> ELSE <<>>
    OBVIOUS
  <1>8. wsCalls' = (wsCalls \o p1) \o p2
    BY <1>1, <1>7 DEF MountDropdown
  <1>9. WsFollows(wsCalls)
    BY DEF WsFollows, WsTyped
  <1>10. WsFollows(wsCalls \o p1)
    <2>1. wsCalls \o <<c1>> = Append(wsCalls, c1) /\ wsCalls \o <<>> = wsCalls
      BY <1>3, <1>9, OneAfterTheOther DEF WsFollows
    <2> QED
      BY <1>3, <1>5, <1>7, <1>9, <2>1, WsFollowsOn
  <1>11. PICK q : q = wsCalls \o p1 /\ WsFollows(q)
    BY <1>10
  <1>12. WsFollows(q \o p2)
    <2>1. q \o <<c2>> = Append(q, c2) /\ q \o <<>> = q
      BY <1>4, <1>11, OneAfterTheOther DEF WsFollows
    <2> QED
      BY <1>4, <1>5, <1>7, <1>11, <2>1, WsFollowsOn
  <1>13. WsFollows(wsCalls')
    BY <1>8, <1>11, <1>12
  <1>14. WsTyped'
    BY <1>6, <1>13 DEF WsTyped, WsFollows
  <1> QED
    BY <1>6, <1>13, <1>14 DEF WsFollows

(* The answer to a call.                                                   *)
LEMMA ReplyIs ==
  ASSUME NEW c \in WsCall, NEW id \in Nat, NEW known \in SUBSET Nat, NEW ok \in BOOLEAN,
         NEW found \in SUBSET Dirs, NEW x,
         x = [op |-> c.op, dir |-> c.dir, id |-> id, who |-> c.who, known |-> known,
              current |-> c.current, ok |-> ok, found |-> found]
  PROVE  /\ x \in WsAnswer /\ x.op = c.op /\ x.dir = c.dir /\ x.id = id /\ x.who = c.who
         /\ x.known = known /\ x.current = c.current /\ x.ok = ok /\ x.found = found
  <1>1. /\ x.op = c.op /\ x.dir = c.dir /\ x.id = id /\ x.who = c.who
        /\ x.known = known /\ x.current = c.current /\ x.ok = ok /\ x.found = found
    OBVIOUS
  <1>2. c.op \in WsOps /\ c.dir \in AllDirs /\ c.who \in WsWho /\ c.current \in Nat /\ NamesADir(c)
    BY DEF WsCall
  <1>3. x \in [op : WsOps, dir : AllDirs, id : Nat, who : WsWho, known : SUBSET Nat,
               current : Nat, ok : BOOLEAN, found : SUBSET Dirs]
    BY <1>2
  <1>4. NamesADir(x)
    BY <1>1, <1>2 DEF NamesADir
  <1> QED
    BY <1>1, <1>3, <1>4 DEF WsAnswer

(* Sessions once created stay named.                                       *)
LEMMA WsBeyondLess ==
  ASSUME NEW m \in Nat, NEW n \in Nat, m <= n
  PROVE  WsBeyond(n) \subseteq WsBeyond(m) /\ WsDoneBeyond(n) \subseteq WsDoneBeyond(m)
  <1>1. 1 .. m \subseteq 1 .. n /\ 0 .. m \subseteq 0 .. n
    OBVIOUS
  <1> QED
    BY <1>1 DEF WsBeyond, WsDoneBeyond

LEMMA CallIsAnswered ==
  ASSUME WorkspaceInv, wsCalls # <<>>, NEW c \in WsCall, c = Head(wsCalls), wsCalls' = Tail(wsCalls),
         c \notin Refreshes, NEW x \in WsAnswer, wsAnswers' = Append(wsAnswers, x),
         x.op = c.op, x.dir = c.dir, x.who = c.who, x.current = c.current,
         x \notin WsMistold(readable),
         created' \in Seq(AllDirs), Len(created) <= Len(created'), x \notin WsDoneBeyond(Len(created')),
         stored' \subseteq 1 .. Len(created'),
         UNCHANGED <<readable, storeVars, sessionVars, cachedRoot, overlapped>>,
         c \notin Changes => stored' = stored,
         x.op = "sessions" => x.known = stored /\ stored' = stored,
         x.op = "create" => x.known = c.known /\ stored' = stored \cup {x.id},
         x.op = "delete" => x.known = c.known /\ stored' = stored \ {x.id}
  PROVE  WorkspaceInv'
  <1> USE DEF WorkspaceInv
  <1>1. UNCHANGED <<readable, repos, activeRepo, repoPath, tree, cachedRoot,
                    sessions, activeSession, strayed, overlapped>>
    BY DEF storeVars, sessionVars
  <1>2. /\ wsCalls \in Seq(WsCall) /\ wsAnswers \in Seq(WsAnswer)
        /\ Len(created) \in Nat /\ Len(created') \in Nat
    BY DEF WsTyped
  <1>3. PICK m, n : m = Len(created) /\ n = Len(created') /\ m \in Nat /\ n \in Nat /\ m <= n
    BY <1>2
  <1>4. WsBeyond(n) \subseteq WsBeyond(m) /\ WsDoneBeyond(n) \subseteq WsDoneBeyond(m)
    BY <1>3, WsBeyondLess
  <1>5. wsCalls' \in Seq(WsCall) /\ wsAnswers' \in Seq(WsAnswer)
    BY <1>2, FirstLessIs, OneMoreIs
  <1>6. Free(wsCalls', WsBeyond(n))
    <2>1. Free(wsCalls, WsBeyond(n))
      BY <1>3, <1>4 DEF WsTyped, Free
    <2> QED
      BY <1>2, <2>1, LeavesFree
  <1>7. Free(wsAnswers', WsDoneBeyond(n)) /\ Free(wsAnswers', WsMistold(readable))
    <2>1. Free(wsAnswers, WsDoneBeyond(n)) /\ Free(wsAnswers, WsMistold(readable))
      BY <1>3, <1>4 DEF WsTyped, Free
    <2> QED
      BY <1>2, <1>3, <2>1, JoinsFree
  <1>8. sessions' \subseteq 1 .. n /\ activeSession' \in 0 .. n
    BY <1>1, <1>3 DEF WsTyped
  <1>9. WsTyped'
    BY <1>1, <1>3, <1>5, <1>6, <1>7, <1>8 DEF WsTyped
  <1>10. ~strayed => TreeFollows(wsCalls', wsAnswers', repoPath, tree.of, readable)
    BY <1>2, TreeIsListed
  <1>11. activeRepo # NoDir => ContextFollows(wsCalls', wsAnswers', activeRepo, cachedRoot)
    BY <1>2, ContextIsListed
  <1>12. ~overlapped => SessionsFollow(wsCalls', wsAnswers', sessions, stored', activeSession)
    <2>1. CASE c \in Changes
      BY <1>2, <2>1, SessionsAreChanged
    <2>2. CASE c \notin Changes
      BY <1>2, <2>2, SessionsStay
    <2> QED
      BY <2>1, <2>2
  <1> QED
    BY <1>1, <1>9, <1>10, <1>11, <1>12

LEMMA InvocationIsHandled ==
  ASSUME WorkspaceInv, HandleInvocation
  PROVE  WorkspaceInv'
  <1> USE DEF WorkspaceInv
  <1>1. PICK c : c = Head(wsCalls)
    OBVIOUS
  <1>2. /\ wsCalls \in Seq(WsCall) /\ wsAnswers \in Seq(WsAnswer) /\ wsCalls # <<>>
        /\ wsCalls' = Tail(wsCalls) /\ created \in Seq(AllDirs) /\ Len(created) \in Nat
        /\ UNCHANGED <<readable, storeVars, sessionVars, overlapped>>
    BY DEF WsTyped, HandleInvocation
  <1>3. c \in WsCall /\ c \notin WsBeyond(Len(created))
    BY <1>1, <1>2, FirstLessIs, LeavesFree DEF WsTyped
  <1>4. PICK id, known, n : id = c.id /\ known = c.known /\ n = Len(created)
    OBVIOUS
  <1>5. /\ id \in Nat /\ known \in SUBSET Nat /\ n \in Nat
        /\ known \subseteq 1 .. n /\ c.current \in 0 .. n /\ (c.op = "messages" => id \in 1 .. n)
    BY <1>2, <1>3, <1>4 DEF WsCall, WsBeyond
  <1>6. stored \subseteq 1 .. n /\ stored \in SUBSET Nat
    BY <1>4 DEF WsTyped
  <1>7. PICK yes \in BOOLEAN, none \in SUBSET Dirs : yes = TRUE /\ none = {}
    OBVIOUS
  <1>8. /\ c.op = "refresh" <=> c \in Refreshes
        /\ c.op \in {"create", "delete", "sessions"} <=> c \in Changes
    BY <1>3 DEF Refreshes, Changes
  <1>9. ASSUME NEW ok \in BOOLEAN, NEW found \in SUBSET Dirs, Reply(c, ok, found), UNCHANGED dbVars,
               \/ c.op = "list" /\ (ok <=> c.dir \in readable)
               \/ c.op \in {"scan", "messages"}
        PROVE  WorkspaceInv'
    <2>1. PICK x : x = [op |-> c.op, dir |-> c.dir, id |-> id, who |-> c.who, known |-> known,
                        current |-> c.current, ok |-> ok, found |-> found]
      OBVIOUS
    <2>2. /\ x \in WsAnswer /\ x.op = c.op /\ x.dir = c.dir /\ x.id = id /\ x.who = c.who
          /\ x.known = known /\ x.current = c.current /\ x.ok = ok
      BY <1>3, <1>5, <2>1, ReplyIs, SMTT(25)
    <2>3. wsAnswers' = Append(wsAnswers, x)
      BY <1>4, <1>9, <2>1 DEF Reply
    <2>4. UNCHANGED <<stored, created, cachedRoot>>
      BY <1>9 DEF dbVars
    <2>5. x \notin WsDoneBeyond(n)
      BY <1>5, <1>9, <2>2 DEF WsDoneBeyond
    <2>6. x \notin WsMistold(readable)
      <3>1. CASE c.op = "list" /\ (ok <=> c.dir \in readable)
        BY <2>2, <3>1 DEF WsMistold
      <3>2. CASE c.op \in {"scan", "messages"}
        BY <2>2, <3>2 DEF WsMistold
      <3> QED
        BY <1>9, <3>1, <3>2
    <2>7. c \notin Refreshes /\ c \notin Changes
      BY <1>8, <1>9
    <2>8. /\ x.op = "sessions" => x.known = stored /\ stored' = stored
          /\ x.op = "create" => x.known = c.known /\ stored' = stored \cup {x.id}
          /\ x.op = "delete" => x.known = c.known /\ stored' = stored \ {x.id}
      BY <1>9, <2>2
    <2>9. /\ created' \in Seq(AllDirs) /\ Len(created) <= Len(created')
          /\ x \notin WsDoneBeyond(Len(created')) /\ stored' \subseteq 1 .. Len(created')
      BY <1>2, <1>4, <1>6, <2>4, <2>5
    <2> QED
      BY <1>1, <1>2, <1>3, <2>2, <2>3, <2>4, <2>6, <2>7, <2>8, <2>9, CallIsAnswered
  <1>10. ASSUME NEW i \in Nat, NEW k \in SUBSET Nat, NEW x,
                x = [op |-> c.op, dir |-> c.dir, id |-> i, who |-> c.who, known |-> k,
                     current |-> c.current, ok |-> yes, found |-> none]
         PROVE  /\ x \in WsAnswer /\ x.op = c.op /\ x.dir = c.dir /\ x.id = i /\ x.who = c.who
                /\ x.known = k /\ x.current = c.current
    BY <1>3, <1>10, ReplyIs
  <1>11. ASSUME c.op = "sessions", GetAllSessions(c)
         PROVE  WorkspaceInv'
    <2>1. PICK x : x = [op |-> c.op, dir |-> c.dir, id |-> id, who |-> c.who, known |-> stored,
                        current |-> c.current, ok |-> yes, found |-> none]
      OBVIOUS
    <2>2. /\ x \in WsAnswer /\ x.op = c.op /\ x.dir = c.dir /\ x.id = id /\ x.who = c.who
          /\ x.known = stored /\ x.current = c.current
      BY <1>6, <1>5, <1>10, <2>1
    <2>3. wsAnswers' = Append(wsAnswers, x)
      <3>1. PICK d : d = [c EXCEPT !.known = stored]
        OBVIOUS
      <3>2. d.op = c.op /\ d.dir = c.dir /\ d.id = id /\ d.who = c.who /\ d.known = stored
            /\ d.current = c.current
        BY <1>3, <1>4, <3>1 DEF WsCall
      <3>3. Reply(d, yes, none)
        BY <1>7, <1>11, <3>1 DEF GetAllSessions
      <3> QED
        BY <2>1, <3>2, <3>3 DEF Reply
    <2>4. UNCHANGED <<stored, created, cachedRoot>>
      BY <1>11 DEF GetAllSessions, dbVars
    <2>5. x \notin WsDoneBeyond(n)
      BY <1>5, <1>6, <1>11, <2>2 DEF WsDoneBeyond
    <2>6. x \notin WsMistold(readable) /\ c \notin Refreshes
      BY <1>8, <1>11, <2>2 DEF WsMistold
    <2>7. /\ created' \in Seq(AllDirs) /\ Len(created) <= Len(created')
          /\ x \notin WsDoneBeyond(Len(created')) /\ stored' \subseteq 1 .. Len(created')
      BY <1>2, <1>4, <1>6, <2>4, <2>5
    <2>8. /\ x.op = "sessions" => x.known = stored /\ stored' = stored
          /\ x.op = "create" => x.known = c.known /\ stored' = stored \cup {x.id}
          /\ x.op = "delete" => x.known = c.known /\ stored' = stored \ {x.id}
      BY <1>11, <2>2, <2>4
    <2> QED
      BY <1>1, <1>2, <1>3, <2>2, <2>3, <2>4, <2>6, <2>7, <2>8, CallIsAnswered
  <1>12. ASSUME c.op = "delete", RemoveSession(c)
         PROVE  WorkspaceInv'
    <2>1. PICK x : x = [op |-> c.op, dir |-> c.dir, id |-> id, who |-> c.who, known |-> known,
                        current |-> c.current, ok |-> yes, found |-> none]
      OBVIOUS
    <2>2. /\ x \in WsAnswer /\ x.op = c.op /\ x.dir = c.dir /\ x.id = id /\ x.who = c.who
          /\ x.known = known /\ x.current = c.current
      BY <1>5, <1>10, <2>1
    <2>3. wsAnswers' = Append(wsAnswers, x)
      <3>1. Reply(c, yes, none)
        BY <1>7, <1>12 DEF RemoveSession
      <3> QED
        BY <1>4, <2>1, <3>1 DEF Reply
    <2>4. stored' = stored \ {id} /\ UNCHANGED <<created, cachedRoot>>
      BY <1>4, <1>12 DEF RemoveSession
    <2>5. x \notin WsDoneBeyond(n)
      BY <1>5, <1>12, <2>2 DEF WsDoneBeyond
    <2>6. x \notin WsMistold(readable) /\ c \notin Refreshes
      BY <1>8, <1>12, <2>2 DEF WsMistold
    <2>7. /\ created' \in Seq(AllDirs) /\ Len(created) <= Len(created')
          /\ x \notin WsDoneBeyond(Len(created')) /\ stored' \subseteq 1 .. Len(created')
      <3>1. created' \in Seq(AllDirs) /\ Len(created') = n
        BY <1>2, <1>4, <2>4
      <3>2. stored' \subseteq 1 .. n
        BY <1>6, <2>4
      <3> QED
        BY <1>4, <1>5, <2>5, <3>1, <3>2
    <2>8. c \in Changes
      BY <1>8, <1>12
    <2>9. /\ x.op = "sessions" => x.known = stored /\ stored' = stored
          /\ x.op = "create" => x.known = c.known /\ stored' = stored \cup {x.id}
          /\ x.op = "delete" => x.known = c.known /\ stored' = stored \ {x.id}
      BY <1>4, <1>12, <2>2, <2>4
    <2> QED
      BY <1>1, <1>2, <1>3, <2>2, <2>3, <2>4, <2>6, <2>7, <2>8, <2>9, CallIsAnswered
  <1>13. ASSUME c.op = "create", CreateSession(c)
         PROVE  WorkspaceInv'
    <2>1. PICK new : new = n + 1
      OBVIOUS
    <2>2. PICK x : x = [op |-> c.op, dir |-> c.dir, id |-> new, who |-> c.who, known |-> known,
                        current |-> c.current, ok |-> yes, found |-> none]
      OBVIOUS
    <2>3. /\ x \in WsAnswer /\ x.op = c.op /\ x.dir = c.dir /\ x.id = new /\ x.who = c.who
          /\ x.known = known /\ x.current = c.current
      BY <1>3, <1>5, <2>1, <2>2, ReplyIs
    <2>4. created' = Append(created, c.dir) /\ c.dir \in AllDirs
      BY <1>3, <1>13 DEF CreateSession, WsCall
    <2>5. created' \in Seq(AllDirs) /\ Len(created') = new /\ new \in Nat /\ n <= new
      BY <1>2, <1>4, <1>5, <2>1, <2>4, AppendProperties
    <2>6. wsAnswers' = Append(wsAnswers, x)
      <3>1. PICK d : d = [c EXCEPT !.id = new]
        OBVIOUS
      <3>2. d.op = c.op /\ d.dir = c.dir /\ d.id = new /\ d.who = c.who /\ d.known = known
            /\ d.current = c.current
        BY <1>3, <1>4, <3>1 DEF WsCall
      <3>3. Reply(d, yes, none)
        BY <1>7, <1>13, <2>5, <3>1 DEF CreateSession
      <3> QED
        BY <2>2, <3>2, <3>3 DEF Reply
    <2>7. stored' = stored \cup {new} /\ UNCHANGED cachedRoot
      BY <1>13, <2>5 DEF CreateSession
    <2>8. x \notin WsDoneBeyond(new)
      <3>1. 1 .. n \subseteq 1 .. new /\ 0 .. n \subseteq 0 .. new /\ new \in 1 .. new
        BY <1>5, <2>1
      <3>2. known \subseteq 1 .. new /\ c.current \in 0 .. new
        BY <1>5, <3>1
      <3> QED
        BY <1>13, <2>3, <3>1, <3>2 DEF WsDoneBeyond
    <2>9. x \notin WsMistold(readable) /\ c \notin Refreshes
      BY <1>8, <1>13, <2>3 DEF WsMistold
    <2>10. /\ Len(created) <= Len(created') /\ x \notin WsDoneBeyond(Len(created'))
           /\ stored' \subseteq 1 .. Len(created')
      <3>1. stored' \subseteq 1 .. new
        BY <1>5, <1>6, <2>1, <2>7
      <3> QED
        BY <1>4, <2>5, <2>8, <3>1
    <2>11. c \in Changes
      BY <1>8, <1>13
    <2>12. /\ x.op = "sessions" => x.known = stored /\ stored' = stored
           /\ x.op = "create" => x.known = c.known /\ stored' = stored \cup {x.id}
           /\ x.op = "delete" => x.known = c.known /\ stored' = stored \ {x.id}
      BY <1>4, <1>13, <2>3, <2>7
    <2> QED
      BY <1>1, <1>2, <1>3, <2>3, <2>5, <2>6, <2>7, <2>9, <2>10, <2>11, <2>12, CallIsAnswered
  <1>14. ASSUME c.op = "refresh", RefreshContext(c)
         PROVE  WorkspaceInv'
    <2>1. cachedRoot' = c.dir /\ UNCHANGED <<stored, created, wsAnswers>>
      BY <1>14 DEF RefreshContext
    <2>2. UNCHANGED <<readable, repos, activeRepo, repoPath, tree, sessions, activeSession,
                      strayed, overlapped>>
      BY <1>2 DEF storeVars, sessionVars
    <2>3. c \in Refreshes /\ c \notin Listings /\ c \notin Changes /\ c.dir \in AllDirs
      BY <1>3, <1>8, <1>14 DEF Listings, Changes, WsCall
    <2>4. wsCalls' \in Seq(WsCall) /\ Free(wsCalls', WsBeyond(Len(created)))
      BY <1>2, FirstLessIs, LeavesFree DEF WsTyped
    <2>5. WsTyped'
      BY <2>1, <2>2, <2>3, <2>4 DEF WsTyped
    <2>6. ~strayed => TreeFollows(wsCalls', wsAnswers, repoPath, tree.of, readable)
      BY <1>1, <1>2, <2>3, TreeStays
    <2>7. activeRepo # NoDir => ContextFollows(wsCalls', wsAnswers, activeRepo, c.dir)
      BY <1>1, <1>2, <2>3, ContextIsHarvested
    <2>8. ~overlapped => SessionsFollow(wsCalls', wsAnswers, sessions, stored, activeSession)
      BY <1>1, <1>2, <2>3, SessionsStay
    <2> QED
      BY <2>1, <2>2, <2>5, <2>6, <2>7, <2>8
  <1>15. ASSUME c.op = "list", ListFiles(c)
         PROVE  WorkspaceInv'
    <2>1. PICK ok \in BOOLEAN : ok = (c.dir \in readable)
      <3>1. (c.dir \in readable) \in BOOLEAN
        OBVIOUS
      <3> QED
        BY <3>1
    <2>2. Reply(c, ok, none) /\ UNCHANGED dbVars
      BY <1>7, <1>15, <2>1 DEF ListFiles
    <2>3. ok <=> c.dir \in readable
      BY <2>1
    <2> QED
      BY <1>9, <1>15, <2>2, <2>3
  <1>16. ASSUME c.op = "scan", ScanRepos(c)
         PROVE  WorkspaceInv'
    <2>1. PICK found \in SUBSET Dirs : Reply(c, yes, found) /\ UNCHANGED dbVars
      BY <1>7, <1>16 DEF ScanRepos
    <2> QED
      BY <1>9, <1>16, <2>1
  <1>17. ASSUME c.op = "messages", GetMessages(c)
         PROVE  WorkspaceInv'
    <2>1. Reply(c, yes, none) /\ UNCHANGED dbVars
      BY <1>7, <1>17 DEF GetMessages
    <2> QED
      BY <1>9, <1>17, <2>1
  <1> QED
    BY <1>1, <1>11, <1>12, <1>13, <1>14, <1>15, <1>16, <1>17 DEF HandleInvocation

(* An answer leaves the queue; what follows it is in order.                *)
LEMMA AnswerLeaves ==
  ASSUME WorkspaceInv, wsAnswers # <<>>, NEW a, a = Head(wsAnswers), NEW r, r = Tail(wsAnswers)
  PROVE  /\ a \in WsAnswer /\ a \notin WsDoneBeyond(Len(created)) /\ a \notin WsMistold(readable)
         /\ r \in Seq(WsAnswer)
         /\ Free(r, WsDoneBeyond(Len(created))) /\ Free(r, WsMistold(readable))
         /\ ~strayed /\ a \notin ListingsDone => TreeFollows(wsCalls, r, repoPath, tree.of, readable)
         /\ activeRepo # NoDir /\ a \notin ActivationsDone
              => ContextFollows(wsCalls, r, activeRepo, cachedRoot)
         /\ ~overlapped /\ a \notin ChangesDone
              => SessionsFollow(wsCalls, r, sessions, stored, activeSession)
  <1> USE DEF WorkspaceInv
  <1>1. wsAnswers \in Seq(WsAnswer)
    BY DEF WsTyped
  <1>2. /\ a \in WsAnswer /\ a \notin WsDoneBeyond(Len(created)) /\ a \notin WsMistold(readable)
        /\ r \in Seq(WsAnswer)
        /\ Free(r, WsDoneBeyond(Len(created))) /\ Free(r, WsMistold(readable))
    <2>1. \A L : Free(wsAnswers, L) => Free(r, L) /\ a \notin L
      BY <1>1, LeavesFree
    <2>2. a \in WsAnswer /\ r \in Seq(WsAnswer)
      BY <1>1, FirstLessIs
    <2> QED
      BY <2>1, <2>2 DEF WsTyped
  <1>3. ~strayed /\ a \notin ListingsDone => TreeFollows(wsCalls, r, repoPath, tree.of, readable)
    BY <1>1, TreeIsShown
  <1>4. activeRepo # NoDir /\ a \notin ActivationsDone
          => ContextFollows(wsCalls, r, activeRepo, cachedRoot)
    BY <1>1, ContextStays
  <1>5. ~overlapped /\ a \notin ChangesDone
          => SessionsFollow(wsCalls, r, sessions, stored, activeSession)
    BY <1>1, SessionsWait
  <1> QED
    BY <1>2, <1>3, <1>4, <1>5

LEMMA AnswerLeavesTyped ==
  ASSUME WorkspaceInv, wsAnswers # <<>>, wsAnswers' = Tail(wsAnswers),
         \/ wsCalls' = wsCalls
         \/ \E c \in WsCall : c \notin WsBeyond(Len(created)) /\ wsCalls' = Append(wsCalls, c),
         UNCHANGED <<readable, created, stored, cachedRoot>>,
         repos' \subseteq Dirs, activeRepo' \in AllDirs, repoPath' \in AllDirs,
         tree' \in [of : AllDirs, below : BOOLEAN], sessions' \subseteq 1 .. Len(created),
         activeSession' \in 0 .. Len(created), strayed' \in BOOLEAN, overlapped' \in BOOLEAN
  PROVE  WsTyped'
  <1> USE DEF WorkspaceInv
  <1>1. wsCalls' \in Seq(WsCall) /\ Free(wsCalls', WsBeyond(Len(created)))
    <2>1. wsCalls \in Seq(WsCall) /\ Free(wsCalls, WsBeyond(Len(created)))
      BY DEF WsTyped
    <2>2. ASSUME NEW c \in WsCall, c \notin WsBeyond(Len(created)), wsCalls' = Append(wsCalls, c)
          PROVE  wsCalls' \in Seq(WsCall) /\ Free(wsCalls', WsBeyond(Len(created)))
      BY <2>1, <2>2, OneMoreIs, JoinsFree
    <2> QED
      BY <2>1, <2>2
  <1>2. /\ wsAnswers' \in Seq(WsAnswer)
        /\ Free(wsAnswers', WsDoneBeyond(Len(created))) /\ Free(wsAnswers', WsMistold(readable))
    BY AnswerLeaves
  <1> QED
    BY <1>1, <1>2 DEF WsTyped

(* The answer to a listing.                                                *)
LEMMA ListingIsShown ==
  ASSUME WorkspaceInv, wsAnswers # <<>>, wsAnswers' = Tail(wsAnswers),
         UNCHANGED <<readable, created, stored, cachedRoot, overlapped>>,
         NEW a, a = Head(wsAnswers), a.op = "list",
         \/ a.who = "activate" /\ Activated(a)
         \/ a.who # "activate" /\ Listed(a)
  PROVE  WorkspaceInv'
  <1> USE DEF WorkspaceInv
  <1>1. PICK r : r = Tail(wsAnswers)
    OBVIOUS
  <1>2. a \in WsAnswer /\ a \notin WsMistold(readable) /\ r \in Seq(WsAnswer)
    BY <1>1, AnswerLeaves
  <1>3. a \in ListingsDone /\ a \notin ChangesDone /\ a.dir \in Dirs /\ a.dir \in AllDirs
        /\ (a.who = "activate" <=> a \in ActivationsDone)
    <2>1. a \in ListingsDone /\ a \notin ChangesDone
      BY <1>2 DEF ListingsDone, ChangesDone
    <2>2. a.dir \in Dirs
      <3>1. NamesADir(a)
        BY <1>2 DEF WsAnswer
      <3> QED
        BY <3>1 DEF NamesADir
    <2>3. a.who = "activate" <=> a \in ActivationsDone
      BY <1>2 DEF ActivationsDone
    <2> QED
      BY <2>1, <2>2, <2>3, WsNames
  <1>4. wsCalls \in Seq(WsCall) /\ wsAnswers \in Seq(WsAnswer) /\ activeSession \in 0 .. Len(created)
        /\ Len(created) \in Nat
    BY DEF WsTyped
  <1>5. UNCHANGED <<repos, activeRepo, repoPath, strayed, sessions>>
    BY DEF Activated, Listed, sessionVars
  <1>6. /\ a.ok => tree'.of = a.dir
        /\ ~a.ok => tree' = tree
        /\ tree' \in [of : AllDirs, below : BOOLEAN]
    <2>1. CASE Activated(a)
      BY <1>3, <2>1 DEF Activated, WsTyped
    <2>2. CASE Listed(a)
      BY <1>3, <2>2 DEF Listed, WsTyped
    <2> QED
      BY <2>1, <2>2
  <1>7. tree'.of = a.dir \/ a.dir \notin readable
    BY <1>2, <1>6 DEF WsMistold
  <1>8. ~strayed => TreeFollows(wsCalls, r, repoPath, tree'.of, readable)
    <2>1. PICK of, now : of = tree.of /\ now = tree'.of
      OBVIOUS
    <2> QED
      BY <1>1, <1>3, <1>4, <1>7, <2>1, TreeIsShown
  <1>9. ~overlapped => SessionsFollow(wsCalls, r, sessions, stored, activeSession)
    BY <1>1, <1>3, AnswerLeaves
  <1>10. CASE a.who = "activate" /\ Activated(a)
    <2>1. PICK c : c = Ask("refresh", a.dir, 0, "activate")
      OBVIOUS
    <2>2. c \in WsCall /\ c \notin WsBeyond(Len(created)) /\ c.op = "refresh" /\ c.dir = a.dir
      BY <1>3, <2>1, WsNames, AskIs
    <2>3. c \notin Listings /\ c \notin Changes /\ c \in Refreshes
      BY <2>2 DEF Listings, Changes, Refreshes
    <2>4. wsCalls' = Append(wsCalls, c) /\ activeSession' = 0
      BY <1>10, <2>1 DEF Activated
    <2>5. WsTyped'
      <3>1. /\ repos' \subseteq Dirs /\ activeRepo' \in AllDirs /\ repoPath' \in AllDirs
            /\ sessions' \subseteq 1 .. Len(created) /\ activeSession' \in 0 .. Len(created)
            /\ strayed' \in BOOLEAN /\ overlapped' \in BOOLEAN
        BY <1>4, <1>5, <2>4 DEF WsTyped
      <3> QED
        BY <1>6, <2>2, <2>4, <3>1, AnswerLeavesTyped
    <2>6. ~strayed => TreeFollows(wsCalls', r, repoPath, tree'.of, readable)
      BY <1>4, <1>8, <2>2, <2>3, <2>4, TreeGoesOn
    <2>7. activeRepo # NoDir => ContextFollows(wsCalls', r, activeRepo, cachedRoot)
      BY <1>1, <1>3, <1>4, <1>10, <2>2, <2>3, <2>4, ContextIsOrdered
    <2>8. ~overlapped => SessionsFollow(wsCalls', r, sessions, stored, 0)
      BY <1>4, <1>9, <2>2, <2>3, <2>4, SessionsGoOn, SessionIsLeft
    <2> QED
      BY <1>1, <1>5, <2>4, <2>5, <2>6, <2>7, <2>8
  <1>11. CASE a.who # "activate" /\ Listed(a)
    <2>1. wsCalls' = wsCalls /\ activeSession' = activeSession
      BY <1>11 DEF Listed, sessionVars
    <2>2. WsTyped'
      <3>1. /\ repos' \subseteq Dirs /\ activeRepo' \in AllDirs /\ repoPath' \in AllDirs
            /\ sessions' \subseteq 1 .. Len(created) /\ activeSession' \in 0 .. Len(created)
            /\ strayed' \in BOOLEAN /\ overlapped' \in BOOLEAN
        BY <1>4, <1>5, <2>1 DEF WsTyped
      <3> QED
        BY <1>6, <2>1, <3>1, AnswerLeavesTyped
    <2>3. activeRepo # NoDir => ContextFollows(wsCalls, r, activeRepo, cachedRoot)
      BY <1>1, <1>3, <1>11, AnswerLeaves
    <2> QED
      BY <1>1, <1>5, <1>8, <1>9, <2>1, <2>2, <2>3
  <1> QED
    BY <1>10, <1>11

(* The answer to a change of the sessions.                                 *)
LEMMA ChangeIsShown ==
  ASSUME WorkspaceInv, wsAnswers # <<>>, wsAnswers' = Tail(wsAnswers),
         UNCHANGED <<readable, created, stored, cachedRoot, overlapped, storeVars, wsCalls>>,
         NEW a, a = Head(wsAnswers),
         \/ a.op = "create" /\ SessionCreated(a)
         \/ a.op = "delete" /\ SessionDeleted(a)
         \/ a.op = "sessions" /\ sessions' = a.known /\ UNCHANGED activeSession
  PROVE  WorkspaceInv'
  <1> USE DEF WorkspaceInv
  <1>1. PICK r : r = Tail(wsAnswers)
    OBVIOUS
  <1>2. a \in WsAnswer /\ a \notin WsDoneBeyond(Len(created)) /\ r \in Seq(WsAnswer)
    BY <1>1, AnswerLeaves
  <1>3. a \in ChangesDone /\ a \notin ListingsDone /\ a \notin ActivationsDone
    BY <1>2 DEF ListingsDone, ChangesDone, ActivationsDone
  <1>4. /\ a.known \subseteq 1 .. Len(created) /\ (a.op = "create" => a.id \in 1 .. Len(created))
        /\ wsAnswers \in Seq(WsAnswer) /\ activeSession \in 0 .. Len(created) /\ Len(created) \in Nat
    BY <1>2 DEF WsDoneBeyond, WsTyped
  <1>5. UNCHANGED <<repos, activeRepo, repoPath, tree, strayed>>
    BY DEF storeVars
  <1>6. /\ a.op = "sessions" => sessions' = a.known /\ activeSession' = activeSession
        /\ a.op = "create" => sessions' = a.known \cup {a.id} /\ activeSession' = a.id
        /\ a.op = "delete" => /\ sessions' = a.known \ {a.id}
                              /\ activeSession' = IF a.current = a.id THEN 0 ELSE activeSession
    BY DEF SessionCreated, SessionDeleted
  <1>7. sessions' \subseteq 1 .. Len(created) /\ activeSession' \in 0 .. Len(created)
    <2>1. CASE a.op = "create"
      BY <1>4, <1>6, <2>1
    <2>2. CASE a.op = "delete"
      BY <1>4, <1>6, <2>2
    <2>3. CASE a.op = "sessions"
      BY <1>4, <1>6, <2>3
    <2> QED
      BY <1>3, <2>1, <2>2, <2>3 DEF ChangesDone
  <1>8. WsTyped'
    <2>1. /\ repos' \subseteq Dirs /\ activeRepo' \in AllDirs /\ repoPath' \in AllDirs
          /\ tree' \in [of : AllDirs, below : BOOLEAN]
          /\ strayed' \in BOOLEAN /\ overlapped' \in BOOLEAN
      BY <1>5 DEF WsTyped
    <2> QED
      BY <1>7, <2>1, AnswerLeavesTyped
  <1>9. /\ ~strayed => TreeFollows(wsCalls, r, repoPath, tree.of, readable)
        /\ activeRepo # NoDir => ContextFollows(wsCalls, r, activeRepo, cachedRoot)
    BY <1>1, <1>3, AnswerLeaves
  <1>10. ~overlapped => SessionsFollow(wsCalls, r, sessions', stored, activeSession')
    <2>1. PICK now, nowAct : now = sessions' /\ nowAct = activeSession'
      OBVIOUS
    <2> QED
      BY <1>1, <1>3, <1>4, <1>6, <2>1, SessionsAreShown
  <1> QED
    BY <1>1, <1>5, <1>8, <1>9, <1>10

(* The answer to a scan.                                                   *)
LEMMA ScanIsShown ==
  ASSUME WorkspaceInv, wsAnswers # <<>>, wsAnswers' = Tail(wsAnswers),
         UNCHANGED <<readable, created, stored, cachedRoot, overlapped>>,
         NEW a, a = Head(wsAnswers), a.op = "scan",
         \/ a.who = "scan" /\ Scanned(a)
         \/ a.who = "browse" /\ Browsed(a)
  PROVE  WorkspaceInv'
  <1> USE DEF WorkspaceInv
  <1>1. PICK r : r = Tail(wsAnswers)
    OBVIOUS
  <1>2. a \in WsAnswer /\ r \in Seq(WsAnswer)
    BY <1>1, AnswerLeaves
  <1>3. /\ a \notin ListingsDone /\ a \notin ChangesDone /\ a \notin ActivationsDone
        /\ a.found \subseteq Dirs /\ a.id \in Nat /\ (a.who = "browse" => a.dir \in Dirs)
    <2>1. a \notin ListingsDone /\ a \notin ChangesDone /\ a \notin ActivationsDone
      BY DEF ListingsDone, ChangesDone, ActivationsDone
    <2>2. a.found \subseteq Dirs /\ a.id \in Nat
      BY <1>2 DEF WsAnswer
    <2>3. a.who = "browse" => a.dir \in Dirs
      BY <1>2 DEF WsAnswer, NamesADir
    <2> QED
      BY <2>1, <2>2, <2>3
  <1>4. wsCalls \in Seq(WsCall) /\ repos \subseteq Dirs
    BY DEF WsTyped
  <1>5. /\ ~strayed => TreeFollows(wsCalls, r, repoPath, tree.of, readable)
        /\ activeRepo # NoDir => ContextFollows(wsCalls, r, activeRepo, cachedRoot)
        /\ ~overlapped => SessionsFollow(wsCalls, r, sessions, stored, activeSession)
    BY <1>1, <1>3, AnswerLeaves
  <1>6. UNCHANGED <<tree, sessions, activeSession>>
    BY DEF Scanned, Browsed, sessionVars
  <1>7. ASSUME NEW d \in Dirs, ActivateRepo(d), repos' \subseteq Dirs
        PROVE  WorkspaceInv'
    BY <1>3, <1>6, <1>7, ActivationJoins
  <1>8. ASSUME UNCHANGED <<activeRepo, repoPath, strayed, wsCalls>>, repos' \subseteq Dirs
        PROVE  WorkspaceInv'
    <2>1. WsTyped'
      <3>1. /\ activeRepo' \in AllDirs /\ repoPath' \in AllDirs
            /\ tree' \in [of : AllDirs, below : BOOLEAN]
            /\ sessions' \subseteq 1 .. Len(created) /\ activeSession' \in 0 .. Len(created)
            /\ strayed' \in BOOLEAN /\ overlapped' \in BOOLEAN
        BY <1>6, <1>8 DEF WsTyped
      <3> QED
        BY <1>8, <3>1, AnswerLeavesTyped
    <2> QED
      BY <1>1, <1>5, <1>6, <1>8, <2>1
  <1>9. CASE a.who = "scan" /\ Scanned(a) /\ a.found = {}
    <2>1. UNCHANGED <<repos, activeRepo, repoPath, strayed>>
          /\ wsCalls' = IF a.id > 1 THEN Append(wsCalls, Ask("scan", NoDir, a.id - 1, "scan"))
                        ELSE wsCalls
      BY <1>9 DEF Scanned
    <2>2. CASE a.id > 1
      <3>1. PICK n \in Nat : n = a.id - 1
        BY <1>3, <2>2
      <3>2. PICK c : c = Ask("scan", NoDir, n, "scan")
        OBVIOUS
      <3>3. c \in WsCall /\ c \notin WsBeyond(Len(created)) /\ c.op = "scan"
        BY <3>2, WsNames, AskIs
      <3>4. c \notin Listings /\ c \notin Activations /\ c \notin Changes /\ c \notin Refreshes
        BY <3>3 DEF Listings, Activations, Changes, Refreshes
      <3>5. wsCalls' = Append(wsCalls, c)
        BY <2>1, <2>2, <3>1, <3>2
      <3>6. WsTyped'
        <4>1. /\ repos' \subseteq Dirs /\ activeRepo' \in AllDirs /\ repoPath' \in AllDirs
              /\ tree' \in [of : AllDirs, below : BOOLEAN]
              /\ sessions' \subseteq 1 .. Len(created) /\ activeSession' \in 0 .. Len(created)
              /\ strayed' \in BOOLEAN /\ overlapped' \in BOOLEAN
          BY <1>6, <2>1 DEF WsTyped
        <4> QED
          BY <3>3, <3>5, <4>1, AnswerLeavesTyped
      <3>7. ~strayed => TreeFollows(wsCalls', r, repoPath, tree.of, readable)
        BY <1>4, <1>5, <3>3, <3>4, <3>5, TreeGoesOn
      <3>8. activeRepo # NoDir => ContextFollows(wsCalls', r, activeRepo, cachedRoot)
        BY <1>4, <1>5, <3>3, <3>4, <3>5, ContextGoesOn
      <3>9. ~overlapped => SessionsFollow(wsCalls', r, sessions, stored, activeSession)
        BY <1>4, <1>5, <3>3, <3>4, <3>5, SessionsGoOn
      <3> QED
        BY <1>1, <1>6, <2>1, <3>6, <3>7, <3>8, <3>9
    <2>3. CASE ~(a.id > 1)
      BY <1>4, <1>8, <2>1, <2>3
    <2> QED
      BY <2>2, <2>3
  <1>10. CASE a.who = "scan" /\ Scanned(a) /\ a.found # {}
    <2>1. /\ repos' = a.found
          /\ IF activeRepo = NoDir THEN \E d \in a.found : ActivateRepo(d)
             ELSE UNCHANGED <<activeRepo, repoPath, strayed, wsCalls>>
      BY <1>10 DEF Scanned
    <2> QED
      BY <1>3, <1>7, <1>8, <2>1
  <1>11. CASE a.who = "browse" /\ Browsed(a)
    <2>1. PICK all : all = IF a.found # {} THEN a.found ELSE {a.dir}
      OBVIOUS
    <2>2. all \subseteq Dirs
      BY <1>3, <1>11, <2>1
    <2>3. repos' = repos \cup all /\ \E d \in all : ActivateRepo(d)
      BY <1>11, <2>1 DEF Browsed
    <2> QED
      BY <1>4, <1>7, <2>2, <2>3
  <1> QED
    BY <1>9, <1>10, <1>11

(* The messages of a session, which brings its path back.                  *)
LEMMA SessionIsOpened ==
  ASSUME WorkspaceInv, wsAnswers # <<>>, wsAnswers' = Tail(wsAnswers),
         UNCHANGED <<readable, created, stored, cachedRoot, overlapped>>,
         NEW a, a = Head(wsAnswers), a.op = "messages", SessionSelected(a)
  PROVE  WorkspaceInv'
  <1> USE DEF WorkspaceInv
  <1>1. PICK r : r = Tail(wsAnswers)
    OBVIOUS
  <1>2. a \in WsAnswer /\ a \notin WsDoneBeyond(Len(created)) /\ r \in Seq(WsAnswer)
    BY <1>1, AnswerLeaves
  <1>3. /\ a \notin ListingsDone /\ a \notin ChangesDone /\ a \notin ActivationsDone
        /\ a.id \in 1 .. Len(created)
    BY <1>2 DEF ListingsDone, ChangesDone, ActivationsDone, WsDoneBeyond
  <1>4. wsCalls \in Seq(WsCall) /\ created \in Seq(AllDirs)
    BY DEF WsTyped
  <1>5. PICK d \in AllDirs : d = created[a.id]
    BY <1>3, <1>4
  <1>6. UNCHANGED <<repos, activeRepo, tree, sessions, activeSession>>
    BY DEF SessionSelected, sessionVars
  <1>7. /\ ~strayed => TreeFollows(wsCalls, r, repoPath, tree.of, readable)
        /\ activeRepo # NoDir => ContextFollows(wsCalls, r, activeRepo, cachedRoot)
        /\ ~overlapped => SessionsFollow(wsCalls, r, sessions, stored, activeSession)
    BY <1>1, <1>3, AnswerLeaves
  <1>8. /\ repos' \subseteq Dirs /\ activeRepo' \in AllDirs
        /\ tree' \in [of : AllDirs, below : BOOLEAN]
        /\ sessions' \subseteq 1 .. Len(created) /\ activeSession' \in 0 .. Len(created)
        /\ overlapped' \in BOOLEAN
    BY <1>6 DEF WsTyped
  <1>9. CASE d = NoDir
    <2>1. UNCHANGED <<repoPath, strayed, wsCalls>>
      BY <1>5, <1>9 DEF SessionSelected
    <2>2. repoPath' \in AllDirs /\ strayed' \in BOOLEAN
      BY <2>1 DEF WsTyped
    <2>3. WsTyped'
      BY <1>8, <2>1, <2>2, AnswerLeavesTyped
    <2> QED
      BY <1>1, <1>6, <1>7, <2>1, <2>3
  <1>10. CASE d # NoDir
    <2>1. PICK c : c = Ask("list", d, 0, "select")
      OBVIOUS
    <2>2. d \in Dirs
      BY <1>10 DEF AllDirs
    <2>3. /\ c \in WsCall /\ c \notin WsBeyond(Len(created)) /\ c.op = "list" /\ c.dir = d
          /\ c.who = "select"
      BY <2>1, <2>2, WsNames, AskIs
    <2>4. c \in Listings /\ c \notin Activations /\ c \notin Changes /\ c \notin Refreshes
      BY <2>3 DEF Listings, Activations, Changes, Refreshes
    <2>5. repoPath' = d /\ strayed' = FALSE /\ wsCalls' = Append(wsCalls, c)
      BY <1>5, <1>10, <2>1 DEF SessionSelected, SetPath
    <2>6. WsTyped'
      <3>1. repoPath' \in AllDirs /\ strayed' \in BOOLEAN
        BY <2>5
      <3> QED
        BY <1>8, <2>3, <2>5, <3>1, AnswerLeavesTyped
    <2>7. TreeFollows(wsCalls', r, c.dir, tree.of, readable)
      BY <1>4, <2>3, <2>4, <2>5, TreeIsAsked
    <2>8. activeRepo # NoDir => ContextFollows(wsCalls', r, activeRepo, cachedRoot)
      BY <1>4, <1>7, <2>3, <2>4, <2>5, ContextGoesOn
    <2>9. ~overlapped => SessionsFollow(wsCalls', r, sessions, stored, activeSession)
      BY <1>4, <1>7, <2>3, <2>4, <2>5, SessionsGoOn
    <2> QED
      BY <1>1, <1>6, <2>3, <2>5, <2>6, <2>7, <2>8, <2>9
  <1> QED
    BY <1>9, <1>10

LEMMA ReplyIsHandled ==
  ASSUME WorkspaceInv, HandleReply
  PROVE  WorkspaceInv'
  <1>1. PICK a : a = Head(wsAnswers)
    OBVIOUS
  <1>2. /\ wsAnswers # <<>> /\ wsAnswers' = Tail(wsAnswers)
        /\ UNCHANGED <<readable, created, stored, cachedRoot, overlapped>>
    BY DEF HandleReply, dbVars
  <1>3. \/ a.op = "list" /\ a.who = "activate" /\ Activated(a)
        \/ a.op = "list" /\ a.who # "activate" /\ Listed(a)
        \/ a.op = "scan" /\ a.who = "scan" /\ Scanned(a)
        \/ a.op = "scan" /\ a.who = "browse" /\ Browsed(a)
        \/ a.op = "create" /\ SessionCreated(a)
        \/ a.op = "delete" /\ SessionDeleted(a)
        \/ a.op = "messages" /\ SessionSelected(a)
        \/ a.op = "sessions" /\ sessions' = a.known /\ UNCHANGED <<storeVars, activeSession, wsCalls>>
    BY <1>1 DEF HandleReply
  <1>4. ASSUME \/ a.op = "create" /\ SessionCreated(a)
               \/ a.op = "delete" /\ SessionDeleted(a)
               \/ a.op = "sessions" /\ sessions' = a.known /\ UNCHANGED <<storeVars, activeSession, wsCalls>>
        PROVE  WorkspaceInv'
    <2>1. UNCHANGED <<storeVars, wsCalls>>
      BY <1>4 DEF SessionCreated, SessionDeleted
    <2> QED
      BY <1>1, <1>2, <1>4, <2>1, ChangeIsShown
  <1> QED
    BY <1>1, <1>2, <1>3, <1>4, ListingIsShown, ScanIsShown, SessionIsOpened

LEMMA WorkspaceInvStep ==
  ASSUME WorkspaceInv, WorkspaceNext \/ UNCHANGED workspaceVars
  PROVE  WorkspaceInv'
  <1>1. CASE UNCHANGED workspaceVars
    BY <1>1 DEF workspaceVars, storeVars, sessionVars, dbVars, WorkspaceInv, WsTyped
  <1>2. CASE WorkspaceNext
    BY <1>2, MountsDropdown, ClicksDirectory, InvocationIsHandled, ReplyIsHandled, SelectsRepo,
       Browses, PicksRepo, CreatesSession, SelectsSession, DeletesSession DEF WorkspaceNext, AllDirs
  <1> QED
    BY <1>1, <1>2

LEMMA WorkspaceInvStart == WorkspaceInit => WorkspaceInv
  <1> SUFFICES ASSUME WorkspaceInit PROVE WorkspaceInv
    OBVIOUS
  <1>1. created \in Seq(AllDirs) /\ stored = 1 .. Len(created) /\ Len(created) \in Nat
    <2>1. created = <<>> \/ \E d \in Dirs : created = <<d>>
      BY DEF WorkspaceInit
    <2>2. created \in Seq(AllDirs)
      <3>1. CASE created = <<>>
        BY <3>1, EmptySeq
      <3>2. ASSUME NEW d \in Dirs, created = <<d>>
            PROVE  created \in Seq(AllDirs)
        BY <3>2, WsNames
      <3> QED
        BY <2>1, <3>1, <3>2
    <2>3. stored = DOMAIN created
      BY DEF WorkspaceInit
    <2> QED
      BY <2>2, <2>3
  <1>2. /\ readable \subseteq Dirs /\ repos = {} /\ activeRepo = NoDir /\ repoPath = NoDir
        /\ tree = [of |-> NoDir, below |-> FALSE] /\ strayed = FALSE /\ sessions = {}
        /\ activeSession = 0 /\ cachedRoot = NoDir /\ wsAnswers = <<>> /\ overlapped = FALSE
    BY DEF WorkspaceInit
  <1>3. PICK c1, c2 : c1 = Ask("sessions", NoDir, 0, "load") /\ c2 = Ask("scan", NoDir, Roots, "scan")
    OBVIOUS
  <1>4. wsCalls = <<c1, c2>>
    BY <1>3 DEF WorkspaceInit
  <1>5. /\ c1.op = "sessions" /\ c2.op = "scan" /\ c1.known = {} /\ c2.known = {}
        /\ c1.current = 0 /\ c2.current = 0
    BY <1>2, <1>3 DEF Ask
  <1>6. c1 \in WsCall /\ c2 \in WsCall
    <2>1. {} \in SUBSET Nat /\ 0 \in Nat
      OBVIOUS
    <2>2. /\ c1 \in [op : WsOps, dir : AllDirs, id : Nat, who : WsWho, known : SUBSET Nat, current : Nat]
          /\ c2 \in [op : WsOps, dir : AllDirs, id : Nat, who : WsWho, known : SUBSET Nat, current : Nat]
      BY <1>2, <1>3, <2>1, WsNames DEF Ask
    <2>3. c2.who = "scan"
      BY <1>3 DEF Ask
    <2> QED
      BY <1>5, <2>2, <2>3 DEF WsCall, NamesADir
  <1>7. wsCalls \in Seq(WsCall) /\ DOMAIN wsCalls = {1, 2} /\ wsCalls[1] = c1 /\ wsCalls[2] = c2
    BY <1>4, <1>6
  <1>8. /\ c1 \notin Listings /\ c2 \notin Listings /\ c1 \in Changes /\ c2 \notin Changes
        /\ c1 \notin WsBeyond(Len(created)) /\ c2 \notin WsBeyond(Len(created))
    BY <1>1, <1>5, <1>6 DEF Listings, Changes, WsBeyond
  <1>9. c1 \in ChangesOn(sessions, stored, activeSession)
    BY <1>2, <1>5, <1>6 DEF ChangesOn
  <1>10. \A L : Free(<<>>, L)
    BY NoMessages
  <1>11. WsTyped
    <2>1. Free(wsCalls, WsBeyond(Len(created)))
      BY <1>7, <1>8 DEF Free
    <2>2. tree \in [of : AllDirs, below : BOOLEAN]
      BY <1>2, WsNames
    <2>3. wsAnswers \in Seq(WsAnswer)
      BY <1>2, EmptySeq
    <2>4. strayed \in BOOLEAN /\ overlapped \in BOOLEAN
      BY <1>2
    <2>5. /\ stored \subseteq 1 .. Len(created) /\ sessions \subseteq 1 .. Len(created)
          /\ activeSession \in 0 .. Len(created)
      BY <1>1, <1>2
    <2> QED
      BY <1>1, <1>2, <1>7, <1>10, <2>1, <2>2, <2>3, <2>4, <2>5, WsNames DEF WsTyped
  <1>12. TreeFollows(wsCalls, wsAnswers, repoPath, tree.of, readable)
    <2>1. Free(wsCalls, Listings)
      BY <1>7, <1>8 DEF Free
    <2>2. tree.of = repoPath
      BY <1>2
    <2> QED
      BY <1>2, <1>10, <2>1, <2>2, FreeEnds DEF TreeFollows
  <1>13. SessionsFollow(wsCalls, wsAnswers, sessions, stored, activeSession)
    <2>1. HasOne(wsCalls, Changes, ChangesOn(sessions, stored, activeSession))
      BY <1>7, <1>8, <1>9 DEF HasOne
    <2> QED
      BY <1>2, <1>10, <2>1 DEF SessionsFollow
  <1> QED
    BY <1>2, <1>11, <1>12, <1>13 DEF WorkspaceInv

LEMMA WorkspaceInvGives == WorkspaceInv => WorkspaceTypeOK /\ WorkspaceAgrees
  <1> SUFFICES ASSUME WorkspaceInv PROVE WorkspaceTypeOK /\ WorkspaceAgrees
    OBVIOUS
  <1> USE DEF WorkspaceInv
  <1>1. WorkspaceTypeOK
    <2>1. DOMAIN created = 1 .. Len(created) /\ created \in Seq(Dirs \cup {NoDir})
      BY DEF WsTyped, AllDirs
    <2> QED
      BY <2>1 DEF WsTyped, WorkspaceTypeOK, AllDirs
  <1>2. \A L, G : Free(<<>>, L) /\ ~HasOne(<<>>, L, G)
    BY NoMessages DEF HasOne
  <1>3. ASSUME WorkspaceAtRest, repoPath \in readable /\ ~strayed
        PROVE  tree.of = repoPath
    BY <1>2, <1>3 DEF WorkspaceAtRest, TreeFollows
  <1>4. ASSUME WorkspaceAtRest, activeRepo # NoDir
        PROVE  cachedRoot = activeRepo
    BY <1>2, <1>4 DEF WorkspaceAtRest, ContextFollows
  <1>5. ASSUME WorkspaceAtRest, ~overlapped
        PROVE  sessions = stored /\ activeSession \in sessions \cup {0}
    BY <1>2, <1>5 DEF WorkspaceAtRest, SessionsFollow
  <1>6. WorkspaceAgrees
    BY <1>3, <1>4, <1>5 DEF WorkspaceAgrees
  <1> QED
    BY <1>1, <1>6

(* Once every handler has ended, the tree is of the path, the context of   *)
(* the active repository and the list of the table's sessions.             *)
THEOREM TheWorkspaceAgrees == WorkspaceSpec => []WorkspaceAgrees
  <1>1. WorkspaceInv /\ [WorkspaceNext]_workspaceVars => WorkspaceInv'
    BY WorkspaceInvStep
  <1> QED
    BY <1>1, WorkspaceInvStart, WorkspaceInvGives, PTL DEF WorkspaceSpec

-----------------------------------------------------------------------------
(* The flow graph.  Lists, and what happens to one at either end.          *)
IsList(s) == Len(s) \in Nat /\ s = [i \in 1 .. Len(s) |-> s[i]]
Joins(s, t, x) ==
  /\ IsList(t)
  /\ \E k \in Nat : /\ DOMAIN s = 1 .. k /\ DOMAIN t = 1 .. k + 1 /\ t[k + 1] = x
                    /\ \A i \in 1 .. k : t[i] = s[i]
Leaves(s, t, x) ==
  /\ IsList(t)
  /\ \E k \in Nat : /\ DOMAIN s = 1 .. k + 1 /\ DOMAIN t = 1 .. k /\ s[1] = x
                    /\ \A i \in 1 .. k : t[i] = s[i + 1]

LEMMA ListIsSeq == ASSUME NEW s, IsList(s) PROVE \E M : s \in Seq(M)
  <1>1. PICK k \in Nat : k = Len(s) /\ s = [i \in 1 .. k |-> s[i]]
    BY DEF IsList
  <1>2. PICK M : M = {s[i] : i \in 1 .. k}
    OBVIOUS
  <1>3. s \in [1 .. k -> M]
    BY <1>1, <1>2
  <1>4. s \in Seq(M)
    BY <1>3, SeqDef
  <1> QED
    BY <1>4

LEMMA SeqIsList == ASSUME NEW M, NEW s \in Seq(M) PROVE IsList(s)
  BY LenProperties DEF IsList

LEMMA ListDomain ==
  ASSUME NEW s, IsList(s) PROVE Len(s) \in Nat /\ DOMAIN s = 1 .. Len(s)
  BY DEF IsList

LEMMA ListJoins ==
  ASSUME NEW s, IsList(s), NEW x
  PROVE  Joins(s, Append(s, x), x)
  <1>1. PICK M : s \in Seq(M)
    BY ListIsSeq
  <1>2. PICK N : N = M \cup {x} /\ x \in N /\ s \in Seq(N)
    <2>1. s \in Seq(M \cup {x})
      BY <1>1
    <2> QED
      BY <2>1
  <1>3. PICK t : t = Append(s, x)
    OBVIOUS
  <1>4. PICK k \in Nat : k = Len(s) /\ DOMAIN s = 1 .. k
    BY ListDomain
  <1>5. t \in Seq(N) /\ DOMAIN t = 1 .. k + 1 /\ t[k + 1] = x /\ \A i \in 1 .. k : t[i] = s[i]
    BY <1>2, <1>3, <1>4, OneMoreIs
  <1>6. IsList(t)
    BY <1>5, SeqIsList
  <1> QED
    BY <1>3, <1>4, <1>5, <1>6 DEF Joins

LEMMA ListLeaves ==
  ASSUME NEW s, IsList(s), s # <<>>
  PROVE  Leaves(s, Tail(s), Head(s))
  <1>1. PICK M : s \in Seq(M)
    BY ListIsSeq
  <1>2. PICK t : t = Tail(s)
    OBVIOUS
  <1>3. /\ Head(s) = s[1] /\ t \in Seq(M) /\ Len(t) = Len(s) - 1
        /\ \A i \in 1 .. Len(t) : t[i] = s[i + 1]
    BY <1>1, <1>2, HeadTailProperties
  <1>4. IsList(t) /\ Len(t) \in Nat /\ DOMAIN t = 1 .. Len(t)
    BY <1>3, SeqIsList, ListDomain
  <1>5. Len(s) \in Nat /\ DOMAIN s = 1 .. Len(s)
    BY ListDomain
  <1>6. PICK k \in Nat : k = Len(t) /\ Len(s) = k + 1
    BY <1>3, <1>4, <1>5
  <1> QED
    BY <1>2, <1>3, <1>4, <1>5, <1>6 DEF Leaves

(* What the two say of the elements.                                       *)
LEMMA JoinedIs ==
  ASSUME NEW s, NEW t, NEW x, Joins(s, t, x)
  PROVE  /\ IsList(t) /\ DOMAIN t \subseteq Nat /\ DOMAIN s \subseteq DOMAIN t
         /\ \A i \in DOMAIN s : t[i] = s[i]
         /\ \E z \in DOMAIN t : /\ t[z] = x /\ z \notin DOMAIN s /\ \A i \in DOMAIN s : i < z
                                /\ \A i \in DOMAIN t : i \in DOMAIN s \/ i = z
  <1>1. PICK k \in Nat : /\ DOMAIN s = 1 .. k /\ DOMAIN t = 1 .. k + 1 /\ t[k + 1] = x
                         /\ \A i \in 1 .. k : t[i] = s[i]
    BY DEF Joins
  <1>2. /\ k + 1 \in 1 .. k + 1 /\ k + 1 \notin 1 .. k /\ \A i \in 1 .. k : i < k + 1
        /\ \A i \in 1 .. k + 1 : i \in 1 .. k \/ i = k + 1
        /\ 1 .. k \subseteq 1 .. k + 1 /\ 1 .. k + 1 \subseteq Nat
    OBVIOUS
  <1> QED
    BY <1>1, <1>2 DEF Joins

LEMMA LeftIs ==
  ASSUME NEW s, NEW t, NEW x, Leaves(s, t, x)
  PROVE  /\ IsList(t) /\ DOMAIN s \subseteq Nat /\ DOMAIN t \subseteq DOMAIN s
         /\ 1 \in DOMAIN s /\ s[1] = x
         /\ \A i \in DOMAIN t : i \in Nat /\ 0 < i /\ i + 1 \in DOMAIN s /\ t[i] = s[i + 1]
         /\ \A i \in DOMAIN s : i = 1 \/ \E j \in DOMAIN t : i = j + 1
  <1>1. PICK k \in Nat : /\ DOMAIN s = 1 .. k + 1 /\ DOMAIN t = 1 .. k /\ s[1] = x
                         /\ \A i \in 1 .. k : t[i] = s[i + 1]
    BY DEF Leaves
  <1>2. /\ 1 \in 1 .. k + 1 /\ 1 .. k + 1 \subseteq Nat /\ 1 .. k \subseteq 1 .. k + 1
        /\ \A i \in 1 .. k : i \in Nat /\ 0 < i /\ i + 1 \in 1 .. k + 1
    OBVIOUS
  <1>3. ASSUME NEW i \in 1 .. k + 1
        PROVE  i = 1 \/ \E j \in 1 .. k : i = j + 1
    <2>1. CASE i # 1
      <3>1. i - 1 \in 1 .. k /\ i = (i - 1) + 1
        BY <2>1
      <3> QED
        BY <3>1
    <2> QED
      BY <2>1
  <1> QED
    BY <1>1, <1>2, <1>3 DEF Leaves

-----------------------------------------------------------------------------
(* The invariant, over the tables T (nodes), D (edges) and L (log), the    *)
(* runs R, the calls C and the answers A under way, what the store shows,  *)
(* S, and the last edits E.                                                *)
(*                                                                         *)
(* A message about node n: what a call about it waits for is an edit of n  *)
(* or a run of n.  It carries n while n is being saved: from the save to   *)
(* the graph that is loaded after it.                                      *)
About(R, m, n) == m.after = OfEdit(n) \/ (m.after.who = "run" /\ R[m.after.id].node = n)
Carries(R, m, n) == About(R, m, n) /\ m.op # "log" /\ m.op # "logged"

IsRow(r) == r = [session |-> r.session, kind |-> r.kind, at |-> r.at,
                 prompt |-> r.prompt, last |-> r.last]
IsRun(r) == r = [node |-> r.node, prompt |-> r.prompt, phase |-> r.phase]
NodesIn(T, s) == {n \in DOMAIN T : T[n].session = s}

ForNone(m)    == m.after = User \/ m.after = Boot
ForEdit(T, m) == \E n \in DOMAIN T : m.after = OfEdit(n)
ForRun(R, m)  == \E r \in DOMAIN R : m.after = OfRun(r) /\ R[r].phase # "working"

CallOK(T, R, c) ==
  \/ c.op = "get" /\ (ForNone(c) \/ ForEdit(T, c) \/ ForRun(R, c))
  \/ c.op \in {"node", "edge"} /\ ForNone(c)
  \/ /\ c.op = "save" /\ c.node \in DOMAIN T
     /\ c.after = OfEdit(c.node) \/ (ForRun(R, c) /\ R[c.after.id].node = c.node)
  \/ c.op = "layout" /\ c.after = User
  \/ c.op = "log" /\ ForRun(R, c) /\ c.run = c.after.id

(* A graph as it was loaded at some time: its nodes are of its session.    *)
GraphOK(T, g) ==
  \A n \in DOMAIN g.nodes : /\ n \in NodesIn(T, g.session) /\ IsRow(g.nodes[n])
                            /\ g.nodes[n].session = g.session
                            /\ g.nodes[n].kind = T[n].kind

AnswerOK(T, R, L, a) ==
  \/ a.op = "graph" /\ (ForNone(a) \/ ForEdit(T, a) \/ ForRun(R, a)) /\ GraphOK(T, a.graph)
  \/ a.op = "created" /\ ForNone(a)
  \/ a.op = "saved" /\ (ForEdit(T, a) \/ ForRun(R, a))
  \/ a.op = "layout" /\ a.after = User
  \/ a.op = "logged" /\ ForRun(R, a) /\ \E i \in DOMAIN L : L[i] = a.after.id

TableOK(T, E) == IsList(T) /\ IsList(E) /\ Len(E) = Len(T) /\ \A n \in DOMAIN T : IsRow(T[n])
LogOK(R, L)   == IsList(L) /\ \A i \in DOMAIN L : L[i] \in DOMAIN R /\ R[L[i]].phase # "working"
RunsOK(T, R, L) ==
  /\ IsList(R)
  /\ \A r \in DOMAIN R :
       /\ IsRun(R[r]) /\ R[r].node \in DOMAIN T
       /\ R[r].phase = "over" => \E i \in DOMAIN L : L[i] = r
CallsOK(T, R, C)      == IsList(C) /\ \A i \in DOMAIN C : CallOK(T, R, C[i])
AnswersOK(T, R, L, A) == IsList(A) /\ \A j \in DOMAIN A : AnswerOK(T, R, L, A[j])

-----------------------------------------------------------------------------
(* The graphs the store shows or will show: 0 is the one shown now.        *)
ViewAt(S, A, v) == IF v = 0 THEN S ELSE A[v].graph
Views(A) == {0} \cup {v \in DOMAIN A : A[v].op = "graph"}

Complete(T, D, g) == /\ DOMAIN g.nodes = NodesIn(T, g.session)
                     /\ g.edges = {e \in D : e.session = g.session}
Renews(a, g) == a.op = "graph" \/ (a.op = "created" /\ a.session = g.session)
InData(T, g, n) == g.nodes[n].prompt = T[n].prompt /\ g.nodes[n].last = T[n].last
InPlace(T, g)   == \A n \in DOMAIN g.nodes : g.nodes[n].at = T[n].at

(* A graph is complete, or another one comes after it.                     *)
IsComplete(S, T, D, A, v) ==
  \/ Complete(T, D, ViewAt(S, A, v))
  \/ \E j \in DOMAIN A : v < j /\ Renews(A[j], ViewAt(S, A, v))
ViewsComplete(S, T, D, C, A) ==
  \/ \E i \in DOMAIN C : C[i].op = "get"
  \/ \A v \in Views(A) : IsComplete(S, T, D, A, v)

(* A node's data are those of the table, or the node is being saved.       *)
SavedAfter(R, A, v, n) == \E j \in DOMAIN A : v < j /\ A[j].op = "saved" /\ About(R, A[j], n)
Loading(R, C, A, n) ==
  \/ \E i \in DOMAIN C : C[i].op = "get" /\ About(R, C[i], n)
  \/ \E j \in DOMAIN A : A[j].op = "graph" /\ About(R, A[j], n)
ViewsInData(S, T, R, C, A) ==
  \A v \in Views(A) : \A n \in DOMAIN ViewAt(S, A, v).nodes :
    InData(T, ViewAt(S, A, v), n) \/ SavedAfter(R, A, v, n) \/ (v = 0 /\ Loading(R, C, A, n))

(* The nodes are where the table has them, or a layout was saved since.    *)
LaidOutAfter(A, v) == \E j \in DOMAIN A : v < j /\ A[j].op = "layout"
ViewsInPlace(S, T, A) ==
  \A v \in Views(A) \ {0} : InPlace(T, ViewAt(S, A, v)) \/ LaidOutAfter(A, v)

(* What is drawn is where it will be in the table.                         *)
LayoutComes(C, cv) ==
  \E i \in DOMAIN C : /\ C[i].op = "layout" /\ C[i].places = cv
                      /\ \A j \in DOMAIN C : i < j => C[j].op # "layout"
CanvasIsSaved(T, C, cv, pd) ==
  \/ pd = cv
  \/ pd = NoPlaces /\ (\A n \in DOMAIN cv : cv[n] = T[n].at) /\ \A i \in DOMAIN C : C[i].op # "layout"
  \/ pd = NoPlaces /\ LayoutComes(C, cv)

-----------------------------------------------------------------------------
(* A node that was never saved twice at a time has one message at most     *)
(* that carries it, and none while it runs; then no later run is known.    *)
OneCarrier(R, C, A, n) ==
  /\ \A i, j \in DOMAIN C : Carries(R, C[i], n) /\ Carries(R, C[j], n) => i = j
  /\ \A i, j \in DOMAIN A : Carries(R, A[i], n) /\ Carries(R, A[j], n) => i = j
  /\ \A i \in DOMAIN C, j \in DOMAIN A : ~(Carries(R, C[i], n) /\ Carries(R, A[j], n))
NoCarrier(R, C, A, n) ==
  /\ \A i \in DOMAIN C : ~Carries(R, C[i], n)
  /\ \A j \in DOMAIN A : ~Carries(R, A[j], n)

(* x is the last run of n that has finished, 0 is none.                    *)
LastRun(R, n, x) ==
  \/ x = 0 /\ \A r \in DOMAIN R : R[r].node = n => R[r].phase = "working"
  \/ /\ x \in DOMAIN R /\ R[x].phase # "working" /\ R[x].node = n
     /\ \A r \in DOMAIN R : R[r].node = n /\ R[r].phase # "working" => r <= x

(* Its runs are logged in their order: run r is later than those that are  *)
(* logged and those that are about to be.                                  *)
LogsRun(R, c, n) == c.op = "log" /\ R[c.run].node = n
LaterThanLogged(R, L, n, r) == \A i \in DOMAIN L : R[L[i]].node = n => L[i] < r
LaterThanLogs(R, C, n, r)   == \A k \in DOMAIN C : LogsRun(R, C[k], n) => C[k].run < r
CarriesRun(R, m, n) == Carries(R, m, n) /\ m.after.who = "run"
LogInOrder(R, L, C, A, n) ==
  /\ \A i, j \in DOMAIN L : i < j /\ R[L[i]].node = n /\ R[L[j]].node = n => L[i] < L[j]
  /\ \A k \in DOMAIN C : LogsRun(R, C[k], n) => LaterThanLogged(R, L, n, C[k].run)
  /\ \A k, l \in DOMAIN C : k < l /\ LogsRun(R, C[k], n) /\ LogsRun(R, C[l], n) => C[k].run < C[l].run
  /\ \A k \in DOMAIN C : CarriesRun(R, C[k], n) => LaterThanLogged(R, L, n, C[k].after.id)
                                                   /\ LaterThanLogs(R, C, n, C[k].after.id)
  /\ \A k \in DOMAIN A : CarriesRun(R, A[k], n) => LaterThanLogged(R, L, n, A[k].after.id)
                                                   /\ LaterThanLogs(R, C, n, A[k].after.id)

(* The table has its last edit and run, or the save on its way has.        *)
Saves(c, n) == c.op = "save" /\ c.node = n
SavedLast(T, E, R, C, n) ==
  /\ \/ T[n].prompt = E[n] /\ LastRun(R, n, T[n].last)
     \/ \E i \in DOMAIN C : Saves(C[i], n)
  /\ \A i \in DOMAIN C : Saves(C[i], n) => C[i].prompt = E[n] /\ LastRun(R, n, C[i].last)

Working(R, n, r) == R[r].node = n /\ R[r].phase = "working"
Latest(R, n, r)  == \A q \in DOMAIN R : R[q].node = n => q <= r
InOrderFor(T, E, R, L, C, A, n) ==
  /\ OneCarrier(R, C, A, n) /\ LogInOrder(R, L, C, A, n) /\ SavedLast(T, E, R, C, n)
  /\ \A r \in DOMAIN R : Working(R, n, r) => NoCarrier(R, C, A, n) /\ R[r].prompt = E[n]
                                         /\ Latest(R, n, r)

GraphInv(T, E, D, L, R, S, cv, pd, C, A, lost, cl) ==
  /\ TableOK(T, E) /\ LogOK(R, L) /\ RunsOK(T, R, L) /\ CallsOK(T, R, C) /\ AnswersOK(T, R, L, A)
  /\ GraphOK(T, S) /\ DOMAIN cv = DOMAIN S.nodes
  /\ ViewsComplete(S, T, D, C, A) /\ ViewsInData(S, T, R, C, A) /\ ViewsInPlace(S, T, A)
  /\ ~lost => CanvasIsSaved(T, C, cv, pd)
  /\ \A n \in DOMAIN T \ cl : InOrderFor(T, E, R, L, C, A, n)

FlowInv == GraphInv(rows, edited, edges, log, runs, shown, canvas, pending,
                    graphCalls, graphAnswers, disturbed, clashed)

-----------------------------------------------------------------------------
(* What only grows: messages and graphs stay good.                         *)
TableGrows(T, U) ==
  \A n \in DOMAIN T : n \in DOMAIN U /\ U[n].session = T[n].session /\ U[n].kind = T[n].kind
RunsGrow(R, Q) ==
  \A r \in DOMAIN R : /\ r \in DOMAIN Q /\ Q[r].node = R[r].node
                      /\ R[r].phase # "working" => Q[r].phase # "working"
LogGrows(L, K) == \A i \in DOMAIN L : i \in DOMAIN K /\ K[i] = L[i]

LEMMA NothingGrows ==
  \A T, R, L : TableGrows(T, T) /\ RunsGrow(R, R) /\ LogGrows(L, L)
  BY DEF TableGrows, RunsGrow, LogGrows

LEMMA ForStays ==
  ASSUME NEW T, NEW U, NEW R, NEW Q, TableGrows(T, U), RunsGrow(R, Q), NEW m
  PROVE  (ForEdit(T, m) => ForEdit(U, m)) /\ (ForRun(R, m) => ForRun(Q, m))
  <1>1. ForEdit(T, m) => ForEdit(U, m)
    BY DEF ForEdit, TableGrows
  <1>2. ForRun(R, m) => ForRun(Q, m)
    BY DEF ForRun, RunsGrow
  <1> QED
    BY <1>1, <1>2

(* Whose run a message is about is known from its number.                  *)
LEMMA RunOf ==
  ASSUME NEW R, NEW m, ForRun(R, m)
  PROVE  /\ m.after.who = "run" /\ m.after.id \in DOMAIN R /\ R[m.after.id].phase # "working"
         /\ m.after = OfRun(m.after.id)
  BY DEF ForRun, OfRun

LEMMA WhoIs ==
  /\ User.who = "user" /\ Boot.who = "boot"
  /\ \A n : OfEdit(n).who = "edit" /\ OfEdit(n).id = n
  /\ \A r : OfRun(r).who = "run" /\ OfRun(r).id = r
  BY DEF User, Boot, OfEdit, OfRun

LEMMA CallStays ==
  ASSUME NEW T, NEW U, NEW R, NEW Q, TableGrows(T, U), RunsGrow(R, Q), NEW c, CallOK(T, R, c)
  PROVE  CallOK(U, Q, c)
  <1>1. (ForEdit(T, c) => ForEdit(U, c)) /\ (ForRun(R, c) => ForRun(Q, c))
    BY ForStays
  <1>2. CASE c.op = "save"
    <2>1. c.node \in DOMAIN T /\ (c.after = OfEdit(c.node) \/ (ForRun(R, c) /\ R[c.after.id].node = c.node))
      BY <1>2 DEF CallOK
    <2>2. c.node \in DOMAIN U
      BY <2>1 DEF TableGrows
    <2>3. ForRun(R, c) => Q[c.after.id].node = R[c.after.id].node
      BY RunOf DEF RunsGrow
    <2> QED
      BY <1>1, <1>2, <2>1, <2>2, <2>3 DEF CallOK
  <1>3. CASE c.op # "save"
    BY <1>1, <1>3 DEF CallOK
  <1> QED
    BY <1>2, <1>3

LEMMA GraphStays ==
  ASSUME NEW T, NEW U, TableGrows(T, U), NEW g, GraphOK(T, g)
  PROVE  GraphOK(U, g)
  BY DEF GraphOK, NodesIn, TableGrows

LEMMA AnswerStays ==
  ASSUME NEW T, NEW U, NEW R, NEW Q, NEW L, NEW K, TableGrows(T, U), RunsGrow(R, Q), LogGrows(L, K),
         NEW a, AnswerOK(T, R, L, a)
  PROVE  AnswerOK(U, Q, K, a)
  <1>1. (ForEdit(T, a) => ForEdit(U, a)) /\ (ForRun(R, a) => ForRun(Q, a))
    BY ForStays
  <1>2. GraphOK(T, a.graph) => GraphOK(U, a.graph)
    BY GraphStays
  <1>3. (\E i \in DOMAIN L : L[i] = a.after.id) => \E i \in DOMAIN K : K[i] = a.after.id
    BY DEF LogGrows
  <1> QED
    BY <1>1, <1>2, <1>3 DEF AnswerOK

(* What a message waits for, and about which node it is.                   *)
LEMMA CallFor ==
  ASSUME NEW T, NEW R, NEW c, CallOK(T, R, c)
  PROVE  ForNone(c) \/ ForEdit(T, c) \/ ForRun(R, c)
  BY DEF CallOK, ForNone, ForEdit

LEMMA AnswerFor ==
  ASSUME NEW T, NEW R, NEW L, NEW a, AnswerOK(T, R, L, a)
  PROVE  ForNone(a) \/ ForEdit(T, a) \/ ForRun(R, a)
  BY DEF AnswerOK, ForNone

LEMMA AboutNone ==
  ASSUME NEW R, NEW m, ForNone(m), NEW n
  PROVE  ~About(R, m, n) /\ m.after.who # "run"
  <1>1. m.after.who \in {"user", "boot"}
    BY WhoIs DEF ForNone
  <1>2. m.after # OfEdit(n)
    BY <1>1, WhoIs
  <1> QED
    BY <1>1, <1>2 DEF About

LEMMA AboutEdit ==
  ASSUME NEW R, NEW m, NEW k, m.after = OfEdit(k), NEW n
  PROVE  (About(R, m, n) <=> n = k) /\ m.after.who # "run"
  <1>1. m.after.who = "edit" /\ m.after.id = k
    BY WhoIs
  <1>2. m.after = OfEdit(n) => n = k
    BY <1>1, WhoIs
  <1> QED
    BY <1>1, <1>2 DEF About

LEMMA AboutRun ==
  ASSUME NEW R, NEW m, NEW r, m.after = OfRun(r), NEW n
  PROVE  (About(R, m, n) <=> R[r].node = n) /\ m.after.who = "run" /\ m.after.id = r
  <1>1. m.after.who = "run" /\ m.after.id = r
    BY WhoIs
  <1>2. m.after # OfEdit(n)
    BY <1>1, WhoIs
  <1> QED
    BY <1>1, <1>2 DEF About

LEMMA AboutStays ==
  ASSUME NEW T, NEW R, NEW Q, RunsGrow(R, Q), NEW m,
         ForNone(m) \/ ForEdit(T, m) \/ ForRun(R, m), NEW n
  PROVE  (About(Q, m, n) <=> About(R, m, n)) /\ (Carries(Q, m, n) <=> Carries(R, m, n))
  <1>1. CASE ForNone(m)
    BY <1>1, AboutNone DEF Carries
  <1>2. CASE ForEdit(T, m)
    BY <1>2, AboutEdit DEF ForEdit, Carries
  <1>3. CASE ForRun(R, m)
    <2>1. PICK r \in DOMAIN R : m.after = OfRun(r)
      BY <1>3 DEF ForRun
    <2>2. Q[r].node = R[r].node
      BY DEF RunsGrow
    <2>3. (About(Q, m, n) <=> Q[r].node = n) /\ (About(R, m, n) <=> R[r].node = n)
      BY <2>1, AboutRun
    <2> QED
      BY <2>2, <2>3 DEF Carries
  <1> QED
    BY <1>1, <1>2, <1>3

(* A message with the same after is about the same.                        *)
LEMMA AboutSame ==
  ASSUME NEW R, NEW m, NEW k, m.after = k.after, NEW n
  PROVE  About(R, m, n) <=> About(R, k, n)
  BY DEF About

(* A message is about a node of the table.                                 *)
LEMMA AboutNode ==
  ASSUME NEW T, NEW R, \A r \in DOMAIN R : R[r].node \in DOMAIN T, NEW m,
         ForNone(m) \/ ForEdit(T, m) \/ ForRun(R, m), NEW n, About(R, m, n)
  PROVE  n \in DOMAIN T
  <1>1. CASE ForNone(m)
    BY <1>1, AboutNone
  <1>2. CASE ForEdit(T, m)
    BY <1>2, AboutEdit DEF ForEdit
  <1>3. CASE ForRun(R, m)
    BY <1>3, AboutRun, ZenonT(30) DEF ForRun
  <1> QED
    BY <1>1, <1>2, <1>3

-----------------------------------------------------------------------------
(* What is shown, as messages come and go.                                 *)
Kept(C, B) == \A i \in DOMAIN C : i \in DOMAIN B /\ B[i] = C[i]

LEMMA JoinsKeeps == ASSUME NEW C, NEW B, NEW x, Joins(C, B, x) PROVE Kept(C, B)
  BY JoinedIs DEF Kept

(* More calls under way.                                                   *)
LEMMA ViewsMoreCalls ==
  ASSUME NEW S, NEW T, NEW D, NEW R, NEW Q, NEW L, NEW C, NEW B, NEW A,
         Kept(C, B), RunsGrow(R, Q), CallsOK(T, R, C), AnswersOK(T, R, L, A),
         ViewsComplete(S, T, D, C, A), ViewsInData(S, T, R, C, A)
  PROVE  ViewsComplete(S, T, D, B, A) /\ ViewsInData(S, T, Q, B, A)
  <1>1. /\ \A i \in DOMAIN C : \A n : About(Q, C[i], n) <=> About(R, C[i], n)
        /\ \A j \in DOMAIN A : \A n : About(Q, A[j], n) <=> About(R, A[j], n)
    BY CallFor, AnswerFor, AboutStays DEF CallsOK, AnswersOK
  <1>2. ViewsComplete(S, T, D, B, A)
    BY DEF ViewsComplete, Kept
  <1>3. \A v, n : SavedAfter(R, A, v, n) => SavedAfter(Q, A, v, n)
    BY <1>1 DEF SavedAfter
  <1>4. \A n : Loading(R, C, A, n) => Loading(Q, B, A, n)
    BY <1>1 DEF Loading, Kept
  <1>5. ViewsInData(S, T, Q, B, A)
    BY <1>3, <1>4 DEF ViewsInData
  <1> QED
    BY <1>2, <1>5

(* An answer is handled: a graph is shown, and what tells of a change in   *)
(* the session that is shown asks for the graph again.                     *)
LEMMA ViewsAnswered ==
  ASSUME NEW S, NEW T, NEW D, NEW R, NEW Q, NEW L, NEW C, NEW B, NEW A, NEW Z, NEW a,
         Leaves(A, Z, a), Kept(C, B), RunsGrow(R, Q), CallsOK(T, R, C), AnswersOK(T, R, L, A),
         a.op = "created" /\ a.session = S.session => \E i \in DOMAIN B : B[i].op = "get",
         a.op = "saved" => \E i \in DOMAIN B : B[i].op = "get" /\ B[i].after = a.after,
         ViewsComplete(S, T, D, C, A), ViewsInData(S, T, R, C, A), ViewsInPlace(S, T, A),
         NEW V, V = IF a.op = "graph" THEN a.graph ELSE S
  PROVE  ViewsComplete(V, T, D, B, Z) /\ ViewsInData(V, T, Q, B, Z) /\ ViewsInPlace(V, T, Z)
  <1>1. /\ DOMAIN A \subseteq Nat /\ 1 \in DOMAIN A /\ A[1] = a
        /\ \A i \in DOMAIN Z : i \in Nat /\ 0 < i /\ i + 1 \in DOMAIN A /\ Z[i] = A[i + 1]
        /\ \A i \in DOMAIN A : i = 1 \/ \E j \in DOMAIN Z : i = j + 1
    BY LeftIs
  <1>2. /\ \A i \in DOMAIN C : \A n : About(Q, C[i], n) <=> About(R, C[i], n)
        /\ \A j \in DOMAIN A : \A n : About(Q, A[j], n) <=> About(R, A[j], n)
    BY CallFor, AnswerFor, AboutStays DEF CallsOK, AnswersOK
  (* The view v of now was the view Was(v).                                *)
  <1> DEFINE Was(v) == IF v = 0 /\ a.op # "graph" THEN 0 ELSE v + 1
  <1>3. ASSUME NEW v \in Views(Z)
        PROVE  /\ v \in Nat /\ Was(v) \in Views(A) /\ Was(v) \in Nat
               /\ ViewAt(V, Z, v) = ViewAt(S, A, Was(v))
               /\ v # 0 => Was(v) = v + 1 /\ Was(v) # 0
    <2>1. CASE v = 0 /\ a.op # "graph"
      BY <2>1 DEF Views, ViewAt
    <2>2. CASE v = 0 /\ a.op = "graph"
      BY <1>1, <2>2 DEF Views, ViewAt
    <2>3. CASE v # 0
      <3>1. v \in DOMAIN Z /\ Z[v].op = "graph"
        BY <2>3 DEF Views
      <3>2. v \in Nat /\ 0 < v /\ v + 1 \in DOMAIN A /\ Z[v] = A[v + 1] /\ v + 1 # 0
        BY <1>1, <3>1
      <3> QED
        BY <2>3, <3>1, <3>2 DEF Views, ViewAt
    <2> QED
      BY <2>1, <2>2, <2>3
  (* What came after it comes after it still, or was the answer itself.    *)
  <1>4. ASSUME NEW v \in Views(Z), NEW j \in DOMAIN A, Was(v) < j
        PROVE  \/ j = 1 /\ v = 0 /\ a.op # "graph"
               \/ \E i \in DOMAIN Z : v < i /\ Z[i] = A[j]
    <2>1. v \in Nat /\ j \in Nat /\ Was(v) \in {v, v + 1} /\ (Was(v) # v + 1 => v = 0 /\ a.op # "graph")
      BY <1>1, <1>3
    <2>2. CASE j = 1
      <3>1. ~(v + 1 < 1)
        BY <2>1
      <3>2. Was(v) # v + 1
        BY <1>4, <2>2, <3>1
      <3> QED
        BY <2>1, <2>2, <3>2
    <2>3. CASE j # 1
      <3>1. PICK i \in DOMAIN Z : j = i + 1
        BY <1>1, <2>3
      <3>2. i \in Nat /\ 0 < i /\ Z[i] = A[j]
        BY <1>1, <3>1
      <3>3. v < i
        <4>1. CASE Was(v) = v + 1
          BY <1>4, <2>1, <3>1, <3>2, <4>1
        <4>2. CASE Was(v) # v + 1
          BY <2>1, <3>2, <4>2
        <4> QED
          BY <4>1, <4>2
      <3> QED
        BY <3>2, <3>3
    <2> QED
      BY <2>2, <2>3
  <1> HIDE DEF Was
  <1>5. ViewsComplete(V, T, D, B, Z)
    <2>1. CASE \E i \in DOMAIN C : C[i].op = "get"
      BY <2>1 DEF ViewsComplete, Kept
    <2>2. CASE \E i \in DOMAIN B : B[i].op = "get"
      BY <2>2 DEF ViewsComplete
    <2>3. ASSUME ~(\E i \in DOMAIN C : C[i].op = "get"), ~(\E i \in DOMAIN B : B[i].op = "get"),
                 NEW v \in Views(Z)
          PROVE  IsComplete(V, T, D, Z, v)
      <3>1. IsComplete(S, T, D, A, Was(v)) /\ ViewAt(V, Z, v) = ViewAt(S, A, Was(v))
        BY <1>3, <2>3 DEF ViewsComplete
      <3>2. CASE Complete(T, D, ViewAt(S, A, Was(v)))
        BY <3>1, <3>2 DEF IsComplete
      <3>3. CASE \E j \in DOMAIN A : Was(v) < j /\ Renews(A[j], ViewAt(S, A, Was(v)))
        <4>1. PICK j \in DOMAIN A : Was(v) < j /\ Renews(A[j], ViewAt(V, Z, v))
          BY <3>1, <3>3
        <4>2. CASE j = 1 /\ v = 0 /\ a.op # "graph"
          <5>1. ViewAt(V, Z, v) = S /\ A[j] = a
            BY <1>1, <4>2 DEF ViewAt
          <5>2. a.op = "created" /\ a.session = S.session
            BY <4>1, <4>2, <5>1 DEF Renews
          <5> QED
            BY <2>3, <5>2
        <4>3. CASE \E i \in DOMAIN Z : v < i /\ Z[i] = A[j]
          BY <4>1, <4>3 DEF IsComplete
        <4> QED
          BY <1>4, <4>1, <4>2, <4>3
      <3> QED
        BY <3>1, <3>2, <3>3 DEF IsComplete
    <2> QED
      BY <2>1, <2>2, <2>3 DEF ViewsComplete
  <1>6. ASSUME NEW v \in Views(Z), NEW n \in DOMAIN ViewAt(V, Z, v).nodes
        PROVE  InData(T, ViewAt(V, Z, v), n) \/ SavedAfter(Q, Z, v, n) \/ (v = 0 /\ Loading(Q, B, Z, n))
    <2>1. /\ ViewAt(V, Z, v) = ViewAt(S, A, Was(v)) /\ Was(v) \in Views(A)
          /\ n \in DOMAIN ViewAt(S, A, Was(v)).nodes
      BY <1>3
    <2>2. CASE InData(T, ViewAt(S, A, Was(v)), n)
      BY <2>1, <2>2
    <2>3. CASE SavedAfter(R, A, Was(v), n)
      <3>1. PICK j \in DOMAIN A : Was(v) < j /\ A[j].op = "saved" /\ About(R, A[j], n)
        BY <2>3 DEF SavedAfter
      <3>2. CASE j = 1 /\ v = 0 /\ a.op # "graph"
        <4>1. PICK i \in DOMAIN B : B[i].op = "get" /\ B[i].after = a.after
          BY <1>1, <3>1, <3>2
        <4>2. About(Q, a, n)
          BY <1>1, <1>2, <3>1, <3>2
        <4>3. About(Q, B[i], n)
          BY <4>1, <4>2, AboutSame
        <4> QED
          BY <3>2, <4>1, <4>3 DEF Loading
      <3>3. CASE \E i \in DOMAIN Z : v < i /\ Z[i] = A[j]
        <4>1. About(Q, A[j], n)
          BY <1>2, <3>1
        <4> QED
          BY <3>1, <3>3, <4>1 DEF SavedAfter
      <3> QED
        BY <1>4, <3>1, <3>2, <3>3
    <2>4. CASE Was(v) = 0 /\ Loading(R, C, A, n)
      <3>1. v = 0 /\ a.op # "graph"
        <4>1. v = 0
          BY <1>3, <2>4
        <4>2. 0 + 1 # 0
          OBVIOUS
        <4> QED
          BY <2>4, <4>1, <4>2 DEF Was
      <3>2. CASE \E i \in DOMAIN C : C[i].op = "get" /\ About(R, C[i], n)
        <4>1. PICK i \in DOMAIN C : C[i].op = "get" /\ About(R, C[i], n)
          BY <3>2
        <4>2. i \in DOMAIN B /\ B[i].op = "get" /\ About(Q, B[i], n)
          BY <1>2, <4>1 DEF Kept
        <4> QED
          BY <3>1, <4>2 DEF Loading
      <3>3. CASE \E j \in DOMAIN A : A[j].op = "graph" /\ About(R, A[j], n)
        <4>1. PICK j \in DOMAIN A : A[j].op = "graph" /\ About(R, A[j], n)
          BY <3>3
        <4>2. j # 1
          BY <1>1, <3>1, <4>1
        <4>3. PICK i \in DOMAIN Z : j = i + 1 /\ Z[i] = A[j]
          BY <1>1, <4>2
        <4>4. Z[i].op = "graph" /\ About(Q, Z[i], n)
          BY <1>2, <4>1, <4>3
        <4> QED
          BY <3>1, <4>4 DEF Loading
      <3> QED
        BY <2>4, <3>2, <3>3 DEF Loading
    <2> QED
      BY <2>1, <2>2, <2>3, <2>4 DEF ViewsInData
  <1>7. ASSUME NEW v \in Views(Z) \ {0}
        PROVE  InPlace(T, ViewAt(V, Z, v)) \/ LaidOutAfter(Z, v)
    <2>1. /\ ViewAt(V, Z, v) = ViewAt(S, A, Was(v)) /\ Was(v) \in Views(A) \ {0}
      BY <1>3
    <2>2. CASE InPlace(T, ViewAt(S, A, Was(v)))
      BY <2>1, <2>2
    <2>3. CASE LaidOutAfter(A, Was(v))
      <3>1. PICK j \in DOMAIN A : Was(v) < j /\ A[j].op = "layout"
        BY <2>3 DEF LaidOutAfter
      <3>2. \E i \in DOMAIN Z : v < i /\ Z[i] = A[j]
        BY <1>4, <3>1
      <3> QED
        BY <3>1, <3>2 DEF LaidOutAfter
    <2> QED
      BY <2>1, <2>2, <2>3 DEF ViewsInPlace
  <1> QED
    BY <1>5, <1>6, <1>7 DEF ViewsInData, ViewsInPlace

(* A call is handled.  A graph that was complete, in data or in place is   *)
(* so after it, or the answer makes up for it.                             *)
MakesUp(T, D, R, U, F, a) ==
  /\ \A g : GraphOK(T, g) /\ Complete(T, D, g) => Complete(U, F, g) \/ Renews(a, g)
  /\ \A g : \A n \in DOMAIN g.nodes :
       GraphOK(T, g) /\ InData(T, g, n) => InData(U, g, n) \/ (a.op = "saved" /\ About(R, a, n))
  /\ \A g : GraphOK(T, g) /\ InPlace(T, g) => InPlace(U, g) \/ a.op = "layout"

LEMMA ViewsHandled ==
  ASSUME NEW S, NEW T, NEW D, NEW R, NEW L, NEW C, NEW B, NEW A, NEW Z, NEW a, NEW c, NEW U, NEW F,
         Leaves(C, B, c), Joins(A, Z, a), a.after = c.after, a.op = "graph" <=> c.op = "get",
         MakesUp(T, D, R, U, F, a),
         a.op = "graph" => Complete(U, F, a.graph) /\ InPlace(U, a.graph)
                           /\ \A n \in DOMAIN a.graph.nodes : InData(U, a.graph, n),
         GraphOK(T, S), AnswersOK(T, R, L, A),
         ViewsComplete(S, T, D, C, A), ViewsInData(S, T, R, C, A), ViewsInPlace(S, T, A)
  PROVE  ViewsComplete(S, U, F, B, Z) /\ ViewsInData(S, U, R, B, Z) /\ ViewsInPlace(S, U, Z)
  <1>1. /\ 1 \in DOMAIN C /\ C[1] = c
        /\ \A i \in DOMAIN C : i = 1 \/ \E j \in DOMAIN B : i = j + 1 /\ B[j] = C[i]
    BY LeftIs
  <1>2. PICK z \in DOMAIN Z : /\ Z[z] = a /\ z \notin DOMAIN A /\ \A i \in DOMAIN A : i < z
                              /\ \A i \in DOMAIN Z : i \in DOMAIN A \/ i = z
    BY JoinedIs
  <1>3. /\ \A i \in DOMAIN A : i \in DOMAIN Z /\ Z[i] = A[i]
        /\ DOMAIN Z \subseteq Nat /\ z \in Nat
    BY <1>2, JoinedIs
  <1>4. IsList(Z) /\ z # 0 /\ 0 < z
    <2>1. IsList(Z)
      BY DEF Joins
    <2>2. DOMAIN Z = 1 .. Len(Z) /\ Len(Z) \in Nat
      BY <2>1, ListDomain
    <2> QED
      BY <1>2, <2>1, <2>2
  (* A view is the new answer's graph, or was one and is so still.         *)
  <1>5. ASSUME NEW v \in Views(Z)
        PROVE  \/ v = z /\ a.op = "graph" /\ ViewAt(S, Z, v) = a.graph
               \/ v \in Views(A) /\ v < z /\ ViewAt(S, Z, v) = ViewAt(S, A, v)
    <2>1. CASE v = 0
      BY <1>4, <2>1 DEF Views, ViewAt
    <2>2. CASE v # 0 /\ v = z
      BY <1>2, <2>2 DEF Views, ViewAt
    <2>3. CASE v # 0 /\ v # z
      <3>1. v \in DOMAIN A /\ Z[v] = A[v] /\ v < z
        BY <1>2, <1>3, <2>3 DEF Views
      <3> QED
        BY <2>3, <3>1 DEF Views, ViewAt
    <2> QED
      BY <2>1, <2>2, <2>3
  <1>6. \A v \in Views(A) : GraphOK(T, ViewAt(S, A, v))
    <2>1. ASSUME NEW v \in Views(A) PROVE GraphOK(T, ViewAt(S, A, v))
      <3>1. CASE v = 0
        BY <3>1 DEF ViewAt
      <3>2. CASE v # 0
        <4>1. v \in DOMAIN A /\ A[v].op = "graph" /\ AnswerOK(T, R, L, A[v])
          BY <3>2 DEF Views, AnswersOK
        <4> QED
          BY <3>2, <4>1 DEF AnswerOK, ViewAt
      <3> QED
        BY <3>1, <3>2
    <2> QED
      BY <2>1
  <1>7. ViewsComplete(S, U, F, B, Z)
    <2>1. CASE a.op = "graph"
      <3>1. ASSUME NEW v \in Views(Z) PROVE IsComplete(S, U, F, Z, v)
        <4>1. CASE v = z /\ ViewAt(S, Z, v) = a.graph
          BY <2>1, <4>1 DEF IsComplete
        <4>2. CASE v < z
          BY <1>2, <2>1, <4>2 DEF IsComplete, Renews
        <4> QED
          BY <1>5, <4>1, <4>2
      <3> QED
        BY <3>1 DEF ViewsComplete
    <2>2. CASE a.op # "graph" /\ \E i \in DOMAIN C : C[i].op = "get"
      <3>1. PICK i \in DOMAIN C : C[i].op = "get"
        BY <2>2
      <3>2. i # 1
        BY <1>1, <2>2, <3>1
      <3>3. \E j \in DOMAIN B : B[j].op = "get"
        BY <1>1, <3>1, <3>2
      <3> QED
        BY <3>3 DEF ViewsComplete
    <2>3. CASE a.op # "graph" /\ ~\E i \in DOMAIN C : C[i].op = "get"
      <3>1. ASSUME NEW v \in Views(Z) PROVE IsComplete(S, U, F, Z, v)
        <4>1. v \in Views(A) /\ v < z /\ ViewAt(S, Z, v) = ViewAt(S, A, v) /\ GraphOK(T, ViewAt(S, A, v))
          BY <1>5, <1>6, <2>3
        <4>2. IsComplete(S, T, D, A, v)
          BY <2>3, <4>1 DEF ViewsComplete
        <4>3. CASE Complete(T, D, ViewAt(S, A, v))
          <5>1. Complete(U, F, ViewAt(S, A, v)) \/ Renews(a, ViewAt(S, A, v))
            BY <4>1, <4>3 DEF MakesUp
          <5> QED
            BY <1>2, <4>1, <5>1 DEF IsComplete
        <4>4. CASE \E j \in DOMAIN A : v < j /\ Renews(A[j], ViewAt(S, A, v))
          BY <1>3, <4>1, <4>4 DEF IsComplete
        <4> QED
          BY <4>2, <4>3, <4>4 DEF IsComplete
      <3> QED
        BY <3>1 DEF ViewsComplete
    <2> QED
      BY <2>1, <2>2, <2>3
  <1>8. ASSUME NEW v \in Views(Z), NEW n \in DOMAIN ViewAt(S, Z, v).nodes
        PROVE  InData(U, ViewAt(S, Z, v), n) \/ SavedAfter(R, Z, v, n) \/ (v = 0 /\ Loading(R, B, Z, n))
    <2>1. CASE v = z /\ a.op = "graph" /\ ViewAt(S, Z, v) = a.graph
      BY <2>1
    <2>2. CASE v \in Views(A) /\ v < z /\ ViewAt(S, Z, v) = ViewAt(S, A, v)
      <3>1. GraphOK(T, ViewAt(S, A, v)) /\ n \in DOMAIN ViewAt(S, A, v).nodes
        BY <1>6, <2>2
      <3>2. CASE InData(T, ViewAt(S, A, v), n)
        <4>1. InData(U, ViewAt(S, A, v), n) \/ (a.op = "saved" /\ About(R, a, n))
          BY <3>1, <3>2 DEF MakesUp
        <4> QED
          BY <1>2, <2>2, <4>1 DEF SavedAfter
      <3>3. CASE SavedAfter(R, A, v, n)
        BY <1>3, <3>3 DEF SavedAfter
      <3>4. CASE v = 0 /\ Loading(R, C, A, n)
        <4>1. CASE \E i \in DOMAIN C : C[i].op = "get" /\ About(R, C[i], n)
          <5>1. PICK i \in DOMAIN C : C[i].op = "get" /\ About(R, C[i], n)
            BY <4>1
          <5>2. CASE i = 1
            <6>1. a.op = "graph" /\ About(R, a, n)
              BY <1>1, <5>1, <5>2, AboutSame
            <6> QED
              BY <1>2, <3>4, <6>1 DEF Loading
          <5>3. CASE i # 1
            BY <1>1, <3>4, <5>1, <5>3 DEF Loading
          <5> QED
            BY <5>2, <5>3
        <4>2. CASE \E j \in DOMAIN A : A[j].op = "graph" /\ About(R, A[j], n)
          BY <1>3, <3>4, <4>2 DEF Loading
        <4> QED
          BY <3>4, <4>1, <4>2 DEF Loading
      <3> QED
        BY <2>2, <3>1, <3>2, <3>3, <3>4 DEF ViewsInData
    <2> QED
      BY <1>5, <2>1, <2>2
  <1>9. ASSUME NEW v \in Views(Z) \ {0}
        PROVE  InPlace(U, ViewAt(S, Z, v)) \/ LaidOutAfter(Z, v)
    <2>1. CASE v = z /\ a.op = "graph" /\ ViewAt(S, Z, v) = a.graph
      BY <2>1
    <2>2. CASE v \in Views(A) /\ v < z /\ ViewAt(S, Z, v) = ViewAt(S, A, v)
      <3>1. GraphOK(T, ViewAt(S, A, v))
        BY <1>6, <2>2
      <3>2. CASE InPlace(T, ViewAt(S, A, v))
        <4>1. InPlace(U, ViewAt(S, A, v)) \/ a.op = "layout"
          BY <3>1, <3>2 DEF MakesUp
        <4> QED
          BY <1>2, <2>2, <4>1 DEF LaidOutAfter
      <3>3. CASE LaidOutAfter(A, v)
        BY <1>3, <3>3 DEF LaidOutAfter
      <3> QED
        BY <2>2, <3>2, <3>3 DEF ViewsInPlace
    <2> QED
      BY <1>5, <2>1, <2>2
  <1> QED
    BY <1>7, <1>8, <1>9 DEF ViewsInData, ViewsInPlace

(* The calls, one by one: nothing changes, a node more, an edge more, the  *)
(* data of a node, the places of nodes.                                    *)
LEMMA SameAnswers ==
  ASSUME NEW T, NEW D, NEW R, NEW a
  PROVE  MakesUp(T, D, R, T, D, a)
  BY DEF MakesUp

LEMMA NodeAnswers ==
  ASSUME NEW T, IsList(T), NEW D, NEW R, NEW U, NEW x, Joins(T, U, x), NEW a,
         a.op = "created" /\ a.session = x.session
  PROVE  MakesUp(T, D, R, U, D, a)
  <1>1. PICK z : /\ z \in DOMAIN U /\ U[z] = x /\ z \notin DOMAIN T
                 /\ \A i \in DOMAIN U : i \in DOMAIN T \/ i = z
    BY JoinedIs
  <1>2. \A i \in DOMAIN T : i \in DOMAIN U /\ U[i] = T[i]
    BY JoinedIs
  <1>3. ASSUME NEW g, Complete(T, D, g)
        PROVE  Complete(U, D, g) \/ Renews(a, g)
    <2>1. CASE x.session = g.session
      BY <2>1 DEF Renews
    <2>2. CASE x.session # g.session
      <3>1. NodesIn(U, g.session) = NodesIn(T, g.session)
        BY <1>1, <1>2, <2>2 DEF NodesIn
      <3> QED
        BY <1>3, <3>1 DEF Complete
    <2> QED
      BY <2>1, <2>2
  <1>4. ASSUME NEW g, GraphOK(T, g), NEW n \in DOMAIN g.nodes
        PROVE  U[n] = T[n]
    BY <1>2, <1>4 DEF GraphOK, NodesIn
  <1> QED
    BY <1>3, <1>4 DEF MakesUp, InData, InPlace

LEMMA EdgeAnswers ==
  ASSUME NEW T, NEW D, NEW R, NEW F, NEW e, F = D \cup {e}, NEW a,
         a.op = "created" /\ a.session = e.session
  PROVE  MakesUp(T, D, R, T, F, a)
  <1>1. ASSUME NEW g, Complete(T, D, g)
        PROVE  Complete(T, F, g) \/ Renews(a, g)
    <2>1. CASE e.session = g.session
      BY <2>1 DEF Renews
    <2>2. CASE e.session # g.session
      BY <1>1, <2>2 DEF Complete
    <2> QED
      BY <2>1, <2>2
  <1> QED
    BY <1>1 DEF MakesUp

LEMMA SaveAnswers ==
  ASSUME NEW T, NEW D, NEW R, NEW U, NEW k \in DOMAIN T, DOMAIN U = DOMAIN T,
         \A n \in DOMAIN T : n # k => U[n] = T[n],
         U[k].session = T[k].session /\ U[k].at = T[k].at,
         NEW a, a.op = "saved" /\ About(R, a, k)
  PROVE  MakesUp(T, D, R, U, D, a)
  <1>1. \A n \in DOMAIN T : U[n].session = T[n].session /\ U[n].at = T[n].at
    OBVIOUS
  <1>2. \A s : NodesIn(U, s) = NodesIn(T, s)
    BY <1>1 DEF NodesIn
  <1>3. \A g : Complete(T, D, g) => Complete(U, D, g)
    BY <1>2 DEF Complete
  <1>4. \A g : GraphOK(T, g) => DOMAIN g.nodes \subseteq DOMAIN T
    BY DEF GraphOK, NodesIn
  <1>5. ASSUME NEW g, NEW n \in DOMAIN g.nodes, GraphOK(T, g), InData(T, g, n)
        PROVE  InData(U, g, n) \/ (a.op = "saved" /\ About(R, a, n))
    BY <1>4, <1>5 DEF InData
  <1>6. ASSUME NEW g, GraphOK(T, g), InPlace(T, g)
        PROVE  InPlace(U, g)
    BY <1>1, <1>4, <1>6 DEF InPlace
  <1> QED
    BY <1>3, <1>5, <1>6 DEF MakesUp

LEMMA LayoutAnswers ==
  ASSUME NEW T, NEW D, NEW R, NEW U, DOMAIN U = DOMAIN T,
         \A n \in DOMAIN T : /\ U[n].session = T[n].session /\ U[n].prompt = T[n].prompt
                             /\ U[n].last = T[n].last,
         NEW a, a.op = "layout"
  PROVE  MakesUp(T, D, R, U, D, a)
  <1>1. \A s : NodesIn(U, s) = NodesIn(T, s)
    BY DEF NodesIn
  <1>2. \A g : Complete(T, D, g) => Complete(U, D, g)
    BY <1>1 DEF Complete
  <1>3. ASSUME NEW g, NEW n \in DOMAIN g.nodes, GraphOK(T, g), InData(T, g, n)
        PROVE  InData(U, g, n)
    <2>1. n \in DOMAIN T
      BY <1>3 DEF GraphOK, NodesIn
    <2> QED
      BY <1>3, <2>1 DEF InData
  <1> QED
    BY <1>2, <1>3 DEF MakesUp

-----------------------------------------------------------------------------
(* The saves and the logs of one node.  What is told of a node depends on  *)
(* its own row and edit only.                                              *)
LEMMA OrderSameRow ==
  ASSUME NEW T, NEW U, NEW E, NEW G, NEW R, NEW L, NEW C, NEW A, NEW n,
         U[n].prompt = T[n].prompt, U[n].last = T[n].last, G[n] = E[n],
         InOrderFor(T, E, R, L, C, A, n)
  PROVE  InOrderFor(U, G, R, L, C, A, n)
  <1>1. SavedLast(U, G, R, C, n)
    BY DEF InOrderFor, SavedLast
  <1> QED
    BY <1>1 DEF InOrderFor

(* A call more.                                                            *)
LEMMA CarrierJoins ==
  ASSUME NEW R, NEW C, NEW B, NEW A, NEW n, NEW c, Joins(C, B, c), OneCarrier(R, C, A, n),
         Carries(R, c, n) => NoCarrier(R, C, A, n)
  PROVE  OneCarrier(R, B, A, n) /\ (~Carries(R, c, n) /\ NoCarrier(R, C, A, n) => NoCarrier(R, B, A, n))
  <1>1. PICK z \in DOMAIN B : /\ B[z] = c /\ z \notin DOMAIN C
                              /\ \A i \in DOMAIN B : i \in DOMAIN C \/ i = z
    BY JoinedIs
  <1>2. \A i \in DOMAIN C : i \in DOMAIN B /\ B[i] = C[i]
    BY JoinedIs
  <1>3. ~Carries(R, c, n) /\ NoCarrier(R, C, A, n) => NoCarrier(R, B, A, n)
    BY <1>1, <1>2 DEF NoCarrier
  <1>4. ASSUME NEW i \in DOMAIN B, NEW j \in DOMAIN B, Carries(R, B[i], n), Carries(R, B[j], n)
        PROVE  i = j
    <2>1. CASE i \in DOMAIN C /\ j \in DOMAIN C
      BY <1>2, <1>4, <2>1 DEF OneCarrier
    <2>2. CASE i = z /\ j \in DOMAIN C
      BY <1>1, <1>2, <1>4, <2>2 DEF NoCarrier
    <2>3. CASE i \in DOMAIN C /\ j = z
      BY <1>1, <1>2, <1>4, <2>3 DEF NoCarrier
    <2> QED
      BY <1>1, <2>1, <2>2, <2>3
  <1>5. ASSUME NEW i \in DOMAIN B, NEW j \in DOMAIN A, Carries(R, B[i], n), Carries(R, A[j], n)
        PROVE  FALSE
    BY <1>1, <1>2, <1>5 DEF OneCarrier, NoCarrier
  <1> QED
    BY <1>3, <1>4, <1>5 DEF OneCarrier

LEMMA LogJoins ==
  ASSUME NEW R, NEW L, NEW C, NEW B, NEW A, NEW n, NEW c, Joins(C, B, c), LogInOrder(R, L, C, A, n),
         CarriesRun(R, c, n) => LaterThanLogged(R, L, n, c.after.id) /\ LaterThanLogs(R, C, n, c.after.id),
         LogsRun(R, c, n) => /\ LaterThanLogged(R, L, n, c.run) /\ LaterThanLogs(R, C, n, c.run)
                             /\ NoCarrier(R, C, A, n)
  PROVE  LogInOrder(R, L, B, A, n)
  <1>1. PICK z \in DOMAIN B : /\ B[z] = c /\ z \notin DOMAIN C /\ \A i \in DOMAIN C : i < z
                              /\ \A i \in DOMAIN B : i \in DOMAIN C \/ i = z
    BY JoinedIs
  <1>2. /\ \A i \in DOMAIN C : i \in DOMAIN B /\ B[i] = C[i]
        /\ DOMAIN B \subseteq Nat
    BY JoinedIs
  <1>3. ~(CarriesRun(R, c, n) /\ LogsRun(R, c, n))
    BY DEF CarriesRun, Carries, LogsRun
  <1>4. \A k \in DOMAIN B : LogsRun(R, B[k], n) => LaterThanLogged(R, L, n, B[k].run)
    BY <1>1, <1>2 DEF LogInOrder
  <1>5. ASSUME NEW k \in DOMAIN B, NEW l \in DOMAIN B, k < l, LogsRun(R, B[k], n), LogsRun(R, B[l], n)
        PROVE  B[k].run < B[l].run
    <2>1. k \in DOMAIN C
      <3>1. CASE k = z
        <4>1. l \in DOMAIN C => l < k
          BY <1>1, <3>1
        <4>2. k \in Nat /\ l \in Nat
          BY <1>2
        <4> QED
          BY <1>1, <1>5, <3>1, <4>1, <4>2
      <3> QED
        BY <1>1, <3>1
    <2>2. CASE l \in DOMAIN C
      BY <1>2, <1>5, <2>1, <2>2 DEF LogInOrder
    <2>3. CASE l = z
      BY <1>1, <1>2, <1>5, <2>1, <2>3 DEF LaterThanLogs
    <2> QED
      BY <1>1, <2>2, <2>3
  <1>6. ASSUME NEW m, NEW x, LaterThanLogs(R, C, n, x), LogsRun(R, c, n) => c.run < x
        PROVE  LaterThanLogs(R, B, n, x)
    BY <1>1, <1>2, <1>6 DEF LaterThanLogs
  <1>7. ASSUME NEW k \in DOMAIN B, CarriesRun(R, B[k], n)
        PROVE  LaterThanLogged(R, L, n, B[k].after.id) /\ LaterThanLogs(R, B, n, B[k].after.id)
    <2>1. CASE k = z
      BY <1>1, <1>3, <1>6, <1>7, <2>1
    <2>2. CASE k \in DOMAIN C
      <3>1. CarriesRun(R, C[k], n) /\ B[k] = C[k]
        BY <1>2, <1>7, <2>2
      <3>2. ~LogsRun(R, c, n)
        BY <2>2, <3>1 DEF NoCarrier, CarriesRun
      <3>3. LaterThanLogged(R, L, n, C[k].after.id) /\ LaterThanLogs(R, C, n, C[k].after.id)
        BY <2>2, <3>1 DEF LogInOrder
      <3> QED
        BY <1>6, <3>1, <3>2, <3>3
    <2> QED
      BY <1>1, <2>1, <2>2
  <1>8. ASSUME NEW k \in DOMAIN A, CarriesRun(R, A[k], n)
        PROVE  LaterThanLogged(R, L, n, A[k].after.id) /\ LaterThanLogs(R, B, n, A[k].after.id)
    <2>1. ~LogsRun(R, c, n)
      BY <1>8 DEF NoCarrier, CarriesRun
    <2>2. LaterThanLogged(R, L, n, A[k].after.id) /\ LaterThanLogs(R, C, n, A[k].after.id)
      BY <1>8 DEF LogInOrder
    <2> QED
      BY <1>6, <2>1, <2>2
  <1>9. \A i, j \in DOMAIN L : i < j /\ R[L[i]].node = n /\ R[L[j]].node = n => L[i] < L[j]
    BY DEF LogInOrder
  <1> QED
    BY <1>4, <1>5, <1>7, <1>8, <1>9 DEF LogInOrder

LEMMA SavedJoins ==
  ASSUME NEW T, NEW E, NEW R, NEW C, NEW B, NEW n, NEW c, Joins(C, B, c), SavedLast(T, E, R, C, n),
         ~Saves(c, n)
  PROVE  SavedLast(T, E, R, B, n)
  <1>1. PICK z \in DOMAIN B : B[z] = c /\ \A i \in DOMAIN B : i \in DOMAIN C \/ i = z
    BY JoinedIs
  <1>2. \A i \in DOMAIN C : i \in DOMAIN B /\ B[i] = C[i]
    BY JoinedIs
  <1> QED
    BY <1>1, <1>2 DEF SavedLast

LEMMA SaveJoins ==
  ASSUME NEW T, NEW E, NEW R, NEW C, NEW B, NEW n, NEW c, Joins(C, B, c),
         \A i \in DOMAIN C : ~Saves(C[i], n),
         Saves(c, n), c.prompt = E[n], LastRun(R, n, c.last)
  PROVE  SavedLast(T, E, R, B, n)
  <1>1. PICK z \in DOMAIN B : B[z] = c /\ \A i \in DOMAIN B : i \in DOMAIN C \/ i = z
    BY JoinedIs
  <1>2. \A i \in DOMAIN C : i \in DOMAIN B /\ B[i] = C[i]
    BY JoinedIs
  <1> QED
    BY <1>1, <1>2 DEF SavedLast

(* What saves a node carries it.                                           *)
LEMMA SavesCarries ==
  ASSUME NEW T, NEW R, NEW c, CallOK(T, R, c), NEW n, Saves(c, n)
  PROVE  Carries(R, c, n)
  <1>1. c.op = "save" /\ c.node = n
    BY DEF Saves
  <1>2. c.after = OfEdit(n) \/ (ForRun(R, c) /\ R[c.after.id].node = n)
    BY <1>1 DEF CallOK
  <1>3. About(R, c, n)
    BY <1>2, RunOf DEF About
  <1> QED
    BY <1>1, <1>3 DEF Carries

(* A call that is about another node, or about none.                       *)
LEMMA OrderPlainCall ==
  ASSUME NEW T, NEW E, NEW R, NEW L, NEW C, NEW B, NEW A, NEW n, NEW c, Joins(C, B, c),
         ~Carries(R, c, n), ~LogsRun(R, c, n), ~Saves(c, n),
         InOrderFor(T, E, R, L, C, A, n)
  PROVE  InOrderFor(T, E, R, L, B, A, n)
  <1>1. OneCarrier(R, B, A, n) /\ (NoCarrier(R, C, A, n) => NoCarrier(R, B, A, n))
    BY CarrierJoins DEF InOrderFor
  <1>2. LogInOrder(R, L, B, A, n)
    BY LogJoins DEF InOrderFor, CarriesRun
  <1>3. SavedLast(T, E, R, B, n)
    BY SavedJoins DEF InOrderFor
  <1> QED
    BY <1>1, <1>2, <1>3 DEF InOrderFor

(* A call that carries a node that nothing carries and that does not work. *)
LEMMA OrderCarriedCall ==
  ASSUME NEW T, NEW E, NEW R, NEW L, NEW C, NEW B, NEW A, NEW n, NEW c, Joins(C, B, c),
         Carries(R, c, n), NoCarrier(R, C, A, n), \A r \in DOMAIN R : ~Working(R, n, r),
         CarriesRun(R, c, n) => LaterThanLogged(R, L, n, c.after.id) /\ LaterThanLogs(R, C, n, c.after.id),
         OneCarrier(R, C, A, n), LogInOrder(R, L, C, A, n), SavedLast(T, E, R, B, n)
  PROVE  InOrderFor(T, E, R, L, B, A, n)
  <1>1. OneCarrier(R, B, A, n)
    BY CarrierJoins
  <1>2. ~LogsRun(R, c, n)
    BY DEF LogsRun, Carries
  <1>3. LogInOrder(R, L, B, A, n)
    BY <1>2, LogJoins
  <1> QED
    BY <1>1, <1>3 DEF InOrderFor

(* The runs change: those of n keep their prompt and go on working or not, *)
(* what comes in is at work and finds n carried by nothing.                *)
RunsAlikeFor(R, Q, n) ==
  /\ RunsGrow(R, Q)
  /\ \A r \in DOMAIN R : R[r].node = n =>
       Q[r].prompt = R[r].prompt /\ (Q[r].phase = "working" <=> R[r].phase = "working")
  /\ \A r \in DOMAIN Q : r \in DOMAIN R \/ Q[r].node # n \/ Q[r].phase = "working"

LEMMA LastRunAlike ==
  ASSUME NEW R, NEW Q, NEW n, RunsAlikeFor(R, Q, n), NEW x, LastRun(R, n, x)
  PROVE  LastRun(Q, n, x)
  <1>1. \A r \in DOMAIN Q : Q[r].node = n /\ Q[r].phase # "working"
                              => r \in DOMAIN R /\ R[r].node = n /\ R[r].phase # "working"
    BY DEF RunsAlikeFor, RunsGrow
  <1>2. CASE x = 0 /\ \A r \in DOMAIN R : R[r].node = n => R[r].phase = "working"
    BY <1>1, <1>2 DEF LastRun
  <1>3. CASE /\ x \in DOMAIN R /\ R[x].phase # "working" /\ R[x].node = n
             /\ \A r \in DOMAIN R : R[r].node = n /\ R[r].phase # "working" => r <= x
    <2>1. x \in DOMAIN Q /\ Q[x].phase # "working" /\ Q[x].node = n
      BY <1>3 DEF RunsAlikeFor, RunsGrow
    <2> QED
      BY <1>1, <1>3, <2>1 DEF LastRun
  <1> QED
    BY <1>2, <1>3 DEF LastRun

LEMMA OrderRuns ==
  ASSUME NEW T, NEW E, NEW R, NEW Q, NEW L, NEW C, NEW A, NEW n, RunsAlikeFor(R, Q, n),
         LogOK(R, L), CallsOK(T, R, C), AnswersOK(T, R, L, A),
         \A r \in DOMAIN Q : r \notin DOMAIN R /\ Q[r].node = n
                               => NoCarrier(R, C, A, n) /\ Q[r].prompt = E[n] /\ Latest(Q, n, r)
                                  /\ \A q \in DOMAIN R : ~Working(R, n, q),
         InOrderFor(T, E, R, L, C, A, n)
  PROVE  InOrderFor(T, E, Q, L, C, A, n)
  <1>1. /\ \A i \in DOMAIN C : Carries(Q, C[i], n) <=> Carries(R, C[i], n)
        /\ \A j \in DOMAIN A : Carries(Q, A[j], n) <=> Carries(R, A[j], n)
    BY CallFor, AnswerFor, AboutStays DEF CallsOK, AnswersOK, RunsAlikeFor
  <1>2. /\ \A i \in DOMAIN C : CarriesRun(Q, C[i], n) <=> CarriesRun(R, C[i], n)
        /\ \A j \in DOMAIN A : CarriesRun(Q, A[j], n) <=> CarriesRun(R, A[j], n)
    BY <1>1 DEF CarriesRun
  <1>3. ASSUME NEW i \in DOMAIN C
        PROVE  LogsRun(Q, C[i], n) <=> LogsRun(R, C[i], n)
    <2>1. CASE C[i].op = "log"
      <3>1. ForRun(R, C[i]) /\ C[i].run = C[i].after.id
        BY <2>1 DEF CallsOK, CallOK
      <3>2. C[i].run \in DOMAIN R
        BY <3>1, RunOf
      <3>3. Q[C[i].run].node = R[C[i].run].node
        BY <3>2 DEF RunsAlikeFor, RunsGrow
      <3> QED
        BY <3>3 DEF LogsRun
    <2> QED
      BY <2>1 DEF LogsRun
  <1>4. \A i \in DOMAIN L : Q[L[i]].node = R[L[i]].node
    BY DEF LogOK, RunsAlikeFor, RunsGrow
  <1>5. \A x : LaterThanLogged(R, L, n, x) => LaterThanLogged(Q, L, n, x)
    BY <1>4 DEF LaterThanLogged
  <1>6. \A x : LaterThanLogs(R, C, n, x) => LaterThanLogs(Q, C, n, x)
    BY <1>3 DEF LaterThanLogs
  <1>7. OneCarrier(Q, C, A, n) /\ (NoCarrier(R, C, A, n) => NoCarrier(Q, C, A, n))
    BY <1>1 DEF InOrderFor, OneCarrier, NoCarrier
  <1>8. LogInOrder(R, L, C, A, n)
    BY DEF InOrderFor
  <1>9. LogInOrder(Q, L, C, A, n)
    BY <1>2, <1>3, <1>4, <1>5, <1>6, <1>8 DEF LogInOrder
  <1>10. SavedLast(T, E, R, C, n) /\ \A x : LastRun(R, n, x) => LastRun(Q, n, x)
    BY LastRunAlike DEF InOrderFor
  <1>11. SavedLast(T, E, Q, C, n)
    BY <1>10 DEF SavedLast
  <1>12. ASSUME NEW r \in DOMAIN Q, Working(Q, n, r)
         PROVE  NoCarrier(R, C, A, n) /\ Q[r].prompt = E[n] /\ Latest(Q, n, r)
    <2>1. CASE r \in DOMAIN R
      <3>1. Working(R, n, r) /\ Q[r].prompt = R[r].prompt
        BY <1>12, <2>1 DEF Working, RunsAlikeFor, RunsGrow
      <3>2. NoCarrier(R, C, A, n) /\ R[r].prompt = E[n] /\ Latest(R, n, r)
        BY <2>1, <3>1 DEF InOrderFor
      <3>3. \A q \in DOMAIN Q : Q[q].node = n => q \in DOMAIN R /\ R[q].node = n
        BY <2>1, <3>1 DEF RunsAlikeFor, RunsGrow
      <3> QED
        BY <3>1, <3>2, <3>3 DEF Latest
    <2>2. CASE r \notin DOMAIN R
      BY <1>12, <2>2 DEF Working
    <2> QED
      BY <2>1, <2>2
  <1> QED
    BY <1>7, <1>9, <1>11, <1>12 DEF InOrderFor

(* An answer is gone.                                                      *)
LEMMA OrderAnswered ==
  ASSUME NEW T, NEW E, NEW R, NEW L, NEW C, NEW A, NEW Z, NEW n, NEW a, Leaves(A, Z, a),
         InOrderFor(T, E, R, L, C, A, n)
  PROVE  /\ InOrderFor(T, E, R, L, C, Z, n)
         /\ Carries(R, a, n) => /\ NoCarrier(R, C, Z, n) /\ \A r \in DOMAIN R : ~Working(R, n, r)
         /\ CarriesRun(R, a, n) => LaterThanLogged(R, L, n, a.after.id) /\ LaterThanLogs(R, C, n, a.after.id)
  <1>1. /\ DOMAIN A \subseteq Nat /\ 1 \in DOMAIN A /\ A[1] = a
        /\ \A i \in DOMAIN Z : i \in Nat /\ 0 < i /\ i + 1 \in DOMAIN A /\ Z[i] = A[i + 1]
    BY LeftIs
  <1>2. OneCarrier(R, C, A, n) /\ LogInOrder(R, L, C, A, n)
    BY DEF InOrderFor
  <1>3. ASSUME NEW i \in DOMAIN Z, NEW j \in DOMAIN Z, Carries(R, Z[i], n), Carries(R, Z[j], n)
        PROVE  i = j
    <2>1. i + 1 = j + 1
      BY <1>1, <1>2, <1>3 DEF OneCarrier
    <2> QED
      BY <1>1, <2>1
  <1>4. OneCarrier(R, C, Z, n)
    BY <1>1, <1>2, <1>3 DEF OneCarrier
  <1>5. LogInOrder(R, L, C, Z, n)
    BY <1>1, <1>2 DEF LogInOrder
  <1>6. NoCarrier(R, C, A, n) => NoCarrier(R, C, Z, n)
    BY <1>1 DEF NoCarrier
  <1>7. InOrderFor(T, E, R, L, C, Z, n)
    BY <1>4, <1>5, <1>6 DEF InOrderFor
  <1>8. ASSUME Carries(R, a, n)
        PROVE  NoCarrier(R, C, Z, n) /\ \A r \in DOMAIN R : ~Working(R, n, r)
    <2>1. \A i \in DOMAIN C : ~Carries(R, C[i], n)
      BY <1>1, <1>2, <1>8 DEF OneCarrier
    <2>2. ASSUME NEW j \in DOMAIN Z, Carries(R, Z[j], n)
          PROVE  FALSE
      <3>1. j + 1 = 1
        BY <1>1, <1>2, <1>8, <2>2 DEF OneCarrier
      <3> QED
        BY <1>1, <3>1
    <2>3. ~NoCarrier(R, C, A, n)
      BY <1>1, <1>8 DEF NoCarrier
    <2> QED
      BY <2>1, <2>2, <2>3 DEF NoCarrier, InOrderFor
  <1>9. ASSUME CarriesRun(R, a, n)
        PROVE  LaterThanLogged(R, L, n, a.after.id) /\ LaterThanLogs(R, C, n, a.after.id)
    BY <1>1, <1>2, <1>9 DEF LogInOrder
  <1> QED
    BY <1>7, <1>8, <1>9

(* A call is handled: its answer carries what it carried.                  *)
LEMMA CarrierMoves ==
  ASSUME NEW R, NEW C, NEW B, NEW A, NEW Z, NEW n, NEW c, NEW a, Leaves(C, B, c), Joins(A, Z, a),
         Carries(R, a, n) <=> Carries(R, c, n), OneCarrier(R, C, A, n)
  PROVE  OneCarrier(R, B, Z, n) /\ (NoCarrier(R, C, A, n) => NoCarrier(R, B, Z, n))
  <1>1. /\ DOMAIN C \subseteq Nat /\ 1 \in DOMAIN C /\ C[1] = c
        /\ \A i \in DOMAIN B : i \in Nat /\ 0 < i /\ i + 1 \in DOMAIN C /\ B[i] = C[i + 1]
    BY LeftIs
  <1>2. PICK z \in DOMAIN Z : /\ Z[z] = a /\ z \notin DOMAIN A
                              /\ \A i \in DOMAIN Z : i \in DOMAIN A \/ i = z
    BY JoinedIs
  <1>3. \A i \in DOMAIN A : i \in DOMAIN Z /\ Z[i] = A[i]
    BY JoinedIs
  <1>4. NoCarrier(R, C, A, n) => NoCarrier(R, B, Z, n)
    BY <1>1, <1>2, <1>3 DEF NoCarrier
  <1>5. ASSUME NEW i \in DOMAIN B, NEW j \in DOMAIN B, Carries(R, B[i], n), Carries(R, B[j], n)
        PROVE  i = j
    <2>1. i + 1 = j + 1
      BY <1>1, <1>5 DEF OneCarrier
    <2> QED
      BY <1>1, <2>1
  <1>6. ASSUME NEW i \in DOMAIN B, Carries(R, B[i], n)
        PROVE  ~Carries(R, a, n)
    <2>1. CASE Carries(R, c, n)
      <3>1. i + 1 = 1
        BY <1>1, <1>6, <2>1 DEF OneCarrier
      <3> QED
        BY <1>1, <3>1
    <2> QED
      BY <2>1
  <1>7. ASSUME NEW i \in DOMAIN B, NEW j \in DOMAIN Z, Carries(R, B[i], n), Carries(R, Z[j], n)
        PROVE  FALSE
    <2>1. CASE j \in DOMAIN A
      BY <1>1, <1>3, <1>7, <2>1 DEF OneCarrier
    <2>2. CASE j = z
      BY <1>2, <1>6, <1>7, <2>2
    <2> QED
      BY <1>2, <2>1, <2>2
  <1>8. ASSUME NEW i \in DOMAIN A, Carries(R, A[i], n)
        PROVE  ~Carries(R, a, n)
    BY <1>1, <1>8 DEF OneCarrier
  <1>9. ASSUME NEW i \in DOMAIN Z, NEW j \in DOMAIN Z, Carries(R, Z[i], n), Carries(R, Z[j], n)
        PROVE  i = j
    <2>1. CASE i \in DOMAIN A /\ j \in DOMAIN A
      BY <1>3, <1>9, <2>1 DEF OneCarrier
    <2>2. CASE i = z /\ j \in DOMAIN A
      BY <1>2, <1>3, <1>8, <1>9, <2>2
    <2>3. CASE i \in DOMAIN A /\ j = z
      BY <1>2, <1>3, <1>8, <1>9, <2>3
    <2> QED
      BY <1>2, <2>1, <2>2, <2>3
  <1> QED
    BY <1>4, <1>5, <1>7, <1>9 DEF OneCarrier

(* The log is as it was, or the call has logged its run.                   *)
LEMMA LogMoves ==
  ASSUME NEW R, NEW L, NEW K, NEW C, NEW B, NEW A, NEW Z, NEW n, NEW c, NEW a,
         Leaves(C, B, c), Joins(A, Z, a), a.after = c.after,
         Carries(R, a, n) <=> Carries(R, c, n),
         K = L \/ (Joins(L, K, c.run) /\ c.op = "log"),
         LogInOrder(R, L, C, A, n)
  PROVE  LogInOrder(R, K, B, Z, n)
  <1>1. /\ DOMAIN C \subseteq Nat /\ 1 \in DOMAIN C /\ C[1] = c
        /\ \A i \in DOMAIN B : i \in Nat /\ 0 < i /\ i + 1 \in DOMAIN C /\ B[i] = C[i + 1]
    BY LeftIs
  <1>2. PICK z \in DOMAIN Z : /\ Z[z] = a /\ \A i \in DOMAIN Z : i \in DOMAIN A \/ i = z
    BY JoinedIs
  <1>3. \A i \in DOMAIN A : i \in DOMAIN Z /\ Z[i] = A[i]
    BY JoinedIs
  <1>4. /\ \A i \in DOMAIN B : i \in Nat /\ 1 \in Nat /\ 1 < i + 1
        /\ \A i, j \in DOMAIN B : i < j => i + 1 < j + 1
    BY <1>1
  <1>5. \A x : LaterThanLogs(R, C, n, x) => LaterThanLogs(R, B, n, x)
    BY <1>1 DEF LaterThanLogs
  <1>6. CarriesRun(R, a, n) => CarriesRun(R, c, n)
    BY DEF CarriesRun
  (* What is later than all that is logged and about to be is so still.    *)
  <1>7. ASSUME NEW x, LaterThanLogged(R, L, n, x), LogsRun(R, c, n) => c.run < x
        PROVE  LaterThanLogged(R, K, n, x)
    <2>1. CASE K = L
      BY <1>7, <2>1
    <2>2. CASE Joins(L, K, c.run) /\ c.op = "log"
      <3>1. PICK y \in DOMAIN K : K[y] = c.run /\ \A i \in DOMAIN K : i \in DOMAIN L \/ i = y
        BY <2>2, JoinedIs
      <3>2. \A i \in DOMAIN L : K[i] = L[i]
        BY <2>2, JoinedIs
      <3>3. ASSUME NEW i \in DOMAIN K, R[K[i]].node = n
            PROVE  K[i] < x
        <4>1. CASE i \in DOMAIN L
          BY <1>7, <3>2, <3>3, <4>1 DEF LaterThanLogged
        <4>2. CASE i = y
          BY <1>7, <2>2, <3>1, <3>3, <4>2 DEF LogsRun
        <4> QED
          BY <3>1, <4>1, <4>2
      <3> QED
        BY <3>3 DEF LaterThanLogged
    <2> QED
      BY <2>1, <2>2
  <1>8. ASSUME NEW i \in DOMAIN K, NEW j \in DOMAIN K, i < j, R[K[i]].node = n, R[K[j]].node = n
        PROVE  K[i] < K[j]
    <2>1. CASE K = L
      BY <1>8, <2>1 DEF LogInOrder
    <2>2. CASE Joins(L, K, c.run) /\ c.op = "log"
      <3>1. PICK y \in DOMAIN K : /\ K[y] = c.run /\ y \notin DOMAIN L /\ \A k \in DOMAIN L : k < y
                                  /\ \A k \in DOMAIN K : k \in DOMAIN L \/ k = y
        BY <2>2, JoinedIs
      <3>2. \A k \in DOMAIN L : K[k] = L[k]
        BY <2>2, JoinedIs
      <3>3. DOMAIN K \subseteq Nat
        BY <2>2, JoinedIs
      <3>4. i \in DOMAIN L
        <4>1. CASE i = y
          <5>1. j \notin DOMAIN L
            BY <1>8, <3>1, <3>3, <4>1
          <5> QED
            BY <1>8, <3>1, <3>3, <4>1, <5>1
        <4> QED
          BY <3>1, <4>1
      <3>5. CASE j \in DOMAIN L
        BY <1>8, <3>2, <3>4, <3>5 DEF LogInOrder
      <3>6. CASE j = y
        <4>1. LogsRun(R, c, n)
          BY <1>8, <2>2, <3>1, <3>6 DEF LogsRun
        <4>2. LaterThanLogged(R, L, n, c.run)
          BY <1>1, <4>1 DEF LogInOrder
        <4> QED
          BY <1>8, <3>1, <3>2, <3>4, <3>6, <4>2 DEF LaterThanLogged
      <3> QED
        BY <3>1, <3>5, <3>6
    <2> QED
      BY <2>1, <2>2
  <1>9. ASSUME NEW k \in DOMAIN B, LogsRun(R, B[k], n)
        PROVE  LaterThanLogged(R, K, n, B[k].run)
    <2>1. LaterThanLogged(R, L, n, B[k].run)
      BY <1>1, <1>9 DEF LogInOrder
    <2>2. LogsRun(R, c, n) => c.run < B[k].run
      BY <1>1, <1>4, <1>9 DEF LogInOrder
    <2> QED
      BY <1>7, <2>1, <2>2
  <1>10. ASSUME NEW x, LaterThanLogged(R, L, n, x), LaterThanLogs(R, C, n, x)
         PROVE  LaterThanLogged(R, K, n, x) /\ LaterThanLogs(R, B, n, x)
    <2>1. LogsRun(R, c, n) => c.run < x
      BY <1>1, <1>10 DEF LaterThanLogs
    <2> QED
      BY <1>5, <1>7, <1>10, <2>1
  <1>11. ASSUME NEW k \in DOMAIN B, CarriesRun(R, B[k], n)
         PROVE  LaterThanLogged(R, K, n, B[k].after.id) /\ LaterThanLogs(R, B, n, B[k].after.id)
    BY <1>1, <1>10, <1>11 DEF LogInOrder
  <1>12. ASSUME NEW k \in DOMAIN Z, CarriesRun(R, Z[k], n)
         PROVE  LaterThanLogged(R, K, n, Z[k].after.id) /\ LaterThanLogs(R, B, n, Z[k].after.id)
    <2>1. CASE k \in DOMAIN A
      BY <1>3, <1>10, <1>12, <2>1 DEF LogInOrder
    <2>2. CASE k = z
      <3>1. CarriesRun(R, C[1], n) /\ Z[k].after = C[1].after
        BY <1>1, <1>2, <1>6, <1>12, <2>2
      <3> QED
        BY <1>1, <1>10, <3>1 DEF LogInOrder
    <2> QED
      BY <1>2, <2>1, <2>2
  <1>13. ASSUME NEW k \in DOMAIN B, NEW l \in DOMAIN B, k < l, LogsRun(R, B[k], n), LogsRun(R, B[l], n)
         PROVE  B[k].run < B[l].run
    BY <1>1, <1>4, <1>13 DEF LogInOrder
  <1> QED
    BY <1>8, <1>9, <1>11, <1>12, <1>13 DEF LogInOrder

(* The table has what the call has saved.                                  *)
LEMMA SavedMoves ==
  ASSUME NEW T, NEW U, NEW E, NEW R, NEW C, NEW B, NEW n, NEW c, Leaves(C, B, c),
         IF Saves(c, n) THEN U[n].prompt = c.prompt /\ U[n].last = c.last
         ELSE U[n].prompt = T[n].prompt /\ U[n].last = T[n].last,
         SavedLast(T, E, R, C, n)
  PROVE  SavedLast(U, E, R, B, n)
  <1>1. /\ 1 \in DOMAIN C /\ C[1] = c
        /\ \A i \in DOMAIN B : i + 1 \in DOMAIN C /\ B[i] = C[i + 1]
        /\ \A i \in DOMAIN C : i = 1 \/ \E j \in DOMAIN B : B[j] = C[i]
    BY LeftIs
  <1>2. CASE Saves(c, n)
    BY <1>1, <1>2 DEF SavedLast
  <1>3. CASE ~Saves(c, n)
    <2>1. CASE T[n].prompt = E[n] /\ LastRun(R, n, T[n].last)
      BY <1>1, <1>3, <2>1 DEF SavedLast
    <2>2. CASE \E i \in DOMAIN C : Saves(C[i], n)
      <3>1. \E j \in DOMAIN B : Saves(B[j], n)
        BY <1>1, <1>3, <2>2
      <3> QED
        BY <1>1, <3>1 DEF SavedLast
    <2> QED
      BY <2>1, <2>2 DEF SavedLast
  <1> QED
    BY <1>2, <1>3

LEMMA OrderHandled ==
  ASSUME NEW T, NEW U, NEW E, NEW G, NEW R, NEW L, NEW K, NEW C, NEW B, NEW A, NEW Z, NEW n, NEW c, NEW a,
         Leaves(C, B, c), Joins(A, Z, a), a.after = c.after,
         (a.op # "log" /\ a.op # "logged") <=> (c.op # "log" /\ c.op # "logged"),
         K = L \/ (Joins(L, K, c.run) /\ c.op = "log"), G[n] = E[n],
         IF Saves(c, n) THEN U[n].prompt = c.prompt /\ U[n].last = c.last
         ELSE U[n].prompt = T[n].prompt /\ U[n].last = T[n].last,
         InOrderFor(T, E, R, L, C, A, n)
  PROVE  InOrderFor(U, G, R, K, B, Z, n)
  <1>1. Carries(R, a, n) <=> Carries(R, c, n)
    BY AboutSame DEF Carries
  <1>2. OneCarrier(R, B, Z, n) /\ (NoCarrier(R, C, A, n) => NoCarrier(R, B, Z, n))
    BY <1>1, CarrierMoves DEF InOrderFor
  <1>3. LogInOrder(R, K, B, Z, n)
    BY <1>1, LogMoves DEF InOrderFor
  <1>4. SavedLast(U, E, R, B, n)
    BY SavedMoves DEF InOrderFor
  <1>5. SavedLast(U, G, R, B, n)
    BY <1>4 DEF SavedLast
  <1> QED
    BY <1>2, <1>3, <1>5 DEF InOrderFor

(* A node that was just created: nothing is about it.                      *)
LEMMA OrderNewNode ==
  ASSUME NEW T, NEW U, NEW G, NEW R, NEW L, NEW C, NEW A, NEW n, n \notin DOMAIN T,
         RunsOK(T, R, L), CallsOK(T, R, C), AnswersOK(T, R, L, A), LogOK(R, L),
         U[n].prompt = G[n], U[n].last = 0
  PROVE  InOrderFor(U, G, R, L, C, A, n)
  <1>1. \A r \in DOMAIN R : R[r].node # n
    BY DEF RunsOK
  <1>2. /\ \A i \in DOMAIN C : ~About(R, C[i], n)
        /\ \A j \in DOMAIN A : ~About(R, A[j], n)
    BY CallFor, AnswerFor, AboutNode DEF CallsOK, AnswersOK, RunsOK
  <1>3. \A i \in DOMAIN C : ~Saves(C[i], n)
    BY <1>2, SavesCarries DEF CallsOK, Carries
  <1>4. \A i \in DOMAIN C : ~LogsRun(R, C[i], n)
    <2>1. ASSUME NEW i \in DOMAIN C, C[i].op = "log"
          PROVE  R[C[i].run].node # n
      <3>1. ForRun(R, C[i]) /\ C[i].run = C[i].after.id
        BY <2>1 DEF CallsOK, CallOK
      <3>2. C[i].run \in DOMAIN R
        BY <3>1, RunOf
      <3> QED
        BY <1>1, <3>2
    <2> QED
      BY <2>1 DEF LogsRun
  <1>5. \A i \in DOMAIN L : R[L[i]].node # n
    BY <1>1 DEF LogOK
  <1>6. OneCarrier(R, C, A, n)
    BY <1>2 DEF OneCarrier, Carries
  <1>7. LogInOrder(R, L, C, A, n)
    BY <1>2, <1>4, <1>5 DEF LogInOrder, CarriesRun, Carries
  <1>8. LastRun(R, n, 0)
    BY <1>1 DEF LastRun
  <1>9. SavedLast(U, G, R, C, n)
    BY <1>3, <1>8 DEF SavedLast
  <1> QED
    BY <1>1, <1>6, <1>7, <1>9 DEF InOrderFor, Working

-----------------------------------------------------------------------------
(* What is drawn, as calls come and go.                                    *)
LEMMA CanvasMoreCalls ==
  ASSUME NEW T, NEW C, NEW B, NEW c, Joins(C, B, c), c.op # "layout", NEW cv, NEW pd,
         CanvasIsSaved(T, C, cv, pd)
  PROVE  CanvasIsSaved(T, B, cv, pd)
  <1>1. PICK z \in DOMAIN B : B[z] = c /\ \A i \in DOMAIN B : i \in DOMAIN C \/ i = z
    BY JoinedIs
  <1>2. \A i \in DOMAIN C : i \in DOMAIN B /\ B[i] = C[i]
    BY JoinedIs
  <1>3. LayoutComes(C, cv) => LayoutComes(B, cv)
    <2>1. ASSUME NEW i \in DOMAIN C, C[i].op = "layout", C[i].places = cv,
                 \A j \in DOMAIN C : i < j => C[j].op # "layout"
          PROVE  LayoutComes(B, cv)
      <3>1. i \in DOMAIN B /\ B[i].op = "layout" /\ B[i].places = cv
        BY <1>2, <2>1
      <3>2. \A j \in DOMAIN B : i < j => B[j].op # "layout"
        BY <1>1, <1>2, <2>1
      <3> QED
        BY <3>1, <3>2 DEF LayoutComes
    <2> QED
      BY <2>1 DEF LayoutComes
  <1>4. (\A i \in DOMAIN C : C[i].op # "layout") => \A i \in DOMAIN B : B[i].op # "layout"
    BY <1>1, <1>2
  <1> QED
    BY <1>3, <1>4 DEF CanvasIsSaved

LEMMA CanvasCommits ==
  ASSUME NEW T, NEW C, NEW B, NEW c, Joins(C, B, c), c.op = "layout", NEW cv, c.places = cv
  PROVE  CanvasIsSaved(T, B, cv, NoPlaces)
  <1>1. PICK z \in DOMAIN B : /\ B[z] = c /\ \A i \in DOMAIN C : i < z
                              /\ \A i \in DOMAIN B : i \in DOMAIN C \/ i = z
    BY JoinedIs
  <1>2. DOMAIN B \subseteq Nat
    BY JoinedIs
  <1>3. \A j \in DOMAIN B : z < j => FALSE
    <2>1. ASSUME NEW j \in DOMAIN B, z < j PROVE FALSE
      <3>1. j \in DOMAIN C => j < z
        BY <1>1
      <3>2. j \in Nat /\ z \in Nat
        BY <1>2
      <3> QED
        BY <1>1, <2>1, <3>1, <3>2
    <2> QED
      BY <2>1
  <1> QED
    BY <1>1, <1>3 DEF CanvasIsSaved, LayoutComes

(* A layout that was the last one is where the canvas is.                  *)
LEMMA CanvasHandled ==
  ASSUME NEW T, NEW U, NEW C, NEW B, NEW c, Leaves(C, B, c), NEW cv, NEW pd,
         \A n \in DOMAIN cv : U[n].at = IF c.op = "layout" /\ n \in DOMAIN c.places
                                        THEN c.places[n] ELSE T[n].at,
         CanvasIsSaved(T, C, cv, pd)
  PROVE  CanvasIsSaved(U, B, cv, pd)
  <1>1. /\ DOMAIN C \subseteq Nat /\ 1 \in DOMAIN C /\ C[1] = c
        /\ \A i \in DOMAIN B : i \in Nat /\ 0 < i /\ i + 1 \in DOMAIN C /\ B[i] = C[i + 1]
        /\ \A i \in DOMAIN C : i = 1 \/ \E j \in DOMAIN B : i = j + 1
    BY LeftIs
  <1>2. CASE pd = cv
    BY <1>2 DEF CanvasIsSaved
  <1>3. CASE /\ pd = NoPlaces /\ (\A n \in DOMAIN cv : cv[n] = T[n].at)
             /\ \A i \in DOMAIN C : C[i].op # "layout"
    <2>1. c.op # "layout" /\ \A i \in DOMAIN B : B[i].op # "layout"
      BY <1>1, <1>3
    <2>2. \A n \in DOMAIN cv : cv[n] = U[n].at
      BY <1>3, <2>1
    <2> QED
      BY <1>3, <2>1, <2>2 DEF CanvasIsSaved
  <1>4. CASE pd = NoPlaces /\ LayoutComes(C, cv)
    <2>1. PICK i \in DOMAIN C : /\ C[i].op = "layout" /\ C[i].places = cv
                                /\ \A j \in DOMAIN C : i < j => C[j].op # "layout"
      BY <1>4 DEF LayoutComes
    <2>2. CASE i = 1
      <3>1. c.op = "layout" /\ c.places = cv
        BY <1>1, <2>1, <2>2
      <3>2. \A n \in DOMAIN cv : cv[n] = U[n].at
        BY <3>1
      <3>3. ASSUME NEW j \in DOMAIN B PROVE B[j].op # "layout"
        <4>1. j + 1 \in DOMAIN C /\ 1 < j + 1 /\ B[j] = C[j + 1]
          BY <1>1
        <4> QED
          BY <2>1, <2>2, <4>1
      <3> QED
        BY <1>4, <3>2, <3>3 DEF CanvasIsSaved
    <2>3. CASE i # 1
      <3>1. PICK k \in DOMAIN B : i = k + 1
        BY <1>1, <2>3
      <3>2. B[k].op = "layout" /\ B[k].places = cv
        BY <1>1, <2>1, <3>1
      <3>3. ASSUME NEW j \in DOMAIN B, k < j PROVE B[j].op # "layout"
        <4>1. j + 1 \in DOMAIN C /\ i < j + 1 /\ B[j] = C[j + 1]
          BY <1>1, <3>1, <3>3
        <4> QED
          BY <2>1, <4>1
      <3>4. LayoutComes(B, cv)
        BY <3>2, <3>3 DEF LayoutComes
      <3> QED
        BY <1>4, <3>4 DEF CanvasIsSaved
    <2> QED
      BY <2>2, <2>3
  <1> QED
    BY <1>2, <1>3, <1>4 DEF CanvasIsSaved

(* The canvas is drawn anew while no layout is under way.                  *)
LEMMA CanvasRedrawn ==
  ASSUME NEW T, NEW C, NEW g, InPlace(T, g), \A i \in DOMAIN C : C[i].op # "layout"
  PROVE  CanvasIsSaved(T, C, MapGraphNodes(g), NoPlaces)
  BY DEF CanvasIsSaved, MapGraphNodes, InPlace

-----------------------------------------------------------------------------
(* What is under way stays of its kind.                                    *)
LEMMA TypesStay ==
  ASSUME NEW T, NEW U, NEW R, NEW Q, NEW L, NEW K, TableGrows(T, U), RunsGrow(R, Q), LogGrows(L, K),
         NEW C, NEW A, CallsOK(T, R, C), AnswersOK(T, R, L, A)
  PROVE  CallsOK(U, Q, C) /\ AnswersOK(U, Q, K, A)
  <1>1. CallsOK(U, Q, C)
    BY CallStays DEF CallsOK
  <1>2. AnswersOK(U, Q, K, A)
    BY AnswerStays DEF AnswersOK
  <1> QED
    BY <1>1, <1>2

LEMMA CallTyped ==
  ASSUME NEW T, NEW R, NEW C, NEW B, NEW c, Joins(C, B, c), CallsOK(T, R, C), CallOK(T, R, c)
  PROVE  CallsOK(T, R, B)
  BY JoinedIs DEF CallsOK

LEMMA CallGone ==
  ASSUME NEW T, NEW R, NEW C, NEW B, NEW c, Leaves(C, B, c), CallsOK(T, R, C)
  PROVE  CallsOK(T, R, B) /\ CallOK(T, R, c)
  BY LeftIs DEF CallsOK

LEMMA AnswerTyped ==
  ASSUME NEW T, NEW R, NEW L, NEW A, NEW Z, NEW a, Joins(A, Z, a), AnswersOK(T, R, L, A),
         AnswerOK(T, R, L, a)
  PROVE  AnswersOK(T, R, L, Z)
  BY JoinedIs DEF AnswersOK

LEMMA AnswerGone ==
  ASSUME NEW T, NEW R, NEW L, NEW A, NEW Z, NEW a, Leaves(A, Z, a), AnswersOK(T, R, L, A)
  PROVE  AnswersOK(T, R, L, Z) /\ AnswerOK(T, R, L, a)
  BY LeftIs DEF AnswersOK

(* A call that concerns no node's data, or none at all.                    *)
IsPlain(c) == ForNone(c) /\ c.op \in {"get", "node", "edge"}
PlainMore(C, B) == B = C \/ \E c : Joins(C, B, c) /\ IsPlain(c)

LEMMA PlainMoreKeeps ==
  ASSUME NEW T, NEW E, NEW R, NEW L, NEW C, NEW B, NEW A, PlainMore(C, B), CallsOK(T, R, C)
  PROVE  /\ Kept(C, B) /\ CallsOK(T, R, B)
         /\ \A n : InOrderFor(T, E, R, L, C, A, n) => InOrderFor(T, E, R, L, B, A, n)
         /\ \A cv, pd : CanvasIsSaved(T, C, cv, pd) => CanvasIsSaved(T, B, cv, pd)
  <1>1. CASE B = C
    BY <1>1 DEF Kept
  <1>2. ASSUME NEW c, Joins(C, B, c), IsPlain(c)
        PROVE  /\ Kept(C, B) /\ CallsOK(T, R, B)
               /\ \A n : InOrderFor(T, E, R, L, C, A, n) => InOrderFor(T, E, R, L, B, A, n)
               /\ \A cv, pd : CanvasIsSaved(T, C, cv, pd) => CanvasIsSaved(T, B, cv, pd)
    <2>1. ForNone(c) /\ c.op \in {"get", "node", "edge"} /\ CallOK(T, R, c)
      BY <1>2 DEF IsPlain, CallOK
    <2>2. Kept(C, B) /\ CallsOK(T, R, B)
      BY <1>2, <2>1, JoinsKeeps, CallTyped
    <2>3. \A n : ~Carries(R, c, n) /\ ~LogsRun(R, c, n) /\ ~Saves(c, n)
      BY <2>1, AboutNone DEF Carries, LogsRun, Saves
    <2>4. \A n : InOrderFor(T, E, R, L, C, A, n) => InOrderFor(T, E, R, L, B, A, n)
      BY <1>2, <2>3, OrderPlainCall
    <2>5. \A cv, pd : CanvasIsSaved(T, C, cv, pd) => CanvasIsSaved(T, B, cv, pd)
      BY <1>2, <2>1, CanvasMoreCalls
    <2> QED
      BY <2>2, <2>4, <2>5
  <1> QED
    BY <1>1, <1>2 DEF PlainMore

-----------------------------------------------------------------------------
(* The steps of the user.  A call more that concerns no node's data.       *)
LEMMA PlainStep ==
  ASSUME NEW T, NEW E, NEW D, NEW L, NEW R, NEW S, NEW cv, NEW pd, NEW C, NEW A, NEW lost, NEW cl,
         NEW B, GraphInv(T, E, D, L, R, S, cv, pd, C, A, lost, cl), PlainMore(C, B)
  PROVE  GraphInv(T, E, D, L, R, S, cv, pd, B, A, lost, cl)
  <1>1. /\ TableOK(T, E) /\ LogOK(R, L) /\ RunsOK(T, R, L) /\ CallsOK(T, R, C) /\ AnswersOK(T, R, L, A)
        /\ GraphOK(T, S) /\ DOMAIN cv = DOMAIN S.nodes
        /\ ViewsComplete(S, T, D, C, A) /\ ViewsInData(S, T, R, C, A) /\ ViewsInPlace(S, T, A)
    BY DEF GraphInv
  <1>2. Kept(C, B) /\ CallsOK(T, R, B)
    BY <1>1, PlainMoreKeeps
  <1>3. ViewsComplete(S, T, D, B, A) /\ ViewsInData(S, T, R, B, A)
    BY <1>1, <1>2, ViewsMoreCalls, NothingGrows
  <1>4. ~lost => CanvasIsSaved(T, B, cv, pd)
    BY <1>1, PlainMoreKeeps DEF GraphInv
  <1>5. \A n \in DOMAIN T \ cl : InOrderFor(T, E, R, L, B, A, n)
    BY <1>1, PlainMoreKeeps DEF GraphInv
  <1> QED
    BY <1>1, <1>2, <1>3, <1>4, <1>5 DEF GraphInv

(* A drag: what is drawn is what will be saved.                            *)
LEMMA DragStep ==
  ASSUME NEW T, NEW E, NEW D, NEW L, NEW R, NEW S, NEW cv, NEW pd, NEW C, NEW A, NEW lost, NEW cl,
         NEW dw, DOMAIN dw = DOMAIN cv, GraphInv(T, E, D, L, R, S, cv, pd, C, A, lost, cl)
  PROVE  GraphInv(T, E, D, L, R, S, dw, dw, C, A, lost, cl)
  BY DEF GraphInv, CanvasIsSaved

(* The layout is on its way.                                               *)
LEMMA CommitStep ==
  ASSUME NEW T, NEW E, NEW D, NEW L, NEW R, NEW S, NEW cv, NEW pd, NEW C, NEW A, NEW lost, NEW cl,
         NEW B, NEW c, GraphInv(T, E, D, L, R, S, cv, pd, C, A, lost, cl), pd # NoPlaces,
         Joins(C, B, c), c = Layout(pd)
  PROVE  GraphInv(T, E, D, L, R, S, cv, NoPlaces, B, A, lost, cl)
  <1>1. /\ TableOK(T, E) /\ LogOK(R, L) /\ RunsOK(T, R, L) /\ CallsOK(T, R, C) /\ AnswersOK(T, R, L, A)
        /\ GraphOK(T, S) /\ DOMAIN cv = DOMAIN S.nodes
        /\ ViewsComplete(S, T, D, C, A) /\ ViewsInData(S, T, R, C, A) /\ ViewsInPlace(S, T, A)
    BY DEF GraphInv
  <1>2. c.op = "layout" /\ c.places = pd /\ c.after = User
    BY DEF Layout
  <1>3. Kept(C, B) /\ CallsOK(T, R, B)
    BY <1>1, <1>2, JoinsKeeps, CallTyped DEF CallOK
  <1>4. ViewsComplete(S, T, D, B, A) /\ ViewsInData(S, T, R, B, A)
    BY <1>1, <1>3, ViewsMoreCalls, NothingGrows
  <1>5. ASSUME ~lost PROVE CanvasIsSaved(T, B, cv, NoPlaces)
    <2>1. pd = cv
      BY <1>5 DEF GraphInv, CanvasIsSaved
    <2> QED
      BY <1>2, <2>1, CanvasCommits
  <1>6. \A n : ~Carries(R, c, n) /\ ~LogsRun(R, c, n) /\ ~Saves(c, n)
    BY <1>2, AboutNone DEF Carries, LogsRun, Saves, ForNone
  <1>7. \A n \in DOMAIN T \ cl : InOrderFor(T, E, R, L, B, A, n)
    BY <1>6, OrderPlainCall DEF GraphInv
  <1> QED
    BY <1>1, <1>3, <1>4, <1>5, <1>7 DEF GraphInv

(* A node that nothing carries is shown as the table has it.               *)
LEMMA ShownIsTable ==
  ASSUME NEW S, NEW T, NEW R, NEW C, NEW A, NEW n \in DOMAIN S.nodes, NoCarrier(R, C, A, n),
         ViewsInData(S, T, R, C, A)
  PROVE  InData(T, S, n)
  <1>1. 0 \in Views(A) /\ ViewAt(S, A, 0) = S
    BY DEF Views, ViewAt
  <1>2. InData(T, S, n) \/ SavedAfter(R, A, 0, n) \/ Loading(R, C, A, n)
    BY <1>1 DEF ViewsInData
  <1>3. ~SavedAfter(R, A, 0, n)
    BY DEF SavedAfter, NoCarrier, Carries
  <1>4. ~Loading(R, C, A, n)
    BY DEF Loading, NoCarrier, Carries
  <1> QED
    BY <1>2, <1>3, <1>4

LEMMA NothingSaved ==
  ASSUME NEW T, NEW R, NEW C, NEW A, NEW n, CallsOK(T, R, C), NoCarrier(R, C, A, n)
  PROVE  \A i \in DOMAIN C : ~Saves(C[i], n)
  BY SavesCarries DEF CallsOK, NoCarrier

LEMMA ListChanges ==
  ASSUME NEW s, IsList(s), NEW n, NEW x
  PROVE  IsList([s EXCEPT ![n] = x]) /\ Len([s EXCEPT ![n] = x]) = Len(s)
  <1>1. PICK k \in Nat : k = Len(s) /\ s = [i \in 1 .. k |-> s[i]]
    BY DEF IsList
  <1>2. PICK t : t = [s EXCEPT ![n] = x]
    OBVIOUS
  <1>3. t = [i \in 1 .. k |-> t[i]]
    BY <1>1, <1>2
  <1>4. PICK M : M = {t[i] : i \in 1 .. k}
    OBVIOUS
  <1>5. t \in [1 .. k -> M]
    BY <1>3, <1>4
  <1>6. t \in Seq(M)
    BY <1>5, SeqDef
  <1>7. IsList(t) /\ Len(t) \in Nat /\ DOMAIN t = 1 .. Len(t)
    BY <1>6, SeqIsList, ListDomain
  <1>8. DOMAIN t = 1 .. k
    BY <1>3
  <1>9. Len(t) = k
    <2>1. PICK m \in Nat : m = Len(t) /\ 1 .. m = 1 .. k
      BY <1>7, <1>8
    <2>2. (m = 0 \/ m \in 1 .. m) /\ (k = 0 \/ k \in 1 .. k)
      OBVIOUS
    <2>3. (m = 0 \/ m \in 1 .. k) /\ (k = 0 \/ k \in 1 .. m)
      BY <2>1, <2>2
    <2>4. m = k
      BY <2>3
    <2> QED
      BY <2>1, <2>4
  <1> QED
    BY <1>1, <1>2, <1>7, <1>9

(* An edit of k.                                                           *)
Edits(E, k, x) == [E EXCEPT ![k] = x]

LEMMA EditStep ==
  ASSUME NEW T, NEW E, NEW D, NEW L, NEW R, NEW S, NEW cv, NEW pd, NEW C, NEW A, NEW lost, NEW cl,
         NEW B, NEW c, NEW x, NEW k, NEW G, NEW cm,
         GraphInv(T, E, D, L, R, S, cv, pd, C, A, lost, cl),
         k \in DOMAIN S.nodes, Joins(C, B, c), c = Save(k, x, S.nodes[k].last, OfEdit(k)),
         G = Edits(E, k, x), cl \subseteq cm,
         k \notin cm => NoCarrier(R, C, A, k) /\ \A r \in DOMAIN R : ~Working(R, k, r)
  PROVE  GraphInv(T, G, D, L, R, S, cv, pd, B, A, lost, cm)
  <1>1. /\ TableOK(T, E) /\ LogOK(R, L) /\ RunsOK(T, R, L) /\ CallsOK(T, R, C) /\ AnswersOK(T, R, L, A)
        /\ GraphOK(T, S) /\ DOMAIN cv = DOMAIN S.nodes
        /\ ViewsComplete(S, T, D, C, A) /\ ViewsInData(S, T, R, C, A) /\ ViewsInPlace(S, T, A)
    BY DEF GraphInv
  <1>2. /\ c.op = "save" /\ c.node = k /\ c.prompt = x /\ c.last = S.nodes[k].last
        /\ c.after = OfEdit(k)
    BY DEF Save
  <1>3. k \in DOMAIN T
    BY <1>1 DEF GraphOK, NodesIn
  <1>4. Kept(C, B) /\ CallsOK(T, R, B)
    BY <1>1, <1>2, <1>3, JoinsKeeps, CallTyped DEF CallOK
  <1>5. ViewsComplete(S, T, D, B, A) /\ ViewsInData(S, T, R, B, A)
    BY <1>1, <1>4, ViewsMoreCalls, NothingGrows
  <1>6. ~lost => CanvasIsSaved(T, B, cv, pd)
    BY <1>2, CanvasMoreCalls DEF GraphInv
  <1>7. TableOK(T, G)
    BY <1>1, ListChanges DEF TableOK, Edits
  <1>8. DOMAIN E = DOMAIN T
    BY <1>1, ListDomain DEF TableOK
  <1>9. \A n : (About(R, c, n) <=> n = k) /\ c.after.who # "run"
    BY <1>2, AboutEdit
  <1>10. ASSUME NEW n \in DOMAIN T \ cm, n # k
         PROVE  InOrderFor(T, G, R, L, B, A, n)
    <2>1. InOrderFor(T, E, R, L, C, A, n)
      BY <1>10 DEF GraphInv
    <2>2. ~Carries(R, c, n) /\ ~LogsRun(R, c, n) /\ ~Saves(c, n)
      BY <1>2, <1>9, <1>10 DEF Carries, LogsRun, Saves
    <2>3. InOrderFor(T, E, R, L, B, A, n)
      BY <2>1, <2>2, OrderPlainCall
    <2>4. G[n] = E[n]
      BY <1>8, <1>10 DEF Edits
    <2> QED
      BY <2>3, <2>4, OrderSameRow
  <1>11. ASSUME k \notin cm
         PROVE  InOrderFor(T, G, R, L, B, A, k)
    <2>1. InOrderFor(T, E, R, L, C, A, k)
      BY <1>3, <1>11 DEF GraphInv
    <2>2. InData(T, S, k)
      BY <1>1, <1>11, ShownIsTable
    <2>3. \A i \in DOMAIN C : ~Saves(C[i], k)
      BY <1>1, <1>11, NothingSaved
    <2>4. LastRun(R, k, c.last)
      BY <1>2, <2>1, <2>2, <2>3 DEF InOrderFor, SavedLast, InData
    <2>5. G[k] = x /\ Saves(c, k)
      BY <1>2, <1>3, <1>8 DEF Saves, Edits
    <2>6. SavedLast(T, G, R, B, k)
      BY <1>2, <2>3, <2>4, <2>5, SaveJoins
    <2>7. Carries(R, c, k) /\ ~CarriesRun(R, c, k)
      BY <1>2, <1>9 DEF Carries, CarriesRun
    <2>8. OneCarrier(R, C, A, k) /\ LogInOrder(R, L, C, A, k)
      BY <2>1 DEF InOrderFor
    <2> QED
      BY <1>11, <2>6, <2>7, <2>8, OrderCarriedCall
  <1>12. \A n \in DOMAIN T \ cm : InOrderFor(T, G, R, L, B, A, n)
    BY <1>10, <1>11
  <1> QED
    BY <1>1, <1>4, <1>5, <1>6, <1>7, <1>12 DEF GraphInv

(* A run of k begins.                                                      *)
LEMMA RunStep ==
  ASSUME NEW T, NEW E, NEW D, NEW L, NEW R, NEW S, NEW cv, NEW pd, NEW C, NEW A, NEW lost, NEW cl,
         NEW Q, NEW x, NEW k, NEW cm,
         GraphInv(T, E, D, L, R, S, cv, pd, C, A, lost, cl),
         k \in DOMAIN S.nodes, Joins(R, Q, x),
         x = [node |-> k, prompt |-> S.nodes[k].prompt, phase |-> "working"],
         cl \subseteq cm,
         k \notin cm => NoCarrier(R, C, A, k) /\ \A r \in DOMAIN R : ~Working(R, k, r)
  PROVE  GraphInv(T, E, D, L, Q, S, cv, pd, C, A, lost, cm)
  <1>1. /\ TableOK(T, E) /\ LogOK(R, L) /\ RunsOK(T, R, L) /\ CallsOK(T, R, C) /\ AnswersOK(T, R, L, A)
        /\ GraphOK(T, S) /\ DOMAIN cv = DOMAIN S.nodes
        /\ ViewsComplete(S, T, D, C, A) /\ ViewsInData(S, T, R, C, A) /\ ViewsInPlace(S, T, A)
    BY DEF GraphInv
  <1>2. PICK z \in DOMAIN Q : /\ Q[z] = x /\ z \notin DOMAIN R /\ \A r \in DOMAIN R : r < z
                              /\ \A r \in DOMAIN Q : r \in DOMAIN R \/ r = z
    BY JoinedIs
  <1>3. (\A r \in DOMAIN R : r \in DOMAIN Q /\ Q[r] = R[r]) /\ IsList(Q) /\ DOMAIN Q \subseteq Nat
    BY JoinedIs
  <1>4. x.node = k /\ x.prompt = S.nodes[k].prompt /\ x.phase = "working"
    OBVIOUS
  <1>5. k \in DOMAIN T
    BY <1>1 DEF GraphOK, NodesIn
  <1>6. RunsGrow(R, Q) /\ \A n : RunsAlikeFor(R, Q, n)
    BY <1>2, <1>3, <1>4 DEF RunsGrow, RunsAlikeFor
  <1>7. CallsOK(T, Q, C) /\ AnswersOK(T, Q, L, A)
    BY <1>1, <1>6, TypesStay, NothingGrows
  <1>8. Kept(C, C)
    BY DEF Kept
  <1>9. ViewsComplete(S, T, D, C, A) /\ ViewsInData(S, T, Q, C, A)
    BY <1>1, <1>6, <1>8, ViewsMoreCalls
  <1>10. LogOK(Q, L)
    BY <1>1, <1>3 DEF LogOK
  <1>11. ASSUME NEW r \in DOMAIN Q
         PROVE  /\ IsRun(Q[r]) /\ Q[r].node \in DOMAIN T
                /\ Q[r].phase = "over" => \E i \in DOMAIN L : L[i] = r
    <2>1. CASE r = z
      <3>1. IsRun(x)
        BY <1>4 DEF IsRun
      <3> QED
        BY <1>2, <1>4, <1>5, <2>1, <3>1
    <2>2. CASE r \in DOMAIN R
      <3>1. Q[r] = R[r]
        BY <1>3, <2>2
      <3> QED
        BY <1>1, <2>2, <3>1 DEF RunsOK
    <2> QED
      BY <1>2, <2>1, <2>2
  <1>12. RunsOK(T, Q, L)
    BY <1>3, <1>11 DEF RunsOK
  <1>13. ASSUME NEW n \in DOMAIN T \ cm
         PROVE  InOrderFor(T, E, Q, L, C, A, n)
    <2>1. InOrderFor(T, E, R, L, C, A, n)
      BY <1>13 DEF GraphInv
    <2>2. ASSUME n = k
          PROVE  NoCarrier(R, C, A, n) /\ x.prompt = E[n]
      <3>1. NoCarrier(R, C, A, k)
        BY <1>13, <2>2
      <3>2. InData(T, S, k)
        BY <1>1, <3>1, ShownIsTable
      <3>3. \A i \in DOMAIN C : ~Saves(C[i], k)
        BY <1>1, <3>1, NothingSaved
      <3>4. T[k].prompt = E[k]
        BY <2>1, <2>2, <3>3 DEF InOrderFor, SavedLast
      <3> QED
        BY <1>4, <2>2, <3>1, <3>2, <3>4 DEF InData
    <2>3. Latest(Q, n, z)
      <3>1. ASSUME NEW q \in DOMAIN Q PROVE q <= z
        <4>1. q \in Nat /\ z \in Nat /\ (q < z \/ q = z)
          BY <1>2, <1>3
        <4> QED
          BY <4>1
      <3> QED
        BY <3>1 DEF Latest
    <2>4. n = k => \A q \in DOMAIN R : ~Working(R, n, q)
      BY <1>13
    <2>5. \A r \in DOMAIN Q : r \notin DOMAIN R /\ Q[r].node = n
                                => NoCarrier(R, C, A, n) /\ Q[r].prompt = E[n] /\ Latest(Q, n, r)
                                   /\ \A q \in DOMAIN R : ~Working(R, n, q)
      BY <1>2, <1>4, <2>2, <2>3, <2>4
    <2> QED
      BY <1>1, <1>6, <2>1, <2>5, OrderRuns
  <1>14. ~lost => CanvasIsSaved(T, C, cv, pd)
    BY DEF GraphInv
  <1> QED
    BY <1>1, <1>7, <1>9, <1>10, <1>12, <1>13, <1>14 DEF GraphInv

InPhase(R, k, p) == [R EXCEPT ![k].phase = p]

(* Run k ends, and its outcome is on its way.                              *)
Ended(R, Q, k) ==
  /\ IsList(Q) /\ DOMAIN Q = DOMAIN R /\ IsRun(Q[k])
  /\ Q[k].node = R[k].node /\ Q[k].phase = "saving"
  /\ \A r \in DOMAIN R : r # k => Q[r] = R[r]

LEMMA RunEnded ==
  ASSUME NEW R, IsList(R), NEW k \in DOMAIN R, IsRun(R[k])
  PROVE  Ended(R, InPhase(R, k, "saving"), k)
  <1>1. PICK y : y = [R[k] EXCEPT !.phase = "saving"]
    OBVIOUS
  <1>2. PICK Q : Q = [R EXCEPT ![k] = y]
    OBVIOUS
  <1>3. y = [node |-> R[k].node, prompt |-> R[k].prompt, phase |-> "saving"]
    BY <1>1 DEF IsRun
  <1>4. y.node = R[k].node /\ y.phase = "saving" /\ IsRun(y)
    BY <1>3 DEF IsRun
  <1>5. IsList(Q)
    BY <1>2, ListChanges
  <1>6. DOMAIN Q = DOMAIN R /\ Q[k] = y /\ \A r \in DOMAIN R : r # k => Q[r] = R[r]
    BY <1>2
  <1>7. Ended(R, Q, k)
    BY <1>4, <1>5, <1>6 DEF Ended
  <1>8. Q = InPhase(R, k, "saving")
    BY <1>1, <1>2 DEF InPhase
  <1> QED
    BY <1>7, <1>8

LEMMA AboutItsNode ==
  ASSUME NEW Q, NEW c, NEW k, NEW m, c.after = OfRun(k), Q[k].node = m
  PROVE  \A n : About(Q, c, n) <=> m = n
  <1>1. c.after.who = "run" /\ c.after.id = k
    BY WhoIs
  <1>2. \A n : c.after # OfEdit(n)
    BY <1>1, WhoIs
  <1> QED
    BY <1>1, <1>2 DEF About

LEMMA EndStep ==
  ASSUME NEW T, NEW E, NEW D, NEW L, NEW R, NEW S, NEW cv, NEW pd, NEW C, NEW A, NEW lost, NEW cl,
         NEW Q, NEW B, NEW c, NEW k,
         GraphInv(T, E, D, L, R, S, cv, pd, C, A, lost, cl),
         k \in DOMAIN R, R[k].phase = "working", Ended(R, Q, k), Joins(C, B, c),
         c.op = "save", c.node = R[k].node, c.prompt = R[k].prompt, c.last = k, c.after = OfRun(k)
  PROVE  GraphInv(T, E, D, L, Q, S, cv, pd, B, A, lost, cl)
  <1>1. /\ TableOK(T, E) /\ LogOK(R, L) /\ RunsOK(T, R, L) /\ CallsOK(T, R, C) /\ AnswersOK(T, R, L, A)
        /\ GraphOK(T, S) /\ DOMAIN cv = DOMAIN S.nodes
        /\ ViewsComplete(S, T, D, C, A) /\ ViewsInData(S, T, R, C, A) /\ ViewsInPlace(S, T, A)
    BY DEF GraphInv
  <1>2. PICK m : m = R[k].node /\ m \in DOMAIN T
    BY <1>1 DEF RunsOK
  <1>3. /\ c.op = "save" /\ c.node = m /\ c.prompt = R[k].prompt /\ c.last = k /\ c.after = OfRun(k)
    BY <1>2
  <1>4. PICK y : y = Q[k]
    OBVIOUS
  <1>5. DOMAIN Q = DOMAIN R /\ Q[k] = y /\ \A r \in DOMAIN R : r # k => Q[r] = R[r]
    BY <1>4 DEF Ended
  <1>8. y.node = m /\ y.phase = "saving" /\ IsRun(y)
    BY <1>2, <1>4 DEF Ended
  <1>9. RunsGrow(R, Q) /\ \A n : n # m => RunsAlikeFor(R, Q, n)
    BY <1>2, <1>5, <1>8 DEF RunsGrow, RunsAlikeFor
  <1>10. CallsOK(T, Q, C) /\ AnswersOK(T, Q, L, A)
    BY <1>1, <1>9, TypesStay, NothingGrows
  <1>11. ForRun(Q, c) /\ CallOK(T, Q, c)
    <2>1. ForRun(Q, c)
      BY <1>3, <1>5, <1>8 DEF ForRun
    <2>2. c.after.id = k
      BY <1>3, WhoIs
    <2> QED
      BY <1>2, <1>3, <1>5, <1>8, <2>1, <2>2 DEF CallOK
  <1>12. Kept(C, B) /\ CallsOK(T, Q, B)
    BY <1>10, <1>11, JoinsKeeps, CallTyped
  <1>13. ViewsComplete(S, T, D, B, A) /\ ViewsInData(S, T, Q, B, A)
    BY <1>1, <1>9, <1>12, ViewsMoreCalls
  <1>14. ~lost => CanvasIsSaved(T, B, cv, pd)
    BY <1>3, CanvasMoreCalls DEF GraphInv
  <1>15. LogOK(Q, L)
    BY <1>1, <1>9, <1>5 DEF LogOK, RunsGrow
  <1>16. IsList(Q)
    BY DEF Ended
  <1>17. ASSUME NEW r \in DOMAIN Q
         PROVE  /\ IsRun(Q[r]) /\ Q[r].node \in DOMAIN T
                /\ Q[r].phase = "over" => \E i \in DOMAIN L : L[i] = r
    <2>1. CASE r = k
      BY <1>2, <1>5, <1>8, <2>1
    <2>2. CASE r # k
      <3>1. Q[r] = R[r] /\ r \in DOMAIN R /\ \A q \in DOMAIN Q : q \in DOMAIN R /\ Q[q].node = R[q].node
        BY <1>2, <1>5, <1>8, <2>2
      <3> QED
        BY <1>1, <3>1 DEF RunsOK
    <2> QED
      BY <2>1, <2>2
  <1>18. RunsOK(T, Q, L)
    BY <1>16, <1>17 DEF RunsOK
  <1>19. DOMAIN R \subseteq Nat
    BY <1>1, ListDomain DEF RunsOK
  <1>20. \A n : About(Q, c, n) <=> n = m
    <2>2. \A n : About(Q, c, n) <=> m = n
      BY <1>3, <1>5, <1>8, AboutItsNode
    <2> QED
      BY <2>2
  <1>21. ASSUME NEW n \in DOMAIN T \ cl, n # m
         PROVE  InOrderFor(T, E, Q, L, B, A, n)
    <2>1. InOrderFor(T, E, R, L, C, A, n)
      BY <1>21 DEF GraphInv
    <2>2. InOrderFor(T, E, Q, L, C, A, n)
      <3>1. \A r \in DOMAIN Q : r \in DOMAIN R
        BY <1>5
      <3> QED
        BY <1>1, <1>9, <1>21, <2>1, <3>1, OrderRuns
    <2>3. ~Carries(Q, c, n) /\ ~LogsRun(Q, c, n) /\ ~Saves(c, n)
      BY <1>3, <1>20, <1>21 DEF Carries, LogsRun, Saves
    <2> QED
      BY <2>2, <2>3, OrderPlainCall
  <1>22. ASSUME m \notin cl
         PROVE  InOrderFor(T, E, Q, L, B, A, m)
    <2>1. InOrderFor(T, E, R, L, C, A, m)
      BY <1>2, <1>22 DEF GraphInv
    (* Of m it is the latest run.                                          *)
    <2>2. NoCarrier(R, C, A, m) /\ R[k].prompt = E[m] /\ Latest(R, m, k)
      BY <1>2, <2>1 DEF InOrderFor, Working
    <2>3. \A i \in DOMAIN C : ~Saves(C[i], m)
      BY <1>1, <2>2, NothingSaved
    <2>4. /\ \A i \in DOMAIN C : Carries(Q, C[i], m) <=> Carries(R, C[i], m)
          /\ \A j \in DOMAIN A : Carries(Q, A[j], m) <=> Carries(R, A[j], m)
      <3>1. CallsOK(T, R, C) /\ AnswersOK(T, R, L, A) /\ RunsGrow(R, Q)
        BY <1>1, <1>9
      <3> QED
        BY <3>1, CallFor, AnswerFor, AboutStays DEF CallsOK, AnswersOK
    <2>5. NoCarrier(Q, C, A, m) /\ OneCarrier(Q, C, A, m)
      BY <2>2, <2>4 DEF NoCarrier, OneCarrier
    <2>6. ASSUME NEW r \in DOMAIN Q, Q[r].node = m
          PROVE  r <= k /\ r \in DOMAIN R /\ R[r].node = m /\ (Q[r].phase = "working" => FALSE)
      <3>1. r \in DOMAIN R /\ R[r].node = m
        BY <1>2, <1>5, <2>6
      <3>2. r <= k
        BY <2>2, <3>1 DEF Latest
      <3>3. CASE r # k /\ Q[r].phase = "working"
        <4>1. Working(R, m, r)
          BY <1>5, <3>1, <3>3 DEF Working
        <4>2. k <= r
          BY <1>2, <2>1, <3>1, <4>1 DEF InOrderFor, Latest
        <4> QED
          BY <1>19, <3>1, <3>2, <3>3, <4>2
      <3> QED
        BY <1>5, <1>8, <3>1, <3>2, <3>3
    <2>7. LastRun(Q, m, k)
      BY <1>5, <1>8, <2>6 DEF LastRun
    <2>8. SavedLast(T, E, Q, B, m)
      BY <1>3, <2>2, <2>3, <2>7, SaveJoins DEF Saves
    <2>9. \A i \in DOMAIN L : L[i] \in DOMAIN R /\ L[i] # k /\ Q[L[i]].node = R[L[i]].node
      BY <1>1, <1>5 DEF LogOK
    <2>10. LaterThanLogged(Q, L, m, k)
      <3>1. ASSUME NEW i \in DOMAIN L, Q[L[i]].node = m PROVE L[i] < k
        <4>1. L[i] <= k /\ L[i] # k /\ L[i] \in Nat /\ k \in Nat
          BY <1>19, <2>2, <2>9, <3>1 DEF Latest
        <4> QED
          BY <4>1
      <3> QED
        BY <3>1 DEF LaterThanLogged
    <2>11. ASSUME NEW i \in DOMAIN C, C[i].op = "log"
           PROVE  C[i].run \in DOMAIN R /\ C[i].run # k /\ Q[C[i].run].node = R[C[i].run].node
      <3>1. ForRun(R, C[i]) /\ C[i].run = C[i].after.id
        BY <1>1, <2>11 DEF CallsOK, CallOK
      <3>2. C[i].run \in DOMAIN R /\ R[C[i].run].phase # "working"
        BY <3>1, RunOf
      <3> QED
        BY <1>5, <3>2
    <2>12. LaterThanLogs(Q, C, m, k)
      <3>1. ASSUME NEW i \in DOMAIN C, LogsRun(Q, C[i], m) PROVE C[i].run < k
        <4>1. C[i].run <= k /\ C[i].run # k /\ C[i].run \in Nat /\ k \in Nat
          BY <1>19, <2>2, <2>11, <3>1 DEF LogsRun, Latest
        <4> QED
          BY <4>1
      <3> QED
        BY <3>1 DEF LaterThanLogs
    <2>13. \A i \in DOMAIN C : LogsRun(Q, C[i], m) <=> LogsRun(R, C[i], m)
      BY <2>11 DEF LogsRun
    <2>14. LogInOrder(Q, L, C, A, m)
      <3>1. \A x : LaterThanLogged(R, L, m, x) => LaterThanLogged(Q, L, m, x)
        BY <2>9 DEF LaterThanLogged
      <3>2. LogInOrder(R, L, C, A, m)
        BY <2>1 DEF InOrderFor
      <3>3. /\ \A i \in DOMAIN C : ~CarriesRun(Q, C[i], m)
            /\ \A i \in DOMAIN A : ~CarriesRun(Q, A[i], m)
        BY <2>5 DEF NoCarrier, CarriesRun
      <3> QED
        BY <2>9, <2>13, <3>1, <3>2, <3>3 DEF LogInOrder
    <2>15. Carries(Q, c, m) /\ c.after.id = k
      BY <1>3, <1>20, WhoIs DEF Carries
    <2>16. \A r \in DOMAIN Q : ~Working(Q, m, r)
      BY <2>6 DEF Working
    <2> QED
      BY <2>5, <2>8, <2>10, <2>12, <2>14, <2>15, <2>16, OrderCarriedCall
  <1>23. \A n \in DOMAIN T \ cl : InOrderFor(T, E, Q, L, B, A, n)
    BY <1>21, <1>22
  <1>24. AnswersOK(T, Q, L, A) /\ CallsOK(T, Q, B)
    BY <1>10, <1>12
  <1> QED
    BY <1>1, <1>13, <1>14, <1>15, <1>18, <1>23, <1>24 DEF GraphInv

-----------------------------------------------------------------------------
(* The steps of the main process: a call is handled.                       *)
LEMMA HandledStep ==
  ASSUME NEW T, NEW E, NEW D, NEW L, NEW R, NEW S, NEW cv, NEW pd, NEW C, NEW A, NEW lost, NEW cl,
         NEW U, NEW G, NEW F, NEW K, NEW B, NEW Z, NEW c, NEW a,
         GraphInv(T, E, D, L, R, S, cv, pd, C, A, lost, cl),
         Leaves(C, B, c), Joins(A, Z, a), a.after = c.after, a.op = "graph" <=> c.op = "get",
         a.op = "logged" <=> c.op = "log", a.op # "log", c.op # "logged",
         MakesUp(T, D, R, U, F, a),
         a.op = "graph" => Complete(U, F, a.graph) /\ InPlace(U, a.graph)
                           /\ \A n \in DOMAIN a.graph.nodes : InData(U, a.graph, n),
         TableOK(U, G), TableGrows(T, U), RunsOK(U, R, K), LogOK(R, K), AnswerOK(U, R, K, a),
         K = L \/ (Joins(L, K, c.run) /\ c.op = "log"),
         \A n \in DOMAIN T : /\ G[n] = E[n]
                             /\ IF Saves(c, n) THEN U[n].prompt = c.prompt /\ U[n].last = c.last
                                ELSE U[n].prompt = T[n].prompt /\ U[n].last = T[n].last
                             /\ U[n].at = IF c.op = "layout" /\ n \in DOMAIN c.places
                                          THEN c.places[n] ELSE T[n].at,
         \A n \in DOMAIN U : n \in DOMAIN T \/ (U[n].prompt = G[n] /\ U[n].last = 0)
  PROVE  GraphInv(U, G, F, K, R, S, cv, pd, B, Z, lost, cl)
  <1>1. /\ TableOK(T, E) /\ LogOK(R, L) /\ RunsOK(T, R, L) /\ CallsOK(T, R, C) /\ AnswersOK(T, R, L, A)
        /\ GraphOK(T, S) /\ DOMAIN cv = DOMAIN S.nodes
        /\ ViewsComplete(S, T, D, C, A) /\ ViewsInData(S, T, R, C, A) /\ ViewsInPlace(S, T, A)
    BY DEF GraphInv
  <1>2. LogGrows(L, K)
    BY JoinedIs DEF LogGrows
  <1>3. CallsOK(U, R, C) /\ AnswersOK(U, R, K, A)
    BY <1>1, <1>2, TypesStay, NothingGrows
  <1>4. CallsOK(U, R, B)
    BY <1>3, CallGone
  <1>5. AnswersOK(U, R, K, Z)
    BY <1>3, AnswerTyped
  <1>6. GraphOK(U, S)
    BY <1>1, GraphStays
  <1>7. ViewsComplete(S, U, F, B, Z) /\ ViewsInData(S, U, R, B, Z) /\ ViewsInPlace(S, U, Z)
    BY <1>1, ViewsHandled
  <1>8. DOMAIN cv \subseteq DOMAIN T
    BY <1>1 DEF GraphOK, NodesIn
  <1>9. \A n \in DOMAIN cv : U[n].at = IF c.op = "layout" /\ n \in DOMAIN c.places
                                       THEN c.places[n] ELSE T[n].at
    BY <1>8
  <1>10. ~lost => CanvasIsSaved(U, B, cv, pd)
    BY <1>9, CanvasHandled DEF GraphInv
  <1>11. ASSUME NEW n \in DOMAIN U \ cl
         PROVE  InOrderFor(U, G, R, K, B, Z, n)
    <2>1. CASE n \in DOMAIN T
      <3>1. InOrderFor(T, E, R, L, C, A, n)
        BY <1>11, <2>1 DEF GraphInv
      <3>2. (a.op # "log" /\ a.op # "logged") <=> (c.op # "log" /\ c.op # "logged")
        OBVIOUS
      <3>3. /\ G[n] = E[n]
            /\ IF Saves(c, n) THEN U[n].prompt = c.prompt /\ U[n].last = c.last
               ELSE U[n].prompt = T[n].prompt /\ U[n].last = T[n].last
        BY <2>1
      <3> QED
        BY <3>1, <3>2, <3>3, OrderHandled
    <2>2. CASE n \notin DOMAIN T
      <3>1. U[n].prompt = G[n] /\ U[n].last = 0
        BY <2>2
      <3>2. InOrderFor(U, G, R, L, C, A, n)
        BY <1>1, <2>2, <3>1, OrderNewNode
      <3>3. ~Saves(c, n)
        <4>1. CallOK(T, R, c)
          BY <1>1, CallGone
        <4> QED
          BY <2>2, <4>1 DEF Saves, CallOK
      <3>4. (a.op # "log" /\ a.op # "logged") <=> (c.op # "log" /\ c.op # "logged")
        OBVIOUS
      <3> QED
        BY <3>2, <3>3, <3>4, OrderHandled
    <2> QED
      BY <2>1, <2>2
  <1> QED
    BY <1>1, <1>4, <1>5, <1>6, <1>7, <1>10, <1>11 DEF GraphInv

-----------------------------------------------------------------------------
(* The steps of the renderer: an answer is handled.                        *)
LEMMA AnsweredStep ==
  ASSUME NEW T, NEW E, NEW D, NEW L, NEW R, NEW S, NEW cv, NEW pd, NEW C, NEW A, NEW lost, NEW cl,
         NEW Q, NEW V, NEW dw, NEW B, NEW Z, NEW gone, NEW a,
         GraphInv(T, E, D, L, R, S, cv, pd, C, A, lost, cl),
         Leaves(A, Z, a), Kept(C, B), RunsGrow(R, Q),
         CallsOK(T, Q, B), RunsOK(T, Q, L), LogOK(Q, L),
         a.op = "created" /\ a.session = S.session => \E i \in DOMAIN B : B[i].op = "get",
         a.op = "saved" => \E i \in DOMAIN B : B[i].op = "get" /\ B[i].after = a.after,
         IF a.op = "graph"
         THEN /\ V = a.graph /\ dw = MapGraphNodes(a.graph)
              /\ ~gone => /\ pd = NoPlaces /\ \A i \in DOMAIN B : B[i].op # "layout"
                          /\ \A i \in DOMAIN A : A[i].op # "layout"
         ELSE V = S /\ dw = cv /\ gone = lost,
         CanvasIsSaved(T, C, cv, pd) => CanvasIsSaved(T, B, cv, pd),
         \A n \in DOMAIN T \ cl : InOrderFor(T, E, Q, L, B, Z, n)
  PROVE  GraphInv(T, E, D, L, Q, V, dw, pd, B, Z, gone, cl)
  <1>1. /\ TableOK(T, E) /\ LogOK(R, L) /\ RunsOK(T, R, L) /\ CallsOK(T, R, C) /\ AnswersOK(T, R, L, A)
        /\ GraphOK(T, S) /\ DOMAIN cv = DOMAIN S.nodes
        /\ ViewsComplete(S, T, D, C, A) /\ ViewsInData(S, T, R, C, A) /\ ViewsInPlace(S, T, A)
    BY DEF GraphInv
  <1>2. V = IF a.op = "graph" THEN a.graph ELSE S
    OBVIOUS
  <1>3. ViewsComplete(V, T, D, B, Z) /\ ViewsInData(V, T, Q, B, Z) /\ ViewsInPlace(V, T, Z)
    BY <1>1, <1>2, ViewsAnswered
  <1>4. AnswersOK(T, R, L, Z) /\ AnswerOK(T, R, L, a)
    BY <1>1, AnswerGone
  <1>5. AnswersOK(T, Q, L, Z)
    BY <1>1, <1>4, TypesStay, NothingGrows
  <1>6. GraphOK(T, V) /\ DOMAIN dw = DOMAIN V.nodes
    <2>1. CASE a.op = "graph"
      BY <1>4, <2>1 DEF AnswerOK, MapGraphNodes
    <2>2. CASE a.op # "graph"
      BY <1>1, <2>2
    <2> QED
      BY <2>1, <2>2
  <1>7. ASSUME ~gone PROVE CanvasIsSaved(T, B, dw, pd)
    <2>1. CASE a.op = "graph"
      <3>1. 1 \in DOMAIN A /\ A[1] = a
        BY LeftIs
      <3>2. 1 \in Views(A) \ {0} /\ ViewAt(S, A, 1) = a.graph
        BY <2>1, <3>1 DEF Views, ViewAt
      <3>3. InPlace(T, a.graph) \/ LaidOutAfter(A, 1)
        BY <1>1, <3>2 DEF ViewsInPlace
      <3>4. InPlace(T, a.graph)
        BY <1>7, <2>1, <3>3 DEF LaidOutAfter
      <3> QED
        BY <1>7, <2>1, <3>4, CanvasRedrawn
    <2>2. CASE a.op # "graph"
      BY <1>7, <2>2 DEF GraphInv
    <2> QED
      BY <2>1, <2>2
  <1> QED
    BY <1>1, <1>3, <1>5, <1>6, <1>7 DEF GraphInv

NoLayout(C) == \A i \in DOMAIN C : C[i].op # "layout"

LEMMA NoLayoutJoins ==
  ASSUME NEW C, NEW B, NEW c, Joins(C, B, c), c.op # "layout", NoLayout(C)
  PROVE  NoLayout(B)
  BY JoinedIs DEF NoLayout

LEMMA PlainNoLayout ==
  ASSUME NEW C, NEW B, PlainMore(C, B), NoLayout(C)
  PROVE  NoLayout(B)
  BY NoLayoutJoins DEF PlainMore, IsPlain

(* What an answer leaves of a node's order.                                *)
LEMMA OrderLeft ==
  ASSUME NEW T, NEW E, NEW D, NEW L, NEW R, NEW S, NEW cv, NEW pd, NEW C, NEW A, NEW lost, NEW cl,
         NEW Z, NEW a, GraphInv(T, E, D, L, R, S, cv, pd, C, A, lost, cl), Leaves(A, Z, a)
  PROVE  \A n \in DOMAIN T \ cl : InOrderFor(T, E, R, L, C, Z, n)
  BY OrderAnswered DEF GraphInv

(* The answer is followed by calls that concern no node's data.            *)
LEMMA AnsweredPlain ==
  ASSUME NEW T, NEW E, NEW D, NEW L, NEW R, NEW S, NEW cv, NEW pd, NEW C, NEW A, NEW lost, NEW cl,
         NEW V, NEW dw, NEW B, NEW Z, NEW gone, NEW a,
         GraphInv(T, E, D, L, R, S, cv, pd, C, A, lost, cl),
         Leaves(A, Z, a), PlainMore(C, B), a.op # "saved",
         a.op = "created" /\ a.session = S.session => \E i \in DOMAIN B : B[i].op = "get",
         IF a.op = "graph"
         THEN /\ V = a.graph /\ dw = MapGraphNodes(a.graph)
              /\ ~gone => pd = NoPlaces /\ NoLayout(C) /\ NoLayout(A)
         ELSE V = S /\ dw = cv /\ gone = lost
  PROVE  GraphInv(T, E, D, L, R, V, dw, pd, B, Z, gone, cl)
  <1>1. CallsOK(T, R, C) /\ RunsOK(T, R, L) /\ LogOK(R, L) /\ RunsGrow(R, R)
    BY NothingGrows DEF GraphInv
  <1>2. Kept(C, B) /\ CallsOK(T, R, B)
    BY <1>1, PlainMoreKeeps
  <1>3. CanvasIsSaved(T, C, cv, pd) => CanvasIsSaved(T, B, cv, pd)
    BY <1>1, PlainMoreKeeps
  <1>4. \A n \in DOMAIN T \ cl : InOrderFor(T, E, R, L, B, Z, n)
    <2>1. ASSUME NEW n \in DOMAIN T \ cl PROVE InOrderFor(T, E, R, L, B, Z, n)
      <3>1. InOrderFor(T, E, R, L, C, Z, n)
        BY OrderLeft
      <3> QED
        BY <1>1, <3>1, PlainMoreKeeps
    <2> QED
      BY <2>1
  <1>5. NoLayout(C) => NoLayout(B)
    BY PlainNoLayout
  <1>6. IF a.op = "graph"
        THEN /\ V = a.graph /\ dw = MapGraphNodes(a.graph)
             /\ ~gone => /\ pd = NoPlaces /\ \A i \in DOMAIN B : B[i].op # "layout"
                         /\ \A i \in DOMAIN A : A[i].op # "layout"
        ELSE V = S /\ dw = cv /\ gone = lost
    BY <1>5 DEF NoLayout
  <1> QED
    BY <1>1, <1>2, <1>3, <1>4, <1>6, AnsweredStep

(* What was saved is loaded.                                               *)
LEMMA AnsweredSaved ==
  ASSUME NEW T, NEW E, NEW D, NEW L, NEW R, NEW S, NEW cv, NEW pd, NEW C, NEW A, NEW lost, NEW cl,
         NEW B, NEW Z, NEW a, NEW c,
         GraphInv(T, E, D, L, R, S, cv, pd, C, A, lost, cl),
         Leaves(A, Z, a), a.op = "saved", Joins(C, B, c), c.op = "get", c.after = a.after
  PROVE  GraphInv(T, E, D, L, R, S, cv, pd, B, Z, lost, cl)
  <1>1. /\ CallsOK(T, R, C) /\ RunsOK(T, R, L) /\ LogOK(R, L) /\ RunsGrow(R, R)
        /\ AnswersOK(T, R, L, A)
    BY NothingGrows DEF GraphInv
  <1>2. AnswerOK(T, R, L, a)
    BY <1>1, AnswerGone
  <1>3. ForEdit(T, c) \/ ForRun(R, c)
    BY <1>2 DEF AnswerOK, ForEdit, ForRun
  <1>4. Kept(C, B) /\ CallsOK(T, R, B)
    BY <1>1, <1>3, JoinsKeeps, CallTyped DEF CallOK
  <1>5. CanvasIsSaved(T, C, cv, pd) => CanvasIsSaved(T, B, cv, pd)
    BY CanvasMoreCalls
  <1>6. ASSUME NEW n \in DOMAIN T \ cl PROVE InOrderFor(T, E, R, L, B, Z, n)
    <2>1. InOrderFor(T, E, R, L, C, A, n)
      BY <1>6 DEF GraphInv
    <2>2. /\ InOrderFor(T, E, R, L, C, Z, n)
          /\ Carries(R, a, n) => /\ NoCarrier(R, C, Z, n) /\ \A r \in DOMAIN R : ~Working(R, n, r)
          /\ CarriesRun(R, a, n) => LaterThanLogged(R, L, n, a.after.id) /\ LaterThanLogs(R, C, n, a.after.id)
      BY <2>1, OrderAnswered
    <2>3. /\ Carries(R, c, n) <=> Carries(R, a, n)
          /\ CarriesRun(R, c, n) <=> CarriesRun(R, a, n)
          /\ ~LogsRun(R, c, n) /\ ~Saves(c, n)
      BY AboutSame DEF Carries, CarriesRun, LogsRun, Saves
    <2>4. CASE ~Carries(R, c, n)
      BY <2>2, <2>3, <2>4, OrderPlainCall
    <2>5. CASE Carries(R, c, n)
      <3>1. OneCarrier(R, C, Z, n) /\ LogInOrder(R, L, C, Z, n) /\ SavedLast(T, E, R, C, n)
        BY <2>2 DEF InOrderFor
      <3>2. SavedLast(T, E, R, B, n)
        BY <2>3, <3>1, SavedJoins
      <3>3. CarriesRun(R, c, n) => LaterThanLogged(R, L, n, c.after.id) /\ LaterThanLogs(R, C, n, c.after.id)
        BY <2>2, <2>3
      <3>4. NoCarrier(R, C, Z, n) /\ \A r \in DOMAIN R : ~Working(R, n, r)
        BY <2>2, <2>3, <2>5
      <3> QED
        BY <2>5, <3>1, <3>2, <3>3, <3>4, OrderCarriedCall
    <2> QED
      BY <2>4, <2>5
  <1>7. \E i \in DOMAIN B : B[i].op = "get" /\ B[i].after = a.after
    BY JoinedIs
  <1> QED
    BY <1>1, <1>4, <1>5, <1>6, <1>7, AnsweredStep

(* The graph is loaded that follows the save of a run: the run is logged.  *)
LEMMA AnsweredLoaded ==
  ASSUME NEW T, NEW E, NEW D, NEW L, NEW R, NEW S, NEW cv, NEW pd, NEW C, NEW A, NEW lost, NEW cl,
         NEW V, NEW dw, NEW B, NEW Z, NEW gone, NEW a, NEW c,
         GraphInv(T, E, D, L, R, S, cv, pd, C, A, lost, cl),
         Leaves(A, Z, a), a.op = "graph", ForRun(R, a), Joins(C, B, c),
         c.op = "log", c.run = a.after.id, c.after = a.after,
         V = a.graph, dw = MapGraphNodes(a.graph),
         ~gone => pd = NoPlaces /\ NoLayout(C) /\ NoLayout(A)
  PROVE  GraphInv(T, E, D, L, R, V, dw, pd, B, Z, gone, cl)
  <1>1. CallsOK(T, R, C) /\ RunsOK(T, R, L) /\ LogOK(R, L) /\ RunsGrow(R, R)
    BY NothingGrows DEF GraphInv
  <1>2. ForRun(R, c)
    BY DEF ForRun
  <1>3. Kept(C, B) /\ CallsOK(T, R, B)
    BY <1>1, <1>2, JoinsKeeps, CallTyped DEF CallOK
  <1>4. CanvasIsSaved(T, C, cv, pd) => CanvasIsSaved(T, B, cv, pd)
    BY CanvasMoreCalls
  <1>5. ASSUME NEW n \in DOMAIN T \ cl PROVE InOrderFor(T, E, R, L, B, Z, n)
    <2>1. InOrderFor(T, E, R, L, C, A, n)
      BY <1>5 DEF GraphInv
    <2>2. /\ InOrderFor(T, E, R, L, C, Z, n)
          /\ Carries(R, a, n) => /\ NoCarrier(R, C, Z, n) /\ \A r \in DOMAIN R : ~Working(R, n, r)
          /\ CarriesRun(R, a, n) => LaterThanLogged(R, L, n, a.after.id) /\ LaterThanLogs(R, C, n, a.after.id)
      BY <2>1, OrderAnswered
    <2>3. ~Carries(R, c, n) /\ ~Saves(c, n) /\ ~CarriesRun(R, c, n)
      BY DEF Carries, CarriesRun, Saves
    <2>4. CASE R[c.run].node # n
      <3>1. ~LogsRun(R, c, n)
        BY <2>4 DEF LogsRun
      <3> QED
        BY <2>2, <2>3, <3>1, OrderPlainCall
    <2>5. CASE R[c.run].node = n
      <3>1. a.after.who = "run" /\ R[a.after.id].node = n
        BY <2>5, RunOf
      <3>2. CarriesRun(R, a, n) /\ Carries(R, a, n)
        BY <3>1 DEF CarriesRun, Carries, About
      <3>3. OneCarrier(R, C, Z, n) /\ LogInOrder(R, L, C, Z, n) /\ SavedLast(T, E, R, C, n)
        BY <2>2 DEF InOrderFor
      <3>4. NoCarrier(R, C, Z, n) /\ \A r \in DOMAIN R : ~Working(R, n, r)
        BY <2>2, <3>2
      <3>5. LaterThanLogged(R, L, n, c.run) /\ LaterThanLogs(R, C, n, c.run)
        BY <2>2, <3>2
      <3>6. OneCarrier(R, B, Z, n)
        BY <2>3, <3>3, CarrierJoins
      <3>7. LogInOrder(R, L, B, Z, n)
        BY <2>3, <3>3, <3>4, <3>5, LogJoins
      <3>8. SavedLast(T, E, R, B, n)
        BY <2>3, <3>3, SavedJoins
      <3> QED
        BY <3>4, <3>6, <3>7, <3>8 DEF InOrderFor
    <2> QED
      BY <2>4, <2>5
  <1>6. NoLayout(C) => NoLayout(B)
    BY NoLayoutJoins
  <1>7. IF a.op = "graph"
        THEN /\ V = a.graph /\ dw = MapGraphNodes(a.graph)
             /\ ~gone => /\ pd = NoPlaces /\ \A i \in DOMAIN B : B[i].op # "layout"
                         /\ \A i \in DOMAIN A : A[i].op # "layout"
        ELSE V = S /\ dw = cv /\ gone = lost
    BY <1>6 DEF NoLayout
  <1> QED
    BY <1>1, <1>3, <1>4, <1>5, <1>7, AnsweredStep

(* Run k is logged, and over.                                              *)
Overed(R, Q, k) ==
  /\ IsList(Q) /\ DOMAIN Q = DOMAIN R /\ IsRun(Q[k])
  /\ Q[k].node = R[k].node /\ Q[k].prompt = R[k].prompt /\ Q[k].phase = "over"
  /\ \A r \in DOMAIN R : r # k => Q[r] = R[r]

LEMMA RunOvered ==
  ASSUME NEW R, IsList(R), NEW k \in DOMAIN R, IsRun(R[k])
  PROVE  Overed(R, InPhase(R, k, "over"), k)
  <1>1. PICK y : y = [R[k] EXCEPT !.phase = "over"]
    OBVIOUS
  <1>2. PICK Q : Q = [R EXCEPT ![k] = y]
    OBVIOUS
  <1>3. y = [node |-> R[k].node, prompt |-> R[k].prompt, phase |-> "over"]
    BY <1>1 DEF IsRun
  <1>4. y.node = R[k].node /\ y.prompt = R[k].prompt /\ y.phase = "over" /\ IsRun(y)
    BY <1>3 DEF IsRun
  <1>5. IsList(Q)
    BY <1>2, ListChanges
  <1>6. DOMAIN Q = DOMAIN R /\ Q[k] = y /\ \A r \in DOMAIN R : r # k => Q[r] = R[r]
    BY <1>2
  <1>7. Overed(R, Q, k)
    BY <1>4, <1>5, <1>6 DEF Overed
  <1>8. Q = InPhase(R, k, "over")
    BY <1>1, <1>2 DEF InPhase
  <1> QED
    BY <1>7, <1>8

LEMMA AnsweredLogged ==
  ASSUME NEW T, NEW E, NEW D, NEW L, NEW R, NEW S, NEW cv, NEW pd, NEW C, NEW A, NEW lost, NEW cl,
         NEW Q, NEW Z, NEW a, NEW k,
         GraphInv(T, E, D, L, R, S, cv, pd, C, A, lost, cl),
         Leaves(A, Z, a), a.op = "logged", k \in DOMAIN R, R[k].phase # "working",
         \E i \in DOMAIN L : L[i] = k, Overed(R, Q, k)
  PROVE  GraphInv(T, E, D, L, Q, S, cv, pd, C, Z, lost, cl)
  <1>1. /\ CallsOK(T, R, C) /\ RunsOK(T, R, L) /\ LogOK(R, L) /\ AnswersOK(T, R, L, A)
    BY DEF GraphInv
  <1>2. /\ DOMAIN Q = DOMAIN R
        /\ \A r \in DOMAIN R : /\ Q[r].node = R[r].node /\ Q[r].prompt = R[r].prompt
                               /\ Q[r].phase = "working" <=> R[r].phase = "working"
    <2>1. ASSUME NEW r \in DOMAIN R
          PROVE  /\ Q[r].node = R[r].node /\ Q[r].prompt = R[r].prompt
                 /\ Q[r].phase = "working" <=> R[r].phase = "working"
      <3>1. CASE r = k
        BY <3>1 DEF Overed
      <3>2. CASE r # k
        BY <3>2 DEF Overed
      <3> QED
        BY <3>1, <3>2
    <2> QED
      BY <2>1 DEF Overed
  <1>3. RunsGrow(R, Q) /\ \A n : RunsAlikeFor(R, Q, n)
    BY <1>2 DEF RunsGrow, RunsAlikeFor
  <1>4. CallsOK(T, Q, C)
    BY <1>1, <1>3, TypesStay, NothingGrows
  <1>5. LogOK(Q, L)
    BY <1>1, <1>2 DEF LogOK
  <1>6. ASSUME NEW r \in DOMAIN Q
        PROVE  /\ IsRun(Q[r]) /\ Q[r].node \in DOMAIN T
               /\ Q[r].phase = "over" => \E i \in DOMAIN L : L[i] = r
    <2>1. CASE r = k
      BY <1>1, <1>2, <2>1 DEF Overed, RunsOK
    <2>2. CASE r # k
      BY <1>1, <1>2, <2>2 DEF Overed, RunsOK
    <2> QED
      BY <2>1, <2>2
  <1>7. RunsOK(T, Q, L)
    BY <1>6 DEF RunsOK, Overed
  <1>8. ASSUME NEW n \in DOMAIN T \ cl PROVE InOrderFor(T, E, Q, L, C, Z, n)
    <2>1. InOrderFor(T, E, R, L, C, Z, n)
      BY OrderLeft
    <2>2. AnswersOK(T, R, L, Z)
      BY <1>1, AnswerGone
    <2>3. \A r \in DOMAIN Q : r \in DOMAIN R
      BY <1>2
    <2> QED
      BY <1>1, <1>3, <2>1, <2>2, <2>3, OrderRuns
  <1>9. Kept(C, C)
    BY DEF Kept
  <1> QED
    BY <1>3, <1>4, <1>5, <1>7, <1>8, <1>9, AnsweredStep

-----------------------------------------------------------------------------
(* The actions, one by one.                                                *)
LEMMA CallsAreList == ASSUME FlowInv PROVE IsList(graphCalls) /\ IsList(graphAnswers) /\ IsList(runs)
  BY DEF FlowInv, GraphInv, CallsOK, AnswersOK, RunsOK

LEMMA PlainAppend ==
  ASSUME NEW C, IsList(C), NEW c, IsPlain(c)
  PROVE  PlainMore(C, Append(C, c))
  BY ListJoins DEF PlainMore

LEMMA PlainCalls ==
  /\ \A s : IsPlain(Get(s, User))
  /\ \A s, k : IsPlain(NewNode(s, k, User))
  /\ \A s, p, q : IsPlain(NewEdge(s, p, q, User))
  /\ \A b : IsPlain(BootCall(b))
  <1>1. /\ \A s, f : Get(s, f).op = "get" /\ Get(s, f).after = f
        /\ \A s, k, f : NewNode(s, k, f).op = "node" /\ NewNode(s, k, f).after = f
        /\ \A s, p, q, f : NewEdge(s, p, q, f).op = "edge" /\ NewEdge(s, p, q, f).after = f
    BY DEF Get, NewNode, NewEdge
  <1>2. \A b : /\ BootCall(b).op \in {"node", "edge"} /\ BootCall(b).after = Boot
    BY <1>1 DEF BootCall
  <1> QED
    BY <1>1, <1>2 DEF IsPlain, ForNone

LEMMA BootPlain ==
  ASSUME IsList(graphCalls), NEW b, BootGoesOn(b)
  PROVE  PlainMore(graphCalls, graphCalls')
  <1>1. PICK x : x = [b EXCEPT !.step = NextStep(b)]
    OBVIOUS
  <1>2. graphCalls' = graphCalls \/ graphCalls' = Append(graphCalls, BootCall(x))
    BY <1>1 DEF BootGoesOn
  <1>3. PlainMore(graphCalls, Append(graphCalls, BootCall(x)))
    BY PlainAppend, PlainCalls
  <1> QED
    BY <1>2, <1>3 DEF PlainMore

(* At most a plain call, and nothing else changes.                         *)
LEMMA FlowPlain ==
  ASSUME FlowInv, PlainMore(graphCalls, graphCalls'),
         UNCHANGED <<rows, edges, log, shown, canvas, disturbed, edited, clashed, pending, runs, graphAnswers>>
  PROVE  FlowInv'
  <1>1. GraphInv(rows, edited, edges, log, runs, shown, canvas, pending,
                 graphCalls, graphAnswers, disturbed, clashed)
    BY DEF FlowInv
  <1>2. PICK B : B = graphCalls'
    OBVIOUS
  <1>3. GraphInv(rows, edited, edges, log, runs, shown, canvas, pending,
                 B, graphAnswers, disturbed, clashed)
    BY <1>1, <1>2, PlainStep
  <1> QED
    BY <1>2, <1>3 DEF FlowInv

LEMMA FlowIdle == ASSUME FlowInv, UNCHANGED flowVars PROVE FlowInv'
  <1>1. PlainMore(graphCalls, graphCalls') /\
        UNCHANGED <<rows, edges, log, shown, canvas, disturbed, edited, clashed, pending, runs, graphAnswers>>
    BY DEF flowVars, tableVars, canvasVars, userVars, PlainMore
  <1> QED
    BY <1>1, FlowPlain

LEMMA FlowAsks ==
  ASSUME FlowInv,
         (\E s \in FlowSessions : SelectFlowSession(s)) \/ SelectModule \/ BootstrapSelfHost
           \/ (\E n, m \in DOMAIN shown.nodes : Connect(n, m))
  PROVE  FlowInv'
  <1>1. IsList(graphCalls)
    BY CallsAreList
  <1>2. \A c : IsPlain(c) => PlainMore(graphCalls, Append(graphCalls, c))
    BY <1>1, PlainAppend
  <1>3. ASSUME NEW s, SelectFlowSession(s) PROVE FlowInv'
    <2>1. PlainMore(graphCalls, graphCalls')
      BY <1>2, <1>3, PlainCalls DEF SelectFlowSession
    <2> QED
      BY <1>3, <2>1, FlowPlain DEF SelectFlowSession, tableVars, canvasVars
  <1>4. CASE SelectModule
    <2>1. PlainMore(graphCalls, graphCalls')
      BY <1>2, <1>4, PlainCalls DEF SelectModule
    <2> QED
      BY <1>4, <2>1, FlowPlain DEF SelectModule, tableVars, canvasVars
  <1>5. ASSUME NEW n, NEW m, Connect(n, m) PROVE FlowInv'
    <2>1. PlainMore(graphCalls, graphCalls')
      BY <1>2, <1>5, PlainCalls DEF Connect
    <2> QED
      BY <1>5, <2>1, FlowPlain DEF Connect, tableVars, canvasVars
  <1>6. CASE BootstrapSelfHost
    <2>1. \E b : BootGoesOn(b)
      BY <1>6 DEF BootstrapSelfHost
    <2>2. PlainMore(graphCalls, graphCalls')
      BY <1>1, <2>1, BootPlain
    <2> QED
      BY <1>6, <2>2, FlowPlain DEF BootstrapSelfHost, tableVars, canvasVars
  <1> QED
    BY <1>3, <1>4, <1>5, <1>6

LEMMA FlowDrags == ASSUME FlowInv, NEW n, Drag(n) PROVE FlowInv'
  <1>1. GraphInv(rows, edited, edges, log, runs, shown, canvas, pending,
                 graphCalls, graphAnswers, disturbed, clashed)
    BY DEF FlowInv
  <1>2. PICK dw : dw = canvas' /\ dw = [canvas EXCEPT ![n] = acts'] /\ dw = pending'
    BY DEF Drag, LayoutPayload
  <1>3. DOMAIN dw = DOMAIN canvas
    BY <1>2
  <1>4. GraphInv(rows, edited, edges, log, runs, shown, dw, dw,
                 graphCalls, graphAnswers, disturbed, clashed)
    BY <1>1, <1>3, DragStep
  <1>5. UNCHANGED <<rows, edited, edges, log, runs, shown, graphCalls, graphAnswers, disturbed, clashed>>
    BY DEF Drag, tableVars
  <1> QED
    BY <1>2, <1>4, <1>5 DEF FlowInv

LEMMA FlowCommits == ASSUME FlowInv, CommitLayout PROVE FlowInv'
  <1>1. GraphInv(rows, edited, edges, log, runs, shown, canvas, pending,
                 graphCalls, graphAnswers, disturbed, clashed)
    BY DEF FlowInv
  <1>2. PICK B, c : B = graphCalls' /\ c = Layout(pending) /\ B = Append(graphCalls, c)
    BY DEF CommitLayout
  <1>3. Joins(graphCalls, B, c)
    BY <1>2, CallsAreList, ListJoins
  <1>4. pending # NoPlaces /\ pending' = NoPlaces
    BY DEF CommitLayout
  <1>5. GraphInv(rows, edited, edges, log, runs, shown, canvas, NoPlaces,
                 B, graphAnswers, disturbed, clashed)
    BY <1>1, <1>2, <1>3, <1>4, CommitStep
  <1>6. UNCHANGED <<rows, edited, edges, log, runs, shown, canvas, graphAnswers, disturbed, clashed>>
    BY DEF CommitLayout, tableVars, canvasVars, userVars
  <1> QED
    BY <1>2, <1>4, <1>5, <1>6 DEF FlowInv

(* A node that is neither being saved nor at work.                         *)
LEMMA NotSaving ==
  ASSUME NEW n, ~Saving(n)
  PROVE  NoCarrier(runs, graphCalls, graphAnswers, n)
  <1>1. /\ \A i \in DOMAIN graphCalls : graphCalls[i] \in UnderWay
        /\ \A i \in DOMAIN graphAnswers : graphAnswers[i] \in UnderWay
    BY DEF UnderWay
  <1>2. \A m \in UnderWay : ~Carries(runs, m, n)
    BY DEF Saving, Carries, About
  <1> QED
    BY <1>1, <1>2 DEF NoCarrier

LEMMA FlowEdits ==
  ASSUME FlowInv, NEW n \in DOMAIN shown.nodes, EditPrompt(n)
  PROVE  FlowInv'
  <1>1. GraphInv(rows, edited, edges, log, runs, shown, canvas, pending,
                 graphCalls, graphAnswers, disturbed, clashed)
    BY DEF FlowInv
  <1>2. PICK B, c, x, G, cm :
          /\ B = graphCalls' /\ x = acts' /\ c = Save(n, x, shown.nodes[n].last, OfEdit(n))
          /\ B = Append(graphCalls, c) /\ G = edited' /\ G = Edits(edited, n, x) /\ cm = clashed'
    BY DEF EditPrompt, Edits
  <1>3. Joins(graphCalls, B, c)
    BY <1>2, CallsAreList, ListJoins
  <1>4. clashed \subseteq cm /\ (n \notin cm => ~Saving(n) /\ ~Running(n))
    BY <1>2 DEF EditPrompt
  <1>5. n \notin cm => /\ NoCarrier(runs, graphCalls, graphAnswers, n)
                       /\ \A r \in DOMAIN runs : ~Working(runs, n, r)
    BY <1>4, NotSaving DEF Running, Working
  <1>6. GraphInv(rows, G, edges, log, runs, shown, canvas, pending, B, graphAnswers, disturbed, cm)
    BY <1>1, <1>2, <1>3, <1>4, <1>5, EditStep
  <1>7. UNCHANGED <<rows, edges, log, runs, shown, canvas, pending, graphAnswers, disturbed>>
    BY DEF EditPrompt, tableVars, canvasVars
  <1> QED
    BY <1>2, <1>6, <1>7 DEF FlowInv

LEMMA FlowRuns ==
  ASSUME FlowInv, NEW n \in DOMAIN shown.nodes, RunNode(n)
  PROVE  FlowInv'
  <1>1. GraphInv(rows, edited, edges, log, runs, shown, canvas, pending,
                 graphCalls, graphAnswers, disturbed, clashed)
    BY DEF FlowInv
  <1>2. PICK Q, x, cm :
          /\ Q = runs' /\ x = [node |-> n, prompt |-> shown.nodes[n].prompt, phase |-> "working"]
          /\ Q = Append(runs, x) /\ cm = clashed'
    BY DEF RunNode
  <1>3. Joins(runs, Q, x)
    BY <1>2, CallsAreList, ListJoins
  <1>4. clashed \subseteq cm /\ (n \notin cm => ~Saving(n) /\ ~Running(n))
    BY <1>2 DEF RunNode
  <1>5. n \notin cm => /\ NoCarrier(runs, graphCalls, graphAnswers, n)
                       /\ \A r \in DOMAIN runs : ~Working(runs, n, r)
    BY <1>4, NotSaving DEF Running, Working
  <1>6. GraphInv(rows, edited, edges, log, Q, shown, canvas, pending,
                 graphCalls, graphAnswers, disturbed, cm)
    BY <1>1, <1>2, <1>3, <1>4, <1>5, RunStep
  <1>7. UNCHANGED <<rows, edges, log, edited, shown, canvas, pending, graphCalls, graphAnswers, disturbed>>
    BY DEF RunNode, tableVars, canvasVars
  <1> QED
    BY <1>2, <1>6, <1>7 DEF FlowInv

LEMMA FlowRunEnds ==
  ASSUME FlowInv, NEW r \in DOMAIN runs, RunEnds(r)
  PROVE  FlowInv'
  <1>1. GraphInv(rows, edited, edges, log, runs, shown, canvas, pending,
                 graphCalls, graphAnswers, disturbed, clashed)
    BY DEF FlowInv
  <1>2. PICK B, Q, c :
          /\ B = graphCalls' /\ Q = runs' /\ Q = InPhase(runs, r, "saving")
          /\ c = Save(runs[r].node, runs[r].prompt, r, OfRun(r)) /\ B = Append(graphCalls, c)
    BY DEF RunEnds, Outcome, InPhase
  <1>3. Joins(graphCalls, B, c)
    BY <1>2, CallsAreList, ListJoins
  <1>4. IsList(runs) /\ IsRun(runs[r])
    BY <1>1 DEF GraphInv, RunsOK
  <1>5. Ended(runs, Q, r)
    BY <1>2, <1>4, RunEnded
  <1>6. /\ c.op = "save" /\ c.node = runs[r].node /\ c.prompt = runs[r].prompt
        /\ c.last = r /\ c.after = OfRun(r)
    BY <1>2 DEF Save
  <1>7. runs[r].phase = "working"
    BY DEF RunEnds
  <1>8. GraphInv(rows, edited, edges, log, Q, shown, canvas, pending,
                 B, graphAnswers, disturbed, clashed)
    BY <1>1, <1>3, <1>5, <1>6, <1>7, EndStep
  <1>9. UNCHANGED <<rows, edges, log, edited, clashed, shown, canvas, pending, graphAnswers, disturbed>>
    BY DEF RunEnds, tableVars, canvasVars, userVars
  <1> QED
    BY <1>2, <1>8, <1>9 DEF FlowInv

-----------------------------------------------------------------------------
(* A call of each kind is handled.                                         *)
LEMMA RunsStay ==
  ASSUME NEW T, NEW U, NEW R, NEW L, NEW K, TableGrows(T, U), LogGrows(L, K), RunsOK(T, R, L)
  PROVE  RunsOK(U, R, K)
  <1>1. \A r \in DOMAIN R : R[r].node \in DOMAIN U
    BY DEF RunsOK, TableGrows
  <1>2. \A r : (\E i \in DOMAIN L : L[i] = r) => \E i \in DOMAIN K : K[i] = r
    BY DEF LogGrows
  <1> QED
    BY <1>1, <1>2 DEF RunsOK

LEMMA ListAppends ==
  ASSUME NEW s, IsList(s), NEW x
  PROVE  IsList(Append(s, x)) /\ Len(Append(s, x)) = Len(s) + 1
  <1>1. PICK M : s \in Seq(M)
    BY ListIsSeq
  <1>2. PICK N : N = M \cup {x} /\ x \in N /\ s \in Seq(N)
    <2>1. s \in Seq(M \cup {x})
      BY <1>1
    <2> QED
      BY <2>1
  <1>3. Append(s, x) \in Seq(N) /\ Len(Append(s, x)) = Len(s) + 1
    BY <1>2, AppendProperties
  <1>4. IsList(Append(s, x))
    BY <1>3, SeqIsList
  <1> QED
    BY <1>3, <1>4

(* The table has the same rows; all but c's data are what they were.       *)
SameRows(T, U, c) ==
  /\ DOMAIN U = DOMAIN T /\ IsList(U)
  /\ \A n \in DOMAIN T :
       /\ IsRow(U[n]) /\ U[n].session = T[n].session /\ U[n].kind = T[n].kind
       /\ IF Saves(c, n) THEN U[n].prompt = c.prompt /\ U[n].last = c.last
          ELSE U[n].prompt = T[n].prompt /\ U[n].last = T[n].last
       /\ U[n].at = IF c.op = "layout" /\ n \in DOMAIN c.places THEN c.places[n] ELSE T[n].at

LEMMA SameTable ==
  ASSUME NEW T, NEW E, NEW c, TableOK(T, E), c.op # "save", c.op # "layout"
  PROVE  SameRows(T, T, c)
  BY DEF SameRows, TableOK, Saves

LEMMA SaveTable ==
  ASSUME NEW T, NEW E, NEW c, TableOK(T, E), c.op = "save", c.node \in DOMAIN T
  PROVE  SameRows(T, [T EXCEPT ![c.node].prompt = c.prompt, ![c.node].last = c.last], c)
  <1>1. PICK k : k = c.node /\ k \in DOMAIN T
    OBVIOUS
  <1>2. PICK y : y = [[T[k] EXCEPT !.prompt = c.prompt] EXCEPT !.last = c.last]
    OBVIOUS
  <1>3. PICK U : U = [T EXCEPT ![k] = y]
    OBVIOUS
  <1>4. IsRow(T[k]) /\ IsList(T)
    BY <1>1 DEF TableOK
  <1>5. y = [session |-> T[k].session, kind |-> T[k].kind, at |-> T[k].at,
             prompt |-> c.prompt, last |-> c.last]
    BY <1>2, <1>4 DEF IsRow
  <1>6. /\ y.session = T[k].session /\ y.kind = T[k].kind /\ y.at = T[k].at
        /\ y.prompt = c.prompt /\ y.last = c.last /\ IsRow(y)
    BY <1>5 DEF IsRow
  <1>7. IsList(U)
    BY <1>3, <1>4, ListChanges
  <1>8. DOMAIN U = DOMAIN T /\ U[k] = y /\ \A n \in DOMAIN T : n # k => U[n] = T[n]
    BY <1>1, <1>3
  <1>9. \A n \in DOMAIN T : Saves(c, n) <=> n = k
    BY <1>1 DEF Saves
  <1>10. \A n \in DOMAIN T : IsRow(T[n])
    BY DEF TableOK
  <1>11. SameRows(T, U, c)
    BY <1>6, <1>7, <1>8, <1>9, <1>10 DEF SameRows
  <1>12. U = [T EXCEPT ![c.node].prompt = c.prompt, ![c.node].last = c.last]
    BY <1>1, <1>2, <1>3, <1>5
  <1> QED
    BY <1>11, <1>12

LEMMA LayoutTable ==
  ASSUME NEW T, NEW E, NEW c, TableOK(T, E), c.op = "layout", NEW U,
         U = [n \in DOMAIN T |-> IF n \in DOMAIN c.places THEN [T[n] EXCEPT !.at = c.places[n]] ELSE T[n]]
  PROVE  SameRows(T, U, c)
  <1>1. ASSUME NEW n \in DOMAIN T
        PROVE  /\ IsRow(U[n]) /\ U[n].session = T[n].session /\ U[n].kind = T[n].kind
               /\ U[n].prompt = T[n].prompt /\ U[n].last = T[n].last
               /\ U[n].at = IF n \in DOMAIN c.places THEN c.places[n] ELSE T[n].at
    <2>1. IsRow(T[n])
      BY DEF TableOK
    <2>2. CASE n \notin DOMAIN c.places
      BY <2>1, <2>2
    <2>3. CASE n \in DOMAIN c.places
      <3>1. U[n] = [T[n] EXCEPT !.at = c.places[n]]
        BY <2>3
      <3>2. U[n] = [session |-> T[n].session, kind |-> T[n].kind, at |-> c.places[n],
                    prompt |-> T[n].prompt, last |-> T[n].last]
        BY <2>1, <3>1 DEF IsRow
      <3> QED
        BY <2>3, <3>2 DEF IsRow
    <2> QED
      BY <2>2, <2>3
  <1>2. IsList(U)
    <2>1. PICK k \in Nat : DOMAIN T = 1 .. k
      BY ListDomain DEF TableOK
    <2>2. DOMAIN U = 1 .. k
      BY <2>1
    <2>3. PICK M : M = {U[i] : i \in 1 .. k}
      OBVIOUS
    <2>4. U \in [1 .. k -> M]
      BY <2>1, <2>2, <2>3
    <2>5. U \in Seq(M)
      BY <2>4, SeqDef
    <2> QED
      BY <2>5, SeqIsList
  <1>3. \A n : ~Saves(c, n)
    BY DEF Saves
  <1>4. DOMAIN U = DOMAIN T
    OBVIOUS
  <1> QED
    BY <1>1, <1>2, <1>3, <1>4 DEF SameRows

LEMMA SameRowsGive ==
  ASSUME NEW T, NEW U, NEW E, NEW c, TableOK(T, E), SameRows(T, U, c)
  PROVE  TableOK(U, E) /\ TableGrows(T, U)
  <1>1. IsList(U) /\ IsList(T) /\ IsList(E) /\ Len(E) = Len(T) /\ DOMAIN U = DOMAIN T
    BY DEF TableOK, SameRows
  <1>2. PICK m, k \in Nat : m = Len(T) /\ k = Len(U) /\ 1 .. m = 1 .. k
    BY <1>1, ListDomain
  <1>3. (m = 0 \/ m \in 1 .. m) /\ (k = 0 \/ k \in 1 .. k)
    BY <1>2
  <1>4. (m = 0 \/ m \in 1 .. k) /\ (k = 0 \/ k \in 1 .. m)
    BY <1>2, <1>3
  <1>5. m = k
    BY <1>2, <1>4
  <1>6. TableOK(U, E)
    BY <1>1, <1>2, <1>5 DEF TableOK, SameRows
  <1> QED
    BY <1>6 DEF TableGrows, SameRows

(* A call that leaves the rows in place.                                   *)
LEMMA HandledRows ==
  ASSUME NEW T, NEW E, NEW D, NEW L, NEW R, NEW S, NEW cv, NEW pd, NEW C, NEW A, NEW lost, NEW cl,
         NEW U, NEW F, NEW B, NEW Z, NEW c, NEW a,
         GraphInv(T, E, D, L, R, S, cv, pd, C, A, lost, cl),
         Leaves(C, B, c), Joins(A, Z, a), a.after = c.after, a.op = "graph" <=> c.op = "get",
         a.op # "logged", c.op # "log", a.op # "log", c.op # "logged",
         SameRows(T, U, c), MakesUp(T, D, R, U, F, a),
         a.op = "graph" => Complete(U, F, a.graph) /\ InPlace(U, a.graph)
                           /\ \A n \in DOMAIN a.graph.nodes : InData(U, a.graph, n),
         AnswerOK(U, R, L, a)
  PROVE  GraphInv(U, E, F, L, R, S, cv, pd, B, Z, lost, cl)
  <1>1. TableOK(T, E) /\ LogOK(R, L) /\ RunsOK(T, R, L)
    BY DEF GraphInv
  <1>2. TableOK(U, E) /\ TableGrows(T, U)
    BY <1>1, SameRowsGive
  <1>3. RunsOK(U, R, L)
    BY <1>1, <1>2, RunsStay, NothingGrows
  <1>4. \A n \in DOMAIN T : /\ E[n] = E[n]
                            /\ IF Saves(c, n) THEN U[n].prompt = c.prompt /\ U[n].last = c.last
                               ELSE U[n].prompt = T[n].prompt /\ U[n].last = T[n].last
                            /\ U[n].at = IF c.op = "layout" /\ n \in DOMAIN c.places
                                         THEN c.places[n] ELSE T[n].at
    BY DEF SameRows
  <1>5. \A n \in DOMAIN U : n \in DOMAIN T \/ (U[n].prompt = E[n] /\ U[n].last = 0)
    BY DEF SameRows
  <1>6. a.op = "logged" <=> c.op = "log"
    OBVIOUS
  <1> QED
    BY <1>1, <1>2, <1>3, <1>4, <1>5, <1>6, HandledStep

(* The graph of a session, as the tables have it now.                      *)
LEMMA LoadedGraph ==
  ASSUME NEW T, NEW E, NEW D, TableOK(T, E), NEW s, NEW g,
         g = [session |-> s, nodes |-> [n \in NodesIn(T, s) |-> T[n]], edges |-> {e \in D : e.session = s}]
  PROVE  /\ GraphOK(T, g) /\ Complete(T, D, g) /\ InPlace(T, g)
         /\ \A n \in DOMAIN g.nodes : InData(T, g, n)
  <1>1. /\ g.session = s /\ DOMAIN g.nodes = NodesIn(T, s) /\ g.edges = {e \in D : e.session = s}
        /\ \A n \in NodesIn(T, s) : g.nodes[n] = T[n]
    OBVIOUS
  <1>2. \A n \in NodesIn(T, s) : n \in DOMAIN T /\ T[n].session = s /\ IsRow(T[n])
    BY DEF NodesIn, TableOK
  <1> QED
    BY <1>1, <1>2 DEF GraphOK, Complete, InPlace, InData

LEMMA NodeTable ==
  ASSUME NEW T, NEW E, TableOK(T, E), NEW x, IsRow(x)
  PROVE  /\ Joins(T, Append(T, x), x) /\ Joins(E, Append(E, 0), 0)
         /\ TableOK(Append(T, x), Append(E, 0))
  <1>1. IsList(T) /\ IsList(E) /\ Len(E) = Len(T)
    BY DEF TableOK
  <1>2. PICK U : U = Append(T, x)
    OBVIOUS
  <1>3. Joins(T, U, x)
    BY <1>1, <1>2, ListJoins
  <1>4. Joins(E, Append(E, 0), 0)
    BY <1>1, ListJoins
  <1>5. /\ IsList(U) /\ Len(U) = Len(T) + 1
        /\ IsList(Append(E, 0)) /\ Len(Append(E, 0)) = Len(E) + 1
    BY <1>1, <1>2, ListAppends
  <1>6. \A n \in DOMAIN U : IsRow(U[n])
    <2>1. PICK z \in DOMAIN U : U[z] = x /\ \A n \in DOMAIN U : n \in DOMAIN T \/ n = z
      BY <1>3, JoinedIs
    <2>2. \A n \in DOMAIN T : U[n] = T[n]
      BY <1>3, JoinedIs
    <2> QED
      BY <2>1, <2>2 DEF TableOK
  <1>7. TableOK(U, Append(E, 0))
    BY <1>1, <1>5, <1>6 DEF TableOK
  <1> QED
    BY <1>2, <1>3, <1>4, <1>7

LEMMA HandledNode ==
  ASSUME NEW T, NEW E, NEW D, NEW L, NEW R, NEW S, NEW cv, NEW pd, NEW C, NEW A, NEW lost, NEW cl,
         NEW B, NEW Z, NEW c, NEW a, NEW x, NEW U, NEW G,
         GraphInv(T, E, D, L, R, S, cv, pd, C, A, lost, cl),
         Leaves(C, B, c), Joins(A, Z, a), a.after = c.after, c.op = "node", a.op = "created",
         Joins(T, U, x), Joins(E, G, 0), TableOK(U, G),
         x.session = a.session, x.prompt = 0, x.last = 0
  PROVE  GraphInv(U, G, D, L, R, S, cv, pd, B, Z, lost, cl)
  <1>1. TableOK(T, E) /\ LogOK(R, L) /\ RunsOK(T, R, L) /\ CallsOK(T, R, C)
    BY DEF GraphInv
  <1>2. IsList(T) /\ DOMAIN E = DOMAIN T /\ DOMAIN G = DOMAIN U
    <2>1. IsList(T) /\ IsList(E) /\ Len(E) = Len(T)
      BY <1>1 DEF TableOK
    <2>2. IsList(U) /\ IsList(G) /\ Len(G) = Len(U)
      BY DEF TableOK
    <2> QED
      BY <2>1, <2>2, ListDomain
  <1>4. PICK z \in DOMAIN U : U[z] = x /\ \A n \in DOMAIN U : n \in DOMAIN T \/ n = z
    BY JoinedIs
  <1>5. \A n \in DOMAIN T : n \in DOMAIN U /\ U[n] = T[n]
    BY JoinedIs
  <1>8. TableGrows(T, U)
    BY <1>5 DEF TableGrows
  <1>9. RunsOK(U, R, L)
    BY <1>1, <1>8, RunsStay, NothingGrows
  <1>10. ForNone(a)
    <2>1. CallOK(T, R, c)
      BY <1>1, CallGone
    <2> QED
      BY <2>1 DEF CallOK, ForNone
  <1>11. AnswerOK(U, R, L, a)
    BY <1>10 DEF AnswerOK
  <1>12. MakesUp(T, D, R, U, D, a)
    BY <1>2, NodeAnswers
  <1>13. /\ \A n \in DOMAIN T : G[n] = E[n]
         /\ \A n \in DOMAIN G : n \in DOMAIN T \/ G[n] = 0
    <2>1. \A n \in DOMAIN E : G[n] = E[n]
      BY JoinedIs
    <2>2. \A n \in DOMAIN G : n \in DOMAIN E \/ G[n] = 0
      BY JoinedIs
    <2> QED
      BY <1>2, <2>1, <2>2
  <1>14. \A n \in DOMAIN T : /\ G[n] = E[n]
                             /\ IF Saves(c, n) THEN U[n].prompt = c.prompt /\ U[n].last = c.last
                                ELSE U[n].prompt = T[n].prompt /\ U[n].last = T[n].last
                             /\ U[n].at = IF c.op = "layout" /\ n \in DOMAIN c.places
                                          THEN c.places[n] ELSE T[n].at
    BY <1>5, <1>13 DEF Saves
  <1>15. \A n \in DOMAIN U : n \in DOMAIN T \/ (U[n].prompt = G[n] /\ U[n].last = 0)
    BY <1>2, <1>4, <1>13
  <1>16. /\ a.op = "graph" <=> c.op = "get"
         /\ a.op = "logged" <=> c.op = "log"
         /\ a.op # "log" /\ c.op # "logged" /\ a.op # "graph"
    OBVIOUS
  <1> QED
    BY <1>1, <1>8, <1>9, <1>11, <1>12, <1>14, <1>15, <1>16, HandledStep

LEMMA HandledLog ==
  ASSUME NEW T, NEW E, NEW D, NEW L, NEW R, NEW S, NEW cv, NEW pd, NEW C, NEW A, NEW lost, NEW cl,
         NEW B, NEW Z, NEW c, NEW a, NEW K,
         GraphInv(T, E, D, L, R, S, cv, pd, C, A, lost, cl),
         Leaves(C, B, c), Joins(A, Z, a), a.after = c.after, c.op = "log", a.op = "logged",
         K = Append(L, c.run)
  PROVE  GraphInv(T, E, D, K, R, S, cv, pd, B, Z, lost, cl)
  <1>1. TableOK(T, E) /\ LogOK(R, L) /\ RunsOK(T, R, L) /\ CallsOK(T, R, C)
    BY DEF GraphInv
  <1>2. CallOK(T, R, c)
    BY <1>1, CallGone
  <1>3. ForRun(R, c) /\ c.run = c.after.id
    BY <1>2 DEF CallOK
  <1>4. c.run \in DOMAIN R /\ R[c.run].phase # "working"
    BY <1>3, RunOf
  <1>5. Joins(L, K, c.run)
    BY <1>1, ListJoins DEF LogOK
  <1>6. PICK y \in DOMAIN K : K[y] = c.run /\ \A i \in DOMAIN K : i \in DOMAIN L \/ i = y
    BY <1>5, JoinedIs
  <1>7. IsList(K) /\ \A i \in DOMAIN L : i \in DOMAIN K /\ K[i] = L[i]
    BY <1>5, JoinedIs
  <1>8. LogOK(R, K) /\ LogGrows(L, K)
    BY <1>1, <1>4, <1>6, <1>7 DEF LogOK, LogGrows
  <1>9. RunsOK(T, R, K)
    BY <1>1, <1>8, RunsStay, NothingGrows
  <1>10. ForRun(R, a)
    BY <1>3 DEF ForRun
  <1>11. AnswerOK(T, R, K, a)
    BY <1>3, <1>6, <1>10 DEF AnswerOK
  <1>12. MakesUp(T, D, R, T, D, a) /\ TableGrows(T, T)
    BY SameAnswers, NothingGrows
  <1>13. SameRows(T, T, c)
    BY <1>1, SameTable
  <1>14. \A n \in DOMAIN T : /\ E[n] = E[n]
                             /\ IF Saves(c, n) THEN T[n].prompt = c.prompt /\ T[n].last = c.last
                                ELSE T[n].prompt = T[n].prompt /\ T[n].last = T[n].last
                             /\ T[n].at = IF c.op = "layout" /\ n \in DOMAIN c.places
                                          THEN c.places[n] ELSE T[n].at
    BY <1>13 DEF SameRows
  <1>15. /\ a.op = "graph" <=> c.op = "get"
         /\ a.op = "logged" <=> c.op = "log"
         /\ a.op # "log" /\ c.op # "logged" /\ a.op # "graph"
    OBVIOUS
  <1>16. \A n \in DOMAIN T : n \in DOMAIN T \/ (T[n].prompt = E[n] /\ T[n].last = 0)
    OBVIOUS
  <1> QED
    BY <1>1, <1>5, <1>8, <1>9, <1>11, <1>12, <1>14, <1>15, <1>16, HandledStep

(* The main process.                                                       *)
LEMMA FlowHandles == ASSUME FlowInv, HandleGraphCall PROVE FlowInv'
  <1>1. GraphInv(rows, edited, edges, log, runs, shown, canvas, pending,
                 graphCalls, graphAnswers, disturbed, clashed)
    BY DEF FlowInv
  <1>2. PICK c, B : c = Head(graphCalls) /\ B = Tail(graphCalls) /\ B = graphCalls'
    BY DEF HandleGraphCall
  <1>3. Leaves(graphCalls, B, c)
    BY <1>2, CallsAreList, ListLeaves DEF HandleGraphCall
  <1>4. UNCHANGED <<runs, shown, canvas, pending, disturbed, clashed>>
    BY DEF HandleGraphCall, canvasVars
  <1>5. PICK a, Z : Z = graphAnswers' /\ Z = Append(graphAnswers, a) /\
          (\/ /\ c.op = "get" /\ a = [op |-> "graph", graph |-> GraphOf(c.session), after |-> c.after]
              /\ UNCHANGED <<rows, edges, log, edited>>
           \/ /\ c.op = "node"
              /\ rows' = Append(rows, NewRow(c.session, c.kind)) /\ edited' = Append(edited, 0)
              /\ a = [op |-> "created", session |-> c.session, id |-> Len(rows'), after |-> c.after]
              /\ UNCHANGED <<edges, log>>
           \/ /\ c.op = "edge" /\ CreateEdge(c)
              /\ a = [op |-> "created", session |-> c.session, id |-> 0, after |-> c.after]
              /\ UNCHANGED <<rows, log, edited>>
           \/ /\ c.op = "save" /\ UpdateNode(c) /\ a = [op |-> "saved", after |-> c.after]
              /\ UNCHANGED <<edges, log, edited>>
           \/ /\ c.op = "layout" /\ rows' = Placed(c.places) /\ a = [op |-> "layout", after |-> c.after]
              /\ UNCHANGED <<edges, log, edited>>
           \/ /\ c.op = "log" /\ LogExecution(c.run) /\ a = [op |-> "logged", after |-> c.after]
              /\ UNCHANGED <<rows, edges, edited>>)
    BY <1>2 DEF HandleGraphCall, tableVars
  <1>6. Joins(graphAnswers, Z, a)
    BY <1>5, CallsAreList, ListJoins
  <1>7. TableOK(rows, edited) /\ CallOK(rows, runs, c) /\ LogOK(runs, log)
    BY <1>1, <1>3, CallGone DEF GraphInv
  <1>8. CASE /\ c.op = "get" /\ a = [op |-> "graph", graph |-> GraphOf(c.session), after |-> c.after]
             /\ UNCHANGED <<rows, edges, log, edited>>
    <2>1. a.op = "graph" /\ a.graph = GraphOf(c.session) /\ a.after = c.after
      BY <1>8
    <2>2. GraphOf(c.session) = [session |-> c.session, nodes |-> [n \in NodesIn(rows, c.session) |-> rows[n]],
                                edges |-> {e \in edges : e.session = c.session}]
      BY DEF GraphOf, NodesOf, NodesIn
    <2>3. PICK g : g = a.graph
      OBVIOUS
    <2>4. /\ GraphOK(rows, g) /\ Complete(rows, edges, g) /\ InPlace(rows, g)
          /\ \A n \in DOMAIN g.nodes : InData(rows, g, n)
      BY <1>7, <2>1, <2>2, <2>3, LoadedGraph
    <2>5. ForNone(a) \/ ForEdit(rows, a) \/ ForRun(runs, a)
      BY <1>7, <2>1, CallFor DEF ForNone, ForEdit, ForRun
    <2>6. AnswerOK(rows, runs, log, a)
      BY <2>1, <2>3, <2>4, <2>5 DEF AnswerOK
    <2>7. SameRows(rows, rows, c) /\ MakesUp(rows, edges, runs, rows, edges, a)
      BY <1>7, <1>8, SameTable, SameAnswers
    <2>8. GraphInv(rows, edited, edges, log, runs, shown, canvas, pending, B, Z, disturbed, clashed)
      BY <1>1, <1>3, <1>6, <1>8, <2>1, <2>3, <2>4, <2>6, <2>7, HandledRows
    <2> QED
      BY <1>2, <1>4, <1>5, <1>8, <2>8 DEF FlowInv
  <1>9. CASE /\ c.op = "node"
             /\ rows' = Append(rows, NewRow(c.session, c.kind)) /\ edited' = Append(edited, 0)
             /\ a = [op |-> "created", session |-> c.session, id |-> Len(rows'), after |-> c.after]
             /\ UNCHANGED <<edges, log>>
    <2>1. PICK x, U, G : /\ x = NewRow(c.session, c.kind) /\ U = rows' /\ U = Append(rows, x)
                         /\ G = edited' /\ G = Append(edited, 0)
      BY <1>9
    <2>2. IsRow(x) /\ x.session = c.session /\ x.prompt = 0 /\ x.last = 0
      BY <2>1 DEF NewRow, IsRow
    <2>3. a.op = "created" /\ a.session = c.session /\ a.after = c.after
      BY <1>9
    <2>4. Joins(rows, U, x) /\ Joins(edited, G, 0) /\ TableOK(U, G)
      BY <1>7, <2>1, <2>2, NodeTable
    <2>5. c.op = "node"
      BY <1>9
    <2>6. GraphInv(U, G, edges, log, runs, shown, canvas, pending, B, Z, disturbed, clashed)
      BY <1>1, <1>3, <1>6, <2>2, <2>3, <2>4, <2>5, HandledNode
    <2> QED
      BY <1>2, <1>4, <1>5, <1>9, <2>1, <2>6 DEF FlowInv
  <1>10. CASE /\ c.op = "edge" /\ CreateEdge(c)
              /\ a = [op |-> "created", session |-> c.session, id |-> 0, after |-> c.after]
              /\ UNCHANGED <<rows, log, edited>>
    <2>1. PICK e, F : /\ e = [session |-> c.session, source |-> c.source, target |-> c.target]
                      /\ F = edges' /\ F = edges \cup {e}
      BY <1>10 DEF CreateEdge
    <2>2. a.op = "created" /\ a.session = c.session /\ a.after = c.after /\ e.session = c.session
      BY <1>10, <2>1
    <2>3. ForNone(a)
      BY <1>7, <1>10, <2>2 DEF CallOK, ForNone
    <2>4. AnswerOK(rows, runs, log, a)
      BY <2>2, <2>3 DEF AnswerOK
    <2>5. SameRows(rows, rows, c)
      BY <1>7, <1>10, SameTable
    <2>6. MakesUp(rows, edges, runs, rows, F, a)
      BY <2>1, <2>2, EdgeAnswers
    <2>7. c.op = "edge"
      BY <1>10
    <2>8. GraphInv(rows, edited, F, log, runs, shown, canvas, pending, B, Z, disturbed, clashed)
      BY <1>1, <1>3, <1>6, <2>2, <2>4, <2>5, <2>6, <2>7, HandledRows
    <2> QED
      BY <1>2, <1>4, <1>5, <1>10, <2>1, <2>8 DEF FlowInv
  <1>11. CASE /\ c.op = "save" /\ UpdateNode(c) /\ a = [op |-> "saved", after |-> c.after]
              /\ UNCHANGED <<edges, log, edited>>
    <2>1. PICK U, k : /\ U = rows' /\ k = c.node
                      /\ U = [rows EXCEPT ![c.node].prompt = c.prompt, ![c.node].last = c.last]
      BY <1>11 DEF UpdateNode
    <2>2. a.op = "saved" /\ a.after = c.after /\ c.op = "save"
      BY <1>11
    <2>3. k \in DOMAIN rows /\ (c.after = OfEdit(k) \/ (ForRun(runs, c) /\ runs[c.after.id].node = k))
      BY <1>7, <2>1, <2>2 DEF CallOK
    <2>4. SameRows(rows, U, c)
      BY <1>7, <2>1, <2>2, <2>3, SaveTable
    <2>5. About(runs, a, k)
      BY <2>2, <2>3, RunOf DEF About
    <2>6. MakesUp(rows, edges, runs, U, edges, a)
      <3>1. DOMAIN U = DOMAIN rows /\ U[k].session = rows[k].session /\ U[k].at = rows[k].at
        BY <2>2, <2>3, <2>4 DEF SameRows
      <3>2. \A n \in DOMAIN rows : n # k => U[n] = rows[n]
        BY <2>1
      <3> QED
        BY <2>2, <2>3, <2>5, <3>1, <3>2, SaveAnswers
    <2>7. ForEdit(rows, a) \/ ForRun(runs, a)
      BY <2>2, <2>3 DEF ForEdit, ForRun
    <2>8. TableGrows(rows, U)
      BY <1>7, <2>4, SameRowsGive
    <2>9. ForEdit(U, a) \/ ForRun(runs, a)
      BY <2>7, <2>8, ForStays, NothingGrows
    <2>10. AnswerOK(U, runs, log, a)
      BY <2>2, <2>9 DEF AnswerOK
    <2>11. GraphInv(U, edited, edges, log, runs, shown, canvas, pending, B, Z, disturbed, clashed)
      BY <1>1, <1>3, <1>6, <2>2, <2>4, <2>6, <2>10, HandledRows
    <2> QED
      BY <1>2, <1>4, <1>5, <1>11, <2>1, <2>11 DEF FlowInv
  <1>12. CASE /\ c.op = "layout" /\ rows' = Placed(c.places) /\ a = [op |-> "layout", after |-> c.after]
              /\ UNCHANGED <<edges, log, edited>>
    <2>1. PICK U : U = rows' /\ U = Placed(c.places)
      BY <1>12
    <2>2. a.op = "layout" /\ a.after = c.after /\ c.op = "layout"
      BY <1>12
    <2>3. SameRows(rows, U, c)
      BY <1>7, <2>1, <2>2, LayoutTable DEF Placed
    <2>4. /\ DOMAIN U = DOMAIN rows
          /\ \A n \in DOMAIN rows : /\ U[n].session = rows[n].session /\ U[n].prompt = rows[n].prompt
                                    /\ U[n].last = rows[n].last
      BY <2>2, <2>3 DEF SameRows, Saves
    <2>5. MakesUp(rows, edges, runs, U, edges, a)
      BY <2>2, <2>4, LayoutAnswers
    <2>6. AnswerOK(U, runs, log, a)
      BY <1>7, <2>2 DEF AnswerOK, CallOK
    <2>7. GraphInv(U, edited, edges, log, runs, shown, canvas, pending, B, Z, disturbed, clashed)
      BY <1>1, <1>3, <1>6, <2>2, <2>3, <2>5, <2>6, HandledRows
    <2> QED
      BY <1>2, <1>4, <1>5, <1>12, <2>1, <2>7 DEF FlowInv
  <1>13. CASE /\ c.op = "log" /\ LogExecution(c.run) /\ a = [op |-> "logged", after |-> c.after]
              /\ UNCHANGED <<rows, edges, edited>>
    <2>1. PICK K : K = log' /\ K = Append(log, c.run)
      BY <1>13 DEF LogExecution
    <2>2. a.op = "logged" /\ a.after = c.after /\ c.op = "log"
      BY <1>13
    <2>3. GraphInv(rows, edited, edges, K, runs, shown, canvas, pending, B, Z, disturbed, clashed)
      BY <1>1, <1>3, <1>6, <2>1, <2>2, HandledLog
    <2> QED
      BY <1>2, <1>4, <1>5, <1>13, <2>1, <2>3 DEF FlowInv
  <1> QED
    BY <1>5, <1>8, <1>9, <1>10, <1>11, <1>12, <1>13

(* The renderer goes on.                                                   *)
LEMMA WhoWaits ==
  ASSUME NEW T, NEW R, NEW m, ForNone(m) \/ ForEdit(T, m) \/ ForRun(R, m)
  PROVE  /\ m.after.who = "run" => ForRun(R, m)
         /\ m.after.who = "boot" => ForNone(m)
  <1>1. ForNone(m) => m.after.who \in {"user", "boot"}
    BY WhoIs DEF ForNone
  <1>2. ForEdit(T, m) => m.after.who = "edit"
    BY WhoIs DEF ForEdit
  <1>3. ForRun(R, m) => m.after.who = "run"
    BY RunOf
  <1> QED
    BY <1>1, <1>2, <1>3

LEMMA FlowAnswered == ASSUME FlowInv, HandleGraphAnswer PROVE FlowInv'
  <1>1. GraphInv(rows, edited, edges, log, runs, shown, canvas, pending,
                 graphCalls, graphAnswers, disturbed, clashed)
    BY DEF FlowInv
  <1>2. PICK a, Z : a = Head(graphAnswers) /\ Z = Tail(graphAnswers) /\ Z = graphAnswers'
    BY DEF HandleGraphAnswer
  <1>3. Leaves(graphAnswers, Z, a)
    BY <1>2, CallsAreList, ListLeaves DEF HandleGraphAnswer
  <1>4. UNCHANGED <<rows, edges, log, edited, clashed, pending>>
    BY DEF HandleGraphAnswer, tableVars, userVars
  <1>5. AnswerOK(rows, runs, log, a) /\ RunsOK(rows, runs, log) /\ IsList(graphCalls)
    BY <1>1, <1>3, AnswerGone, CallsAreList DEF GraphInv
  <1>6. PICK B : B = graphCalls'
    OBVIOUS
  <1>7. CASE a.op = "graph"
    <2>1. shown' = a.graph /\ canvas' = MapGraphNodes(a.graph) /\ disturbed' = Unsaved /\ GoOn(a.after)
      BY <1>2, <1>7 DEF HandleGraphAnswer
    <2>2. PICK V, dw, gone : /\ V = a.graph /\ dw = MapGraphNodes(a.graph) /\ gone = Unsaved
                             /\ V = shown' /\ dw = canvas' /\ gone = disturbed'
      BY <2>1
    <2>3. ~gone => pending = NoPlaces /\ NoLayout(graphCalls) /\ NoLayout(graphAnswers)
      <3>1. /\ \A i \in DOMAIN graphCalls : graphCalls[i] \in UnderWay
            /\ \A i \in DOMAIN graphAnswers : graphAnswers[i] \in UnderWay
        BY DEF UnderWay
      <3> QED
        BY <2>2, <3>1 DEF Unsaved, NoLayout
    <2>4. ForNone(a) \/ ForEdit(rows, a) \/ ForRun(runs, a)
      BY <1>5, AnswerFor
    <2>5. CASE a.after.who = "run"
      <3>1. ForRun(runs, a)
        BY <2>4, <2>5, WhoWaits
      <3>2. PICK c : c = Log(a.after.id) /\ B = Append(graphCalls, c)
        BY <1>6, <2>1, <2>5 DEF GoOn
      <3>3. Joins(graphCalls, B, c)
        BY <1>5, <3>2, ListJoins
      <3>4. c.op = "log" /\ c.run = a.after.id /\ c.after = a.after
        <4>1. a.after = OfRun(a.after.id)
          BY <3>1, RunOf
        <4> QED
          BY <3>2, <4>1 DEF Log
      <3>5. GraphInv(rows, edited, edges, log, runs, V, dw, pending, B, Z, gone, clashed)
        BY <1>1, <1>3, <1>7, <2>2, <2>3, <3>1, <3>3, <3>4, AnsweredLoaded
      <3>6. UNCHANGED runs
        BY <2>1, <2>5 DEF GoOn
      <3> QED
        BY <1>2, <1>4, <1>6, <2>2, <3>5, <3>6 DEF FlowInv
    <2>6. CASE a.after.who # "run"
      <3>1. PlainMore(graphCalls, B) /\ UNCHANGED runs
        <4>1. CASE a.after.who = "boot"
          <5>1. BootGoesOn(boot) /\ UNCHANGED runs
            BY <2>1, <4>1 DEF GoOn
          <5> QED
            BY <1>5, <1>6, <5>1, BootPlain
        <4>2. CASE a.after.who # "boot"
          <5>1. UNCHANGED <<graphCalls, boot, runs>>
            BY <2>1, <2>6, <4>2 DEF GoOn
          <5> QED
            BY <1>6, <5>1 DEF PlainMore
        <4> QED
          BY <4>1, <4>2
      <3>2. GraphInv(rows, edited, edges, log, runs, V, dw, pending, B, Z, gone, clashed)
        BY <1>1, <1>3, <1>7, <2>2, <2>3, <3>1, AnsweredPlain
      <3> QED
        BY <1>2, <1>4, <1>6, <2>2, <3>1, <3>2 DEF FlowInv
    <2> QED
      BY <2>5, <2>6
  <1>8. CASE a.op = "created"
    <2>1. GraphCreated(a) /\ UNCHANGED <<shown, canvas, disturbed>>
      BY <1>2, <1>8 DEF HandleGraphAnswer
    <2>2. UNCHANGED runs
      BY <2>1 DEF GraphCreated
    <2>3. ForNone(a)
      BY <1>5, <1>8 DEF AnswerOK
    <2>4. CASE shown.session = a.session
      <3>1. PICK c : c = Get(a.session, a.after) /\ B = Append(graphCalls, c)
        BY <1>6, <2>1, <2>4 DEF GraphCreated
      <3>2. c.op = "get" /\ IsPlain(c)
        BY <2>3, <3>1 DEF Get, IsPlain, ForNone
      <3>3. Joins(graphCalls, B, c)
        BY <1>5, <3>1, ListJoins
      <3>4. PlainMore(graphCalls, B)
        BY <3>2, <3>3 DEF PlainMore
      <3>5. \E i \in DOMAIN B : B[i].op = "get"
        BY <3>2, <3>3, JoinedIs
      <3>6. GraphInv(rows, edited, edges, log, runs, shown, canvas, pending, B, Z, disturbed, clashed)
        BY <1>1, <1>3, <1>8, <3>4, <3>5, AnsweredPlain
      <3> QED
        BY <1>2, <1>4, <1>6, <2>1, <2>2, <3>6 DEF FlowInv
    <2>5. CASE shown.session # a.session
      <3>1. PICK b : IF a.after.who = "boot" THEN BootGoesOn(b) ELSE UNCHANGED <<boot, graphCalls>>
        BY <2>1, <2>5 DEF GraphCreated
      <3>2. PlainMore(graphCalls, B)
        <4>1. CASE a.after.who = "boot"
          BY <1>5, <1>6, <3>1, <4>1, BootPlain
        <4>2. CASE a.after.who # "boot"
          BY <1>6, <3>1, <4>2 DEF PlainMore
        <4> QED
          BY <4>1, <4>2
      <3>3. GraphInv(rows, edited, edges, log, runs, shown, canvas, pending, B, Z, disturbed, clashed)
        BY <1>1, <1>3, <1>8, <2>5, <3>2, AnsweredPlain
      <3> QED
        BY <1>2, <1>4, <1>6, <2>1, <2>2, <3>3 DEF FlowInv
    <2> QED
      BY <2>4, <2>5
  <1>9. CASE a.op = "saved"
    <2>1. PICK c : c = Get(shown.session, a.after) /\ B = Append(graphCalls, c)
      BY <1>2, <1>6, <1>9 DEF HandleGraphAnswer
    <2>2. c.op = "get" /\ c.after = a.after
      BY <2>1 DEF Get
    <2>3. Joins(graphCalls, B, c)
      BY <1>5, <2>1, ListJoins
    <2>4. GraphInv(rows, edited, edges, log, runs, shown, canvas, pending, B, Z, disturbed, clashed)
      BY <1>1, <1>3, <1>9, <2>2, <2>3, AnsweredSaved
    <2>5. UNCHANGED <<shown, canvas, disturbed, runs>>
      BY <1>2, <1>9 DEF HandleGraphAnswer
    <2> QED
      BY <1>2, <1>4, <1>6, <2>4, <2>5 DEF FlowInv
  <1>10. CASE a.op = "logged"
    <2>1. UNCHANGED <<shown, canvas, disturbed, graphCalls>>
      BY <1>2, <1>10 DEF HandleGraphAnswer
    <2>2. PICK k, Q : k = a.after.id /\ Q = runs' /\ Q = InPhase(runs, k, "over")
      BY <1>2, <1>10 DEF HandleGraphAnswer, InPhase
    <2>3. ForRun(runs, a) /\ \E i \in DOMAIN log : log[i] = k
      BY <1>5, <1>10, <2>2 DEF AnswerOK
    <2>4. k \in DOMAIN runs /\ runs[k].phase # "working"
      BY <2>2, <2>3, RunOf
    <2>5. Overed(runs, Q, k)
      BY <1>5, <2>2, <2>4, RunOvered DEF RunsOK
    <2>6. GraphInv(rows, edited, edges, log, Q, shown, canvas, pending, graphCalls, Z, disturbed, clashed)
      BY <1>1, <1>3, <1>10, <2>3, <2>4, <2>5, AnsweredLogged
    <2> QED
      BY <1>2, <1>4, <2>1, <2>2, <2>6 DEF FlowInv
  <1>11. CASE a.op = "layout"
    <2>1. UNCHANGED <<shown, canvas, disturbed, runs, graphCalls>>
      BY <1>2, <1>11 DEF HandleGraphAnswer
    <2>2. PlainMore(graphCalls, B)
      BY <1>6, <2>1 DEF PlainMore
    <2>3. GraphInv(rows, edited, edges, log, runs, shown, canvas, pending, B, Z, disturbed, clashed)
      BY <1>1, <1>3, <1>11, <2>2, AnsweredPlain
    <2> QED
      BY <1>2, <1>4, <1>6, <2>1, <2>3 DEF FlowInv
  <1> QED
    BY <1>5, <1>7, <1>8, <1>9, <1>10, <1>11 DEF AnswerOK

(* At the start nothing is under way.                                      *)
LEMMA NothingUnderWay ==
  /\ IsList(<<>>) /\ DOMAIN <<>> = {} /\ \A i : i \notin DOMAIN <<>>
  <1>1. <<>> \in Seq({}) /\ Len(<<>>) = 0
    BY EmptySeq
  <1>2. IsList(<<>>) /\ DOMAIN <<>> = 1 .. 0
    BY <1>1, SeqIsList, ListDomain
  <1> QED
    BY <1>2

LEMMA FreshTable ==
  ASSUME NEW k \in Nat, NEW x, IsRow(x), NEW T, T = [n \in 1 .. k |-> x], NEW E, E = [n \in DOMAIN T |-> 0]
  PROVE  TableOK(T, E) /\ DOMAIN T = 1 .. k /\ \A n \in DOMAIN T : T[n] = x /\ E[n] = 0
  <1>1. T \in [1 .. k -> {x}] /\ E \in [1 .. k -> {0}]
    OBVIOUS
  <1>2. T \in Seq({x}) /\ E \in Seq({0})
    BY <1>1, SeqDef
  <1>3. IsList(T) /\ IsList(E)
    BY <1>2, SeqIsList
  <1>4. Len(T) = k /\ Len(E) = k
    BY <1>1, <1>2, LenProperties
  <1> QED
    BY <1>3, <1>4 DEF TableOK

(* What act 1 has left under way: a run at work at the most, and a layout  *)
(* only if the canvas was redrawn over it.                                 *)
LeftRuns(T, R) ==
  /\ IsList(R) /\ DOMAIN R \subseteq {1}
  /\ \A r \in DOMAIN R : /\ IsRun(R[r]) /\ R[r].node \in DOMAIN T
                         /\ R[r].phase = "working" /\ R[r].prompt = 0

LEMMA OneInList ==
  ASSUME NEW x
  PROVE  IsList(<<x>>) /\ DOMAIN <<x>> = {1} /\ <<x>>[1] = x /\ Len(<<x>>) = 1
  <1>1. <<x>> \in Seq({x}) /\ Len(<<x>>) = 1
    OBVIOUS
  <1>2. IsList(<<x>>) /\ DOMAIN <<x>> = 1 .. 1
    BY <1>1, SeqIsList, ListDomain
  <1> QED
    BY <1>1, <1>2

LEMMA FlowLeaves ==
  ASSUME FlowInit
  PROVE  LeftRuns(rows, runs) /\ (~disturbed => pending = NoPlaces) /\ Len(runs) <= 1
  <1>1. CASE LeftNothing
    <2>1. runs = <<>> /\ pending = NoPlaces
      BY <1>1 DEF LeftNothing
    <2> QED
      BY <2>1, NothingUnderWay, EmptySeq DEF LeftRuns
  <1>2. CASE MaxStored \in DOMAIN rows /\ LeftRun(MaxStored)
    <2>1. PICK x : x = [node |-> MaxStored, prompt |-> 0, phase |-> "working"] /\ runs = <<x>>
      BY <1>2 DEF LeftRun
    <2>2. IsRun(x) /\ x.node = MaxStored /\ x.phase = "working" /\ x.prompt = 0
      BY <2>1 DEF IsRun
    <2>3. LeftRuns(rows, runs) /\ Len(runs) <= 1
      BY <1>2, <2>1, <2>2, OneInList DEF LeftRuns
    <2> QED
      BY <1>2, <2>3 DEF LeftRun
  <1>3. CASE LeftDrag(MaxStored)
    <2>1. runs = <<>> /\ disturbed = TRUE
      BY <1>3 DEF LeftDrag
    <2> QED
      BY <2>1, NothingUnderWay, EmptySeq DEF LeftRuns
  <1> QED
    BY <1>1, <1>2, <1>3 DEF FlowInit

LEMMA FlowStart == FlowInit => FlowInv
  <1> SUFFICES ASSUME FlowInit
               PROVE  FlowInv
    OBVIOUS
  <1>1. PICK k \in 0 .. MaxStored : rows = [n \in 1 .. k |-> NewRow(selected, "agent")]
    BY DEF FlowInit
  <1>2. PICK x, T, E : /\ x = NewRow(selected, "agent") /\ T = rows /\ E = edited
                       /\ T = [n \in 1 .. k |-> x] /\ E = [n \in DOMAIN T |-> 0]
    BY <1>1 DEF FlowInit
  <1>3. IsRow(x) /\ x.session = selected /\ x.prompt = 0 /\ x.last = 0
    BY <1>2 DEF NewRow, IsRow
  <1>4. k \in Nat
    BY FlowBounds
  <1>5. TableOK(T, E) /\ DOMAIN T = 1 .. k /\ \A n \in DOMAIN T : T[n] = x /\ E[n] = 0
    BY <1>2, <1>3, <1>4, FreshTable
  <1>6. /\ edges = {} /\ log = <<>> /\ shown = GraphOf(selected) /\ canvas = MapGraphNodes(shown)
        /\ graphCalls = <<>> /\ graphAnswers = <<>>
    BY DEF FlowInit
  <1>7. PICK g, R, pd : /\ g = shown /\ R = runs /\ pd = pending
                        /\ LeftRuns(T, R) /\ (~disturbed => pd = NoPlaces)
    BY <1>2, FlowLeaves
  <1>8. GraphOf(selected) = [session |-> selected, nodes |-> [n \in NodesIn(rows, selected) |-> rows[n]],
                             edges |-> {e \in edges : e.session = selected}]
    BY DEF GraphOf, NodesOf, NodesIn
  <1>9. /\ GraphOK(T, g) /\ Complete(T, edges, g) /\ InPlace(T, g)
        /\ \A n \in DOMAIN g.nodes : InData(T, g, n)
    <2>1. g = [session |-> selected, nodes |-> [n \in NodesIn(T, selected) |-> T[n]],
               edges |-> {e \in edges : e.session = selected}]
      BY <1>2, <1>6, <1>7, <1>8
    <2>2. TableOK(T, E)
      BY <1>5
    <2> QED
      BY <2>1, <2>2, LoadedGraph
  <1>10. PICK N : N = <<>> /\ IsList(N) /\ DOMAIN N = {}
    BY NothingUnderWay
  <1>11. Views(N) = {0} /\ ViewAt(g, N, 0) = g
    BY <1>10 DEF Views, ViewAt
  <1>12. /\ ViewsComplete(g, T, edges, N, N) /\ ViewsInData(g, T, R, N, N) /\ ViewsInPlace(g, T, N)
    BY <1>9, <1>11 DEF ViewsComplete, ViewsInData, ViewsInPlace, IsComplete
  <1>13. CanvasIsSaved(T, N, MapGraphNodes(g), NoPlaces) /\ DOMAIN MapGraphNodes(g) = DOMAIN g.nodes
    BY <1>9, <1>10, CanvasRedrawn DEF MapGraphNodes
  <1>14. LogOK(R, N) /\ RunsOK(T, R, N) /\ CallsOK(T, R, N) /\ AnswersOK(T, R, N, N)
    BY <1>7, <1>10 DEF LogOK, RunsOK, CallsOK, AnswersOK, LeftRuns
  <1>15. ASSUME NEW n \in DOMAIN T
         PROVE  InOrderFor(T, E, R, N, N, N, n)
    <2>1. T[n].prompt = E[n] /\ T[n].last = 0 /\ E[n] = 0
      BY <1>3, <1>5
    <2>2. LastRun(R, n, 0)
      BY <1>7 DEF LastRun, LeftRuns
    <2>3. \A r \in DOMAIN R : R[r].prompt = 0 /\ Latest(R, n, r)
      BY <1>7 DEF LeftRuns, Latest
    <2>4. NoCarrier(R, N, N, n) /\ OneCarrier(R, N, N, n) /\ LogInOrder(R, N, N, N, n)
      BY <1>10 DEF NoCarrier, OneCarrier, LogInOrder
    <2>5. SavedLast(T, E, R, N, n)
      BY <1>10, <2>1, <2>2 DEF SavedLast
    <2> QED
      BY <2>1, <2>3, <2>4, <2>5 DEF InOrderFor
  <1>16. ~disturbed => CanvasIsSaved(T, N, MapGraphNodes(g), pd)
    BY <1>7, <1>13
  <1>17. GraphInv(T, E, edges, N, R, g, MapGraphNodes(g), pd, N, N, disturbed, clashed)
    BY <1>5, <1>9, <1>12, <1>13, <1>14, <1>15, <1>16 DEF GraphInv
  <1> QED
    BY <1>2, <1>6, <1>7, <1>10, <1>17 DEF FlowInv

LEMMA FlowStep == ASSUME FlowInv, [FlowNext]_flowVars PROVE FlowInv'
  <1>1. CASE UNCHANGED flowVars
    BY <1>1, FlowIdle
  <1>2. CASE \/ (\E s \in FlowSessions : SelectFlowSession(s)) \/ SelectModule \/ BootstrapSelfHost
             \/ (\E n, m \in DOMAIN shown.nodes : Connect(n, m))
    BY <1>2, FlowAsks
  <1>3. ASSUME NEW n \in DOMAIN shown.nodes, Drag(n) \/ EditPrompt(n) \/ RunNode(n)
        PROVE  FlowInv'
    BY <1>3, FlowDrags, FlowEdits, FlowRuns
  <1>4. CASE \E r \in DOMAIN runs : RunEnds(r)
    BY <1>4, FlowRunEnds
  <1>5. CASE CommitLayout \/ HandleGraphCall \/ HandleGraphAnswer
    BY <1>5, FlowCommits, FlowHandles, FlowAnswered
  <1> QED
    BY <1>1, <1>2, <1>3, <1>4, <1>5 DEF FlowNext

(* Once nothing is under way nothing can make up for what is missing.      *)
LEMMA RestIsComplete ==
  ASSUME NEW T, NEW E, NEW D, NEW L, NEW R, NEW S, NEW cv, NEW lost, NEW cl, NEW N, DOMAIN N = {},
         GraphInv(T, E, D, L, R, S, cv, NoPlaces, N, N, lost, cl)
  PROVE  /\ DOMAIN S.nodes = NodesIn(T, S.session) /\ S.edges = {e \in D : e.session = S.session}
         /\ \A n \in DOMAIN S.nodes : [S.nodes[n] EXCEPT !.at = T[n].at] = T[n]
  <1>1. Views(N) = {0} /\ ViewAt(S, N, 0) = S
    BY DEF Views, ViewAt
  <1>2. Complete(T, D, S)
    BY <1>1 DEF GraphInv, ViewsComplete, IsComplete
  <1>3. ASSUME NEW n \in DOMAIN S.nodes
        PROVE  [S.nodes[n] EXCEPT !.at = T[n].at] = T[n]
    <2>1. InData(T, S, n)
      BY <1>1 DEF GraphInv, ViewsInData, SavedAfter, Loading
    <2>2. /\ n \in NodesIn(T, S.session) /\ IsRow(S.nodes[n]) /\ S.nodes[n].session = S.session
          /\ S.nodes[n].kind = T[n].kind
      BY DEF GraphInv, GraphOK
    <2>3. n \in DOMAIN T /\ T[n].session = S.session
      BY <2>2 DEF NodesIn
    <2>4. IsRow(T[n])
      BY <2>3 DEF GraphInv, TableOK
    <2>5. PICK r, t : r = S.nodes[n] /\ t = T[n]
      OBVIOUS
    <2>6. /\ r = [session |-> t.session, kind |-> t.kind, at |-> r.at, prompt |-> t.prompt, last |-> t.last]
          /\ t = [session |-> t.session, kind |-> t.kind, at |-> t.at, prompt |-> t.prompt, last |-> t.last]
      BY <2>1, <2>2, <2>3, <2>4, <2>5 DEF InData, IsRow
    <2>7. [r EXCEPT !.at = t.at] = t
      BY <2>6
    <2> QED
      BY <2>5, <2>7
  <1> QED
    BY <1>2, <1>3 DEF Complete

LEMMA RestIsDrawn ==
  ASSUME NEW T, NEW cv, NEW N, DOMAIN N = {}, CanvasIsSaved(T, N, cv, NoPlaces)
  PROVE  \A n \in DOMAIN cv : T[n].at = cv[n]
  <1>1. DOMAIN NoPlaces = {}
    BY DEF NoPlaces
  <1>2. ~LayoutComes(N, cv)
    BY DEF LayoutComes
  <1> QED
    BY <1>1, <1>2 DEF CanvasIsSaved

LEMMA RestIsLogged ==
  ASSUME NEW T, NEW E, NEW D, NEW L, NEW R, NEW S, NEW cv, NEW pd, NEW lost, NEW cl, NEW N, DOMAIN N = {},
         GraphInv(T, E, D, L, R, S, cv, pd, N, N, lost, cl),
         \A r \in DOMAIN R : R[r].phase = "over", NEW n \in DOMAIN T \ cl,
         NEW logged, logged = {i \in DOMAIN L : R[L[i]].node = n}
  PROVE  /\ T[n].prompt = E[n]
         /\ \/ logged = {} /\ T[n].last = 0
            \/ \E i \in logged : T[n].last = L[i] /\ \A j \in logged : j <= i
  <1>1. InOrderFor(T, E, R, L, N, N, n) /\ RunsOK(T, R, L) /\ LogOK(R, L)
    BY DEF GraphInv
  <1>2. T[n].prompt = E[n] /\ LastRun(R, n, T[n].last)
    BY <1>1 DEF InOrderFor, SavedLast
  <1>3. \A i, j \in DOMAIN L : i < j /\ R[L[i]].node = n /\ R[L[j]].node = n => L[i] < L[j]
    BY <1>1 DEF InOrderFor, LogInOrder
  <1>4. /\ \A i \in DOMAIN L : L[i] \in DOMAIN R /\ i \in Nat
        /\ DOMAIN R \subseteq Nat
    <2>1. IsList(L) /\ IsList(R)
      BY <1>1 DEF LogOK, RunsOK
    <2>2. DOMAIN L \subseteq Nat /\ DOMAIN R \subseteq Nat
      BY <2>1, ListDomain
    <2> QED
      BY <1>1, <2>2 DEF LogOK
  <1>5. PICK x : x = T[n].last
    OBVIOUS
  <1>6. CASE x = 0 /\ \A r \in DOMAIN R : R[r].node = n => R[r].phase = "working"
    <2>1. \A r \in DOMAIN R : R[r].node # n
      BY <1>6
    <2>2. logged = {}
      BY <1>4, <2>1
    <2> QED
      BY <1>2, <1>5, <1>6, <2>2
  <1>7. CASE /\ x \in DOMAIN R /\ R[x].phase # "working" /\ R[x].node = n
             /\ \A r \in DOMAIN R : R[r].node = n /\ R[r].phase # "working" => r <= x
    <2>1. PICK i \in DOMAIN L : L[i] = x
      BY <1>1, <1>7 DEF RunsOK
    <2>2. i \in logged
      BY <1>7, <2>1
    <2>3. ASSUME NEW j \in logged
          PROVE  j <= i
      <3>1. j \in DOMAIN L /\ R[L[j]].node = n /\ L[j] \in DOMAIN R
        BY <1>4
      <3>2. L[j] <= x /\ L[j] \in Nat /\ x \in Nat /\ i \in Nat /\ j \in Nat
        BY <1>4, <1>7, <3>1
      <3>3. i < j => x < L[j]
        BY <1>3, <1>7, <2>1, <3>1
      <3> QED
        BY <3>2, <3>3
    <2> QED
      BY <1>2, <1>5, <2>1, <2>2, <2>3
  <1> QED
    BY <1>2, <1>5, <1>6, <1>7 DEF LastRun

-----------------------------------------------------------------------------
(* Where a node will lie: the layout not yet committed decides, then the   *)
(* last one on its way that places it, and then the table.  A drag stays   *)
(* what decides for its node until another drag may have undone it.        *)
Lays(c, n) == c.op = "layout" /\ n \in DOMAIN c.places
LaidLast(C, n, x) ==
  \E i \in DOMAIN C : /\ Lays(C[i], n) /\ C[i].places[n] = x
                      /\ \A j \in DOMAIN C : i < j => ~Lays(C[j], n)
LaidNever(C, n) == \A i \in DOMAIN C : ~Lays(C[i], n)
PlaceComes(T, C, pd, n, x) ==
  IF n \in DOMAIN pd THEN pd[n] = x
  ELSE LaidLast(C, n, x) \/ (LaidNever(C, n) /\ T[n].at = x)
DragsKept(T, C, pd, dr, ow) ==
  \A n \in DOMAIN dr \ ow : n \in DOMAIN T /\ PlaceComes(T, C, pd, n, dr[n])
PlacesKept == DragsKept(rows, graphCalls, pending, dragged, overwritten)

LEMMA LaidLastJoins ==
  ASSUME NEW C, NEW B, NEW c, NEW n, NEW x, Joins(C, B, c)
  PROVE  /\ ~Lays(c, n) => /\ LaidLast(C, n, x) => LaidLast(B, n, x)
                           /\ LaidNever(C, n) => LaidNever(B, n)
         /\ Lays(c, n) /\ c.places[n] = x => LaidLast(B, n, x)
  <1>1. /\ DOMAIN B \subseteq Nat /\ DOMAIN C \subseteq DOMAIN B
        /\ \A i \in DOMAIN C : B[i] = C[i]
    BY JoinedIs
  <1>2. PICK z \in DOMAIN B : /\ B[z] = c /\ z \notin DOMAIN C /\ \A i \in DOMAIN C : i < z
                              /\ \A i \in DOMAIN B : i \in DOMAIN C \/ i = z
    BY JoinedIs
  <1>3. \A i \in DOMAIN B : ~(z < i)
    <2>1. ASSUME NEW i \in DOMAIN B PROVE ~(z < i)
      <3>1. i \in Nat /\ z \in Nat /\ (i < z \/ i = z)
        BY <1>1, <1>2
      <3> QED
        BY <3>1
    <2> QED
      BY <2>1
  <1>4. ASSUME ~Lays(c, n), LaidLast(C, n, x) PROVE LaidLast(B, n, x)
    BY <1>1, <1>2, <1>4 DEF LaidLast
  <1>5. ASSUME ~Lays(c, n), LaidNever(C, n) PROVE LaidNever(B, n)
    BY <1>1, <1>2, <1>5 DEF LaidNever
  <1>6. ASSUME Lays(c, n), c.places[n] = x PROVE LaidLast(B, n, x)
    BY <1>2, <1>3, <1>6 DEF LaidLast
  <1> QED
    BY <1>4, <1>5, <1>6

LayoutFree(C, B) == B = C \/ \E c : Joins(C, B, c) /\ c.op # "layout"

LEMMA DragsStay ==
  ASSUME NEW T, NEW C, NEW pd, NEW dr, NEW ow, NEW B, DragsKept(T, C, pd, dr, ow), LayoutFree(C, B)
  PROVE  DragsKept(T, B, pd, dr, ow)
  <1>1. ASSUME NEW n, NEW x, PlaceComes(T, C, pd, n, x) PROVE PlaceComes(T, B, pd, n, x)
    <2>1. ASSUME NEW c, Joins(C, B, c), c.op # "layout" PROVE PlaceComes(T, B, pd, n, x)
      <3>1. ~Lays(c, n)
        BY <2>1 DEF Lays
      <3>2. (LaidLast(C, n, x) => LaidLast(B, n, x)) /\ (LaidNever(C, n) => LaidNever(B, n))
        BY <2>1, <3>1, LaidLastJoins
      <3> QED
        BY <1>1, <3>2 DEF PlaceComes
    <2> QED
      BY <1>1, <2>1 DEF LayoutFree
  <1> QED
    BY <1>1 DEF DragsKept

LEMMA DragsCommitted ==
  ASSUME NEW T, NEW C, NEW pd, NEW dr, NEW ow, NEW B, DragsKept(T, C, pd, dr, ow),
         Joins(C, B, Layout(pd))
  PROVE  DragsKept(T, B, NoPlaces, dr, ow)
  <1>1. PICK c : c = Layout(pd) /\ c.op = "layout" /\ c.places = pd
    BY DEF Layout
  <1>2. ASSUME NEW n, NEW x, PlaceComes(T, C, pd, n, x) PROVE PlaceComes(T, B, NoPlaces, n, x)
    <2>1. n \notin DOMAIN NoPlaces
      BY DEF NoPlaces
    <2>2. CASE n \in DOMAIN pd
      <3>1. Lays(c, n) /\ c.places[n] = x
        BY <1>1, <1>2, <2>2 DEF Lays, PlaceComes
      <3>2. LaidLast(B, n, x)
        BY <1>1, <3>1, LaidLastJoins
      <3> QED
        BY <2>1, <3>2 DEF PlaceComes
    <2>3. CASE n \notin DOMAIN pd
      <3>1. ~Lays(c, n)
        BY <1>1, <2>3 DEF Lays
      <3>2. (LaidLast(C, n, x) => LaidLast(B, n, x)) /\ (LaidNever(C, n) => LaidNever(B, n))
        BY <1>1, <3>1, LaidLastJoins
      <3> QED
        BY <1>2, <2>1, <2>3, <3>2 DEF PlaceComes
    <2> QED
      BY <2>2, <2>3
  <1> QED
    BY <1>2 DEF DragsKept

(* The table after call c.                                                 *)
LaidOut(T, U, c) ==
  \A n \in DOMAIN T : /\ n \in DOMAIN U
                      /\ U[n].at = IF Lays(c, n) THEN c.places[n] ELSE T[n].at

LEMMA DragsHandled ==
  ASSUME NEW T, NEW C, NEW pd, NEW dr, NEW ow, NEW B, NEW U, NEW c, DragsKept(T, C, pd, dr, ow),
         Leaves(C, B, c), LaidOut(T, U, c)
  PROVE  DragsKept(U, B, pd, dr, ow)
  <1>1. /\ DOMAIN C \subseteq Nat /\ DOMAIN B \subseteq DOMAIN C /\ 1 \in DOMAIN C /\ C[1] = c
        /\ \A i \in DOMAIN B : i \in Nat /\ 0 < i /\ i + 1 \in DOMAIN C /\ B[i] = C[i + 1]
        /\ \A i \in DOMAIN C : i = 1 \/ \E j \in DOMAIN B : i = j + 1
    BY LeftIs
  <1>2. ASSUME NEW n \in DOMAIN T, NEW x, PlaceComes(T, C, pd, n, x) PROVE PlaceComes(U, B, pd, n, x)
    <2>1. CASE n \in DOMAIN pd
      BY <1>2, <2>1 DEF PlaceComes
    <2>2. CASE n \notin DOMAIN pd /\ LaidNever(C, n)
      <3>1. ~Lays(c, n) /\ LaidNever(B, n)
        BY <1>1, <2>2 DEF LaidNever
      <3>2. ~LaidLast(C, n, x)
        BY <2>2 DEF LaidNever, LaidLast
      <3>3. U[n].at = T[n].at /\ T[n].at = x
        BY <1>2, <2>2, <3>1, <3>2 DEF LaidOut, PlaceComes
      <3> QED
        BY <2>2, <3>1, <3>3 DEF PlaceComes
    <2>3. CASE n \notin DOMAIN pd /\ LaidLast(C, n, x)
      <3>1. PICK i \in DOMAIN C : /\ Lays(C[i], n) /\ C[i].places[n] = x
                                  /\ \A j \in DOMAIN C : i < j => ~Lays(C[j], n)
        BY <2>3 DEF LaidLast
      <3>2. CASE i = 1
        <4>1. ASSUME NEW j \in DOMAIN B PROVE ~Lays(B[j], n)
          <5>1. j + 1 \in DOMAIN C /\ i < j + 1
            BY <1>1, <3>2
          <5> QED
            BY <1>1, <3>1, <5>1
        <4>2. U[n].at = x
          BY <1>1, <3>1, <3>2 DEF LaidOut
        <4> QED
          BY <2>3, <4>1, <4>2 DEF PlaceComes, LaidNever
      <3>3. CASE i # 1
        <4>1. PICK k \in DOMAIN B : i = k + 1
          BY <1>1, <3>3
        <4>2. Lays(B[k], n) /\ B[k].places[n] = x
          BY <1>1, <3>1, <4>1
        <4>3. ASSUME NEW j \in DOMAIN B, k < j PROVE ~Lays(B[j], n)
          <5>1. j + 1 \in DOMAIN C /\ i < j + 1
            BY <1>1, <4>1, <4>3
          <5> QED
            BY <1>1, <3>1, <5>1
        <4> QED
          BY <2>3, <4>2, <4>3 DEF PlaceComes, LaidLast
      <3> QED
        BY <3>2, <3>3
    <2> QED
      BY <1>2, <2>1, <2>2, <2>3 DEF PlaceComes
  <1> QED
    BY <1>2 DEF DragsKept, LaidOut

(* A drag on a canvas that was not redrawn over an unsaved layout commits  *)
(* of the other nodes what is about to be saved anyway.                    *)
LEMMA DrawnIsComing ==
  ASSUME NEW T, NEW C, NEW cv, NEW pd, NEW n, NEW x, IsList(C), CanvasIsSaved(T, C, cv, pd),
         n \in DOMAIN cv, PlaceComes(T, C, pd, n, x)
  PROVE  cv[n] = x
  <1>1. n \notin DOMAIN NoPlaces
    BY DEF NoPlaces
  <1>2. CASE pd = cv
    BY <1>2 DEF PlaceComes
  <1>3. CASE pd = NoPlaces /\ cv[n] = T[n].at /\ \A i \in DOMAIN C : C[i].op # "layout"
    <2>1. LaidNever(C, n) /\ ~LaidLast(C, n, x)
      BY <1>3 DEF LaidNever, LaidLast, Lays
    <2> QED
      BY <1>1, <1>3, <2>1 DEF PlaceComes
  <1>4. CASE pd = NoPlaces /\ LayoutComes(C, cv)
    <2>1. PICK i \in DOMAIN C : /\ C[i].op = "layout" /\ C[i].places = cv
                                /\ \A j \in DOMAIN C : i < j => C[j].op # "layout"
      BY <1>4 DEF LayoutComes
    <2>2. Lays(C[i], n)
      BY <2>1 DEF Lays
    <2>3. PICK k \in DOMAIN C : /\ Lays(C[k], n) /\ C[k].places[n] = x
                                /\ \A j \in DOMAIN C : k < j => ~Lays(C[j], n)
      BY <1>1, <1>4, <2>2 DEF PlaceComes, LaidNever, LaidLast
    <2>4. ~(k < i) /\ ~(i < k)
      BY <2>1, <2>2, <2>3 DEF Lays
    <2>5. i \in Nat /\ k \in Nat
      BY ListDomain
    <2>6. i = k
      BY <2>4, <2>5
    <2> QED
      BY <2>1, <2>3, <2>6
  <1> QED
    BY <1>2, <1>3, <1>4 DEF CanvasIsSaved

DrawnAt(cv, n, x) == [cv EXCEPT ![n] = x]
DragsThen(dr, n, x) == [m \in DOMAIN dr \cup {n} |-> IF m = n THEN x ELSE dr[m]]
UndoneThen(ow, cv, pd, n, lost) == (IF lost THEN ow \cup DOMAIN cv \cup DOMAIN pd ELSE ow) \ {n}

LEMMA DragsDragged ==
  ASSUME NEW T, NEW C, NEW cv, NEW pd, NEW dr, NEW ow, NEW lost, DragsKept(T, C, pd, dr, ow),
         IsList(C), ~lost => CanvasIsSaved(T, C, cv, pd),
         NEW n, n \in DOMAIN cv, n \in DOMAIN T, NEW x, NEW dw, NEW ds, NEW os,
         dw = DrawnAt(cv, n, x), ds = DragsThen(dr, n, x), os = UndoneThen(ow, cv, pd, n, lost)
  PROVE  DragsKept(T, C, dw, ds, os)
  <1>1. /\ dw = [cv EXCEPT ![n] = x]
        /\ ds = [m \in DOMAIN dr \cup {n} |-> IF m = n THEN x ELSE dr[m]]
        /\ os = (IF lost THEN ow \cup DOMAIN cv \cup DOMAIN pd ELSE ow) \ {n}
    BY DEF DrawnAt, DragsThen, UndoneThen
  <1>2. ASSUME NEW m \in DOMAIN ds \ os
        PROVE  m \in DOMAIN T /\ PlaceComes(T, C, dw, m, ds[m])
    <2>1. CASE m = n
      BY <1>1, <2>1 DEF PlaceComes
    <2>2. CASE m # n
      <3>1. /\ m \in DOMAIN dr \ ow /\ ds[m] = dr[m]
            /\ lost => m \notin DOMAIN cv /\ m \notin DOMAIN pd
        BY <1>1, <1>2, <2>2
      <3>2. m \in DOMAIN T /\ PlaceComes(T, C, pd, m, dr[m])
        BY <3>1 DEF DragsKept
      <3>3. CASE m \in DOMAIN cv
        <4>1. cv[m] = dr[m]
          BY <3>1, <3>2, <3>3, DrawnIsComing
        <4>2. m \in DOMAIN dw /\ dw[m] = cv[m]
          BY <1>1, <2>2, <3>3
        <4> QED
          BY <3>1, <3>2, <4>1, <4>2 DEF PlaceComes
      <3>4. CASE m \notin DOMAIN cv
        <4>1. DOMAIN pd \subseteq DOMAIN cv \/ lost
          BY DEF CanvasIsSaved, NoPlaces
        <4>2. m \notin DOMAIN dw /\ m \notin DOMAIN pd
          BY <1>1, <3>1, <3>4, <4>1
        <4> QED
          BY <3>1, <3>2, <4>2 DEF PlaceComes
      <3> QED
        BY <3>3, <3>4
    <2> QED
      BY <2>1, <2>2
  <1> QED
    BY <1>2 DEF DragsKept

(* What the steps do to calls and table.                                   *)
LEMMA BootLaysNothing ==
  ASSUME IsList(graphCalls), NEW b, BootGoesOn(b)
  PROVE  LayoutFree(graphCalls, graphCalls')
  <1>1. PlainMore(graphCalls, graphCalls')
    BY BootPlain
  <1> QED
    BY <1>1 DEF PlainMore, IsPlain, LayoutFree

LEMMA AppendedFree ==
  ASSUME IsList(graphCalls), NEW c, c.op # "layout", graphCalls' = Append(graphCalls, c)
  PROVE  LayoutFree(graphCalls, graphCalls')
  BY ListJoins DEF LayoutFree

LEMMA OpsAre ==
  /\ \A s, f : Get(s, f).op = "get"
  /\ \A s, k, f : NewNode(s, k, f).op = "node"
  /\ \A s, p, q, f : NewEdge(s, p, q, f).op = "edge"
  /\ \A n, p, l, f : Save(n, p, l, f).op = "save"
  /\ \A r : Log(r).op = "log"
  BY DEF Get, NewNode, NewEdge, Save, Log

LEMMA UserLaysNothing ==
  ASSUME FlowInv, \/ \E s \in FlowSessions : SelectFlowSession(s)
                  \/ SelectModule \/ BootstrapSelfHost
                  \/ \E n, m \in DOMAIN shown.nodes : Connect(n, m)
                  \/ \E n \in DOMAIN shown.nodes : EditPrompt(n) \/ RunNode(n)
                  \/ \E r \in DOMAIN runs : RunEnds(r)
  PROVE  LayoutFree(graphCalls, graphCalls') /\ UNCHANGED <<rows, pending, dragged, overwritten>>
  <1>1. IsList(graphCalls)
    BY CallsAreList
  <1>2. ASSUME NEW s, SelectFlowSession(s)
        PROVE  LayoutFree(graphCalls, graphCalls') /\ UNCHANGED <<rows, pending, dragged, overwritten>>
    BY <1>1, <1>2, AppendedFree, OpsAre DEF SelectFlowSession, tableVars, placeVars
  <1>3. CASE SelectModule
    BY <1>1, <1>3, AppendedFree, OpsAre DEF SelectModule, tableVars, placeVars
  <1>4. CASE BootstrapSelfHost
    <2>1. (\E b : BootGoesOn(b)) /\ UNCHANGED <<rows, pending, dragged, overwritten>>
      BY <1>4 DEF BootstrapSelfHost, tableVars, placeVars
    <2> QED
      BY <1>1, <2>1, BootLaysNothing
  <1>5. ASSUME NEW n, NEW m, Connect(n, m)
        PROVE  LayoutFree(graphCalls, graphCalls') /\ UNCHANGED <<rows, pending, dragged, overwritten>>
    BY <1>1, <1>5, AppendedFree, OpsAre DEF Connect, tableVars, placeVars
  <1>6. ASSUME NEW n, EditPrompt(n)
        PROVE  LayoutFree(graphCalls, graphCalls') /\ UNCHANGED <<rows, pending, dragged, overwritten>>
    BY <1>1, <1>6, AppendedFree, OpsAre DEF EditPrompt, tableVars, placeVars
  <1>7. ASSUME NEW n, RunNode(n)
        PROVE  LayoutFree(graphCalls, graphCalls') /\ UNCHANGED <<rows, pending, dragged, overwritten>>
    BY <1>7 DEF RunNode, tableVars, placeVars, LayoutFree
  <1>8. ASSUME NEW r, RunEnds(r)
        PROVE  LayoutFree(graphCalls, graphCalls') /\ UNCHANGED <<rows, pending, dragged, overwritten>>
    BY <1>1, <1>8, AppendedFree, OpsAre DEF RunEnds, tableVars, userVars, placeVars
  <1> QED
    BY <1>2, <1>3, <1>4, <1>5, <1>6, <1>7, <1>8

LEMMA AnswersLayNothing ==
  ASSUME FlowInv, HandleGraphAnswer
  PROVE  LayoutFree(graphCalls, graphCalls') /\ UNCHANGED <<rows, pending, dragged, overwritten>>
  <1>1. IsList(graphCalls)
    BY CallsAreList
  <1>2. UNCHANGED <<rows, pending, dragged, overwritten>>
    BY DEF HandleGraphAnswer, tableVars, userVars, placeVars
  <1> SUFFICES LayoutFree(graphCalls, graphCalls')
    BY <1>2
  <1>3. PICK a : \/ GoOn(a.after)
                 \/ GraphCreated(a)
                 \/ graphCalls' = Append(graphCalls, Get(shown.session, a.after))
                 \/ UNCHANGED graphCalls
    BY DEF HandleGraphAnswer
  <1>4. CASE GoOn(a.after)
    <2>1. CASE a.after.who = "run"
      BY <1>1, <1>4, <2>1, AppendedFree, OpsAre DEF GoOn
    <2>2. CASE a.after.who = "boot"
      <3>1. BootGoesOn(boot)
        BY <1>4, <2>2 DEF GoOn
      <3> QED
        BY <1>1, <3>1, BootLaysNothing
    <2>3. CASE a.after.who # "run" /\ a.after.who # "boot"
      BY <1>4, <2>3 DEF GoOn, LayoutFree
    <2> QED
      BY <2>1, <2>2, <2>3
  <1>5. CASE GraphCreated(a)
    <2>1. \/ graphCalls' = Append(graphCalls, Get(a.session, a.after))
          \/ \E b : BootGoesOn(b)
          \/ UNCHANGED graphCalls
      BY <1>5 DEF GraphCreated
    <2> QED
      BY <1>1, <2>1, AppendedFree, BootLaysNothing, OpsAre DEF LayoutFree
  <1>6. CASE graphCalls' = Append(graphCalls, Get(shown.session, a.after))
    BY <1>1, <1>6, AppendedFree, OpsAre
  <1> QED
    BY <1>2, <1>3, <1>4, <1>5, <1>6 DEF LayoutFree

LEMMA CallsLayOut ==
  ASSUME FlowInv, HandleGraphCall
  PROVE  \E c : Leaves(graphCalls, graphCalls', c) /\ LaidOut(rows, rows', c)
  <1>1. PICK c : c = Head(graphCalls) /\ Leaves(graphCalls, graphCalls', c)
    BY CallsAreList, ListLeaves DEF HandleGraphCall
  <1>2. TableOK(rows, edited) /\ CallOK(rows, runs, c)
    BY <1>1, CallGone DEF FlowInv, GraphInv
  <1>3. \/ c.op \in {"get", "edge", "log"} /\ UNCHANGED rows
        \/ c.op = "node" /\ rows' = Append(rows, NewRow(c.session, c.kind))
        \/ c.op = "save" /\ UpdateNode(c)
        \/ c.op = "layout" /\ rows' = Placed(c.places)
    BY <1>1 DEF HandleGraphCall, tableVars
  <1>4. CASE c.op \in {"get", "edge", "log"} /\ UNCHANGED rows
    BY <1>1, <1>4 DEF LaidOut, Lays
  <1>5. CASE c.op = "node" /\ rows' = Append(rows, NewRow(c.session, c.kind))
    <2>1. Joins(rows, rows', NewRow(c.session, c.kind))
      BY <1>2, <1>5, ListJoins DEF TableOK
    <2>2. \A n \in DOMAIN rows : n \in DOMAIN rows' /\ rows'[n] = rows[n]
      BY <2>1, JoinedIs
    <2> QED
      BY <1>1, <1>5, <2>2 DEF LaidOut, Lays
  <1>6. CASE c.op \in {"save", "layout"}
    <2>1. PICK U : U = rows'
      OBVIOUS
    <2>2. c.op = "save" => c.node \in DOMAIN rows
      BY <1>2 DEF CallOK
    <2>3. c.op = "save" => SameRows(rows, U, c)
      BY <1>2, <1>3, <2>1, <2>2, SaveTable DEF UpdateNode
    <2>4. c.op = "layout" => SameRows(rows, U, c)
      BY <1>2, <1>3, <2>1, LayoutTable DEF Placed
    <2>5. SameRows(rows, U, c)
      BY <1>6, <2>3, <2>4
    <2> QED
      BY <1>1, <2>1, <2>5 DEF SameRows, LaidOut, Lays
  <1> QED
    BY <1>3, <1>4, <1>5, <1>6

LEMMA PlacesStart == FlowInit => PlacesKept
  <1> SUFFICES ASSUME FlowInit
               PROVE  PlacesKept
    OBVIOUS
  <1>1. CASE dragged = NoPlaces
    BY <1>1 DEF PlacesKept, DragsKept, NoPlaces
  <1>2. CASE MaxStored \in DOMAIN rows /\ LeftDrag(MaxStored)
    <2>1. PICK n : n = MaxStored /\ n \in DOMAIN rows
      BY <1>2
    <2>2. pending = [canvas EXCEPT ![n] = 1] /\ dragged = [m \in {n} |-> 1]
      BY <1>2, <2>1 DEF LeftDrag, LayoutPayload
    <2>3. DOMAIN canvas = DOMAIN shown.nodes /\ shown = GraphOf(selected)
      BY DEF FlowInit, MapGraphNodes
    <2>4. DOMAIN shown.nodes = NodesOf(selected)
      BY <2>3 DEF GraphOf
    <2>5. rows[n].session = selected
      BY <2>1 DEF FlowInit, NewRow
    <2>6. n \in DOMAIN pending /\ pending[n] = 1
      BY <2>1, <2>2, <2>3, <2>4, <2>5 DEF NodesOf
    <2>7. \A m \in DOMAIN dragged : m = n /\ dragged[m] = 1
      BY <2>2
    <2> QED
      BY <2>1, <2>6, <2>7 DEF PlacesKept, DragsKept, PlaceComes
  <1> QED
    BY <1>1, <1>2 DEF FlowInit, LeftNothing, LeftRun

LEMMA PlacesStep == ASSUME FlowInv, PlacesKept, [FlowNext]_flowVars PROVE PlacesKept'
  <1>1. ASSUME LayoutFree(graphCalls, graphCalls'), UNCHANGED <<rows, pending, dragged, overwritten>>
        PROVE  PlacesKept'
    <2>1. PICK B : B = graphCalls'
      OBVIOUS
    <2>2. DragsKept(rows, B, pending, dragged, overwritten)
      BY <1>1, <2>1, DragsStay DEF PlacesKept
    <2> QED
      BY <1>1, <2>1, <2>2 DEF PlacesKept
  <1>2. CASE UNCHANGED flowVars
    <2>1. LayoutFree(graphCalls, graphCalls') /\ UNCHANGED <<rows, pending, dragged, overwritten>>
      BY <1>2 DEF flowVars, tableVars, userVars, placeVars, LayoutFree
    <2> QED
      BY <1>1, <2>1
  <1>3. CASE \/ \E s \in FlowSessions : SelectFlowSession(s)
             \/ SelectModule \/ BootstrapSelfHost
             \/ \E n, m \in DOMAIN shown.nodes : Connect(n, m)
             \/ \E n \in DOMAIN shown.nodes : EditPrompt(n) \/ RunNode(n)
             \/ \E r \in DOMAIN runs : RunEnds(r)
    BY <1>1, <1>3, UserLaysNothing
  <1>4. CASE HandleGraphAnswer
    BY <1>1, <1>4, AnswersLayNothing
  <1>5. CASE HandleGraphCall
    <2>1. PICK c, B, U : /\ B = graphCalls' /\ U = rows'
                         /\ Leaves(graphCalls, B, c) /\ LaidOut(rows, U, c)
      BY <1>5, CallsLayOut
    <2>2. DragsKept(U, B, pending, dragged, overwritten)
      BY <2>1, DragsHandled DEF PlacesKept
    <2>3. UNCHANGED <<pending, dragged, overwritten>>
      BY <1>5 DEF HandleGraphCall, placeVars
    <2> QED
      BY <2>1, <2>2, <2>3 DEF PlacesKept
  <1>6. CASE CommitLayout
    <2>1. PICK B : B = graphCalls' /\ Joins(graphCalls, B, Layout(pending))
      BY <1>6, CallsAreList, ListJoins DEF CommitLayout
    <2>2. DragsKept(rows, B, NoPlaces, dragged, overwritten)
      BY <2>1, DragsCommitted DEF PlacesKept
    <2>3. pending' = NoPlaces /\ UNCHANGED <<rows, dragged, overwritten>>
      BY <1>6 DEF CommitLayout, tableVars, userVars, placeVars
    <2> QED
      BY <2>1, <2>2, <2>3 DEF PlacesKept
  <1>7. ASSUME NEW n \in DOMAIN shown.nodes, Drag(n)
        PROVE  PlacesKept'
    <2>1. /\ IsList(graphCalls) /\ (~disturbed => CanvasIsSaved(rows, graphCalls, canvas, pending))
          /\ n \in DOMAIN canvas /\ n \in DOMAIN rows
      BY CallsAreList DEF FlowInv, GraphInv, GraphOK, NodesIn
    <2>2. PICK x, dw, ds, os : x = acts' /\ dw = pending' /\ ds = dragged' /\ os = overwritten'
      OBVIOUS
    <2>3. /\ dw = DrawnAt(canvas, n, x) /\ ds = DragsThen(dragged, n, x)
          /\ os = UndoneThen(overwritten, canvas, pending, n, disturbed)
      BY <1>7, <2>2 DEF Drag, LayoutPayload, DrawnAt, DragsThen, UndoneThen
    <2>4. DragsKept(rows, graphCalls, dw, ds, os)
      BY <2>1, <2>3, DragsDragged DEF PlacesKept
    <2>5. UNCHANGED <<rows, graphCalls>>
      BY <1>7 DEF Drag, tableVars
    <2> QED
      BY <2>2, <2>4, <2>5 DEF PlacesKept
  <1> QED
    BY <1>2, <1>3, <1>4, <1>5, <1>6, <1>7 DEF FlowNext

LEMMA FlowInvGives == FlowInv /\ PlacesKept => FlowIsKept
  <1> SUFFICES ASSUME FlowInv, PlacesKept, FlowAtRest
               PROVE  FlowIsKept
    BY DEF FlowIsKept
  <1>1. PICK N : N = <<>> /\ DOMAIN N = {}
    BY NothingUnderWay
  <1>2. graphCalls = N /\ graphAnswers = N /\ pending = NoPlaces
    BY <1>1 DEF FlowAtRest
  <1>3. GraphInv(rows, edited, edges, log, runs, shown, canvas, NoPlaces, N, N, disturbed, clashed)
    BY <1>2 DEF FlowInv
  <1>4. /\ DOMAIN shown.nodes = NodesOf(shown.session)
        /\ shown.edges = {e \in edges : e.session = shown.session}
        /\ \A n \in DOMAIN shown.nodes : [shown.nodes[n] EXCEPT !.at = rows[n].at] = rows[n]
    <2>1. NodesOf(shown.session) = NodesIn(rows, shown.session)
      BY DEF NodesOf, NodesIn
    <2> QED
      BY <1>1, <1>3, <2>1, RestIsComplete
  <1>5. ~disturbed => \A n \in DOMAIN canvas : rows[n].at = canvas[n]
    BY <1>1, <1>3, RestIsDrawn DEF GraphInv
  <1>6. \A r \in DOMAIN runs : runs[r].phase = "over"
    BY DEF FlowAtRest
  <1>7. ASSUME NEW n \in DOMAIN rows \ clashed
        PROVE  LET logged == {i \in DOMAIN log : runs[log[i]].node = n}
               IN /\ rows[n].prompt = edited[n]
                  /\ \/ logged = {} /\ rows[n].last = 0
                     \/ \E i \in logged : rows[n].last = log[i] /\ \A j \in logged : j <= i
    <2>1. PICK logged : logged = {i \in DOMAIN log : runs[log[i]].node = n}
      OBVIOUS
    <2>2. /\ rows[n].prompt = edited[n]
          /\ \/ logged = {} /\ rows[n].last = 0
             \/ \E i \in logged : rows[n].last = log[i] /\ \A j \in logged : j <= i
      BY <1>1, <1>3, <1>6, <2>1, RestIsLogged
    <2> QED
      BY <2>1, <2>2
  <1>8. \A n \in DOMAIN dragged \ overwritten : rows[n].at = dragged[n]
    <2>1. DragsKept(rows, N, NoPlaces, dragged, overwritten)
      BY <1>2 DEF PlacesKept
    <2>2. DOMAIN NoPlaces = {}
      BY DEF NoPlaces
    <2> QED
      BY <1>1, <2>1, <2>2 DEF DragsKept, PlaceComes, LaidLast
  <1> QED
    BY <1>4, <1>5, <1>7, <1>8 DEF FlowIsKept

(* Whatever edits, runs, drags, bootstraps and switches of session         *)
(* overlap: once nothing is under way the store shows the session as the   *)
(* database has it; a node lies where it was dragged last, unless another  *)
(* drag followed on a canvas that had been redrawn over an unsaved layout, *)
(* and where it is drawn, unless the canvas was redrawn over a layout on   *)
(* its way; and a node that was never saved twice at a time has its last   *)
(* edit and its last logged run.                                           *)
THEOREM TheGraphIsKept == FlowSpec => []FlowIsKept
  <1>1. FlowInv /\ PlacesKept /\ [FlowNext]_flowVars => FlowInv' /\ PlacesKept'
    BY FlowStep, PlacesStep
  <1> QED
    BY <1>1, FlowStart, PlacesStart, FlowInvGives, PTL DEF FlowSpec

-----------------------------------------------------------------------------
(* The types of the flow graph.  How many calls ask for a new node, as     *)
(* calls come and go.                                                      *)
NodeCallsAt(C) == {i \in DOMAIN C : C[i].op = "node"}
NodeCalls(C)   == Cardinality(NodeCallsAt(C))

LEMMA NodeCallsAreFinite ==
  ASSUME NEW C, IsList(C)
  PROVE  IsFiniteSet(NodeCallsAt(C)) /\ NodeCalls(C) \in Nat
  <1>1. PICK k \in Nat : DOMAIN C = 1 .. k
    BY ListDomain
  <1>2. IsFiniteSet(1 .. k)
    BY FS_Interval
  <1>3. NodeCallsAt(C) \subseteq 1 .. k
    BY <1>1 DEF NodeCallsAt
  <1> QED
    BY <1>2, <1>3, FS_Subset, FS_CardinalityType DEF NodeCalls

LEMMA NodeCallsJoin ==
  ASSUME NEW C, IsList(C), NEW B, NEW c, Joins(C, B, c)
  PROVE  NodeCalls(B) = IF c.op = "node" THEN NodeCalls(C) + 1 ELSE NodeCalls(C)
  <1>1. PICK z \in DOMAIN B : /\ B[z] = c /\ z \notin DOMAIN C
                              /\ \A i \in DOMAIN B : i \in DOMAIN C \/ i = z
    BY JoinedIs
  <1>2. DOMAIN C \subseteq DOMAIN B /\ \A i \in DOMAIN C : B[i] = C[i]
    BY JoinedIs
  <1>3. PICK S, T : S = NodeCallsAt(C) /\ T = NodeCallsAt(B)
    OBVIOUS
  <1>4. IsFiniteSet(S) /\ z \notin S
    BY <1>1, <1>3, NodeCallsAreFinite DEF NodeCallsAt
  <1>5. CASE c.op = "node"
    <2>1. T = S \cup {z}
      BY <1>1, <1>2, <1>3, <1>5 DEF NodeCallsAt
    <2> QED
      BY <1>3, <1>4, <1>5, <2>1, FS_AddElement DEF NodeCalls
  <1>6. CASE c.op # "node"
    <2>1. T = S
      BY <1>1, <1>2, <1>3, <1>6 DEF NodeCallsAt
    <2> QED
      BY <1>3, <1>6, <2>1 DEF NodeCalls
  <1> QED
    BY <1>5, <1>6

LEMMA NodeCallsLeave ==
  ASSUME NEW C, NEW B, NEW c, Leaves(C, B, c)
  PROVE  /\ NodeCalls(B) \in Nat
         /\ NodeCalls(C) = IF c.op = "node" THEN NodeCalls(B) + 1 ELSE NodeCalls(B)
  <1>1. /\ IsList(B) /\ 1 \in DOMAIN C /\ C[1] = c
        /\ \A i \in DOMAIN B : i \in Nat /\ 0 < i /\ i + 1 \in DOMAIN C /\ B[i] = C[i + 1]
        /\ \A i \in DOMAIN C : i = 1 \/ \E j \in DOMAIN B : i = j + 1
    BY LeftIs
  <1>2. PICK S, T : S = NodeCallsAt(B) /\ T = {i + 1 : i \in S}
    OBVIOUS
  <1>3. IsFiniteSet(S) /\ Cardinality(S) \in Nat /\ S \subseteq Nat /\ \A i \in S : 0 < i
    BY <1>1, <1>2, NodeCallsAreFinite DEF NodeCallsAt, NodeCalls
  <1>4. IsFiniteSet(T) /\ Cardinality(T) = Cardinality(S)
    <2>1. PICK f : f = [i \in S |-> i + 1]
      OBVIOUS
    <2>2. f \in [S -> T] /\ \A r \in T : \E j \in S : f[j] = r
      BY <1>2, <2>1
    <2>3. \A j, k \in S : f[j] = f[k] => j = k
      BY <1>3, <2>1
    <2>4. f \in Bijection(S, T)
      BY <2>2, <2>3 DEF Bijection, Injection, Surjection, IsInjective
    <2> QED
      BY <1>3, <2>4, FS_Bijection DEF ExistsBijection
  <1>5. 1 \notin T
    BY <1>2, <1>3
  <1>6. CASE c.op = "node"
    <2>1. NodeCallsAt(C) = T \cup {1}
      <3>1. ASSUME NEW i \in NodeCallsAt(C) PROVE i \in T \cup {1}
        BY <1>1, <1>2, <3>1 DEF NodeCallsAt
      <3>2. T \cup {1} \subseteq NodeCallsAt(C)
        BY <1>1, <1>2, <1>6 DEF NodeCallsAt
      <3> QED
        BY <3>1, <3>2
    <2> QED
      BY <1>2, <1>3, <1>4, <1>5, <1>6, <2>1, FS_AddElement DEF NodeCalls
  <1>7. CASE c.op # "node"
    <2>1. NodeCallsAt(C) = T
      <3>1. ASSUME NEW i \in NodeCallsAt(C) PROVE i \in T
        BY <1>1, <1>2, <1>7, <3>1 DEF NodeCallsAt
      <3>2. T \subseteq NodeCallsAt(C)
        BY <1>1, <1>2 DEF NodeCallsAt
      <3> QED
        BY <3>1, <3>2
    <2> QED
      BY <1>2, <1>3, <1>4, <1>7, <2>1 DEF NodeCalls
  <1> QED
    BY <1>6, <1>7

-----------------------------------------------------------------------------
(* What the parts of the graph are made of: rows and places bear the       *)
(* number of an act or of a run, and what names a node names one of T.     *)
KindNames == {"repo", "vault", "agent", "test"}
Marks == 0 .. MaxActs
EdgesOver(T) == [session : FlowSessions, source : DOMAIN T, target : DOMAIN T]

RowsFit(T) == \A n \in DOMAIN T : T[n] \in Rows
GraphFits(T, g) ==
  g.session \in FlowSessions /\ \A n \in DOMAIN g.nodes : n \in DOMAIN T /\ g.nodes[n] \in Rows
PlacesFit(cv) == \A n \in DOMAIN cv : cv[n] \in Marks
RunsFit(R, x) == Len(R) <= x /\ \A r \in DOMAIN R : R[r].prompt \in Marks

CallFits(T, c) ==
  /\ c.op \in {"get", "node", "edge"} => c.session \in FlowSessions
  /\ c.op = "node" => c.kind \in KindNames
  /\ c.op = "edge" => c.source \in DOMAIN T /\ c.target \in DOMAIN T
  /\ c.op = "save" => c.prompt \in Marks /\ c.last \in Marks
  /\ c.op = "layout" => PlacesFit(c.places)
AnswerFits(T, a) ==
  /\ a.op = "graph" => GraphFits(T, a.graph)
  /\ a.op = "created" => a.session \in FlowSessions
CallsFit(T, C)   == \A i \in DOMAIN C : CallFits(T, C[i])
AnswersFit(T, A) == \A j \in DOMAIN A : AnswerFits(T, A[j])

(* The tables, and what the renderer makes of them.                        *)
TablesFit(T, D, C, A) == RowsFit(T) /\ D \subseteq EdgesOver(T) /\ CallsFit(T, C) /\ AnswersFit(T, A)
ScreenFits(T, R, S, cv, pd, x) ==
  RunsFit(R, x) /\ x \in Marks /\ GraphFits(T, S) /\ PlacesFit(cv) /\ PlacesFit(pd)

LEMMA CallsFitJoined ==
  ASSUME NEW T, NEW C, NEW B, NEW c, CallsFit(T, C), Joins(C, B, c), CallFits(T, c)
  PROVE  CallsFit(T, B)
  <1>1. PICK z \in DOMAIN B : B[z] = c /\ \A i \in DOMAIN B : i \in DOMAIN C \/ i = z
    BY JoinedIs
  <1>2. \A i \in DOMAIN C : B[i] = C[i]
    BY JoinedIs
  <1> QED
    BY <1>1, <1>2 DEF CallsFit

LEMMA AnswersFitJoined ==
  ASSUME NEW T, NEW A, NEW Z, NEW a, AnswersFit(T, A), Joins(A, Z, a), AnswerFits(T, a)
  PROVE  AnswersFit(T, Z)
  <1>1. PICK z \in DOMAIN Z : Z[z] = a /\ \A i \in DOMAIN Z : i \in DOMAIN A \/ i = z
    BY JoinedIs
  <1>2. \A i \in DOMAIN A : Z[i] = A[i]
    BY JoinedIs
  <1> QED
    BY <1>1, <1>2 DEF AnswersFit

LEMMA CallsFitLeft ==
  ASSUME NEW T, NEW C, NEW B, NEW c, CallsFit(T, C), Leaves(C, B, c)
  PROVE  CallsFit(T, B) /\ CallFits(T, c)
  <1>1. /\ 1 \in DOMAIN C /\ C[1] = c
        /\ \A i \in DOMAIN B : i + 1 \in DOMAIN C /\ B[i] = C[i + 1]
    BY LeftIs
  <1> QED
    BY <1>1 DEF CallsFit

LEMMA AnswersFitLeft ==
  ASSUME NEW T, NEW A, NEW Z, NEW a, AnswersFit(T, A), Leaves(A, Z, a)
  PROVE  AnswersFit(T, Z) /\ AnswerFits(T, a)
  <1>1. /\ 1 \in DOMAIN A /\ A[1] = a
        /\ \A i \in DOMAIN Z : i + 1 \in DOMAIN A /\ Z[i] = A[i + 1]
    BY LeftIs
  <1> QED
    BY <1>1 DEF AnswersFit

(* A table with more nodes fits what a smaller one did.                    *)
LEMMA FitsMore ==
  ASSUME NEW T, NEW U, DOMAIN T \subseteq DOMAIN U
  PROVE  /\ \A c : CallFits(T, c) => CallFits(U, c)
         /\ \A g : GraphFits(T, g) => GraphFits(U, g)
         /\ \A a : AnswerFits(T, a) => AnswerFits(U, a)
         /\ \A C : CallsFit(T, C) => CallsFit(U, C)
         /\ \A A : AnswersFit(T, A) => AnswersFit(U, A)
         /\ EdgesOver(T) \subseteq EdgesOver(U)
  <1>1. \A c : CallFits(T, c) => CallFits(U, c)
    BY DEF CallFits
  <1>2. \A g : GraphFits(T, g) => GraphFits(U, g)
    BY DEF GraphFits
  <1>3. \A a : AnswerFits(T, a) => AnswerFits(U, a)
    BY <1>2 DEF AnswerFits
  <1>4. \A C : CallsFit(T, C) => CallsFit(U, C)
    BY <1>1 DEF CallsFit
  <1>5. \A A : AnswersFit(T, A) => AnswersFit(U, A)
    BY <1>3 DEF AnswersFit
  <1>6. EdgesOver(T) \subseteq EdgesOver(U)
    BY DEF EdgesOver
  <1> QED
    BY <1>1, <1>2, <1>3, <1>4, <1>5, <1>6

(* A call c is handled and answered by a: the table becomes U, the edges F.*)
LEMMA FitsHandled ==
  ASSUME NEW T, NEW D, NEW C, NEW A, NEW B, NEW Z, NEW c, NEW a, NEW U, NEW F,
         TablesFit(T, D, C, A), Leaves(C, B, c), Joins(A, Z, a), DOMAIN T \subseteq DOMAIN U,
         RowsFit(U), F \subseteq EdgesOver(U), AnswerFits(U, a)
  PROVE  TablesFit(U, F, B, Z)
  <1>1. CallsFit(U, C) /\ AnswersFit(U, A)
    BY FitsMore DEF TablesFit
  <1>2. CallsFit(U, B)
    BY <1>1, CallsFitLeft
  <1>3. AnswersFit(U, Z)
    BY <1>1, AnswersFitJoined
  <1> QED
    BY <1>2, <1>3 DEF TablesFit

LEMMA SameInterval ==
  ASSUME NEW j \in Nat, NEW k \in Nat, 1 .. j = 1 .. k
  PROVE  j = k
  <1>1. j > k => FALSE
    <2>1. j > k => j \in 1 .. j
      OBVIOUS
    <2> QED
      BY <2>1
  <1>2. k > j => FALSE
    <2>1. k > j => k \in 1 .. k
      OBVIOUS
    <2> QED
      BY <2>1
  <1> QED
    BY <1>1, <1>2

(* What each call makes of the rows.                                       *)
LEMMA NewRowFits ==
  ASSUME NEW T, RowsFit(T), NEW s \in FlowSessions, NEW k \in KindNames, NEW U, Joins(T, U, NewRow(s, k))
  PROVE  RowsFit(U)
  <1>1. PICK z \in DOMAIN U : U[z] = NewRow(s, k) /\ \A i \in DOMAIN U : i \in DOMAIN T \/ i = z
    BY JoinedIs
  <1>2. \A i \in DOMAIN T : U[i] = T[i]
    BY JoinedIs
  <1>3. NewRow(s, k) \in Rows
    BY FlowBounds DEF NewRow, Rows, KindNames
  <1> QED
    BY <1>1, <1>2, <1>3 DEF RowsFit

LEMMA SameRowsFit ==
  ASSUME NEW T, RowsFit(T), NEW c, CallFits(T, c), NEW U, SameRows(T, U, c)
  PROVE  RowsFit(U) /\ DOMAIN U = DOMAIN T
  <1>1. DOMAIN U = DOMAIN T
    BY DEF SameRows
  <1>2. ASSUME NEW n \in DOMAIN T
        PROVE  U[n] \in Rows
    <2>1. T[n] \in Rows
      BY DEF RowsFit
    <2>2. IsRow(U[n]) /\ U[n].session \in FlowSessions /\ U[n].kind \in KindNames
      BY <2>1 DEF SameRows, Rows, KindNames
    <2>3. U[n].prompt \in Marks /\ U[n].last \in Marks
      <3>1. CASE Saves(c, n)
        <4>1. c.prompt \in Marks /\ c.last \in Marks
          BY <3>1 DEF CallFits, Saves
        <4> QED
          BY <3>1, <4>1 DEF SameRows
      <3>2. CASE ~Saves(c, n)
        <4>1. U[n].prompt = T[n].prompt /\ U[n].last = T[n].last
          BY <3>2 DEF SameRows
        <4> QED
          BY <2>1, <4>1 DEF Rows, Marks
      <3> QED
        BY <3>1, <3>2
    <2>4. U[n].at \in Marks
      <3>1. CASE c.op = "layout" /\ n \in DOMAIN c.places
        <4>1. c.places[n] \in Marks
          BY <3>1 DEF CallFits, PlacesFit
        <4> QED
          BY <3>1, <4>1 DEF SameRows
      <3>2. CASE ~(c.op = "layout" /\ n \in DOMAIN c.places)
        <4>1. U[n].at = T[n].at
          BY <3>2 DEF SameRows
        <4> QED
          BY <2>1, <4>1 DEF Rows, Marks
      <3> QED
        BY <3>1, <3>2
    <2> QED
      BY <2>2, <2>3, <2>4 DEF IsRow, Rows, KindNames, Marks
  <1> QED
    BY <1>1, <1>2 DEF RowsFit

(* A graph that is loaded.                                                 *)
LEMMA LoadedFits ==
  ASSUME NEW T, RowsFit(T), NEW s \in FlowSessions, NEW g, g.session = s,
         g.nodes = [n \in NodesIn(T, s) |-> T[n]]
  PROVE  GraphFits(T, g)
  BY DEF RowsFit, GraphFits, NodesIn

(* The number of calls and nodes to come does not change when one is       *)
(* handled.                                                                *)
LEMMA RoomHandled ==
  ASSUME NEW T, IsList(T), NEW C, NEW B, NEW c, Leaves(C, B, c), NEW U,
         \/ c.op = "node" /\ \E x : Joins(T, U, x)
         \/ c.op # "node" /\ IsList(U) /\ DOMAIN U = DOMAIN T
  PROVE  Len(U) + NodeCalls(B) = Len(T) + NodeCalls(C)
  <1>1. /\ NodeCalls(B) \in Nat /\ Len(T) \in Nat /\ DOMAIN T = 1 .. Len(T)
        /\ NodeCalls(C) = IF c.op = "node" THEN NodeCalls(B) + 1 ELSE NodeCalls(B)
    BY NodeCallsLeave, ListDomain
  <1>2. CASE c.op = "node"
    <2>1. PICK x : Joins(T, U, x)
      BY <1>2
    <2>2. Len(U) = Len(T) + 1
      <3>1. PICK k \in Nat : DOMAIN T = 1 .. k /\ DOMAIN U = 1 .. k + 1 /\ IsList(U)
        BY <2>1 DEF Joins
      <3>2. DOMAIN U = 1 .. Len(U) /\ Len(U) \in Nat
        BY <3>1, ListDomain
      <3>3. k = Len(T)
        BY <1>1, <3>1, SameInterval
      <3>4. PICK j \in Nat : j = k + 1 /\ DOMAIN U = 1 .. j
        BY <3>1
      <3>5. j = Len(U)
        BY <3>2, <3>4, SameInterval
      <3> QED
        BY <3>3, <3>4, <3>5
    <2> QED
      BY <1>1, <1>2, <2>2
  <1>3. CASE c.op # "node"
    <2>1. Len(U) = Len(T)
      <3>1. DOMAIN U = 1 .. Len(U) /\ Len(U) \in Nat
        BY <1>3, ListDomain
      <3> QED
        BY <1>1, <1>3, <3>1, SameInterval
    <2> QED
      BY <1>1, <1>3, <2>1
  <1> QED
    BY <1>2, <1>3

-----------------------------------------------------------------------------
(* The bootstrap has one message under way at most.  It creates a node or  *)
(* an edge, with room for the nodes still missing, or it waits for the     *)
(* graph after a creation; k counts the nodes there are and those asked    *)
(* for.  What it has found so far are nodes, up to the step it is at.      *)
IsBoot(m) == m.after.who = "boot"
BootRests(C, A) == (\A i \in DOMAIN C : ~IsBoot(C[i])) /\ (\A j \in DOMAIN A : ~IsBoot(A[j]))
OneBoot(C, A) ==
  /\ \A i, j \in DOMAIN C : IsBoot(C[i]) /\ IsBoot(C[j]) => i = j
  /\ \A i, j \in DOMAIN A : IsBoot(A[i]) /\ IsBoot(A[j]) => i = j
  /\ \A i \in DOMAIN C, j \in DOMAIN A : ~(IsBoot(C[i]) /\ IsBoot(A[j]))

FoundIn(T, b) ==
  /\ b = [step |-> b.step, session |-> b.session, found |-> b.found, wired |-> b.wired]
  /\ b.step \in 0 .. 9 /\ b.session \in FlowSessions
  /\ b.found \in [KindNames -> {0} \cup DOMAIN T]
  /\ \A j \in 1 .. 4 : j < b.step => b.found[Kinds[j]] # 0

Creates(T, b, k, m) ==
  /\ m.op \in {"node", "edge", "created"} /\ b.step \in 1 .. 8
  /\ b.step <= 4 => k + 4 <= MaxNodes + b.step
  /\ m.op = "node" => b.step <= 4
  /\ m.op = "edge" => 4 < b.step
  /\ m.op = "created" /\ b.step <= 4 => m.id \in DOMAIN T
Reloads(b, k, m) ==
  /\ m.op \in {"get", "graph"} /\ b.step \in 2 .. 9
  /\ b.step <= 4 => k + 5 <= MaxNodes + b.step
BootMessage(T, b, k, m) == Creates(T, b, k, m) \/ Reloads(b, k, m)

BootInv(T, b, k, C, A) ==
  /\ FoundIn(T, b) /\ k \in Nat /\ k <= MaxNodes
  /\ OneBoot(C, A) /\ (b.step = 0 => BootRests(C, A))
  /\ \A i \in DOMAIN C : IsBoot(C[i]) => BootMessage(T, b, k, C[i])
  /\ \A j \in DOMAIN A : IsBoot(A[j]) => BootMessage(T, b, k, A[j])

(* Somebody else asks for something.                                       *)
LEMMA BootAsked ==
  ASSUME NEW T, NEW b, NEW k, NEW C, NEW A, BootInv(T, b, k, C, A),
         NEW B, NEW c, Joins(C, B, c), ~IsBoot(c), NEW h \in {k, k + 1},
         h # k => k + 1 <= MaxNodes /\ (b.step # 0 => k + 5 <= MaxNodes)
  PROVE  BootInv(T, b, h, B, A)
  <1>1. PICK z \in DOMAIN B : B[z] = c /\ \A i \in DOMAIN B : i \in DOMAIN C \/ i = z
    BY JoinedIs
  <1>2. \A i \in DOMAIN C : B[i] = C[i]
    BY JoinedIs
  <1>3. \A i \in DOMAIN B : IsBoot(B[i]) => i \in DOMAIN C /\ IsBoot(C[i]) /\ B[i] = C[i]
    BY <1>1, <1>2
  <1>4. h \in Nat /\ h <= MaxNodes
    BY FlowBounds DEF BootInv
  <1>5. OneBoot(B, A) /\ (b.step = 0 => BootRests(B, A))
    BY <1>3 DEF BootInv, OneBoot, BootRests
  <1>6. ASSUME NEW m, BootMessage(T, b, k, m)
        PROVE  BootMessage(T, b, h, m)
    <2>1. k \in Nat /\ MaxNodes \in Nat
      BY FlowBounds DEF BootInv
    <2>2. CASE h = k
      BY <1>6, <2>2
    <2>3. CASE h # k
      <3>1. h = k + 1
        BY <2>3
      <3>2. CASE Creates(T, b, k, m)
        <4>1. b.step \in 1 .. 8 /\ k + 5 <= MaxNodes
          BY <2>3, <3>2 DEF Creates
        <4>2. h + 4 <= MaxNodes + b.step
          BY <2>1, <3>1, <4>1
        <4> QED
          BY <3>2, <4>2 DEF Creates, BootMessage
      <3>3. CASE Reloads(b, k, m)
        <4>1. b.step \in 2 .. 9 /\ k + 5 <= MaxNodes
          BY <2>3, <3>3 DEF Reloads
        <4>2. h + 5 <= MaxNodes + b.step
          BY <2>1, <3>1, <4>1
        <4> QED
          BY <3>3, <4>2 DEF Reloads, BootMessage
      <3> QED
        BY <1>6, <3>2, <3>3 DEF BootMessage
    <2> QED
      BY <2>2, <2>3
  <1>7. \A i \in DOMAIN B : IsBoot(B[i]) => BootMessage(T, b, h, B[i])
    BY <1>3, <1>6 DEF BootInv
  <1>8. \A j \in DOMAIN A : IsBoot(A[j]) => BootMessage(T, b, h, A[j])
    BY <1>6 DEF BootInv
  <1> QED
    BY <1>4, <1>5, <1>7, <1>8 DEF BootInv

(* A call is handled: if it was the bootstrap's, so is its answer.         *)
LEMMA BootHandled ==
  ASSUME NEW T, NEW b, NEW k, NEW C, NEW A, BootInv(T, b, k, C, A),
         NEW B, NEW Z, NEW c, NEW a, Leaves(C, B, c), Joins(A, Z, a), a.after = c.after,
         NEW U, DOMAIN T \subseteq DOMAIN U,
         IsBoot(c) => \/ c.op = "get" /\ a.op = "graph"
                      \/ c.op = "node" /\ a.op = "created" /\ a.id \in DOMAIN U
                      \/ c.op = "edge" /\ a.op = "created"
  PROVE  BootInv(U, b, k, B, Z)
  <1>1. /\ 1 \in DOMAIN C /\ C[1] = c
        /\ \A i \in DOMAIN B : i \in Nat /\ 0 < i /\ i + 1 \in DOMAIN C /\ B[i] = C[i + 1]
    BY LeftIs
  <1>2. PICK z \in DOMAIN Z : /\ Z[z] = a /\ z \notin DOMAIN A
                              /\ \A j \in DOMAIN Z : j \in DOMAIN A \/ j = z
    BY JoinedIs
  <1>3. \A j \in DOMAIN A : Z[j] = A[j]
    BY JoinedIs
  <1>4. IsBoot(a) <=> IsBoot(c)
    BY DEF IsBoot
  <1>5. IsBoot(c) => BootRests(B, A)
    <2>1. ASSUME IsBoot(c), NEW i \in DOMAIN B
          PROVE  ~IsBoot(B[i])
      <3>1. i + 1 \in DOMAIN C /\ i + 1 # 1 /\ B[i] = C[i + 1]
        BY <1>1
      <3> QED
        BY <1>1, <2>1, <3>1 DEF BootInv, OneBoot
    <2>2. IsBoot(c) => \A j \in DOMAIN A : ~IsBoot(A[j])
      BY <1>1 DEF BootInv, OneBoot
    <2> QED
      BY <2>1, <2>2 DEF BootRests
  <1>6. \A i, j \in DOMAIN B : IsBoot(B[i]) /\ IsBoot(B[j]) => i = j
    <2>1. SUFFICES ASSUME NEW i \in DOMAIN B, NEW j \in DOMAIN B, IsBoot(B[i]), IsBoot(B[j])
                   PROVE  i = j
      OBVIOUS
    <2>2. /\ i + 1 \in DOMAIN C /\ j + 1 \in DOMAIN C /\ IsBoot(C[i + 1]) /\ IsBoot(C[j + 1])
          /\ i \in Nat /\ j \in Nat
      BY <1>1, <2>1
    <2>3. i + 1 = j + 1
      BY <2>2 DEF BootInv, OneBoot
    <2> QED
      BY <2>2, <2>3
  <1>7. \A i \in DOMAIN B : IsBoot(B[i]) => ~IsBoot(c)
    BY <1>5 DEF BootRests
  <1>8. \A i, j \in DOMAIN Z : IsBoot(Z[i]) /\ IsBoot(Z[j]) => i = j
    BY <1>2, <1>3, <1>4, <1>5 DEF BootInv, OneBoot, BootRests
  <1>9. \A i \in DOMAIN B, j \in DOMAIN Z : ~(IsBoot(B[i]) /\ IsBoot(Z[j]))
    <2>1. \A i \in DOMAIN B, j \in DOMAIN A : ~(IsBoot(B[i]) /\ IsBoot(A[j]))
      BY <1>1 DEF BootInv, OneBoot
    <2> QED
      BY <1>2, <1>3, <1>4, <1>7, <2>1
  <1>10. b.step = 0 => BootRests(B, Z)
    <2>1. b.step = 0 => ~IsBoot(c) /\ BootRests(B, A)
      BY <1>1 DEF BootInv, BootRests
    <2> QED
      BY <1>2, <1>3, <1>4, <2>1 DEF BootRests
  <1>11. \A m : BootMessage(T, b, k, m) => BootMessage(U, b, k, m)
    BY DEF BootMessage, Creates
  <1>12. \A i \in DOMAIN B : IsBoot(B[i]) => BootMessage(U, b, k, B[i])
    BY <1>1, <1>11 DEF BootInv
  <1>13. IsBoot(a) => BootMessage(U, b, k, a)
    <2>1. SUFFICES ASSUME IsBoot(a) PROVE BootMessage(U, b, k, a)
      OBVIOUS
    <2>2. BootMessage(T, b, k, c)
      BY <1>1, <1>4, <2>1 DEF BootInv
    <2>3. CASE c.op = "get" /\ a.op = "graph"
      BY <2>2, <2>3 DEF BootMessage, Creates, Reloads
    <2>4. CASE c.op \in {"node", "edge"} /\ a.op = "created" /\ (c.op = "node" => a.id \in DOMAIN U)
      <3>1. Creates(T, b, k, c)
        BY <2>2, <2>4 DEF BootMessage, Reloads
      <3>2. b.step <= 4 => c.op = "node"
        BY <2>4, <3>1 DEF Creates
      <3> QED
        BY <2>4, <3>1, <3>2 DEF BootMessage, Creates
    <2> QED
      BY <1>4, <2>1, <2>3, <2>4
  <1>14. \A j \in DOMAIN Z : IsBoot(Z[j]) => BootMessage(U, b, k, Z[j])
    BY <1>2, <1>3, <1>11, <1>13 DEF BootInv
  <1>15. FoundIn(U, b)
    BY DEF BootInv, FoundIn
  <1> QED
    BY <1>6, <1>8, <1>9, <1>10, <1>12, <1>14, <1>15 DEF BootInv, OneBoot

(* An answer is taken: if it was the bootstrap's, nothing is under way.    *)
LEMMA BootAnswered ==
  ASSUME NEW T, NEW b, NEW k, NEW C, NEW A, BootInv(T, b, k, C, A), NEW Z, NEW a, Leaves(A, Z, a)
  PROVE  /\ BootInv(T, b, k, C, Z)
         /\ IsBoot(a) => BootRests(C, Z) /\ BootMessage(T, b, k, a)
  <1>1. /\ 1 \in DOMAIN A /\ A[1] = a
        /\ \A i \in DOMAIN Z : i \in Nat /\ 0 < i /\ i + 1 \in DOMAIN A /\ Z[i] = A[i + 1]
    BY LeftIs
  <1>2. IsBoot(a) => BootRests(C, Z)
    <2>1. ASSUME IsBoot(a), NEW i \in DOMAIN Z
          PROVE  ~IsBoot(Z[i])
      <3>1. i + 1 \in DOMAIN A /\ i + 1 # 1 /\ Z[i] = A[i + 1]
        BY <1>1
      <3> QED
        BY <1>1, <2>1, <3>1 DEF BootInv, OneBoot
    <2>2. IsBoot(a) => \A i \in DOMAIN C : ~IsBoot(C[i])
      BY <1>1 DEF BootInv, OneBoot
    <2> QED
      BY <2>1, <2>2 DEF BootRests
  <1>3. \A i, j \in DOMAIN Z : IsBoot(Z[i]) /\ IsBoot(Z[j]) => i = j
    <2>1. SUFFICES ASSUME NEW i \in DOMAIN Z, NEW j \in DOMAIN Z, IsBoot(Z[i]), IsBoot(Z[j])
                   PROVE  i = j
      OBVIOUS
    <2>2. /\ i + 1 \in DOMAIN A /\ j + 1 \in DOMAIN A /\ IsBoot(A[i + 1]) /\ IsBoot(A[j + 1])
          /\ i \in Nat /\ j \in Nat
      BY <1>1, <2>1
    <2>3. i + 1 = j + 1
      BY <2>2 DEF BootInv, OneBoot
    <2> QED
      BY <2>2, <2>3
  <1>4. \A i \in DOMAIN C, j \in DOMAIN Z : ~(IsBoot(C[i]) /\ IsBoot(Z[j]))
    BY <1>1 DEF BootInv, OneBoot
  <1>5. /\ \A j \in DOMAIN Z : IsBoot(Z[j]) => BootMessage(T, b, k, Z[j])
        /\ b.step = 0 => BootRests(C, Z)
    BY <1>1 DEF BootInv, BootRests
  <1>6. OneBoot(C, Z)
    BY <1>3, <1>4 DEF BootInv, OneBoot
  <1> QED
    BY <1>1, <1>2, <1>5, <1>6 DEF BootInv

(* Where the bootstrap goes on.                                            *)
GoesOn(b, C, B, bb) ==
  LET next == [b EXCEPT !.step = NextStep(b)]
  IN IF next.step = 9 THEN bb = NoBoot /\ B = C
     ELSE bb = next /\ B = Append(C, BootCall(next))

LEMMA KindsAre ==
  /\ \A j \in 1 .. 4 : Kinds[j] \in KindNames
  /\ \A k \in KindNames : \E j \in 1 .. 4 : Kinds[j] = k
  <1>1. Kinds[1] = "repo" /\ Kinds[2] = "vault" /\ Kinds[3] = "agent" /\ Kinds[4] = "test"
    BY DEF Kinds
  <1>2. 1 .. 4 = {1, 2, 3, 4}
    OBVIOUS
  <1> QED
    BY <1>1, <1>2 DEF KindNames

LEMMA NextIs ==
  ASSUME NEW T, NEW b, FoundIn(T, b), b.step \in 1 .. 9
  PROVE  /\ NextStep(b) \in 1 .. 9 /\ b.step <= NextStep(b)
         /\ \A j \in 1 .. 4 : j < NextStep(b) => b.found[Kinds[j]] # 0
  <1>1. PICK open : open = {i \in b.step .. 8 : ~Given(i, b)}
    OBVIOUS
  <1>2. ASSUME NEW s \in b.step .. 9, \A i \in b.step .. 8 : i < s => Given(i, b), NEW j \in 1 .. 4, j < s
        PROVE  b.found[Kinds[j]] # 0
    <2>1. CASE j < b.step
      BY <2>1 DEF FoundIn
    <2>2. CASE ~(j < b.step)
      <3>1. j \in b.step .. 8
        BY <2>2
      <3>2. Given(j, b)
        BY <1>2, <3>1
      <3>3. j <= 4
        OBVIOUS
      <3> QED
        BY <3>2, <3>3 DEF Given
    <2> QED
      BY <2>1, <2>2
  <1>3. CASE open = {}
    <2>1. NextStep(b) = 9
      BY <1>1, <1>3 DEF NextStep
    <2>2. \A i \in b.step .. 8 : Given(i, b)
      BY <1>1, <1>3
    <2>3. 9 \in b.step .. 9 /\ 9 \in 1 .. 9 /\ b.step <= 9
      OBVIOUS
    <2> QED
      BY <1>2, <2>1, <2>2, <2>3
  <1>4. CASE open # {}
    <2>1. open \in SUBSET Nat
      BY <1>1
    <2>2. \E i \in open : \A j \in open : i <= j
      BY <1>4, <2>1, FirstOf
    <2>3. NextStep(b) = CHOOSE i \in open : \A j \in open : i <= j
      BY <1>1, <1>4 DEF NextStep
    <2>4. PICK s : s = NextStep(b) /\ s \in open /\ \A j \in open : s <= j
      BY <2>2, <2>3
    <2>5. s \in b.step .. 9 /\ s \in 1 .. 9 /\ b.step <= s
      BY <1>1, <2>4
    <2>6. ASSUME NEW i \in b.step .. 8, i < s
          PROVE  Given(i, b)
      <3>1. ~(s <= i)
        BY <2>5, <2>6
      <3> QED
        BY <1>1, <2>4, <3>1
    <2> QED
      BY <1>2, <2>4, <2>5, <2>6
  <1> QED
    BY <1>3, <1>4

LEMMA BootCallIs ==
  ASSUME NEW T, NEW b, FoundIn(T, b), b.step \in 1 .. 8
  PROVE  /\ CallFits(T, BootCall(b)) /\ IsBoot(BootCall(b))
         /\ BootCall(b).op = IF b.step <= 4 THEN "node" ELSE "edge"
  <1>1. CASE b.step <= 4
    <2>1. PICK c : c = BootCall(b) /\ c = NewNode(b.session, Kinds[b.step], Boot)
      BY <1>1 DEF BootCall
    <2>2. c.op = "node" /\ c.session = b.session /\ c.kind = Kinds[b.step] /\ c.after = Boot
      BY <2>1 DEF NewNode
    <2>3. Kinds[b.step] \in KindNames
      BY <1>1, KindsAre
    <2>4. CallFits(T, c)
      BY <2>2, <2>3 DEF CallFits, FoundIn
    <2>5. IsBoot(c)
      BY <2>2, WhoIs DEF IsBoot
    <2> QED
      BY <1>1, <2>1, <2>2, <2>4, <2>5
  <1>2. CASE ~(b.step <= 4)
    <2>1. PICK x, y : x = Wires[b.step - 4][1] /\ y = Wires[b.step - 4][2]
      OBVIOUS
    <2>2. x \in KindNames /\ y \in KindNames
      <3>1. b.step \in {5, 6, 7, 8}
        BY <1>2
      <3>2. /\ Wires[1] = <<"repo", "agent">> /\ Wires[2] = <<"vault", "agent">>
            /\ Wires[3] = <<"repo", "test">> /\ Wires[4] = <<"test", "agent">>
        BY DEF Wires
      <3>3. PICK i \in {1, 2, 3, 4} : i = b.step - 4
        BY <3>1
      <3>4. x = Wires[i][1] /\ y = Wires[i][2]
        BY <2>1, <3>3
      <3> QED
        BY <3>2, <3>3, <3>4 DEF KindNames
    <2>3. PICK c : c = BootCall(b) /\ c = NewEdge(b.session, b.found[x], b.found[y], Boot)
      BY <1>2, <2>1 DEF BootCall
    <2>4. /\ c.op = "edge" /\ c.session = b.session /\ c.source = b.found[x] /\ c.target = b.found[y]
          /\ c.after = Boot
      BY <2>3 DEF NewEdge
    <2>5. ASSUME NEW k \in KindNames
          PROVE  b.found[k] \in DOMAIN T
      <3>1. PICK j \in 1 .. 4 : Kinds[j] = k
        BY KindsAre
      <3>2. b.found[k] # 0
        BY <1>2, <3>1 DEF FoundIn
      <3> QED
        BY <3>2 DEF FoundIn
    <2>6. CallFits(T, c)
      BY <2>2, <2>4, <2>5 DEF CallFits, FoundIn
    <2>7. IsBoot(c)
      BY <2>4, WhoIs DEF IsBoot
    <2> QED
      BY <1>2, <2>3, <2>4, <2>6, <2>7
  <1> QED
    BY <1>1, <1>2

(* The bootstrap, with nothing under way, asks for something.              *)
LEMMA BootAsks ==
  ASSUME NEW T, NEW b, FoundIn(T, b), b.step # 0, NEW k \in Nat, k <= MaxNodes,
         NEW C, NEW A, BootRests(C, A), NEW B, NEW c, Joins(C, B, c), BootMessage(T, b, k, c)
  PROVE  BootInv(T, b, k, B, A)
  <1>1. PICK z \in DOMAIN B : B[z] = c /\ \A i \in DOMAIN B : i \in DOMAIN C \/ i = z
    BY JoinedIs
  <1>2. \A i \in DOMAIN C : B[i] = C[i]
    BY JoinedIs
  <1>3. \A i \in DOMAIN B : IsBoot(B[i]) => i = z
    BY <1>1, <1>2 DEF BootRests
  <1>4. OneBoot(B, A)
    BY <1>3 DEF OneBoot, BootRests
  <1>5. \A i \in DOMAIN B : IsBoot(B[i]) => BootMessage(T, b, k, B[i])
    BY <1>1, <1>3
  <1> QED
    BY <1>4, <1>5 DEF BootInv, BootRests

LEMMA NoBootIs == \A T : FoundIn(T, NoBoot) /\ NoBoot.step = 0
  <1>1. PICK s \in FlowSessions : s = CHOOSE t \in FlowSessions : TRUE
    BY FlowBounds
  <1>2. PICK f : f = [k \in KindNames |-> 0]
    OBVIOUS
  <1>3. NoBoot = [step |-> 0, session |-> s, found |-> f, wired |-> {}]
    BY <1>1, <1>2 DEF NoBoot, KindNames
  <1> QED
    BY <1>2, <1>3 DEF FoundIn

LEMMA BootContinues ==
  ASSUME NEW T, NEW b, FoundIn(T, b), b.step \in 1 .. 9, NEW k \in Nat, k <= MaxNodes,
         b.step <= 4 => k + 5 <= MaxNodes + b.step,
         NEW C, IsList(C), NEW A, BootRests(C, A), NEW B, NEW bb, GoesOn(b, C, B, bb)
  PROVE  /\ \E h \in Nat : BootInv(T, bb, h, B, A) /\ h + NodeCalls(C) = k + NodeCalls(B)
         /\ CallsFit(T, C) => CallsFit(T, B)
  <1>1. PICK next : next = [b EXCEPT !.step = NextStep(b)]
    OBVIOUS
  <1>2. /\ NextStep(b) \in 1 .. 9 /\ b.step <= NextStep(b)
        /\ \A j \in 1 .. 4 : j < NextStep(b) => b.found[Kinds[j]] # 0
    BY NextIs
  <1>3. FoundIn(T, next) /\ next.step = NextStep(b)
    BY <1>1, <1>2 DEF FoundIn
  <1>4. MaxNodes \in Nat /\ NodeCalls(C) \in Nat
    BY FlowBounds, NodeCallsAreFinite
  <1>5. CASE next.step = 9
    <2>1. bb = NoBoot /\ B = C
      BY <1>1, <1>5 DEF GoesOn
    <2>2. BootInv(T, bb, k, B, A)
      BY <2>1, NoBootIs DEF BootInv, BootRests, OneBoot
    <2> QED
      BY <2>1, <2>2
  <1>6. CASE next.step # 9
    <2>1. PICK c : c = BootCall(next) /\ bb = next /\ B = Append(C, c)
      BY <1>1, <1>6 DEF GoesOn
    <2>2. Joins(C, B, c)
      BY <2>1, ListJoins
    <2>3. next.step \in 1 .. 8
      BY <1>2, <1>3, <1>6
    <2>4. CallFits(T, c) /\ IsBoot(c) /\ c.op = IF next.step <= 4 THEN "node" ELSE "edge"
      BY <1>3, <2>1, <2>3, BootCallIs
    <2>5. CallsFit(T, C) => CallsFit(T, B)
      BY <2>2, <2>4, CallsFitJoined
    <2>6. NodeCalls(B) = IF c.op = "node" THEN NodeCalls(C) + 1 ELSE NodeCalls(C)
      BY <2>2, NodeCallsJoin
    <2>7. CASE next.step <= 4
      <3>1. c.op = "node" /\ k + 5 <= MaxNodes + next.step
        BY <1>2, <1>3, <1>4, <2>3, <2>4, <2>7
      <3>2. PICK h \in Nat : h = k + 1
        OBVIOUS
      <3>3. h <= MaxNodes /\ h + 4 <= MaxNodes + next.step
        BY <1>4, <2>3, <2>7, <3>1, <3>2
      <3>4. BootMessage(T, next, h, c)
        BY <2>3, <2>7, <3>1, <3>3 DEF BootMessage, Creates
      <3>5. BootInv(T, bb, h, B, A)
        BY <1>3, <2>1, <2>2, <2>3, <3>3, <3>4, BootAsks
      <3>6. h + NodeCalls(C) = k + NodeCalls(B)
        BY <1>4, <2>6, <3>1, <3>2
      <3> QED
        BY <2>5, <3>5, <3>6
    <2>8. CASE ~(next.step <= 4)
      <3>1. c.op = "edge" /\ 4 < next.step
        BY <2>3, <2>4, <2>8
      <3>2. BootMessage(T, next, k, c)
        BY <2>3, <2>8, <3>1 DEF BootMessage, Creates
      <3>3. BootInv(T, bb, k, B, A)
        BY <1>3, <2>1, <2>2, <2>3, <3>2, BootAsks
      <3>4. k + NodeCalls(C) = k + NodeCalls(B)
        BY <2>6, <3>1
      <3> QED
        BY <2>5, <3>3, <3>4
    <2> QED
      BY <2>7, <2>8
  <1> QED
    BY <1>5, <1>6

-----------------------------------------------------------------------------
(* The types of the flow graph, as an invariant.                           *)
FlowFits ==
  /\ TablesFit(rows, edges, graphCalls, graphAnswers)
  /\ ScreenFits(rows, runs, shown, canvas, pending, acts)
  /\ selected \in FlowSessions /\ disturbed \in BOOLEAN /\ clashed \subseteq DOMAIN rows
BootKept == BootInv(rows, boot, Len(rows) + NodeCalls(graphCalls), graphCalls, graphAnswers)
FlowTyped == FlowInv /\ FlowFits /\ BootKept

LEMMA MarksAre == Marks \subseteq Nat /\ 0 \in Marks /\ \A x \in Marks : 0 .. x \subseteq Marks
  BY FlowBounds DEF Marks

LEMMA UserActsCount ==
  ASSUME FlowFits, UserActs
  PROVE  acts' = acts + 1 /\ acts' \in Marks /\ RunsFit(runs, acts) /\ acts \in Nat
         /\ Len(runs) <= acts
  <1>1. acts \in Marks /\ RunsFit(runs, acts)
    BY DEF FlowFits, ScreenFits
  <1> QED
    BY <1>1, FlowBounds DEF UserActs, RunsFit, Marks

LEMMA RunsFitLater ==
  ASSUME NEW R, IsList(R), NEW x \in Nat, RunsFit(R, x)
  PROVE  RunsFit(R, x + 1)
  <1>1. Len(R) \in Nat
    BY ListDomain
  <1> QED
    BY <1>1 DEF RunsFit

(* Something happens on the screen, and nothing is asked.                  *)
LEMMA TypedScreen ==
  ASSUME FlowTyped, FlowInv', ScreenFits(rows, runs', shown, canvas', pending', acts'),
         selected' \in FlowSessions, disturbed' \in BOOLEAN, clashed' \subseteq DOMAIN rows,
         UNCHANGED <<rows, edges, boot, graphCalls, graphAnswers, shown>>
  PROVE  FlowTyped'
  <1>1. PICK R, cv, pd, x : R = runs' /\ cv = canvas' /\ pd = pending' /\ x = acts'
    OBVIOUS
  <1>2. TablesFit(rows, edges, graphCalls, graphAnswers) /\ ScreenFits(rows, R, shown, cv, pd, x)
    BY <1>1 DEF FlowTyped, FlowFits
  <1>3. FlowFits'
    BY <1>1, <1>2 DEF FlowFits
  <1>4. BootKept'
    BY DEF FlowTyped, BootKept
  <1> QED
    BY <1>3, <1>4 DEF FlowTyped

(* Something is asked, but not by the bootstrap.                           *)
LEMMA TypedAsks ==
  ASSUME FlowTyped, FlowInv', NEW c, graphCalls' = Append(graphCalls, c),
         CallFits(rows, c), ~IsBoot(c),
         c.op = "node" => /\ Len(rows) + NodeCalls(graphCalls) + 1 <= MaxNodes
                          /\ boot.step # 0 => Len(rows) + NodeCalls(graphCalls) + 5 <= MaxNodes,
         ScreenFits(rows, runs', shown, canvas', pending', acts'),
         selected' \in FlowSessions, disturbed' \in BOOLEAN, clashed' \subseteq DOMAIN rows,
         UNCHANGED <<rows, edges, boot, graphAnswers, shown>>
  PROVE  FlowTyped'
  <1>1. PICK B : B = graphCalls' /\ B = Append(graphCalls, c)
    OBVIOUS
  <1>2. IsList(graphCalls)
    BY CallsAreList DEF FlowTyped
  <1>3. Joins(graphCalls, B, c)
    BY <1>1, <1>2, ListJoins
  <1>4. TablesFit(rows, edges, B, graphAnswers)
    BY <1>3, CallsFitJoined DEF FlowTyped, FlowFits, TablesFit
  <1>5. PICK R, cv, pd, x : R = runs' /\ cv = canvas' /\ pd = pending' /\ x = acts'
    OBVIOUS
  <1>6. ScreenFits(rows, R, shown, cv, pd, x)
    BY <1>5
  <1>7. FlowFits'
    BY <1>1, <1>4, <1>5, <1>6 DEF FlowFits
  <1>8. PICK k, h : k = Len(rows) + NodeCalls(graphCalls) /\ h = Len(rows) + NodeCalls(B)
    OBVIOUS
  <1>9. NodeCalls(B) = IF c.op = "node" THEN NodeCalls(graphCalls) + 1 ELSE NodeCalls(graphCalls)
    BY <1>2, <1>3, NodeCallsJoin
  <1>10. BootInv(rows, boot, k, graphCalls, graphAnswers)
    BY <1>8 DEF FlowTyped, BootKept
  <1>11. IsList(rows) /\ Len(rows) \in Nat /\ NodeCalls(graphCalls) \in Nat
    <2>1. IsList(rows)
      BY DEF FlowTyped, FlowInv, GraphInv, TableOK
    <2> QED
      BY <1>2, <2>1, ListDomain, NodeCallsAreFinite
  <1>12. CASE c.op = "node"
    <2>1. h = k + 1
      BY <1>8, <1>9, <1>11, <1>12
    <2>2. k + 1 <= MaxNodes /\ (boot.step # 0 => k + 5 <= MaxNodes)
      BY <1>8, <1>12
    <2>3. BootInv(rows, boot, h, B, graphAnswers)
      BY <1>3, <1>10, <2>1, <2>2, BootAsked
    <2> QED
      BY <1>1, <1>7, <1>8, <2>3 DEF FlowTyped, BootKept
  <1>13. CASE c.op # "node"
    <2>1. h = k
      BY <1>8, <1>9, <1>13
    <2>2. BootInv(rows, boot, h, B, graphAnswers)
      BY <1>3, <1>10, <2>1, BootAsked
    <2> QED
      BY <1>1, <1>7, <1>8, <2>2 DEF FlowTyped, BootKept
  <1> QED
    BY <1>12, <1>13

(* The bootstrap begins or goes on, without a message under way.           *)
LEMMA TypedBoot ==
  ASSUME FlowTyped, FlowInv', NEW b, BootGoesOn(b), FoundIn(rows, b), b.step \in 1 .. 9,
         NEW k, k = Len(rows) + NodeCalls(graphCalls), k \in Nat, k <= MaxNodes,
         b.step <= 4 => k + 5 <= MaxNodes + b.step,
         NEW Z, Z = graphAnswers', BootRests(graphCalls, Z), AnswersFit(rows, Z),
         ScreenFits(rows, runs', shown', canvas', pending', acts'),
         selected' \in FlowSessions, disturbed' \in BOOLEAN, clashed' \subseteq DOMAIN rows,
         UNCHANGED <<rows, edges>>
  PROVE  FlowTyped'
  <1>1. PICK B, bb : B = graphCalls' /\ bb = boot'
    OBVIOUS
  <1>2. GoesOn(b, graphCalls, B, bb)
    BY <1>1 DEF BootGoesOn, GoesOn
  <1>3. IsList(graphCalls)
    BY CallsAreList DEF FlowTyped
  <1>4. /\ \E h \in Nat : BootInv(rows, bb, h, B, Z) /\ h + NodeCalls(graphCalls) = k + NodeCalls(B)
        /\ CallsFit(rows, graphCalls) => CallsFit(rows, B)
    BY <1>2, <1>3, BootContinues
  <1>5. PICK h \in Nat : BootInv(rows, bb, h, B, Z) /\ h + NodeCalls(graphCalls) = k + NodeCalls(B)
    BY <1>4
  <1>6. TablesFit(rows, edges, B, Z)
    BY <1>4 DEF FlowTyped, FlowFits, TablesFit
  <1>7. PICK R, S, cv, pd, x : R = runs' /\ S = shown' /\ cv = canvas' /\ pd = pending' /\ x = acts'
    OBVIOUS
  <1>8. ScreenFits(rows, R, S, cv, pd, x)
    BY <1>7
  <1>9. FlowFits'
    BY <1>1, <1>6, <1>7, <1>8 DEF FlowFits
  <1>10. IsList(rows) /\ Len(rows) \in Nat /\ NodeCalls(graphCalls) \in Nat /\ NodeCalls(B) \in Nat
    <2>1. IsList(rows)
      BY DEF FlowTyped, FlowInv, GraphInv, TableOK
    <2>2. IsList(B)
      <3>1. CallsOK(rows', runs', graphCalls')
        BY DEF FlowInv, GraphInv
      <3> QED
        BY <1>1, <3>1 DEF CallsOK
    <2> QED
      BY <1>3, <2>1, <2>2, ListDomain, NodeCallsAreFinite
  <1>11. h = Len(rows) + NodeCalls(B)
    BY <1>5, <1>10
  <1> QED
    BY <1>1, <1>5, <1>9, <1>11 DEF FlowTyped, BootKept

(* What the user does.                                                     *)
LEMMA RoomIs ==
  ASSUME NEW k \in Nat, Room(k), Len(rows) \in Nat, NodeCalls(graphCalls) \in Nat
  PROVE  Len(rows) + NodeCalls(graphCalls) + k <= MaxNodes
  <1>1. NodeCalls(graphCalls) = Cardinality({i \in DOMAIN graphCalls : graphCalls[i].op = "node"})
    BY DEF NodeCalls, NodeCallsAt
  <1>2. PICK m : m = NodeCalls(graphCalls) /\ Len(rows) + k + m <= MaxNodes
    BY <1>1 DEF Room
  <1> QED
    BY <1>2, FlowBounds

LEMMA CountsAre ==
  ASSUME FlowTyped
  PROVE  Len(rows) \in Nat /\ NodeCalls(graphCalls) \in Nat /\ IsList(rows) /\ IsList(graphCalls)
  <1>1. IsList(rows) /\ IsList(graphCalls)
    BY CallsAreList DEF FlowTyped, FlowInv, GraphInv, TableOK
  <1> QED
    BY <1>1, ListDomain, NodeCallsAreFinite

(* An act that leaves the screen alone.                                    *)
LEMMA ScreenLater ==
  ASSUME FlowTyped, UserActs, UNCHANGED <<runs, shown, canvas, pending>>
  PROVE  ScreenFits(rows, runs', shown', canvas', pending', acts')
  <1>1. acts' = acts + 1 /\ acts' \in Marks /\ RunsFit(runs, acts) /\ acts \in Nat
    BY UserActsCount DEF FlowTyped
  <1>2. IsList(runs)
    BY CallsAreList DEF FlowTyped
  <1>3. RunsFit(runs, acts + 1)
    BY <1>1, <1>2, RunsFitLater
  <1>4. ScreenFits(rows, runs, shown, canvas, pending, acts + 1)
    BY <1>1, <1>3 DEF FlowTyped, FlowFits, ScreenFits
  <1> QED
    BY <1>1, <1>4

LEMMA TypedSelects ==
  ASSUME FlowTyped, FlowInv', NEW s \in FlowSessions, SelectFlowSession(s)
  PROVE  FlowTyped'
  <1>1. PICK c : c = Get(s, User) /\ graphCalls' = Append(graphCalls, c)
    BY DEF SelectFlowSession
  <1>2. c.op = "get" /\ c.session = s /\ c.after = User
    BY <1>1 DEF Get
  <1>3. CallFits(rows, c) /\ ~IsBoot(c)
    BY <1>2, WhoIs DEF CallFits, IsBoot
  <1>4. ScreenFits(rows, runs', shown, canvas', pending', acts')
    BY ScreenLater DEF SelectFlowSession, canvasVars
  <1>5. /\ UNCHANGED <<rows, edges, boot, graphAnswers, shown, disturbed, clashed>> /\ selected' = s
        /\ disturbed \in BOOLEAN /\ clashed \subseteq DOMAIN rows
    BY DEF SelectFlowSession, tableVars, canvasVars, FlowTyped, FlowFits
  <1> QED
    BY <1>1, <1>2, <1>3, <1>4, <1>5, TypedAsks

LEMMA TypedModule == ASSUME FlowTyped, FlowInv', SelectModule PROVE FlowTyped'
  <1>1. PICK c : c = NewNode(selected, "agent", User) /\ graphCalls' = Append(graphCalls, c)
    BY DEF SelectModule
  <1>2. c.op = "node" /\ c.session = selected /\ c.kind = "agent" /\ c.after = User
    BY <1>1 DEF NewNode
  <1>3. /\ UNCHANGED <<rows, edges, boot, graphAnswers, shown, disturbed, clashed, selected>>
        /\ disturbed \in BOOLEAN /\ clashed \subseteq DOMAIN rows /\ selected \in FlowSessions
    BY DEF SelectModule, tableVars, canvasVars, FlowTyped, FlowFits
  <1>4. CallFits(rows, c) /\ ~IsBoot(c)
    BY <1>2, <1>3, WhoIs DEF CallFits, IsBoot, KindNames
  <1>5. ScreenFits(rows, runs', shown, canvas', pending', acts')
    BY ScreenLater DEF SelectModule, canvasVars
  <1>6. /\ Len(rows) + NodeCalls(graphCalls) + 1 <= MaxNodes
        /\ boot.step # 0 => Len(rows) + NodeCalls(graphCalls) + 5 <= MaxNodes
    <2>1. PICK k \in {1, 5} : Room(k) /\ (boot.step # 0 => k = 5)
      BY DEF SelectModule
    <2>2. Len(rows) + NodeCalls(graphCalls) + k <= MaxNodes
      BY <2>1, RoomIs, CountsAre
    <2> QED
      BY <2>1, <2>2, CountsAre, FlowBounds
  <1> QED
    BY <1>1, <1>3, <1>4, <1>5, <1>6, TypedAsks

LEMMA TypedConnects ==
  ASSUME FlowTyped, FlowInv', NEW n \in DOMAIN shown.nodes, NEW m \in DOMAIN shown.nodes, Connect(n, m)
  PROVE  FlowTyped'
  <1>1. PICK c : c = NewEdge(selected, n, m, User) /\ graphCalls' = Append(graphCalls, c)
    BY DEF Connect
  <1>2. c.op = "edge" /\ c.session = selected /\ c.source = n /\ c.target = m /\ c.after = User
    BY <1>1 DEF NewEdge
  <1>3. /\ UNCHANGED <<rows, edges, boot, graphAnswers, shown, disturbed, clashed, selected>>
        /\ disturbed \in BOOLEAN /\ clashed \subseteq DOMAIN rows /\ selected \in FlowSessions
    BY DEF Connect, tableVars, canvasVars, FlowTyped, FlowFits
  <1>4. n \in DOMAIN rows /\ m \in DOMAIN rows
    BY DEF FlowTyped, FlowFits, ScreenFits, GraphFits
  <1>5. CallFits(rows, c) /\ ~IsBoot(c)
    BY <1>2, <1>3, <1>4, WhoIs DEF CallFits, IsBoot
  <1>6. ScreenFits(rows, runs', shown, canvas', pending', acts')
    BY ScreenLater DEF Connect, canvasVars
  <1> QED
    BY <1>1, <1>2, <1>3, <1>5, <1>6, TypedAsks

LEMMA TypedDrags ==
  ASSUME FlowTyped, FlowInv', NEW n, Drag(n)
  PROVE  FlowTyped'
  <1>1. PICK cv, x : /\ cv = canvas' /\ x = acts' /\ cv = [canvas EXCEPT ![n] = x] /\ cv = pending'
    BY DEF Drag, LayoutPayload
  <1>2. x = acts + 1 /\ x \in Marks /\ RunsFit(runs, acts) /\ acts \in Nat
    BY <1>1, UserActsCount DEF FlowTyped, Drag
  <1>3. RunsFit(runs, x)
    BY <1>2, RunsFitLater, CallsAreList DEF FlowTyped
  <1>4. PlacesFit(canvas) /\ GraphFits(rows, shown)
    BY DEF FlowTyped, FlowFits, ScreenFits
  <1>5. PlacesFit(cv)
    BY <1>1, <1>2, <1>4 DEF PlacesFit
  <1>6. ScreenFits(rows, runs, shown, cv, cv, x)
    BY <1>2, <1>3, <1>4, <1>5 DEF ScreenFits
  <1>7. /\ UNCHANGED <<rows, edges, boot, graphCalls, graphAnswers, shown, disturbed, clashed, selected, runs>>
        /\ disturbed \in BOOLEAN /\ clashed \subseteq DOMAIN rows /\ selected \in FlowSessions
    BY DEF Drag, tableVars, FlowTyped, FlowFits
  <1>8. ScreenFits(rows, runs', shown, canvas', pending', acts')
    BY <1>1, <1>6, <1>7
  <1> QED
    BY <1>7, <1>8, TypedScreen

LEMMA TypedCommits == ASSUME FlowTyped, FlowInv', CommitLayout PROVE FlowTyped'
  <1>1. PICK c : c = Layout(pending) /\ graphCalls' = Append(graphCalls, c)
    BY DEF CommitLayout
  <1>2. c.op = "layout" /\ c.places = pending /\ c.after = User
    BY <1>1 DEF Layout
  <1>3. ScreenFits(rows, runs, shown, canvas, pending, acts)
    BY DEF FlowTyped, FlowFits
  <1>4. CallFits(rows, c) /\ ~IsBoot(c)
    BY <1>2, <1>3, WhoIs DEF CallFits, IsBoot, ScreenFits
  <1>5. PlacesFit(NoPlaces)
    BY DEF PlacesFit, NoPlaces
  <1>6. ScreenFits(rows, runs, shown, canvas, NoPlaces, acts)
    BY <1>3, <1>5 DEF ScreenFits
  <1>7. /\ UNCHANGED <<rows, edges, boot, graphAnswers, shown, disturbed, clashed, selected, runs, canvas, acts>>
        /\ pending' = NoPlaces
        /\ disturbed \in BOOLEAN /\ clashed \subseteq DOMAIN rows /\ selected \in FlowSessions
    BY DEF CommitLayout, tableVars, canvasVars, userVars, FlowTyped, FlowFits
  <1>8. ScreenFits(rows, runs', shown, canvas', pending', acts')
    BY <1>6, <1>7
  <1> QED
    BY <1>1, <1>2, <1>4, <1>7, <1>8, TypedAsks

LEMMA TypedEdits ==
  ASSUME FlowTyped, FlowInv', NEW n \in DOMAIN shown.nodes, EditPrompt(n)
  PROVE  FlowTyped'
  <1>1. PICK c, x : /\ x = acts' /\ c = Save(n, x, shown.nodes[n].last, OfEdit(n))
                    /\ graphCalls' = Append(graphCalls, c)
    BY DEF EditPrompt
  <1>2. c.op = "save" /\ c.prompt = x /\ c.last = shown.nodes[n].last /\ c.after = OfEdit(n)
    BY <1>1 DEF Save
  <1>3. n \in DOMAIN rows /\ shown.nodes[n] \in Rows
    BY DEF FlowTyped, FlowFits, ScreenFits, GraphFits
  <1>4. c.prompt \in Marks /\ c.last \in Marks
    BY <1>1, <1>2, <1>3, UserActsCount DEF FlowTyped, EditPrompt, Rows, Marks
  <1>5. CallFits(rows, c) /\ ~IsBoot(c)
    BY <1>2, <1>4, WhoIs DEF CallFits, IsBoot
  <1>6. /\ UNCHANGED <<rows, edges, boot, graphAnswers, shown, disturbed, selected>>
        /\ clashed' \subseteq clashed \cup {n}
        /\ disturbed \in BOOLEAN /\ clashed \subseteq DOMAIN rows /\ selected \in FlowSessions
    BY DEF EditPrompt, tableVars, canvasVars, FlowTyped, FlowFits
  <1>7. ScreenFits(rows, runs', shown, canvas', pending', acts')
    BY ScreenLater DEF EditPrompt, canvasVars
  <1>8. clashed' \subseteq DOMAIN rows
    BY <1>3, <1>6
  <1> QED
    BY <1>1, <1>2, <1>5, <1>6, <1>7, <1>8, TypedAsks

LEMMA RunsFitJoined ==
  ASSUME NEW R, IsList(R), NEW x \in Nat, RunsFit(R, x), NEW Q, NEW q, Joins(R, Q, q), q.prompt \in Marks
  PROVE  RunsFit(Q, x + 1)
  <1>1. PICK k \in Nat : /\ DOMAIN R = 1 .. k /\ DOMAIN Q = 1 .. k + 1 /\ Q[k + 1] = q
                         /\ \A i \in 1 .. k : Q[i] = R[i]
    BY DEF Joins
  <1>2. Len(R) \in Nat /\ DOMAIN R = 1 .. Len(R) /\ Len(Q) \in Nat /\ DOMAIN Q = 1 .. Len(Q)
    BY ListDomain DEF Joins
  <1>3. k = Len(R)
    BY <1>1, <1>2, SameInterval
  <1>4. PICK j \in Nat : j = k + 1 /\ DOMAIN Q = 1 .. j
    BY <1>1
  <1>5. j = Len(Q)
    BY <1>2, <1>4, SameInterval
  <1>6. Len(Q) <= x + 1
    BY <1>3, <1>4, <1>5 DEF RunsFit
  <1>7. \A i \in DOMAIN Q : i \in DOMAIN R \/ i = k + 1
    BY <1>1
  <1>8. \A i \in DOMAIN Q : Q[i].prompt \in Marks
    BY <1>1, <1>7 DEF RunsFit
  <1> QED
    BY <1>6, <1>8 DEF RunsFit

LEMMA TypedRuns ==
  ASSUME FlowTyped, FlowInv', NEW n \in DOMAIN shown.nodes, RunNode(n)
  PROVE  FlowTyped'
  <1>1. PICK Q, q, x :
          /\ Q = runs' /\ q = [node |-> n, prompt |-> shown.nodes[n].prompt, phase |-> "working"]
          /\ Q = Append(runs, q) /\ x = acts'
    BY DEF RunNode
  <1>2. n \in DOMAIN rows /\ shown.nodes[n] \in Rows
    BY DEF FlowTyped, FlowFits, ScreenFits, GraphFits
  <1>3. q.prompt \in Marks
    BY <1>1, <1>2 DEF Rows, Marks
  <1>4. x = acts + 1 /\ x \in Marks /\ RunsFit(runs, acts) /\ acts \in Nat
    BY <1>1, UserActsCount DEF FlowTyped, RunNode
  <1>5. Joins(runs, Q, q) /\ IsList(runs)
    BY <1>1, CallsAreList, ListJoins DEF FlowTyped
  <1>6. RunsFit(Q, x)
    BY <1>3, <1>4, <1>5, RunsFitJoined
  <1>7. ScreenFits(rows, Q, shown, canvas, pending, x)
    BY <1>4, <1>6 DEF FlowTyped, FlowFits, ScreenFits
  <1>8. /\ UNCHANGED <<rows, edges, boot, graphCalls, graphAnswers, shown, canvas, pending, disturbed, selected>>
        /\ clashed' \subseteq clashed \cup {n}
        /\ disturbed \in BOOLEAN /\ clashed \subseteq DOMAIN rows /\ selected \in FlowSessions
    BY DEF RunNode, tableVars, canvasVars, FlowTyped, FlowFits
  <1>9. clashed' \subseteq DOMAIN rows
    BY <1>2, <1>8
  <1>10. ScreenFits(rows, runs', shown, canvas', pending', acts')
    BY <1>1, <1>7, <1>8
  <1> QED
    BY <1>8, <1>9, <1>10, TypedScreen

LEMMA TypedRunEnds ==
  ASSUME FlowTyped, FlowInv', NEW r \in DOMAIN runs, RunEnds(r)
  PROVE  FlowTyped'
  <1>1. PICK Q, c : /\ Q = runs' /\ Q = InPhase(runs, r, "saving")
                    /\ c = Save(runs[r].node, runs[r].prompt, r, OfRun(r))
                    /\ graphCalls' = Append(graphCalls, c)
    BY DEF RunEnds, Outcome, InPhase
  <1>2. c.op = "save" /\ c.prompt = runs[r].prompt /\ c.last = r /\ c.after = OfRun(r)
    BY <1>1 DEF Save
  <1>3. IsList(runs) /\ IsRun(runs[r])
    BY DEF FlowTyped, FlowInv, GraphInv, RunsOK
  <1>4. ScreenFits(rows, runs, shown, canvas, pending, acts)
    BY DEF FlowTyped, FlowFits
  <1>5. runs[r].prompt \in Marks /\ r \in Marks
    <2>1. RunsFit(runs, acts) /\ acts \in Marks /\ Len(runs) \in Nat /\ DOMAIN runs = 1 .. Len(runs)
      BY <1>3, <1>4, ListDomain DEF ScreenFits
    <2> QED
      BY <2>1, FlowBounds DEF RunsFit, Marks
  <1>6. CallFits(rows, c) /\ ~IsBoot(c)
    BY <1>2, <1>5, WhoIs DEF CallFits, IsBoot
  <1>7. Ended(runs, Q, r)
    BY <1>1, <1>3, RunEnded
  <1>8. /\ IsList(Q) /\ DOMAIN Q = DOMAIN runs /\ \A i \in DOMAIN runs : i # r => Q[i] = runs[i]
        /\ Q[r].prompt = runs[r].prompt
    <2>1. Q[r] = [runs[r] EXCEPT !.phase = "saving"]
      BY <1>1 DEF InPhase
    <2>2. Q[r].prompt = runs[r].prompt
      BY <1>3, <2>1 DEF IsRun
    <2> QED
      BY <1>7, <2>2 DEF Ended
  <1>9. RunsFit(Q, acts)
    <2>1. Len(Q) = Len(runs)
      <3>1. /\ Len(Q) \in Nat /\ DOMAIN Q = 1 .. Len(Q) /\ Len(runs) \in Nat
            /\ DOMAIN runs = 1 .. Len(runs)
        BY <1>3, <1>8, ListDomain
      <3> QED
        BY <1>8, <3>1, SameInterval
    <2> QED
      BY <1>4, <1>8, <2>1 DEF RunsFit, ScreenFits
  <1>10. ScreenFits(rows, Q, shown, canvas, pending, acts)
    BY <1>4, <1>9 DEF ScreenFits
  <1>11. /\ UNCHANGED <<rows, edges, boot, graphAnswers, shown, canvas, pending, acts, disturbed, clashed, selected>>
         /\ disturbed \in BOOLEAN /\ clashed \subseteq DOMAIN rows /\ selected \in FlowSessions
    BY DEF RunEnds, tableVars, canvasVars, userVars, FlowTyped, FlowFits
  <1>12. ScreenFits(rows, runs', shown, canvas', pending', acts')
    BY <1>1, <1>10, <1>11
  <1> QED
    BY <1>1, <1>2, <1>6, <1>11, <1>12, TypedAsks

(* The greatest of some rows, which the bootstrap begins with.             *)
LEMMA GreatestOf ==
  ASSUME NEW K \in Nat, NEW S \in SUBSET (1 .. K), S # {}
  PROVE  \E n \in S : \A m \in S : m <= n
  <1>1. PICK W : W = {j \in Nat : \A m \in S : m <= j}
    OBVIOUS
  <1>2. W \in SUBSET Nat /\ K \in W
    BY <1>1
  <1>3. PICK j \in W : \A i \in W : j <= i
    BY <1>2, FirstOf
  <1>4. CASE j \in S
    BY <1>1, <1>3, <1>4
  <1>5. CASE j \notin S
    <2>1. PICK m \in S : m \in 1 .. K /\ m <= j
      BY <1>1, <1>3
    <2>2. PICK i \in Nat : i + 1 = j
      <3>1. j - 1 \in Nat /\ (j - 1) + 1 = j
        BY <1>1, <1>3, <2>1
      <3> QED
        BY <3>1
    <2>3. ASSUME NEW n \in S
          PROVE  n <= i
      <3>1. n \in Nat /\ n <= j /\ n # j
        BY <1>1, <1>3, <1>5
      <3> QED
        BY <2>2, <3>1
    <2>4. i \in W
      BY <1>1, <2>3
    <2>5. j <= i
      BY <1>3, <2>4
    <2> QED
      BY <2>2, <2>5
  <1> QED
    BY <1>4, <1>5

LEMMA TypedIdle == ASSUME FlowTyped, UNCHANGED flowVars PROVE FlowTyped'
  <1>1. FlowInv'
    BY FlowIdle DEF FlowTyped
  <1>2. UNCHANGED <<rows, edges, boot, graphCalls, graphAnswers, shown, runs, canvas, pending, acts,
                    selected, disturbed, clashed>>
    BY DEF flowVars, tableVars, canvasVars, userVars
  <1>3. FlowFits'
    BY <1>2 DEF FlowTyped, FlowFits
  <1>4. BootKept'
    BY <1>2 DEF FlowTyped, BootKept
  <1> QED
    BY <1>1, <1>3, <1>4 DEF FlowTyped

LEMMA TypedBootstrap == ASSUME FlowTyped, FlowInv', BootstrapSelfHost PROVE FlowTyped'
  <1>1. PICK K, f : /\ K = [k \in KindNames |-> {n \in DOMAIN shown.nodes : shown.nodes[n].kind = k}]
                    /\ f = [k \in KindNames |-> IF K[k] = {} THEN 0
                                                ELSE CHOOSE n \in K[k] : \A m \in K[k] : m <= n]
    OBVIOUS
  <1>2. DOMAIN NoBoot.found = KindNames
    BY DEF NoBoot, KindNames
  <1>3. PICK W : W = {<<e.source, e.target>> : e \in shown.edges}
    OBVIOUS
  <1>4. PICK b : b = [step |-> 1, session |-> selected, found |-> f, wired |-> W] /\ BootGoesOn(b)
    <2>1. PICK g : g = [k \in DOMAIN NoBoot.found |->
             IF {n \in DOMAIN shown.nodes : shown.nodes[n].kind = k} = {} THEN 0
             ELSE CHOOSE c \in {n \in DOMAIN shown.nodes : shown.nodes[n].kind = k} :
                    \A m \in {n \in DOMAIN shown.nodes : shown.nodes[n].kind = k} : m <= c]
      OBVIOUS
    <2>2. BootGoesOn([step |-> 1, session |-> selected, found |-> g, wired |-> W])
      BY <1>3, <2>1 DEF BootstrapSelfHost
    <2>3. g = f
      BY <1>1, <1>2, <2>1
    <2> QED
      BY <2>2, <2>3
  <1>5. /\ GraphFits(rows, shown) /\ selected \in FlowSessions /\ disturbed \in BOOLEAN
        /\ clashed \subseteq DOMAIN rows
    BY DEF FlowTyped, FlowFits, ScreenFits
  <1>6. Len(rows) \in Nat /\ NodeCalls(graphCalls) \in Nat /\ DOMAIN rows = 1 .. Len(rows)
    BY CountsAre, ListDomain
  <1>7. ASSUME NEW k \in KindNames
        PROVE  f[k] \in {0} \cup DOMAIN rows
    <2>1. PICK S : S = K[k] /\ S \subseteq DOMAIN rows
      BY <1>1, <1>5 DEF GraphFits
    <2>2. f[k] = IF S = {} THEN 0 ELSE CHOOSE n \in S : \A m \in S : m <= n
      BY <1>1, <2>1
    <2>3. S # {} => \E n \in S : \A m \in S : m <= n
      BY <1>6, <2>1, GreatestOf
    <2> QED
      BY <2>1, <2>2, <2>3
  <1>8. f \in [KindNames -> {0} \cup DOMAIN rows]
    BY <1>1, <1>7
  <1>9. FoundIn(rows, b) /\ b.step = 1
    BY <1>4, <1>5, <1>8 DEF FoundIn
  <1>10. PICK k : k = Len(rows) + NodeCalls(graphCalls)
    OBVIOUS
  <1>11. k \in Nat /\ k + 4 <= MaxNodes
    BY <1>6, <1>10, RoomIs DEF BootstrapSelfHost
  <1>12. BootRests(graphCalls, graphAnswers)
    BY DEF BootstrapSelfHost, FlowTyped, BootKept, BootInv
  <1>13. k <= MaxNodes /\ k + 5 <= MaxNodes + 1
    BY <1>11, FlowBounds
  <1>14. UNCHANGED <<rows, edges, shown, runs, canvas, pending, graphAnswers, disturbed, clashed, selected>>
    BY DEF BootstrapSelfHost, tableVars, canvasVars
  <1>15. ScreenFits(rows, runs', shown', canvas', pending', acts')
    BY <1>14, ScreenLater DEF BootstrapSelfHost
  <1>16. AnswersFit(rows, graphAnswers)
    BY DEF FlowTyped, FlowFits, TablesFit
  <1>17. b.step \in 1 .. 9 /\ (b.step <= 4 => k + 5 <= MaxNodes + b.step)
    BY <1>9, <1>13
  <1>18. PICK Z : Z = graphAnswers' /\ BootRests(graphCalls, Z) /\ AnswersFit(rows, Z)
    BY <1>12, <1>14, <1>16
  <1>19. selected' \in FlowSessions /\ disturbed' \in BOOLEAN /\ clashed' \subseteq DOMAIN rows
    BY <1>5, <1>14
  <1> QED
    BY <1>4, <1>9, <1>10, <1>11, <1>13, <1>14, <1>15, <1>17, <1>18, <1>19, TypedBoot

(* The main process.                                                       *)
LEMMA TypedHandled ==
  ASSUME FlowTyped, FlowInv', NEW c, NEW a, NEW B, NEW Z, NEW U, NEW F,
         B = graphCalls', Z = graphAnswers', U = rows', F = edges',
         Leaves(graphCalls, B, c), Joins(graphAnswers, Z, a), a.after = c.after,
         DOMAIN rows \subseteq DOMAIN U, RowsFit(U), F \subseteq EdgesOver(U), AnswerFits(U, a),
         \/ c.op = "node" /\ \E x : Joins(rows, U, x)
         \/ c.op # "node" /\ IsList(U) /\ DOMAIN U = DOMAIN rows,
         IsBoot(c) => \/ c.op = "get" /\ a.op = "graph"
                      \/ c.op = "node" /\ a.op = "created" /\ a.id \in DOMAIN U
                      \/ c.op = "edge" /\ a.op = "created",
         UNCHANGED <<runs, shown, canvas, pending, acts, boot, disturbed, clashed, selected>>
  PROVE  FlowTyped'
  <1>1. /\ TablesFit(rows, edges, graphCalls, graphAnswers)
        /\ ScreenFits(rows, runs, shown, canvas, pending, acts)
        /\ selected \in FlowSessions /\ disturbed \in BOOLEAN /\ clashed \subseteq DOMAIN rows
    BY DEF FlowTyped, FlowFits
  <1>2. TablesFit(U, F, B, Z)
    BY <1>1, FitsHandled
  <1>3. GraphFits(U, shown)
    BY <1>1, FitsMore DEF ScreenFits
  <1>4. ScreenFits(U, runs, shown, canvas, pending, acts)
    BY <1>1, <1>3 DEF ScreenFits
  <1>5. clashed \subseteq DOMAIN U
    BY <1>1
  <1>6. FlowFits'
    BY <1>1, <1>2, <1>4, <1>5 DEF FlowFits
  <1>7. PICK k : k = Len(rows) + NodeCalls(graphCalls) /\ BootInv(rows, boot, k, graphCalls, graphAnswers)
    BY DEF FlowTyped, BootKept
  <1>8. k = Len(U) + NodeCalls(B)
    BY <1>7, CountsAre, RoomHandled
  <1>9. BootInv(U, boot, k, B, Z)
    BY <1>7, BootHandled
  <1>10. BootKept'
    BY <1>8, <1>9 DEF BootKept
  <1> QED
    BY <1>6, <1>10 DEF FlowTyped

LEMMA TypedHandles == ASSUME FlowTyped, FlowInv', HandleGraphCall PROVE FlowTyped'
  <1>1. FlowInv /\ TablesFit(rows, edges, graphCalls, graphAnswers)
    BY DEF FlowTyped, FlowFits
  <1>2. PICK c, B : c = Head(graphCalls) /\ B = Tail(graphCalls) /\ B = graphCalls'
    BY DEF HandleGraphCall
  <1>3. Leaves(graphCalls, B, c)
    BY <1>1, <1>2, CallsAreList, ListLeaves DEF HandleGraphCall
  <1>4. UNCHANGED <<runs, shown, canvas, pending, acts, boot, disturbed, clashed, selected>>
    BY DEF HandleGraphCall, canvasVars
  <1>5. PICK a, Z : Z = graphAnswers' /\ Z = Append(graphAnswers, a) /\
          (\/ /\ c.op = "get" /\ a = [op |-> "graph", graph |-> GraphOf(c.session), after |-> c.after]
              /\ UNCHANGED <<rows, edges>>
           \/ /\ c.op = "node" /\ rows' = Append(rows, NewRow(c.session, c.kind))
              /\ a = [op |-> "created", session |-> c.session, id |-> Len(rows'), after |-> c.after]
              /\ UNCHANGED edges
           \/ /\ c.op = "edge" /\ CreateEdge(c)
              /\ a = [op |-> "created", session |-> c.session, id |-> 0, after |-> c.after]
              /\ UNCHANGED rows
           \/ /\ c.op = "save" /\ UpdateNode(c) /\ a = [op |-> "saved", after |-> c.after]
              /\ UNCHANGED edges
           \/ /\ c.op = "layout" /\ rows' = Placed(c.places) /\ a = [op |-> "layout", after |-> c.after]
              /\ UNCHANGED edges
           \/ /\ c.op = "log" /\ a = [op |-> "logged", after |-> c.after]
              /\ UNCHANGED <<rows, edges>>)
    BY <1>2 DEF HandleGraphCall, tableVars
  <1>6. Joins(graphAnswers, Z, a)
    BY <1>1, <1>5, CallsAreList, ListJoins
  <1>7. CallOK(rows, runs, c) /\ IsList(rows) /\ RowsFit(rows) /\ edges \subseteq EdgesOver(rows)
    BY <1>1, <1>3, CallGone, CountsAre DEF FlowInv, GraphInv, TablesFit
  <1>8. TableOK(rows, edited)
    BY <1>1 DEF FlowInv, GraphInv
  <1>9. CallFits(rows, c)
    BY <1>1, <1>3, CallsFitLeft DEF TablesFit
  <1>10. IsBoot(c) => c.op \in {"get", "node", "edge"}
    <2>1. ForRun(runs, c) => c.after.who = "run"
      BY RunOf
    <2> QED
      BY <1>7, <2>1, WhoIs DEF CallOK, IsBoot
  <1>11. CASE /\ c.op = "get" /\ a = [op |-> "graph", graph |-> GraphOf(c.session), after |-> c.after]
              /\ UNCHANGED <<rows, edges>>
    <2>1. PICK g : g = GraphOf(c.session) /\ a.graph = g /\ a.op = "graph" /\ a.after = c.after
      BY <1>11
    <2>2. g.session = c.session /\ g.nodes = [n \in NodesIn(rows, c.session) |-> rows[n]]
      BY <2>1 DEF GraphOf, NodesOf, NodesIn
    <2>3. c.session \in FlowSessions
      BY <1>9, <1>11 DEF CallFits
    <2>4. GraphFits(rows, g)
      BY <1>7, <2>2, <2>3, LoadedFits
    <2>5. AnswerFits(rows, a)
      BY <2>1, <2>4 DEF AnswerFits
    <2>6. c.op = "get" /\ c.op # "node" /\ rows = rows' /\ edges = edges'
      BY <1>11
    <2> QED
      BY <1>2, <1>3, <1>4, <1>5, <1>6, <1>7, <2>1, <2>5, <2>6, TypedHandled
  <1>12. CASE /\ c.op = "node" /\ rows' = Append(rows, NewRow(c.session, c.kind))
              /\ a = [op |-> "created", session |-> c.session, id |-> Len(rows'), after |-> c.after]
              /\ UNCHANGED edges
    <2>1. PICK x, U : x = NewRow(c.session, c.kind) /\ U = rows' /\ U = Append(rows, x)
      BY <1>12
    <2>2. Joins(rows, U, x)
      BY <1>7, <2>1, ListJoins
    <2>3. c.session \in FlowSessions /\ c.kind \in KindNames /\ c.op = "node"
      BY <1>9, <1>12 DEF CallFits
    <2>4. RowsFit(U)
      BY <1>7, <2>1, <2>2, <2>3, NewRowFits
    <2>5. a.op = "created" /\ a.session = c.session /\ a.id = Len(U) /\ a.after = c.after
      BY <1>12, <2>1
    <2>6. DOMAIN rows \subseteq DOMAIN U /\ IsList(U) /\ \E z : z \in DOMAIN U
      BY <2>2, JoinedIs
    <2>7. Len(U) \in DOMAIN U
      <3>1. Len(U) \in Nat /\ DOMAIN U = 1 .. Len(U)
        BY <2>6, ListDomain
      <3> QED
        BY <2>6, <3>1
    <2>8. AnswerFits(U, a)
      BY <2>3, <2>5 DEF AnswerFits
    <2>9. edges \subseteq EdgesOver(U)
      BY <1>7, <2>6, FitsMore
    <2>10. edges = edges'
      BY <1>12
    <2> QED
      BY <1>2, <1>3, <1>4, <1>5, <1>6, <2>1, <2>2, <2>3, <2>4, <2>5, <2>6, <2>7, <2>8, <2>9, <2>10,
         TypedHandled
  <1>13. CASE /\ c.op = "edge" /\ CreateEdge(c)
              /\ a = [op |-> "created", session |-> c.session, id |-> 0, after |-> c.after]
              /\ UNCHANGED rows
    <2>1. PICK e, F : /\ e = [session |-> c.session, source |-> c.source, target |-> c.target]
                      /\ F = edges' /\ F = edges \cup {e}
      BY <1>13 DEF CreateEdge
    <2>2. c.session \in FlowSessions /\ c.source \in DOMAIN rows /\ c.target \in DOMAIN rows
      BY <1>9, <1>13 DEF CallFits
    <2>3. F \subseteq EdgesOver(rows)
      BY <1>7, <2>1, <2>2 DEF EdgesOver
    <2>4. a.op = "created" /\ a.session = c.session /\ a.after = c.after /\ c.op = "edge"
      BY <1>13
    <2>5. AnswerFits(rows, a)
      BY <2>2, <2>4 DEF AnswerFits
    <2>6. rows = rows' /\ c.op # "node"
      BY <1>13
    <2> QED
      BY <1>2, <1>3, <1>4, <1>5, <1>6, <1>7, <2>1, <2>3, <2>4, <2>5, <2>6, TypedHandled
  <1>14. CASE /\ c.op = "save" /\ UpdateNode(c) /\ a = [op |-> "saved", after |-> c.after]
              /\ UNCHANGED edges
    <2>1. PICK U : /\ U = rows'
                   /\ U = [rows EXCEPT ![c.node].prompt = c.prompt, ![c.node].last = c.last]
      BY <1>14 DEF UpdateNode
    <2>2. c.op = "save" /\ c.node \in DOMAIN rows
      BY <1>7, <1>14 DEF CallOK
    <2>3. SameRows(rows, U, c)
      BY <1>8, <2>1, <2>2, SaveTable
    <2>4. RowsFit(U) /\ DOMAIN U = DOMAIN rows
      BY <1>7, <1>9, <2>3, SameRowsFit
    <2>5. IsList(U)
      BY <2>3 DEF SameRows
    <2>6. a.op = "saved" /\ a.after = c.after /\ c.op # "node" /\ ~IsBoot(c)
      BY <1>10, <1>14
    <2>7. AnswerFits(U, a)
      BY <2>6 DEF AnswerFits
    <2>8. edges = edges' /\ edges \subseteq EdgesOver(U)
      BY <1>7, <1>14, <2>4 DEF EdgesOver
    <2> QED
      BY <1>2, <1>3, <1>4, <1>5, <1>6, <2>1, <2>4, <2>5, <2>6, <2>7, <2>8, TypedHandled
  <1>15. CASE /\ c.op = "layout" /\ rows' = Placed(c.places) /\ a = [op |-> "layout", after |-> c.after]
              /\ UNCHANGED edges
    <2>1. PICK U : U = rows' /\ U = Placed(c.places)
      BY <1>15
    <2>2. a.op = "layout" /\ a.after = c.after /\ c.op = "layout" /\ c.op # "node" /\ ~IsBoot(c)
      BY <1>10, <1>15
    <2>3. SameRows(rows, U, c)
      BY <1>8, <2>1, <2>2, LayoutTable DEF Placed
    <2>4. RowsFit(U) /\ DOMAIN U = DOMAIN rows
      BY <1>7, <1>9, <2>3, SameRowsFit
    <2>5. IsList(U)
      BY <2>3 DEF SameRows
    <2>6. AnswerFits(U, a)
      BY <2>2 DEF AnswerFits
    <2>7. edges = edges' /\ edges \subseteq EdgesOver(U)
      BY <1>7, <1>15, <2>4 DEF EdgesOver
    <2> QED
      BY <1>2, <1>3, <1>4, <1>5, <1>6, <2>1, <2>2, <2>4, <2>5, <2>6, <2>7, TypedHandled
  <1>16. CASE /\ c.op = "log" /\ a = [op |-> "logged", after |-> c.after]
              /\ UNCHANGED <<rows, edges>>
    <2>1. a.op = "logged" /\ a.after = c.after /\ c.op = "log" /\ c.op # "node" /\ ~IsBoot(c)
      BY <1>10, <1>16
    <2>2. AnswerFits(rows, a)
      BY <2>1 DEF AnswerFits
    <2>3. rows = rows' /\ edges = edges'
      BY <1>16
    <2> QED
      BY <1>2, <1>3, <1>4, <1>5, <1>6, <1>7, <2>1, <2>2, <2>3, TypedHandled
  <1> QED
    BY <1>5, <1>11, <1>12, <1>13, <1>14, <1>15, <1>16

(* The renderer goes on: nothing is asked, or something not for the        *)
(* bootstrap, which is where it was.                                       *)
LEMMA TypedAnswered ==
  ASSUME FlowTyped, FlowInv', NEW a, NEW Z, Z = graphAnswers', Leaves(graphAnswers, Z, a), NEW B,
         B = graphCalls',
         \/ B = graphCalls
         \/ \E c : Joins(graphCalls, B, c) /\ CallFits(rows, c) /\ c.op # "node" /\ ~IsBoot(c),
         ScreenFits(rows, runs', shown', canvas', pending', acts'),
         selected' \in FlowSessions, disturbed' \in BOOLEAN, clashed' \subseteq DOMAIN rows,
         UNCHANGED <<rows, edges, boot>>
  PROVE  FlowTyped'
  <1>1. TablesFit(rows, edges, graphCalls, graphAnswers)
    BY DEF FlowTyped, FlowFits
  <1>2. PICK k : k = Len(rows) + NodeCalls(graphCalls) /\ BootInv(rows, boot, k, graphCalls, graphAnswers)
    BY DEF FlowTyped, BootKept
  <1>3. BootInv(rows, boot, k, graphCalls, Z)
    BY <1>2, BootAnswered
  <1>4. CallsFit(rows, B) /\ BootInv(rows, boot, k, B, Z) /\ NodeCalls(B) = NodeCalls(graphCalls)
    <2>1. CASE B = graphCalls
      BY <1>1, <1>3, <2>1 DEF TablesFit
    <2>2. CASE B # graphCalls
      <3>1. PICK c : Joins(graphCalls, B, c) /\ CallFits(rows, c) /\ c.op # "node" /\ ~IsBoot(c)
        BY <2>2
      <3>2. CallsFit(rows, B)
        BY <1>1, <3>1, CallsFitJoined DEF TablesFit
      <3>3. BootInv(rows, boot, k, B, Z)
        BY <1>3, <3>1, BootAsked
      <3>4. NodeCalls(B) = NodeCalls(graphCalls)
        BY <3>1, CountsAre, NodeCallsJoin
      <3> QED
        BY <3>2, <3>3, <3>4
    <2> QED
      BY <2>1, <2>2
  <1>5. TablesFit(rows, edges, B, Z)
    BY <1>1, <1>4, AnswersFitLeft DEF TablesFit
  <1>6. PICK R, S, cv, pd, x : R = runs' /\ S = shown' /\ cv = canvas' /\ pd = pending' /\ x = acts'
    OBVIOUS
  <1>7. ScreenFits(rows, R, S, cv, pd, x)
    BY <1>6
  <1>8. FlowFits'
    BY <1>5, <1>6, <1>7 DEF FlowFits
  <1>9. k = Len(rows) + NodeCalls(B)
    BY <1>2, <1>4
  <1>10. BootKept'
    BY <1>4, <1>9 DEF BootKept
  <1> QED
    BY <1>8, <1>10 DEF FlowTyped

(* The bootstrap asks for the graph.                                       *)
LEMMA TypedReloads ==
  ASSUME FlowTyped, FlowInv', NEW Z, Z = graphAnswers', NEW B, B = graphCalls', NEW b, b = boot',
         NEW c, Joins(graphCalls, B, c), CallFits(rows, c), c.op = "get",
         NEW k, k = Len(rows) + NodeCalls(graphCalls), k \in Nat, k <= MaxNodes,
         FoundIn(rows, b), b.step # 0, BootMessage(rows, b, k, c),
         BootRests(graphCalls, Z), AnswersFit(rows, Z),
         UNCHANGED <<rows, edges, runs, shown, canvas, pending, acts, disturbed, clashed, selected>>
  PROVE  FlowTyped'
  <1>1. /\ TablesFit(rows, edges, graphCalls, graphAnswers)
        /\ ScreenFits(rows, runs, shown, canvas, pending, acts)
        /\ selected \in FlowSessions /\ disturbed \in BOOLEAN /\ clashed \subseteq DOMAIN rows
    BY DEF FlowTyped, FlowFits
  <1>2. TablesFit(rows, edges, B, Z)
    BY <1>1, CallsFitJoined DEF TablesFit
  <1>3. FlowFits'
    BY <1>1, <1>2 DEF FlowFits
  <1>4. NodeCalls(B) = NodeCalls(graphCalls)
    BY CountsAre, NodeCallsJoin
  <1>5. BootInv(rows, b, k, B, Z)
    BY BootAsks
  <1>6. k = Len(rows) + NodeCalls(B)
    BY <1>4
  <1>7. BootKept'
    BY <1>5, <1>6 DEF BootKept
  <1> QED
    BY <1>3, <1>7 DEF FlowTyped

(* What the bootstrap has found, once a creation is answered.              *)
FoundNext(b, a) ==
  IF b.step <= 4 THEN [b EXCEPT !.found[Kinds[b.step]] = a.id, !.step = @ + 1]
  ELSE [b EXCEPT !.step = @ + 1]

LEMMA FoundNextIs ==
  ASSUME NEW T, 0 \notin DOMAIN T, NEW b, FoundIn(T, b), NEW k \in Nat, NEW a, Creates(T, b, k, a),
         a.op = "created", NEW d, d = FoundNext(b, a)
  PROVE  /\ FoundIn(T, d) /\ d.step \in 2 .. 9 /\ d.session = b.session
         /\ d.step <= 4 => k + 5 <= MaxNodes + d.step
  <1>1. /\ b = [step |-> b.step, session |-> b.session, found |-> b.found, wired |-> b.wired]
        /\ b.step \in 1 .. 8 /\ b.session \in FlowSessions
        /\ b.found \in [KindNames -> {0} \cup DOMAIN T]
        /\ \A j \in 1 .. 4 : j < b.step => b.found[Kinds[j]] # 0
    BY DEF FoundIn, Creates
  <1>2. MaxNodes \in Nat
    BY FlowBounds
  <1>3. CASE b.step <= 4
    <2>1. PICK x : x = Kinds[b.step] /\ x \in KindNames
      BY <1>1, <1>3, KindsAre
    <2>2. PICK f : f = [b.found EXCEPT ![x] = a.id]
      OBVIOUS
    <2>3. d = [step |-> b.step + 1, session |-> b.session, found |-> f, wired |-> b.wired]
      BY <1>1, <1>3, <2>1, <2>2 DEF FoundNext
    <2>4. a.id \in DOMAIN T /\ a.id # 0 /\ k + 4 <= MaxNodes + b.step
      BY <1>3 DEF Creates
    <2>5. f \in [KindNames -> {0} \cup DOMAIN T]
      BY <1>1, <2>1, <2>2, <2>4
    <2>6. ASSUME NEW j \in 1 .. 4, j < b.step + 1
          PROVE  f[Kinds[j]] # 0
      <3>1. Kinds[j] \in KindNames
        BY KindsAre
      <3>2. j = b.step \/ j < b.step
        BY <1>1, <2>6
      <3> QED
        BY <1>1, <2>1, <2>2, <2>4, <3>1, <3>2
    <2>7. /\ d.step = b.step + 1 /\ d.session = b.session /\ d.found = f /\ d.wired = b.wired
      BY <2>3
    <2>8. FoundIn(T, d)
      BY <1>1, <2>3, <2>5, <2>6, <2>7 DEF FoundIn
    <2>9. k + 5 <= MaxNodes + d.step
      BY <1>1, <1>2, <2>4, <2>7
    <2> QED
      BY <1>1, <2>7, <2>8, <2>9
  <1>4. CASE ~(b.step <= 4)
    <2>1. d = [step |-> b.step + 1, session |-> b.session, found |-> b.found, wired |-> b.wired]
      BY <1>1, <1>4 DEF FoundNext
    <2>2. d.step = b.step + 1 /\ d.session = b.session /\ d.found = b.found /\ d.wired = b.wired
      BY <2>1
    <2>3. \A j \in 1 .. 4 : j < b.step
      BY <1>1, <1>4
    <2>4. FoundIn(T, d)
      BY <1>1, <1>4, <2>1, <2>2, <2>3 DEF FoundIn
    <2> QED
      BY <1>1, <1>4, <2>2, <2>4
  <1> QED
    BY <1>3, <1>4

LEMMA TypedAnswers == ASSUME FlowTyped, FlowInv', HandleGraphAnswer PROVE FlowTyped'
  <1>1. /\ FlowInv /\ TablesFit(rows, edges, graphCalls, graphAnswers)
        /\ ScreenFits(rows, runs, shown, canvas, pending, acts)
        /\ selected \in FlowSessions /\ disturbed \in BOOLEAN /\ clashed \subseteq DOMAIN rows
    BY DEF FlowTyped, FlowFits
  <1>2. PICK a, Z : a = Head(graphAnswers) /\ Z = Tail(graphAnswers) /\ Z = graphAnswers'
    BY DEF HandleGraphAnswer
  <1>3. Leaves(graphAnswers, Z, a)
    BY <1>1, <1>2, CallsAreList, ListLeaves DEF HandleGraphAnswer
  <1>4. UNCHANGED <<rows, edges, clashed, acts, selected, pending>>
    BY DEF HandleGraphAnswer, tableVars, userVars
  <1>5. AnswerOK(rows, runs, log, a) /\ IsList(graphCalls)
    BY <1>1, <1>3, AnswerGone, CallsAreList DEF FlowInv, GraphInv
  <1>6. PICK B : B = graphCalls'
    OBVIOUS
  <1>7. AnswersFit(rows, Z) /\ AnswerFits(rows, a)
    BY <1>1, <1>3, AnswersFitLeft DEF TablesFit
  <1>8. PICK k : k = Len(rows) + NodeCalls(graphCalls) /\ BootInv(rows, boot, k, graphCalls, graphAnswers)
    BY DEF FlowTyped, BootKept
  <1>9. IsBoot(a) => BootRests(graphCalls, Z) /\ BootMessage(rows, boot, k, a)
    BY <1>3, <1>8, BootAnswered
  <1>10. k \in Nat /\ k <= MaxNodes /\ FoundIn(rows, boot)
    BY <1>8 DEF BootInv
  <1>11. /\ selected' \in FlowSessions /\ clashed' \subseteq DOMAIN rows
         /\ UNCHANGED disturbed => disturbed' \in BOOLEAN
    BY <1>1, <1>4
  <1>12. 0 \notin DOMAIN rows
    <2>1. DOMAIN rows = 1 .. Len(rows) /\ Len(rows) \in Nat
      BY CountsAre, ListDomain
    <2> QED
      BY <2>1
  <1>13. UNCHANGED <<runs, shown, canvas>> => ScreenFits(rows, runs', shown', canvas', pending', acts')
    <2>1. ASSUME UNCHANGED <<runs, shown, canvas>>
          PROVE  ScreenFits(rows, runs', shown', canvas', pending', acts')
      <3>1. runs' = runs /\ shown' = shown /\ canvas' = canvas /\ pending' = pending /\ acts' = acts
        BY <1>4, <2>1
      <3> QED
        BY <1>1, <3>1
    <2> QED
      BY <2>1
  <1>14. CASE a.op = "graph"
    <2>1. shown' = a.graph /\ canvas' = MapGraphNodes(a.graph) /\ disturbed' = Unsaved /\ GoOn(a.after)
      BY <1>2, <1>14 DEF HandleGraphAnswer
    <2>2. PICK V, dw : V = a.graph /\ dw = MapGraphNodes(V) /\ V = shown' /\ dw = canvas'
      BY <2>1
    <2>3. GraphFits(rows, V)
      BY <1>7, <1>14, <2>2 DEF AnswerFits
    <2>4. PlacesFit(dw)
      <3>1. dw = [n \in DOMAIN V.nodes |-> V.nodes[n].at]
        BY <2>2 DEF MapGraphNodes
      <3>2. \A n \in DOMAIN V.nodes : V.nodes[n] \in Rows
        BY <2>3 DEF GraphFits
      <3> QED
        BY <3>1, <3>2 DEF PlacesFit, Rows, Marks
    <2>5. UNCHANGED runs
      BY <2>1 DEF GoOn
    <2>6. ScreenFits(rows, runs, V, dw, pending, acts)
      BY <1>1, <2>3, <2>4 DEF ScreenFits
    <2>7. ScreenFits(rows, runs', shown', canvas', pending', acts')
      <3>1. runs' = runs /\ shown' = V /\ canvas' = dw /\ pending' = pending /\ acts' = acts
        BY <1>4, <2>2, <2>5
      <3> QED
        BY <2>6, <3>1
    <2>8. disturbed' \in BOOLEAN
      <3>1. Unsaved \in BOOLEAN
        BY DEF Unsaved
      <3> QED
        BY <2>1, <3>1
    <2>9. CASE a.after.who = "boot"
      <3>1. BootGoesOn(boot)
        BY <2>1, <2>9 DEF GoOn
      <3>2. Reloads(boot, k, a) /\ BootRests(graphCalls, Z)
        BY <1>9, <1>14, <2>9 DEF IsBoot, BootMessage, Creates
      <3>3. boot.step \in 1 .. 9 /\ (boot.step <= 4 => k + 5 <= MaxNodes + boot.step)
        BY <3>2 DEF Reloads
      <3> QED
        BY <1>2, <1>4, <1>7, <1>8, <1>10, <1>11, <2>7, <2>8, <3>1, <3>2, <3>3, TypedBoot
    <2>10. CASE a.after.who = "run"
      <3>1. PICK c : c = Log(a.after.id) /\ B = Append(graphCalls, c)
        BY <1>6, <2>1, <2>10 DEF GoOn
      <3>2. UNCHANGED boot
        BY <2>1, <2>10 DEF GoOn
      <3>3. c.op = "log" /\ c.after.who = "run"
        <4>1. c.op = "log" /\ c.after = OfRun(a.after.id)
          BY <3>1 DEF Log
        <4> QED
          BY <4>1, WhoIs
      <3>4. Joins(graphCalls, B, c)
        BY <1>5, <3>1, ListJoins
      <3>5. CallFits(rows, c) /\ ~IsBoot(c) /\ c.op # "node"
        BY <3>3 DEF CallFits, IsBoot
      <3> QED
        BY <1>2, <1>3, <1>4, <1>6, <1>11, <2>7, <2>8, <3>2, <3>4, <3>5, TypedAnswered
    <2>11. CASE a.after.who # "boot" /\ a.after.who # "run"
      <3>1. UNCHANGED <<graphCalls, boot>>
        BY <2>1, <2>11 DEF GoOn
      <3> QED
        BY <1>2, <1>3, <1>4, <1>6, <1>11, <2>7, <2>8, <3>1, TypedAnswered
    <2> QED
      BY <2>9, <2>10, <2>11
  <1>15. CASE a.op = "created"
    <2>1. GraphCreated(a) /\ UNCHANGED <<shown, canvas, disturbed>>
      BY <1>2, <1>15 DEF HandleGraphAnswer
    <2>2. UNCHANGED runs
      BY <2>1 DEF GraphCreated
    <2>3. PICK d : d = IF a.after.who # "boot" THEN boot ELSE FoundNext(boot, a)
      OBVIOUS
    <2>4. IF shown.session = a.session
          THEN boot' = d /\ graphCalls' = Append(graphCalls, Get(a.session, a.after))
          ELSE IF a.after.who = "boot" THEN BootGoesOn(d) ELSE UNCHANGED <<boot, graphCalls>>
      <3>1. CASE a.after.who # "boot"
        BY <2>1, <2>3, <3>1 DEF GraphCreated
      <3>2. CASE a.after.who = "boot" /\ boot.step <= 4
        <4>1. d = [boot EXCEPT !.found[Kinds[boot.step]] = a.id, !.step = @ + 1]
          BY <2>3, <3>2 DEF FoundNext
        <4> QED
          BY <2>1, <3>2, <4>1 DEF GraphCreated
      <3>3. CASE a.after.who = "boot" /\ ~(boot.step <= 4)
        <4>1. d = [boot EXCEPT !.step = @ + 1]
          BY <2>3, <3>3 DEF FoundNext
        <4> QED
          BY <2>1, <3>3, <4>1 DEF GraphCreated
      <3> QED
        BY <3>1, <3>2, <3>3
    <2>5. ScreenFits(rows, runs', shown', canvas', pending', acts') /\ disturbed' \in BOOLEAN
      BY <1>11, <1>13, <2>1, <2>2
    <2>6. PICK c : c = Get(a.session, a.after)
      OBVIOUS
    <2>7. c.op = "get" /\ c.session = a.session /\ c.after = a.after
      BY <2>6 DEF Get
    <2>8. CallFits(rows, c)
      BY <1>7, <1>15, <2>7 DEF AnswerFits, CallFits
    <2>9. shown.session = a.session => Joins(graphCalls, B, c)
      BY <1>5, <1>6, <2>4, <2>6, ListJoins
    <2>10. CASE a.after.who # "boot"
      <3>1. UNCHANGED boot
        BY <2>3, <2>4, <2>10
      <3>2. ~IsBoot(c) /\ c.op # "node"
        BY <2>7, <2>10 DEF IsBoot
      <3>3. B = graphCalls \/ Joins(graphCalls, B, c)
        BY <1>6, <2>4, <2>9, <2>10
      <3> QED
        BY <1>2, <1>3, <1>4, <1>6, <1>11, <2>5, <2>8, <3>1, <3>2, <3>3, TypedAnswered
    <2>11. CASE a.after.who = "boot"
      <3>1. Creates(rows, boot, k, a) /\ BootRests(graphCalls, Z)
        BY <1>9, <1>15, <2>11 DEF IsBoot, BootMessage, Reloads
      <3>2. d = FoundNext(boot, a)
        BY <2>3, <2>11
      <3>3. /\ FoundIn(rows, d) /\ d.step \in 2 .. 9
            /\ d.step <= 4 => k + 5 <= MaxNodes + d.step
        BY <1>10, <1>12, <1>15, <3>1, <3>2, FoundNextIs
      <3>4. CASE shown.session = a.session
        <4>1. d = boot' /\ Joins(graphCalls, B, c)
          BY <2>4, <2>9, <3>4
        <4>2. BootMessage(rows, d, k, c)
          BY <2>7, <3>3 DEF BootMessage, Reloads
        <4>3. d.step # 0
          BY <3>3
        <4> QED
          BY <1>2, <1>4, <1>6, <1>7, <1>8, <1>10, <2>1, <2>2, <2>7, <2>8, <3>1, <3>3, <4>1, <4>2, <4>3,
             TypedReloads
      <3>5. CASE shown.session # a.session
        <4>1. BootGoesOn(d)
          BY <2>4, <2>11, <3>5
        <4>2. d.step \in 1 .. 9
          BY <3>3
        <4> QED
          BY <1>2, <1>4, <1>7, <1>8, <1>10, <1>11, <2>5, <3>1, <3>3, <4>1, <4>2, TypedBoot
      <3> QED
        BY <3>4, <3>5
    <2> QED
      BY <2>10, <2>11
  <1>16. CASE a.op = "saved"
    <2>1. PICK c : c = Get(shown.session, a.after) /\ B = Append(graphCalls, c)
      BY <1>2, <1>6, <1>16 DEF HandleGraphAnswer
    <2>2. UNCHANGED <<shown, canvas, disturbed, boot, runs>>
      BY <1>2, <1>16 DEF HandleGraphAnswer
    <2>3. c.op = "get" /\ c.session = shown.session /\ c.after = a.after
      BY <2>1 DEF Get
    <2>4. CallFits(rows, c)
      BY <1>1, <2>3 DEF CallFits, ScreenFits, GraphFits
    <2>5. ~IsBoot(c)
      <3>1. ForEdit(rows, a) \/ ForRun(runs, a)
        BY <1>5, <1>16 DEF AnswerOK
      <3>2. ForEdit(rows, a) => a.after.who = "edit"
        BY WhoIs DEF ForEdit
      <3>3. ForRun(runs, a) => a.after.who = "run"
        BY RunOf
      <3> QED
        BY <2>3, <3>1, <3>2, <3>3 DEF IsBoot
    <2>6. Joins(graphCalls, B, c)
      BY <1>5, <2>1, ListJoins
    <2>7. ScreenFits(rows, runs', shown', canvas', pending', acts') /\ disturbed' \in BOOLEAN
      BY <1>11, <1>13, <2>2
    <2>8. c.op # "node"
      BY <2>3
    <2> QED
      BY <1>2, <1>3, <1>4, <1>6, <1>11, <2>2, <2>4, <2>5, <2>6, <2>7, <2>8, TypedAnswered
  <1>17. CASE a.op = "logged"
    <2>1. UNCHANGED <<shown, canvas, disturbed, graphCalls, boot>>
      BY <1>2, <1>17 DEF HandleGraphAnswer
    <2>2. PICK r, Q : r = a.after.id /\ Q = runs' /\ Q = InPhase(runs, r, "over")
      BY <1>2, <1>17 DEF HandleGraphAnswer, InPhase
    <2>3. RunsFit(Q, acts)
      <3>1. DOMAIN Q = DOMAIN runs /\ \A q \in DOMAIN runs : q # r => Q[q] = runs[q]
        BY <2>2 DEF InPhase
      <3>2. \A q \in DOMAIN runs : Q[q].prompt = runs[q].prompt
        <4>1. ASSUME r \in DOMAIN runs
              PROVE  Q[r].prompt = runs[r].prompt
          <5>1. IsRun(runs[r])
            BY <1>1, <4>1 DEF FlowInv, GraphInv, RunsOK
          <5>2. Q[r] = [runs[r] EXCEPT !.phase = "over"]
            BY <2>2, <4>1 DEF InPhase
          <5> QED
            BY <5>1, <5>2 DEF IsRun
        <4> QED
          BY <3>1, <4>1
      <3>3. IsList(runs) /\ IsList(Q)
        <4>1. IsList(runs')
          BY DEF FlowInv, GraphInv, RunsOK
        <4> QED
          BY <1>1, <2>2, <4>1, CallsAreList
      <3>4. Len(Q) = Len(runs)
        <4>1. /\ Len(Q) \in Nat /\ DOMAIN Q = 1 .. Len(Q) /\ Len(runs) \in Nat
              /\ DOMAIN runs = 1 .. Len(runs)
          BY <3>3, ListDomain
        <4> QED
          BY <3>1, <4>1, SameInterval
      <3> QED
        BY <1>1, <3>1, <3>2, <3>4 DEF RunsFit, ScreenFits
    <2>4. ScreenFits(rows, Q, shown, canvas, pending, acts)
      BY <1>1, <2>3 DEF ScreenFits
    <2>5. ScreenFits(rows, runs', shown', canvas', pending', acts')
      <3>1. runs' = Q /\ shown' = shown /\ canvas' = canvas /\ pending' = pending /\ acts' = acts
        BY <1>4, <2>1, <2>2
      <3> QED
        BY <2>4, <3>1
    <2> QED
      BY <1>2, <1>3, <1>4, <1>6, <1>11, <2>1, <2>5, TypedAnswered
  <1>18. CASE a.op = "layout"
    <2>1. UNCHANGED <<shown, canvas, disturbed, boot, runs, graphCalls>>
      BY <1>2, <1>18 DEF HandleGraphAnswer
    <2>2. ScreenFits(rows, runs', shown', canvas', pending', acts') /\ disturbed' \in BOOLEAN
      BY <1>11, <1>13, <2>1
    <2> QED
      BY <1>2, <1>3, <1>4, <1>6, <1>11, <2>1, <2>2, TypedAnswered
  <1> QED
    BY <1>5, <1>14, <1>15, <1>16, <1>17, <1>18 DEF AnswerOK

LEMMA FlowTypedStep == ASSUME FlowTyped, [FlowNext]_flowVars PROVE FlowTyped'
  <1>1. FlowInv'
    BY FlowStep DEF FlowTyped
  <1>2. CASE UNCHANGED flowVars
    BY <1>2, TypedIdle
  <1>3. CASE \/ (\E s \in FlowSessions : SelectFlowSession(s)) \/ SelectModule \/ BootstrapSelfHost
             \/ (\E n, m \in DOMAIN shown.nodes : Connect(n, m))
    BY <1>1, <1>3, TypedSelects, TypedModule, TypedBootstrap, TypedConnects
  <1>4. ASSUME NEW n \in DOMAIN shown.nodes, Drag(n) \/ EditPrompt(n) \/ RunNode(n)
        PROVE  FlowTyped'
    BY <1>1, <1>4, TypedDrags, TypedEdits, TypedRuns
  <1>5. CASE \E r \in DOMAIN runs : RunEnds(r)
    BY <1>1, <1>5, TypedRunEnds
  <1>6. CASE CommitLayout \/ HandleGraphCall \/ HandleGraphAnswer
    BY <1>1, <1>6, TypedCommits, TypedHandles, TypedAnswers
  <1> QED
    BY <1>2, <1>3, <1>4, <1>5, <1>6 DEF FlowNext

(* The runs that the mounted components know are runs.                     *)
AttachedKept == attached \subseteq DOMAIN runs

LEMMA AttachedStart == FlowInit => AttachedKept
  BY DEF FlowInit, AttachedKept

LEMMA AttachedStep == ASSUME FlowInv, AttachedKept, [FlowNext]_flowVars PROVE AttachedKept'
  <1>1. ASSUME attached' \subseteq attached, DOMAIN runs' = DOMAIN runs
        PROVE  AttachedKept'
    BY <1>1 DEF AttachedKept
  <1>2. ASSUME NEW n, RunNode(n)
        PROVE  AttachedKept'
    <2>1. PICK x, Q : Q = runs' /\ Q = Append(runs, x) /\ attached' = attached \cup {Len(runs) + 1}
      BY <1>2 DEF RunNode
    <2>2. IsList(runs) /\ IsList(Q) /\ Len(Q) = Len(runs) + 1
      BY <2>1, CallsAreList, ListAppends
    <2>3. PICK k \in Nat : k = Len(runs) /\ DOMAIN runs = 1 .. k /\ DOMAIN Q = 1 .. k + 1
      BY <2>2, ListDomain
    <2>4. 1 .. k \subseteq 1 .. k + 1 /\ k + 1 \in 1 .. k + 1
      OBVIOUS
    <2> QED
      BY <2>1, <2>3, <2>4 DEF AttachedKept
  <1>3. CASE \E r \in DOMAIN runs : RunEnds(r)
    BY <1>1, <1>3 DEF RunEnds, Outcome
  <1>4. CASE HandleGraphAnswer
    <2>1. attached' \subseteq attached
      BY <1>4 DEF HandleGraphAnswer
    <2>2. PICK a : \/ GoOn(a.after) \/ GraphCreated(a) \/ UNCHANGED runs
                   \/ runs' = [runs EXCEPT ![a.after.id].phase = "over"]
      BY <1>4 DEF HandleGraphAnswer
    <2>3. GoOn(a.after) \/ GraphCreated(a) => UNCHANGED runs
      BY DEF GoOn, GraphCreated
    <2> QED
      BY <1>1, <2>1, <2>2, <2>3
  <1>5. CASE \/ UNCHANGED flowVars \/ \E s \in FlowSessions : SelectFlowSession(s)
             \/ SelectModule \/ BootstrapSelfHost \/ CommitLayout
             \/ \E n, m \in DOMAIN shown.nodes : Connect(n, m)
    <2>1. UNCHANGED <<runs, attached>>
      BY <1>5 DEF flowVars, SelectFlowSession, SelectModule, BootstrapSelfHost, CommitLayout, Connect
    <2> QED
      BY <1>1, <2>1
  <1>6. CASE HandleGraphCall \/ \E n \in DOMAIN shown.nodes : Drag(n) \/ EditPrompt(n)
    <2>1. UNCHANGED <<runs, attached>>
      BY <1>6 DEF HandleGraphCall, Drag, EditPrompt
    <2> QED
      BY <1>1, <2>1
  <1> QED
    BY <1>2, <1>3, <1>4, <1>5, <1>6 DEF FlowNext

LEMMA FlowTypedStart == ASSUME FlowInit PROVE FlowTyped
  <1>1. PICK k \in 0 .. MaxStored : rows = [n \in 1 .. k |-> NewRow(selected, "agent")]
    BY DEF FlowInit
  <1>2. PICK x, T, E : /\ x = NewRow(selected, "agent") /\ T = rows /\ E = edited
                       /\ T = [n \in 1 .. k |-> x] /\ E = [n \in DOMAIN T |-> 0]
    BY <1>1 DEF FlowInit
  <1>3. k \in Nat /\ k <= MaxNodes
    BY FlowBounds
  <1>4. selected \in FlowSessions /\ IsRow(x) /\ x \in Rows
    <2>1. selected \in FlowSessions
      BY DEF FlowInit
    <2> QED
      BY <1>2, <2>1, FlowBounds DEF NewRow, IsRow, Rows
  <1>5. IsList(T) /\ DOMAIN T = 1 .. k /\ \A n \in DOMAIN T : T[n] = x
    BY <1>2, <1>3, <1>4, FreshTable DEF TableOK
  <1>6. RowsFit(T)
    BY <1>4, <1>5 DEF RowsFit
  <1>7. /\ edges = {} /\ shown = GraphOf(selected) /\ canvas = MapGraphNodes(shown) /\ boot = NoBoot
        /\ graphCalls = <<>> /\ graphAnswers = <<>>
        /\ acts = 1 /\ disturbed \in BOOLEAN /\ clashed = {}
    BY DEF FlowInit, LeftNothing, LeftRun, LeftDrag
  <1>8. PICK g : g = shown /\ g.session = selected /\ g.nodes = [n \in NodesIn(T, selected) |-> T[n]]
    <2>1. GraphOf(selected) = [session |-> selected, nodes |-> [n \in NodesIn(rows, selected) |-> rows[n]],
                               edges |-> {e \in edges : e.session = selected}]
      BY DEF GraphOf, NodesOf, NodesIn
    <2>2. /\ shown.session = selected
          /\ shown.nodes = [n \in NodesIn(rows, selected) |-> rows[n]]
      BY <1>7, <2>1
    <2>3. rows = T
      BY <1>2
    <2> QED
      BY <2>2, <2>3
  <1>9. GraphFits(T, g)
    BY <1>4, <1>6, <1>8, LoadedFits
  <1>10. PICK N : N = <<>> /\ IsList(N) /\ DOMAIN N = {} /\ Len(N) = 0
    BY NothingUnderWay, EmptySeq
  <1>11. TablesFit(T, {}, N, N)
    BY <1>6, <1>10 DEF TablesFit, CallsFit, AnswersFit
  <1>12. PICK cv : cv = canvas /\ cv = [n \in DOMAIN g.nodes |-> g.nodes[n].at]
    BY <1>7, <1>8 DEF MapGraphNodes
  <1>13. PlacesFit(cv) /\ PlacesFit(NoPlaces)
    <2>1. \A n \in DOMAIN g.nodes : g.nodes[n] \in Rows
      BY <1>9 DEF GraphFits
    <2> QED
      BY <1>12, <2>1 DEF PlacesFit, NoPlaces, Rows, Marks
  <1>14. ScreenFits(T, runs, g, cv, pending, 1)
    <2>1. 1 \in Marks
      BY FlowBounds DEF Marks
    <2>2. RunsFit(runs, 1)
      BY FlowLeaves, MarksAre DEF RunsFit, LeftRuns
    <2>3. pending = NoPlaces \/ pending = [canvas EXCEPT ![MaxStored] = 1]
      BY DEF FlowInit, LeftNothing, LeftRun, LeftDrag, LayoutPayload
    <2>4. PlacesFit(pending)
      BY <1>12, <1>13, <2>1, <2>3 DEF PlacesFit
    <2> QED
      BY <1>9, <1>13, <2>1, <2>2, <2>4 DEF ScreenFits
  <1>15. FlowFits
    BY <1>2, <1>4, <1>7, <1>8, <1>10, <1>11, <1>12, <1>14 DEF FlowFits
  <1>16. NodeCalls(N) = 0
    <2>1. NodeCallsAt(N) = {}
      BY <1>10 DEF NodeCallsAt
    <2> QED
      BY <2>1, FS_EmptySet DEF NodeCalls
  <1>17. Len(T) = k
    <2>1. DOMAIN T = 1 .. Len(T) /\ Len(T) \in Nat
      BY <1>5, ListDomain
    <2> QED
      BY <1>3, <1>5, <2>1, SameInterval
  <1>18. BootInv(T, NoBoot, k, N, N)
    BY <1>3, <1>10, NoBootIs DEF BootInv, OneBoot, BootRests
  <1>19. Len(T) + NodeCalls(N) = k
    BY <1>3, <1>16, <1>17
  <1>20. BootKept
    BY <1>2, <1>7, <1>10, <1>18, <1>19 DEF BootKept
  <1> QED
    BY <1>15, <1>20, FlowStart DEF FlowTyped

LEMMA FlowTypedGives == ASSUME FlowTyped, AttachedKept PROVE FlowTypeOK
  <1>1. /\ TablesFit(rows, edges, graphCalls, graphAnswers)
        /\ ScreenFits(rows, runs, shown, canvas, pending, acts)
        /\ selected \in FlowSessions /\ disturbed \in BOOLEAN /\ clashed \subseteq DOMAIN rows
    BY DEF FlowTyped, FlowFits
  <1>2. PICK k : k = Len(rows) + NodeCalls(graphCalls) /\ BootInv(rows, boot, k, graphCalls, graphAnswers)
    BY DEF FlowTyped, BootKept
  <1>3. Len(rows) \in Nat /\ NodeCalls(graphCalls) \in Nat /\ IsList(rows) /\ DOMAIN rows = 1 .. Len(rows)
    BY CountsAre, ListDomain
  <1>4. rows \in Seq(Rows)
    <2>1. PICK l \in Nat : l = Len(rows) /\ rows = [i \in 1 .. l |-> rows[i]]
      BY <1>3 DEF IsList
    <2>2. rows \in [1 .. l -> Rows]
      BY <1>1, <1>3, <2>1 DEF TablesFit, RowsFit
    <2> QED
      BY <2>1, <2>2, SeqDef
  <1>5. Len(rows) <= MaxNodes
    BY <1>2, <1>3, FlowBounds DEF BootInv
  <1>6. edges \subseteq EdgeRows
    BY <1>1 DEF TablesFit, EdgesOver, EdgeRows
  <1>7. \A i \in DOMAIN log : log[i] \in 1 .. MaxActs
    <2>1. IsList(runs) /\ LogOK(runs, log)
      BY DEF FlowTyped, FlowInv, GraphInv, RunsOK
    <2>2. DOMAIN runs = 1 .. Len(runs) /\ Len(runs) \in Nat
      BY <2>1, ListDomain
    <2>3. Len(runs) <= acts /\ acts \in 0 .. MaxActs
      BY <1>1 DEF ScreenFits, RunsFit, Marks
    <2>4. \A i \in DOMAIN log : log[i] \in 1 .. Len(runs)
      BY <2>1, <2>2 DEF LogOK
    <2> QED
      BY <2>2, <2>3, <2>4, FlowBounds
  <1>8. shown.session \in FlowSessions /\ DOMAIN shown.nodes \subseteq DOMAIN rows
    BY <1>1 DEF ScreenFits, GraphFits
  <1>9. DOMAIN canvas = DOMAIN shown.nodes
    BY DEF FlowTyped, FlowInv, GraphInv
  <1>10. boot.step \in 0 .. 9
    BY <1>2 DEF BootInv, FoundIn
  <1> QED
    BY <1>1, <1>4, <1>5, <1>6, <1>7, <1>8, <1>9, <1>10 DEF FlowTypeOK, AttachedKept
===============================================================================
