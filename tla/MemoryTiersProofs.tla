-------------------------- MODULE MemoryTiersProofs --------------------------
(***************************************************************************)
(* Theorems about MemoryTiers, for every set of ids and tasks and for      *)
(* every limit: the invariants that TLC checks hold whatever the order of  *)
(* adds, evictions, failing models and archivings.                         *)
(***************************************************************************)
EXTENDS MemoryTiers, TLAPS, SequenceTheorems, FiniteSetTheorems

(* A node that is added is a node, under its id and with a new entry.      *)
LEMMA NewNodeType ==
    ASSUME TypeOK, added < MaxAdds,
           NEW id \in Id, NEW kind \in Kind, NEW temperature \in Temperature,
           NEW active_path \in BOOLEAN
    PROVE  /\ NewNode(id, kind, temperature, active_path) \in Node
           /\ NewNode(id, kind, temperature, active_path).id = id
           /\ NewNode(id, kind, temperature, active_path).entry = added + 1
  <1>1. added + 1 \in Entry
    BY MemoryAssumption DEF TypeOK, Entry
  <1>2. InitialTemperature(kind, temperature, active_path) \in Temperature
    BY DEF InitialTemperature, KindTemperature, Temperature
  <1>3. (active_path \/ id = active) \in BOOLEAN
    OBVIOUS
  <1> QED
    BY <1>1, <1>2, <1>3 DEF NewNode, Node, Temperature

(* Marking a node keeps the ids and the entries of the graph.              *)
LEMMA MarkKeeps ==
    ASSUME TypeOK, NEW id \in Id, MarkActive(id)
    PROVE  /\ nodes' \subseteq Node
           /\ \A n \in nodes' : \E m \in nodes : m.id = n.id /\ m.entry = n.entry
           /\ \A m \in nodes : \E n \in nodes' : m.id = n.id /\ m.entry = n.entry
           /\ \A m, n \in nodes' : m.id = n.id => m = n
  <1> DEFINE Mark(n) == IF n.id = id THEN [n EXCEPT !.temperature = "hot", !.active_path = TRUE]
                        ELSE n
  <1>1. nodes' = {Mark(n) : n \in nodes}
    BY DEF MarkActive
  <1>2. \A n \in nodes : Mark(n) \in Node /\ Mark(n).id = n.id /\ Mark(n).entry = n.entry
    BY DEF TypeOK, Node, Temperature
  <1>3. \A m, n \in nodes : m.id = n.id => m = n
    BY DEF TypeOK
  <1> HIDE DEF Mark
  <1> QED
    BY <1>1, <1>2, <1>3

(* Cutting a sequence in two and joining the parts gives the sequence.     *)
LEMMA CutAndJoin ==
    ASSUME NEW S, NEW seq \in Seq(S), NEW n \in 0 .. Len(seq)
    PROVE  SubSeq(seq, 1, n) \o SubSeq(seq, n + 1, Len(seq)) = seq
  <1>1. Len(seq) \in Nat
    BY LenProperties
  <1>2. 1 \in 1 .. Len(seq) + 1 /\ n \in 1 - 1 .. Len(seq) /\ Len(seq) \in n .. Len(seq)
    BY <1>1
  <1>3. SubSeq(seq, 1, n) \o SubSeq(seq, n + 1, Len(seq)) = SubSeq(seq, 1, Len(seq))
    BY <1>2, ConcatAdjacentSubSeq
  <1> QED
    BY <1>3, SubSeqFull

(* What an eviction leaves of the graph is part of it.                     *)
LEMMA SummarisedTypes ==
    ASSUME TypeOK, NEW t \in Task, ModelAnswers(t)
    PROVE  /\ nodes' \subseteq nodes
           /\ Entries(cold[t]) \in SUBSET Entry
           /\ session' = Append(session, Entries(cold[t]))
           /\ summaries' = Append(summaries, Entries(cold[t]))
  <1>1. cold[t] \subseteq Node
    BY DEF TypeOK
  <1>2. \A n \in cold[t] : n.entry \in Entry
    BY <1>1 DEF Node
  <1> QED
    BY <1>2 DEF ModelAnswers, Summarised, Without, Entries

(* The overflow of a full session store is a part of it.                   *)
LEMMA MovedTypes ==
    ASSUME TypeOK, Len(session) >= SessionLimit, NEW n \in 0 .. Overflow, Moved(n)
    PROVE  /\ n \in 0 .. Len(session)
           /\ SubSeq(session, 1, n) \in Seq(SUBSET Entry)
           /\ session' \in Seq(SUBSET Entry)
           /\ archive' \in Seq(SUBSET Entry)
           /\ Len(session') = Len(session) - n
           /\ SubSeq(session, 1, n) \o session' = session
  <1>1. session \in Seq(SUBSET Entry) /\ archive \in Seq(SUBSET Entry)
    BY DEF TypeOK
  <1>2. Len(session) \in Nat
    BY <1>1, LenProperties
  <1>3. n \in 0 .. Len(session)
    BY <1>2, MemoryAssumption DEF Overflow
  <1>4. \A i \in 1 .. Len(session) : session[i] \in SUBSET Entry
    BY <1>1, ElementOfSeq
  <1>5. /\ SubSeq(session, 1, n) \in Seq(SUBSET Entry)
        /\ session' \in Seq(SUBSET Entry)
        /\ Len(session') = Len(session) - n
    BY <1>2, <1>3, <1>4, SubSeqProperties DEF Moved
  <1>6. archive' \in Seq(SUBSET Entry)
    BY <1>1, <1>5, ConcatProperties DEF Moved
  <1>7. SubSeq(session, 1, n) \o SubSeq(session, n + 1, Len(session)) = session
    BY <1>1, <1>3, CutAndJoin
  <1> QED
    BY <1>3, <1>5, <1>6, <1>7 DEF Moved

-----------------------------------------------------------------------------
(* Types *)

LEMMA TypeStep ==
    ASSUME TypeOK, [Next]_vars
    PROVE  TypeOK'
  <1>1. ASSUME NEW id \in Id, Add(id)
        PROVE  TypeOK'
    <2>1. PICK kind \in Kind, temperature \in Temperature, active_path \in BOOLEAN :
              nodes' = Without(nodes, {id}) \cup {NewNode(id, kind, temperature, active_path)}
      BY <1>1 DEF Add
    <2> DEFINE new == NewNode(id, kind, temperature, active_path)
    <2>2. new \in Node /\ new.id = id
      BY <1>1, NewNodeType DEF Add
    <2> HIDE DEF new
    <2>3. nodes' = {n \in nodes : n.id # id} \cup {new}
      BY <2>1 DEF Without, new
    <2>4. nodes' \subseteq Node /\ \A m, n \in nodes' : m.id = n.id => m = n
      BY <2>2, <2>3 DEF TypeOK
    <2>5. added' \in 0 .. MaxAdds /\ added + 1 \in Entry
      BY <1>1, MemoryAssumption DEF Add, TypeOK, Entry
    <2>6. Entries({n \in nodes : n.id = id}) \subseteq Entry
      BY DEF TypeOK, Entries, Node
    <2>7. replaced' \subseteq Entry /\ contested' \subseteq Entry
      BY <1>1, <2>5, <2>6 DEF Add, TypeOK
    <2> QED
      BY <1>1, <2>4, <2>5, <2>7 DEF Add, TypeOK
  <1>2. ASSUME NEW id \in Id, MarkActive(id)
        PROVE  TypeOK'
    BY <1>2, MarkKeeps DEF MarkActive, TypeOK, history
  <1>3. ASSUME NEW t \in Task, ReadColdNodes(t), direct' \in BOOLEAN
        PROVE  TypeOK'
    <2>1. ColdNodes \subseteq Node
      BY DEF ColdNodes, TypeOK
    <2>2. cold' \in [Task -> SUBSET Node]
      BY <1>3, <2>1 DEF ReadColdNodes, TypeOK
    <2>3. Entries(ColdNodes) \subseteq Entry
      BY <2>1 DEF Entries, Node
    <2>4. shared' \subseteq Entry
      BY <1>3, <2>3 DEF ReadColdNodes, TypeOK
    <2> QED
      BY <1>3, <2>2, <2>4 DEF ReadColdNodes, graphVars, TypeOK
  <1>4. ASSUME NEW t \in Task, ModelAnswers(t)
        PROVE  TypeOK'
    <2> DEFINE Snapshot == SUBSET Entry
               new == Entries(cold[t])
    <2>1. new \in Snapshot /\ session' = Append(session, new) /\ summaries' = Append(summaries, new)
      BY <1>4, SummarisedTypes
    <2>2. session \in Seq(Snapshot) /\ summaries \in Seq(Snapshot)
      BY DEF TypeOK
    <2> HIDE DEF new, Snapshot
    <2>3. session' \in Seq(Snapshot) /\ summaries' \in Seq(Snapshot)
      BY <2>1, <2>2, AppendProperties
    <2>4. session' \in Seq(SUBSET Entry) /\ summaries' \in Seq(SUBSET Entry)
      BY <2>3 DEF Snapshot
    <2>5. cold' \in [Task -> SUBSET Node]
      BY <1>4 DEF ModelAnswers, TypeOK
    <2>6. nodes' \subseteq nodes
      BY <1>4, SummarisedTypes
    <2> QED
      BY <1>4, <2>4, <2>5, <2>6 DEF ModelAnswers, history, TypeOK
  <1>5. ASSUME NEW t \in Task, ModelFails(t)
        PROVE  TypeOK'
    <2>1. cold' \in [Task -> SUBSET Node]
      BY <1>5 DEF ModelFails, TypeOK
    <2> QED
      BY <1>5, <2>1 DEF ModelFails, history, graphVars, TypeOK
  <1>6. CASE ArchiveSessionOverflow
    BY <1>6, MovedTypes DEF ArchiveSessionOverflow, history, graphVars, TypeOK
  <1>7. CASE UNCHANGED vars
    BY <1>7 DEF vars, history, graphVars, TypeOK
  <1>8. ASSUME NEW t \in Task, EvictColdNodes(t) \/ MaybeCompress(t)
        PROVE  TypeOK'
    BY <1>3, <1>8 DEF EvictColdNodes, MaybeCompress, TypeOK
  <1> QED
    BY <1>1, <1>2, <1>4, <1>5, <1>6, <1>7, <1>8 DEF Next

(* The tiers keep their types, and an id never names two nodes.            *)
THEOREM TiersTyped == Spec => []TypeOK
  <1>1. ASSUME Init
        PROVE  TypeOK
    <2>1. <<>> \in Seq(SUBSET Entry)
      OBVIOUS
    <2>2. cold \in [Task -> SUBSET Node]
      BY <1>1 DEF Init
    <2>3. added \in 0 .. MaxAdds
      BY <1>1, MemoryAssumption DEF Init
    <2> QED
      BY <1>1, <2>1, <2>2, <2>3 DEF Init, TypeOK
  <1> QED
    BY <1>1, TypeStep, PTL DEF Spec

-----------------------------------------------------------------------------
(* Order of the snapshots *)

LEMMA OrderStep ==
    ASSUME TypeOK, SnapshotsAgeInOrder, [Next]_vars
    PROVE  SnapshotsAgeInOrder'
  <1> DEFINE Snapshot == SUBSET Entry
  <1>1. session \in Seq(Snapshot) /\ archive \in Seq(Snapshot)
    BY DEF TypeOK
  <1>2. ASSUME NEW t \in Task, ModelAnswers(t)
        PROVE  SnapshotsAgeInOrder'
    <2> DEFINE new == Entries(cold[t])
    <2>1. /\ new \in Snapshot
          /\ session' = Append(session, new)
          /\ summaries' = Append(archive \o session, new)
          /\ archive' = archive
      BY <1>2, SummarisedTypes DEF ModelAnswers, SnapshotsAgeInOrder
    <2> HIDE DEF new, Snapshot
    <2>2. <<new>> \in Seq(Snapshot) /\ archive \o session \in Seq(Snapshot)
      BY <1>1, <2>1, ConcatProperties
    <2>3. session' = session \o <<new>>
      BY <1>1, <2>1, AppendIsConcat
    <2>4. summaries' = (archive \o session) \o <<new>>
      BY <2>1, <2>2, AppendIsConcat
    <2>5. (archive \o session) \o <<new>> = archive \o (session \o <<new>>)
      BY <1>1, <2>2, ConcatAssociative
    <2> QED
      BY <2>1, <2>3, <2>4, <2>5 DEF SnapshotsAgeInOrder
  <1>3. CASE ArchiveSessionOverflow
    <2>1. PICK n \in 0 .. Overflow : Moved(n)
      BY <1>3 DEF ArchiveSessionOverflow
    <2> DEFINE moved == SubSeq(session, 1, n)
    <2>2. moved \in Seq(Snapshot) /\ session' \in Seq(Snapshot) /\ moved \o session' = session
      BY <1>3, <2>1, MovedTypes DEF ArchiveSessionOverflow
    <2>3. archive' = archive \o moved
      BY <2>1 DEF Moved
    <2>4. summaries' = archive \o session
      BY <1>3 DEF ArchiveSessionOverflow, SnapshotsAgeInOrder
    <2> HIDE DEF moved, Snapshot
    <2>5. ASSUME NEW rest \in Seq(Snapshot)
          PROVE  (archive \o moved) \o rest = archive \o (moved \o rest)
      BY <1>1, <2>2, ConcatAssociative
    <2> QED
      BY <2>2, <2>3, <2>4, <2>5 DEF SnapshotsAgeInOrder
  <1>4. ASSUME UNCHANGED <<session, archive, summaries>>
        PROVE  SnapshotsAgeInOrder'
    BY <1>4 DEF SnapshotsAgeInOrder
  <1>5. ASSUME NEW id \in Id, Add(id) \/ MarkActive(id)
        PROVE  SnapshotsAgeInOrder'
    BY <1>4, <1>5 DEF Add, MarkActive
  <1>6. ASSUME NEW t \in Task, EvictColdNodes(t) \/ MaybeCompress(t) \/ ModelFails(t)
        PROVE  SnapshotsAgeInOrder'
    BY <1>4, <1>6 DEF EvictColdNodes, MaybeCompress, ReadColdNodes, ModelFails
  <1> QED
    BY <1>2, <1>3, <1>4, <1>5, <1>6 DEF Next, vars

(* No snapshot is lost, doubled or overtaken, wherever an archiving breaks *)
(* off and whatever is evicted before it is taken up again.                *)
THEOREM OrderKept == Spec => []SnapshotsAgeInOrder
  <1>1. Init => SnapshotsAgeInOrder
    BY DEF Init, SnapshotsAgeInOrder
  <1> QED
    BY <1>1, OrderStep, TiersTyped, PTL DEF Spec

-----------------------------------------------------------------------------
(* Nothing is forgotten *)

(* A node under an id that is being evicted was read by the eviction, or   *)
(* was added during it.                                                    *)
EvictedWasRead ==
    \A t \in Task : \A n \in nodes :
        n.id \in Ids(cold[t]) => n.entry \in Entries(cold[t]) \/ n.entry \in contested

LEMMA ReadStep ==
    ASSUME TypeOK, EvictedWasRead, [Next]_vars
    PROVE  EvictedWasRead'
  <1>1. ASSUME NEW id \in Id, Add(id)
        PROVE  EvictedWasRead'
    <2>1. PICK kind \in Kind, temperature \in Temperature, active_path \in BOOLEAN :
              nodes' = Without(nodes, {id}) \cup {NewNode(id, kind, temperature, active_path)}
      BY <1>1 DEF Add
    <2>2. /\ NewNode(id, kind, temperature, active_path).id = id
          /\ NewNode(id, kind, temperature, active_path).entry = added + 1
      BY <1>1, NewNodeType DEF Add
    <2>3. \A n \in nodes' : n \in nodes \/ (n.id = id /\ n.entry = added + 1)
      BY <2>1, <2>2 DEF Without
    <2>4. cold' = cold /\ contested \subseteq contested'
          /\ \A t \in Task : id \in Ids(cold[t]) => added + 1 \in contested'
      BY <1>1 DEF Add
    <2> QED
      BY <2>3, <2>4 DEF EvictedWasRead
  <1>2. ASSUME NEW id \in Id, MarkActive(id)
        PROVE  EvictedWasRead'
    <2>1. \A n \in nodes' : \E m \in nodes : m.id = n.id /\ m.entry = n.entry
      BY <1>2, MarkKeeps
    <2>2. cold' = cold /\ contested' = contested
      BY <1>2 DEF MarkActive, history
    <2> QED
      BY <2>1, <2>2 DEF EvictedWasRead
  <1>3. ASSUME NEW t \in Task, ReadColdNodes(t)
        PROVE  EvictedWasRead'
    <2>1. nodes' = nodes /\ contested' = contested /\ cold' = [cold EXCEPT ![t] = ColdNodes]
      BY <1>3 DEF ReadColdNodes, graphVars
    <2>2. \A n \in nodes : n.id \in Ids(ColdNodes) => n \in ColdNodes
      BY DEF ColdNodes, Ids, TypeOK
    <2>3. \A n \in ColdNodes : n.entry \in Entries(ColdNodes)
      BY DEF Entries
    <2>4. cold \in [Task -> SUBSET Node]
      BY DEF TypeOK
    <2> QED
      BY <2>1, <2>2, <2>3, <2>4 DEF EvictedWasRead
  <1>4. ASSUME NEW t \in Task, ModelAnswers(t) \/ ModelFails(t)
        PROVE  EvictedWasRead'
    <2>1. nodes' \subseteq nodes
      BY <1>4, SummarisedTypes DEF ModelFails, graphVars
    <2>2. contested' = contested /\ cold' = [cold EXCEPT ![t] = {}]
      BY <1>4 DEF ModelAnswers, ModelFails, history
    <2>3. Ids({}) = {}
      BY DEF Ids
    <2>4. cold \in [Task -> SUBSET Node]
      BY DEF TypeOK
    <2> QED
      BY <2>1, <2>2, <2>3, <2>4 DEF EvictedWasRead
  <1>5. CASE ArchiveSessionOverflow \/ UNCHANGED vars
    BY <1>5 DEF ArchiveSessionOverflow, vars, graphVars, history, EvictedWasRead
  <1>6. ASSUME NEW t \in Task, EvictColdNodes(t) \/ MaybeCompress(t)
        PROVE  EvictedWasRead'
    BY <1>3, <1>6 DEF EvictColdNodes, MaybeCompress
  <1> QED
    BY <1>1, <1>2, <1>4, <1>5, <1>6 DEF Next

(* An eviction can take with it, unread, only what was added during it.    *)
THEOREM EvictionReadsFirst == Spec => []EvictedWasRead
  <1>1. Init => EvictedWasRead
    BY DEF Init, EvictedWasRead
  <1> QED
    BY <1>1, ReadStep, TiersTyped, PTL DEF Spec

(* The session store and the archive together hold every snapshot.         *)
LEMMA SnapshotsHeld ==
    ASSUME TypeOK, SnapshotsAgeInOrder
    PROVE  \A e : (\/ \E i \in 1 .. Len(session) : e \in session[i]
                  \/ \E i \in 1 .. Len(archive) : e \in archive[i])
                 <=> \E i \in 1 .. Len(summaries) : e \in summaries[i]
  <1> DEFINE Snapshot == SUBSET Entry
  <1>1. session \in Seq(Snapshot) /\ archive \in Seq(Snapshot) /\ summaries = archive \o session
    BY DEF TypeOK, SnapshotsAgeInOrder
  <1> HIDE DEF Snapshot
  <1>2. Len(session) \in Nat /\ Len(archive) \in Nat
    BY <1>1, LenProperties
  <1>3. Len(summaries) = Len(archive) + Len(session)
    BY <1>1, ConcatProperties
  <1>4. \A i \in 1 .. Len(archive) + Len(session) :
            summaries[i] = IF i <= Len(archive) THEN archive[i] ELSE session[i - Len(archive)]
    BY <1>1, ConcatProperties
  <1>5. \A i \in 1 .. Len(archive) : i \in 1 .. Len(summaries) /\ summaries[i] = archive[i]
    BY <1>2, <1>3, <1>4
  <1>6. \A i \in 1 .. Len(session) :
            /\ i + Len(archive) \in 1 .. Len(summaries)
            /\ summaries[i + Len(archive)] = session[i]
    BY <1>2, <1>3, <1>4
  <1>7. \A i \in 1 .. Len(summaries) :
            \/ i \in 1 .. Len(archive) /\ summaries[i] = archive[i]
            \/ i - Len(archive) \in 1 .. Len(session) /\ summaries[i] = session[i - Len(archive)]
    BY <1>2, <1>3, <1>4
  <1> QED
    BY <1>5, <1>6, <1>7

(* NothingForgotten, with the history of snapshots for the two tiers.      *)
EveryEntryIsHeld ==
    \A e \in 1 .. added :
        \/ e \in Entries(nodes)
        \/ \E i \in 1 .. Len(summaries) : e \in summaries[i]
        \/ e \in replaced
        \/ e \in contested

(* A snapshot that is made is the last of the history.                     *)
LEMMA HistoryGrows ==
    ASSUME TypeOK, NEW t \in Task, ModelAnswers(t)
    PROVE  /\ Len(summaries) \in Nat
           /\ Len(summaries') = Len(summaries) + 1
           /\ \A i \in 1 .. Len(summaries) : summaries'[i] = summaries[i]
           /\ summaries'[Len(summaries) + 1] = Entries(cold[t])
  <1> DEFINE Snapshot == SUBSET Entry
             new == Entries(cold[t])
  <1>1. new \in Snapshot /\ summaries' = Append(summaries, new) /\ summaries \in Seq(Snapshot)
    BY SummarisedTypes DEF TypeOK
  <1> HIDE DEF Snapshot
  <1>2. Len(summaries) \in Nat
    BY <1>1, LenProperties
  <1> QED
    BY <1>1, <1>2, AppendProperties

LEMMA HeldStep ==
    ASSUME TypeOK, EvictedWasRead, EveryEntryIsHeld, [Next]_vars
    PROVE  EveryEntryIsHeld'
  <1>1. ASSUME NEW id \in Id, Add(id)
        PROVE  EveryEntryIsHeld'
    <2>1. PICK kind \in Kind, temperature \in Temperature, active_path \in BOOLEAN :
              nodes' = Without(nodes, {id}) \cup {NewNode(id, kind, temperature, active_path)}
      BY <1>1 DEF Add
    <2>2. added + 1 \in Entries(nodes')
      BY <1>1, <2>1, NewNodeType DEF Add, Entries
    <2>3. \A e \in Entries(nodes) : e \in Entries(nodes') \/ e \in replaced'
      BY <1>1, <2>1 DEF Add, Entries, Without
    <2>4. /\ added' = added + 1 /\ summaries' = summaries
          /\ replaced \subseteq replaced' /\ contested \subseteq contested'
      BY <1>1 DEF Add
    <2>5. added \in Nat
      BY MemoryAssumption DEF TypeOK
    <2>6. \A e \in 1 .. added' : e \in 1 .. added \/ e = added + 1
      BY <2>4, <2>5
    <2> QED
      BY <2>2, <2>3, <2>4, <2>6 DEF EveryEntryIsHeld
  <1>2. ASSUME NEW id \in Id, MarkActive(id)
        PROVE  EveryEntryIsHeld'
    <2>1. Entries(nodes) \subseteq Entries(nodes')
      BY <1>2, MarkKeeps DEF Entries
    <2>2. UNCHANGED <<added, summaries, replaced, contested>>
      BY <1>2 DEF MarkActive, history
    <2> QED
      BY <2>1, <2>2 DEF EveryEntryIsHeld
  <1>3. ASSUME NEW t \in Task, ModelAnswers(t)
        PROVE  EveryEntryIsHeld'
    <2>1. nodes' = {n \in nodes : n.id \notin Ids(cold[t])}
      BY <1>3 DEF ModelAnswers, Summarised, Without
    <2>2. \A e \in Entries(nodes) :
              e \in Entries(nodes') \/ e \in Entries(cold[t]) \/ e \in contested
      BY <2>1 DEF Entries, EvictedWasRead
    <2>3. UNCHANGED <<added, replaced, contested>>
      BY <1>3 DEF ModelAnswers, history
    <2>4. /\ Len(summaries) + 1 \in 1 .. Len(summaries')
          /\ \A i \in 1 .. Len(summaries) : i \in 1 .. Len(summaries')
      BY <1>3, HistoryGrows
    <2> QED
      BY <1>3, <2>2, <2>3, <2>4, HistoryGrows DEF EveryEntryIsHeld
  <1>4. ASSUME UNCHANGED <<nodes, added, summaries, replaced, contested>>
        PROVE  EveryEntryIsHeld'
    BY <1>4 DEF EveryEntryIsHeld
  <1>5. ASSUME NEW t \in Task, EvictColdNodes(t) \/ MaybeCompress(t) \/ ModelFails(t)
        PROVE  EveryEntryIsHeld'
    BY <1>4, <1>5 DEF EvictColdNodes, MaybeCompress, ReadColdNodes, ModelFails, graphVars, history
  <1>6. CASE ArchiveSessionOverflow \/ UNCHANGED vars
    BY <1>4, <1>6 DEF ArchiveSessionOverflow, vars, graphVars, history
  <1> QED
    BY <1>1, <1>2, <1>3, <1>5, <1>6 DEF Next

(* Whatever fails and whatever runs at the same time, an entry leaves the  *)
(* tiers only by an add under its id, before its eviction or during it.    *)
THEOREM NothingIsLost == Spec => []NothingForgotten
  <1>1. Init => EveryEntryIsHeld
    BY DEF Init, EveryEntryIsHeld
  <1>2. TypeOK /\ SnapshotsAgeInOrder /\ EveryEntryIsHeld => NothingForgotten
    BY SnapshotsHeld DEF EveryEntryIsHeld, NothingForgotten
  <1> QED
    BY <1>1, <1>2, HeldStep, TiersTyped, OrderKept, EvictionReadsFirst, PTL DEF Spec

-----------------------------------------------------------------------------
(* Nothing is summarised twice *)

(* Entries are numbered in the order of the adds, and name one id.         *)
EntriesAreNumbered ==
    /\ \A n \in nodes : n.entry <= added
    /\ \A t \in Task : \A n \in cold[t] : n.entry <= added
    /\ \A i \in 1 .. Len(summaries) : \A e \in summaries[i] : e <= added
    /\ \A m, n \in nodes : m.entry = n.entry => m.id = n.id
    /\ \A t \in Task : \A m \in cold[t] : \A n \in nodes : m.entry = n.entry => m.id = n.id

(* What has been summarised has left the graph, and what two evictions or  *)
(* an eviction and the history have in common was read twice at once.      *)
SummarisedAreGone ==
    /\ \A i \in 1 .. Len(summaries) : Entries(nodes) \cap summaries[i] = {}
    /\ \A t \in Task : \A i \in 1 .. Len(summaries) :
          Entries(cold[t]) \cap summaries[i] \subseteq shared
    /\ \A t, u \in Task : t # u => Entries(cold[t]) \cap Entries(cold[u]) \subseteq shared

LEMMA NumberedStep ==
    ASSUME TypeOK, EntriesAreNumbered, [Next]_vars
    PROVE  EntriesAreNumbered'
  <1>1. ASSUME NEW id \in Id, Add(id)
        PROVE  EntriesAreNumbered'
    <2>1. PICK kind \in Kind, temperature \in Temperature, active_path \in BOOLEAN :
              nodes' = Without(nodes, {id}) \cup {NewNode(id, kind, temperature, active_path)}
      BY <1>1 DEF Add
    <2>2. /\ NewNode(id, kind, temperature, active_path).id = id
          /\ NewNode(id, kind, temperature, active_path).entry = added + 1
      BY <1>1, NewNodeType DEF Add
    <2>3. \A n \in nodes' : n \in nodes \/ (n.id = id /\ n.entry = added + 1)
      BY <2>1, <2>2 DEF Without
    <2>4. added' = added + 1 /\ cold' = cold /\ summaries' = summaries
      BY <1>1 DEF Add
    <2>5. added \in Nat /\ \A n \in nodes : n.entry \in Nat
      BY MemoryAssumption DEF TypeOK, Node, Entry
    <2>6. \A t \in Task : \A n \in cold[t] : n.entry \in Nat
      BY DEF TypeOK, Node, Entry
    <2>7. summaries \in Seq(SUBSET Entry)
      BY DEF TypeOK
    <2>8. \A i \in 1 .. Len(summaries) : \A e \in summaries[i] : e \in Nat
      BY <2>7, ElementOfSeq DEF Entry
    <2>9. /\ \A n \in nodes' : n.entry <= added'
          /\ \A t \in Task : \A n \in cold'[t] : n.entry <= added'
          /\ \A i \in 1 .. Len(summaries') : \A e \in summaries'[i] : e <= added'
      BY <2>3, <2>4, <2>5, <2>6, <2>8 DEF EntriesAreNumbered
    <2>10. \A m, n \in nodes' : m.entry = n.entry => m.id = n.id
      BY <2>3, <2>5 DEF EntriesAreNumbered
    <2>11. \A t \in Task : \A m \in cold'[t] : \A n \in nodes' : m.entry = n.entry => m.id = n.id
      BY <2>3, <2>4, <2>5, <2>6 DEF EntriesAreNumbered
    <2> QED
      BY <2>9, <2>10, <2>11 DEF EntriesAreNumbered
  <1>2. ASSUME NEW id \in Id, MarkActive(id)
        PROVE  EntriesAreNumbered'
    <2>1. \A n \in nodes' : \E m \in nodes : m.id = n.id /\ m.entry = n.entry
      BY <1>2, MarkKeeps
    <2>2. UNCHANGED <<cold, added, summaries>>
      BY <1>2 DEF MarkActive
    <2> QED
      BY <2>1, <2>2 DEF EntriesAreNumbered
  <1>3. ASSUME NEW t \in Task, ReadColdNodes(t)
        PROVE  EntriesAreNumbered'
    <2>1. UNCHANGED <<nodes, added, summaries>> /\ cold' = [cold EXCEPT ![t] = ColdNodes]
      BY <1>3 DEF ReadColdNodes, graphVars
    <2>2. ColdNodes \subseteq nodes
      BY DEF ColdNodes
    <2>3. cold \in [Task -> SUBSET Node]
      BY DEF TypeOK
    <2>4. \A u \in Task : \A n \in cold'[u] : n \in nodes \/ n \in cold[u]
      BY <2>1, <2>2, <2>3
    <2> QED
      BY <2>1, <2>4 DEF EntriesAreNumbered
  <1>4. ASSUME NEW t \in Task, ModelAnswers(t) \/ ModelFails(t)
        PROVE  EntriesAreNumbered'
    <2>1. nodes' \subseteq nodes
      BY <1>4, SummarisedTypes DEF ModelFails, graphVars
    <2>2. added' = added /\ cold' = [cold EXCEPT ![t] = {}]
      BY <1>4 DEF ModelAnswers, ModelFails
    <2>3. cold \in [Task -> SUBSET Node]
      BY DEF TypeOK
    <2>4. \A u \in Task : cold'[u] \subseteq cold[u]
      BY <2>2, <2>3
    <2>5. \A i \in 1 .. Len(summaries') : \A e \in summaries'[i] : e <= added
      <3>1. CASE ModelAnswers(t)
        <4>1. \A e \in Entries(cold[t]) : e <= added
          BY DEF Entries, EntriesAreNumbered
        <4>2. \A i \in 1 .. Len(summaries') :
                  i \in 1 .. Len(summaries) \/ i = Len(summaries) + 1
          BY <3>1, HistoryGrows
        <4> QED
          BY <3>1, <4>1, <4>2, HistoryGrows DEF EntriesAreNumbered
      <3>2. CASE ModelFails(t)
        BY <3>2 DEF ModelFails, EntriesAreNumbered
      <3> QED
        BY <1>4, <3>1, <3>2
    <2> QED
      BY <2>1, <2>2, <2>4, <2>5 DEF EntriesAreNumbered
  <1>5. CASE ArchiveSessionOverflow \/ UNCHANGED vars
    BY <1>5 DEF ArchiveSessionOverflow, vars, graphVars, EntriesAreNumbered
  <1>6. ASSUME NEW t \in Task, EvictColdNodes(t) \/ MaybeCompress(t)
        PROVE  EntriesAreNumbered'
    BY <1>3, <1>6 DEF EvictColdNodes, MaybeCompress
  <1> QED
    BY <1>1, <1>2, <1>4, <1>5, <1>6 DEF Next

LEMMA GoneStep ==
    ASSUME TypeOK, EntriesAreNumbered, SummarisedAreGone, [Next]_vars
    PROVE  SummarisedAreGone'
  <1>1. ASSUME NEW id \in Id, Add(id)
        PROVE  SummarisedAreGone'
    <2>1. PICK kind \in Kind, temperature \in Temperature, active_path \in BOOLEAN :
              nodes' = Without(nodes, {id}) \cup {NewNode(id, kind, temperature, active_path)}
      BY <1>1 DEF Add
    <2>2. NewNode(id, kind, temperature, active_path).entry = added + 1
      BY <1>1, NewNodeType DEF Add
    <2>3. Entries(nodes') \subseteq Entries(nodes) \cup {added + 1}
      BY <2>1, <2>2 DEF Without, Entries
    <2>4. UNCHANGED <<cold, summaries, shared>>
      BY <1>1 DEF Add
    <2>5. added \in Nat
      BY MemoryAssumption DEF TypeOK
    <2>6. \A i \in 1 .. Len(summaries) : added + 1 \notin summaries[i]
      BY <2>5 DEF EntriesAreNumbered
    <2> QED
      BY <2>3, <2>4, <2>6 DEF SummarisedAreGone
  <1>2. ASSUME NEW id \in Id, MarkActive(id)
        PROVE  SummarisedAreGone'
    <2>1. Entries(nodes') \subseteq Entries(nodes)
      BY <1>2, MarkKeeps DEF Entries
    <2>2. UNCHANGED <<cold, summaries, shared>>
      BY <1>2 DEF MarkActive, history
    <2> QED
      BY <2>1, <2>2 DEF SummarisedAreGone
  <1>3. ASSUME NEW t \in Task, ReadColdNodes(t)
        PROVE  SummarisedAreGone'
    <2>1. UNCHANGED <<nodes, summaries>> /\ cold' = [cold EXCEPT ![t] = ColdNodes]
      BY <1>3 DEF ReadColdNodes, graphVars
    <2>2. shared \subseteq shared' /\ \A u \in Task : Entries(cold[u]) \cap Entries(ColdNodes) \subseteq shared'
      BY <1>3 DEF ReadColdNodes
    <2>3. Entries(ColdNodes) \subseteq Entries(nodes)
      BY DEF ColdNodes, Entries
    <2>4. cold \in [Task -> SUBSET Node]
      BY DEF TypeOK
    <2>5. cold'[t] = ColdNodes /\ \A u \in Task \ {t} : cold'[u] = cold[u]
      BY <2>1, <2>4
    <2>6. \A u \in Task : \A i \in 1 .. Len(summaries) :
              Entries(cold'[u]) \cap summaries[i] \subseteq shared'
      BY <2>2, <2>3, <2>5 DEF SummarisedAreGone
    <2>7. \A u, v \in Task : u # v => Entries(cold'[u]) \cap Entries(cold'[v]) \subseteq shared'
      BY <2>2, <2>5 DEF SummarisedAreGone
    <2> QED
      BY <2>1, <2>6, <2>7 DEF SummarisedAreGone
  <1>4. ASSUME NEW t \in Task, cold' = [cold EXCEPT ![t] = {}]
        PROVE  \A u \in Task : cold'[u] = cold[u] \/ Entries(cold'[u]) = {}
    BY <1>4 DEF TypeOK, Entries
  <1>5. ASSUME NEW t \in Task, ModelAnswers(t)
        PROVE  SummarisedAreGone'
    <2>1. nodes' = {n \in nodes : n.id \notin Ids(cold[t])}
      BY <1>5 DEF ModelAnswers, Summarised, Without
    <2>2. Entries(nodes') \cap Entries(cold[t]) = {}
      BY <2>1 DEF Entries, Ids, EntriesAreNumbered
    <2>3. Entries(nodes') \subseteq Entries(nodes)
      BY <2>1 DEF Entries
    <2>4. shared' = shared /\ cold' = [cold EXCEPT ![t] = {}]
      BY <1>5 DEF ModelAnswers, history
    <2>5. cold'[t] = {} /\ \A u \in Task \ {t} : cold'[u] = cold[u]
      BY <2>4 DEF TypeOK
    <2>6. Entries(cold'[t]) = {}
      BY <2>5 DEF Entries
    <2>7. \A i \in 1 .. Len(summaries') : i \in 1 .. Len(summaries) \/ i = Len(summaries) + 1
      BY <1>5, HistoryGrows
    <2>8. \A i \in 1 .. Len(summaries') : Entries(nodes') \cap summaries'[i] = {}
      BY <1>5, <2>2, <2>3, <2>7, HistoryGrows DEF SummarisedAreGone
    <2>9. \A u \in Task : \A i \in 1 .. Len(summaries') :
              Entries(cold'[u]) \cap summaries'[i] \subseteq shared'
      BY <1>5, <2>4, <2>5, <2>6, <2>7, HistoryGrows DEF SummarisedAreGone
    <2>10. \A u, v \in Task : u # v => Entries(cold'[u]) \cap Entries(cold'[v]) \subseteq shared'
      BY <1>4, <2>4 DEF SummarisedAreGone
    <2> QED
      BY <2>8, <2>9, <2>10 DEF SummarisedAreGone
  <1>6. ASSUME NEW t \in Task, ModelFails(t)
        PROVE  SummarisedAreGone'
    <2>1. UNCHANGED <<nodes, summaries, shared>> /\ cold' = [cold EXCEPT ![t] = {}]
      BY <1>6 DEF ModelFails, graphVars, history
    <2> QED
      BY <1>4, <2>1 DEF SummarisedAreGone
  <1>7. CASE ArchiveSessionOverflow \/ UNCHANGED vars
    BY <1>7 DEF ArchiveSessionOverflow, vars, graphVars, history, SummarisedAreGone
  <1>8. ASSUME NEW t \in Task, EvictColdNodes(t) \/ MaybeCompress(t)
        PROVE  SummarisedAreGone'
    BY <1>3, <1>8 DEF EvictColdNodes, MaybeCompress
  <1> QED
    BY <1>1, <1>2, <1>5, <1>6, <1>7, <1>8 DEF Next

LEMMA OnceStep ==
    ASSUME TypeOK, SummarisedAreGone, SummarisedOnce, [Next]_vars
    PROVE  SummarisedOnce'
  <1>1. ASSUME NEW t \in Task, ModelAnswers(t)
        PROVE  SummarisedOnce'
    <2>1. \A i \in 1 .. Len(summaries') : i \in 1 .. Len(summaries) \/ i = Len(summaries) + 1
      BY <1>1, HistoryGrows
    <2>2. shared' = shared
      BY <1>1 DEF ModelAnswers, history
    <2>3. \A i \in 1 .. Len(summaries) : Entries(cold[t]) \cap summaries[i] \subseteq shared
      BY DEF SummarisedAreGone
    <2> QED
      BY <1>1, <2>1, <2>2, <2>3, HistoryGrows DEF SummarisedOnce
  <1>2. ASSUME summaries' = summaries, shared \subseteq shared'
        PROVE  SummarisedOnce'
    BY <1>2 DEF SummarisedOnce
  <1>3. ASSUME NEW id \in Id, Add(id) \/ MarkActive(id)
        PROVE  SummarisedOnce'
    BY <1>2, <1>3 DEF Add, MarkActive, history
  <1>4. ASSUME NEW t \in Task, EvictColdNodes(t) \/ MaybeCompress(t) \/ ModelFails(t)
        PROVE  SummarisedOnce'
    BY <1>2, <1>4 DEF EvictColdNodes, MaybeCompress, ReadColdNodes, ModelFails, history
  <1>5. CASE ArchiveSessionOverflow \/ UNCHANGED vars
    BY <1>2, <1>5 DEF ArchiveSessionOverflow, vars, history
  <1> QED
    BY <1>1, <1>3, <1>4, <1>5 DEF Next

(* A retried eviction summarises nothing again; only evictions that read   *)
(* the graph at the same time can.                                         *)
THEOREM NothingTwice == Spec => []SummarisedOnce
  <1>1. Init => EntriesAreNumbered /\ SummarisedAreGone /\ SummarisedOnce
    BY DEF Init, EntriesAreNumbered, SummarisedAreGone, SummarisedOnce, Entries
  <1>2. TypeOK /\ EntriesAreNumbered /\ SummarisedAreGone /\ SummarisedOnce /\ [Next]_vars
            => EntriesAreNumbered' /\ SummarisedAreGone' /\ SummarisedOnce'
    BY NumberedStep, GoneStep, OnceStep
  <1> QED
    BY <1>1, <1>2, TiersTyped, PTL DEF Spec

-----------------------------------------------------------------------------
(* The active node is pinned *)

LEMMA PinnedStep ==
    ASSUME TypeOK, ActiveNodeIsPinned, [Next]_vars
    PROVE  ActiveNodeIsPinned'
  <1>1. ASSUME NEW id \in Id, Add(id)
        PROVE  ActiveNodeIsPinned'
    <2>1. PICK kind \in Kind, temperature \in Temperature, active_path \in BOOLEAN :
              nodes' = Without(nodes, {id}) \cup {NewNode(id, kind, temperature, active_path)}
      BY <1>1 DEF Add
    <2> DEFINE new == NewNode(id, kind, temperature, active_path)
    <2>2. new.id = active => new.active_path /\ new.temperature = "hot"
      BY DEF NewNode
    <2>3. active' = active /\ \A n \in nodes' : n \in nodes \/ n = new
      BY <1>1, <2>1 DEF Add, Without
    <2> QED
      BY <2>2, <2>3 DEF ActiveNodeIsPinned
  <1>2. ASSUME NEW id \in Id, MarkActive(id)
        PROVE  ActiveNodeIsPinned'
    <2> DEFINE Mark(n) == IF n.id = id THEN [n EXCEPT !.temperature = "hot", !.active_path = TRUE]
                          ELSE n
    <2>1. active' = id /\ nodes' = {Mark(n) : n \in nodes}
      BY <1>2 DEF MarkActive
    <2>2. \A n \in nodes : Mark(n).id = id => Mark(n).active_path /\ Mark(n).temperature = "hot"
      BY DEF TypeOK, Node
    <2> HIDE DEF Mark
    <2> QED
      BY <2>1, <2>2 DEF ActiveNodeIsPinned
  <1>3. ASSUME nodes' \subseteq nodes, active' = active
        PROVE  ActiveNodeIsPinned'
    BY <1>3 DEF ActiveNodeIsPinned
  <1>4. ASSUME NEW t \in Task, EvictColdNodes(t) \/ MaybeCompress(t) \/ ModelFails(t)
        PROVE  ActiveNodeIsPinned'
    BY <1>3, <1>4 DEF EvictColdNodes, MaybeCompress, ReadColdNodes, ModelFails, graphVars
  <1>5. ASSUME NEW t \in Task, ModelAnswers(t)
        PROVE  ActiveNodeIsPinned'
    BY <1>3, <1>5, SummarisedTypes DEF ModelAnswers
  <1>6. CASE ArchiveSessionOverflow \/ UNCHANGED vars
    BY <1>3, <1>6 DEF ArchiveSessionOverflow, vars, graphVars
  <1> QED
    BY <1>1, <1>2, <1>4, <1>5, <1>6 DEF Next

(* Marked first or added first, the active node is never among those an    *)
(* eviction reads.                                                         *)
THEOREM ActiveIsPinned == Spec => []ActiveNodeIsPinned
  <1>1. Init => ActiveNodeIsPinned
    BY DEF Init, ActiveNodeIsPinned
  <1> QED
    BY <1>1, PinnedStep, TiersTyped, PTL DEF Spec

-----------------------------------------------------------------------------
(* The session store at its limit *)

Evicting == {t \in Task : cold[t] # {}}

LEMMA EvictingCount ==
    /\ IsFiniteSet(Evicting) /\ Cardinality(Evicting) \in Nat
    /\ Cardinality(Evicting) <= Cardinality(Task) /\ Cardinality(Task) \in Nat
    /\ \A t \in Task \ Evicting : Cardinality(Evicting) < Cardinality(Task)
  <1>1. Evicting \in SUBSET Task /\ IsFiniteSet(Task)
    BY MemoryAssumption DEF Evicting
  <1> HIDE DEF Evicting
  <1>2. IsFiniteSet(Evicting) /\ Cardinality(Evicting) <= Cardinality(Task)
        /\ (Cardinality(Task) = Cardinality(Evicting) => Task = Evicting)
    BY <1>1, FS_Subset
  <1>3. Cardinality(Evicting) \in Nat /\ Cardinality(Task) \in Nat
    BY <1>1, <1>2, FS_CardinalityType
  <1> QED
    BY <1>2, <1>3

LEMMA EvictionEnds ==
    ASSUME TypeOK, NEW t \in Task, cold[t] # {}, cold' = [cold EXCEPT ![t] = {}]
    PROVE  Cardinality(Evicting') = Cardinality(Evicting) - 1
  <1>1. Evicting' = Evicting \ {t} /\ t \in Evicting
    BY DEF Evicting, TypeOK
  <1> QED
    BY <1>1, EvictingCount, FS_RemoveElement

LEMMA OvershootStep ==
    ASSUME TypeOK, SessionOvershoot, [Next]_vars
    PROVE  SessionOvershoot'
  <1> DEFINE Bounded == Len(session) + Cardinality(Evicting) < SessionLimit + Cardinality(Task)
  <1>1. SessionOvershoot <=> (~direct => Bounded)
    BY DEF SessionOvershoot, Evicting
  <1>2. SessionOvershoot' <=> (~direct' => Bounded')
    BY DEF SessionOvershoot, Evicting
  <1>3. /\ Len(session) \in Nat /\ SessionLimit \in Nat
        /\ Cardinality(Evicting) \in Nat /\ Cardinality(Task) \in Nat
    BY EvictingCount, MemoryAssumption, LenProperties DEF TypeOK
  <1>4. ASSUME NEW t \in Task, MaybeCompress(t)
        PROVE  SessionOvershoot'
    <2>1. Len(session) < SessionLimit
      BY <1>3, <1>4 DEF MaybeCompress, CompressTrigger
    <2>2. /\ cold[t] = {} /\ ColdNodes # {} /\ session' = session
          /\ cold' = [cold EXCEPT ![t] = ColdNodes]
      BY <1>4 DEF MaybeCompress, ReadColdNodes
    <2>3. t \notin Evicting /\ Evicting' = Evicting \cup {t}
      BY <2>2 DEF Evicting, TypeOK
    <2>4. Cardinality(Evicting') = Cardinality(Evicting) + 1
      BY <2>3, EvictingCount, FS_AddElement
    <2>5. Cardinality(Evicting) < Cardinality(Task)
      BY <2>3, EvictingCount
    <2> QED
      BY <1>2, <1>3, <2>1, <2>2, <2>4, <2>5
  <1>5. ASSUME NEW t \in Task, EvictColdNodes(t)
        PROVE  SessionOvershoot'
    BY <1>5 DEF EvictColdNodes, SessionOvershoot
  <1>6. ASSUME NEW t \in Task, ModelAnswers(t)
        PROVE  SessionOvershoot'
    <2>1. cold[t] # {} /\ cold' = [cold EXCEPT ![t] = {}] /\ direct' = direct
      BY <1>6 DEF ModelAnswers, history
    <2>2. Cardinality(Evicting') = Cardinality(Evicting) - 1
      BY <2>1, EvictionEnds
    <2> DEFINE Snapshot == SUBSET Entry
               new == Entries(cold[t])
    <2>3. new \in Snapshot /\ session' = Append(session, new) /\ session \in Seq(Snapshot)
      BY <1>6, SummarisedTypes DEF TypeOK
    <2> HIDE DEF new, Snapshot
    <2>4. Len(session') = Len(session) + 1
      BY <2>3, AppendProperties
    <2> QED
      BY <1>1, <1>2, <1>3, <2>1, <2>2, <2>4
  <1>7. ASSUME NEW t \in Task, ModelFails(t)
        PROVE  SessionOvershoot'
    <2>1. /\ cold[t] # {} /\ cold' = [cold EXCEPT ![t] = {}]
          /\ direct' = direct /\ session' = session
      BY <1>7 DEF ModelFails, history
    <2>2. Cardinality(Evicting') = Cardinality(Evicting) - 1
      BY <2>1, EvictionEnds
    <2> QED
      BY <1>1, <1>2, <1>3, <2>1, <2>2
  <1>8. CASE ArchiveSessionOverflow
    <2>1. PICK n \in 0 .. Overflow : Moved(n)
      BY <1>8 DEF ArchiveSessionOverflow
    <2>2. n \in 0 .. Len(session) /\ Len(session') = Len(session) - n
      BY <1>8, <2>1, MovedTypes DEF ArchiveSessionOverflow
    <2>3. Evicting' = Evicting /\ direct' = direct
      BY <1>8 DEF ArchiveSessionOverflow, history, Evicting
    <2> QED
      BY <1>1, <1>2, <1>3, <2>2, <2>3
  <1>9. ASSUME UNCHANGED <<session, cold, direct>>
        PROVE  SessionOvershoot'
    BY <1>9 DEF SessionOvershoot
  <1>10. ASSUME NEW id \in Id, Add(id) \/ MarkActive(id)
         PROVE  SessionOvershoot'
    BY <1>9, <1>10 DEF Add, MarkActive, history
  <1>11. CASE UNCHANGED vars
    BY <1>9, <1>11 DEF vars, history
  <1> QED
    BY <1>4, <1>5, <1>6, <1>7, <1>8, <1>10, <1>11 DEF Next

(* maybe_compress checks the limit before it awaits: beyond it the session *)
(* store takes one snapshot from each other task at most, not one per call.*)
THEOREM OvershootIsBounded == Spec => []SessionOvershoot
  <1>1. Init => SessionOvershoot
    <2>1. ASSUME Init
          PROVE  Evicting = {} /\ Len(session) = 0
      BY <2>1 DEF Init, Evicting
    <2>2. Init => Cardinality(Evicting) = 0
      BY <2>1, FS_EmptySet
    <2>3. Cardinality(Task) \in Nat /\ SessionLimit \in Nat \ {0}
      BY EvictingCount, MemoryAssumption
    <2> QED
      BY <2>1, <2>2, <2>3 DEF SessionOvershoot, Evicting
  <1> QED
    BY <1>1, OvershootStep, TiersTyped, PTL DEF Spec
=============================================================================
