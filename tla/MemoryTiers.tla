----------------------------- MODULE MemoryTiers -----------------------------
(***************************************************************************)
(* The three tiers of kore/memory: the working memory and the session      *)
(* store of one MemoryGraph, and the archive of the PersistentStore.       *)
(*                                                                         *)
(* Tasks of one event loop share the graph.  A call is atomic up to its    *)
(* await: an eviction reads the cold nodes, awaits the language model and  *)
(* then writes, while archive_session_overflow awaits only coroutines that *)
(* never suspend.                                                          *)
(*                                                                         *)
(* The content of a node is known by the number of the add that brought    *)
(* it, its entry; a snapshot is the set of the entries it summarises.      *)
(***************************************************************************)
EXTENDS Integers, Sequences, FiniteSets

CONSTANTS
    Id,            \* node ids
    Task,          \* the tasks that call the memory keeper
    None,          \* no active node
    SoftLimit,     \* WORKING_SOFT_LIMIT
    HardLimit,     \* WORKING_HARD_LIMIT
    SessionLimit,  \* SESSION_SOFT_LIMIT
    Batch,         \* how far below its limit archiving takes the session store
    MaxAdds,       \* bound on the nodes added
    MaxSummaries   \* bound on the evictions

ASSUME MemoryAssumption ==
    /\ None \notin Id
    /\ IsFiniteSet(Task)
    /\ SoftLimit \in Nat /\ HardLimit \in Nat
    /\ SessionLimit \in Nat
    /\ Batch \in 1 .. SessionLimit
    /\ MaxAdds \in Nat /\ MaxSummaries \in Nat

VARIABLES
    nodes,      \* graph.nodes
    active,     \* graph.active_node_id
    session,    \* graph.session_store
    archive,    \* the rows of the PersistentStore
    cold,       \* per task, the nodes its eviction has read; {}: no eviction
    added,      \* how many nodes have been added
    replaced,   \* history: entries replaced by another add under their id
    contested,  \* history: entries added under an id that was being evicted
    shared,     \* history: entries read by two evictions at once
    direct,     \* history: evict_cold_nodes was called without its trigger
    summaries   \* history: every snapshot ever made

graphVars == <<nodes, active>>
history == <<replaced, contested, shared, direct>>
vars == <<nodes, active, session, archive, cold, added, history, summaries>>

Entry == 1 .. MaxAdds
Temperature == {"hot", "warm", "cold"}
Kind == {"turn", "observation", "duplicate",
         "decision", "contract", "failure", "constraint"}
Node == [id: Id, entry: Entry, temperature: Temperature, active_path: BOOLEAN]

KindTemperature(kind) ==
    IF kind \in {"turn", "observation", "duplicate"} THEN "cold" ELSE "warm"

(* __post_init__: a temperature other than the default is kept.            *)
InitialTemperature(kind, temperature, active_path) ==
    IF temperature # "cold" THEN temperature
    ELSE IF active_path THEN "hot" ELSE KindTemperature(kind)

Ids(S) == {n.id : n \in S}
Entries(S) == {n.entry : n \in S}

TypeOK ==
    /\ nodes \subseteq Node
    /\ \A m, n \in nodes : m.id = n.id => m = n
    /\ active \in Id \cup {None}
    /\ session \in Seq(SUBSET Entry)
    /\ archive \in Seq(SUBSET Entry)
    /\ cold \in [Task -> SUBSET Node]
    /\ added \in 0 .. MaxAdds
    /\ replaced \subseteq Entry /\ contested \subseteq Entry /\ shared \subseteq Entry
    /\ direct \in BOOLEAN
    /\ summaries \in Seq(SUBSET Entry)

Init ==
    /\ nodes = {} /\ active = None
    /\ session = <<>> /\ archive = <<>>
    /\ cold = [t \in Task |-> {}]
    /\ added = 0
    /\ replaced = {} /\ contested = {} /\ shared = {} /\ direct = FALSE
    /\ summaries = <<>>

-----------------------------------------------------------------------------
(* MemoryGraph *)

\* Mutant of NewNode: the node under the active id is not pinned.
NewNodeUnpinned(id, kind, temperature, active_path) ==
    [id |-> id, entry |-> added + 1, active_path |-> active_path,
     temperature |-> InitialTemperature(kind, temperature, active_path)]

(* The node as add stores it: the active id makes it hot.                  *)
NewNode(id, kind, temperature, active_path) ==
    [id |-> id, entry |-> added + 1, active_path |-> active_path \/ id = active,
     temperature |-> IF id = active THEN "hot"
                     ELSE InitialTemperature(kind, temperature, active_path)]

Without(S, ids) == {n \in S : n.id \notin ids}

Add(id) ==
    /\ added < MaxAdds
    /\ \E kind \in Kind, temperature \in Temperature, active_path \in BOOLEAN :
          nodes' = Without(nodes, {id})
                       \cup {NewNode(id, kind, temperature, active_path)}
    /\ added' = added + 1
    /\ replaced' = replaced \cup Entries({n \in nodes : n.id = id})
    /\ contested' = contested \cup {e \in {added + 1} : \E t \in Task : id \in Ids(cold[t])}
    /\ UNCHANGED <<active, session, archive, cold, shared, direct, summaries>>

MarkActive(id) ==
    /\ active' = id
    /\ nodes' = {IF n.id = id THEN [n EXCEPT !.temperature = "hot", !.active_path = TRUE]
                 ELSE n : n \in nodes}
    /\ UNCHANGED <<session, archive, cold, added, history, summaries>>

ColdNodes == {n \in nodes : n.temperature = "cold" /\ ~n.active_path}

-----------------------------------------------------------------------------
(* MemoryKeeper *)

\* Mutant of CompressTrigger: the session store may be filled to its limit.
CompressTriggerLate ==
    LET n == Cardinality(nodes) IN
    IF n < SoftLimit /\ Len(session) < SessionLimit THEN "none"
    ELSE IF Len(session) > SessionLimit THEN "archive_session"
    ELSE IF n < HardLimit THEN "summarize_cold"
    ELSE "force_evict"

CompressTrigger ==
    LET n == Cardinality(nodes) IN
    IF n < SoftLimit /\ Len(session) < SessionLimit THEN "none"
    ELSE IF Len(session) >= SessionLimit THEN "archive_session"
    ELSE IF n < HardLimit THEN "summarize_cold"
    ELSE "force_evict"

(* evict_cold_nodes up to its await.  Without a cold node it changes       *)
(* nothing, forced or not: NodeTemperature is not imported in              *)
(* memory_keeper.py, so that a forced eviction raises NameError at the     *)
(* first node off the active path and else has no candidates.              *)
ReadColdNodes(t) ==
    /\ cold[t] = {}
    /\ Len(summaries) < MaxSummaries
    /\ ColdNodes # {}
    /\ cold' = [cold EXCEPT ![t] = ColdNodes]
    /\ shared' = shared \cup UNION {Entries(cold[u]) \cap Entries(ColdNodes) : u \in Task}
    /\ UNCHANGED <<graphVars, session, archive, added, replaced, contested, summaries>>

MaybeCompress(t) ==
    /\ CompressTrigger \in {"summarize_cold", "force_evict"}
    /\ ReadColdNodes(t)
    /\ direct' = direct

EvictColdNodes(t) == ReadColdNodes(t) /\ direct' = TRUE

\* Mutant of Summarised: the nodes stay in the graph.
SummarisedKeepingNodes(t) ==
    /\ session' = Append(session, Entries(cold[t]))
    /\ summaries' = Append(summaries, Entries(cold[t]))
    /\ nodes' = nodes

(* The rest of the eviction: the snapshot is of the nodes read before the  *)
(* await, and what is removed is whatever bears their ids now.             *)
Summarised(t) ==
    /\ session' = Append(session, Entries(cold[t]))
    /\ summaries' = Append(summaries, Entries(cold[t]))
    /\ nodes' = Without(nodes, Ids(cold[t]))

ModelAnswers(t) ==
    /\ cold[t] # {}
    /\ Summarised(t)
    /\ cold' = [cold EXCEPT ![t] = {}]
    /\ UNCHANGED <<active, archive, added, history>>

\* Mutant of ModelFails: the nodes are gone although there is no summary.
ModelFailsEvicted(t) ==
    /\ cold[t] # {}
    /\ nodes' = Without(nodes, Ids(cold[t]))
    /\ cold' = [cold EXCEPT ![t] = {}]
    /\ UNCHANGED <<active, session, archive, added, history, summaries>>

(* The request fails, times out or is cancelled: the await raises.         *)
ModelFails(t) ==
    /\ cold[t] # {}
    /\ cold' = [cold EXCEPT ![t] = {}]
    /\ UNCHANGED <<graphVars, session, archive, added, history, summaries>>

-----------------------------------------------------------------------------
(* PersistentStore *)

Overflow == Len(session) - SessionLimit + Batch

\* Mutant of Moved: the rows are written in the loop, the session is cut after it.
MovedAtEnd(n) ==
    /\ archive' = archive \o SubSeq(session, 1, n)
    /\ session' = IF n = Overflow THEN SubSeq(session, n + 1, Len(session)) ELSE session

(* The n oldest snapshots become rows and leave the session, one by one.   *)
Moved(n) ==
    /\ archive' = archive \o SubSeq(session, 1, n)
    /\ session' = SubSeq(session, n + 1, Len(session))

(* Fewer than Overflow when the write of a row raises.                     *)
ArchiveSessionOverflow ==
    /\ Len(session) >= SessionLimit
    /\ \E n \in 0 .. Overflow : Moved(n)
    /\ UNCHANGED <<graphVars, cold, added, history, summaries>>

Next ==
    \/ \E id \in Id : Add(id) \/ MarkActive(id)
    \/ \E t \in Task : \/ EvictColdNodes(t) \/ MaybeCompress(t)
                       \/ ModelAnswers(t) \/ ModelFails(t)
    \/ ArchiveSessionOverflow

Spec == Init /\ [][Next]_vars

-----------------------------------------------------------------------------
(* The promise of MemoryGraph, "nodes evict downward, never hard-deleted": *)
(* whatever the order of adds, evictions, failing models and failing       *)
(* writes, every entry is in one of the tiers, unless its id was added     *)
(* again, or was being evicted when it was added.                          *)
NothingForgotten ==
    \A e \in 1 .. added :
        \/ e \in Entries(nodes)
        \/ \E i \in 1 .. Len(session) : e \in session[i]
        \/ \E i \in 1 .. Len(archive) : e \in archive[i]
        \/ e \in replaced
        \/ e \in contested

(* No entry is summarised twice, however often an eviction is retried,     *)
(* unless two evictions read it at the same time.                          *)
SummarisedOnce ==
    \A i, j \in 1 .. Len(summaries) :
        i # j => summaries[i] \cap summaries[j] \subseteq shared

(* The archive followed by the session store is the history of snapshots:  *)
(* none is lost, doubled or overtaken when an archiving breaks off halfway.*)
SnapshotsAgeInOrder == archive \o session = summaries

(* Callers that leave the decision to maybe_compress fill the session      *)
(* store beyond its limit only by the evictions under way in the others.   *)
SessionOvershoot ==
    ~direct => Len(session) + Cardinality({t \in Task : cold[t] # {}})
                   < SessionLimit + Cardinality(Task)

(* The node under the active id is pinned, whether it was marked before or *)
(* after it was added or replaced: no eviction that begins now reads it.   *)
ActiveNodeIsPinned ==
    \A n \in nodes : n.id = active => n.active_path /\ n.temperature = "hot"

(* test_hot_node_not_evicted: the active node survives an eviction.        *)
ActiveNodeStays == [][\A n \in nodes : n.id = active => n.id \in Ids(nodes')]_vars
=============================================================================
