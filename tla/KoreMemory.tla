------------------------------- MODULE KoreMemory ------------------------------
(***************************************************************************)
(* The working memory of the agent panel (kore-memory.ts): nodes with a    *)
(* temperature in one JSON file of the user, read and written as a whole   *)
(* by every invocation of memory:store, getContext and clear.  Writing may *)
(* fail, which is swallowed, or be cut short by the end of the process;    *)
(* a file that cannot be parsed counts as empty.                           *)
(*                                                                         *)
(* Time is counted in periods of the decay: WarmAge and ColdAge stand for  *)
(* its 4 and 24 hours.  A node is its number; contents are left out.       *)
(***************************************************************************)
EXTENDS Naturals, Sequences, FiniteSets

CONSTANTS MemorySessions,
          Limit,            \* nodes kept: 500 in the code
          ContextSize,      \* nodes returned: 10 in the code
          WarmAge, ColdAge,
          MaxMemories,      \* bound: nodes ever stored
          MaxTime           \* bound: periods that pass

ASSUME MemoryBounds ==
  /\ {Limit, ContextSize, WarmAge, ColdAge, MaxMemories, MaxTime} \subseteq Nat
  /\ 0 < Limit /\ WarmAge < ColdAge

VARIABLES memoryFile, \* nodes of the file, as pushed
          torn,       \* the file cannot be parsed
          time,
          context,    \* what getContext returned last
          memories,   \* history: every node answered with ok, by number
          cleared,    \* history: nodes of cleared sessions
          lost        \* history: nodes a failed write or a torn file lost

memoryVars == <<memoryFile, torn, time, context, memories, cleared, lost>>

Temperatures == {"hot", "warm", "cold"}
NodesHeld(s) == {s[i] : i \in DOMAIN s}

MemoryInit ==
  /\ memoryFile = <<>> /\ torn = FALSE /\ time = 0 /\ context = <<>>
  /\ memories = <<>> /\ cleared = {} /\ lost = {}

-------------------------------------------------------------------------------
LoadStore == IF torn THEN <<>> ELSE memoryFile

(* memory:getContext returns the newest nodes of a session.                *)
Newest(nodes) == IF Len(nodes) > ContextSize
                 THEN SubSeq(nodes, Len(nodes) - ContextSize + 1, Len(nodes)) ELSE nodes

(* saveStore: done; failed without a word, which loses the nodes added by  *)
(* this call; or cut short, which loses these and all there were.          *)
SaveStore(nodes, added) ==
  \/ memoryFile' = nodes /\ torn' = FALSE /\ UNCHANGED lost
  \/ UNCHANGED <<memoryFile, torn>> /\ lost' = lost \cup added
  \/ /\ memoryFile' = <<>> /\ torn' = TRUE
     /\ lost' = lost \cup added \cup {n.id : n \in NodesHeld(memories)}

CoolNodes(nodes) ==
  [i \in DOMAIN nodes |->
     LET age == time - nodes[i].timestamp
     IN [nodes[i] EXCEPT !.temperature = IF age > ColdAge THEN "cold"
                                         ELSE IF age > WarmAge THEN "warm" ELSE @]]

(* The trim goes by age, whatever the temperature.  Nodes are pushed in    *)
(* the order of their timestamps, so that sorting by these moves none.     *)
Trimmed(nodes) ==
  IF Len(nodes) > Limit THEN SubSeq(nodes, Len(nodes) - Limit + 1, Len(nodes)) ELSE nodes

(* Array.filter: the nodes at the given positions, in their order.         *)
NodesAt(nodes, positions) ==
  LET upTo[i \in 0 .. Len(nodes)] ==
        IF i = 0 THEN <<>>
        ELSE IF i \in positions THEN Append(upTo[i - 1], nodes[i]) ELSE upTo[i - 1]
  IN upTo[Len(nodes)]

StoreMemory(s) ==
  /\ Len(memories) < MaxMemories
  /\ LET node == [id |-> Len(memories) + 1, session |-> s,
                  temperature |-> "hot", timestamp |-> time]
     IN /\ SaveStore(Trimmed(Append(LoadStore, node)), {node.id})
        /\ memories' = Append(memories, node)
  /\ UNCHANGED <<time, context, cleared>>

(* The newest nodes of the session that are not cold; the decay is kept.   *)
GetContext(s) ==
  LET cooled == CoolNodes(LoadStore)
      kept   == NodesAt(cooled, {i \in DOMAIN cooled : cooled[i].session = s
                                                       /\ cooled[i].temperature # "cold"})
  IN /\ context' = Newest(kept)
     /\ SaveStore(cooled, {})
     /\ UNCHANGED <<time, memories, cleared>>

ClearMemory(s) ==
  /\ SaveStore(NodesAt(LoadStore, {i \in DOMAIN LoadStore : LoadStore[i].session # s}), {})
  /\ cleared' = cleared \cup {n.id : n \in {m \in NodesHeld(memories) : m.session = s}}
  /\ UNCHANGED <<time, context, memories>>

TimePasses == /\ time < MaxTime /\ time' = time + 1
              /\ UNCHANGED <<memoryFile, torn, context, memories, cleared, lost>>

MemoryNext == \/ TimePasses
              \/ \E s \in MemorySessions : StoreMemory(s) \/ GetContext(s) \/ ClearMemory(s)

MemorySpec == MemoryInit /\ [][MemoryNext]_memoryVars

-------------------------------------------------------------------------------
MemoryNode == [id : 1..MaxMemories, session : MemorySessions,
               temperature : Temperatures, timestamp : 0..MaxTime]

(* Types of the memory.                                                    *)
MemoryTypeOK ==
  /\ {memoryFile, context, memories} \subseteq Seq(MemoryNode)
  /\ torn \in BOOLEAN /\ time \in 0..MaxTime
  /\ {cleared, lost} \subseteq SUBSET (1..MaxMemories)

(* A memory that was acknowledged, not cleared, and not lost by a write    *)
(* that failed (only what it added) or tore the file (all up to then) is   *)
(* missing only when Limit newer ones were stored after it.  The trim      *)
(* ("remove oldest cold ones") goes by age, but in the file no node is     *)
(* colder than an older one: it takes cold nodes first while there are     *)
(* any, and hot ones when there are none.                                  *)
MemoryIsKept ==
  /\ \A n \in NodesHeld(memories) :
       n.id \notin cleared \cup lost /\ (\A k \in NodesHeld(memoryFile) : k.id # n.id)
         => Len(memories) - n.id >= Limit
  /\ \A i, j \in DOMAIN memoryFile :
       i < j /\ memoryFile[j].temperature = "cold" => memoryFile[i].temperature = "cold"
================================================================================
