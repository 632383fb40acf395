----------------------------- MODULE MCBridgeRun -----------------------------
(* An instance of BridgeRun for TLC: up to three modules and a name that   *)
(* only EDGE lines mention, under every set of at most MaxEdges edges,     *)
(* cycles and self-edges included.                                         *)
EXTENDS BridgeRun, TLC

CONSTANTS a, b, c, ghost, MaxEdges

MCId == {a, b, c, ghost}
MCDepNode == (b :> ghost)
MCRole == (a :> "builder") @@ (b :> "critic") @@ (c :> "builder") @@ (ghost :> "other")
MCGain == [n \in MCId |-> 48]
MCCauses == {[type |-> "path_blocked", dependency |-> b]}

ModuleRank == (a :> 1) @@ (b :> 2) @@ (c :> 3) @@ (ghost :> 0)
ModuleRisk == (a :> 3) @@ (b :> 3) @@ (c :> 1) @@ (ghost :> 0)

EdgeSets(modules) ==
    {e \in SUBSET (MCId \X modules) : Cardinality(e) <= MaxEdges}

ManifestsOf(modules) ==
    {[rank  |-> [n \in MCId |-> IF n \in modules THEN ModuleRank[n] ELSE 0],
      risk  |-> ModuleRisk,
      edges |-> e] : e \in EdgeSets(modules)}

MCManifests ==
    ManifestsOf({}) \cup ManifestsOf({a}) \cup ManifestsOf({a, b}) \cup ManifestsOf({a, b, c})
=============================================================================
