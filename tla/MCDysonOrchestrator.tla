------------------------- MODULE MCDysonOrchestrator -------------------------
(* Instances of DysonOrchestrator for TLC.                                 *)
EXTENDS DysonOrchestrator, TLC

CONSTANTS api, tool, depLib, libPath

(* tool is a failure class, whose name a module of the spec may bear.      *)
MCId == {api, tool, depLib}
MCFailClass == {tool}

(* libPath is a file path, which becomes node depLib; tool is the          *)
(* dependency of a PATH_BLOCKED constraint.                                *)
MCDependency == {libPath, tool}
MCDepNode == (libPath :> depLib) @@ (tool :> depLib)

MCCauses == {[type |-> "missing_dep", dependency |-> libPath],
             [type |-> "path_blocked", dependency |-> tool]}

MCRole == (api :> "builder") @@ (tool :> "critic") @@ (depLib :> "builder")
MCGain == [n \in MCId |-> IF n = depLib THEN 63 ELSE 48]

RanksOf(f) == [n \in MCId |-> IF n \in DOMAIN f THEN f[n] ELSE 0]
Risks == [n \in MCId |-> IF n = api THEN 3 ELSE 5]

(* Two modules, the second needing the first, or independent of it with    *)
(* the risks against the insertion order; one module.                      *)
MCManifests ==
    {[rank |-> RanksOf((tool :> 1) @@ (api :> 2)), risk |-> Risks, edges |-> {<<tool, api>>}],
     [rank |-> RanksOf((tool :> 1) @@ (api :> 2)), risk |-> Risks, edges |-> {}],
     [rank |-> RanksOf(api :> 1), risk |-> Risks, edges |-> {}]}

MCScores == {[gates |-> FALSE, total |-> 95], [gates |-> TRUE, total |-> 80]}

(* No action reads what the last call emitted or whether it raised.        *)
KernelView == <<sprint, store, autonomy>>
=============================================================================
