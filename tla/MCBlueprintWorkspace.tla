------------------------- MODULE MCBlueprintWorkspace -------------------------
(* The planning canvas with two overlapping commands, a plan of two modules *)
(* and logs left at the lengths where the gates of the surfaces open.       *)
EXTENDS BlueprintWorkspace

MCHandlers      == 1 .. 2
MCEarlierLogs   == {<<9, 5>>, <<15, 4>>}
===============================================================================
