----------------------------- MODULE SprintRun -----------------------------
(***************************************************************************)
(* What one unattended run of a sprint promises: a plan is made once, its  *)
(* nodes are worked on one at a time, each only when everything it needs   *)
(* is done, a finished node stays finished, and after a failure or at the  *)
(* end of the run nothing is started any more.                             *)
(***************************************************************************)
EXTENDS FiniteSets

CONSTANTS Node, Source, Nobody

VARIABLES
    plan,    \* the nodes of the sprint
    needs,   \* the pairs <<source, node>> of the plan
    doing,   \* the node being worked on, or Nobody
    done,
    over     \* no further node may be started

runVars == <<plan, needs, doing, done, over>>

RunTypeOK ==
    /\ plan \subseteq Node
    /\ needs \subseteq Source \X Node
    /\ doing \in Node \cup {Nobody}
    /\ done \subseteq Node
    /\ over \in BOOLEAN

RunInit == plan = {} /\ needs = {} /\ doing = Nobody /\ done = {} /\ over = FALSE

MakePlan ==
    /\ plan = {} /\ done = {} /\ doing = Nobody /\ ~over
    /\ plan' \in SUBSET Node
    /\ needs' \in SUBSET (Source \X Node)
    /\ UNCHANGED <<doing, done, over>>

Start(n) ==
    /\ ~over
    /\ doing = Nobody
    /\ n \in plan \ done
    /\ {e \in needs : e[2] = n} \subseteq done \X {n}
    /\ doing' = n
    /\ UNCHANGED <<plan, needs, done, over>>

Finish ==
    /\ doing # Nobody
    /\ done' = done \cup {doing}
    /\ doing' = Nobody
    /\ UNCHANGED <<plan, needs, over>>

(* A failure is remembered as a new need of the failed node.               *)
Fail ==
    /\ doing # Nobody
    /\ doing' = Nobody
    /\ over' = TRUE
    /\ \E s \in Source : needs' = needs \cup {<<s, doing>>}
    /\ UNCHANGED <<plan, done>>

(* At any time: the run may break off in the midst of a node.              *)
Stop == over' = TRUE /\ UNCHANGED <<plan, needs, doing, done>>

RunNext == MakePlan \/ (\E n \in Node : Start(n)) \/ Finish \/ Fail \/ Stop

RunSpec == RunInit /\ [][RunNext]_runVars /\ WF_runVars(Stop)
=============================================================================
