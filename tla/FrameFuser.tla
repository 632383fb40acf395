------------------------------- MODULE FrameFuser ------------------------------
(***************************************************************************)
(* The input of the chat and the frame modulator under it (ChatPanel.tsx,  *)
(* DysonFrameModulator.tsx): the user picks frames and fuses the input     *)
(* through them; a language model rewrites it, with one fallback, while    *)
(* the user may go on typing, picking and sending.  ChatPanel configures   *)
(* an endpoint in every case, so the local demo transform never runs.      *)
(*                                                                         *)
(* A text is its version, the frames that rewrote it and whether they did; *)
(* a rewriting that comes back empty is the user's own text.  What the     *)
(* model may read of the frames is their ids and the prompt they choose.   *)
(***************************************************************************)
EXTENDS Naturals, Sequences, FiniteSets

CONSTANTS UsedFrames, \* bound: the frames the user picks from
          MaxTyped    \* bound: inputs typed

(* The frames, in the order in which sort() puts their ids.                *)
FRAMES == <<"crf_gate", "dyson", "erkenntnis", "frame_infer", "ideva",
            "omega", "phworge", "sigma", "vectorscan">>

ASSUME FuserBounds == /\ UsedFrames \subseteq {FRAMES[i] : i \in DOMAIN FRAMES}
                      /\ MaxTyped \in Nat

(* The keys of the named fusions, split at their commas, as written.       *)
FUSION_FRAMES ==
  {<<"ideva", "sigma">>, <<"phworge", "sigma">>, <<"omega", "phworge">>,
   <<"dyson", "sigma">>, <<"dyson", "ideva">>, <<"frame_infer", "sigma">>,
   <<"erkenntnis", "phworge">>, <<"vectorscan", "sigma">>,
   <<"crf_gate", "phworge">>, <<"frame_infer", "vectorscan">>,
   <<"erkenntnis", "dyson">>, <<"crf_gate", "sigma">>}

VARIABLES cloudKey,    \* a key for the cloud endpoint is configured
          sameModel,   \* the fallback model is the primary model
          text,        \* the input
          frames,      \* activeFrames
          fusion,      \* handleFuse under way, or NoFusion
          status,      \* what the status bar says
          transformed, \* isTransformed
          failure,     \* history: [set, tried] of the last fusion
          mode,        \* currentMode is "audit"
          auditActive, auditPasses,
          typed        \* bound: versions typed so far

fuserVars == <<cloudKey, sameModel, text, frames, fusion, status, transformed,
               failure, mode, auditActive, auditPasses, typed>>
auditVars == <<mode, auditActive, auditPasses>>

Blanks == [version |-> 0, by |-> {}]
NoFusion == [of |-> Blanks, frames |-> {}, tried |-> <<>>]
Attempts == {"primary", "cloud", "fallback model"}

-------------------------------------------------------------------------------
Key(ids) == SelectSeq(FRAMES, LAMBDA id : id \in ids)

(* getFusionInfo, and the same three cases in fuseText and the status.     *)
FusionInfo(ids) == CASE Cardinality(ids) = 0     -> "none"
                     [] Cardinality(ids) = 1     -> "frame"
                     [] Key(ids) \in FUSION_FRAMES -> "named"
                     [] OTHER                    -> "emergent"

(* The effect on [activeFrames, isFusing].                                 *)
StatusFor(ids, isFusing) == [fusing |-> isFusing, frames |-> ids,
                             says |-> IF isFusing THEN "fusing" ELSE FusionInfo(ids)]

FuserInit ==
  /\ cloudKey \in BOOLEAN /\ sameModel \in BOOLEAN
  /\ text = Blanks /\ frames = {} /\ fusion = NoFusion
  /\ status = StatusFor({}, FALSE) /\ transformed = FALSE
  /\ failure = [set |-> FALSE, tried |-> <<>>]
  /\ mode = FALSE /\ auditActive = FALSE /\ auditPasses = 0 /\ typed = 0

IsFusing == fusion # NoFusion
CanFuse  == frames # {} /\ text # Blanks /\ ~IsFusing

-------------------------------------------------------------------------------
(* The user types, or adds @file.                                          *)
TypeText ==
  /\ typed < MaxTyped /\ typed' = typed + 1
  /\ text' = [version |-> typed + 1, by |-> {}]
  /\ UNCHANGED <<cloudKey, sameModel, frames, fusion, status, transformed, failure, auditVars>>

(* handleSend, as far as the input is concerned (the rest is ChatStream).  *)
SendText ==
  /\ text # Blanks /\ text' = Blanks
  /\ UNCHANGED <<cloudKey, sameModel, frames, fusion, status, transformed, failure,
                 auditVars, typed>>

ToggleFrame(id) ==
  /\ frames' = (frames \ {id}) \cup ({id} \ frames)
  /\ transformed' = FALSE
  /\ status' = StatusFor(frames', IsFusing)
  /\ UNCHANGED <<cloudKey, sameModel, text, fusion, failure, auditVars, typed>>

(* handleFuse up to the answer of its first request: it keeps the text and *)
(* the frames of the render in which it was clicked.                       *)
HandleFuse ==
  /\ CanFuse
  /\ fusion' = [of |-> text, frames |-> frames, tried |-> <<"primary">>]
  /\ status' = StatusFor(frames, TRUE)
  /\ UNCHANGED <<cloudKey, sameModel, text, frames, transformed, failure, auditVars, typed>>

Ends(failed, newText) ==
  /\ failure' = [set |-> failed, tried |-> fusion.tried]
  /\ fusion' = NoFusion
  /\ text' = newText
  /\ status' = StatusFor(frames, FALSE)
  /\ UNCHANGED <<cloudKey, sameModel, frames, auditVars, typed>>

(* callLLM answers; `empty': without content.  The status handleFuse sets  *)
(* is replaced by the effect that its isFusing = false brings.             *)
Answers(empty) ==
  /\ IsFusing
  /\ Ends(FALSE, IF empty THEN fusion.of
                          ELSE [fusion.of EXCEPT !.by = @ \cup fusion.frames])
  /\ transformed' = TRUE

(* What fuseText tries once its request failed: the cloud if it has a key, *)
(* else another model at the same endpoint, and nothing after that.        *)
NextAttempts ==
  {a \in Attempts : /\ fusion.tried = <<"primary">>
                    /\ \/ a = "cloud" /\ cloudKey
                       \/ a = "fallback model" /\ ~cloudKey /\ ~sameModel}

RequestFails ==
  /\ IsFusing /\ UNCHANGED transformed
  /\ \/ \E a \in NextAttempts :
          /\ fusion' = [fusion EXCEPT !.tried = Append(@, a)]
          /\ UNCHANGED <<cloudKey, sameModel, text, frames, status, failure, auditVars, typed>>
     \/ NextAttempts = {} /\ Ends(TRUE, text)

\* Mutant of ModeChange: leaving the audit mode keeps the counter.
ModeChangeCounting(audit) ==
  /\ audit # mode
  /\ audit => ~(auditActive /\ auditPasses >= 1)
  /\ mode' = audit /\ auditActive' = audit
  /\ auditPasses' = IF audit THEN auditPasses + 1 ELSE auditPasses
  /\ UNCHANGED <<cloudKey, sameModel, text, frames, fusion, status, transformed, failure, typed>>

(* handleModeChange; a select reports changes only.                        *)
ModeChange(audit) ==
  /\ audit # mode
  /\ audit => ~(auditActive /\ auditPasses >= 1)
  /\ mode' = audit /\ auditActive' = audit
  /\ auditPasses' = IF audit THEN auditPasses + 1 ELSE 0
  /\ UNCHANGED <<cloudKey, sameModel, text, frames, fusion, status, transformed, failure, typed>>

FuserNext ==
  \/ TypeText \/ SendText \/ HandleFuse \/ RequestFails
  \/ \E id \in UsedFrames : ToggleFrame(id)
  \/ \E empty \in BOOLEAN : Answers(empty)
  \/ \E audit \in BOOLEAN : ModeChange(audit)

FuserSpec == FuserInit /\ [][FuserNext]_fuserVars

-------------------------------------------------------------------------------
Texts == [version : 0..MaxTyped, by : SUBSET UsedFrames]

(* The variables have their types.                                         *)
FuserTypeOK ==
  /\ {cloudKey, sameModel, transformed, mode, auditActive} \subseteq BOOLEAN
  /\ text \in Texts /\ frames \subseteq UsedFrames
  /\ fusion.of \in Texts /\ fusion.frames \subseteq UsedFrames
  /\ fusion.tried \in {<<>>, <<"primary">>, <<"primary", "cloud">>,
                       <<"primary", "fallback model">>}
  /\ status = StatusFor(status.frames, status.fusing)
  /\ failure.set \in BOOLEAN /\ auditPasses \in 0..1 /\ typed \in 0..MaxTyped

(* A fusion is given up only after a second request failed as well, unless *)
(* nothing else is configured; the status bar speaks of the frames that    *)
(* are picked and of the fusion that runs, whatever the user did while the *)
(* requests were under way (fuseText, handleFuse and the status effect).   *)
FusionIsExhaustive ==
  /\ failure.set /\ Len(failure.tried) < 2 => ~cloudKey /\ sameModel
  /\ status.frames = frames /\ status.fusing = IsFusing
================================================================================
