------------------------------ MODULE JcodeAgent ------------------------------
(***************************************************************************)
(* The agent loop of the jcode panel (JcodePanel.handleSend): ask the      *)
(* model, run the tools it calls, feed the results back, up to Rounds      *)
(* times.  callLLM asks through the main process, where executeAgent tries *)
(* the configured endpoints in order; runTool runs a tool with kore-exec   *)
(* (kore:execute) and falls back to the preload bridge.                    *)
(*                                                                         *)
(* The tools of a round run side by side; everything else is sequential,   *)
(* and phase says where handleSend stands.                                 *)
(***************************************************************************)
EXTENDS Naturals, Sequences, FiniteSets

CONSTANTS Tools,    \* the tool calls a model may make: name and parameters
          MaxCalls, \* bound: tool calls in one answer
          Rounds,   \* rounds of one send (12 in the code)
          MaxSends  \* bound: messages the user sends

ASSUME AgentBounds == MaxCalls \in Nat /\ Rounds \in Nat \ {0} /\ MaxSends \in Nat

VARIABLES routing,  \* KORE_ROUTING_MODE, the cloud key and the fallback URL
          phase,    \* of handleSend; isWorking unless "idle"
          round, sends,
          reachable,\* the preflight's verdict on each endpoint
          next,     \* the endpoint the loop looks at
          tried,    \* the endpoints asked, with what came of it
          gaveUp,   \* the last executeAgent threw
          calls,    \* the tool calls of this round
          stage,    \* of each call: at kore-exec, at the bridge, settled
          performed,\* of each call: how often its tool was started
          badges    \* the badges of this round's tool group

agentVars == <<routing, phase, round, sends, reachable, next, tried, gaveUp,
               calls, stage, performed, badges>>

IsWorking == phase # "idle"

-------------------------------------------------------------------------------
(* The endpoints executeAgent will try, in order.                          *)
Endpoints ==
  LET first    == IF routing.mode = "local" THEN <<"local">> ELSE <<"litellm">>
      fallback == IF routing.mode # "local" /\ routing.ownFallback
                  THEN <<"fallback">> ELSE <<>>
      cloud    == IF routing.cloudKey THEN <<"cloud">> ELSE <<>>
  IN first \o fallback \o cloud

AgentInit ==
  /\ routing \in [mode: {"local", "cloud", "hybrid"}, cloudKey: BOOLEAN, ownFallback: BOOLEAN]
  /\ phase = "idle" /\ round = 0 /\ sends = 0
  /\ reachable = <<>> /\ next = 1 /\ tried = <<>> /\ gaveUp = FALSE
  /\ calls = <<>> /\ stage = <<>> /\ performed = <<>> /\ badges = <<>>

(* handleSend up to the loop: working flag, memory, PreCheck badge.        *)
AgentSend ==
  /\ phase = "idle" /\ sends < MaxSends
  /\ phase' = "ask" /\ sends' = sends + 1 /\ round' = 0
  /\ calls' = <<>> /\ stage' = <<>> /\ performed' = <<>> /\ badges' = <<>>
  /\ UNCHANGED <<routing, reachable, next, tried, gaveUp>>

(* executeAgent throws, callLLM with it; finally clears the working flag.  *)
Throws == phase' = "idle" /\ gaveUp' = TRUE

(* checkEndpoint: any endpoint answers /models in time, or does not.       *)
Preflight == [DOMAIN Endpoints -> BOOLEAN]

(* The preflight asks all endpoints for their models, 3 s at most.         *)
CheckEndpoints ==
  /\ phase = "ask"
  /\ reachable' \in Preflight
  /\ next' = 1 /\ tried' = <<>>
  /\ IF \E i \in DOMAIN reachable' : reachable'[i]
     THEN phase' = "try" /\ gaveUp' = FALSE
     ELSE Throws
  /\ UNCHANGED <<routing, round, sends, calls, stage, performed, badges>>

SkipUnreachable ==
  /\ phase = "try" /\ next <= Len(reachable) /\ ~reachable[next]
  /\ next' = next + 1
  /\ UNCHANGED <<routing, phase, round, sends, reachable, tried, gaveUp, calls,
                 stage, performed, badges>>

\* Mutant of FinalErrors: an answer without content is thrown to the caller.
FinalErrorsAndEmpty == {"auth", "empty"}

(* The failures that end the loop: a 400 or 401.  An answer without        *)
(* content, another status and a broken connection go on to the next.      *)
FinalErrors == {"auth"}

(* Why a request fails; an answer without content is "empty".              *)
Failures == {"auth", "empty", "status", "network"}

EndpointFails(why) ==
  /\ phase = "try" /\ next <= Len(reachable) /\ reachable[next]
  /\ tried' = Append(tried, [at |-> next, result |-> why])
  /\ IF why \in FinalErrors THEN Throws /\ UNCHANGED next
     ELSE next' = next + 1 /\ UNCHANGED <<phase, gaveUp>>
  /\ UNCHANGED <<routing, round, sends, reachable, calls, stage, performed, badges>>

EndpointsExhausted ==
  /\ phase = "try" /\ next > Len(reachable) /\ Throws
  /\ UNCHANGED <<routing, round, sends, reachable, next, tried, calls, stage,
                 performed, badges>>

(* parseDSML: the calls found in a content, in order, none as well.        *)
ToolCalls == UNION {[1 .. n -> Tools] : n \in 0 .. MaxCalls}

(* A content with the tool calls cs; without any it is the final answer.   *)
EndpointAnswers(cs) ==
  /\ phase = "try" /\ next <= Len(reachable) /\ reachable[next]
  /\ tried' = Append(tried, [at |-> next, result |-> "content"])
  /\ phase' = IF cs = <<>> THEN "pipeline" ELSE "tools"
  /\ calls' = cs
  /\ stage' = [i \in DOMAIN cs |-> "kore"] /\ performed' = [i \in DOMAIN cs |-> 0]
  /\ badges' = [i \in DOMAIN cs |-> [call |-> cs[i], status |-> "running"]]
  /\ UNCHANGED <<routing, round, sends, reachable, next, gaveUp>>

-------------------------------------------------------------------------------
\* Mutant of Matches: a badge is matched by its call alone.
MatchesAnyStatus(i) == {b \in DOMAIN badges : badges[b].call = calls[i]}

(* updateToolGroup: the badges that may be call i's, the first is replaced. *)
Matches(i) == {b \in DOMAIN badges : badges[b].call = calls[i]
                                     /\ badges[b].status = "running"}

Settle(i) ==
  LET exec == [call |-> calls[i], status |-> "done"]
  IN /\ stage' = [stage EXCEPT ![i] = "settled"]
     /\ badges' = IF Matches(i) = {} THEN Append(badges, exec)
                  ELSE [badges EXCEPT ![CHOOSE b \in Matches(i) :
                                          \A c \in Matches(i) : b <= c] = exec]

(* A tool is started: its file or its command is touched.                  *)
Perform(i)  == performed' = [performed EXCEPT ![i] = @ + 1]
HandOver(i) == stage' = [stage EXCEPT ![i] = "bridge"] /\ UNCHANGED badges

(* kore:execute, by the kore-exec binary or its Node fallback, 60 s at     *)
(* most.  Output settles the call, and so does an error, shown as a result *)
(* like any other.  No output and no error (a silent command), an error    *)
(* that reads like a missing binary (or is the tool's own "not found"),    *)
(* and a rejected invoke go on to the bridge.                              *)
KoreExecutes(i) ==
  /\ phase = "tools" /\ stage[i] = "kore"
  /\ \/ Perform(i) /\ (Settle(i) \/ HandOver(i))
     \/ HandOver(i) /\ UNCHANGED performed
  /\ UNCHANGED <<routing, phase, round, sends, reachable, next, tried, gaveUp, calls>>

(* The preload bridge: whatever happens is turned into a result.           *)
BridgeExecutes(i) ==
  /\ phase = "tools" /\ stage[i] = "bridge"
  /\ Perform(i) /\ Settle(i)
  /\ UNCHANGED <<routing, phase, round, sends, reachable, next, tried, gaveUp, calls>>

(* Promise.all is done: the results are fed back, the next round begins.   *)
RoundEnds ==
  /\ phase = "tools" /\ \A i \in DOMAIN calls : stage[i] = "settled"
  /\ round' = round + 1
  /\ phase' = IF round + 1 < Rounds THEN "ask" ELSE "pipeline"
  /\ UNCHANGED <<routing, sends, reachable, next, tried, gaveUp, calls, stage,
                 performed, badges>>

\* Mutant of PipelineEnds: without its finally, the working flag stays.
PipelineEndsBusy ==
  /\ phase = "pipeline" /\ phase' = "pipeline"
  /\ UNCHANGED <<routing, round, sends, reachable, next, tried, gaveUp, calls,
                 stage, performed, badges>>

(* The pipeline badges, 60 s at most, and finally.                         *)
PipelineEnds ==
  /\ phase = "pipeline" /\ phase' = "idle"
  /\ UNCHANGED <<routing, round, sends, reachable, next, tried, gaveUp, calls,
                 stage, performed, badges>>

AgentWork ==
  \/ CheckEndpoints \/ SkipUnreachable \/ EndpointsExhausted
  \/ \E why \in Failures : EndpointFails(why)
  \/ \E cs \in ToolCalls : EndpointAnswers(cs)
  \/ \E i \in DOMAIN calls : KoreExecutes(i) \/ BridgeExecutes(i)
  \/ RoundEnds \/ PipelineEnds

AgentNext == AgentSend \/ AgentWork

(* Every await is bounded: 3 s, 60 s, 30 s, and fetch's own 300 s.         *)
AgentFairness == WF_agentVars(AgentWork)

AgentSpec == AgentInit /\ [][AgentNext]_agentVars /\ AgentFairness

-------------------------------------------------------------------------------
(* Types of the agent loop.                                                *)
AgentTypeOK ==
  /\ phase \in {"idle", "ask", "try", "tools", "pipeline"}
  /\ round \in 0 .. Rounds /\ sends \in 0 .. MaxSends
  /\ reachable \in Seq(BOOLEAN) /\ next \in 1 .. 4 /\ gaveUp \in BOOLEAN
  /\ tried \in Seq([at: 1 .. 3, result: Failures \union {"content"}])
  /\ calls \in Seq(Tools)
  /\ stage \in [DOMAIN calls -> {"kore", "bridge", "settled"}]
  /\ performed \in [DOMAIN calls -> 0 .. 2]
  /\ badges \in Seq([call: Tools, status: {"running", "done"}])

(* The tool group shows as many running badges of a call as there are such *)
(* calls not yet settled, also when a round calls the same tool with the   *)
(* same parameters twice, and one badge for each call.                     *)
BadgesSettle ==
  /\ Len(badges) = Len(calls)
  /\ \A t \in Tools :
       Cardinality({b \in DOMAIN badges : badges[b] = [call |-> t, status |-> "running"]})
       = Cardinality({i \in DOMAIN calls : calls[i] = t /\ stage[i] # "settled"})

(* executeAgent gives up only after it has asked every endpoint the        *)
(* preflight could reach, or on an endpoint that refuses the request       *)
(* itself; none is asked twice and none out of order.                      *)
FailureIsExhaustive ==
  /\ \A i, j \in DOMAIN tried : i < j => tried[i].at < tried[j].at
  /\ gaveUp =>
       \/ \A e \in DOMAIN reachable :
            reachable[e] => \E i \in DOMAIN tried : tried[i].at = e
       \/ tried # <<>> /\ tried[Len(tried)].result = "auth"

(* The panel does not work forever: each send comes to rest.               *)
AgentComesToRest == IsWorking ~> ~IsWorking
===============================================================================
