------------------------------ MODULE ChatStream ------------------------------
(***************************************************************************)
(* The streaming chat: the renderer's ChatPanel with its two hooks         *)
(* (useChatIpc, useChatStream), the bridge in the main process (the        *)
(* jcode:run-stream and jcode:cancel-stream handlers) and the jcode        *)
(* processes it starts (jcode-client.ts).                                  *)
(*                                                                         *)
(* Prompts are numbered in the order they are sent.  Each has a message    *)
(* in the renderer and a process in main, joined by the msgId.  What main  *)
(* sends arrives in order (wire); tokens wait in a buffer for the next     *)
(* animation frame, everything else reaches the reducer at once.           *)
(***************************************************************************)
EXTENDS Naturals, Sequences, FiniteSets

CONSTANTS MaxPrompts,  \* bound: prompts the user sends
          MaxLines,    \* bound: token and error lines one jcode process writes
          MaxViews     \* bound: how often the user resets or leaves the chat

ASSUME ChatBounds == /\ MaxPrompts \in Nat \ {0} /\ MaxLines \in Nat \ {0}
                     /\ MaxViews \in Nat

VARIABLES process, \* [Prompts -> life of its jcode process]
          lines,   \* [Prompts -> lines its process has written]
          resumed, \* [Prompts -> session it was told to --resume, 0 for none]
          session, \* activeSessionId of jcode-client, 0 for null
          wire,    \* events on their way to the renderer, oldest first
          mounted, \* ChatPanel is on screen and subscribed
          buffer,  \* tokenBuffer: [Prompts -> tokens not yet shown]
          messages,\* prompts whose message is in the reducer's list
          content, \* [Prompts -> what its message shows]
          open,    \* messages with streaming = true
          busy,
          current, \* currentMsgIdRef, 0 for null
          views    \* bound: resets and departures so far

Prompts == 1 .. MaxPrompts

\* What a message is made of: the tokens of lines 1, 2, ... of its process,
\* error texts and the abort marker.
Tokens    == 1 .. MaxLines
ErrorText == 0
Aborted   == MaxLines + 1

mainVars == <<process, lines, resumed, session>>
viewVars == <<mounted, buffer, messages, content, open, busy, current, views>>
chatVars == <<mainVars, wire, viewVars>>

\* A prompt is unsent, on its way to main, and then a process.  Those running
\* or failed (to be spawned) are the ones activeStreams holds.
Lives == {"unsent", "asked", "running", "failed", "gone"}
Nothing == [p \in Prompts |-> <<>>]

ChatInit ==
  /\ process = [p \in Prompts |-> "unsent"] /\ lines = [p \in Prompts |-> 0]
  /\ resumed = [p \in Prompts |-> 0] /\ session = 0 /\ wire = <<>>
  /\ mounted = TRUE /\ buffer = Nothing /\ messages = {} /\ content = Nothing
  /\ open = {} /\ busy = FALSE /\ current = 0 /\ views = 0

-------------------------------------------------------------------------------
(* The reducer.  An action that names a message which is not in the list   *)
(* changes no message; MSG_END clears busy whichever message it names.     *)
Shown(p, items) ==
  IF p \in messages THEN [content EXCEPT ![p] = @ \o items] ELSE content

(* MSG_START puts the message into the list; MSG_END closes it.            *)
MsgStart(p) == messages' = messages \union {p}
MsgEnd(p) == open' = open \ {p} /\ busy' = FALSE

\* Mutant of Flushed: the batch is shown in the current message only.
FlushedCurrent == [p \in Prompts |->
  IF p \in messages /\ p = current THEN content[p] \o buffer[p] ELSE content[p]]

(* TOKEN_BATCH with the buffered tokens.                                   *)
Flushed == [p \in Prompts |->
  IF p \in messages THEN content[p] \o buffer[p] ELSE content[p]]

(* The animation frame, requested with the first token of a batch.         *)
FlushTokens ==
  /\ mounted /\ buffer # Nothing
  /\ content' = Flushed /\ buffer' = Nothing
  /\ UNCHANGED <<mainVars, wire, mounted, messages, open, busy, current, views>>

(* onJcodeEvent and onDoneStream; without a mounted panel nobody listens.  *)
Receive ==
  /\ wire # <<>> /\ wire' = Tail(wire)
  /\ LET e == Head(wire)
     IN \/ /\ ~mounted /\ UNCHANGED <<buffer, content, open, busy>>
        \/ /\ mounted /\ e.item \in Tokens
           /\ buffer' = [buffer EXCEPT ![e.id] = Append(@, e.item)]
           /\ UNCHANGED <<content, open, busy>>
        \/ /\ mounted /\ e.item = ErrorText
           /\ content' = Shown(e.id, <<ErrorText>>)
           /\ UNCHANGED <<buffer, open, busy>>
        \/ /\ mounted /\ e.item = Aborted        \* jcode:done-stream
           /\ MsgEnd(e.id) /\ UNCHANGED <<buffer, content>>
  /\ UNCHANGED <<mainVars, mounted, messages, current, views>>

-------------------------------------------------------------------------------
(* The user's side.  cancel() sends jcode:cancel-stream without a payload, *)
(* on which the handler throws before it looks at activeStreams.           *)
CancelStream == UNCHANGED mainVars

(* What cancel() itself does: the message gets its marker and is closed.   *)
Cancelled == IF current # 0 THEN Shown(current, <<Aborted>>) ELSE content

Escape ==
  /\ mounted /\ busy
  /\ content' = Cancelled
  /\ IF current # 0 THEN MsgEnd(current) ELSE UNCHANGED <<open, busy>>
  /\ current' = 0
  /\ CancelStream
  /\ UNCHANGED <<wire, mounted, buffer, messages, views>>

(* send: the placeholder of the answer, and jcode:run-stream on its way.   *)
Send(p) == /\ current' = p /\ MsgStart(p)
           /\ process' = [process EXCEPT ![p] = "asked"]

(* handleSend: interrupts a busy chat, then asks main for a new stream.    *)
(* (The user's own message starts and ends within the handler.)            *)
HandleSend(p) ==
  /\ mounted /\ process[p] = "unsent" /\ \A q \in 1 .. p - 1 : process[q] # "unsent"
  /\ content' = IF busy THEN Cancelled ELSE content
  /\ Send(p)
  /\ open' = (IF busy THEN open \ {current} ELSE open) \union {p}
  /\ busy' = TRUE
  /\ UNCHANGED <<lines, resumed, session, wire, mounted, buffer, views>>

(* RESET empties the list and leaves the buffer and currentMsgIdRef.       *)
Reset ==
  /\ mounted /\ views < MaxViews /\ views' = views + 1
  /\ messages' = {} /\ content' = Nothing /\ open' = {} /\ busy' = FALSE
  /\ UNCHANGED <<mainVars, wire, mounted, buffer, current>>

(* App mounts the chat only while its tab is active: leaving it drops the  *)
(* reducer's state and the subscriptions, and nothing stops the processes. *)
Leave ==
  /\ mounted /\ views < MaxViews /\ views' = views + 1
  /\ mounted' = FALSE /\ buffer' = Nothing /\ messages' = {} /\ content' = Nothing
  /\ open' = {} /\ busy' = FALSE /\ current' = 0
  /\ UNCHANGED <<mainVars, wire>>

Return ==
  /\ ~mounted /\ mounted' = TRUE
  /\ UNCHANGED <<mainVars, wire, buffer, messages, content, open, busy, current, views>>

-------------------------------------------------------------------------------
SendTo(p, item) == wire' = Append(wire, [id |-> p, item |-> item])

(* The active session is resumed, whichever it is at this moment.          *)
BuildJcodeArgs(p) == resumed' = [resumed EXCEPT ![p] = session]

(* The first jcode that findJcodeExec names may not exist, or not start.   *)
SpawnFails(p) == /\ process' = [process EXCEPT ![p] = "failed"]
                 /\ lines' = [lines EXCEPT ![p] = 1] /\ SendTo(p, ErrorText)

(* jcode:run-stream: spawn starts the process or reports an 'error' event. *)
RunJcodeStreaming(p) ==
  /\ process[p] = "asked" /\ \A q \in 1 .. p - 1 : process[q] # "asked"
  /\ BuildJcodeArgs(p)
  /\ \/ process' = [process EXCEPT ![p] = "running"] /\ UNCHANGED <<lines, wire>>
     \/ SpawnFails(p)
  /\ UNCHANGED <<session, viewVars>>

(* A complete line on stdout, sent on as it comes.  The start event that   *)
(* names the session precedes the first token or error.                    *)
JcodeLine(p) ==
  /\ process[p] = "running" /\ lines[p] < MaxLines
  /\ lines' = [lines EXCEPT ![p] = @ + 1]
  /\ SendTo(p, lines[p] + 1) \/ SendTo(p, ErrorText)
  /\ UNCHANGED <<process, resumed, session, viewVars>>

(* The session a process works in: the resumed one, or a new one of its own. *)
SessionOf(p) == IF resumed[p] # 0 THEN resumed[p] ELSE p

(* updateSessionFromEvents: what activeSessionId is after p has closed.    *)
ReportedSession(p) ==
  IF process[p] = "running" /\ lines[p] > 0 THEN SessionOf(p) ELSE session

\* Mutant of JcodeClose: a stream without a line ends without done-stream.
JcodeCloseSilent(p) ==
  /\ process[p] \in {"running", "failed"}
  /\ process' = [process EXCEPT ![p] = "gone"]
  /\ session' = ReportedSession(p)
  /\ IF lines[p] > 0 THEN SendTo(p, Aborted) ELSE UNCHANGED wire
  /\ UNCHANGED <<lines, resumed, viewVars>>

(* 'close': by its own end, by the timeout of 120 s, or after a failed spawn. *)
JcodeClose(p) ==
  /\ process[p] \in {"running", "failed"}
  /\ process' = [process EXCEPT ![p] = "gone"]
  /\ session' = ReportedSession(p)
  /\ SendTo(p, Aborted)                          \* jcode:done-stream
  /\ UNCHANGED <<lines, resumed, viewVars>>

ChatNext ==
  \/ FlushTokens \/ Receive \/ Escape \/ Reset \/ Leave \/ Return
  \/ \E p \in Prompts : \/ HandleSend(p) \/ RunJcodeStreaming(p)
                        \/ JcodeLine(p) \/ JcodeClose(p)

(* The timeout given to spawn ends every process; IPC delivers.            *)
ChatFairness == /\ WF_chatVars(Receive)
                /\ \A p \in Prompts : /\ WF_chatVars(RunJcodeStreaming(p))
                                      /\ WF_chatVars(JcodeClose(p))

ChatSpec == ChatInit /\ [][ChatNext]_chatVars /\ ChatFairness

-------------------------------------------------------------------------------
(* Types of the chat on both sides of the bridge.                          *)
ChatTypeOK ==
  /\ process \in [Prompts -> Lives] /\ lines \in [Prompts -> 0 .. MaxLines]
  /\ resumed \in [Prompts -> 0 .. MaxPrompts] /\ session \in 0 .. MaxPrompts
  /\ wire \in Seq([id: Prompts, item: 0 .. MaxLines + 1])
  /\ buffer \in [Prompts -> Seq(Tokens)]
  /\ content \in [Prompts -> Seq(0 .. MaxLines + 1)]
  /\ messages \subseteq Prompts /\ open \subseteq messages
  /\ {mounted, busy} \subseteq BOOLEAN
  /\ current \in 0 .. MaxPrompts /\ views \in 0 .. MaxViews

(* Whatever frames, aborts and other streams come between, each line of a  *)
(* process is shown, buffered or on the wire exactly once, and its tokens  *)
(* stay in order.  (On the wire, what others sent counts as no line.)      *)
OnTheWire(p) == [i \in DOMAIN wire |-> IF wire[i].id = p THEN wire[i].item ELSE Aborted]
TokensArriveOnce ==
  \A p \in messages :
    LET all == content[p] \o buffer[p] \o OnTheWire(p)
    IN /\ Cardinality({i \in DOMAIN all : all[i] # Aborted}) = lines[p]
       /\ \A i, j \in DOMAIN all : i < j /\ {all[i], all[j]} \subseteq Tokens => all[i] < all[j]

(* The chat shows busy only while the end of an open message is still to   *)
(* come, and shows idle beside an open message only if an earlier stream   *)
(* was aborted or lost its message: its end is taken for this one's.       *)
EndToCome(p) == \/ process[p] \in {"asked", "running", "failed"}
                \/ \E i \in DOMAIN wire : wire[i] = [id |-> p, item |-> Aborted]
WasAborted(p) == \E i \in DOMAIN content[p] : content[p][i] = Aborted
BusyMeansStreaming ==
  /\ busy => \E p \in open : EndToCome(p)
  /\ ~busy => \A p \in open :
       \E q \in 1 .. p - 1 : process[q] # "unsent" /\ (q \notin messages \/ WasAborted(q))

(* A process resumes only a session that an earlier process founded,       *)
(* reported and left, so that all prompts sent one after the other are     *)
(* one conversation.                                                       *)
ResumesWhatWasFounded ==
  \A p \in Prompts : LET s == resumed[p]
    IN s # 0 => s < p /\ process[s] = "gone" /\ lines[s] > 0 /\ resumed[s] = 0

(* What the comments call "cancel with partial commit": nothing follows    *)
(* the abort marker of a message.  The process is never stopped, so its    *)
(* tokens go on arriving.                                                  *)
AbortIsFinal ==
  \A p \in messages : \A i \in DOMAIN content[p] :
    content[p][i] = Aborted => i = Len(content[p])

(* A busy chat comes to rest: processes end and their ends are delivered.  *)
ChatComesToRest == busy ~> ~busy
===============================================================================
