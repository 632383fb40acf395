--------------------------- MODULE DesktopRunProofs ---------------------------
(***************************************************************************)
(* Theorems about the other parts of the desktop, for any number of        *)
(* prompts, lines, rounds, calls, tabs and shells: the lines of a stream   *)
(* are shown once and in order, a busy chat has a stream that ends,        *)
(* executeAgent gives up only after asking all it could ask, the badges of *)
(* a round follow its calls, the frame modulator tries its fallback, a     *)
(* memory is missing only when it was cleared or Limit newer ones came,    *)
(* and once nothing is under way the browser view, the tabs, the terminals *)
(* and the state of Mission Control are shown as the main process has them.*)
(* What the parts keep on their own, the composition keeps: a step of the  *)
(* desktop is, for each part, a step of its own or none.                   *)
(***************************************************************************)
EXTENDS DesktopRun, DesktopStoresProofs, Induction, SequenceTheorems

-----------------------------------------------------------------------------
(* ChatStream                                                              *)

Events == [id: Prompts, item: 0 .. MaxLines + 1]
Contents  == Seq(0 .. MaxLines + 1)

-------------------------------------------------------------------------------
(* Types.                                                                  *)

(* What SendTo puts on the wire.                                           *)
LEMMA SendToType ==
  ASSUME ChatTypeOK, NEW p \in Prompts, NEW item \in 0 .. MaxLines + 1, SendTo(p, item)
  PROVE  wire' \in Seq(Events)
  <1>1. wire \in Seq(Events) /\ [id |-> p, item |-> item] \in Events
    BY DEF ChatTypeOK, Events
  <1> QED
    BY <1>1, AppendProperties DEF SendTo

(* The items of messages are items.                                        *)
LEMMA Items ==
  /\ ErrorText \in 0 .. MaxLines + 1 /\ Aborted \in 0 .. MaxLines + 1
  /\ Tokens \subseteq 0 .. MaxLines + 1 /\ MaxLines \in Nat \ {0}
  /\ Aborted \notin Tokens /\ ErrorText \notin Tokens /\ Aborted # ErrorText
  BY ChatBounds DEF ErrorText, Aborted, Tokens

(* A message that is shown more.                                           *)
LEMMA ShownType ==
  ASSUME ChatTypeOK, NEW p \in Prompts, NEW item \in 0 .. MaxLines + 1
  PROVE  Shown(p, <<item>>) \in [Prompts -> Contents]
  <1>1. content \in [Prompts -> Contents]
    BY DEF ChatTypeOK, Contents
  <1>2. <<item>> \in Seq(0 .. MaxLines + 1)
    OBVIOUS
  <1>3. content[p] \o <<item>> \in Contents
    BY <1>1, <1>2, ConcatProperties DEF Contents
  <1> QED
    BY <1>1, <1>3 DEF Shown

(* What cancel() leaves of the messages.                                   *)
LEMMA CancelledType ==
  ASSUME ChatTypeOK
  PROVE  Cancelled \in [Prompts -> Contents]
  <1>1. current # 0 => current \in Prompts
    BY ChatBounds DEF ChatTypeOK, Prompts
  <1>2. content \in [Prompts -> Contents]
    BY DEF ChatTypeOK, Contents
  <1> QED
    BY <1>1, <1>2, ShownType, Items DEF Cancelled

(* What the animation frame makes of the messages.                         *)
LEMMA FlushedType ==
  ASSUME ChatTypeOK
  PROVE  Flushed \in [Prompts -> Contents]
  <1>1. content \in [Prompts -> Contents] /\ buffer \in [Prompts -> Seq(Tokens)]
    BY DEF ChatTypeOK, Contents
  <1>2. ASSUME NEW p \in Prompts
        PROVE  content[p] \in Contents /\ content[p] \o buffer[p] \in Contents
    <2>1. content[p] \in Contents /\ buffer[p] \in Seq(Tokens)
      BY <1>1
    <2>2. buffer[p] \in Contents
      BY <2>1, Items, SeqMonotonic DEF Contents
    <2> QED
      BY <2>1, <2>2, ConcatProperties DEF Contents
  <1> QED
    BY <1>2 DEF Flushed

(* Empty buffers and messages are typed.                                   *)
LEMMA NothingType == Nothing \in [Prompts -> Contents] /\ Nothing \in [Prompts -> Seq(Tokens)]
  BY EmptySeq DEF Nothing, Contents

(* Every step keeps the types.                                             *)
LEMMA ChatTypeStep ==
  ASSUME ChatTypeOK, [ChatNext]_chatVars
  PROVE  ChatTypeOK'
  <1> DEFINE MainType == /\ process \in [Prompts -> Lives] /\ lines \in [Prompts -> 0 .. MaxLines]
                         /\ resumed \in [Prompts -> 0 .. MaxPrompts]
                         /\ session \in 0 .. MaxPrompts
             ViewType == /\ buffer \in [Prompts -> Seq(Tokens)] /\ content \in [Prompts -> Contents]
                         /\ messages \subseteq Prompts /\ open \subseteq messages
                         /\ mounted \in BOOLEAN /\ busy \in BOOLEAN
                         /\ current \in 0 .. MaxPrompts /\ views \in 0 .. MaxViews
             WireType == wire \in Seq(Events)
  <1>a. MainType /\ ViewType /\ WireType
    BY DEF ChatTypeOK, Contents, Events
  <1>b. MainType' /\ ViewType' /\ WireType' => ChatTypeOK'
    BY DEF ChatTypeOK, Contents, Events
  <1>c. Prompts \subseteq 0 .. MaxPrompts /\ MaxViews \in Nat
    BY ChatBounds DEF Prompts
  <1>d. UNCHANGED mainVars => MainType'
    BY <1>a DEF mainVars
  <1>e. UNCHANGED viewVars => ViewType'
    BY <1>a DEF viewVars
  <1>f. UNCHANGED wire => WireType'
    BY <1>a
  <1>1. CASE FlushTokens
    <2>1. ViewType'
      BY <1>1, <1>a, FlushedType, NothingType DEF FlushTokens
    <2> QED
      BY <1>1, <1>b, <1>d, <1>f, <2>1 DEF FlushTokens
  <1>2. CASE Receive
    <2>1. Head(wire) \in Events /\ WireType'
      BY <1>2, <1>a, HeadTailProperties DEF Receive
    <2>2. Head(wire).id \in Prompts
      BY <2>1 DEF Events
    <2>3. MainType'
      BY <1>2, <1>d DEF Receive
    <2>4. ASSUME Head(wire).item \in Tokens
          PROVE  [buffer EXCEPT ![Head(wire).id] = Append(@, Head(wire).item)]
                    \in [Prompts -> Seq(Tokens)]
      <3>1. buffer[Head(wire).id] \in Seq(Tokens)
        BY <2>2, <1>a
      <3>2. Append(buffer[Head(wire).id], Head(wire).item) \in Seq(Tokens)
        BY <2>4, <3>1, AppendProperties
      <3> QED
        BY <3>2, <1>a
    <2>5. Shown(Head(wire).id, <<ErrorText>>) \in [Prompts -> Contents]
      BY <2>2, Items, ShownType
    <2>6. ViewType'
      <3>1. CASE ~mounted
        BY <1>2, <1>a, <3>1 DEF Receive
      <3>2. CASE mounted /\ Head(wire).item \in Tokens
        BY <1>2, <1>a, <2>4, <3>2, Items DEF Receive
      <3>3. CASE mounted /\ Head(wire).item = ErrorText
        BY <1>2, <1>a, <2>5, <3>3, Items DEF Receive
      <3>4. CASE mounted /\ Head(wire).item = Aborted
        BY <1>2, <1>a, <3>4, Items DEF Receive, MsgEnd
      <3> QED
        BY <1>2, <3>1, <3>2, <3>3, <3>4 DEF Receive
    <2> QED
      BY <1>b, <2>1, <2>3, <2>6
  <1>3. CASE Escape
    <2>1. content' \in [Prompts -> Contents] /\ current' \in 0 .. MaxPrompts
      BY <1>3, <1>c, CancelledType, ChatBounds DEF Escape
    <2>2. open' \subseteq messages' /\ messages' \subseteq Prompts /\ busy' \in BOOLEAN
      BY <1>3, <1>a DEF Escape, MsgEnd
    <2>3. ViewType'
      BY <1>3, <1>a, <2>1, <2>2 DEF Escape
    <2> QED
      BY <1>3, <1>b, <1>d, <1>f, <2>3 DEF Escape, CancelStream
  <1>4. CASE Reset
    <2>0. views' \in 0 .. MaxViews
      BY <1>4, <1>a, <1>c DEF Reset
    <2>1. ViewType'
      <3>1. content' \in [Prompts -> Contents]
        BY <1>4, NothingType DEF Reset
      <3>2. /\ messages' = {} /\ open' = {} /\ busy' = FALSE
            /\ UNCHANGED <<mounted, buffer, current>>
        BY <1>4 DEF Reset
      <3> QED
        BY <1>a, <2>0, <3>1, <3>2
    <2> QED
      BY <1>4, <1>b, <1>d, <1>f, <2>1 DEF Reset
  <1>5. CASE Leave
    <2>0. views' \in 0 .. MaxViews
      BY <1>5, <1>a, <1>c DEF Leave
    <2>1. ViewType'
      <3>1. content' \in [Prompts -> Contents] /\ buffer' \in [Prompts -> Seq(Tokens)]
        BY <1>5, NothingType DEF Leave
      <3>2. /\ messages' = {} /\ open' = {} /\ busy' = FALSE /\ mounted' = FALSE
            /\ current' = 0 /\ 0 \in 0 .. MaxPrompts
        BY <1>5, ChatBounds DEF Leave
      <3> QED
        BY <1>a, <2>0, <3>1, <3>2
    <2> QED
      BY <1>5, <1>b, <1>d, <1>f, <2>1 DEF Leave
  <1>6. CASE Return
    <2>1. ViewType'
      BY <1>6, <1>a DEF Return
    <2> QED
      BY <1>6, <1>b, <1>d, <1>f, <2>1 DEF Return
  <1>7. ASSUME NEW p \in Prompts, HandleSend(p)
        PROVE  ChatTypeOK'
    <2>1. ViewType'
      <3>1. content' \in [Prompts -> Contents]
        BY <1>7, <1>a, CancelledType DEF HandleSend
      <3>2. /\ open' \subseteq messages' /\ messages' \subseteq Prompts /\ busy' = TRUE
            /\ current' \in 0 .. MaxPrompts /\ UNCHANGED <<mounted, buffer, views>>
        BY <1>7, <1>a, <1>c DEF HandleSend, Send, MsgStart
      <3> QED
        BY <1>a, <3>1, <3>2
    <2>2. MainType'
      <3>1. process' \in [Prompts -> Lives]
        BY <1>7, <1>a DEF HandleSend, Send, Lives
      <3> QED
        BY <1>7, <1>a, <3>1 DEF HandleSend
    <2> QED
      BY <1>7, <1>b, <1>f, <2>1, <2>2 DEF HandleSend
  <1>8. ASSUME NEW p \in Prompts, RunJcodeStreaming(p)
        PROVE  ChatTypeOK'
    <2>1. MainType'
      <3>1. resumed' \in [Prompts -> 0 .. MaxPrompts] /\ session' = session
        BY <1>8, <1>a DEF RunJcodeStreaming, BuildJcodeArgs
      <3>2. process' \in [Prompts -> Lives]
        BY <1>8, <1>a DEF RunJcodeStreaming, SpawnFails, Lives
      <3>3. lines' \in [Prompts -> 0 .. MaxLines]
        <4>1. lines' = lines \/ lines' = [lines EXCEPT ![p] = 1]
          BY <1>8 DEF RunJcodeStreaming, SpawnFails
        <4>2. 1 \in 0 .. MaxLines
          BY Items
        <4> QED
          BY <1>a, <4>1, <4>2
      <3> QED
        BY <1>a, <3>1, <3>2, <3>3
    <2>2. WireType'
      BY <1>8, <1>a, Items, SendToType DEF RunJcodeStreaming, SpawnFails
    <2> QED
      BY <1>8, <1>b, <1>e, <2>1, <2>2 DEF RunJcodeStreaming
  <1>9. ASSUME NEW p \in Prompts, JcodeLine(p)
        PROVE  ChatTypeOK'
    <2>1. MainType'
      BY <1>9, <1>a, Items DEF JcodeLine
    <2>2. lines[p] + 1 \in 0 .. MaxLines + 1
      BY <1>9, <1>a, Items DEF JcodeLine
    <2>3. WireType'
      BY <1>9, <2>2, Items, SendToType DEF JcodeLine
    <2> QED
      BY <1>9, <1>b, <1>e, <2>1, <2>3 DEF JcodeLine
  <1>10. ASSUME NEW p \in Prompts, JcodeClose(p)
         PROVE  ChatTypeOK'
    <2>1. MainType'
      BY <1>10, <1>a, <1>c DEF JcodeClose, ReportedSession, SessionOf, Lives
    <2>2. WireType'
      BY <1>10, Items, SendToType DEF JcodeClose
    <2> QED
      BY <1>10, <1>b, <1>e, <2>1, <2>2 DEF JcodeClose
  <1>11. CASE UNCHANGED chatVars
    BY <1>11, <1>b, <1>d, <1>e, <1>f DEF chatVars
  <1> QED
    BY <1>1, <1>2, <1>3, <1>4, <1>5, <1>6, <1>7, <1>8, <1>9, <1>10, <1>11 DEF ChatNext

(* A chat that has just been opened is typed.                              *)
LEMMA ChatTypeInit == ChatInit => ChatTypeOK
  <1> SUFFICES ASSUME ChatInit
               PROVE  ChatTypeOK
    OBVIOUS
  <1>1. wire \in Seq([id: Prompts, item: 0 .. MaxLines + 1])
    BY EmptySeq DEF ChatInit
  <1>2. content \in [Prompts -> Seq(0 .. MaxLines + 1)] /\ buffer \in [Prompts -> Seq(Tokens)]
    BY NothingType DEF ChatInit, Contents
  <1> QED
    <2>1. /\ process \in [Prompts -> Lives] /\ lines \in [Prompts -> 0 .. MaxLines]
          /\ resumed \in [Prompts -> 0 .. MaxPrompts] /\ session \in 0 .. MaxPrompts
      BY ChatBounds DEF ChatInit, Lives
    <2>2. /\ messages \subseteq Prompts /\ open \subseteq messages
          /\ current \in 0 .. MaxPrompts /\ views \in 0 .. MaxViews
      BY ChatBounds DEF ChatInit
    <2>3. {mounted, busy} \subseteq BOOLEAN
      BY Zenon DEF ChatInit
    <2> QED
      BY <1>1, <1>2, <2>1, <2>2, <2>3 DEF ChatTypeOK

(* Types of the chat on both sides of the bridge.                          *)
THEOREM ChatTyped == ChatSpec => []ChatTypeOK
  BY ChatTypeInit, ChatTypeStep, PTL DEF ChatSpec

-------------------------------------------------------------------------------
(* Sessions.  Prompts reach main in the order they are sent; a session in  *)
(* use was founded by a process that is gone.                              *)
Founded == {s \in Prompts : process[s] = "gone" /\ lines[s] > 0 /\ resumed[s] = 0}

SessionInv ==
  /\ session # 0 => session \in Founded
  /\ \A p \in Prompts : process[p] \in {"unsent", "asked"} => resumed[p] = 0
  /\ \A p, q \in Prompts : p < q =>
       /\ process[p] = "unsent" => process[q] = "unsent"
       /\ process[p] = "asked" => process[q] \in {"unsent", "asked"}
  /\ ResumesWhatWasFounded

(* A prompt and what comes before it.                                      *)
LEMMA PromptsAreNumbers ==
  /\ \A p \in Prompts : p \in Nat /\ p # 0
  /\ \A p \in Prompts : \A q \in 1 .. p - 1 : q \in Prompts /\ q < p
  /\ \A p, q \in Prompts : q < p => q \in 1 .. p - 1
  /\ \A s \in 0 .. MaxPrompts : s # 0 => s \in Prompts
  BY ChatBounds DEF Prompts

(* Main's variables, all functions of the prompts.                         *)
MainTyped == /\ process \in [Prompts -> Lives] /\ lines \in [Prompts -> 0 .. MaxLines]
             /\ resumed \in [Prompts -> 0 .. MaxPrompts] /\ session \in 0 .. MaxPrompts

(* Every step keeps the sessions in order.                                 *)
LEMMA SessionStep ==
  ASSUME ChatTypeOK, SessionInv, [ChatNext]_chatVars
  PROVE  SessionInv'
  <1>a. MainTyped
    BY DEF ChatTypeOK, MainTyped
  <1>b. \A s \in 0 .. MaxPrompts : s # 0 => s \in Prompts
    BY PromptsAreNumbers
  <1>c. MaxLines \in Nat
    BY Items
  <1>1. ASSUME UNCHANGED mainVars
        PROVE  SessionInv'
    BY <1>1 DEF mainVars, SessionInv, Founded, ResumesWhatWasFounded
  <1>2. ASSUME NEW p \in Prompts, HandleSend(p)
        PROVE  SessionInv'
    <2>1. /\ process' = [process EXCEPT ![p] = "asked"] /\ process[p] = "unsent"
          /\ UNCHANGED <<lines, resumed, session>>
          /\ \A q \in 1 .. p - 1 : process[q] # "unsent"
      BY <1>2 DEF HandleSend, Send
    <2>2. Founded \subseteq Founded'
      BY <1>a, <2>1 DEF Founded, MainTyped
    <2>3. \A q, r \in Prompts : q < r =>
            /\ process'[q] = "unsent" => process'[r] = "unsent"
            /\ process'[q] = "asked" => process'[r] \in {"unsent", "asked"}
      BY <1>a, <2>1, PromptsAreNumbers DEF SessionInv, MainTyped
    <2>4. ResumesWhatWasFounded'
      BY <1>a, <1>b, <2>1, <2>2 DEF SessionInv, ResumesWhatWasFounded, Founded, MainTyped
    <2>5. session' # 0 => session' \in Founded'
      BY <1>a, <1>b, <2>1, <2>2 DEF SessionInv, Founded, MainTyped
    <2>6. \A q \in Prompts : process'[q] \in {"unsent", "asked"} => resumed'[q] = 0
      BY <1>a, <2>1 DEF SessionInv, MainTyped
    <2> QED
      BY <2>3, <2>4, <2>5, <2>6 DEF SessionInv
  <1>3. ASSUME NEW p \in Prompts, RunJcodeStreaming(p)
        PROVE  SessionInv'
    <2>1. /\ process[p] = "asked" /\ \A q \in 1 .. p - 1 : process[q] # "asked"
          /\ resumed' = [resumed EXCEPT ![p] = session] /\ session' = session
          /\ \/ process' = [process EXCEPT ![p] = "running"] /\ lines' = lines
             \/ process' = [process EXCEPT ![p] = "failed"] /\ lines' = [lines EXCEPT ![p] = 1]
      BY <1>3 DEF RunJcodeStreaming, BuildJcodeArgs, SpawnFails
    <2>2. Founded \subseteq Founded' \ {p}
      BY <1>a, <2>1 DEF Founded, MainTyped
    <2>3. \A q, r \in Prompts : q < r =>
            /\ process'[q] = "unsent" => process'[r] = "unsent"
            /\ process'[q] = "asked" => process'[r] \in {"unsent", "asked"}
      BY <1>a, <2>1, PromptsAreNumbers DEF SessionInv, MainTyped
    <2>4. session # 0 => session \in Prompts /\ session \in Founded' /\ session < p
      <3>1. ASSUME session # 0
            PROVE  session \in Prompts /\ session \in Founded
        BY <1>a, <1>b, <3>1 DEF SessionInv, MainTyped
      <3>2. ASSUME session # 0, p < session
            PROVE  FALSE
        BY <2>1, <3>1, <3>2 DEF SessionInv, Founded
      <3> QED
        BY <2>2, <3>1, <3>2, PromptsAreNumbers
    <2>5. ResumesWhatWasFounded'
      <3>1. ASSUME NEW q \in Prompts, resumed'[q] # 0
            PROVE  resumed'[q] < q /\ resumed'[q] \in Founded'
        <4>1. CASE q = p
          <5>1. resumed'[q] = session
            BY <1>a, <2>1, <4>1 DEF MainTyped
          <5> QED
            BY <2>4, <3>1, <4>1, <5>1
        <4>2. CASE q # p
          <5>1. resumed'[q] = resumed[q] /\ resumed[q] \in Prompts
            BY <1>a, <1>b, <2>1, <3>1, <4>2 DEF MainTyped
          <5>2. resumed[q] < q /\ resumed[q] \in Founded
            BY <3>1, <5>1 DEF SessionInv, ResumesWhatWasFounded, Founded
          <5> QED
            BY <2>2, <5>1, <5>2
        <4> QED
          BY <4>1, <4>2
      <3> QED
        BY <3>1 DEF ResumesWhatWasFounded, Founded
    <2>6. \A q \in Prompts : process'[q] \in {"unsent", "asked"} => resumed'[q] = 0
      BY <1>a, <2>1 DEF SessionInv, MainTyped
    <2> QED
      BY <2>1, <2>3, <2>4, <2>5, <2>6 DEF SessionInv
  <1>4. ASSUME NEW p \in Prompts, JcodeLine(p)
        PROVE  SessionInv'
    <2>1. /\ process[p] = "running" /\ lines' = [lines EXCEPT ![p] = @ + 1]
          /\ UNCHANGED <<process, resumed, session>>
      BY <1>4 DEF JcodeLine
    <2>2. Founded \subseteq Founded'
      BY <1>a, <2>1 DEF Founded, MainTyped
    <2>3. ResumesWhatWasFounded'
      BY <1>a, <1>b, <2>1, <2>2 DEF SessionInv, ResumesWhatWasFounded, Founded, MainTyped
    <2>4. session' # 0 => session' \in Founded'
      BY <1>a, <1>b, <2>1, <2>2 DEF SessionInv, Founded, MainTyped
    <2> QED
      BY <2>1, <2>3, <2>4 DEF SessionInv
  <1>5. ASSUME NEW p \in Prompts, JcodeClose(p)
        PROVE  SessionInv'
    <2>1. /\ process[p] \in {"running", "failed"} /\ process' = [process EXCEPT ![p] = "gone"]
          /\ UNCHANGED <<lines, resumed>> /\ session' = ReportedSession(p)
      BY <1>5 DEF JcodeClose
    <2>2. Founded \subseteq Founded'
      BY <1>a, <2>1 DEF Founded, MainTyped
    <2>3. \A q, r \in Prompts : q < r =>
            /\ process'[q] = "unsent" => process'[r] = "unsent"
            /\ process'[q] = "asked" => process'[r] \in {"unsent", "asked"}
      BY <1>a, <2>1 DEF SessionInv, MainTyped
    <2>4. ResumesWhatWasFounded'
      BY <1>a, <1>b, <2>1, <2>2 DEF SessionInv, ResumesWhatWasFounded, Founded, MainTyped
    <2>5. session' # 0 => session' \in Founded'
      <3>1. CASE process[p] = "running" /\ lines[p] > 0 /\ resumed[p] # 0
        <4>1. session' = resumed[p] /\ resumed[p] \in Prompts
          BY <1>a, <1>b, <2>1, <3>1 DEF ReportedSession, SessionOf, MainTyped
        <4>2. resumed[p] \in Founded
          BY <3>1, <4>1 DEF SessionInv, ResumesWhatWasFounded, Founded
        <4> QED
          BY <2>2, <4>1, <4>2 DEF Founded
      <3>2. CASE process[p] = "running" /\ lines[p] > 0 /\ resumed[p] = 0
        <4>1. session' = p
          BY <2>1, <3>2 DEF ReportedSession, SessionOf
        <4> QED
          BY <1>a, <2>1, <3>2, <4>1 DEF Founded, MainTyped
      <3>3. CASE ~(process[p] = "running" /\ lines[p] > 0)
        <4>1. session' = session
          BY <2>1, <3>3 DEF ReportedSession
        <4>2. session # 0 => session \in Prompts /\ session \in Founded
          BY <1>a, <1>b DEF SessionInv, MainTyped
        <4> QED
          BY <2>2, <4>1, <4>2 DEF Founded
      <3> QED
        BY <3>1, <3>2, <3>3
    <2>6. \A q \in Prompts : process'[q] \in {"unsent", "asked"} => resumed'[q] = 0
      BY <1>a, <2>1 DEF SessionInv, MainTyped
    <2> QED
      BY <2>3, <2>4, <2>5, <2>6 DEF SessionInv
  <1>6. CASE FlushTokens \/ Receive \/ Escape \/ Reset \/ Leave \/ Return \/ UNCHANGED chatVars
    <2>1. UNCHANGED mainVars
      BY <1>6 DEF FlushTokens, Receive, Escape, CancelStream, Reset, Leave, Return, chatVars
    <2> QED
      BY <1>1, <2>1
  <1> QED
    BY <1>2, <1>3, <1>4, <1>5, <1>6 DEF ChatNext

(* At first there is no session.                                           *)
LEMMA SessionStart == ChatInit => SessionInv
  BY DEF ChatInit, SessionInv, ResumesWhatWasFounded

(* activeSessionId (jcode-client.ts): whatever processes run side by side, *)
(* fail or are aborted, a process resumes only a session that an earlier   *)
(* process founded and left.                                               *)
THEOREM SessionsAreFounded == ChatSpec => []ResumesWhatWasFounded
  <1>1. SessionInv => ResumesWhatWasFounded
    BY DEF SessionInv
  <1> QED
    BY <1>1, SessionStart, SessionStep, ChatTyped, PTL DEF ChatSpec

-------------------------------------------------------------------------------
(* The wire.  It carries the end of a stream at most once, and only of a   *)
(* process that is gone.                                                   *)
Ending(p) == [id |-> p, item |-> Aborted]
Sent      == {p \in Prompts : process[p] # "unsent"}
Coming    == {p \in Prompts : EndToCome(p)}
Live      == {"asked", "running", "failed"}

WireInv ==
  /\ \A i \in 1 .. Len(wire) :
       /\ process[wire[i].id] # "unsent"
       /\ wire[i].item = Aborted => process[wire[i].id] = "gone"
  /\ \A i, j \in 1 .. Len(wire) : wire[i].item = Aborted /\ wire[i] = wire[j] => i = j

(* The wire is a sequence of events.                                       *)
LEMMA WireTyped ==
  ASSUME ChatTypeOK
  PROVE  /\ wire \in Seq(Events) /\ Len(wire) \in Nat /\ DOMAIN wire = 1 .. Len(wire)
         /\ \A i \in 1 .. Len(wire) :
              /\ wire[i] \in Events /\ wire[i].id \in Prompts
              /\ wire[i] = [id |-> wire[i].id, item |-> wire[i].item]
  <1>1. wire \in Seq(Events)
    BY DEF ChatTypeOK, Events
  <1>2. \A i \in 1 .. Len(wire) : wire[i] \in Events
    BY <1>1, ElementOfSeq
  <1>3. \A e \in Events : e.id \in Prompts /\ e = [id |-> e.id, item |-> e.item]
    BY DEF Events
  <1> QED
    BY <1>1, <1>2, <1>3, LenProperties

(* An end is to come of prompts that were sent.                            *)
LEMMA ComingAreSent ==
  ASSUME ChatTypeOK, WireInv
  PROVE  Coming \subseteq Sent
  <1> SUFFICES ASSUME NEW p \in Prompts, EndToCome(p)
               PROVE  process[p] # "unsent"
    BY DEF Coming, Sent
  <1>1. CASE process[p] \in {"asked", "running", "failed"}
    BY <1>1
  <1>2. CASE \E i \in DOMAIN wire : wire[i] = Ending(p)
    BY <1>2, WireTyped DEF WireInv, Ending
  <1> QED
    BY <1>1, <1>2 DEF EndToCome, Ending

(* A longer wire.                                                          *)
LEMMA WireGrows ==
  ASSUME ChatTypeOK, NEW p \in Prompts, NEW item \in 0 .. MaxLines + 1, SendTo(p, item)
  PROVE  /\ Len(wire') = Len(wire) + 1 /\ DOMAIN wire' = 1 .. Len(wire')
         /\ \A i \in 1 .. Len(wire) : wire'[i] = wire[i]
         /\ wire'[Len(wire) + 1] = [id |-> p, item |-> item]
  <1>1. wire \in Seq(Events) /\ [id |-> p, item |-> item] \in Events
    BY DEF ChatTypeOK, Events
  <1>2. wire' \in Seq(Events)
    BY SendToType
  <1> QED
    BY <1>1, <1>2, AppendProperties, LenProperties DEF SendTo

(* A line on the wire that ends no stream.                                 *)
LEMMA LineKeepsWire ==
  ASSUME ChatTypeOK, WireInv, NEW p \in Sent, NEW item \in 0 .. MaxLines + 1,
         item # Aborted, SendTo(p, item),
         \A q \in Prompts : process'[q] = process[q] \/ {process[q], process'[q]} \subseteq Live
  PROVE  WireInv' /\ Coming' = Coming
  <1>a. p \in Prompts /\ process[p] # "unsent"
    BY DEF Sent
  <1>1. /\ Len(wire') = Len(wire) + 1 /\ DOMAIN wire' = 1 .. Len(wire')
        /\ \A i \in 1 .. Len(wire) : wire'[i] = wire[i]
        /\ wire'[Len(wire) + 1] = [id |-> p, item |-> item]
    BY <1>a, WireGrows
  <1>2. \A i \in 1 .. Len(wire') : i \in 1 .. Len(wire) \/ i = Len(wire) + 1
    BY <1>1, WireTyped
  <1>3. \A q \in Prompts : process[q] # "unsent" => process'[q] # "unsent"
    BY DEF Live
  <1>4. \A i \in 1 .. Len(wire') :
          /\ process'[wire'[i].id] # "unsent"
          /\ wire'[i].item = Aborted => process'[wire'[i].id] = "gone"
    <2>1. ASSUME NEW i \in 1 .. Len(wire)
          PROVE  /\ process'[wire'[i].id] # "unsent"
                 /\ wire'[i].item = Aborted => process'[wire'[i].id] = "gone"
      <3>1. wire'[i] = wire[i] /\ wire[i].id \in Prompts
        BY <1>1, WireTyped
      <3>2. /\ process[wire[i].id] # "unsent"
            /\ wire[i].item = Aborted => process[wire[i].id] = "gone"
        BY DEF WireInv
      <3> QED
        BY <1>3, <3>1, <3>2 DEF Live
    <2>2. ASSUME NEW i, i = Len(wire) + 1
          PROVE  /\ process'[wire'[i].id] # "unsent" /\ wire'[i].item # Aborted
      BY <1>a, <1>1, <1>3, <2>2
    <2> QED
      BY <1>2, <2>1, <2>2
  <1>5. \A i, j \in 1 .. Len(wire') : wire'[i].item = Aborted /\ wire'[i] = wire'[j] => i = j
    BY <1>1, <1>2 DEF WireInv
  <1>6. \A q \in Prompts : (\E i \in DOMAIN wire' : wire'[i] = [id |-> q, item |-> Aborted])
                        <=> (\E i \in DOMAIN wire : wire[i] = [id |-> q, item |-> Aborted])
    BY <1>1, <1>2, WireTyped
  <1> QED
    BY <1>4, <1>5, <1>6 DEF WireInv, Coming, EndToCome, Live

(* A process that comes to life or goes on living.                         *)
LEMMA LivingKeepsWire ==
  ASSUME ChatTypeOK, WireInv, UNCHANGED wire,
         \A q \in Prompts : process'[q] = process[q] \/ {process[q], process'[q]} \subseteq Live
  PROVE  WireInv' /\ Coming' = Coming
  <1>1. \A i \in 1 .. Len(wire) : wire[i].id \in Prompts
    BY WireTyped
  <1> QED
    BY <1>1 DEF WireInv, Coming, EndToCome, Live

(* The end of a process moves onto the wire.                               *)
LEMMA CloseKeepsWire ==
  ASSUME ChatTypeOK, WireInv, NEW p \in Prompts, JcodeClose(p)
  PROVE  WireInv' /\ Coming' = Coming
  <1>a. /\ process[p] \in {"running", "failed"} /\ process' = [process EXCEPT ![p] = "gone"]
        /\ SendTo(p, Aborted) /\ process \in [Prompts -> Lives]
    BY DEF JcodeClose, ChatTypeOK
  <1>1. /\ Len(wire') = Len(wire) + 1 /\ DOMAIN wire' = 1 .. Len(wire')
        /\ \A i \in 1 .. Len(wire) : wire'[i] = wire[i]
        /\ wire'[Len(wire) + 1] = [id |-> p, item |-> Aborted]
    BY <1>a, WireGrows, Items
  <1>2. \A i \in 1 .. Len(wire') : i \in 1 .. Len(wire) \/ i = Len(wire) + 1
    BY <1>1, WireTyped
  <1>3. \A i \in 1 .. Len(wire) : wire[i] # [id |-> p, item |-> Aborted]
    BY <1>a DEF WireInv
  <1>4. /\ process'[p] = "gone" /\ \A q \in Prompts : q # p => process'[q] = process[q]
    BY <1>a
  <1>5. \A i \in 1 .. Len(wire') :
          /\ process'[wire'[i].id] # "unsent"
          /\ wire'[i].item = Aborted => process'[wire'[i].id] = "gone"
    BY <1>1, <1>2, <1>4, WireTyped DEF WireInv
  <1>6. \A i, j \in 1 .. Len(wire') : wire'[i].item = Aborted /\ wire'[i] = wire'[j] => i = j
    BY <1>1, <1>2, <1>3 DEF WireInv
  <1>7. \A q \in Prompts : q # p =>
          ((\E i \in DOMAIN wire' : wire'[i] = [id |-> q, item |-> Aborted])
             <=> (\E i \in DOMAIN wire : wire[i] = [id |-> q, item |-> Aborted]))
    BY <1>1, <1>2, WireTyped
  <1>8. \E i \in DOMAIN wire' : wire'[i] = [id |-> p, item |-> Aborted]
    BY <1>1, WireTyped
  <1> QED
    BY <1>a, <1>4, <1>5, <1>6, <1>7, <1>8 DEF WireInv, Coming, EndToCome

(* The first event leaves the wire, and with it the end it may carry.      *)
LEMMA ReceiveKeepsWire ==
  ASSUME ChatTypeOK, WireInv, Receive
  PROVE  /\ WireInv' /\ Head(wire) \in Events
         /\ Head(wire).item = Aborted => /\ Coming' = Coming \ {Head(wire).id}
                                         /\ Head(wire).id \in Coming
         /\ Head(wire).item # Aborted => Coming' = Coming
  <1>a. wire # <<>> /\ wire' = Tail(wire) /\ process' = process
    BY DEF Receive, mainVars
  <1>b. wire \in Seq(Events) /\ Len(wire) \in Nat /\ DOMAIN wire = 1 .. Len(wire)
    BY WireTyped
  <1>1. /\ Head(wire) \in Events /\ Tail(wire) \in Seq(Events)
        /\ Len(wire') = Len(wire) - 1 /\ \A i \in 1 .. Len(wire') : wire'[i] = wire[i + 1]
    BY <1>a, <1>b, HeadTailProperties
  <1>2. DOMAIN wire' = 1 .. Len(wire') /\ Len(wire') \in Nat
    BY <1>a, <1>1, LenProperties
  <1>3. Head(wire) = wire[1] /\ 1 \in 1 .. Len(wire)
    BY <1>a, <1>b, EmptySeq
  <1>4. \A i \in 1 .. Len(wire') : i + 1 \in 1 .. Len(wire) /\ i + 1 # 1
    BY <1>b, <1>1, <1>2
  <1>5. \A i \in 1 .. Len(wire) : i = 1 \/ (i - 1 \in 1 .. Len(wire') /\ wire'[i - 1] = wire[i])
    <2>1. \A i \in 1 .. Len(wire) : i = 1 \/ (i - 1 \in 1 .. Len(wire') /\ (i - 1) + 1 = i)
      BY <1>b, <1>1
    <2> QED
      BY <1>1, <2>1
  <1>6. WireInv'
    <2>1. \A i \in 1 .. Len(wire') :
            /\ process'[wire'[i].id] # "unsent"
            /\ wire'[i].item = Aborted => process'[wire'[i].id] = "gone"
      BY <1>a, <1>1, <1>4 DEF WireInv
    <2>2. \A i, j \in 1 .. Len(wire') : i + 1 = j + 1 => i = j
      BY <1>2
    <2>3. \A i, j \in 1 .. Len(wire') : wire'[i].item = Aborted /\ wire'[i] = wire'[j] => i = j
      BY <1>1, <1>4, <2>2 DEF WireInv
    <2> QED
      BY <2>1, <2>3 DEF WireInv
  <1>7. ASSUME NEW q \in Prompts
        PROVE  (\E i \in DOMAIN wire' : wire'[i] = Ending(q))
                 <=> (\E i \in DOMAIN wire : i # 1 /\ wire[i] = Ending(q))
    <2>1. ASSUME NEW i \in DOMAIN wire', wire'[i] = Ending(q)
          PROVE  \E k \in DOMAIN wire : k # 1 /\ wire[k] = Ending(q)
      <3>1. i \in 1 .. Len(wire')
        BY <1>2
      <3>2. i + 1 \in DOMAIN wire /\ i + 1 # 1 /\ wire[i + 1] = Ending(q)
        BY <1>b, <1>1, <1>4, <2>1, <3>1
      <3> QED
        BY <3>2
    <2>2. ASSUME NEW i \in DOMAIN wire, i # 1, wire[i] = Ending(q)
          PROVE  \E k \in DOMAIN wire' : wire'[k] = Ending(q)
      <3>1. i - 1 \in DOMAIN wire' /\ wire'[i - 1] = Ending(q)
        BY <1>b, <1>2, <1>5, <2>2
      <3> QED
        BY <3>1
    <2> QED
      BY <2>1, <2>2
  <1>8. ASSUME NEW q \in Prompts, wire[1] = Ending(q)
        PROVE  /\ process[q] = "gone" /\ \A i \in 1 .. Len(wire) : wire[i] = Ending(q) => i = 1
    BY <1>3, <1>8 DEF WireInv, Ending
  <1>9. ASSUME NEW q \in Prompts
        PROVE  q \in Coming' <=> q \in Coming /\ wire[1] # Ending(q)
    BY <1>a, <1>b, <1>7, <1>8 DEF Coming, EndToCome, Ending
  <1>10. Head(wire).id \in Prompts /\ Head(wire) = [id |-> Head(wire).id, item |-> Head(wire).item]
    BY <1>1 DEF Events
  <1>11. CASE Head(wire).item = Aborted
    <2>1. wire[1] = Ending(Head(wire).id) /\ \A q \in Prompts : wire[1] = Ending(q) => q = Head(wire).id
      BY <1>3, <1>10, <1>11 DEF Ending
    <2>2. Head(wire).id \in Coming
      BY <1>3, <1>b, <1>10, <2>1 DEF Coming, EndToCome, Ending
    <2>3. Coming' = Coming \ {Head(wire).id}
      <3>1. Coming \subseteq Prompts /\ Coming' \subseteq Prompts
        BY DEF Coming, Prompts
      <3> QED
        BY <1>9, <2>1, <3>1
    <2> QED
      BY <1>1, <1>6, <1>11, <2>2, <2>3
  <1>12. CASE Head(wire).item # Aborted
    <2>1. \A q \in Prompts : wire[1] # Ending(q)
      BY <1>3, <1>12 DEF Ending
    <2>2. Coming \subseteq Prompts /\ Coming' \subseteq Prompts
      BY DEF Coming, Prompts
    <2> QED
      BY <1>1, <1>6, <1>9, <1>12, <2>1, <2>2
  <1> QED
    BY <1>11, <1>12

-------------------------------------------------------------------------------
(* Messages.  Lost are the prompts whose message is gone or aborted; what  *)
(* ends of them is taken for the end of a later one.                       *)
Marked == {q \in Prompts : WasAborted(q)}
Lost   == {q \in Sent : q \notin messages \/ q \in Marked}

(* A text that grows keeps its abort marker.                               *)
LEMMA MarkerStays ==
  ASSUME ChatTypeOK, NEW q \in Prompts, NEW t \in Contents, content'[q] = content[q] \o t
  PROVE  q \in Marked => q \in Marked'
  <1>1. content[q] \in Contents
    BY DEF ChatTypeOK, Contents
  <1>2. /\ DOMAIN content[q] = 1 .. Len(content[q]) /\ Len(content[q]) \in Nat /\ Len(t) \in Nat
        /\ content'[q] \in Contents /\ Len(content'[q]) = Len(content[q]) + Len(t)
        /\ \A i \in 1 .. Len(content[q]) + Len(t) :
             content'[q][i] = IF i <= Len(content[q]) THEN content[q][i] ELSE t[i - Len(content[q])]
    BY <1>1, ConcatProperties, LenProperties DEF Contents
  <1>3. DOMAIN content'[q] = 1 .. Len(content'[q])
    BY <1>2, LenProperties DEF Contents
  <1>4. \A i \in DOMAIN content[q] : i \in DOMAIN content'[q] /\ content'[q][i] = content[q][i]
    BY <1>2, <1>3
  <1> QED
    BY <1>4 DEF Marked, WasAborted, Aborted

(* cancel() marks the current message and takes nothing from the others.   *)
LEMMA CancelMarks ==
  ASSUME ChatTypeOK, content' = Cancelled
  PROVE  /\ Marked \subseteq Marked'
         /\ current # 0 /\ current \in messages => current \in Marked'
  <1>1. content \in [Prompts -> Contents] /\ current \in 0 .. MaxPrompts /\ messages \subseteq Prompts
    BY DEF ChatTypeOK, Contents
  <1>2. <<Aborted>> \in Contents /\ Len(<<Aborted>>) = 1 /\ <<Aborted>>[1] = Aborted
    BY Items DEF Contents
  <1>3. CASE current # 0 /\ current \in messages
    <2>1. content' = [content EXCEPT ![current] = @ \o <<Aborted>>]
      BY <1>3 DEF Cancelled, Shown
    <2>2. current \in Prompts /\ content'[current] = content[current] \o <<Aborted>>
      BY <1>1, <1>3, <2>1
    <2>3. content[current] \in Contents
      BY <1>1, <2>2
    <2>4. /\ content'[current] \in Contents /\ Len(content'[current]) = Len(content[current]) + 1
          /\ Len(content[current]) \in Nat
          /\ \A i \in 1 .. Len(content[current]) + 1 : content'[current][i] =
               IF i <= Len(content[current]) THEN content[current][i]
               ELSE <<Aborted>>[i - Len(content[current])]
      BY <1>2, <2>2, <2>3, ConcatProperties, LenProperties DEF Contents
    <2>5. /\ Len(content[current]) + 1 \in DOMAIN content'[current]
          /\ content'[current][Len(content[current]) + 1] = Aborted
      <3>1. DOMAIN content'[current] = 1 .. Len(content'[current])
        BY <2>4, LenProperties DEF Contents
      <3>2. content'[current][Len(content[current]) + 1] = <<Aborted>>[1]
        BY <2>4
      <3> QED
        BY <1>2, <2>4, <3>1, <3>2
    <2>6. current \in Marked'
      BY <2>2, <2>5 DEF Marked, WasAborted, Aborted, Prompts
    <2>8. \A q \in Prompts : q # current => content'[q] = content[q]
      BY <1>1, <2>1
    <2> QED
      BY <2>6, <2>8 DEF Marked, WasAborted, Aborted, Prompts
  <1>4. CASE current = 0 \/ current \notin messages
    <2>1. content' = content
      BY <1>4 DEF Cancelled, Shown
    <2> QED
      BY <1>4, <2>1 DEF Marked, WasAborted, Aborted, Prompts
  <1> QED
    BY <1>3, <1>4

(* A lost message stays lost.                                              *)
LEMMA LostStays ==
  ASSUME Sent \subseteq Sent', messages' \intersect Sent \subseteq messages,
         Marked \subseteq Marked' \/ messages' = {}
  PROVE  Lost \subseteq Lost'
  BY DEF Lost

(* What the renderer holds of the streams.                                 *)
ViewInv ==
  /\ ~mounted => busy = FALSE /\ messages = {}
  /\ messages \subseteq Sent
  /\ current # 0 => current \in Sent /\ \A q \in Sent : ~(current < q)
  /\ busy => current \in open /\ current \in Coming
  /\ Coming \subseteq Lost \union open
  /\ \A p \in open : \/ \E q \in Lost : q < p
                     \/ busy /\ current = p /\ \A q \in Coming : ~(q < p)

(* Nothing of this depends on more than these.                             *)
LEMMA ViewUnchanged ==
  ASSUME ViewInv, Sent' = Sent, Coming' = Coming, Lost \subseteq Lost',
         UNCHANGED <<mounted, messages, open, busy, current>>
  PROVE  ViewInv'
  BY DEF ViewInv

(* A frame is drawn.                                                       *)
LEMMA FlushKeepsView ==
  ASSUME ChatTypeOK, WireInv, ViewInv, FlushTokens
  PROVE  WireInv' /\ ViewInv'
  <1>1. /\ UNCHANGED <<process, wire, mounted, messages, open, busy, current>>
        /\ content' = Flushed
    BY DEF FlushTokens, mainVars
  <1>2. WireInv' /\ Coming' = Coming /\ Sent' = Sent
    BY <1>1 DEF WireInv, Coming, EndToCome, Sent, Aborted, Prompts
  <1>3. ASSUME NEW q \in Prompts
        PROVE  q \in Marked => q \in Marked'
    <2>1. CASE q \in messages
      <3>1. content'[q] = content[q] \o buffer[q]
        BY <1>1, <2>1 DEF Flushed
      <3>2. buffer[q] \in Seq(Tokens)
        BY DEF ChatTypeOK
      <3>3. buffer[q] \in Contents
        BY <3>2, Items, SeqMonotonic DEF Contents
      <3> QED
        BY <3>1, <3>3, MarkerStays
    <2>2. CASE q \notin messages
      <3>1. content'[q] = content[q]
        BY <1>1, <2>2 DEF Flushed
      <3> QED
        BY <3>1 DEF Marked, WasAborted, Aborted, Prompts
    <2> QED
      BY <2>1, <2>2
  <1>4. Marked \subseteq Marked'
    BY <1>3 DEF Marked
  <1>5. Lost \subseteq Lost'
    BY <1>1, <1>2, <1>4, LostStays
  <1> QED
    BY <1>1, <1>2, <1>5, ViewUnchanged

(* An event arrives.                                                       *)
LEMMA ReceiveKeepsView ==
  ASSUME ChatTypeOK, WireInv, ViewInv, Receive
  PROVE  WireInv' /\ ViewInv'
  <1> DEFINE e == Head(wire)
  <1>1. /\ UNCHANGED <<process, mounted, messages, current>>
    BY DEF Receive, mainVars
  <1>2. /\ WireInv' /\ e \in Events
        /\ e.item = Aborted => Coming' = Coming \ {e.id} /\ e.id \in Coming
        /\ e.item # Aborted => Coming' = Coming
    BY ReceiveKeepsWire
  <1>3. Sent' = Sent
    BY <1>1 DEF Sent, Prompts
  <1>4. e.id \in Prompts
    BY <1>2 DEF Events
  <1>5. Marked \subseteq Marked'
    <2>1. CASE UNCHANGED content
      BY <2>1 DEF Marked, WasAborted, Aborted, Prompts
    <2>2. CASE content' = Shown(e.id, <<ErrorText>>)
      <3>1. <<ErrorText>> \in Contents /\ content \in [Prompts -> Contents]
        BY Items DEF ChatTypeOK, Contents
      <3>2. ASSUME NEW q \in Prompts
            PROVE  q \in Marked => q \in Marked'
        <4>1. CASE q = e.id /\ q \in messages
          <5>1. content'[q] = content[q] \o <<ErrorText>>
            BY <2>2, <3>1, <4>1 DEF Shown
          <5> QED
            BY <3>1, <5>1, MarkerStays
        <4>2. CASE ~(q = e.id /\ q \in messages)
          <5>1. content'[q] = content[q]
            BY <2>2, <3>1, <4>2 DEF Shown
          <5> QED
            BY <5>1 DEF Marked, WasAborted, Aborted, Prompts
        <4> QED
          BY <4>1, <4>2
      <3> QED
        BY <3>2 DEF Marked
    <2> QED
      BY <2>1, <2>2 DEF Receive
  <1>6. Lost \subseteq Lost'
    BY <1>1, <1>3, <1>5, LostStays
  <1>7. CASE UNCHANGED <<open, busy>> /\ e.item # Aborted
    BY <1>1, <1>2, <1>3, <1>6, <1>7, ViewUnchanged
  <1>8. CASE ~mounted
    <2>1. UNCHANGED <<open, busy>> /\ messages = {} /\ busy = FALSE
      BY <1>8 DEF Receive, ViewInv
    <2>2. open = {} /\ Coming' \subseteq Coming
      BY <1>2, <2>1 DEF ChatTypeOK
    <2> QED
      BY <1>1, <1>2, <1>3, <1>6, <2>1, <2>2 DEF ViewInv
  <1>9. CASE mounted /\ e.item = Aborted
    <2>1. open' = open \ {e.id} /\ busy' = FALSE
      BY <1>9, Items DEF Receive, MsgEnd
    <2>2. Coming' \subseteq Lost' \union open'
      BY <1>2, <1>6, <1>9, <2>1 DEF ViewInv
    <2>3. ASSUME NEW p \in open'
          PROVE  \E q \in Lost' : q < p
      <3>1. p \in open /\ p # e.id /\ p \in Prompts
        BY <2>1 DEF ChatTypeOK
      <3>2. ASSUME busy, current = p, \A q \in Coming : ~(q < p)
            PROVE  FALSE
        <4>1. e.id \in Sent /\ ~(e.id < p)
          BY <1>2, <1>9, <3>2, ComingAreSent
        <4>2. p # 0
          BY <3>1, PromptsAreNumbers
        <4>3. ~(p < e.id)
          BY <3>2, <4>1, <4>2 DEF ViewInv
        <4>4. p \in Nat /\ e.id \in Nat
          BY <1>4, <3>1, PromptsAreNumbers
        <4> QED
          BY <3>1, <4>1, <4>3, <4>4
      <3> QED
        BY <1>6, <3>1, <3>2 DEF ViewInv
    <2> QED
      BY <1>1, <1>2, <1>3, <1>9, <2>1, <2>2, <2>3 DEF ViewInv
  <1>10. \/ ~mounted \/ (mounted /\ e.item = Aborted)
         \/ (UNCHANGED <<open, busy>> /\ e.item # Aborted)
    BY Items DEF Receive
  <1> QED
    BY <1>2, <1>7, <1>8, <1>9, <1>10

(* The user aborts.                                                        *)
LEMMA EscapeKeepsView ==
  ASSUME ChatTypeOK, WireInv, ViewInv, Escape
  PROVE  WireInv' /\ ViewInv'
  <1>1. /\ UNCHANGED <<process, wire, mounted, messages>> /\ mounted /\ busy
        /\ content' = Cancelled /\ current' = 0
    BY DEF Escape, CancelStream, mainVars
  <1>2. WireInv' /\ Coming' = Coming /\ Sent' = Sent
    BY <1>1 DEF WireInv, Coming, EndToCome, Sent, Aborted, Prompts
  <1>3. current \in open /\ current \in messages /\ current \in Prompts /\ current # 0
    BY <1>1, PromptsAreNumbers DEF ViewInv, ChatTypeOK
  <1>4. open' = open \ {current} /\ busy' = FALSE
    BY <1>3 DEF Escape, MsgEnd
  <1>5. Marked \subseteq Marked' /\ current \in Marked'
    BY <1>1, <1>3, CancelMarks
  <1>6. Lost \subseteq Lost' /\ current \in Lost'
    <2>1. Lost \subseteq Lost'
      BY <1>1, <1>2, <1>5, LostStays
    <2>2. current \in Sent'
      BY <1>2, <1>3 DEF ViewInv
    <2> QED
      BY <1>5, <2>1, <2>2 DEF Lost
  <1>7. \A p \in open' : \E q \in Lost' : q < p
    BY <1>4, <1>6 DEF ViewInv
  <1>8. Coming' \subseteq Lost' \union open'
    BY <1>2, <1>4, <1>6 DEF ViewInv
  <1> QED
    BY <1>1, <1>2, <1>4, <1>7, <1>8 DEF ViewInv

(* The list is emptied, or the panel closed.                               *)
LEMMA ResetKeepsView ==
  ASSUME ChatTypeOK, WireInv, ViewInv, Reset \/ Leave
  PROVE  WireInv' /\ ViewInv'
  <1>1. /\ UNCHANGED <<process, wire>> /\ messages' = {} /\ open' = {} /\ busy' = FALSE
        /\ current' \in {0, current}
    BY DEF Reset, Leave, mainVars
  <1>2. WireInv' /\ Coming' = Coming /\ Sent' = Sent
    BY <1>1 DEF WireInv, Coming, EndToCome, Sent, Aborted, Prompts
  <1>3. Coming' \subseteq Lost'
    BY <1>1, <1>2, ComingAreSent DEF Lost
  <1> QED
    BY <1>1, <1>2, <1>3 DEF ViewInv

(* The user sends a prompt.                                                *)
LEMMA SendKeepsView ==
  ASSUME ChatTypeOK, SessionInv, WireInv, ViewInv, NEW p \in Prompts, HandleSend(p)
  PROVE  WireInv' /\ ViewInv'
  <1>1. /\ process' = [process EXCEPT ![p] = "asked"] /\ process[p] = "unsent"
        /\ UNCHANGED <<wire, mounted>> /\ mounted /\ current' = p /\ busy' = TRUE
        /\ messages' = messages \union {p}
        /\ open' = (IF busy THEN open \ {current} ELSE open) \union {p}
        /\ content' = IF busy THEN Cancelled ELSE content
    BY DEF HandleSend, Send, MsgStart
  <1>2. process \in [Prompts -> Lives] /\ open \subseteq Prompts
    BY DEF ChatTypeOK
  <1>3. Sent' = Sent \union {p} /\ p \notin Sent /\ Sent \subseteq Prompts
    BY <1>1, <1>2 DEF Sent, Prompts
  <1>4. \A q \in Sent : q < p
    <2>1. ASSUME NEW q \in Sent, p < q
          PROVE  FALSE
      BY <1>1, <2>1 DEF SessionInv, Sent
    <2>2. \A q \in Sent : q \in Nat /\ q # p
      BY <1>3, PromptsAreNumbers
    <2>3. p \in Nat
      BY PromptsAreNumbers
    <2> QED
      BY <2>1, <2>2, <2>3
  <1>5. WireInv' /\ Coming' = Coming \union {p}
    <2>1. \A q \in Prompts : q # p => process'[q] = process[q]
      BY <1>1, <1>2
    <2>2. process'[p] = "asked"
      BY <1>1, <1>2
    <2>3. \A i \in 1 .. Len(wire) : wire[i].id \in Prompts /\ wire[i].id # p
      BY <1>1, WireTyped DEF WireInv
    <2>4. WireInv'
      BY <1>1, <2>1, <2>3 DEF WireInv, Aborted
    <2>5. Coming' = Coming \union {p}
      BY <1>1, <2>1, <2>2 DEF Coming, EndToCome, Aborted, Prompts
    <2> QED
      BY <2>4, <2>5
  <1>6. Marked \subseteq Marked'
    <2>1. CASE busy
      BY <1>1, <2>1, CancelMarks
    <2>2. CASE ~busy
      BY <1>1, <2>2 DEF Marked, WasAborted, Aborted, Prompts
    <2> QED
      BY <2>1, <2>2
  <1>7. Lost \subseteq Lost'
    BY <1>1, <1>3, <1>6, LostStays
  <1>8. ASSUME busy
        PROVE  current \in Lost' /\ current \in Sent
    <2>1. current \in open /\ current \in messages /\ current # 0 /\ current \in Sent
      BY <1>8, PromptsAreNumbers DEF ViewInv, ChatTypeOK
    <2>2. current \in Marked'
      BY <1>1, <1>8, <2>1, CancelMarks
    <2> QED
      BY <1>3, <2>1, <2>2 DEF Lost
  <1>9. Coming' \subseteq Lost' \union open'
    BY <1>1, <1>5, <1>7, <1>8 DEF ViewInv
  <1>10. ASSUME NEW r \in open', r # p
         PROVE  \E q \in Lost' : q < r
    BY <1>1, <1>7, <1>10 DEF ViewInv
  <1>11. \/ \E q \in Lost' : q < p
         \/ \A q \in Coming' : ~(q < p)
    <2>1. CASE busy
      BY <1>4, <1>8, <2>1
    <2>2. ASSUME ~busy, NEW q \in Coming, q < p
          PROVE  \E r \in Lost' : r < p
      <3>1. CASE q \in Lost
        BY <1>7, <2>2, <3>1
      <3>2. CASE q \in open
        <4>1. PICK r \in Lost : r < q
          BY <2>2, <3>2 DEF ViewInv
        <4>2. r \in Sent
          BY <4>1 DEF Lost
        <4> QED
          BY <1>4, <1>7, <4>1, <4>2
      <3> QED
        BY <2>2, <3>1, <3>2 DEF ViewInv
    <2>3. ~(p < p)
      BY PromptsAreNumbers
    <2> QED
      BY <1>5, <2>1, <2>2, <2>3
  <1>12. messages' \subseteq Sent' /\ p \in Sent' /\ \A q \in Sent' : ~(p < q)
    <2>1. \A q \in Sent : q \in Nat /\ q < p
      BY <1>3, <1>4, PromptsAreNumbers
    <2>2. p \in Nat
      BY PromptsAreNumbers
    <2>3. \A q \in Sent' : ~(p < q)
      BY <1>3, <2>1, <2>2
    <2> QED
      BY <1>1, <1>3, <2>3 DEF ViewInv
  <1>13. p \in open' /\ p \in Coming'
    BY <1>1, <1>5
  <1> QED
    BY <1>1, <1>5, <1>9, <1>10, <1>11, <1>12, <1>13 DEF ViewInv

(* Every step keeps wire and view together.                                *)
LEMMA ViewStep ==
  ASSUME ChatTypeOK, SessionInv, WireInv, ViewInv, [ChatNext]_chatVars
  PROVE  WireInv' /\ ViewInv'
  <1>1. ASSUME WireInv' /\ Coming' = Coming, Sent' = Sent, UNCHANGED viewVars
        PROVE  WireInv' /\ ViewInv'
    <2>1. Lost' = Lost
      BY <1>1 DEF Lost, Marked, WasAborted, viewVars, Aborted, Prompts
    <2> QED
      BY <1>1, <2>1, ViewUnchanged DEF viewVars
  <1>2. ASSUME NEW p \in Prompts, RunJcodeStreaming(p)
        PROVE  WireInv' /\ ViewInv'
    <2>1. /\ process[p] = "asked" /\ UNCHANGED viewVars
          /\ \/ process' = [process EXCEPT ![p] = "running"] /\ wire' = wire
             \/ process' = [process EXCEPT ![p] = "failed"] /\ SendTo(p, ErrorText)
      BY <1>2 DEF RunJcodeStreaming, SpawnFails
    <2>2. process \in [Prompts -> Lives]
      BY DEF ChatTypeOK
    <2>3. /\ \A q \in Prompts : process'[q] = process[q] \/ {process[q], process'[q]} \subseteq Live
          /\ Sent' = Sent /\ p \in Sent
      BY <2>1, <2>2 DEF Live, Sent, Prompts
    <2>4. WireInv' /\ Coming' = Coming
      BY <2>1, <2>3, Items, LivingKeepsWire, LineKeepsWire
    <2> QED
      BY <1>1, <2>1, <2>3, <2>4
  <1>3. ASSUME NEW p \in Prompts, JcodeLine(p)
        PROVE  WireInv' /\ ViewInv'
    <2>1. /\ process[p] = "running" /\ UNCHANGED <<process, viewVars>>
          /\ SendTo(p, lines[p] + 1) \/ SendTo(p, ErrorText)
      BY <1>3 DEF JcodeLine
    <2>2. lines[p] + 1 \in 0 .. MaxLines + 1 /\ lines[p] + 1 # Aborted
      BY <1>3, Items DEF JcodeLine, ChatTypeOK, Aborted
    <2>3. Sent' = Sent /\ p \in Sent
      BY <2>1 DEF Sent, Prompts
    <2>4. WireInv' /\ Coming' = Coming
      BY <2>1, <2>2, <2>3, Items, LineKeepsWire
    <2> QED
      BY <1>1, <2>1, <2>3, <2>4
  <1>4. ASSUME NEW p \in Prompts, JcodeClose(p)
        PROVE  WireInv' /\ ViewInv'
    <2>1. WireInv' /\ Coming' = Coming
      BY <1>4, CloseKeepsWire
    <2>2. /\ UNCHANGED viewVars /\ process' = [process EXCEPT ![p] = "gone"]
          /\ process[p] \in {"running", "failed"} /\ process \in [Prompts -> Lives]
      BY <1>4 DEF JcodeClose, ChatTypeOK
    <2>3. Sent' = Sent
      BY <2>2 DEF Sent, Prompts
    <2> QED
      BY <1>1, <2>1, <2>2, <2>3
  <1>5. CASE Return
    <2>1. /\ UNCHANGED <<process, wire, content, messages, open, busy, current>>
          /\ mounted' = TRUE
      BY <1>5 DEF Return, mainVars
    <2>2. WireInv' /\ Coming' = Coming /\ Sent' = Sent /\ Lost' = Lost
      BY <2>1 DEF WireInv, Coming, EndToCome, Sent, Lost, Marked, WasAborted, Aborted, Prompts
    <2> QED
      BY <2>1, <2>2 DEF ViewInv
  <1>6. CASE UNCHANGED chatVars
    <2>1. UNCHANGED <<process, wire, viewVars>>
      BY <1>6 DEF chatVars, mainVars
    <2>2. WireInv' /\ Coming' = Coming /\ Sent' = Sent
      BY <2>1 DEF WireInv, Coming, EndToCome, Sent, Aborted, Prompts
    <2> QED
      BY <1>1, <2>1, <2>2
  <1> QED
    BY <1>2, <1>3, <1>4, <1>5, <1>6, FlushKeepsView, ReceiveKeepsView, EscapeKeepsView,
       ResetKeepsView, SendKeepsView DEF ChatNext

(* A chat that has just been opened: nothing is sent.                      *)
LEMMA ViewStart == ChatInit => WireInv /\ ViewInv
  <1> SUFFICES ASSUME ChatInit
               PROVE  WireInv /\ ViewInv
    OBVIOUS
  <1>1. /\ wire = <<>> /\ mounted = TRUE /\ messages = {} /\ open = {} /\ busy = FALSE
        /\ current = 0 /\ process = [p \in Prompts |-> "unsent"]
    BY DEF ChatInit
  <1>2. DOMAIN wire = {} /\ 1 .. Len(wire) = {}
    BY <1>1
  <1>3. Coming = {}
    BY <1>1, <1>2 DEF Coming, EndToCome
  <1> QED
    BY <1>1, <1>2, <1>3 DEF WireInv, ViewInv

(* The invariants give the property.                                       *)
LEMMA ViewGives == ChatTypeOK /\ ViewInv => BusyMeansStreaming
  <1> SUFFICES ASSUME ChatTypeOK, ViewInv
               PROVE  BusyMeansStreaming
    OBVIOUS
  <1>1. busy => \E p \in open : EndToCome(p)
    BY DEF ViewInv, Coming
  <1>2. ASSUME ~busy, NEW p \in open
        PROVE  \E q \in 1 .. p - 1 : process[q] # "unsent" /\ (q \notin messages \/ WasAborted(q))
    <2>1. PICK q \in Lost : q < p
      BY <1>2 DEF ViewInv
    <2>2. q \in Prompts /\ p \in Prompts
      BY DEF Lost, Sent, ChatTypeOK
    <2>3. q \in 1 .. p - 1
      BY <2>1, <2>2, PromptsAreNumbers
    <2> QED
      BY <2>3 DEF Lost, Marked, Sent
  <1> QED
    BY <1>1, <1>2 DEF BusyMeansStreaming

(* useChatStream's busy: whatever streams, aborts, resets and departures   *)
(* come together, a busy chat has an open message whose end will come, and *)
(* an idle one beside an open message has lost or aborted an earlier one.  *)
THEOREM BusyIsJustified == ChatSpec => []BusyMeansStreaming
  BY ViewStart, ViewStep, ViewGives, SessionStart, SessionStep, ChatTypeInit, ChatTypeStep, PTL
     DEF ChatSpec

-------------------------------------------------------------------------------
(* Lines of a sequence of what a message is made of: how many there are,   *)
(* and that its tokens rise, come before those of another sequence and are *)
(* among the first n.                                                      *)
LinesAt(s)  == {i \in DOMAIN s : s[i] # Aborted}
LinesIn(s)  == Cardinality(LinesAt(s))
Rising(s)   == \A i, j \in DOMAIN s : i < j /\ s[i] \in Tokens /\ s[j] \in Tokens => s[i] < s[j]
Before(s, t) == \A i \in DOMAIN s, j \in DOMAIN t : s[i] \in Tokens /\ t[j] \in Tokens => s[i] < t[j]
Among(s, n) == \A i \in DOMAIN s : s[i] \in Tokens => s[i] <= n

(* A sequence in two parts.                                                *)
Joined(s, t, u, a, b) ==
  /\ u \in Contents /\ DOMAIN u = 1 .. a + b
  /\ DOMAIN s = 1 .. a /\ DOMAIN t = 1 .. b
  /\ \A i \in 1 .. a : i \in 1 .. a + b /\ u[i] = s[i]
  /\ \A j \in 1 .. b : a + j \in 1 .. a + b /\ u[a + j] = t[j]
  /\ \A i \in 1 .. a + b : i \in 1 .. a \/ \E j \in 1 .. b : i = a + j

LEMMA TwoParts ==
  ASSUME NEW s \in Contents, NEW t \in Contents
  PROVE  \E a, b \in Nat : Joined(s, t, s \o t, a, b)
  <1>1. PICK u : u = s \o t
    OBVIOUS
  <1>2. PICK a \in Nat : a = Len(s) /\ DOMAIN s = 1 .. a
    BY DEF Contents
  <1>3. PICK b \in Nat : b = Len(t) /\ DOMAIN t = 1 .. b
    BY DEF Contents
  <1>4. /\ u \in Contents /\ Len(u) = a + b
        /\ \A i \in 1 .. a + b : u[i] = IF i <= a THEN s[i] ELSE t[i - a]
    BY <1>1, <1>2, <1>3, ConcatProperties DEF Contents
  <1>5. /\ \A i \in 1 .. a : i \in 1 .. a + b /\ i <= a
        /\ \A j \in 1 .. b : a + j \in 1 .. a + b /\ ~(a + j <= a) /\ (a + j) - a = j
    OBVIOUS
  <1>6. \A i \in 1 .. a : u[i] = s[i]
    BY <1>4, <1>5
  <1>7. \A j \in 1 .. b : u[a + j] = t[j]
    BY <1>4, <1>5
  <1>8. \A i \in 1 .. a + b : i \in 1 .. a \/ \E j \in 1 .. b : i = a + j
    <2>1. \A i \in 1 .. a + b : i \in 1 .. a \/ (i - a \in 1 .. b /\ i = a + (i - a))
      OBVIOUS
    <2> QED
      BY <2>1
  <1>9. DOMAIN u = 1 .. a + b
    BY <1>4 DEF Contents
  <1>10. Joined(s, t, u, a, b)
    BY <1>2, <1>3, <1>4, <1>5, <1>6, <1>7, <1>8, <1>9 DEF Joined
  <1> QED
    BY <1>1, <1>10

LEMMA LinesAreFinite ==
  ASSUME NEW s \in Contents
  PROVE  IsFiniteSet(LinesAt(s)) /\ LinesIn(s) \in Nat
  <1>1. PICK a \in Nat : DOMAIN s = 1 .. a
    BY DEF Contents
  <1>2. IsFiniteSet(1 .. a) /\ LinesAt(s) \in SUBSET (1 .. a)
    BY <1>1, FS_Interval DEF LinesAt
  <1> QED
    BY <1>2, FS_Subset, FS_CardinalityType DEF LinesIn

LEMMA LinesOfParts ==
  ASSUME NEW s \in Contents, NEW t \in Contents
  PROVE  LinesIn(s \o t) = LinesIn(s) + LinesIn(t)
  <1>1. PICK u : u = s \o t
    OBVIOUS
  <1>a. PICK a, b \in Nat : Joined(s, t, u, a, b)
    BY <1>1, TwoParts
  <1>2. /\ u \in Contents /\ DOMAIN u = 1 .. a + b
        /\ DOMAIN s = 1 .. a /\ DOMAIN t = 1 .. b
        /\ \A i \in 1 .. a : i \in 1 .. a + b /\ u[i] = s[i]
        /\ \A j \in 1 .. b : a + j \in 1 .. a + b /\ u[a + j] = t[j]
        /\ \A i \in 1 .. a + b : i \in 1 .. a \/ \E j \in 1 .. b : i = a + j
    BY <1>a DEF Joined
  <1>3. PICK S : S = LinesAt(s)
    OBVIOUS
  <1>4. PICK T : T = LinesAt(t)
    OBVIOUS
  <1>5. PICK R : R = {a + j : j \in T}
    OBVIOUS
  <1>6. IsFiniteSet(S) /\ IsFiniteSet(T) /\ Cardinality(S) \in Nat /\ Cardinality(T) \in Nat
    BY <1>3, <1>4, LinesAreFinite DEF LinesIn
  <1>7. S \subseteq 1 .. a /\ T \subseteq 1 .. b
    BY <1>2, <1>3, <1>4 DEF LinesAt
  <1>8. IsFiniteSet(R) /\ Cardinality(R) = Cardinality(T)
    <2>1. PICK f : f = [j \in T |-> a + j]
      OBVIOUS
    <2>2. f \in [T -> R] /\ \A r \in R : \E j \in T : f[j] = r
      BY <1>5, <2>1
    <2>3. \A j, k \in T : f[j] = f[k] => j = k
      <3>1. \A j, k \in 1 .. b : a + j = a + k => j = k
        OBVIOUS
      <3> QED
        BY <1>7, <2>1, <3>1
    <2>4. f \in Bijection(T, R)
      BY <2>2, <2>3 DEF Bijection, Injection, Surjection, IsInjective
    <2> QED
      BY <1>6, <2>4, FS_Bijection DEF ExistsBijection
  <1>9. S \cap R = {}
    <2>1. \A j \in 1 .. b : a + j \notin 1 .. a
      OBVIOUS
    <2> QED
      BY <1>5, <1>7, <2>1
  <1>10. LinesAt(u) = S \cup R
    <2>1. ASSUME NEW i \in 1 .. a + b, u[i] # Aborted
          PROVE  i \in S \cup R
      <3>1. CASE i \in 1 .. a
        BY <1>2, <1>3, <2>1, <3>1 DEF LinesAt
      <3>2. CASE i \notin 1 .. a
        <4>1. PICK j \in 1 .. b : i = a + j
          BY <1>2, <3>2
        <4>2. j \in T
          BY <1>2, <1>4, <2>1, <4>1 DEF LinesAt
        <4> QED
          BY <1>5, <4>1, <4>2
      <3> QED
        BY <3>1, <3>2
    <2>2. S \subseteq LinesAt(u)
      BY <1>2, <1>3 DEF LinesAt
    <2>3. R \subseteq LinesAt(u)
      BY <1>2, <1>4, <1>5 DEF LinesAt
    <2>4. LinesAt(u) \subseteq S \cup R
      BY <1>2, <2>1 DEF LinesAt
    <2> QED
      BY <2>2, <2>3, <2>4
  <1>11. Cardinality(S \cup R) = Cardinality(S) + Cardinality(R) - Cardinality(S \cap R)
    BY <1>6, <1>8, FS_Union
  <1>12. Cardinality(S \cap R) = 0
    BY <1>9, FS_EmptySet
  <1> QED
    BY <1>1, <1>3, <1>4, <1>6, <1>8, <1>10, <1>11, <1>12 DEF LinesIn

LEMMA RisingParts ==
  ASSUME NEW s \in Contents, NEW t \in Contents
  PROVE  Rising(s \o t) <=> Rising(s) /\ Rising(t) /\ Before(s, t)
  <1>1. PICK u : u = s \o t
    OBVIOUS
  <1>a. PICK a, b \in Nat : Joined(s, t, u, a, b)
    BY <1>1, TwoParts
  <1>2. /\ u \in Contents /\ DOMAIN u = 1 .. a + b
        /\ DOMAIN s = 1 .. a /\ DOMAIN t = 1 .. b
        /\ \A i \in 1 .. a : i \in 1 .. a + b /\ u[i] = s[i]
        /\ \A j \in 1 .. b : a + j \in 1 .. a + b /\ u[a + j] = t[j]
        /\ \A i \in 1 .. a + b : i \in 1 .. a \/ \E j \in 1 .. b : i = a + j
    BY <1>a DEF Joined
  <1>3. /\ \A i \in 1 .. a, j \in 1 .. b : i < a + j /\ ~(a + j < i)
        /\ \A i, j \in 1 .. b : (a + i < a + j) <=> (i < j)
    OBVIOUS
  <1>4. ASSUME Rising(u) PROVE Rising(s) /\ Rising(t) /\ Before(s, t)
    <2>1. Rising(s)
      BY <1>2, <1>4 DEF Rising
    <2>2. Rising(t)
      BY <1>2, <1>3, <1>4 DEF Rising
    <2>3. Before(s, t)
      BY <1>2, <1>3, <1>4 DEF Rising, Before
    <2> QED
      BY <2>1, <2>2, <2>3
  <1>5. ASSUME Rising(s), Rising(t), Before(s, t),
               NEW i \in 1 .. a + b, NEW j \in 1 .. a + b, i < j, u[i] \in Tokens, u[j] \in Tokens
        PROVE  u[i] < u[j]
    <2>1. CASE i \in 1 .. a /\ j \in 1 .. a
      BY <1>2, <1>5, <2>1 DEF Rising
    <2>2. CASE i \in 1 .. a /\ j \notin 1 .. a
      <3>1. PICK y \in 1 .. b : j = a + y
        BY <1>2, <2>2
      <3>2. u[i] = s[i] /\ u[j] = t[y]
        BY <1>2, <2>2, <3>1
      <3> QED
        BY <1>2, <1>5, <2>2, <3>2 DEF Before
    <2>3. CASE i \notin 1 .. a
      <3>1. PICK x \in 1 .. b : i = a + x
        BY <1>2, <2>3
      <3>2. j \notin 1 .. a
        BY <1>3, <1>5, <3>1
      <3>3. PICK y \in 1 .. b : j = a + y
        BY <1>2, <3>2
      <3>4. u[i] = t[x] /\ u[j] = t[y] /\ x < y
        BY <1>2, <1>3, <1>5, <3>1, <3>3
      <3> QED
        BY <1>2, <1>5, <3>4 DEF Rising
    <2> QED
      BY <2>1, <2>2, <2>3
  <1>6. Rising(s) /\ Rising(t) /\ Before(s, t) => Rising(u)
    BY <1>2, <1>5 DEF Rising
  <1> QED
    BY <1>1, <1>4, <1>6

LEMMA BeforeParts ==
  ASSUME NEW s \in Contents, NEW t \in Contents, NEW v, NEW n
  PROVE  /\ Before(s \o t, v) <=> Before(s, v) /\ Before(t, v)
         /\ Before(v, s \o t) <=> Before(v, s) /\ Before(v, t)
         /\ Among(s \o t, n) <=> Among(s, n) /\ Among(t, n)
  <1>1. PICK u : u = s \o t
    OBVIOUS
  <1>a. PICK a, b \in Nat : Joined(s, t, u, a, b)
    BY <1>1, TwoParts
  <1>2. /\ u \in Contents /\ DOMAIN u = 1 .. a + b
        /\ DOMAIN s = 1 .. a /\ DOMAIN t = 1 .. b
        /\ \A i \in 1 .. a : i \in 1 .. a + b /\ u[i] = s[i]
        /\ \A j \in 1 .. b : a + j \in 1 .. a + b /\ u[a + j] = t[j]
        /\ \A i \in 1 .. a + b : i \in 1 .. a \/ \E j \in 1 .. b : i = a + j
    BY <1>a DEF Joined
  <1>3. \A i \in 1 .. a + b : \/ \E x \in 1 .. a : u[i] = s[x]
                              \/ \E y \in 1 .. b : u[i] = t[y]
    <2> SUFFICES ASSUME NEW i \in 1 .. a + b
                 PROVE  (\E x \in 1 .. a : u[i] = s[x]) \/ (\E y \in 1 .. b : u[i] = t[y])
      OBVIOUS
    <2>1. CASE i \in 1 .. a
      BY <1>2, <2>1
    <2>2. CASE i \notin 1 .. a
      <3>1. PICK j \in 1 .. b : i = a + j
        BY <1>2, <2>2
      <3>2. u[i] = t[j]
        BY <1>2, <3>1
      <3> QED
        BY <3>2
    <2> QED
      BY <2>1, <2>2
  <1>4. /\ \A x \in 1 .. a : \E i \in 1 .. a + b : u[i] = s[x]
        /\ \A y \in 1 .. b : \E i \in 1 .. a + b : u[i] = t[y]
    BY <1>2
  <1>5. Before(u, v) <=> Before(s, v) /\ Before(t, v)
    <2>1. Before(u, v) => Before(s, v) /\ Before(t, v)
      BY <1>2, <1>4 DEF Before
    <2>2. Before(s, v) /\ Before(t, v) => Before(u, v)
      BY <1>2, <1>3 DEF Before
    <2> QED
      BY <2>1, <2>2
  <1>6. Before(v, u) <=> Before(v, s) /\ Before(v, t)
    <2>1. Before(v, u) => Before(v, s) /\ Before(v, t)
      BY <1>2, <1>4 DEF Before
    <2>2. Before(v, s) /\ Before(v, t) => Before(v, u)
      BY <1>2, <1>3 DEF Before
    <2> QED
      BY <2>1, <2>2
  <1>7. Among(u, n) <=> Among(s, n) /\ Among(t, n)
    <2>1. Among(u, n) => Among(s, n) /\ Among(t, n)
      BY <1>2, <1>4 DEF Among
    <2>2. Among(s, n) /\ Among(t, n) => Among(u, n)
      BY <1>2, <1>3 DEF Among
    <2> QED
      BY <2>1, <2>2
  <1> QED
    BY <1>1, <1>5, <1>6, <1>7

(* One element.                                                            *)
LEMMA OnePart ==
  ASSUME NEW x \in 0 .. MaxLines + 1
  PROVE  /\ <<x>> \in Contents /\ Rising(<<x>>)
         /\ LinesIn(<<x>>) = IF x = Aborted THEN 0 ELSE 1
  <1>1. PICK s : s = <<x>>
    OBVIOUS
  <1>2. s \in Contents /\ DOMAIN s = {1} /\ s[1] = x
    BY <1>1 DEF Contents
  <1>3. LinesAt(s) = IF x = Aborted THEN {} ELSE {1}
    BY <1>2 DEF LinesAt
  <1>4. LinesIn(s) = IF x = Aborted THEN 0 ELSE 1
    BY <1>3, FS_EmptySet, FS_Singleton DEF LinesIn
  <1>5. Rising(s)
    BY <1>2 DEF Rising
  <1> QED
    BY <1>1, <1>2, <1>4, <1>5

(* What is no token comes before anything and after anything.              *)
LEMMA NoToken ==
  ASSUME NEW x, x \notin Tokens, NEW v, NEW n
  PROVE  Before(<<x>>, v) /\ Before(v, <<x>>) /\ Among(<<x>>, n)
  BY DEF Before, Among

(* The next token comes after the first n.                                 *)
LEMMA NextToken ==
  ASSUME NEW v, NEW n \in Nat, Among(v, n)
  PROVE  Before(v, <<n + 1>>) /\ Among(v, n + 1) /\ Among(<<n + 1>>, n + 1)
  <1>1. PICK s : s = <<n + 1>>
    OBVIOUS
  <1>2. DOMAIN s = {1} /\ s[1] = n + 1
    BY <1>1
  <1>3. \A x \in Tokens : x \in Nat /\ (x <= n => x < n + 1 /\ x <= n + 1)
    BY DEF Tokens
  <1>4. Before(v, s) /\ Among(v, n + 1) /\ Among(s, n + 1)
    BY <1>2, <1>3 DEF Before, Among
  <1> QED
    BY <1>1, <1>4

(* Nothing.                                                                *)
LEMMA NoPart ==
  ASSUME NEW v, NEW n
  PROVE  /\ <<>> \in Contents /\ Rising(<<>>) /\ LinesIn(<<>>) = 0
         /\ Before(<<>>, v) /\ Before(v, <<>>) /\ Among(<<>>, n)
  <1>1. DOMAIN <<>> = {} /\ <<>> \in Contents
    BY EmptySeq DEF Contents
  <1>2. LinesAt(<<>>) = {}
    BY <1>1 DEF LinesAt
  <1> QED
    BY <1>1, <1>2, FS_EmptySet DEF LinesIn, Rising, Before, Among

-------------------------------------------------------------------------------
(* The n lines of a process: c of them shown, b buffered, w on the wire.   *)
LinesArrive(c, b, w, n) ==
  /\ c \in Contents /\ b \in Contents /\ w \in Contents /\ n \in Nat
  /\ LinesIn(c) + LinesIn(b) + LinesIn(w) = n
  /\ Rising(c) /\ Rising(b) /\ Rising(w)
  /\ Before(c, b) /\ Before(c, w) /\ Before(b, w)
  /\ Among(c, n) /\ Among(b, n) /\ Among(w, n)

(* The buffered ones are shown.                                            *)
LEMMA BufferShown ==
  ASSUME NEW c, NEW b, NEW w, NEW n, LinesArrive(c, b, w, n)
  PROVE  LinesArrive(c \o b, <<>>, w, n)
  <1> USE DEF LinesArrive
  <1>1. PICK e : e = c \o b
    OBVIOUS
  <1>2. e \in Contents
    BY <1>1, ConcatProperties DEF Contents
  <1>3. LinesIn(e) = LinesIn(c) + LinesIn(b) /\ Rising(e) /\ Before(e, w) /\ Among(e, n)
    BY <1>1, LinesOfParts, RisingParts, BeforeParts
  <1>4. PICK z : z = <<>>
    OBVIOUS
  <1>5. /\ z \in Contents /\ Rising(z) /\ LinesIn(z) = 0
        /\ Before(e, z) /\ Before(z, w) /\ Among(z, n)
    BY <1>4, NoPart
  <1>6. LinesIn(c) \in Nat /\ LinesIn(b) \in Nat /\ LinesIn(w) \in Nat
    BY LinesAreFinite
  <1>7. LinesArrive(e, z, w, n)
    BY <1>2, <1>3, <1>5, <1>6
  <1> QED
    BY <1>1, <1>4, <1>7

(* The wire's first: a token, an error, or a marker or another's.          *)
LEMMA FirstOnWire ==
  ASSUME NEW c, NEW b, NEW w, NEW n, LinesArrive(c, b, w, n), w # <<>>, NEW x, x = Head(w)
  PROVE  /\ x \in Tokens => LinesArrive(c, Append(b, x), Tail(w), n)
         /\ x = ErrorText => LinesArrive(c \o <<ErrorText>>, b, Tail(w), n)
         /\ x = Aborted => LinesArrive(c, b, Tail(w), n)
  <1> USE DEF LinesArrive
  <1>1. PICK t : t = Tail(w)
    OBVIOUS
  <1>2. PICK s : s = <<x>>
    OBVIOUS
  <1>3. x \in 0 .. MaxLines + 1 /\ t \in Contents /\ w = s \o t
    <2>1. x \in 0 .. MaxLines + 1 /\ t \in Contents
      BY <1>1, HeadTailProperties DEF Contents
    <2>2. w = s \o t
      BY <1>1, <1>2 DEF Contents
    <2> QED
      BY <2>1, <2>2
  <1>4. s \in Contents /\ Rising(s) /\ LinesIn(s) = IF x = Aborted THEN 0 ELSE 1
    BY <1>2, <1>3, OnePart
  <1>5. /\ LinesIn(w) = LinesIn(s) + LinesIn(t) /\ Rising(t) /\ Before(s, t)
        /\ Before(c, s) /\ Before(c, t) /\ Before(b, s) /\ Before(b, t)
        /\ Among(s, n) /\ Among(t, n)
    BY <1>3, <1>4, LinesOfParts, RisingParts, BeforeParts
  <1>6. /\ LinesIn(c) \in Nat /\ LinesIn(b) \in Nat /\ LinesIn(w) \in Nat
        /\ LinesIn(s) \in Nat /\ LinesIn(t) \in Nat
    BY <1>3, <1>4, LinesAreFinite
  <1>7. ASSUME x \in Tokens
        PROVE  LinesArrive(c, Append(b, x), t, n)
    <2>1. PICK e : e = b \o s
      OBVIOUS
    <2>2. e = Append(b, x)
      BY <1>2, <1>3, <2>1, AppendIsConcat DEF Contents
    <2>3. /\ e \in Contents /\ LinesIn(e) = LinesIn(b) + LinesIn(s) /\ Rising(e)
          /\ Before(c, e) /\ Before(e, t) /\ Among(e, n)
      <3>1. e \in Contents
        BY <1>4, <2>1, ConcatProperties DEF Contents
      <3> QED
        BY <1>4, <1>5, <2>1, <3>1, LinesOfParts, RisingParts, BeforeParts
    <2>4. LinesArrive(c, e, t, n)
      BY <1>3, <1>5, <1>6, <2>3
    <2> QED
      BY <2>2, <2>4
  <1>8. ASSUME x = ErrorText
        PROVE  LinesArrive(c \o <<ErrorText>>, b, t, n)
    <2>1. PICK e : e = c \o s
      OBVIOUS
    <2>2. e = c \o <<ErrorText>> /\ x \notin Tokens
      BY <1>2, <1>8, <2>1, Items
    <2>3. Before(s, b) /\ Before(s, t) /\ Before(c, s) /\ Among(s, n)
      BY <1>2, <2>2, NoToken
    <2>4. /\ e \in Contents /\ LinesIn(e) = LinesIn(c) + LinesIn(s) /\ Rising(e)
          /\ Before(e, b) /\ Before(e, t) /\ Among(e, n)
      <3>1. e \in Contents
        BY <1>4, <2>1, ConcatProperties DEF Contents
      <3> QED
        BY <1>4, <1>5, <2>1, <2>3, <3>1, LinesOfParts, RisingParts, BeforeParts
    <2>5. LinesArrive(e, b, t, n)
      BY <1>3, <1>5, <1>6, <2>4
    <2> QED
      BY <2>2, <2>5
  <1>9. ASSUME x = Aborted
        PROVE  LinesArrive(c, b, t, n)
    BY <1>3, <1>4, <1>5, <1>6, <1>9
  <1> QED
    BY <1>1, <1>7, <1>8, <1>9

(* The marker of an abort.                                                 *)
LEMMA MarkerShown ==
  ASSUME NEW c, NEW b, NEW w, NEW n, LinesArrive(c, b, w, n)
  PROVE  LinesArrive(c \o <<Aborted>>, b, w, n)
  <1> USE DEF LinesArrive
  <1>1. PICK s : s = <<Aborted>>
    OBVIOUS
  <1>2. PICK e : e = c \o s
    OBVIOUS
  <1>3. s \in Contents /\ Rising(s) /\ LinesIn(s) = 0
    BY <1>1, OnePart, Items
  <1>4. Before(c, s) /\ Before(s, b) /\ Before(s, w) /\ Among(s, n)
    BY <1>1, NoToken, Items
  <1>5. /\ e \in Contents /\ LinesIn(e) = LinesIn(c) + LinesIn(s) /\ Rising(e)
        /\ Before(e, b) /\ Before(e, w) /\ Among(e, n)
    <2>1. e \in Contents
      BY <1>2, <1>3, ConcatProperties DEF Contents
    <2> QED
      BY <1>2, <1>3, <1>4, <2>1, LinesOfParts, RisingParts, BeforeParts
  <1>6. LinesIn(c) \in Nat /\ LinesIn(b) \in Nat /\ LinesIn(w) \in Nat
    BY LinesAreFinite
  <1>7. LinesArrive(e, b, w, n)
    BY <1>3, <1>5, <1>6
  <1> QED
    BY <1>1, <1>2, <1>7

(* Something more on the wire: the next token or an error, or the end or   *)
(* another's.                                                              *)
LEMMA MoreOnWire ==
  ASSUME NEW c, NEW b, NEW w, NEW n, LinesArrive(c, b, w, n), NEW x \in 0 .. MaxLines + 1
  PROVE  /\ x = n + 1 /\ x \in Tokens => LinesArrive(c, b, Append(w, x), n + 1)
         /\ x = ErrorText => LinesArrive(c, b, Append(w, x), n + 1)
         /\ x = Aborted => LinesArrive(c, b, Append(w, x), n)
  <1> USE DEF LinesArrive
  <1>1. PICK s : s = <<x>>
    OBVIOUS
  <1>2. PICK e : e = w \o s
    OBVIOUS
  <1>3. s \in Contents /\ Rising(s) /\ LinesIn(s) = IF x = Aborted THEN 0 ELSE 1
    BY <1>1, OnePart
  <1>4. e = Append(w, x)
    BY <1>1, <1>2, AppendIsConcat DEF Contents
  <1>5. /\ e \in Contents /\ LinesIn(e) = LinesIn(w) + LinesIn(s)
        /\ Rising(e) <=> Before(w, s)
        /\ (Before(c, e) <=> Before(c, s)) /\ (Before(b, e) <=> Before(b, s))
        /\ \A m : Among(e, m) <=> Among(w, m) /\ Among(s, m)
    <2>1. e \in Contents
      BY <1>2, <1>3, ConcatProperties DEF Contents
    <2>2. \A m : Among(e, m) <=> Among(w, m) /\ Among(s, m)
      BY <1>2, <1>3, BeforeParts
    <2>3. LinesIn(e) = LinesIn(w) + LinesIn(s)
      BY <1>2, <1>3, LinesOfParts
    <2>4. Rising(e) <=> Before(w, s)
      BY <1>2, <1>3, RisingParts
    <2>5. (Before(c, e) <=> Before(c, s)) /\ (Before(b, e) <=> Before(b, s))
      BY <1>2, <1>3, BeforeParts
    <2> QED
      BY <2>1, <2>2, <2>3, <2>4, <2>5
  <1>6. LinesIn(c) \in Nat /\ LinesIn(b) \in Nat /\ LinesIn(w) \in Nat
    BY LinesAreFinite
  <1>7. PICK m \in Nat : m = n + 1
    OBVIOUS
  <1>8. Among(c, m) /\ Among(b, m) /\ Among(w, m)
    BY <1>7, NextToken
  <1>9. ASSUME x \in {n + 1} \cap Tokens \/ x = ErrorText
        PROVE  LinesArrive(c, b, e, m)
    <2>1. Before(c, s) /\ Before(b, s) /\ Before(w, s) /\ Among(s, m)
      <3>1. CASE x \in {n + 1} \cap Tokens
        BY <1>1, <1>7, <3>1, NextToken
      <3>2. CASE x = ErrorText
        BY <1>1, <3>2, NoToken, Items
      <3> QED
        BY <1>9, <3>1, <3>2
    <2>2. x # Aborted
      BY <1>9, Items
    <2> QED
      BY <1>3, <1>5, <1>6, <1>7, <1>8, <2>1, <2>2
  <1>10. ASSUME x = Aborted
         PROVE  LinesArrive(c, b, e, n)
    <2>1. Before(c, s) /\ Before(b, s) /\ Before(w, s) /\ Among(s, n)
      BY <1>1, <1>10, NoToken, Items
    <2> QED
      BY <1>3, <1>5, <1>6, <1>10, <2>1
  <1> QED
    BY <1>4, <1>7, <1>9, <1>10

(* So each line is somewhere once, and the tokens are in order.            *)
LEMMA ArriveOnce ==
  ASSUME NEW c, NEW b, NEW w, NEW n, LinesArrive(c, b, w, n), NEW s, s = c \o b \o w
  PROVE  /\ Cardinality({i \in DOMAIN s : s[i] # Aborted}) = n
         /\ \A i, j \in DOMAIN s : i < j /\ {s[i], s[j]} \subseteq Tokens => s[i] < s[j]
  <1> USE DEF LinesArrive
  <1>1. PICK e : e = c \o b
    OBVIOUS
  <1>2. e \in Contents /\ s = e \o w
    BY <1>1, ConcatProperties DEF Contents
  <1>3. LinesIn(e) = LinesIn(c) + LinesIn(b) /\ Rising(e) /\ Before(e, w)
    BY <1>1, LinesOfParts, RisingParts, BeforeParts
  <1>4. LinesIn(s) = LinesIn(e) + LinesIn(w) /\ Rising(s)
    BY <1>2, <1>3, LinesOfParts, RisingParts
  <1>5. LinesIn(s) = n
    BY <1>3, <1>4
  <1> QED
    BY <1>4, <1>5 DEF LinesIn, LinesAt, Rising

-------------------------------------------------------------------------------
(* What is shown, buffered or on its way of each message that is there; of *)
(* a prompt not yet sent there is nothing.                                 *)
Untold(p) == lines[p] = 0 /\ content[p] = <<>> /\ buffer[p] = <<>>

TokenInv ==
  /\ \A p \in Prompts : process[p] \in {"unsent", "asked"} => lines[p] = 0
  /\ \A p \in Prompts : process[p] = "unsent" => Untold(p)
  /\ \A p \in messages : LinesArrive(content[p], buffer[p], OnTheWire(p), lines[p])

(* The chat's data as functions of the prompts.                            *)
LEMMA ChatData ==
  ASSUME ChatTypeOK
  PROVE  /\ lines \in [Prompts -> Nat] /\ content \in [Prompts -> Contents]
         /\ buffer \in [Prompts -> Contents] /\ messages \subseteq Prompts
         /\ process \in [Prompts -> Lives]
  <1>1. \A p \in Prompts : buffer[p] \in Contents
    <2> SUFFICES ASSUME NEW p \in Prompts PROVE buffer[p] \in Contents
      OBVIOUS
    <2>1. buffer[p] \in Seq(Tokens)
      BY DEF ChatTypeOK
    <2>2. PICK s \in Seq(Tokens) : s = buffer[p]
      BY <2>1
    <2>3. \A i \in 1 .. Len(s) : s[i] \in 0 .. MaxLines + 1
      <3>1. \A i \in 1 .. Len(s) : s[i] \in Tokens
        BY ElementOfSeq
      <3> QED
        BY <3>1, Items
    <2>4. s \in Seq(0 .. MaxLines + 1)
      BY <2>3, SeqInto
    <2> QED
      BY <2>2, <2>4 DEF Contents
  <1>2. \A p \in Prompts : lines[p] \in Nat
    BY Items DEF ChatTypeOK
  <1> QED
    BY <1>1, <1>2 DEF ChatTypeOK, Contents

(* The wire, as far as it concerns one message.                            *)
LEMMA OneOnTheWire ==
  ASSUME ChatTypeOK, NEW p \in Prompts
  PROVE  OnTheWire(p) \in Contents
  <1>1. \A i \in 1 .. Len(wire) : wire[i].item \in 0 .. MaxLines + 1
    BY WireTyped DEF Events
  <1>2. \A i \in 1 .. Len(wire) : OnTheWire(p)[i] \in 0 .. MaxLines + 1
    BY <1>1, WireTyped, Items DEF OnTheWire
  <1>3. DOMAIN OnTheWire(p) = 1 .. Len(wire) /\ Len(wire) \in Nat
    BY WireTyped DEF OnTheWire
  <1>4. PICK n, f : n \in Nat /\ n = Len(wire) /\ f = OnTheWire(p)
    BY <1>3
  <1>5. f = [i \in 1 .. n |-> f[i]] /\ \A i \in 1 .. n : f[i] \in 0 .. MaxLines + 1
    BY <1>2, <1>3, <1>4 DEF OnTheWire
  <1> QED
    BY <1>4, <1>5 DEF Contents

(* Its first event leaves the wire.                                        *)
LEMMA WireLess ==
  ASSUME ChatTypeOK, wire # <<>>, wire' = Tail(wire), NEW p \in Prompts
  PROVE  /\ OnTheWire(p)' = Tail(OnTheWire(p)) /\ OnTheWire(p) # <<>>
         /\ Head(OnTheWire(p)) = IF Head(wire).id = p THEN Head(wire).item ELSE Aborted
  <1>1. PICK w \in Seq(Events) : w = wire
    BY WireTyped
  <1>2. PICK t : t = Tail(w)
    OBVIOUS
  <1>3. PICK h : h = Head(w)
    OBVIOUS
  <1>4. PICK n \in Nat : /\ t \in Seq(Events) /\ DOMAIN w = 1 .. n + 1 /\ DOMAIN t = 1 .. n
                         /\ h = w[1] /\ \A i \in 1 .. n : t[i] = w[i + 1]
    BY <1>1, <1>2, <1>3, FirstLessIs
  <1>5. PICK f \in Contents : f = OnTheWire(p)
    BY OneOnTheWire
  <1>6. /\ DOMAIN f = 1 .. n + 1
        /\ \A i \in 1 .. n + 1 : f[i] = IF w[i].id = p THEN w[i].item ELSE Aborted
    BY <1>1, <1>4, <1>5 DEF OnTheWire
  <1>7. 1 \in 1 .. n + 1 /\ \A i \in 1 .. n : i + 1 \in 1 .. n + 1
    OBVIOUS
  <1>8. f # <<>> /\ f \in Seq(0 .. MaxLines + 1)
    BY <1>6, <1>7 DEF Contents
  <1>9. PICK g : g = Tail(f)
    OBVIOUS
  <1>10. PICK m \in Nat : /\ g \in Contents /\ DOMAIN f = 1 .. m + 1 /\ DOMAIN g = 1 .. m
                          /\ Head(f) = f[1] /\ \A i \in 1 .. m : g[i] = f[i + 1]
    BY <1>8, <1>9, FirstLessIs DEF Contents
  <1>11. m = n
    <2>1. Len(f) = m + 1 /\ Len(f) = n + 1
      BY <1>6, <1>8, <1>10
    <2> QED
      BY <2>1
  <1>12. PICK k : k = [i \in 1 .. n |-> IF t[i].id = p THEN t[i].item ELSE Aborted]
    OBVIOUS
  <1>13. OnTheWire(p)' = k
    BY <1>1, <1>2, <1>4, <1>12 DEF OnTheWire
  <1>14. \A i \in 1 .. n : k[i] = g[i]
    BY <1>4, <1>6, <1>7, <1>10, <1>11, <1>12
  <1>15. k = g
    <2>1. g = [i \in 1 .. n |-> g[i]]
      BY <1>10, <1>11 DEF Contents
    <2> QED
      BY <1>12, <1>14, <2>1
  <1> QED
    BY <1>1, <1>3, <1>4, <1>5, <1>6, <1>7, <1>8, <1>9, <1>10, <1>13, <1>15

(* An event joins it.                                                      *)
LEMMA WireMore ==
  ASSUME ChatTypeOK, NEW q \in Prompts, NEW item \in 0 .. MaxLines + 1, SendTo(q, item),
         NEW p \in Prompts
  PROVE  OnTheWire(p)' = Append(OnTheWire(p), IF p = q THEN item ELSE Aborted)
  <1>1. PICK w \in Seq(Events) : w = wire
    BY WireTyped
  <1>2. PICK e \in Events : e = [id |-> q, item |-> item]
    BY DEF Events
  <1>3. PICK n \in Nat : n = Len(w)
    OBVIOUS
  <1>4. PICK v : v = Append(w, e)
    OBVIOUS
  <1>5. /\ DOMAIN w = 1 .. n /\ DOMAIN v = 1 .. n + 1
        /\ v[n + 1] = e /\ \A i \in 1 .. n : v[i] = w[i]
    BY <1>3, <1>4, OneMoreIs
  <1>6. PICK f \in Contents : f = OnTheWire(p)
    BY OneOnTheWire
  <1>7. DOMAIN f = 1 .. n /\ \A i \in 1 .. n : f[i] = IF w[i].id = p THEN w[i].item ELSE Aborted
    BY <1>1, <1>5, <1>6 DEF OnTheWire
  <1>8. PICK x \in 0 .. MaxLines + 1 : x = IF p = q THEN item ELSE Aborted
    BY Items
  <1>9. PICK g : g = Append(f, x)
    OBVIOUS
  <1>10. Len(f) = n /\ f \in Seq(0 .. MaxLines + 1)
    BY <1>7 DEF Contents
  <1>11. /\ g \in Seq(0 .. MaxLines + 1) /\ DOMAIN g = 1 .. n + 1
         /\ g[n + 1] = x /\ \A i \in 1 .. n : g[i] = f[i]
    BY <1>9, <1>10, OneMoreIs
  <1>12. PICK k : k = [i \in 1 .. n + 1 |-> IF v[i].id = p THEN v[i].item ELSE Aborted]
    OBVIOUS
  <1>13. OnTheWire(p)' = k
    BY <1>1, <1>2, <1>4, <1>5, <1>12 DEF OnTheWire, SendTo
  <1>14. \A i \in 1 .. n + 1 : k[i] = g[i]
    <2> SUFFICES ASSUME NEW i \in 1 .. n + 1 PROVE k[i] = g[i]
      OBVIOUS
    <2>1. CASE i = n + 1
      <3>1. v[i].id = q /\ v[i].item = item
        BY <1>2, <1>5, <2>1
      <3> QED
        BY <1>8, <1>11, <1>12, <2>1, <3>1
    <2>2. CASE i # n + 1
      <3>1. i \in 1 .. n
        BY <2>2
      <3> QED
        BY <1>5, <1>7, <1>11, <1>12, <3>1
    <2> QED
      BY <2>1, <2>2
  <1>15. k = g
    <2>1. g = [i \in 1 .. n + 1 |-> g[i]]
      BY <1>11
    <2> QED
      BY <1>12, <1>14, <2>1
  <1> QED
    BY <1>6, <1>8, <1>9, <1>13, <1>15

-------------------------------------------------------------------------------
(* Messages nothing happens to.                                            *)
LEMMA TokensStay ==
  ASSUME ChatTypeOK, TokenInv, NEW p \in messages,
         lines'[p] = lines[p], content'[p] = content[p], buffer'[p] = buffer[p],
         OnTheWire(p)' = OnTheWire(p)
  PROVE  LinesArrive(content'[p], buffer'[p], OnTheWire(p)', lines'[p])
  BY DEF TokenInv

(* A frame is drawn.                                                       *)
LEMMA FlushKeepsTokens == ASSUME ChatTypeOK, TokenInv, FlushTokens PROVE TokenInv'
  <1>1. /\ content' = Flushed /\ buffer' = Nothing
        /\ UNCHANGED <<process, lines, wire, messages>>
    BY DEF FlushTokens, mainVars
  <1>2. ASSUME NEW p \in messages
        PROVE  LinesArrive(content'[p], buffer'[p], OnTheWire(p)', lines'[p])
    <2>1. p \in Prompts
      BY ChatData
    <2>2. LinesArrive(content[p] \o buffer[p], <<>>, OnTheWire(p), lines[p])
      BY BufferShown DEF TokenInv
    <2>3. content'[p] = content[p] \o buffer[p] /\ buffer'[p] = <<>> /\ lines'[p] = lines[p]
      BY <1>1, <2>1 DEF Flushed, Nothing
    <2>4. OnTheWire(p)' = OnTheWire(p)
      BY <1>1 DEF OnTheWire
    <2> QED
      BY <2>2, <2>3, <2>4
  <1>3. ASSUME NEW p \in Prompts, process[p] = "unsent"
        PROVE  Untold(p)'
    <2>1. content'[p] = <<>>
      <3>1. content[p] = <<>> /\ buffer[p] = <<>>
        BY <1>3 DEF TokenInv, Untold
      <3>2. content'[p] = content[p] \o buffer[p] \/ content'[p] = content[p]
        BY <1>1 DEF Flushed
      <3>3. <<>> \o <<>> = <<>>
        BY ConcatEmptySeq, EmptySeq
      <3> QED
        BY <3>1, <3>2, <3>3
    <2> QED
      BY <1>1, <1>3, <2>1 DEF TokenInv, Untold, Nothing
  <1> QED
    BY <1>1, <1>2, <1>3 DEF TokenInv

(* An event is handled.                                                    *)
LEMMA ReceiveKeepsTokens == ASSUME ChatTypeOK, WireInv, ViewInv, TokenInv, Receive PROVE TokenInv'
  <1>1. PICK e : e = Head(wire)
    OBVIOUS
  <1>2. e \in Events /\ e = wire[1] /\ wire # <<>> /\ wire' = Tail(wire)
    BY <1>1, WireTyped, HeadTailProperties DEF Receive
  <1>3. e.id \in Prompts /\ e.item \in 0 .. MaxLines + 1
    BY <1>2 DEF Events
  <1>4. UNCHANGED <<process, lines, messages, mounted>>
    BY DEF Receive, mainVars
  <1>5. process[e.id] # "unsent"
    <2>1. 1 \in 1 .. Len(wire)
      BY <1>2, WireTyped, EmptySeq
    <2> QED
      BY <1>2, <2>1 DEF WireInv
  <1>6. /\ mounted /\ e.item \in Tokens =>
             buffer' = [buffer EXCEPT ![e.id] = Append(@, e.item)] /\ content' = content
        /\ mounted /\ e.item = ErrorText =>
             content' = Shown(e.id, <<ErrorText>>) /\ buffer' = buffer
        /\ ~mounted \/ e.item = Aborted => content' = content /\ buffer' = buffer
    BY <1>1, Items DEF Receive, MsgEnd
  <1>7. \A p \in Prompts : p # e.id => content'[p] = content[p] /\ buffer'[p] = buffer[p]
    <2>1. \/ mounted /\ e.item \in Tokens
          \/ mounted /\ e.item = ErrorText
          \/ ~mounted \/ e.item = Aborted
      BY <1>1 DEF Receive
    <2>2. \A p \in Prompts : p # e.id => Shown(e.id, <<ErrorText>>)[p] = content[p]
      BY ChatData DEF Shown
    <2>3. \A p \in Prompts : p # e.id => [buffer EXCEPT ![e.id] = Append(@, e.item)][p] = buffer[p]
      BY ChatData
    <2> QED
      BY <1>6, <2>1, <2>2, <2>3
  <1>8. ASSUME NEW p \in messages
        PROVE  LinesArrive(content'[p], buffer'[p], OnTheWire(p)', lines'[p])
    <2>1. p \in Prompts /\ mounted
      BY <1>4, ChatData DEF ViewInv
    <2>2. PICK c \in Contents, b \in Contents, n \in Nat :
            c = content[p] /\ b = buffer[p] /\ n = lines[p]
      BY <2>1, ChatData
    <2>3. PICK w : w = OnTheWire(p)
      OBVIOUS
    <2>4. PICK x : x = IF e.id = p THEN e.item ELSE Aborted
      OBVIOUS
    <2>5. OnTheWire(p)' = Tail(w) /\ w # <<>> /\ x = Head(w)
      BY <1>1, <1>2, <2>1, <2>3, <2>4, WireLess
    <2>6. LinesArrive(c, b, w, n)
      BY <2>2, <2>3 DEF TokenInv
    <2>7. /\ x \in Tokens => LinesArrive(c, Append(b, x), Tail(w), n)
          /\ x = ErrorText => LinesArrive(c \o <<ErrorText>>, b, Tail(w), n)
          /\ x = Aborted => LinesArrive(c, b, Tail(w), n)
      BY <2>5, <2>6, FirstOnWire
    <2>8. CASE x = Aborted
      <3>1. content'[p] = c /\ buffer'[p] = b
        <4>1. CASE p # e.id
          BY <1>7, <2>1, <2>2, <4>1
        <4>2. CASE p = e.id
          BY <1>6, <2>2, <2>4, <2>8, <4>2
        <4> QED
          BY <4>1, <4>2
      <3> QED
        BY <1>4, <2>2, <2>5, <2>7, <2>8, <3>1
    <2>9. CASE x \in Tokens
      <3>1. p = e.id /\ e.item = x
        BY <2>4, <2>9, Items
      <3>2. content'[p] = c /\ buffer'[p] = Append(b, x)
        BY <1>6, <2>1, <2>2, <2>9, <3>1, ChatData
      <3> QED
        BY <1>4, <2>2, <2>5, <2>7, <2>9, <3>2
    <2>10. CASE x = ErrorText
      <3>1. p = e.id /\ e.item = x
        BY <2>4, <2>10, Items
      <3>2. content'[p] = c \o <<ErrorText>> /\ buffer'[p] = b
        BY <1>6, <2>1, <2>2, <2>10, <3>1, ChatData DEF Shown
      <3> QED
        BY <1>4, <2>2, <2>5, <2>7, <2>10, <3>2
    <2>11. x \in Tokens \/ x = ErrorText \/ x = Aborted
      BY <1>3, <2>4, ChatBounds DEF Tokens, ErrorText, Aborted
    <2> QED
      BY <2>8, <2>9, <2>10, <2>11
  <1>9. ASSUME NEW p \in Prompts, process[p] = "unsent"
        PROVE  Untold(p)'
    BY <1>4, <1>5, <1>7, <1>9 DEF TokenInv, Untold
  <1> QED
    BY <1>4, <1>8, <1>9 DEF TokenInv

(* The marker is shown in the current message or in none.                  *)
LEMMA CancelKeepsLines ==
  ASSUME ChatTypeOK, TokenInv, NEW p \in messages
  PROVE  LinesArrive(Cancelled[p], buffer[p], OnTheWire(p), lines[p])
  <1>1. p \in Prompts /\ LinesArrive(content[p], buffer[p], OnTheWire(p), lines[p])
    BY ChatData DEF TokenInv
  <1>2. Cancelled[p] = content[p] \/ Cancelled[p] = content[p] \o <<Aborted>>
    BY <1>1, ChatData DEF Cancelled, Shown
  <1>3. LinesArrive(content[p] \o <<Aborted>>, buffer[p], OnTheWire(p), lines[p])
    BY <1>1, MarkerShown
  <1> QED
    BY <1>1, <1>2, <1>3

(* What was not sent is not current.                                       *)
LEMMA CancelKeepsUnsent ==
  ASSUME ChatTypeOK, ViewInv, NEW p \in Prompts, process[p] = "unsent"
  PROVE  Cancelled[p] = content[p] /\ p \notin messages
  BY ChatData DEF Cancelled, Shown, ViewInv, Sent

LEMMA EscapeKeepsTokens == ASSUME ChatTypeOK, ViewInv, TokenInv, Escape PROVE TokenInv'
  <1>1. content' = Cancelled /\ UNCHANGED <<process, lines, wire, buffer, messages>>
    BY DEF Escape, CancelStream, mainVars
  <1>2. ASSUME NEW p \in messages
        PROVE  LinesArrive(content'[p], buffer'[p], OnTheWire(p)', lines'[p])
    <2>1. OnTheWire(p)' = OnTheWire(p)
      BY <1>1 DEF OnTheWire
    <2> QED
      BY <1>1, <2>1, CancelKeepsLines
  <1>3. ASSUME NEW p \in Prompts, process[p] = "unsent"
        PROVE  Untold(p)'
    BY <1>1, <1>3, CancelKeepsUnsent DEF TokenInv, Untold
  <1> QED
    BY <1>1, <1>2, <1>3 DEF TokenInv

(* A prompt is sent: its message is empty, and nothing of it is anywhere.  *)
LEMMA SendKeepsTokens ==
  ASSUME ChatTypeOK, WireInv, ViewInv, TokenInv, NEW p \in Prompts, HandleSend(p)
  PROVE  TokenInv'
  <1>1. /\ process[p] = "unsent" /\ process' = [process EXCEPT ![p] = "asked"]
        /\ content' = (IF busy THEN Cancelled ELSE content) /\ messages' = messages \union {p}
        /\ UNCHANGED <<lines, wire, buffer>>
    BY DEF HandleSend, Send, MsgStart
  <1>2. \A q \in Prompts : OnTheWire(q)' = OnTheWire(q)
    BY <1>1 DEF OnTheWire
  <1>3. lines[p] = 0 /\ content'[p] = <<>> /\ buffer[p] = <<>>
    BY <1>1, CancelKeepsUnsent DEF TokenInv, Untold
  <1>4. ASSUME NEW q \in messages
        PROVE  LinesArrive(content'[q], buffer'[q], OnTheWire(q)', lines'[q])
    <2>1. q \in Prompts
      BY ChatData
    <2>2. LinesArrive(content[q], buffer[q], OnTheWire(q), lines[q])
      BY DEF TokenInv
    <2> QED
      BY <1>1, <1>2, <2>1, <2>2, CancelKeepsLines
  <1>5. LinesArrive(content'[p], buffer'[p], OnTheWire(p)', lines'[p])
    <2>1. PICK w \in Contents : w = OnTheWire(p)
      BY OneOnTheWire
    <2>2. \A i \in DOMAIN w : w[i] = Aborted
      <3>1. \A i \in 1 .. Len(wire) : wire[i].id # p
        BY <1>1 DEF WireInv
      <3> QED
        BY <2>1, <3>1, WireTyped DEF OnTheWire
    <2>3. LinesAt(w) = {} /\ LinesIn(w) = 0
      BY <2>2, FS_EmptySet DEF LinesAt, LinesIn
    <2>4. Rising(w) /\ Among(w, 0)
      BY <2>2, Items DEF Rising, Among
    <2>5. PICK z : z = <<>>
      OBVIOUS
    <2>6. /\ z \in Contents /\ Rising(z) /\ LinesIn(z) = 0 /\ Before(z, z) /\ Before(z, w) /\ Among(z, 0)
      BY <2>5, NoPart
    <2>7. LinesArrive(z, z, w, 0)
      BY <2>3, <2>4, <2>6 DEF LinesArrive
    <2> QED
      BY <1>1, <1>2, <1>3, <2>1, <2>5, <2>7
  <1>6. ASSUME NEW q \in Prompts, process'[q] = "unsent"
        PROVE  Untold(q)'
    <2>1. process[q] = "unsent"
      BY <1>1, <1>6, ChatData
    <2> QED
      BY <1>1, <2>1, CancelKeepsUnsent DEF TokenInv, Untold
  <1>7. ASSUME NEW q \in Prompts, process'[q] \in {"unsent", "asked"}
        PROVE  lines'[q] = 0
    BY <1>1, <1>3, <1>7, ChatData DEF TokenInv
  <1> QED
    BY <1>1, <1>4, <1>5, <1>6, <1>7 DEF TokenInv

(* The user resets or leaves the chat: no message is left.                 *)
LEMMA ForgetKeepsTokens ==
  ASSUME TokenInv, messages' = {}, content' = Nothing, buffer' = buffer \/ buffer' = Nothing,
         UNCHANGED <<process, lines>>
  PROVE  TokenInv'
  BY DEF TokenInv, Untold, Nothing

(* A process is started or not, and has written a line less or more.       *)
LEMMA LineKeepsTokens ==
  ASSUME ChatTypeOK, TokenInv, NEW p \in Prompts, NEW x \in 0 .. MaxLines + 1, SendTo(p, x),
         NEW n \in Nat, n = lines[p], lines' = [lines EXCEPT ![p] = n + 1],
         x = ErrorText \/ (x = n + 1 /\ x \in Tokens),
         UNCHANGED <<messages, content, buffer>>
  PROVE  \A q \in messages : LinesArrive(content'[q], buffer'[q], OnTheWire(q)', lines'[q])
  <1> SUFFICES ASSUME NEW q \in messages
               PROVE  LinesArrive(content'[q], buffer'[q], OnTheWire(q)', lines'[q])
    OBVIOUS
  <1>1. q \in Prompts
    BY ChatData
  <1>2. PICK c, b, m : c = content[q] /\ b = buffer[q] /\ m = lines[q]
    OBVIOUS
  <1>3. PICK w : w = OnTheWire(q)
    OBVIOUS
  <1>4. LinesArrive(c, b, w, m)
    BY <1>2, <1>3 DEF TokenInv
  <1>5. CASE q = p
    <2>1. OnTheWire(q)' = Append(w, x)
      BY <1>1, <1>3, <1>5, WireMore
    <2>2. m = n /\ lines'[q] = n + 1
      BY <1>2, <1>5, ChatData
    <2>3. LinesArrive(c, b, Append(w, x), n + 1)
      BY <1>4, <2>2, MoreOnWire
    <2> QED
      BY <1>2, <2>1, <2>2, <2>3
  <1>6. CASE q # p
    <2>1. OnTheWire(q)' = Append(w, Aborted)
      BY <1>1, <1>3, <1>6, WireMore
    <2>2. lines'[q] = m
      BY <1>1, <1>2, <1>6, ChatData
    <2>3. LinesArrive(c, b, Append(w, Aborted), m)
      BY <1>4, MoreOnWire, Items
    <2> QED
      BY <1>2, <2>1, <2>2, <2>3
  <1> QED
    BY <1>5, <1>6

LEMMA RunKeepsTokens ==
  ASSUME ChatTypeOK, TokenInv, NEW p \in Prompts, RunJcodeStreaming(p)
  PROVE  TokenInv'
  <1>1. process[p] = "asked" /\ UNCHANGED <<messages, content, buffer>> /\ lines[p] = 0
    BY DEF RunJcodeStreaming, viewVars, TokenInv
  <1>2. CASE process' = [process EXCEPT ![p] = "running"] /\ UNCHANGED <<lines, wire>>
    <2>1. \A q \in Prompts : process'[q] \in {"unsent", "asked"} => process[q] = process'[q]
      BY <1>2, ChatData
    <2>2. \A q \in messages : OnTheWire(q)' = OnTheWire(q)
      BY <1>2 DEF OnTheWire
    <2> QED
      BY <1>1, <1>2, <2>1, <2>2 DEF TokenInv, Untold
  <1>3. CASE SpawnFails(p)
    <2>1. /\ process' = [process EXCEPT ![p] = "failed"] /\ lines' = [lines EXCEPT ![p] = 0 + 1]
          /\ SendTo(p, ErrorText)
      BY <1>3 DEF SpawnFails
    <2>2. PICK n \in Nat : n = 0
      OBVIOUS
    <2>3. \A q \in messages : LinesArrive(content'[q], buffer'[q], OnTheWire(q)', lines'[q])
      BY <1>1, <2>1, <2>2, LineKeepsTokens, Items
    <2>4. \A q \in Prompts : process'[q] \in {"unsent", "asked"} =>
            process[q] = process'[q] /\ lines'[q] = lines[q]
      BY <2>1, ChatData
    <2> QED
      BY <1>1, <2>3, <2>4 DEF TokenInv, Untold
  <1> QED
    BY <1>2, <1>3 DEF RunJcodeStreaming

LEMMA LineKeepsAllTokens ==
  ASSUME ChatTypeOK, TokenInv, NEW p \in Prompts, JcodeLine(p)
  PROVE  TokenInv'
  <1>1. /\ process[p] = "running" /\ UNCHANGED <<process, messages, content, buffer>>
        /\ lines[p] < MaxLines
    BY DEF JcodeLine, viewVars
  <1>2. PICK n \in Nat : n = lines[p]
    BY ChatData
  <1>3. n + 1 \in Tokens /\ n + 1 \in 0 .. MaxLines + 1 /\ lines' = [lines EXCEPT ![p] = n + 1]
    BY <1>1, <1>2, ChatBounds DEF Tokens, JcodeLine
  <1>4. PICK x \in 0 .. MaxLines + 1 : SendTo(p, x) /\ (x = ErrorText \/ (x = n + 1 /\ x \in Tokens))
    BY <1>2, <1>3, Items DEF JcodeLine
  <1>5. \A q \in messages : LinesArrive(content'[q], buffer'[q], OnTheWire(q)', lines'[q])
    BY <1>1, <1>2, <1>3, <1>4, LineKeepsTokens
  <1>6. \A q \in Prompts : process[q] \in {"unsent", "asked"} => lines'[q] = lines[q]
    BY <1>1, <1>3, ChatData
  <1> QED
    BY <1>1, <1>5, <1>6 DEF TokenInv, Untold

LEMMA CloseKeepsTokens ==
  ASSUME ChatTypeOK, TokenInv, NEW p \in Prompts, JcodeClose(p)
  PROVE  TokenInv'
  <1>1. /\ process' = [process EXCEPT ![p] = "gone"]
        /\ UNCHANGED <<lines, messages, content, buffer>> /\ SendTo(p, Aborted)
    BY DEF JcodeClose, viewVars
  <1>2. \A q \in Prompts : process'[q] \in {"unsent", "asked"} => process[q] = process'[q]
    BY <1>1, ChatData
  <1>3. ASSUME NEW q \in messages
        PROVE  LinesArrive(content'[q], buffer'[q], OnTheWire(q)', lines'[q])
    <2>1. q \in Prompts
      BY ChatData
    <2>2. PICK w : w = OnTheWire(q)
      OBVIOUS
    <2>3. OnTheWire(q)' = Append(w, Aborted)
      BY <1>1, <2>1, <2>2, WireMore, Items
    <2>4. LinesArrive(content[q], buffer[q], w, lines[q])
      BY <2>2 DEF TokenInv
    <2>5. LinesArrive(content[q], buffer[q], Append(w, Aborted), lines[q])
      BY <2>4, MoreOnWire, Items
    <2> QED
      BY <1>1, <2>3, <2>5
  <1> QED
    BY <1>1, <1>2, <1>3 DEF TokenInv, Untold

LEMMA TokenStep ==
  ASSUME ChatTypeOK, WireInv, ViewInv, TokenInv, [ChatNext]_chatVars
  PROVE  TokenInv'
  <1>1. CASE Return \/ UNCHANGED chatVars
    <2>1. UNCHANGED <<process, lines, wire, messages, content, buffer>>
      BY <1>1 DEF Return, chatVars, mainVars, viewVars
    <2> QED
      BY <2>1 DEF TokenInv, Untold, OnTheWire
  <1>2. CASE Reset \/ Leave
    BY <1>2, ForgetKeepsTokens DEF Reset, Leave, mainVars
  <1> QED
    BY <1>1, <1>2, FlushKeepsTokens, ReceiveKeepsTokens, EscapeKeepsTokens, SendKeepsTokens,
       RunKeepsTokens, LineKeepsAllTokens, CloseKeepsTokens DEF ChatNext

LEMMA TokenStart == ChatInit => TokenInv
  BY DEF ChatInit, TokenInv, Untold, Nothing

LEMMA TokenInvGives == TokenInv => TokensArriveOnce
  <1> SUFFICES ASSUME TokenInv, NEW p \in messages
               PROVE  LET all == content[p] \o buffer[p] \o OnTheWire(p)
                      IN /\ Cardinality({i \in DOMAIN all : all[i] # Aborted}) = lines[p]
                         /\ \A i, j \in DOMAIN all :
                              i < j /\ {all[i], all[j]} \subseteq Tokens => all[i] < all[j]
    BY DEF TokensArriveOnce
  <1>1. PICK c, b, w, n : c = content[p] /\ b = buffer[p] /\ w = OnTheWire(p) /\ n = lines[p]
    OBVIOUS
  <1>2. LinesArrive(c, b, w, n)
    BY <1>1 DEF TokenInv
  <1>3. PICK s : s = c \o b \o w
    OBVIOUS
  <1>4. /\ Cardinality({i \in DOMAIN s : s[i] # Aborted}) = n
        /\ \A i, j \in DOMAIN s : i < j /\ {s[i], s[j]} \subseteq Tokens => s[i] < s[j]
    BY <1>2, <1>3, ArriveOnce, ZenonT(30)
  <1> QED
    BY <1>1, <1>3, <1>4

(* Every line of a process is shown, buffered or on the wire exactly once, *)
(* and the tokens of a message stay in order (useChatStream.ts).           *)
THEOREM TheTokensArriveOnce == ChatSpec => []TokensArriveOnce
  BY TokenStart, TokenStep, TokenInvGives, ViewStart, ViewStep, SessionStart, SessionStep,
     ChatTypeInit, ChatTypeStep, PTL DEF ChatSpec

-----------------------------------------------------------------------------
(* JcodeAgent                                                              *)

Tries == [at: 1 .. 3, result: Failures \union {"content"}]

(* The loop of executeAgent: the endpoints before next are behind it.      *)
AgentInv ==
  /\ phase \in {"idle", "ask", "try", "tools", "pipeline"}
  /\ reachable \in Seq(BOOLEAN) /\ Len(reachable) <= 3
  /\ next \in 1 .. 4 /\ gaveUp \in BOOLEAN /\ tried \in Seq(Tries)
  /\ \A i, j \in 1 .. Len(tried) : i < j => tried[i].at < tried[j].at
  /\ phase = "try" =>
       /\ next <= Len(reachable) + 1
       /\ \A i \in 1 .. Len(tried) : tried[i].at < next
       /\ \A e \in 1 .. Len(reachable) :
            reachable[e] /\ e < next => \E i \in 1 .. Len(tried) : tried[i].at = e
  /\ phase \in {"try", "tools", "pipeline"} => ~gaveUp
  /\ gaveUp => \/ \A e \in 1 .. Len(reachable) :
                    reachable[e] => \E i \in 1 .. Len(tried) : tried[i].at = e
               \/ tried # <<>> /\ tried[Len(tried)].result = "auth"

(* A sequence of one element.                                              *)
LEMMA SingleSeq ==
  ASSUME NEW S, NEW x \in S
  PROVE  <<x>> \in Seq(S) /\ Len(<<x>>) = 1
  OBVIOUS

(* There are three endpoints at most.                                      *)
LEMMA AtMostThreeEndpoints ==
  Endpoints \in Seq({"local", "litellm", "fallback", "cloud"}) /\ Len(Endpoints) <= 3
  <1> DEFINE E == {"local", "litellm", "fallback", "cloud"}
             first    == IF routing.mode = "local" THEN <<"local">> ELSE <<"litellm">>
             fallback == IF routing.mode # "local" /\ routing.ownFallback
                         THEN <<"fallback">> ELSE <<>>
             cloud    == IF routing.cloudKey THEN <<"cloud">> ELSE <<>>
  <1>0. /\ <<>> \in Seq(E) /\ Len(<<>>) = 0
        /\ <<"local">> \in Seq(E) /\ Len(<<"local">>) = 1
        /\ <<"litellm">> \in Seq(E) /\ Len(<<"litellm">>) = 1
        /\ <<"fallback">> \in Seq(E) /\ Len(<<"fallback">>) = 1
        /\ <<"cloud">> \in Seq(E) /\ Len(<<"cloud">>) = 1
    BY SingleSeq, EmptySeq
  <1> HIDE DEF E
  <1>1. first \in Seq(E) /\ Len(first) = 1
    BY <1>0
  <1>2. fallback \in Seq(E) /\ Len(fallback) \in 0 .. 1
    BY <1>0
  <1>3. cloud \in Seq(E) /\ Len(cloud) \in 0 .. 1
    BY <1>0
  <1>4. Endpoints = first \o fallback \o cloud
    BY DEF Endpoints
  <1> HIDE DEF first, fallback, cloud
  <1>5. first \o fallback \in Seq(E) /\ Len(first \o fallback) \in 1 .. 2
    <2>1. /\ first \o fallback \in Seq(E)
          /\ Len(first \o fallback) = Len(first) + Len(fallback)
      BY <1>1, <1>2, ConcatProperties
    <2> QED
      BY <1>1, <1>2, <2>1
  <1>6. /\ (first \o fallback) \o cloud \in Seq(E)
        /\ Len((first \o fallback) \o cloud) = Len(first \o fallback) + Len(cloud)
    BY <1>3, <1>5, ConcatProperties
  <1> QED
    BY <1>3, <1>4, <1>5, <1>6 DEF E

(* What the preflight answers is a sequence of verdicts.                   *)
LEMMA PreflightType ==
  ASSUME NEW r \in Preflight
  PROVE  r \in Seq(BOOLEAN) /\ Len(r) <= 3 /\ DOMAIN r = 1 .. Len(r)
  <1>1. DOMAIN Endpoints = 1 .. Len(Endpoints) /\ Len(Endpoints) \in Nat
    BY AtMostThreeEndpoints, LenProperties
  <1>2. r \in [1 .. Len(Endpoints) -> BOOLEAN]
    BY <1>1 DEF Preflight
  <1> QED
    BY <1>1, <1>2, AtMostThreeEndpoints

(* What has been asked, one by one.                                        *)
LEMMA TriedTyped ==
  ASSUME AgentInv
  PROVE  \A i \in 1 .. Len(tried) : tried[i] \in Tries /\ tried[i].at \in Nat
  <1>1. \A i \in 1 .. Len(tried) : tried[i] \in Tries
    <2>1. tried \in Seq(Tries)
      BY DEF AgentInv
    <2> QED
      BY <2>1, ElementOfSeq
  <1>2. \A t \in Tries : t.at \in Nat
    BY DEF Tries
  <1> QED
    BY <1>1, <1>2

(* One more endpoint asked.                                                *)
LEMMA AskedType ==
  ASSUME AgentInv, NEW why \in Failures \union {"content"},
         phase = "try", next <= Len(reachable),
         tried' = Append(tried, [at |-> next, result |-> why])
  PROVE  /\ tried' \in Seq(Tries) /\ Len(tried') = Len(tried) + 1
         /\ Len(tried) \in Nat /\ tried' # <<>>
         /\ \A i \in 1 .. Len(tried) : tried'[i] = tried[i]
         /\ tried'[Len(tried')] = [at |-> next, result |-> why]
         /\ \A i, j \in 1 .. Len(tried') : i < j => tried'[i].at < tried'[j].at
         /\ \A i \in 1 .. Len(tried') : tried'[i].at \in Nat /\ tried'[i].at < next + 1
  <1> DEFINE new == [at |-> next, result |-> why]
  <1>1. new \in Tries
    BY DEF AgentInv, Tries
  <1>2. tried \in Seq(Tries) /\ Len(tried) \in Nat
    BY LenProperties DEF AgentInv
  <1>3. /\ tried' \in Seq(Tries) /\ Len(tried') = Len(tried) + 1 /\ tried' # <<>>
        /\ \A i \in 1 .. Len(tried) : tried'[i] = tried[i]
        /\ tried'[Len(tried) + 1] = new
    BY <1>1, <1>2, AppendProperties
  <1>4. \A i \in 1 .. Len(tried) : tried[i] \in Tries /\ tried[i].at \in Nat /\ tried[i].at < next
    BY TriedTyped DEF AgentInv
  <1>5. \A i \in 1 .. Len(tried') : i \in 1 .. Len(tried) \/ i = Len(tried) + 1
    BY <1>2, <1>3
  <1>6. next \in 1 .. 4
    BY DEF AgentInv
  <1>7. \A i \in 1 .. Len(tried') : tried'[i].at \in Nat /\ tried'[i].at < next + 1
    BY <1>3, <1>4, <1>5, <1>6
  <1>8. ASSUME NEW i \in 1 .. Len(tried'), NEW j \in 1 .. Len(tried'), i < j
        PROVE  tried'[i].at < tried'[j].at
    <2>1. i \in 1 .. Len(tried)
      BY <1>2, <1>3, <1>8
    <2>2. CASE j \in 1 .. Len(tried)
      BY <2>1, <2>2, <1>3, <1>8 DEF AgentInv
    <2>3. CASE j = Len(tried) + 1
      BY <2>1, <2>3, <1>3, <1>4
    <2> QED
      BY <1>5, <2>2, <2>3
  <1> QED
    BY <1>2, <1>3, <1>7, <1>8

(* An endpoint that was asked is among the tried ones.                     *)
LEMMA AskedIsTried ==
  ASSUME AgentInv, NEW why \in Failures \union {"content"},
         phase = "try", next <= Len(reachable),
         tried' = Append(tried, [at |-> next, result |-> why])
  PROVE  \A e \in 1 .. Len(reachable) :
           reachable[e] /\ e < next + 1 => \E i \in 1 .. Len(tried') : tried'[i].at = e
  <1> SUFFICES ASSUME NEW e \in 1 .. Len(reachable), reachable[e], e < next + 1
               PROVE  \E i \in 1 .. Len(tried') : tried'[i].at = e
    OBVIOUS
  <1>1. /\ Len(tried) \in Nat /\ Len(tried') = Len(tried) + 1
        /\ \A i \in 1 .. Len(tried) : tried'[i] = tried[i]
        /\ tried'[Len(tried')].at = next
    BY AskedType
  <1>2. next \in Nat /\ e \in Nat
    BY DEF AgentInv
  <1>3. CASE e = next
    BY <1>1, <1>3
  <1>4. CASE e < next
    <2>1. PICK i \in 1 .. Len(tried) : tried[i].at = e
      BY <1>4 DEF AgentInv
    <2> QED
      BY <1>1, <2>1
  <1> QED
    BY <1>2, <1>3, <1>4

(* Every step of the agent keeps the invariant.                            *)
LEMMA AgentStep ==
  ASSUME AgentInv, [AgentNext]_agentVars
  PROVE  AgentInv'
  <1> USE DEF AgentInv
  <1>0. Len(reachable) \in Nat /\ DOMAIN reachable = 1 .. Len(reachable) /\ Len(tried) \in Nat
    BY LenProperties
  <1>1. CASE AgentSend
    BY <1>1 DEF AgentSend
  <1>2. CASE CheckEndpoints
    <2>1. /\ reachable' \in Seq(BOOLEAN) /\ Len(reachable') <= 3
          /\ DOMAIN reachable' = 1 .. Len(reachable') /\ Len(reachable') \in Nat
      BY <1>2, PreflightType, LenProperties DEF CheckEndpoints
    <2>2. tried' = <<>> /\ Len(tried') = 0 /\ tried' \in Seq(Tries) /\ next' = 1
      BY <1>2, EmptySeq DEF CheckEndpoints
    <2>3. CASE \E i \in DOMAIN reachable' : reachable'[i]
      <3>1. phase' = "try" /\ gaveUp' = FALSE
        BY <1>2, <2>3 DEF CheckEndpoints
      <3>2. \A i \in 1 .. Len(tried') : FALSE
        BY <2>2
      <3>3. next' \in 1 .. 4 /\ next' <= Len(reachable') + 1
        BY <2>1, <2>2
      <3>4. \A e \in 1 .. Len(reachable') : ~(e < next')
        BY <2>1, <2>2
      <3> QED
        BY <2>1, <2>2, <3>1, <3>2, <3>3, <3>4
    <2>4. CASE ~ \E i \in DOMAIN reachable' : reachable'[i]
      <3>1. phase' = "idle" /\ gaveUp' = TRUE
        BY <1>2, <2>4 DEF CheckEndpoints, Throws
      <3> QED
        BY <2>1, <2>2, <2>4, <3>1
    <2> QED
      BY <2>3, <2>4
  <1>3. CASE SkipUnreachable
    <2>1. /\ phase = "try" /\ next \in Nat /\ next <= Len(reachable) /\ ~reachable[next]
          /\ next' = next + 1 /\ UNCHANGED <<phase, reachable, tried, gaveUp>>
      BY <1>3 DEF SkipUnreachable
    <2>2. next' \in 1 .. 4 /\ next' <= Len(reachable) + 1
      BY <1>0, <2>1
    <2>3. \A e \in 1 .. Len(reachable) : reachable[e] /\ e < next' => e < next
      BY <1>0, <2>1
    <2>4. \A i \in 1 .. Len(tried) : tried[i].at < next'
      <3>1. \A i \in 1 .. Len(tried) : tried[i].at \in Nat
        BY TriedTyped
      <3> QED
        BY <2>1, <3>1
    <2> QED
      BY <2>1, <2>2, <2>3, <2>4
  <1>4. ASSUME NEW why \in Failures, EndpointFails(why)
        PROVE  AgentInv'
    <2>1. /\ phase = "try" /\ next \in Nat /\ next <= Len(reachable)
          /\ tried' = Append(tried, [at |-> next, result |-> why]) /\ UNCHANGED reachable
      BY <1>4 DEF EndpointFails
    <2>2. why \in Failures \union {"content"}
      OBVIOUS
    <2> HIDE DEF AgentInv
    <2>3. /\ tried' \in Seq(Tries) /\ Len(tried') = Len(tried) + 1 /\ tried' # <<>>
          /\ tried'[Len(tried')] = [at |-> next, result |-> why]
          /\ \A i, j \in 1 .. Len(tried') : i < j => tried'[i].at < tried'[j].at
          /\ \A i \in 1 .. Len(tried') : tried'[i].at \in Nat /\ tried'[i].at < next + 1
      BY <2>1, <2>2, AskedType
    <2>4. \A e \in 1 .. Len(reachable) :
            reachable[e] /\ e < next + 1 => \E i \in 1 .. Len(tried') : tried'[i].at = e
      BY <2>1, <2>2, AskedIsTried
    <2> USE DEF AgentInv
    <2>5. CASE why \in FinalErrors
      <3>1. phase' = "idle" /\ gaveUp' = TRUE /\ next' = next
        BY <1>4, <2>5 DEF EndpointFails, Throws
      <3>2. why = "auth"
        BY <2>5 DEF FinalErrors
      <3> QED
        BY <2>1, <2>3, <3>1, <3>2
    <2>6. CASE why \notin FinalErrors
      <3>1. next' = next + 1 /\ phase' = "try" /\ gaveUp' = gaveUp
        BY <1>4, <2>1, <2>6 DEF EndpointFails
      <3>2. next' \in 1 .. 4 /\ next' <= Len(reachable) + 1
        BY <1>0, <2>1, <3>1
      <3> QED
        BY <2>1, <2>3, <2>4, <3>1, <3>2
    <2> QED
      BY <2>5, <2>6
  <1>5. CASE EndpointsExhausted
    <2>1. /\ phase = "try" /\ next > Len(reachable) /\ phase' = "idle" /\ gaveUp' = TRUE
          /\ UNCHANGED <<reachable, tried, next>>
      BY <1>5 DEF EndpointsExhausted, Throws
    <2>2. \A e \in 1 .. Len(reachable) : e < next
      BY <1>0, <2>1
    <2> QED
      BY <2>1, <2>2
  <1>6. ASSUME NEW cs \in ToolCalls, EndpointAnswers(cs)
        PROVE  AgentInv'
    <2>1. /\ phase = "try" /\ next <= Len(reachable)
          /\ tried' = Append(tried, [at |-> next, result |-> "content"])
          /\ phase' \in {"pipeline", "tools"}
          /\ UNCHANGED <<reachable, next, gaveUp>>
      BY <1>6 DEF EndpointAnswers
    <2>2. "content" \in Failures \union {"content"}
      OBVIOUS
    <2> HIDE DEF AgentInv
    <2>3. /\ tried' \in Seq(Tries)
          /\ \A i, j \in 1 .. Len(tried') : i < j => tried'[i].at < tried'[j].at
      BY <2>1, <2>2, AskedType
    <2> USE DEF AgentInv
    <2> QED
      BY <2>1, <2>3
  <1>7. ASSUME NEW i \in DOMAIN calls, KoreExecutes(i) \/ BridgeExecutes(i)
        PROVE  AgentInv'
    BY <1>7 DEF KoreExecutes, BridgeExecutes
  <1>8. CASE RoundEnds
    BY <1>8 DEF RoundEnds
  <1>9. CASE PipelineEnds
    BY <1>9 DEF PipelineEnds
  <1>10. CASE UNCHANGED agentVars
    BY <1>10 DEF agentVars
  <1> QED
    BY <1>1, <1>2, <1>3, <1>4, <1>5, <1>6, <1>7, <1>8, <1>9, <1>10 DEF AgentNext, AgentWork

(* A panel that has just been opened satisfies the invariant.              *)
LEMMA AgentStart == AgentInit => AgentInv
  <1> SUFFICES ASSUME AgentInit
               PROVE  AgentInv
    OBVIOUS
  <1>1. /\ phase = "idle" /\ reachable = <<>> /\ next = 1 /\ tried = <<>> /\ gaveUp = FALSE
    BY DEF AgentInit
  <1>2. reachable \in Seq(BOOLEAN) /\ tried \in Seq(Tries) /\ Len(reachable) = 0 /\ Len(tried) = 0
    BY <1>1, EmptySeq
  <1>3. 1 .. Len(tried) = {}
    BY <1>2
  <1>4. next \in 1 .. 4 /\ Len(reachable) <= 3
    BY <1>1, <1>2
  <1>5. \A i \in 1 .. Len(tried) : FALSE
    BY <1>3
  <1> HIDE DEF AgentInit
  <1> QED
    BY <1>1, <1>2, <1>4, <1>5, Zenon DEF AgentInv

(* The invariant gives the property.                                       *)
LEMMA AgentInvGives == AgentInv => FailureIsExhaustive
  <1> SUFFICES ASSUME AgentInv
               PROVE  FailureIsExhaustive
    OBVIOUS
  <1>1. DOMAIN reachable = 1 .. Len(reachable) /\ DOMAIN tried = 1 .. Len(tried)
    BY LenProperties DEF AgentInv
  <1> QED
    BY <1>1 DEF AgentInv, FailureIsExhaustive

(* executeAgent (agent-executor.ts) tells its caller that no endpoint      *)
(* could answer only after it has asked each one the preflight reached, in *)
(* order and once, or on a refused key.                                    *)
THEOREM AgentGivesUpLast == AgentSpec => []FailureIsExhaustive
  <1>1. AgentInv /\ [AgentNext]_agentVars => AgentInv'
    BY AgentStep
  <1> QED
    BY <1>1, AgentStart, AgentInvGives, PTL DEF AgentSpec

-------------------------------------------------------------------------------
(* The badges of a round.  RunningBadges lists, for each tool call, its    *)
(* badges still running, PendingCalls the calls like it not yet settled.   *)
RunningBadges ==
  [t \in Tools |-> {b \in DOMAIN badges : badges[b] = [call |-> t, status |-> "running"]}]
PendingCalls ==
  [t \in Tools |-> {i \in DOMAIN calls : calls[i] = t /\ stage[i] # "settled"}]
Badge == [call: Tools, status: {"running", "done"}]

BadgeInv ==
  /\ calls \in Seq(Tools) /\ badges \in Seq(Badge) /\ Len(badges) = Len(calls)
  /\ stage \in [1 .. Len(calls) -> {"kore", "bridge", "settled"}]
  /\ \A t \in Tools : Cardinality(RunningBadges[t]) = Cardinality(PendingCalls[t])

(* The sets that are counted are finite.                                   *)
LEMMA CountedFinite ==
  ASSUME BadgeInv, NEW t \in Tools
  PROVE  IsFiniteSet(RunningBadges[t]) /\ IsFiniteSet(PendingCalls[t])
  <1>1. Len(badges) \in Nat /\ Len(calls) \in Nat
        /\ DOMAIN badges = 1 .. Len(badges) /\ DOMAIN calls = 1 .. Len(calls)
    BY LenProperties DEF BadgeInv
  <1>2. IsFiniteSet(1 .. Len(badges)) /\ IsFiniteSet(1 .. Len(calls))
    BY <1>1, FS_Interval
  <1>3. RunningBadges[t] \subseteq 1 .. Len(badges) /\ PendingCalls[t] \subseteq 1 .. Len(calls)
    BY <1>1 DEF RunningBadges, PendingCalls
  <1> QED
    BY <1>2, <1>3, FS_Subset

(* Settling a call settles the first badge that runs for it.               *)
LEMMA SettleStep ==
  ASSUME BadgeInv, NEW i \in DOMAIN calls, stage[i] # "settled", Settle(i), UNCHANGED calls
  PROVE  BadgeInv'
  <1> DEFINE u == calls[i]
             exec == [call |-> u, status |-> "done"]
  <1>1. /\ calls \in Seq(Tools) /\ badges \in Seq(Badge) /\ Len(badges) = Len(calls)
        /\ stage \in [1 .. Len(calls) -> {"kore", "bridge", "settled"}]
        /\ DOMAIN badges = 1 .. Len(badges) /\ DOMAIN calls = 1 .. Len(calls)
        /\ Len(calls) \in Nat
    BY LenProperties DEF BadgeInv
  <1>2. u \in Tools /\ exec \in Badge
    BY <1>1, ElementOfSeq DEF Badge
  <1>3. Matches(i) = RunningBadges[u]
    <2>1. \A b \in 1 .. Len(badges) : badges[b] \in Badge
      BY <1>1, ElementOfSeq
    <2>2. \A x \in Badge : x = [call |-> u, status |-> "running"] <=> x.call = u /\ x.status = "running"
      BY DEF Badge
    <2> QED
      BY <1>1, <1>2, <2>1, <2>2 DEF Matches, RunningBadges
  <1>4. i \in PendingCalls[u]
    BY <1>2 DEF PendingCalls
  <1>5. RunningBadges[u] # {}
    <2>1. Cardinality(PendingCalls[u]) # 0
      BY <1>2, <1>4, CountedFinite, FS_EmptySet
    <2>2. Cardinality(RunningBadges[u]) # 0
      BY <1>2, <2>1 DEF BadgeInv
    <2> QED
      BY <2>2, FS_EmptySet
  <1> DEFINE b == CHOOSE b \in Matches(i) : \A c \in Matches(i) : b <= c
  <1>6. b \in Matches(i)
    <2>1. Matches(i) \in SUBSET Nat
      BY <1>1 DEF Matches
    <2>2. \E x \in Matches(i) : \A c \in Matches(i) : x <= c
      BY <1>3, <1>5, <2>1, FirstOf
    <2> QED
      BY <2>2
  <1>7. stage' = [stage EXCEPT ![i] = "settled"] /\ badges' = [badges EXCEPT ![b] = exec]
    BY <1>3, <1>5 DEF Settle
  <1>8. b \in 1 .. Len(badges) /\ badges[b] = [call |-> u, status |-> "running"]
    BY <1>1, <1>2, <1>3, <1>6 DEF RunningBadges
  <1> HIDE DEF b
  <1>9. /\ badges' \in Seq(Badge) /\ Len(badges') = Len(badges)
        /\ badges'[b] = exec /\ \A c \in 1 .. Len(badges) : c # b => badges'[c] = badges[c]
    BY <1>1, <1>2, <1>7, <1>8, ExceptSeq
  <1>10. DOMAIN badges' = 1 .. Len(badges)
    BY <1>9, LenProperties
  <1>11. \A t \in Tools : t # u => RunningBadges'[t] = RunningBadges[t] /\ PendingCalls'[t] = PendingCalls[t]
    <2>1. \A t \in Tools : t # u => exec # [call |-> t, status |-> "running"]
      OBVIOUS
    <2>2. \A t \in Tools : t # u => badges[b] # [call |-> t, status |-> "running"]
      BY <1>8
    <2>3. \A t \in Tools : t # u => RunningBadges'[t] = RunningBadges[t]
      BY <1>1, <1>9, <1>10, <2>1, <2>2 DEF RunningBadges
    <2>4. \A t \in Tools : t # u => PendingCalls'[t] = PendingCalls[t]
      BY <1>1, <1>7 DEF PendingCalls
    <2> QED
      BY <2>3, <2>4
  <1>12. RunningBadges'[u] = RunningBadges[u] \ {b}
    <2>1. exec # [call |-> u, status |-> "running"]
      OBVIOUS
    <2> QED
      BY <1>1, <1>2, <1>9, <1>10, <2>1 DEF RunningBadges
  <1>13. PendingCalls'[u] = PendingCalls[u] \ {i}
    BY <1>1, <1>2, <1>7 DEF PendingCalls
  <1>14. \A t \in Tools : Cardinality(RunningBadges'[t]) = Cardinality(PendingCalls'[t])
    <2>1. ASSUME NEW t \in Tools, t # u
          PROVE  Cardinality(RunningBadges'[t]) = Cardinality(PendingCalls'[t])
      BY <1>11, <2>1 DEF BadgeInv
    <2>2. Cardinality(RunningBadges'[u]) = Cardinality(PendingCalls'[u])
      <3>0. b \in RunningBadges[u] /\ IsFiniteSet(RunningBadges[u])
        BY <1>2, <1>3, <1>6, CountedFinite
      <3>1. Cardinality(RunningBadges'[u]) = Cardinality(RunningBadges[u]) - 1
        BY <1>12, <3>0, FS_RemoveElement
      <3>2. Cardinality(PendingCalls'[u]) = Cardinality(PendingCalls[u]) - 1
        BY <1>2, <1>4, <1>13, CountedFinite, FS_RemoveElement
      <3> QED
        BY <1>2, <3>1, <3>2 DEF BadgeInv
    <2> QED
      BY <2>1, <2>2
  <1> QED
    BY <1>1, <1>7, <1>9, <1>14 DEF BadgeInv

(* Handing a call over to the bridge does not settle it.                   *)
LEMMA HandOverStep ==
  ASSUME BadgeInv, NEW i \in DOMAIN calls, stage[i] # "settled", HandOver(i), UNCHANGED calls
  PROVE  BadgeInv'
  <1>1. /\ calls \in Seq(Tools) /\ DOMAIN calls = 1 .. Len(calls)
        /\ stage \in [1 .. Len(calls) -> {"kore", "bridge", "settled"}]
    BY LenProperties DEF BadgeInv
  <1>2. stage' = [stage EXCEPT ![i] = "bridge"] /\ badges' = badges /\ calls' = calls
    BY DEF HandOver
  <1>3. RunningBadges' = RunningBadges
    BY <1>2 DEF RunningBadges
  <1>4. PendingCalls' = PendingCalls
    BY <1>1, <1>2 DEF PendingCalls
  <1>5. stage' \in [1 .. Len(calls) -> {"kore", "bridge", "settled"}]
    BY <1>1, <1>2
  <1> QED
    BY <1>2, <1>3, <1>4, <1>5 DEF BadgeInv

(* A new group of badges: one for each call, all of them running.          *)
LEMMA AnswerStep ==
  ASSUME NEW cs \in ToolCalls, EndpointAnswers(cs), MaxCalls \in Nat
  PROVE  BadgeInv'
  <1>1. PICK n \in 0 .. MaxCalls : cs \in [1 .. n -> Tools]
    BY DEF ToolCalls
  <1>2. n \in Nat /\ DOMAIN cs = 1 .. n /\ \A i \in 1 .. n : cs[i] \in Tools
    BY <1>1
  <1>3. cs \in Seq(Tools) /\ Len(cs) = n
    BY <1>1, <1>2, LenProperties
  <1>4. /\ calls' = cs /\ stage' = [i \in 1 .. n |-> "kore"]
        /\ badges' = [i \in 1 .. n |-> [call |-> cs[i], status |-> "running"]]
    BY <1>2 DEF EndpointAnswers
  <1>5. badges' \in [1 .. n -> Badge]
    BY <1>2, <1>4 DEF Badge
  <1>6. badges' \in Seq(Badge) /\ Len(badges') = n /\ DOMAIN badges' = 1 .. n
    BY <1>2, <1>5, LenProperties
  <1>7. ASSUME NEW t \in Tools
        PROVE  RunningBadges'[t] = PendingCalls'[t]
    <2>1. \A i \in 1 .. n : badges'[i] = [call |-> t, status |-> "running"] <=> cs[i] = t
      BY <1>4
    <2>2. \A i \in 1 .. n : stage'[i] # "settled"
      BY <1>4
    <2> QED
      BY <1>2, <1>4, <1>6, <2>1, <2>2 DEF RunningBadges, PendingCalls
  <1> QED
    BY <1>3, <1>4, <1>6, <1>7 DEF BadgeInv

(* Every step keeps the badges of a group and its calls together.          *)
LEMMA BadgeStep == MaxCalls \in Nat /\ BadgeInv /\ [AgentNext]_agentVars => BadgeInv'
  <1> SUFFICES ASSUME MaxCalls \in Nat, BadgeInv, [AgentNext]_agentVars
               PROVE  BadgeInv'
    OBVIOUS
  <1>1. ASSUME UNCHANGED <<calls, stage, badges>>
        PROVE  BadgeInv'
    <2>1. RunningBadges' = RunningBadges /\ PendingCalls' = PendingCalls
      BY <1>1 DEF RunningBadges, PendingCalls
    <2> QED
      BY <1>1, <2>1 DEF BadgeInv
  <1>2. CASE AgentSend
    <2>1. calls' = <<>> /\ stage' = <<>> /\ badges' = <<>>
      BY <1>2 DEF AgentSend
    <2>2. calls' \in Seq(Tools) /\ badges' \in Seq(Badge) /\ Len(calls') = 0 /\ Len(badges') = 0
          /\ 1 .. Len(calls') = {} /\ DOMAIN calls' = {} /\ DOMAIN badges' = {}
      BY <2>1, EmptySeq
    <2>3. stage' \in [1 .. Len(calls') -> {"kore", "bridge", "settled"}]
      BY <2>1, <2>2
    <2>4. \A t \in Tools : RunningBadges'[t] = PendingCalls'[t]
      BY <2>2 DEF RunningBadges, PendingCalls
    <2> QED
      BY <2>2, <2>3, <2>4 DEF BadgeInv
  <1>3. CASE CheckEndpoints \/ SkipUnreachable \/ EndpointsExhausted \/ RoundEnds \/ PipelineEnds
    BY <1>1, <1>3 DEF CheckEndpoints, SkipUnreachable, EndpointsExhausted, RoundEnds, PipelineEnds
  <1>4. ASSUME NEW why \in Failures, EndpointFails(why)
        PROVE  BadgeInv'
    BY <1>1, <1>4 DEF EndpointFails
  <1>5. ASSUME NEW cs \in ToolCalls, EndpointAnswers(cs)
        PROVE  BadgeInv'
    BY <1>5, AnswerStep
  <1>6. ASSUME NEW i \in DOMAIN calls, KoreExecutes(i)
        PROVE  BadgeInv'
    <2>1. stage[i] # "settled" /\ calls' = calls /\ (Settle(i) \/ HandOver(i))
      BY <1>6 DEF KoreExecutes
    <2> QED
      BY <2>1, SettleStep, HandOverStep
  <1>7. ASSUME NEW i \in DOMAIN calls, BridgeExecutes(i)
        PROVE  BadgeInv'
    <2>1. stage[i] # "settled" /\ calls' = calls /\ Settle(i)
      BY <1>7 DEF BridgeExecutes
    <2> QED
      BY <2>1, SettleStep
  <1>8. CASE UNCHANGED agentVars
    BY <1>1, <1>8 DEF agentVars
  <1> QED
    BY <1>2, <1>3, <1>4, <1>5, <1>6, <1>7, <1>8 DEF AgentNext, AgentWork

(* Before the first send there are no badges.                              *)
LEMMA BadgeStart == AgentInit => BadgeInv
  <1> SUFFICES ASSUME AgentInit
               PROVE  BadgeInv
    OBVIOUS
  <1>1. calls = <<>> /\ stage = <<>> /\ badges = <<>>
    BY DEF AgentInit
  <1>2. calls \in Seq(Tools) /\ badges \in Seq(Badge) /\ Len(calls) = 0 /\ Len(badges) = 0
        /\ 1 .. Len(calls) = {} /\ DOMAIN calls = {} /\ DOMAIN badges = {}
    BY <1>1, EmptySeq
  <1>3. stage \in [1 .. Len(calls) -> {"kore", "bridge", "settled"}]
    BY <1>1, <1>2
  <1>4. \A t \in Tools : RunningBadges[t] = PendingCalls[t]
    BY <1>2 DEF RunningBadges, PendingCalls
  <1> QED
    BY <1>2, <1>3, <1>4 DEF BadgeInv

(* The invariant gives the property.                                       *)
LEMMA BadgeInvGives == BadgeInv => BadgesSettle
  BY DEF BadgeInv, BadgesSettle, RunningBadges, PendingCalls

(* Two calls of the same tool with the same parameters have badges that    *)
(* cannot be told apart: updateToolGroup (JcodePanel) settles the first    *)
(* that runs, and still none is left running and none is added.            *)
THEOREM BadgesKeepUp == AgentSpec => []BadgesSettle
  <1>1. MaxCalls \in Nat
    BY AgentBounds
  <1>2. BadgeInv /\ [AgentNext]_agentVars => BadgeInv'
    BY <1>1, BadgeStep
  <1> QED
    BY <1>2, BadgeStart, BadgeInvGives, PTL DEF AgentSpec

-------------------------------------------------------------------------------
(* Panels                                                                  *)

PanelState == [activePanel : {"none", "browser"}, bounds : {"none", "wide"},
               sidebarVisible : BOOLEAN, sidebarBounds : Sizes \cup {"none"},
               rightVisible : BOOLEAN, rightBounds : {"none", "wide"}]

Messages == {Post("tab", "chat"), Post("bounds", "wide"), Post("rightBounds", "wide")}
              \cup {Post("panel", v) : v \in {"none", "browser"}}
              \cup {Post("sidebarBounds", v) : v \in Sizes}
              \cup {Post("sidebarVisible", v) : v \in BOOLEAN}

(* Stored, in a state p.                                                   *)
After(p, m) ==
  CASE m.ch = "tab"    -> p
    [] m.ch = "panel"  -> [p EXCEPT !.activePanel = m.value]
    [] m.ch = "bounds" -> [p EXCEPT !.bounds = m.value]
    [] m.ch = "sidebarBounds" -> [p EXCEPT !.sidebarBounds = m.value]
    [] m.ch = "rightBounds"   -> [p EXCEPT !.rightBounds = m.value]
    [] m.ch = "sidebarVisible" ->
         [p EXCEPT !.sidebarVisible = m.value,
                   !.sidebarBounds = IF m.value THEN @ ELSE "none"]

PanelStep == [x \in PanelState \X Messages |-> After(x[1], x[2])]

LEMMA PanelStepIs ==
  ASSUME NEW p \in PanelState, NEW m \in Messages
  PROVE  PanelStep[<<p, m>>] = After(p, m)
  BY DEF PanelStep

(* What each message makes of a state.                                     *)
LEMMA AfterTab == ASSUME NEW p PROVE After(p, Post("tab", "chat")) = p
  BY DEF After, Post

LEMMA AfterPanel ==
  ASSUME NEW p \in PanelState, NEW v \in {"none", "browser"}, NEW a, a = After(p, Post("panel", v))
  PROVE  /\ a \in PanelState /\ a.activePanel = v /\ a.bounds = p.bounds
         /\ a.sidebarVisible = p.sidebarVisible /\ a.sidebarBounds = p.sidebarBounds
  <1>1. a = [p EXCEPT !.activePanel = v]
    BY DEF After, Post
  <1> QED
    BY <1>1 DEF PanelState

LEMMA AfterBounds ==
  ASSUME NEW p \in PanelState, NEW a, a = After(p, Post("bounds", "wide"))
  PROVE  /\ a \in PanelState /\ a.activePanel = p.activePanel /\ a.bounds = "wide"
         /\ a.sidebarVisible = p.sidebarVisible /\ a.sidebarBounds = p.sidebarBounds
  <1>1. a = [p EXCEPT !.bounds = "wide"]
    BY DEF After, Post
  <1> QED
    BY <1>1 DEF PanelState

LEMMA AfterSidebarBounds ==
  ASSUME NEW p \in PanelState, NEW v \in Sizes, NEW a, a = After(p, Post("sidebarBounds", v))
  PROVE  /\ a \in PanelState /\ a.activePanel = p.activePanel /\ a.bounds = p.bounds
         /\ a.sidebarVisible = p.sidebarVisible /\ a.sidebarBounds = v
  <1>1. a = [p EXCEPT !.sidebarBounds = v]
    BY DEF After, Post
  <1> QED
    BY <1>1 DEF PanelState

LEMMA AfterRightBounds ==
  ASSUME NEW p \in PanelState, NEW a, a = After(p, Post("rightBounds", "wide"))
  PROVE  /\ a \in PanelState /\ a.activePanel = p.activePanel /\ a.bounds = p.bounds
         /\ a.sidebarVisible = p.sidebarVisible /\ a.sidebarBounds = p.sidebarBounds
  <1>1. a = [p EXCEPT !.rightBounds = "wide"]
    BY DEF After, Post
  <1> QED
    BY <1>1 DEF PanelState

LEMMA AfterVisible ==
  ASSUME NEW p \in PanelState, NEW b \in BOOLEAN, NEW a, a = After(p, Post("sidebarVisible", b))
  PROVE  /\ a \in PanelState /\ a.activePanel = p.activePanel /\ a.bounds = p.bounds
         /\ a.sidebarVisible = b /\ (~b => a.sidebarBounds = "none")
  <1>1. PICK a1 \in {"none", "browser"}, a2 \in {"none", "wide"}, a5 \in BOOLEAN,
             a6 \in {"none", "wide"} :
          a1 = p.activePanel /\ a2 = p.bounds /\ a5 = p.rightVisible /\ a6 = p.rightBounds
    BY DEF PanelState
  <1>2. PICK z \in Sizes \cup {"none"} : z = IF b THEN p.sidebarBounds ELSE "none"
    BY DEF PanelState
  <1>3. a = [p EXCEPT !.sidebarVisible = b, !.sidebarBounds = z]
    BY <1>2 DEF After, Post, PanelState
  <1>4. a = [activePanel |-> a1, bounds |-> a2, sidebarVisible |-> b,
             sidebarBounds |-> z, rightVisible |-> a5, rightBounds |-> a6]
    BY <1>1, <1>3 DEF PanelState
  <1>5. a.activePanel = a1 /\ a.bounds = a2 /\ a.sidebarBounds = z
    BY <1>4
  <1>6. a.sidebarVisible = b
    BY <1>4
  <1>7. a \in PanelState
    BY <1>4 DEF PanelState
  <1> QED
    BY <1>1, <1>2, <1>5, <1>6, <1>7

LEMMA AfterTyped ==
  ASSUME NEW p \in PanelState, NEW m \in Messages
  PROVE  After(p, m) \in PanelState
  <1>1. CASE m \in {Post("tab", "chat"), Post("bounds", "wide"), Post("rightBounds", "wide")}
    BY <1>1, AfterTab, AfterBounds, AfterRightBounds
  <1>2. ASSUME NEW v \in {"none", "browser"}, m = Post("panel", v)
        PROVE  After(p, m) \in PanelState
    BY <1>2, AfterPanel
  <1>3. ASSUME NEW v \in Sizes, m = Post("sidebarBounds", v)
        PROVE  After(p, m) \in PanelState
    BY <1>3, AfterSidebarBounds
  <1>4. ASSUME NEW b \in BOOLEAN, m = Post("sidebarVisible", b)
        PROVE  After(p, m) \in PanelState
    BY <1>4, AfterVisible
  <1> QED
    BY <1>1, <1>2, <1>3, <1>4 DEF Messages

(* What is posted now will be handled last.                                *)
LEMMA PostedOn ==
  ASSUME NEW p, NEW q \in Seq(Messages), NEW r \in PanelState, Leads(PanelStep, p, q, r),
         NEW m \in Messages
  PROVE  Leads(PanelStep, p, Append(q, m), After(r, m)) /\ Append(q, m) \in Seq(Messages)
  <1>1. PanelStep[<<r, m>>] = After(r, m)
    BY PanelStepIs
  <1>2. Leads(PanelStep, p, Append(q, m), PanelStep[<<r, m>>]) /\ Append(q, m) \in Seq(Messages)
    BY LeadsOn
  <1> QED
    BY <1>1, <1>2

LEMMA PostedTwice ==
  ASSUME NEW p, NEW q \in Seq(Messages), NEW r \in PanelState, Leads(PanelStep, p, q, r),
         NEW m1 \in Messages, NEW m2 \in Messages
  PROVE  /\ q \o <<m1, m2>> \in Seq(Messages)
         /\ Leads(PanelStep, p, q \o <<m1, m2>>, After(After(r, m1), m2))
  <1>1. PanelStep[<<r, m1>>] = After(r, m1) /\ After(r, m1) \in PanelState
    BY PanelStepIs, AfterTyped
  <1>2. PanelStep[<<After(r, m1), m2>>] = After(After(r, m1), m2)
    BY <1>1, PanelStepIs
  <1>3. /\ q \o <<m1, m2>> \in Seq(Messages)
        /\ Leads(PanelStep, p, q \o <<m1, m2>>, PanelStep[<<PanelStep[<<r, m1>>], m2>>])
    BY LeadsOnTwice
  <1> QED
    BY <1>1, <1>2, <1>3

(* The state r has the browser view where the layout wants it, but for the *)
(* sidebar's after a reload, and for bounds left over from a wide center.  *)
Agrees(r) ==
  /\ r.activePanel = IF CenterMounted /\ ~closed THEN "browser" ELSE "none"
  /\ CenterMounted /\ centerSize = "wide" => r.bounds = "wide"
  /\ SidebarMounted(sidebar) => r.sidebarVisible /\ r.sidebarBounds = sidebar.size
  /\ ~SidebarMounted(sidebar) => (leftover <=> r.sidebarVisible /\ r.sidebarBounds = "wide")
  /\ leftover => ~SidebarMounted(sidebar)

Layouts == [open : BOOLEAN, module : {"explorer", "browser"}, size : Sizes]

LayoutTyped == closed \in BOOLEAN /\ leftover \in BOOLEAN /\ sidebar \in Layouts

(* Where the panel manager will be when it has handled what is posted.     *)
WillAgree == posted \in Seq(Messages) /\ \E r \in PanelState : Leads(PanelStep, panel, posted, r) /\ Agrees(r)

PanelInv ==
  /\ LayoutTyped /\ panel \in PanelState /\ WillAgree
  /\ place = [browser |-> BrowserPlace(panel), right |-> RightPlace(panel)]

LEMMA SomeMessages ==
  /\ Post("tab", "chat") \in Messages /\ Post("panel", "none") \in Messages
  /\ Post("panel", "browser") \in Messages /\ Post("bounds", "wide") \in Messages
  /\ Post("rightBounds", "wide") \in Messages
  /\ \A v \in Sizes : Post("sidebarBounds", v) \in Messages
  /\ \A b \in BOOLEAN : Post("sidebarVisible", b) \in Messages
  BY DEF Messages

(* Through q the state p becomes a, which selects no panel and has the     *)
(* sidebar of r.                                                           *)
Unselects(p, q, a, r) ==
  /\ q \in Seq(Messages) /\ Leads(PanelStep, p, q, a) /\ a.activePanel = "none"
  /\ a.sidebarVisible = r.sidebarVisible /\ a.sidebarBounds = r.sidebarBounds

(* The chat mounted anew selects no panel.                                 *)
LEMMA ChatMounted ==
  ASSUME NEW p, NEW q \in Seq(Messages), NEW r \in PanelState, Leads(PanelStep, p, q, r)
  PROVE  \E a \in PanelState : Unselects(p, q \o MountChat, a, r)
  <1>1. PICK m1 \in Messages, m2 \in Messages : m1 = Post("tab", "chat") /\ m2 = Post("panel", "none")
    BY SomeMessages
  <1>2. PICK a : a = After(After(r, m1), m2)
    OBVIOUS
  <1>3. After(r, m1) = r
    BY <1>1, AfterTab
  <1>4. /\ a \in PanelState /\ a.activePanel = "none" /\ a.bounds = r.bounds
        /\ a.sidebarVisible = r.sidebarVisible /\ a.sidebarBounds = r.sidebarBounds
    BY <1>1, <1>2, <1>3, AfterPanel
  <1>5. q \o <<m1, m2>> \in Seq(Messages) /\ Leads(PanelStep, p, q \o <<m1, m2>>, a)
    BY <1>2, PostedTwice
  <1> QED
    BY <1>1, <1>4, <1>5 DEF MountChat, Unselects

LEMMA PanelInvStart == PanelsInit => PanelInv
  <1> SUFFICES ASSUME PanelsInit PROVE PanelInv
    OBVIOUS
  <1> USE DEF PanelsInit
  <1>1. LayoutTyped /\ ~CenterMounted /\ ~SidebarMounted(sidebar) /\ leftover = FALSE
    BY DEF LayoutTyped, Layouts, CenterMounted, SidebarMounted, Sizes
  <1>2. StateAtStart \in PanelState /\ panel = StateAtStart
    BY DEF StateAtStart, PanelState
  <1>3. place = [browser |-> BrowserPlace(panel), right |-> RightPlace(panel)]
    BY <1>2 DEF BrowserPlace, RightPlace, StateAtStart
  <1>4. PICK z \in PanelState : z = StateAtStart
    BY <1>2
  <1>5. PICK a \in PanelState : Unselects(panel, <<>> \o MountChat, a, z)
    <2>1. <<>> \in Seq(Messages) /\ Leads(PanelStep, panel, <<>>, z)
      BY <1>2, <1>4, NothingLeads
    <2> QED
      BY <2>1, ChatMounted
  <1>6. MountChat \in Seq(Messages) /\ <<>> \o MountChat = MountChat
    <2>1. MountChat \in Seq(Messages)
      BY SomeMessages DEF MountChat
    <2> QED
      BY <2>1, ConcatEmptySeq
  <1>7. z.sidebarVisible = FALSE
    BY <1>4 DEF StateAtStart
  <1>8. a.sidebarVisible = FALSE
    BY <1>5, <1>7 DEF Unselects
  <1>9. Agrees(a)
    BY <1>1, <1>5, <1>8 DEF Agrees, Unselects
  <1>10. WillAgree
    BY <1>5, <1>6, <1>9 DEF WillAgree, Unselects
  <1> QED
    BY <1>1, <1>2, <1>3, <1>10 DEF PanelInv

(* A step of the user: what it posts makes r the state a, which agrees     *)
(* with the new layout.                                                    *)
LEMMA PanelInvBy ==
  ASSUME PanelInv, LayoutTyped', UNCHANGED <<panel, place>>,
         NEW a \in PanelState, posted' \in Seq(Messages), Leads(PanelStep, panel, posted', a), Agrees(a)'
  PROVE  PanelInv'
  <1>1. WillAgree'
    BY DEF WillAgree
  <1>2. (place = [browser |-> BrowserPlace(panel), right |-> RightPlace(panel)])'
    BY DEF PanelInv, BrowserPlace, RightPlace
  <1>3. (panel \in PanelState)'
    BY DEF PanelInv
  <1> QED
    BY <1>1, <1>2, <1>3 DEF PanelInv

LEMMA ClickTabStep ==
  ASSUME PanelInv, NEW t \in Tabs, ClickTab(t)
  PROVE  PanelInv'
  <1> USE DEF ClickTab
  <1>1. PICK r \in PanelState : Leads(PanelStep, panel, posted, r) /\ Agrees(r)
    BY DEF PanelInv, WillAgree
  <1>2. PICK q : q = posted \o (IF CenterMounted THEN <<Post("panel", "none")>> ELSE <<>>)
    OBVIOUS
  <1>3. \E a \in PanelState : Unselects(panel, q, a, r)
    <2>0. posted \in Seq(Messages)
      BY DEF PanelInv, WillAgree
    <2>1. CASE CenterMounted
      <3>1. PICK m \in Messages : m = Post("panel", "none")
        BY SomeMessages
      <3>2. q = Append(posted, m)
        BY <1>2, <2>0, <2>1, <3>1, OneAfterTheOther
      <3>3. q \in Seq(Messages) /\ Leads(PanelStep, panel, q, After(r, m))
        BY <1>1, <2>0, <3>2, PostedOn
      <3> QED
        BY <3>1, <3>3, AfterPanel DEF Unselects
    <2>2. CASE ~CenterMounted
      <3>1. q = posted
        BY <1>2, <2>0, <2>2, ConcatEmptySeq
      <3>2. r.activePanel = "none"
        BY <1>1, <2>2 DEF Agrees
      <3> QED
        BY <1>1, <2>0, <3>1, <3>2 DEF Unselects
    <2> QED
      BY <2>1, <2>2
  <1>4. PICK b \in PanelState : Unselects(panel, q, b, r)
    BY <1>3
  <1>5. PICK a \in PanelState : Unselects(panel, posted', a, r)
    <2>1. CASE t = "chat"
      <3>1. posted' = q \o MountChat
        BY <1>2, <2>1
      <3>2. PICK a \in PanelState : Unselects(panel, q \o MountChat, a, b)
        BY <1>4, ChatMounted DEF Unselects
      <3> QED
        BY <1>4, <3>1, <3>2 DEF Unselects
    <2>2. CASE t # "chat"
      <3>1. posted' = q
        BY <1>2, <1>4, <2>2, ConcatEmptySeq DEF Unselects
      <3> QED
        BY <1>4, <3>1
    <2> QED
      BY <2>1, <2>2
  <1>6. ~CenterMounted'
    BY DEF CenterMounted
  <1>7. Agrees(a)'
    BY <1>1, <1>5, <1>6 DEF Agrees, SidebarMounted, Unselects
  <1>8. LayoutTyped'
    BY DEF LayoutTyped, PanelInv
  <1> QED
    BY <1>5, <1>7, <1>8, PanelInvBy DEF Unselects

LEMMA ClickCenterStep ==
  ASSUME PanelInv, NEW m0 \in {"chat", "browser"}, ClickCenter(m0)
  PROVE  PanelInv'
  <1> USE DEF ClickCenter
  <1>1. PICK r \in PanelState : posted \in Seq(Messages) /\ Leads(PanelStep, panel, posted, r) /\ Agrees(r)
    BY DEF PanelInv, WillAgree
  <1>2. LayoutTyped' /\ UNCHANGED <<panel, place>>
    BY DEF LayoutTyped, PanelInv
  <1>3. CASE m0 = "chat"
    <2>1. PICK m \in Messages : m = Post("panel", "none")
      BY SomeMessages
    <2>2. PICK a : a = After(After(r, m), m)
      OBVIOUS
    <2>3. PICK b \in PanelState : /\ b = After(r, m) /\ b.activePanel = "none"
            /\ b.sidebarVisible = r.sidebarVisible /\ b.sidebarBounds = r.sidebarBounds
      BY <2>1, AfterPanel
    <2>4. /\ a \in PanelState /\ a.activePanel = "none"
          /\ a.sidebarVisible = b.sidebarVisible /\ a.sidebarBounds = b.sidebarBounds
      BY <2>1, <2>2, <2>3, AfterPanel
    <2>5. posted' = posted \o <<m, m>>
      BY <1>3, <2>1
    <2>6. posted' \in Seq(Messages) /\ Leads(PanelStep, panel, posted', a)
      BY <1>1, <2>2, <2>5, PostedTwice
    <2>7. Agrees(a)'
      BY <1>1, <1>3, <2>3, <2>4 DEF Agrees, CenterMounted, SidebarMounted
    <2> QED
      BY <1>2, <2>4, <2>6, <2>7, PanelInvBy
  <1>4. CASE m0 = "browser"
    <2>1. PICK m1 \in Messages, m2 \in Messages, m3 \in Messages :
            m1 = Post("tab", "chat") /\ m2 = Post("panel", "browser") /\ m3 = Post("bounds", "wide")
      BY SomeMessages
    <2>2. PICK b \in PanelState : /\ b = After(After(r, m1), m2) /\ b.activePanel = "browser"
            /\ b.sidebarVisible = r.sidebarVisible /\ b.sidebarBounds = r.sidebarBounds
      BY <2>1, AfterTab, AfterPanel
    <2>3. PICK q : q = posted \o <<m1, m2>>
      OBVIOUS
    <2>4. q \in Seq(Messages) /\ Leads(PanelStep, panel, q, b)
      BY <1>1, <2>2, <2>3, PostedTwice
    <2>5. PICK c, s : /\ c \in PanelState /\ s \in Seq(Messages) /\ Leads(PanelStep, panel, s, c)
            /\ s = q \o CenterBounds(centerSize')
            /\ c.activePanel = "browser" /\ (centerSize' = "wide" => c.bounds = "wide")
            /\ c.sidebarVisible = b.sidebarVisible /\ c.sidebarBounds = b.sidebarBounds
      <3>1. CASE centerSize' = "wide"
        <4>1. q \o CenterBounds(centerSize') = Append(q, m3)
          BY <2>1, <2>4, <3>1, OneAfterTheOther DEF CenterBounds
        <4>2. Append(q, m3) \in Seq(Messages) /\ Leads(PanelStep, panel, Append(q, m3), After(b, m3))
          BY <2>4, PostedOn
        <4> QED
          BY <2>1, <2>2, <4>1, <4>2, AfterBounds, ZenonT(30)
      <3>2. CASE centerSize' # "wide"
        <4>1. q \o CenterBounds(centerSize') = q
          BY <2>4, <3>2, ConcatEmptySeq DEF CenterBounds
        <4> QED
          BY <2>2, <2>4, <3>2, <4>1
      <3> QED
        BY <3>1, <3>2
    <2>6. PICK a \in PanelState : /\ a = After(c, m2) /\ a.activePanel = "browser" /\ a.bounds = c.bounds
            /\ a.sidebarVisible = c.sidebarVisible /\ a.sidebarBounds = c.sidebarBounds
      <3>1. PICK d \in PanelState : d = c
        BY <2>5
      <3>2. PICK a : a = After(d, m2)
        OBVIOUS
      <3>3. /\ a \in PanelState /\ a.activePanel = "browser" /\ a.bounds = d.bounds
            /\ a.sidebarVisible = d.sidebarVisible /\ a.sidebarBounds = d.sidebarBounds
        BY <2>1, <3>2, AfterPanel
      <3> QED
        BY <3>1, <3>2, <3>3
    <2>7. posted' = Append(s, m2)
      <3>1. posted' = posted \o (<<m1, m2>> \o CenterBounds(centerSize') \o <<m2>>)
        BY <1>4, <2>1
      <3>2. PICK u \in Seq(Messages), v \in Seq(Messages), w \in Seq(Messages) :
              u = <<m1, m2>> /\ v = CenterBounds(centerSize') /\ w = <<m2>>
        <4>1. CenterBounds(centerSize') \in {<<>>, <<m3>>}
          BY <2>1 DEF CenterBounds
        <4>2. /\ <<>> \in Seq(Messages) /\ <<m3>> \in Seq(Messages) /\ <<m2>> \in Seq(Messages)
              /\ <<m1, m2>> \in Seq(Messages)
          OBVIOUS
        <4> QED
          BY <4>1, <4>2
      <3>3. posted' = posted \o ((u \o v) \o w)
        BY <3>1, <3>2
      <3>4. PICK z \in Seq(Messages) : z = posted
        BY <1>1
      <3>5. z \o ((u \o v) \o w) = ((z \o u) \o v) \o w
        BY FourParts, SMTT(25)
      <3>7. s = (posted \o u) \o v
        BY <2>3, <2>5, <3>2
      <3>8. posted' = s \o w
        BY <3>3, <3>4, <3>5, <3>7
      <3> QED
        BY <2>5, <3>2, <3>8, OneAfterTheOther
    <2>8. posted' \in Seq(Messages) /\ Leads(PanelStep, panel, posted', a)
      BY <2>5, <2>6, <2>7, PostedOn
    <2>9. Agrees(a)'
      BY <1>1, <1>4, <2>2, <2>5, <2>6 DEF Agrees, CenterMounted, SidebarMounted
    <2> QED
      BY <1>2, <2>8, <2>9, PanelInvBy
  <1> QED
    BY <1>3, <1>4

LEMMA CloseBrowserPanelStep ==
  ASSUME PanelInv, CloseBrowserPanel
  PROVE  PanelInv'
  <1> USE DEF CloseBrowserPanel
  <1>1. PICK r \in PanelState : posted \in Seq(Messages) /\ Leads(PanelStep, panel, posted, r) /\ Agrees(r)
    BY DEF PanelInv, WillAgree
  <1>2. LayoutTyped'
    BY DEF LayoutTyped, PanelInv
  <1>3. PICK m \in Messages : m = Post("panel", "none")
    BY SomeMessages
  <1>4. PICK a \in PanelState : /\ a = After(r, m) /\ a.activePanel = "none" /\ a.bounds = r.bounds
          /\ a.sidebarVisible = r.sidebarVisible /\ a.sidebarBounds = r.sidebarBounds
    BY <1>3, AfterPanel
  <1>5. posted' \in Seq(Messages) /\ Leads(PanelStep, panel, posted', a)
    BY <1>1, <1>3, <1>4, PostedOn
  <1>6. Agrees(a)'
    BY <1>1, <1>4 DEF Agrees, CenterMounted, SidebarMounted
  <1> QED
    BY <1>2, <1>5, <1>6, PanelInvBy

LEMMA ResizeCenterStep ==
  ASSUME PanelInv, NEW size \in Sizes, ResizeCenter(size)
  PROVE  PanelInv'
  <1> USE DEF ResizeCenter
  <1>1. PICK r \in PanelState : posted \in Seq(Messages) /\ Leads(PanelStep, panel, posted, r) /\ Agrees(r)
    BY DEF PanelInv, WillAgree
  <1>2. LayoutTyped'
    BY DEF LayoutTyped, PanelInv
  <1>3. CASE size = "wide"
    <2>1. PICK m \in Messages : m = Post("bounds", "wide")
      BY SomeMessages
    <2>2. PICK a \in PanelState : /\ a = After(r, m) /\ a.activePanel = r.activePanel /\ a.bounds = "wide"
            /\ a.sidebarVisible = r.sidebarVisible /\ a.sidebarBounds = r.sidebarBounds
      BY <2>1, AfterBounds
    <2>3. posted' = Append(posted, m)
      BY <1>1, <1>3, <2>1, OneAfterTheOther DEF CenterBounds
    <2>4. posted' \in Seq(Messages) /\ Leads(PanelStep, panel, posted', a)
      BY <1>1, <2>2, <2>3, PostedOn
    <2>5. Agrees(a)'
      BY <1>1, <2>2 DEF Agrees, CenterMounted, SidebarMounted
    <2> QED
      BY <1>2, <2>4, <2>5, PanelInvBy
  <1>4. CASE size # "wide"
    <2>1. posted' = posted
      BY <1>1, <1>4, ConcatEmptySeq DEF CenterBounds
    <2>2. Agrees(r)'
      BY <1>1, <1>4 DEF Agrees, CenterMounted, SidebarMounted
    <2> QED
      BY <1>1, <1>2, <2>1, <2>2, PanelInvBy
  <1> QED
    BY <1>3, <1>4

LEMMA ToggleRightStep ==
  ASSUME PanelInv, ToggleRight
  PROVE  PanelInv'
  <1> USE DEF ToggleRight
  <1>1. PICK r \in PanelState : posted \in Seq(Messages) /\ Leads(PanelStep, panel, posted, r) /\ Agrees(r)
    BY DEF PanelInv, WillAgree
  <1>2. LayoutTyped'
    BY DEF LayoutTyped, PanelInv
  <1>3. CASE right
    <2>1. posted' = posted
      BY <1>1, <1>3, ConcatEmptySeq
    <2>2. Agrees(r)'
      BY <1>1 DEF Agrees, CenterMounted, SidebarMounted
    <2> QED
      BY <1>1, <1>2, <2>1, <2>2, PanelInvBy
  <1>4. CASE ~right
    <2>1. PICK m \in Messages : m = Post("rightBounds", "wide")
      BY SomeMessages
    <2>2. PICK a \in PanelState : /\ a = After(r, m) /\ a.activePanel = r.activePanel /\ a.bounds = r.bounds
            /\ a.sidebarVisible = r.sidebarVisible /\ a.sidebarBounds = r.sidebarBounds
      BY <2>1, AfterRightBounds
    <2>3. posted' = Append(posted, m)
      BY <1>1, <1>4, <2>1, OneAfterTheOther
    <2>4. posted' \in Seq(Messages) /\ Leads(PanelStep, panel, posted', a)
      BY <1>1, <2>2, <2>3, PostedOn
    <2>5. Agrees(a)'
      BY <1>1, <2>2 DEF Agrees, CenterMounted, SidebarMounted
    <2> QED
      BY <1>2, <2>4, <2>5, PanelInvBy
  <1> QED
    BY <1>3, <1>4

LEMMA ReloadStep ==
  ASSUME PanelInv, Reload
  PROVE  PanelInv'
  <1> USE DEF Reload
  <1>1. PICK r \in PanelState : posted \in Seq(Messages) /\ Leads(PanelStep, panel, posted, r) /\ Agrees(r)
    BY DEF PanelInv, WillAgree
  <1>2. LayoutTyped'
    BY DEF LayoutTyped, PanelInv, Layouts, Sizes
  <1>3. PICK a \in PanelState : Unselects(panel, posted', a, r)
    BY <1>1, ChatMounted
  <1>4. ~CenterMounted' /\ ~SidebarMounted(sidebar')
    BY DEF CenterMounted, SidebarMounted
  <1>5. leftover' <=> r.sidebarVisible /\ r.sidebarBounds = "wide"
    BY <1>1 DEF Agrees, PanelInv, LayoutTyped
  <1>6. Agrees(a)'
    BY <1>3, <1>4, <1>5 DEF Agrees, Unselects
  <1> QED
    BY <1>2, <1>3, <1>6, PanelInvBy DEF Unselects

LEMMA ChangeSidebarStep ==
  ASSUME PanelInv, NEW s \in Layouts, ChangeSidebar(s)
  PROVE  PanelInv'
  <1> USE DEF ChangeSidebar
  <1>1. PICK r \in PanelState : posted \in Seq(Messages) /\ Leads(PanelStep, panel, posted, r) /\ Agrees(r)
    BY DEF PanelInv, WillAgree
  <1>2. LayoutTyped'
    BY DEF LayoutTyped, PanelInv
  <1>3. PICK z \in Sizes : z = s.size
    BY DEF Layouts
  <1>4. PICK b \in BOOLEAN, m1 \in Messages, m2 \in Messages :
           b /\ m1 = Post("sidebarVisible", b) /\ m2 = Post("sidebarBounds", z)
    BY SomeMessages
  <1>5. CASE SidebarMounted(s) /\ ~SidebarMounted(sidebar)
    <2>1. PICK c \in PanelState : /\ c = After(r, m1) /\ c.activePanel = r.activePanel /\ c.bounds = r.bounds
            /\ c.sidebarVisible = b
      BY <1>4, AfterVisible
    <2>2. PICK a \in PanelState : /\ a = After(c, m2) /\ a.activePanel = c.activePanel /\ a.bounds = c.bounds
            /\ a.sidebarVisible = c.sidebarVisible /\ a.sidebarBounds = z
      BY <1>4, AfterSidebarBounds
    <2>3. posted' = posted \o <<m1, m2>>
      BY <1>3, <1>4, <1>5
    <2>4. posted' \in Seq(Messages) /\ Leads(PanelStep, panel, posted', a)
      BY <1>1, <2>1, <2>2, <2>3, PostedTwice
    <2>5. Agrees(a)'
      BY <1>1, <1>3, <1>4, <1>5, <2>1, <2>2 DEF Agrees, CenterMounted
    <2> QED
      BY <1>2, <2>4, <2>5, PanelInvBy
  <1>6. CASE SidebarMounted(s) /\ SidebarMounted(sidebar)
    <2>1. PICK a \in PanelState : /\ a = After(r, m2) /\ a.activePanel = r.activePanel /\ a.bounds = r.bounds
            /\ a.sidebarVisible = r.sidebarVisible /\ a.sidebarBounds = z
      BY <1>4, AfterSidebarBounds
    <2>2. posted' = Append(posted, m2)
      BY <1>1, <1>3, <1>4, <1>6, OneAfterTheOther
    <2>3. posted' \in Seq(Messages) /\ Leads(PanelStep, panel, posted', a)
      BY <1>1, <2>1, <2>2, PostedOn
    <2>4. Agrees(a)'
      BY <1>1, <1>3, <1>6, <2>1 DEF Agrees, CenterMounted
    <2> QED
      BY <1>2, <2>3, <2>4, PanelInvBy
  <1>7. CASE ~SidebarMounted(s) /\ SidebarMounted(sidebar)
    <2>1. PICK d \in BOOLEAN, m \in Messages : ~d /\ m = Post("sidebarVisible", d)
      BY SomeMessages
    <2>2. PICK a \in PanelState : /\ a = After(r, m) /\ a.activePanel = r.activePanel /\ a.bounds = r.bounds
            /\ a.sidebarVisible = d
      BY <2>1, AfterVisible
    <2>3. posted' = Append(posted, m)
      <3>1. posted' = posted \o <<Post("sidebarVisible", FALSE)>>
        BY <1>7
      <3>2. posted' = posted \o <<m>>
        <4>1. d = FALSE
          BY <2>1
        <4> QED
          BY <2>1, <3>1, <4>1
      <3> QED
        BY <1>1, <3>2, OneAfterTheOther
    <2>4. posted' \in Seq(Messages) /\ Leads(PanelStep, panel, posted', a)
      BY <1>1, <2>2, <2>3, PostedOn
    <2>5. Agrees(a)'
      BY <1>1, <1>7, <2>1, <2>2 DEF Agrees, CenterMounted
    <2> QED
      BY <1>2, <2>4, <2>5, PanelInvBy
  <1>8. CASE ~SidebarMounted(s) /\ ~SidebarMounted(sidebar)
    <2>1. posted' = posted
      BY <1>1, <1>8, ConcatEmptySeq
    <2>2. Agrees(r)'
      BY <1>1, <1>8 DEF Agrees, CenterMounted
    <2> QED
      BY <1>1, <1>2, <2>1, <2>2, PanelInvBy
  <1> QED
    BY <1>5, <1>6, <1>7, <1>8

LEMMA HandlePostedStep ==
  ASSUME PanelInv, HandlePosted
  PROVE  PanelInv'
  <1> USE DEF HandlePosted, layoutVars
  <1>1. PICK r \in PanelState : posted \in Seq(Messages) /\ Leads(PanelStep, panel, posted, r) /\ Agrees(r)
    BY DEF PanelInv, WillAgree
  <1>2. Head(posted) \in Messages /\ Tail(posted) \in Seq(Messages)
    BY <1>1, HeadTailProperties
  <1>3. panel' = After(panel, Head(posted))
    BY DEF Stored, After
  <1>4. panel' \in PanelState
    BY <1>2, <1>3, AfterTyped DEF PanelInv
  <1>5. Leads(PanelStep, panel', posted', r)
    <2>1. PICK p \in PanelState, q \in Seq(Messages) : p = panel /\ q = posted /\ q # <<>>
      BY <1>1 DEF PanelInv
    <2>2. Leads(PanelStep, PanelStep[<<p, Head(q)>>], Tail(q), r)
      BY <1>1, <2>1, LeadsFrom
    <2>3. PanelStep[<<p, Head(q)>>] = After(p, Head(q))
      BY <1>2, <2>1, PanelStepIs
    <2> QED
      BY <1>3, <2>1, <2>2, <2>3
  <1>6. Agrees(r)' /\ LayoutTyped'
    BY <1>1 DEF Agrees, CenterMounted, PanelInv, LayoutTyped
  <1>7. (place = [browser |-> BrowserPlace(panel), right |-> RightPlace(panel)])'
    BY DEF UpdateVisibility
  <1>8. WillAgree'
    BY <1>1, <1>2, <1>5, <1>6 DEF WillAgree
  <1> QED
    BY <1>4, <1>6, <1>7, <1>8 DEF PanelInv

LEMMA PanelInvStep == PanelInv /\ [PanelsNext]_panelVars => PanelInv'
  <1> SUFFICES ASSUME PanelInv, [PanelsNext]_panelVars PROVE PanelInv'
    OBVIOUS
  <1>1. CASE UNCHANGED panelVars
    <2> USE DEF panelVars, layoutVars
    <2>1. PICK r \in PanelState : posted \in Seq(Messages) /\ Leads(PanelStep, panel, posted, r) /\ Agrees(r)
      BY DEF PanelInv, WillAgree
    <2>2. LayoutTyped' /\ Agrees(r)' /\ UNCHANGED <<panel, place>>
      BY <1>1, <2>1 DEF PanelInv, LayoutTyped, Agrees, CenterMounted
    <2> QED
      BY <1>1, <2>1, <2>2, PanelInvBy
  <1>2. CASE PanelsNext
    BY <1>2, ClickTabStep, ClickCenterStep, CloseBrowserPanelStep, ResizeCenterStep,
       ToggleRightStep, ReloadStep, ChangeSidebarStep, HandlePostedStep DEF PanelsNext, Layouts
  <1> QED
    BY <1>1, <1>2

LEMMA PanelInvGives == PanelInv => ViewFollowsLayout
  <1> SUFFICES ASSUME PanelInv, posted = <<>>
      PROVE place.browser = IF leftover \/ (SidebarMounted(sidebar) /\ sidebar.size = "wide") THEN "sidebar"
                            ELSE IF CenterMounted /\ ~closed /\ (centerSize = "wide" \/ panel.bounds = "wide")
                                 THEN "center" ELSE "offscreen"
    BY DEF ViewFollowsLayout
  <1>1. PICK r \in PanelState : Leads(PanelStep, panel, posted, r) /\ Agrees(r)
    BY DEF PanelInv, WillAgree
  <1>2. Agrees(panel) /\ place.browser = BrowserPlace(panel)
    BY <1>1, NothingStays DEF PanelInv
  <1>3. leftover \/ (SidebarMounted(sidebar) /\ sidebar.size = "wide")
          <=> panel.sidebarVisible /\ panel.sidebarBounds = "wide"
    BY <1>2 DEF Agrees, PanelInv, LayoutTyped
  <1>4. CenterMounted /\ ~closed /\ (centerSize = "wide" \/ panel.bounds = "wide")
          <=> panel.activePanel = "browser" /\ panel.bounds = "wide"
    BY <1>2 DEF Agrees
  <1> QED
    BY <1>2, <1>3, <1>4 DEF BrowserPlace

(* panel-manager.ts stores what it is sent, one message at a time, while   *)
(* the user goes on; with nothing on the way the browser view lies where   *)
(* the layout has room for it.                                             *)
THEOREM TheViewFollowsTheLayout == PanelsSpec => []ViewFollowsLayout
  <1>1. PanelsInit => PanelInv
    BY PanelInvStart
  <1>2. PanelInv /\ [PanelsNext]_panelVars => PanelInv'
    BY PanelInvStep
  <1>3. PanelInv => ViewFollowsLayout
    BY PanelInvGives
  <1> QED
    BY <1>1, <1>2, <1>3, PTL DEF PanelsSpec

-------------------------------------------------------------------------------
(* BrowserTabs                                                             *)

Tab == [id : 0 .. MaxTabs, url : AllPages \cup {Blank}]
Addresses == AllPages \cup {Blank}

(* The newest report names the page of the view, unless a load has failed  *)
(* since; with nothing left to load and to report the active tab bears it. *)
(* An active tab that is not among the tabs was closed as the last one.    *)
TabInv ==
  /\ TabsTypeOK
  /\ activeTab < tabCounter /\ \A i \in DOMAIN pages : pages[i].id < tabCounter
  /\ reported # <<>> /\ ~failed => reported[Len(reported)] = page
  /\ shownPanel /\ asked = <<>> /\ reported = <<>> /\ loading = Idle /\ ~failed =>
       \A i \in DOMAIN pages : pages[i].id = activeTab => pages[i].url = page
  /\ shownPanel => activeTab \in TabIds \/ Len(pages) = 1

(* A tab is its two fields.                                                *)
LEMMA WithUrlIs ==
  ASSUME pages \in Seq(Tab), NEW id, NEW url \in Addresses
  PROVE  /\ WithUrl(id, url) \in Seq(Tab) /\ Len(WithUrl(id, url)) = Len(pages)
         /\ \A i \in DOMAIN pages :
              /\ WithUrl(id, url)[i].id = pages[i].id
              /\ WithUrl(id, url)[i].url = IF pages[i].id = id THEN url ELSE pages[i].url
  <1>1. DOMAIN pages = 1 .. Len(pages) /\ Len(pages) \in Nat
    OBVIOUS
  <1>2. \A i \in DOMAIN pages : pages[i] \in Tab
    OBVIOUS
  <1>3. \A i \in DOMAIN pages : [pages[i] EXCEPT !.url = url] \in Tab
    BY <1>2 DEF Tab, Addresses
  <1>4. \A i \in DOMAIN pages :
          WithUrl(id, url)[i] = IF pages[i].id = id THEN [pages[i] EXCEPT !.url = url] ELSE pages[i]
    BY DEF WithUrl
  <1>5. WithUrl(id, url) \in [1 .. Len(pages) -> Tab]
    BY <1>1, <1>2, <1>3 DEF WithUrl
  <1>6. WithUrl(id, url) \in Seq(Tab) /\ Len(WithUrl(id, url)) = Len(pages)
    BY <1>1, <1>5
  <1> QED
    BY <1>2, <1>4, <1>6 DEF Tab

(* A message more at the end of a queue.                                   *)
LEMMA LastOf ==
  ASSUME NEW S, NEW q \in Seq(S), NEW x \in S
  PROVE  /\ Append(q, x) \in Seq(S) /\ Append(q, x) # <<>>
         /\ Append(q, x)[Len(Append(q, x))] = x
  BY AppendProperties

(* A message taken from the front of a queue.                              *)
LEMMA FirstTaken ==
  ASSUME NEW S, NEW q \in Seq(S), q # <<>>
  PROVE  /\ Head(q) \in S /\ Tail(q) \in Seq(S)
         /\ Tail(q) # <<>> => Tail(q)[Len(Tail(q))] = q[Len(q)]
         /\ Tail(q) = <<>> => Head(q) = q[Len(q)]
  <1>1. /\ Head(q) \in S /\ Tail(q) \in Seq(S) /\ Len(Tail(q)) = Len(q) - 1
        /\ \A i \in 1 .. Len(Tail(q)) : Tail(q)[i] = q[i + 1]
    BY HeadTailProperties
  <1>2. Len(q) \in Nat \ {0} /\ Head(q) = q[1]
    BY EmptySeq
  <1>3. Tail(q) = <<>> <=> Len(Tail(q)) = 0
    BY <1>1, EmptySeq
  <1>4. CASE Tail(q) = <<>>
    BY <1>1, <1>2, <1>3, <1>4
  <1>5. CASE Tail(q) # <<>>
    <2>1. Len(Tail(q)) \in Nat /\ Len(Tail(q)) >= 1 /\ Len(Tail(q)) + 1 = Len(q)
      BY <1>1, <1>2, <1>3, <1>5
    <2> QED
      BY <1>1, <1>5, <2>1
  <1> QED
    BY <1>4, <1>5

LEMMA TabsTyped ==
  TabInv => /\ pages \in Seq(Tab) /\ asked \in Seq(Addresses) /\ reported \in Seq(Addresses)
            /\ activeTab \in 0 .. MaxTabs /\ tabCounter \in 1 .. MaxTabs + 1
            /\ MaxTabs \in Nat /\ Home \in Addresses /\ Idle \notin Addresses
            /\ Pages \subseteq Addresses
            /\ loading \in Addresses \cup {Idle} /\ page \in Addresses
            /\ shownPanel \in BOOLEAN /\ (shownPanel <=> pages # <<>>)
  BY TabBounds DEF TabInv, TabsTypeOK, Tab, Addresses, AllPages, Home, Blank, Idle

(* t is s without its element number i.                                    *)
LacksOne(s, i, t) ==
  /\ Len(t) = Len(s) - 1 /\ Len(t) \in Nat
  /\ \A j \in DOMAIN t : \E k \in DOMAIN s : k # i /\ t[j] = s[k]
  /\ \A k \in DOMAIN s : k # i => \E j \in DOMAIN t : t[j] = s[k]

LEMMA WithoutOne ==
  ASSUME NEW S, NEW s \in Seq(S), NEW i \in DOMAIN s,
         NEW t, t = SubSeq(s, 1, i - 1) \o SubSeq(s, i + 1, Len(s))
  PROVE  t \in Seq(S) /\ LacksOne(s, i, t)
  <1>1. PICK n \in Nat : n = Len(s)
    OBVIOUS
  <1>2. i \in 1 .. n /\ DOMAIN s = 1 .. n
    BY <1>1
  <1>3. PICK a : a = SubSeq(s, 1, i - 1)
    OBVIOUS
  <1>4. PICK b : b = SubSeq(s, i + 1, n)
    OBVIOUS
  <1>5. /\ a \in Seq(S) /\ Len(a) = i - 1 /\ \A j \in 1 .. i - 1 : a[j] = s[j]
    BY <1>1, <1>2, <1>3, SubSeqProperties
  <1>6. /\ b \in Seq(S) /\ Len(b) = n - i /\ \A j \in 1 .. n - i : b[j] = s[i + j]
    BY <1>1, <1>2, <1>4, SubSeqProperties, SMTT(25)
  <1>7. t = a \o b
    BY <1>1, <1>3, <1>4
  <1>8. /\ t \in Seq(S) /\ Len(t) = Len(a) + Len(b)
        /\ \A j \in 1 .. Len(a) + Len(b) :
              t[j] = IF j <= Len(a) THEN a[j] ELSE b[j - Len(a)]
    <2>1. a \in Seq(S) /\ b \in Seq(S)
      BY <1>5, <1>6
    <2>2. /\ a \o b \in Seq(S) /\ Len(a \o b) = Len(a) + Len(b)
          /\ \A j \in 1 .. Len(a) + Len(b) :
                (a \o b)[j] = IF j <= Len(a) THEN a[j] ELSE b[j - Len(a)]
      BY <2>1, ConcatProperties
    <2> QED
      BY <1>7, <2>2
  <1>9. Len(a) + Len(b) = n - 1 /\ n - 1 \in Nat
    BY <1>2, <1>5, <1>6
  <1>10. DOMAIN t = 1 .. n - 1 /\ Len(t) = n - 1
    BY <1>8, <1>9
  <1>11. ASSUME NEW j \in 1 .. n - 1, j < i
         PROVE  t[j] = s[j]
    <2>1. j \in 1 .. i - 1 /\ j \in 1 .. Len(a) + Len(b) /\ j <= Len(a)
      BY <1>2, <1>5, <1>9, <1>11
    <2> QED
      BY <1>5, <1>8, <2>1
  <1>12. ASSUME NEW j \in 1 .. n - 1, ~(j < i)
         PROVE  t[j] = s[j + 1]
    <2>1. j \in 1 .. Len(a) + Len(b) /\ ~(j <= Len(a))
      BY <1>2, <1>5, <1>9, <1>12
    <2>2. PICK k \in 1 .. n - i : k = j - Len(a) /\ i + k = j + 1
      <3>1. j - Len(a) \in 1 .. n - i /\ i + (j - Len(a)) = j + 1
        BY <1>2, <1>5, <1>12
      <3> QED
        BY <3>1
    <2>3. t[j] = b[k] /\ i + k = j + 1
      BY <1>8, <2>1, <2>2
    <2> QED
      BY <1>6, <2>3
  <1>13. ASSUME NEW j \in 1 .. n - 1
         PROVE  \E k \in 1 .. n : k # i /\ t[j] = s[k]
    <2>1. CASE j < i
      BY <1>2, <1>11, <2>1, SMTT(25)
    <2>2. CASE ~(j < i)
      <3>1. j + 1 \in 1 .. n /\ j + 1 # i
        BY <1>2, <2>2
      <3> QED
        BY <1>12, <2>2, <3>1
    <2> QED
      BY <2>1, <2>2
  <1>14. ASSUME NEW k \in 1 .. n, k # i
         PROVE  \E j \in 1 .. n - 1 : t[j] = s[k]
    <2>1. CASE k < i
      <3>1. k \in 1 .. n - 1
        BY <1>2, <2>1
      <3> QED
        BY <1>11, <2>1, <3>1
    <2>2. CASE k > i
      <3>1. PICK j \in 1 .. n - 1 : ~(j < i) /\ j + 1 = k
        <4>1. k - 1 \in 1 .. n - 1 /\ ~(k - 1 < i) /\ (k - 1) + 1 = k
          BY <1>2, <2>2
        <4> QED
          BY <4>1
      <3> QED
        BY <1>12, <3>1
    <2> QED
      BY <1>2, <1>14, <2>1, <2>2, SMTT(25)
  <1>15. t \in Seq(S) /\ Len(t) = Len(s) - 1 /\ Len(t) \in Nat
    BY <1>1, <1>8, <1>9, <1>10
  <1>16. \A j \in DOMAIN t : \E k \in DOMAIN s : k # i /\ t[j] = s[k]
    BY <1>2, <1>10, <1>13
  <1>17. \A k \in DOMAIN s : k # i => \E j \in DOMAIN t : t[j] = s[k]
    BY <1>2, <1>10, <1>14
  <1> QED
    BY <1>15, <1>16, <1>17 DEF LacksOne

(* At the start there is no panel.                                         *)
LEMMA TabInvStart == TabsInit => TabInv
  <1> SUFFICES ASSUME TabsInit PROVE TabInv
    OBVIOUS
  <1>1. 0 \in 0 .. MaxTabs /\ 1 \in 1 .. MaxTabs + 1
    BY TabBounds
  <1>2. TabsTypeOK
    BY <1>1, EmptySeq DEF TabsInit, TabsTypeOK
  <1> QED
    BY <1>2 DEF TabsInit, TabInv

LEMMA CloseStep ==
  ASSUME TabInv, NEW i \in DOMAIN pages, CloseTab(i)
  PROVE  TabInv'
  <1> DEFINE nx == SubSeq(pages, 1, i - 1) \o SubSeq(pages, i + 1, Len(pages))
  <1>1. PICK left : left = nx
    OBVIOUS
  <1>2. /\ left \in Seq(Tab) /\ Len(left) = Len(pages) - 1 /\ Len(left) \in Nat
        /\ \A j \in DOMAIN left : \E k \in DOMAIN pages : k # i /\ left[j] = pages[k]
        /\ \A k \in DOMAIN pages : k # i => \E j \in DOMAIN left : left[j] = pages[k]
    <2>1. pages \in Seq(Tab)
      BY TabsTyped
    <2>2. left = SubSeq(pages, 1, i - 1) \o SubSeq(pages, i + 1, Len(pages))
      BY <1>1
    <2> HIDE DEF nx
    <2>3. i \in DOMAIN pages
      OBVIOUS
    <2>4. left \in Seq(Tab) /\ LacksOne(pages, i, left)
      BY <2>1, <2>2, <2>3, WithoutOne
    <2> QED
      BY <2>4 DEF LacksOne
  <1>3. UNCHANGED <<shownPanel, loading, page, failed, reported>> /\ shownPanel
    BY DEF CloseTab
  <1>4. CASE left = <<>>
    <2>1. /\ tabCounter <= MaxTabs /\ tabCounter' = tabCounter + 1
          /\ pages' = <<[id |-> tabCounter, url |-> Home]>>
          /\ UNCHANGED <<activeTab, asked>>
      BY <1>1, <1>4 DEF CloseTab
    <2>2. pages' \in Seq(Tab) /\ Len(pages') = 1 /\ pages' # <<>> /\ DOMAIN pages' = {1}
      <3>1. [id |-> tabCounter, url |-> Home] \in Tab
        BY <2>1, TabsTyped DEF Tab, Addresses
      <3> QED
        BY <2>1, <3>1
    <2>3. pages'[1].id = tabCounter /\ tabCounter # activeTab
      BY <2>1, TabsTyped DEF TabInv
    <2>4. TabsTypeOK'
      BY <1>3, <2>1, <2>2, TabsTyped DEF TabInv, TabsTypeOK, Tab, Addresses
    <2> QED
      BY <1>3, <2>1, <2>2, <2>3, <2>4, TabsTyped DEF TabInv
  <1>5. CASE left # <<>> /\ pages[i].id = activeTab
    <2>1. PICK j : j = IF i <= Len(left) THEN i ELSE Len(left)
      OBVIOUS
    <2>2. /\ pages' = left /\ activeTab' = left[j].id
          /\ asked' = Append(asked, left[j].url) /\ UNCHANGED tabCounter
      BY <1>1, <1>5, <2>1 DEF CloseTab, BrowserNavigate
    <2>3. j \in DOMAIN left
      <3>1. Len(left) # 0
        BY <1>2, <1>5, EmptySeq
      <3> QED
        BY <1>2, <2>1, <3>1
    <2>4. left[j] \in Tab
      BY <1>2, <2>3
    <2>5. /\ asked' \in Seq(Addresses) /\ asked' # <<>>
      BY <2>2, <2>4, TabsTyped, LastOf, SMTT(25) DEF Tab, Addresses
    <2>6. TabsTypeOK'
      BY <1>2, <1>3, <1>5, <2>2, <2>4, <2>5, TabsTyped DEF TabInv, TabsTypeOK, Tab, Addresses
    <2>7. activeTab' \in TabIds'
      BY <2>2, <2>3 DEF TabIds
    <2>8. \E k \in DOMAIN pages : activeTab' = pages[k].id
      BY <1>2, <2>2, <2>3
    <2>9. \A k \in DOMAIN pages' : pages'[k].id < tabCounter'
      BY <1>2, <2>2 DEF TabInv
    <2> QED
      BY <1>3, <2>2, <2>5, <2>6, <2>7, <2>8, <2>9 DEF TabInv
  <1>6. CASE left # <<>> /\ pages[i].id # activeTab
    <2>2. /\ pages' = left /\ UNCHANGED <<activeTab, asked, tabCounter>>
      BY <1>1, <1>6 DEF CloseTab
    <2>3. TabsTypeOK'
      BY <1>2, <1>3, <1>6, <2>2, TabsTyped DEF TabInv, TabsTypeOK, Tab, Addresses
    <2>4. \A j \in DOMAIN pages' : \E k \in DOMAIN pages : pages'[j] = pages[k]
      BY <1>2, <2>2
    <2>5. activeTab' \in TabIds'
      <3>1. Len(pages) # 1
        BY <1>2, <1>6, EmptySeq
      <3>2. PICK k \in DOMAIN pages : pages[k].id = activeTab
        BY <1>3, <3>1 DEF TabInv, TabIds
      <3>3. k # i
        BY <1>6, <3>2
      <3>4. PICK j \in DOMAIN left : left[j] = pages[k]
        BY <1>2, <3>3
      <3> QED
        BY <2>2, <3>2, <3>4 DEF TabIds
    <2> QED
      BY <1>3, <2>2, <2>3, <2>4, <2>5 DEF TabInv
  <1> QED
    BY <1>4, <1>5, <1>6

LEMMA TabInvStep ==
  ASSUME TabInv, [TabsNext]_tabVars
  PROVE  TabInv'
  <1>1. CASE MountPanel
    <2>1. /\ shownPanel' = TRUE /\ activeTab' = 0 /\ pages' = <<[id |-> 0, url |-> Home]>>
          /\ asked' = Append(asked, Home)
          /\ UNCHANGED <<tabCounter, loading, page, failed, reported>>
      BY <1>1 DEF MountPanel, BrowserNavigate
    <2>2. [id |-> 0, url |-> Home] \in Tab
      BY TabsTyped DEF Tab, Addresses
    <2>3. pages' \in Seq(Tab) /\ Len(pages') = 1 /\ pages' # <<>>
      BY <2>1, <2>2
    <2>4. asked' \in Seq(Addresses) /\ asked' # <<>>
      BY <2>1, TabsTyped, LastOf
    <2>5. TabsTypeOK'
      BY <2>1, <2>3, <2>4, TabsTyped DEF TabInv, TabsTypeOK, Tab, Addresses
    <2> QED
      BY <2>1, <2>3, <2>4, <2>5, TabsTyped DEF TabInv
  <1>2. CASE UnmountPanel
    <2>1. /\ shownPanel' = FALSE /\ pages' = <<>> /\ activeTab' = 0
          /\ UNCHANGED <<tabCounter, asked, loading, page, failed, reported>>
      BY <1>2 DEF UnmountPanel
    <2>2. pages' \in Seq(Tab) /\ DOMAIN pages' = {} /\ 0 \in 0 .. MaxTabs
      BY <2>1, TabsTyped
    <2>3. TabsTypeOK'
      BY <2>1, <2>2, TabsTyped DEF TabInv, TabsTypeOK, Tab, Addresses
    <2> QED
      BY <2>1, <2>2, <2>3, TabsTyped DEF TabInv
  <1>3. ASSUME NEW url \in Pages, Navigate(url)
        PROVE  TabInv'
    <2>1. /\ pages' = WithUrl(activeTab, url) /\ asked' = Append(asked, url)
          /\ UNCHANGED <<shownPanel, activeTab, tabCounter, loading, page, failed, reported>>
          /\ shownPanel
      BY <1>3 DEF Navigate, BrowserNavigate
    <2>2. asked' \in Seq(Addresses) /\ asked' # <<>>
      BY <2>1, TabsTyped, LastOf
    <2>3. /\ pages' \in Seq(Tab) /\ Len(pages') = Len(pages)
          /\ \A i \in DOMAIN pages : pages'[i].id = pages[i].id
      BY <2>1, TabsTyped, WithUrlIs
    <2>4. pages' # <<>> /\ DOMAIN pages' = DOMAIN pages
      BY <2>1, <2>3, TabsTyped, EmptySeq
    <2>5. TabIds' = TabIds
      BY <2>3, <2>4 DEF TabIds
    <2>6. TabsTypeOK'
      BY <2>1, <2>2, <2>3, <2>4, TabsTyped DEF TabInv, TabsTypeOK, Tab, Addresses
    <2> QED
      BY <2>1, <2>2, <2>3, <2>5, <2>6, SMTT(25) DEF TabInv
  <1>4. CASE AddTab
    <2>1. /\ tabCounter <= MaxTabs /\ tabCounter' = tabCounter + 1 /\ activeTab' = tabCounter
          /\ pages' = Append(pages, [id |-> tabCounter, url |-> Home])
          /\ asked' = Append(asked, Home) /\ shownPanel
          /\ UNCHANGED <<shownPanel, loading, page, failed, reported>>
      BY <1>4 DEF AddTab, BrowserNavigate
    <2>2. asked' \in Seq(Addresses) /\ asked' # <<>>
      BY <2>1, TabsTyped, LastOf
    <2>3. [id |-> tabCounter, url |-> Home] \in Tab
      BY <2>1, TabsTyped DEF Tab, Addresses
    <2>4. /\ pages' \in Seq(Tab) /\ pages' # <<>> /\ Len(pages') \in DOMAIN pages'
          /\ pages'[Len(pages')].id = tabCounter
      <3>1. pages' \in Seq(Tab) /\ pages' # <<>> /\ pages'[Len(pages')] = [id |-> tabCounter, url |-> Home]
        BY <2>1, <2>3, TabsTyped, LastOf
      <3>2. Len(pages') \in DOMAIN pages'
        BY <3>1, EmptySeq
      <3> QED
        BY <3>1, <3>2
    <2>5. activeTab' \in TabIds'
      BY <2>1, <2>4 DEF TabIds
    <2>7. \A i \in DOMAIN pages' : pages'[i].id < tabCounter'
      <3>1. \A i \in DOMAIN pages' : IF i \in DOMAIN pages THEN pages'[i] = pages[i]
                                     ELSE pages'[i] = [id |-> tabCounter, url |-> Home]
        BY <2>1, <2>3, TabsTyped, AppendProperties
      <3>2. \A i \in DOMAIN pages : pages[i] \in Tab
        BY TabsTyped
      <3>3. \A i \in DOMAIN pages : pages[i].id < tabCounter /\ pages[i].id \in Nat
        BY <3>2 DEF TabInv, Tab
      <3> QED
        BY <2>1, <3>1, <3>3, TabsTyped
    <2>6. TabsTypeOK'
      <3>1. /\ shownPanel' \in BOOLEAN /\ (shownPanel' <=> pages' # <<>>)
            /\ loading' \in AllPages \cup {Blank, Idle} /\ page' \in AllPages \cup {Blank}
            /\ reported' \in Seq(AllPages \cup {Blank})
        BY <2>1, <2>4 DEF TabInv, TabsTypeOK
      <3>2. activeTab' \in 0 .. MaxTabs /\ tabCounter' \in 1 .. MaxTabs + 1
        BY <2>1, TabsTyped
      <3> QED
        BY <2>2, <2>4, <3>1, <3>2 DEF TabsTypeOK, Tab, Addresses
    <2> QED
      BY <2>1, <2>2, <2>5, <2>6, <2>7, TabsTyped, SMTT(25) DEF TabInv
  <1>5. ASSUME NEW i \in DOMAIN pages, SelectTab(i)
        PROVE  TabInv'
    <2>1. /\ activeTab' = pages[i].id /\ asked' = Append(asked, pages[i].url) /\ shownPanel
          /\ UNCHANGED <<shownPanel, pages, tabCounter, loading, page, failed, reported>>
      BY <1>5 DEF SelectTab, BrowserNavigate
    <2>2. pages[i] \in Tab
      BY TabsTyped
    <2>3. asked' \in Seq(Addresses) /\ asked' # <<>>
      BY <2>1, <2>2, TabsTyped, LastOf DEF Tab, Addresses
    <2>4. activeTab' \in TabIds'
      BY <2>1 DEF TabIds
    <2>6. TabsTypeOK'
      BY <2>1, <2>2, <2>3, TabsTyped DEF TabInv, TabsTypeOK, Tab, Addresses
    <2> QED
      BY <2>1, <2>3, <2>4, <2>6, TabsTyped DEF TabInv
  <1>6. ASSUME NEW i \in DOMAIN pages, CloseTab(i)
        PROVE  TabInv'
    BY <1>6, CloseStep
  <1>7. CASE TakeReport
    <2>1. /\ reported # <<>> /\ reported' = Tail(reported)
          /\ pages' = WithUrl(activeTab, Head(reported))
          /\ UNCHANGED <<shownPanel, activeTab, tabCounter, asked, loading, page, failed>>
      BY <1>7 DEF TakeReport
    <2>2. /\ Head(reported) \in Addresses /\ reported' \in Seq(Addresses)
          /\ reported' # <<>> => reported'[Len(reported')] = reported[Len(reported)]
          /\ reported' = <<>> => Head(reported) = reported[Len(reported)]
      BY <2>1, TabsTyped, FirstTaken
    <2>3. /\ pages' \in Seq(Tab) /\ Len(pages') = Len(pages)
          /\ \A i \in DOMAIN pages :
               /\ pages'[i].id = pages[i].id
               /\ pages'[i].url = IF pages[i].id = activeTab THEN Head(reported) ELSE pages[i].url
      BY <2>1, <2>2, TabsTyped, WithUrlIs, SMTT(25)
    <2>4. (pages' # <<>> <=> pages # <<>>) /\ DOMAIN pages' = DOMAIN pages
      BY <2>1, <2>3, TabsTyped, EmptySeq
    <2>5. TabIds' = TabIds
      BY <2>3, <2>4 DEF TabIds
    <2>6. TabsTypeOK'
      BY <2>1, <2>2, <2>3, <2>4, TabsTyped DEF TabInv, TabsTypeOK, Tab, Addresses
    <2>7. reported' = <<>> /\ ~failed => Head(reported) = page
      BY <2>1, <2>2 DEF TabInv
    <2> QED
      BY <2>1, <2>2, <2>3, <2>4, <2>5, <2>6, <2>7 DEF TabInv
  <1>8. CASE HandleNavigate
    <2>1. /\ asked # <<>> /\ loading' = Head(asked) /\ asked' = Tail(asked)
          /\ UNCHANGED <<shownPanel, pages, activeTab, tabCounter, page, failed, reported>>
      BY <1>8 DEF HandleNavigate
    <2>2. Head(asked) \in Addresses /\ asked' \in Seq(Addresses)
      BY <2>1, TabsTyped, FirstTaken
    <2>3. loading' # Idle
      BY <2>1, <2>2, TabsTyped
    <2>4. TabIds' = TabIds
      BY <2>1 DEF TabIds
    <2>6. TabsTypeOK'
      BY <2>1, <2>2, TabsTyped DEF TabInv, TabsTypeOK, Tab, Addresses
    <2> QED
      BY <2>1, <2>3, <2>4, <2>6 DEF TabInv
  <1>9. CASE ViewFails
    <2>1. /\ loading # Idle /\ page' = loading /\ loading' = Idle /\ failed' = TRUE
          /\ UNCHANGED <<shownPanel, pages, activeTab, tabCounter, asked, reported>>
      BY <1>9 DEF ViewFails
    <2>4. TabIds' = TabIds
      BY <2>1 DEF TabIds
    <2>6. TabsTypeOK'
      BY <2>1, TabsTyped DEF TabInv, TabsTypeOK, Tab, Addresses
    <2> QED
      BY <2>1, <2>4, <2>6 DEF TabInv
  <1>10. ASSUME NEW url \in Addresses, ViewNavigates(url)
         PROVE  TabInv'
    <2>1. /\ page' = url /\ loading' = Idle /\ failed' = FALSE /\ reported' = Append(reported, url)
          /\ UNCHANGED <<shownPanel, pages, activeTab, tabCounter, asked>>
      BY <1>10 DEF ViewNavigates
    <2>2. /\ reported' \in Seq(Addresses) /\ reported' # <<>>
          /\ reported'[Len(reported')] = url
      BY <2>1, TabsTyped, LastOf
    <2>4. TabIds' = TabIds
      BY <2>1 DEF TabIds
    <2>6. TabsTypeOK'
      BY <2>1, <2>2, TabsTyped DEF TabInv, TabsTypeOK, Tab, Addresses
    <2> QED
      BY <2>1, <2>2, <2>4, <2>6 DEF TabInv
  <1>11. CASE UNCHANGED tabVars
    BY <1>11 DEF tabVars, TabInv, TabsTypeOK, TabIds
  <1> QED
    BY <1>1, <1>2, <1>3, <1>4, <1>5, <1>6, <1>7, <1>8, <1>9, <1>10, <1>11 DEF TabsNext, Addresses

LEMMA TabInvGives == TabInv => ActiveTabShowsThePage
  BY DEF TabInv, ActiveTabShowsThePage

(* Whatever tabs the user opens, closes, selects and loads, and however    *)
(* late the view reports where it went: once all is done the active tab    *)
(* bears the address of the page in the one view they share.               *)
THEOREM TheTabBearsItsPage == TabsSpec => []ActiveTabShowsThePage
  BY TabInvStart, TabInvStep, TabInvGives, PTL DEF TabsSpec

-------------------------------------------------------------------------------
(* MissionView                                                             *)

Numbers == 0 .. MaxEmits
EventKinds == {"snapshot", "status"}
MissionMessages == [kind : EventKinds \cup {"state_answer", "status_answer"}, no : Numbers]
MissionEvents == [kind : EventKinds, no : Numbers]

(* The store and what TakeMessage keeps beside it, as a state; a flag is 0 *)
(* or 1.                                                                   *)
StoreStates == (0 .. NotHeld) \X Numbers \X (0 .. NotHeld) \X {0, 1}
Flag(b) == IF b THEN 1 ELSE 0
StoreNow == <<missionControl, missionControlStatus, heldState, Flag(raced)>>

(* What a subscribed page makes of a message.                              *)
Taken(s, m) ==
  CASE m.kind = "snapshot"      -> <<m.no, s[2], s[3], Flag(s[3] # NotHeld)>>
    [] m.kind = "status"        -> <<s[1], m.no, s[3], s[4]>>
    [] m.kind = "state_answer"  -> <<s[1], s[2], m.no, s[4]>>
    [] m.kind = "status_answer" -> <<s[3], m.no, NotHeld, s[4]>>

Take == [x \in StoreStates \X MissionMessages |-> Taken(x[1], x[2])]

LEMMA TakeIs ==
  ASSUME NEW s \in StoreStates, NEW m \in MissionMessages
  PROVE  Take[<<s, m>>] = Taken(s, m)
  BY DEF Take

(* Once all is taken: before the answers nothing is held, between them the *)
(* manager's snapshot is, after them it is shown with the status.          *)
WillShow(r) ==
  /\ viewAsks = Asks => r[3] = NotHeld
  /\ viewAsks = <<"getStatus">> => r[3] \in Numbers /\ (r[4] = 0 => r[3] = snapshotNo)
  /\ viewAsks = <<>> => r[3] = NotHeld /\ r[2] = statusNo /\ (r[4] = 0 => r[1] = snapshotNo)

MissionInv ==
  /\ MaxEmits \in Nat /\ snapshotNo \in Numbers /\ statusNo \in Numbers /\ snapshotNo <= statusNo
  /\ StoreNow \in StoreStates /\ raced \in BOOLEAN /\ subscribed \in BOOLEAN
  /\ toPage \in Seq(MissionMessages)
  /\ ~subscribed => viewAsks = <<>> /\ heldState = NotHeld /\ toPage \in Seq(MissionEvents)
  /\ subscribed => /\ viewAsks \in {Asks, <<"getStatus">>, <<>>}
                   /\ \E r \in StoreStates : Leads(Take, StoreNow, toPage, r) /\ WillShow(r)

LEMMA TakenIs ==
  ASSUME MaxEmits \in Nat, NEW s \in StoreStates, NEW n \in Numbers
  PROVE  /\ Taken(s, Message("snapshot", n)) = <<n, s[2], s[3], Flag(s[3] # NotHeld)>>
         /\ Taken(s, Message("status", n)) = <<s[1], n, s[3], s[4]>>
         /\ Taken(s, Message("state_answer", n)) = <<s[1], s[2], n, s[4]>>
         /\ Taken(s, Message("status_answer", n)) = <<s[3], n, NotHeld, s[4]>>
  BY DEF Taken, Message

LEMMA MessagesTyped ==
  ASSUME NEW n \in Numbers
  PROVE  /\ {Message("snapshot", n), Message("status", n)} \subseteq MissionEvents
         /\ {Message("snapshot", n), Message("status", n), Message("state_answer", n),
             Message("status_answer", n)} \subseteq MissionMessages
  BY DEF Message, MissionEvents, MissionMessages, EventKinds

LEMMA EventsAreMessages == MissionEvents \subseteq MissionMessages
  BY DEF MissionEvents, MissionMessages, EventKinds

LEMMA TakenTyped ==
  ASSUME MaxEmits \in Nat, NEW s \in StoreStates, NEW m \in MissionMessages
  PROVE  Taken(s, m) \in StoreStates
  <1>1. /\ s[1] \in 0 .. NotHeld /\ s[2] \in Numbers /\ s[3] \in 0 .. NotHeld /\ s[4] \in {0, 1}
        /\ m.no \in Numbers /\ m.no \in 0 .. NotHeld /\ NotHeld \in 0 .. NotHeld
        /\ m.kind \in EventKinds \cup {"state_answer", "status_answer"}
    BY DEF StoreStates, MissionMessages, NotHeld, Numbers
  <1>2. Flag(s[3] # NotHeld) \in {0, 1}
    BY DEF Flag
  <1> HIDE DEF NotHeld, Numbers, Flag
  <1>3. CASE m.kind = "snapshot"
    BY <1>1, <1>2, <1>3 DEF Taken, StoreStates
  <1>4. CASE m.kind = "status"
    BY <1>1, <1>4 DEF Taken, StoreStates
  <1>5. CASE m.kind = "state_answer"
    BY <1>1, <1>5 DEF Taken, StoreStates
  <1>6. CASE m.kind = "status_answer"
    BY <1>1, <1>6 DEF Taken, StoreStates
  <1> QED
    BY <1>1, <1>3, <1>4, <1>5, <1>6 DEF EventKinds

(* What was emitted before the page subscribed is taken with nothing held. *)
LEMMA EventsHoldNothing ==
  ASSUME MaxEmits \in Nat, NEW p \in StoreStates, p[3] = NotHeld, NEW q \in Seq(MissionEvents)
  PROVE  \E r \in StoreStates : Leads(Take, p, q, r) /\ r[3] = NotHeld
  <1> DEFINE S == {s \in StoreStates : s[3] = NotHeld}
  <1>1. ASSUME NEW s \in S, NEW m \in MissionEvents
        PROVE  Take[<<s, m>>] \in S
    <2>1. m \in MissionMessages /\ m.kind \in EventKinds
      BY EventsAreMessages DEF MissionEvents
    <2>2. Take[<<s, m>>] = Taken(s, m) /\ Taken(s, m) \in StoreStates
      BY <2>1, TakeIs, TakenTyped
    <2>3. Taken(s, m)[3] = NotHeld
      BY <2>1 DEF Taken, EventKinds
    <2> QED
      BY <2>2, <2>3
  <1>2. p \in S
    OBVIOUS
  <1> HIDE DEF S
  <1>3. PICK r \in S : Leads(Take, p, q, r)
    BY <1>1, <1>2, LeadsWithin
  <1> QED
    BY <1>3 DEF S

LEMMA MissionInvStart == MissionInit => MissionInv
  <1> SUFFICES ASSUME MissionInit PROVE MissionInv
    OBVIOUS
  <1>1. MaxEmits \in Nat /\ 0 \in Numbers /\ NotHeld \in 0 .. NotHeld /\ 0 \in 0 .. NotHeld
    BY ViewBounds DEF Numbers, NotHeld
  <1>2. <<>> \in Seq(MissionMessages) /\ <<>> \in Seq(MissionEvents)
    OBVIOUS
  <1>3. Flag(raced) = 0 /\ raced \in BOOLEAN /\ subscribed = FALSE
    BY DEF MissionInit, Flag
  <1>4. StoreNow \in StoreStates
    BY <1>1, <1>3 DEF MissionInit, StoreNow, StoreStates
  <1>5. snapshotNo = 0 /\ statusNo = 0 /\ toPage = <<>> /\ viewAsks = <<>> /\ heldState = NotHeld
    BY DEF MissionInit
  <1>6. snapshotNo \in Numbers /\ statusNo \in Numbers /\ snapshotNo <= statusNo
    BY <1>1, <1>5
  <1>7. toPage \in Seq(MissionMessages) /\ toPage \in Seq(MissionEvents)
    BY <1>2, <1>5
  <1> QED
    BY <1>1, <1>3, <1>4, <1>5, <1>6, <1>7 DEF MissionInv

(* Nothing is shown yet of what a step sends to the page.                  *)
LEMMA EmitStep ==
  ASSUME MissionInv, Emit
  PROVE  MissionInv'
  <1>1. /\ MaxEmits \in Nat /\ statusNo' = statusNo + 1 /\ statusNo' \in Numbers
        /\ UNCHANGED <<StoreNow, raced, subscribed, viewAsks, heldState>>
    BY DEF Emit, MissionInv, missionStore, StoreNow, Numbers
  <1>2. PICK n, k : n = statusNo' /\ k = snapshotNo'
    OBVIOUS
  <1>3. CASE snapshotNo' = snapshotNo + 1
    <2>1. k \in Numbers /\ n \in Numbers /\ k <= n
      BY <1>1, <1>2, <1>3 DEF Emit, MissionInv, Numbers
    <2>2. PICK both : both = {Message("snapshot", k), Message("status", n)}
      OBVIOUS
    <2>3. PICK a \in both, b \in both : a # b /\ toPage' = toPage \o <<a, b>>
      <3>1. snapshotNo' # snapshotNo
        BY <1>3 DEF MissionInv, Numbers
      <3> QED
        BY <1>2, <2>2, <3>1 DEF Emit
    <2>4. a \in MissionEvents /\ b \in MissionEvents /\ a \in MissionMessages /\ b \in MissionMessages
      BY <2>1, <2>2, <2>3, MessagesTyped, EventsAreMessages
    <2>5. \/ a = Message("snapshot", k) /\ b = Message("status", n)
          \/ a = Message("status", n) /\ b = Message("snapshot", k)
      BY <2>2, <2>3
    <2>6. toPage' \in Seq(MissionMessages)
      BY <2>3, <2>4 DEF MissionInv
    <2>7. ~subscribed => toPage' \in Seq(MissionEvents)
      BY <2>3, <2>4 DEF MissionInv
    <2>8. ASSUME NEW r \in StoreStates, Leads(Take, StoreNow, toPage, r), WillShow(r)
          PROVE  \E c \in StoreStates : Leads(Take, StoreNow, toPage', c) /\ WillShow(c)'
      <3>1. PICK p, q : q \in Seq(MissionMessages) /\ p = StoreNow /\ q = toPage /\ Leads(Take, p, q, r)
        BY <2>8 DEF MissionInv
      <3>2. PICK c : c = Taken(Taken(r, a), b)
        OBVIOUS
      <3>3. Taken(r, a) \in StoreStates /\ c \in StoreStates
        BY <1>1, <2>4, <3>2, TakenTyped
      <3>4. /\ Take[<<r, a>>] = Taken(r, a)
            /\ Take[<<Taken(r, a), b>>] = c
        BY <2>4, <3>2, <3>3, TakeIs
      <3>5. Leads(Take, p, q \o <<a, b>>, Take[<<Take[<<r, a>>], b>>])
        BY <2>4, <3>1, LeadsOnTwice
      <3>6. Leads(Take, StoreNow, toPage', c)
        BY <2>3, <3>1, <3>4, <3>5
      <3>7. c[1] = k /\ c[2] = n /\ c[3] = r[3] /\ c[4] = Flag(r[3] # NotHeld)
        <4>1. CASE a = Message("snapshot", k) /\ b = Message("status", n)
          <5>1. PICK d \in StoreStates : d = <<k, r[2], r[3], Flag(r[3] # NotHeld)>> /\ d = Taken(r, a)
            BY <1>1, <2>1, <3>3, <4>1, TakenIs
          <5>2. c = <<d[1], n, d[3], d[4]>>
            BY <1>1, <2>1, <3>2, <4>1, <5>1, TakenIs
          <5> QED
            BY <5>1, <5>2
        <4>2. CASE a = Message("status", n) /\ b = Message("snapshot", k)
          <5>1. PICK d \in StoreStates : d = <<r[1], n, r[3], r[4]>> /\ d = Taken(r, a)
            BY <1>1, <2>1, <3>3, <4>2, TakenIs
          <5>2. c = <<k, d[2], d[3], Flag(d[3] # NotHeld)>>
            BY <1>1, <2>1, <3>2, <4>2, <5>1, TakenIs
          <5> QED
            BY <5>1, <5>2
        <4> QED
          BY <2>5, <4>1, <4>2
      <3>8. NotHeld \notin Numbers
        BY <1>1 DEF NotHeld, Numbers
      <3>9. WillShow(c)'
        BY <1>1, <1>2, <2>8, <3>7, <3>8 DEF WillShow, Flag
      <3> QED
        BY <3>3, <3>6, <3>9
    <2> QED
      BY <1>1, <1>2, <2>1, <2>6, <2>7, <2>8 DEF MissionInv
  <1>4. CASE UNCHANGED snapshotNo
    <2>1. k \in Numbers /\ n \in Numbers /\ k <= n
      BY <1>1, <1>2, <1>4 DEF MissionInv, Numbers
    <2>2. PICK a : a = Message("status", n)
      OBVIOUS
    <2>3. toPage' = Append(toPage, a)
      <3>1. snapshotNo' # snapshotNo + 1
        BY <1>4 DEF MissionInv, Numbers
      <3> QED
        BY <1>2, <2>2, <3>1 DEF Emit
    <2>4. a \in MissionEvents /\ a \in MissionMessages
      BY <2>1, <2>2, MessagesTyped
    <2>6. toPage' \in Seq(MissionMessages)
      BY <2>3, <2>4 DEF MissionInv
    <2>7. ~subscribed => toPage' \in Seq(MissionEvents)
      BY <2>3, <2>4 DEF MissionInv
    <2>8. ASSUME NEW r \in StoreStates, Leads(Take, StoreNow, toPage, r), WillShow(r)
          PROVE  \E c \in StoreStates : Leads(Take, StoreNow, toPage', c) /\ WillShow(c)'
      <3>1. PICK p, q : q \in Seq(MissionMessages) /\ p = StoreNow /\ q = toPage /\ Leads(Take, p, q, r)
        BY <2>8 DEF MissionInv
      <3>2. PICK c : c = Taken(r, a)
        OBVIOUS
      <3>3. c \in StoreStates /\ Take[<<r, a>>] = c
        BY <1>1, <2>4, <3>2, TakenTyped, TakeIs
      <3>5. Leads(Take, p, Append(q, a), Take[<<r, a>>])
        BY <2>4, <3>1, LeadsOn
      <3>6. Leads(Take, StoreNow, toPage', c)
        BY <2>3, <3>1, <3>3, <3>5
      <3>7. c = <<r[1], n, r[3], r[4]>>
        BY <1>1, <2>1, <2>2, <3>2, TakenIs
      <3>9. WillShow(c)'
        BY <1>1, <1>2, <1>4, <2>8, <3>7 DEF WillShow
      <3> QED
        BY <3>3, <3>6, <3>9
    <2> QED
      BY <1>1, <1>2, <2>1, <2>6, <2>7, <2>8 DEF MissionInv
  <1> QED
    BY <1>3, <1>4 DEF Emit

LEMMA SubscribeStep ==
  ASSUME MissionInv, Subscribe
  PROVE  MissionInv'
  <1>1. /\ ~subscribed /\ subscribed' = TRUE /\ viewAsks' = Asks
        /\ UNCHANGED <<snapshotNo, statusNo, StoreNow, raced, toPage, heldState>>
    BY DEF Subscribe, managerVars, missionStore, StoreNow
  <1>2. PICK p \in StoreStates, q \in Seq(MissionEvents) : p = StoreNow /\ q = toPage /\ p[3] = NotHeld
    BY <1>1 DEF MissionInv, StoreNow
  <1>3. PICK r \in StoreStates : Leads(Take, p, q, r) /\ r[3] = NotHeld
    BY <1>2, EventsHoldNothing DEF MissionInv
  <1>4. WillShow(r)'
    BY <1>1, <1>3 DEF WillShow, Asks
  <1>5. Leads(Take, StoreNow', toPage', r)
    BY <1>1, <1>2, <1>3
  <1> QED
    BY <1>1, <1>3, <1>4, <1>5 DEF MissionInv

LEMMA AnswerAskStep ==
  ASSUME MissionInv, AnswerAsk
  PROVE  MissionInv'
  <1>1. /\ viewAsks # <<>> /\ viewAsks' = Tail(viewAsks)
        /\ UNCHANGED <<snapshotNo, statusNo, StoreNow, raced, subscribed, heldState>>
    BY DEF AnswerAsk, managerVars, missionStore, StoreNow
  <1>2. subscribed /\ viewAsks \in {Asks, <<"getStatus">>}
    BY <1>1 DEF MissionInv
  <1>3. PICK r \in StoreStates : Leads(Take, StoreNow, toPage, r) /\ WillShow(r)
    BY <1>2 DEF MissionInv
  <1>4. PICK p, q : /\ p \in StoreStates /\ q \in Seq(MissionMessages) /\ p = StoreNow /\ q = toPage
                    /\ Leads(Take, p, q, r)
    BY <1>3 DEF MissionInv
  <1>5. PICK k, n : k = snapshotNo /\ n = statusNo /\ k \in Numbers /\ n \in Numbers
    BY DEF MissionInv
  <1>6. MaxEmits \in Nat
    BY DEF MissionInv
  <1>7. CASE viewAsks = Asks
    <2>1. viewAsks' = <<"getStatus">> /\ Head(viewAsks) = "getState"
      BY <1>1, <1>7 DEF Asks
    <2>2. PICK a \in MissionMessages : a = Message("state_answer", k)
      BY <1>5, MessagesTyped
    <2>3. toPage' = Append(q, a)
      BY <1>4, <1>5, <2>1, <2>2 DEF AnswerAsk
    <2>4. PICK c \in StoreStates : c = Taken(r, a) /\ Take[<<r, a>>] = c
      BY <1>6, TakenTyped, TakeIs
    <2>5. toPage' \in Seq(MissionMessages) /\ Leads(Take, p, toPage', Take[<<r, a>>])
      BY <1>4, <2>3, LeadsOn
    <2>6. c = <<r[1], r[2], k, r[4]>>
      BY <1>5, <1>6, <2>2, <2>4, TakenIs
    <2>7. WillShow(c)'
      <3>1. viewAsks' # Asks /\ viewAsks' # <<>>
        BY <2>1 DEF Asks
      <3>2. c[3] = k /\ k = snapshotNo' /\ k \in Numbers
        BY <1>1, <1>5, <2>6
      <3> QED
        BY <3>1, <3>2 DEF WillShow
    <2> QED
      BY <1>1, <1>2, <1>4, <2>1, <2>4, <2>5, <2>7 DEF MissionInv
  <1>8. CASE viewAsks = <<"getStatus">>
    <2>1. viewAsks' = <<>> /\ Head(viewAsks) = "getStatus"
      BY <1>1, <1>8
    <2>2. PICK a \in MissionMessages : a = Message("status_answer", n)
      BY <1>5, MessagesTyped
    <2>3. toPage' = Append(q, a)
      BY <1>4, <1>5, <2>1, <2>2 DEF AnswerAsk
    <2>4. PICK c \in StoreStates : c = Taken(r, a) /\ Take[<<r, a>>] = c
      BY <1>6, TakenTyped, TakeIs
    <2>5. toPage' \in Seq(MissionMessages) /\ Leads(Take, p, toPage', Take[<<r, a>>])
      BY <1>4, <2>3, LeadsOn
    <2>6. c = <<r[3], n, NotHeld, r[4]>>
      BY <1>5, <1>6, <2>2, <2>4, TakenIs
    <2>7. WillShow(c)'
      BY <1>1, <1>3, <1>5, <1>8, <2>1, <2>6 DEF WillShow, Asks
    <2> QED
      BY <1>1, <1>2, <1>4, <2>1, <2>4, <2>5, <2>7 DEF MissionInv
  <1> QED
    BY <1>2, <1>7, <1>8

(* The store becomes what Taken says.                                      *)
LEMMA TakeMessageIs ==
  ASSUME MissionInv, TakeMessage, subscribed
  PROVE  StoreNow' = Taken(StoreNow, Head(toPage)) /\ raced' \in BOOLEAN
  <1>1. PICK m \in MissionMessages : m = Head(toPage)
    BY HeadTailProperties DEF TakeMessage, MissionInv
  <1>2. m.kind \in EventKinds \cup {"state_answer", "status_answer"} /\ raced \in BOOLEAN
    BY DEF MissionMessages, MissionInv
  <1>3. CASE m.kind = "snapshot"
    <2>1. /\ missionControl' = m.no /\ UNCHANGED <<missionControlStatus, heldState>>
          /\ raced' = (heldState # NotHeld)
      BY <1>1, <1>3 DEF TakeMessage, SetMissionControl
    <2>2. Flag(raced') = Flag(heldState # NotHeld) /\ raced' \in BOOLEAN
      BY <2>1 DEF Flag
    <2> QED
      BY <1>1, <1>3, <2>1, <2>2 DEF StoreNow, Taken
  <1>4. CASE m.kind = "status"
    <2>1. missionControlStatus' = m.no /\ UNCHANGED <<missionControl, heldState, raced>>
      BY <1>1, <1>4 DEF TakeMessage, SetMissionControl
    <2> QED
      BY <1>1, <1>2, <1>4, <2>1 DEF StoreNow, Taken
  <1>5. CASE m.kind = "state_answer"
    <2>1. heldState' = m.no /\ UNCHANGED <<missionControl, missionControlStatus, raced>>
      BY <1>1, <1>5 DEF TakeMessage, missionStore
    <2> QED
      BY <1>1, <1>2, <1>5, <2>1 DEF StoreNow, Taken
  <1>6. CASE m.kind = "status_answer"
    <2>1. /\ heldState' = NotHeld /\ missionControl' = heldState /\ missionControlStatus' = m.no
          /\ UNCHANGED raced
      BY <1>1, <1>6 DEF TakeMessage, SetMissionControl
    <2> QED
      BY <1>1, <1>2, <1>6, <2>1 DEF StoreNow, Taken
  <1> QED
    BY <1>2, <1>3, <1>4, <1>5, <1>6 DEF EventKinds

LEMMA TakeMessageStep ==
  ASSUME MissionInv, TakeMessage
  PROVE  MissionInv'
  <1>1. /\ toPage # <<>> /\ toPage' = Tail(toPage)
        /\ UNCHANGED <<snapshotNo, statusNo, subscribed, viewAsks>>
    BY DEF TakeMessage, managerVars
  <1>2. PICK p \in StoreStates, q \in Seq(MissionMessages) : p = StoreNow /\ q = toPage /\ q # <<>>
    BY <1>1 DEF MissionInv
  <1>3. Head(q) \in MissionMessages /\ Tail(q) \in Seq(MissionMessages)
    BY <1>2, HeadTailProperties
  <1>4. CASE subscribed
    <2>1. PICK r \in StoreStates : Leads(Take, p, q, r) /\ WillShow(r)
      BY <1>2, <1>4 DEF MissionInv
    <2>2. Leads(Take, Take[<<p, Head(q)>>], Tail(q), r)
      BY <1>2, <2>1, LeadsFrom
    <2>3. StoreNow' = Taken(p, Head(q)) /\ raced' \in BOOLEAN
      BY <1>2, <1>4, TakeMessageIs
    <2>4. Take[<<p, Head(q)>>] = Taken(p, Head(q)) /\ Taken(p, Head(q)) \in StoreStates
      BY <1>3, TakeIs, TakenTyped DEF MissionInv
    <2>5. Leads(Take, StoreNow', toPage', r) /\ StoreNow' \in StoreStates
      BY <1>1, <1>2, <2>2, <2>3, <2>4
    <2>6. WillShow(r)'
      BY <1>1, <2>1 DEF WillShow
    <2> QED
      BY <1>1, <1>2, <1>3, <1>4, <2>1, <2>3, <2>5, <2>6 DEF MissionInv
  <1>5. CASE ~subscribed
    <2>1. Head(toPage) \in MissionEvents /\ Tail(toPage) \in Seq(MissionEvents)
      BY <1>1, <1>5, HeadTailProperties DEF MissionInv
    <2>2. Head(toPage).kind \in EventKinds
      BY <2>1 DEF MissionEvents
    <2>3. UNCHANGED <<missionControl, missionControlStatus, heldState, raced>>
      BY <1>5, <2>2 DEF TakeMessage, missionStore, EventKinds
    <2> QED
      BY <1>1, <1>2, <1>3, <1>5, <2>1, <2>3 DEF MissionInv, StoreNow
  <1> QED
    BY <1>4, <1>5

LEMMA LoadPageStep ==
  ASSUME MissionInv, LoadPage
  PROVE  MissionInv'
  <1>1. /\ subscribed' = FALSE /\ viewAsks' = <<>> /\ toPage' = <<>> /\ heldState' = NotHeld
        /\ missionControl' = 0 /\ missionControlStatus' = 0 /\ raced' = FALSE
        /\ UNCHANGED <<snapshotNo, statusNo>>
    BY DEF LoadPage, managerVars
  <1>2. MaxEmits \in Nat /\ 0 \in Numbers /\ NotHeld \in 0 .. NotHeld /\ 0 \in 0 .. NotHeld
    BY ViewBounds DEF Numbers, NotHeld
  <1>3. <<>> \in Seq(MissionMessages) /\ <<>> \in Seq(MissionEvents)
    OBVIOUS
  <1>4. Flag(raced') = 0 /\ raced' \in BOOLEAN
    BY <1>1 DEF Flag
  <1>5. StoreNow' \in StoreStates
    BY <1>1, <1>2, <1>4 DEF StoreNow, StoreStates
  <1> QED
    BY <1>1, <1>2, <1>3, <1>4, <1>5 DEF MissionInv

LEMMA MissionInvStep == MissionInv /\ [MissionNext]_missionVars => MissionInv'
  <1> SUFFICES ASSUME MissionInv, [MissionNext]_missionVars PROVE MissionInv'
    OBVIOUS
  <1>1. CASE UNCHANGED missionVars
    BY <1>1 DEF missionVars, managerVars, missionStore, MissionInv, StoreNow, WillShow
  <1>2. CASE MissionNext
    BY <1>2, EmitStep, SubscribeStep, AnswerAskStep, TakeMessageStep, LoadPageStep DEF MissionNext
  <1> QED
    BY <1>1, <1>2

LEMMA MissionInvGives == MissionInv => MissionIsShown
  <1> SUFFICES ASSUME MissionInv, subscribed, viewAsks = <<>>, toPage = <<>>
               PROVE  missionControlStatus = statusNo /\ (~raced => missionControl = snapshotNo)
    BY DEF MissionIsShown
  <1>1. PICK r \in StoreStates : Leads(Take, StoreNow, toPage, r) /\ WillShow(r)
    BY DEF MissionInv
  <1>2. r = StoreNow
    BY <1>1, NothingStays
  <1>3. r[1] = missionControl /\ r[2] = missionControlStatus /\ r[4] = Flag(raced)
    BY <1>2 DEF StoreNow
  <1> QED
    BY <1>1, <1>3 DEF WillShow, Flag

(* useMissionControlBridge: whenever a page subscribes, asks and is told,  *)
(* and however the bridge's lines come in between, it ends up showing the  *)
(* manager's status, and its snapshot unless one came between the answers. *)
THEOREM TheMissionIsShown == MissionSpec => []MissionIsShown
  BY MissionInvStart, MissionInvStep, MissionInvGives, PTL DEF MissionSpec

-------------------------------------------------------------------------------
(* Terminals                                                               *)

TermCalls == [op: {"create"}] \cup [op: {"kill"}, id: Shells] \cup [op: {"list"}, first: BOOLEAN]
TermAnswers == [op: {"created"}, id: Shells] \cup [op: {"killed"}]
                 \cup [op: {"listed"}, ids: Seq(Shells), first: BOOLEAN]
ShellLives == {"none", "alive", "leaving", "left", "killed", "gone"}

(* What is known to be listed again: a call for the list is open, or an    *)
(* answer that makes the renderer call for it.                             *)
ToBeListed == \/ \E i \in DOMAIN termCalls : termCalls[i].op = "list"
              \/ \E i \in DOMAIN termAnswers : termAnswers[i].op # "listed"

(* The list the store has once every answer has been handled.              *)
ListToCome == IF termAnswers = <<>> THEN listed ELSE termAnswers[Len(termAnswers)].ids

ListShows(ids) == /\ Known(terminals) \subseteq Known(ids)
                  /\ \A s \in Known(ids) \ Known(terminals) : shells[s] = "left"

TermTyped ==
  /\ ptyWorks \in BOOLEAN /\ panelOpen \in BOOLEAN /\ quitting \in BOOLEAN
  /\ shells \in [Shells -> ShellLives]
  /\ terminals \in Seq(Shells) /\ listed \in Seq(Shells)
  /\ activeId \in Shells \cup {0} /\ activeTerminal \in Shells \cup {0}
  /\ keysGoTo \in Shells \cup {0}
  /\ termCalls \in Seq(TermCalls) /\ termAnswers \in Seq(TermAnswers)

(* The manager's map holds each shell once, those that run and some that   *)
(* are about to be reported.                                               *)
MapOfShells ==
  /\ \A i, j \in DOMAIN terminals : terminals[i] = terminals[j] => i = j
  /\ \A s \in Shells : shells[s] = "alive" => s \in Known(terminals)
  /\ \A s \in Known(terminals) : shells[s] \in {"alive", "leaving"}
  /\ activeId # 0 => activeId \in Known(terminals)

(* Every terminal is listed or to be listed.                               *)
TabsFollow ==
  ~quitting /\ (panelOpen \/ termCalls # <<>> \/ termAnswers # <<>>) =>
    ToBeListed \/ ListShows(ListToCome)

TermInv == TermTyped /\ MapOfShells /\ TabsFollow

(* Deleting a key from the map.                                            *)
LEMMA WithoutIs ==
  ASSUME NEW ids \in Seq(Shells), NEW id, \A i, j \in DOMAIN ids : ids[i] = ids[j] => i = j
  PROVE  /\ Without(ids, id) \in Seq(Shells)
         /\ Known(Without(ids, id)) = Known(ids) \ {id}
         /\ \A i, j \in DOMAIN Without(ids, id) :
              Without(ids, id)[i] = Without(ids, id)[j] => i = j
  <1>1. CASE id \notin Known(ids)
    BY <1>1 DEF Without
  <1>2. CASE id \in Known(ids)
    <2>1. PICK k \in DOMAIN ids : k = (CHOOSE x \in DOMAIN ids : ids[x] = id) /\ ids[k] = id
      BY <1>2 DEF Known
    <2>2. PICK n \in Nat : n = Len(ids) /\ DOMAIN ids = 1 .. n
      OBVIOUS
    <2>3. PICK a \in Nat : k = a + 1 /\ a <= n /\ k - 1 = a
      <3>1. k \in 1 .. n
        BY <2>1, <2>2
      <3>2. k - 1 \in Nat /\ k = (k - 1) + 1 /\ k - 1 <= n
        BY <3>1
      <3> QED
        BY <3>2
    <2>4. PICK b \in Nat : n = (a + 1) + b
      <3>1. k \in 1 .. n
        BY <2>1, <2>2
      <3>2. n - (a + 1) \in Nat /\ n = (a + 1) + (n - (a + 1))
        BY <2>3, <3>1
      <3> QED
        BY <3>2
    <2>5. /\ DOMAIN ids = 1 .. (a + 1) + b /\ ids[a + 1] = id
          /\ \A i, j \in 1 .. (a + 1) + b : ids[i] = ids[j] => i = j
          /\ \A i \in 1 .. (a + 1) + b : ids[i] \in Shells
      BY <2>1, <2>2, <2>3, <2>4
    <2>6. PICK l : l = SubSeq(ids, 1, a)
      OBVIOUS
    <2>7. PICK r : r = SubSeq(ids, a + 2, (a + 1) + b)
      OBVIOUS
    <2>8. l \in Seq(Shells) /\ Len(l) = a /\ \A i \in 1 .. a : l[i] = ids[i]
      <3>1. \A i \in 1 .. a : i \in 1 .. (a + 1) + b /\ 1 + i - 1 = i
        OBVIOUS
      <3>2. \A i \in 1 .. a : ids[i] \in Shells
        BY <2>5, <3>1
      <3>3. 1 \in Int /\ a \in Int /\ (a - 1) + 1 = a /\ ~(1 <= a) => a = 0
        OBVIOUS
      <3>4. /\ l \in Seq(Shells) /\ Len(l) = (IF 1 <= a THEN (a - 1) + 1 ELSE 0)
            /\ \A i \in 1 .. (a - 1) + 1 : l[i] = ids[1 + i - 1]
        BY <2>6, <3>2, SubSeqProperties
      <3>5. Len(l) = a
        BY <3>4
      <3> QED
        BY <3>1, <3>4, <3>5
    <2>9. r \in Seq(Shells) /\ Len(r) = b /\ \A i \in 1 .. b : r[i] = ids[(a + 1) + i]
      <3>1. \A i \in (a + 2) .. (a + 1) + b : i \in 1 .. (a + 1) + b
        OBVIOUS
      <3>2. \A i \in (a + 2) .. (a + 1) + b : ids[i] \in Shells
        BY <2>5, <3>1
      <3>3. PICK m \in Int : m = a + 2
        OBVIOUS
      <3>4. PICK c \in Int : c = (a + 1) + b
        OBVIOUS
      <3>5. /\ r \in Seq(Shells) /\ Len(r) = (IF m <= c THEN (c - m) + 1 ELSE 0)
            /\ \A i \in 1 .. (c - m) + 1 : r[i] = ids[m + i - 1]
        BY <2>7, <3>2, <3>3, <3>4, SubSeqProperties
      <3>6. (c - m) + 1 = b /\ (~(m <= c) => b = 0)
        BY <3>3, <3>4
      <3>7. \A i \in 1 .. b : m + i - 1 = (a + 1) + i
        BY <3>3
      <3> QED
        BY <3>5, <3>6, <3>7
    <2>10. PICK w : w = l \o r
      OBVIOUS
    <2>11. /\ w \in Seq(Shells) /\ Len(w) = a + b /\ DOMAIN w = 1 .. a + b
           /\ \A i \in 1 .. a : w[i] = ids[i]
           /\ \A j \in 1 .. b : w[a + j] = ids[(a + 1) + j]
      <3>1. /\ w \in Seq(Shells) /\ Len(w) = a + b
            /\ \A i \in 1 .. a + b : w[i] = IF i <= a THEN l[i] ELSE r[i - a]
        BY <2>8, <2>9, <2>10, ConcatProperties, SMTT(25)
      <3>2. /\ \A i \in 1 .. a : i \in 1 .. a + b /\ i <= a
            /\ \A j \in 1 .. b : a + j \in 1 .. a + b /\ ~(a + j <= a) /\ (a + j) - a = j
        OBVIOUS
      <3>3. \A i \in 1 .. a : w[i] = ids[i]
        BY <2>8, <3>1, <3>2
      <3>4. \A j \in 1 .. b : w[a + j] = ids[(a + 1) + j]
        BY <2>9, <3>1, <3>2
      <3>5. DOMAIN w = 1 .. a + b
        BY <3>1
      <3> QED
        BY <3>1, <3>3, <3>4, <3>5
    <2>12. Without(ids, id) = w
      <3>1. k + 1 = a + 2 /\ Len(ids) = (a + 1) + b
        BY <2>2, <2>3, <2>4
      <3>2. Without(ids, id) = SubSeq(ids, 1, k - 1) \o SubSeq(ids, k + 1, Len(ids))
        BY <1>2, <2>1 DEF Without
      <3> QED
        BY <2>3, <2>6, <2>7, <2>10, <3>1, <3>2
    <2>13. /\ \A i \in 1 .. a + b : i \in 1 .. a \/ \E j \in 1 .. b : i = a + j
           /\ \A i \in 1 .. (a + 1) + b : i = a + 1 \/ i \in 1 .. a \/ \E j \in 1 .. b : i = (a + 1) + j
           /\ \A i \in 1 .. a : i \in 1 .. (a + 1) + b /\ i # a + 1 /\ i \in 1 .. a + b
           /\ \A j \in 1 .. b : /\ (a + 1) + j \in 1 .. (a + 1) + b /\ (a + 1) + j # a + 1
                              /\ a + j \in 1 .. a + b
      <3>1. \A i \in 1 .. a + b : i \in 1 .. a \/ (i - a \in 1 .. b /\ i = a + (i - a))
        OBVIOUS
      <3>2. \A i \in 1 .. (a + 1) + b : \/ i = a + 1 \/ i \in 1 .. a
                                     \/ (i - (a + 1) \in 1 .. b /\ i = (a + 1) + (i - (a + 1)))
        OBVIOUS
      <3>3. \A i \in 1 .. a : i \in 1 .. (a + 1) + b /\ i # a + 1 /\ i \in 1 .. a + b
        OBVIOUS
      <3>4. \A j \in 1 .. b : /\ (a + 1) + j \in 1 .. (a + 1) + b /\ (a + 1) + j # a + 1
                            /\ a + j \in 1 .. a + b
        OBVIOUS
      <3> QED
        BY <3>1, <3>2, <3>3, <3>4
    <2>14. Known(w) = Known(ids) \ {id}
      <3>1. ASSUME NEW i \in 1 .. a + b
            PROVE  w[i] \in Known(ids) /\ w[i] # id
        <4>1. PICK m \in 1 .. (a + 1) + b : w[i] = ids[m] /\ m # a + 1
          <5>1. CASE i \in 1 .. a
            BY <2>11, <2>13, <5>1
          <5>2. CASE i \notin 1 .. a
            <6>1. PICK j \in 1 .. b : i = a + j
              BY <2>13, <5>2
            <6>2. w[i] = ids[(a + 1) + j]
              BY <2>11, <6>1
            <6> QED
              BY <2>13, <6>2
          <5> QED
            BY <5>1, <5>2
        <4>2. a + 1 \in 1 .. (a + 1) + b
          OBVIOUS
        <4>3. ids[m] # id
          BY <2>5, <4>1, <4>2
        <4> QED
          BY <2>5, <4>1, <4>3 DEF Known
      <3>2. ASSUME NEW m \in 1 .. (a + 1) + b, ids[m] # id
            PROVE  \E i \in 1 .. a + b : w[i] = ids[m]
        <4>1. m # a + 1
          BY <2>5, <3>2
        <4>2. CASE m \in 1 .. a
          BY <2>11, <2>13, <4>2
        <4>3. CASE m \notin 1 .. a
          <5>1. PICK j \in 1 .. b : m = (a + 1) + j
            BY <2>13, <4>1, <4>3
          <5>2. w[a + j] = ids[m] /\ a + j \in 1 .. a + b
            BY <2>11, <2>13, <5>1
          <5> QED
            BY <5>2
        <4> QED
          BY <4>2, <4>3
      <3>3. Known(w) \subseteq Known(ids) \ {id}
        BY <2>11, <3>1 DEF Known
      <3>4. Known(ids) \ {id} \subseteq Known(w)
        BY <2>5, <2>11, <3>2 DEF Known
      <3> QED
        BY <3>3, <3>4
    <2>15. ASSUME NEW i \in 1 .. a + b, NEW j \in 1 .. a + b, w[i] = w[j]
           PROVE  i = j
      <3>1. CASE i \in 1 .. a /\ j \in 1 .. a
        BY <2>5, <2>11, <2>13, <2>15, <3>1
      <3>2. CASE i \in 1 .. a /\ j \notin 1 .. a
        <4>1. PICK y \in 1 .. b : j = a + y
          BY <2>13, <3>2
        <4>2. i = (a + 1) + y
          <5>1. w[i] = ids[i] /\ w[a + y] = ids[(a + 1) + y]
            BY <2>11, <3>2
          <5>2. i \in 1 .. (a + 1) + b /\ (a + 1) + y \in 1 .. (a + 1) + b
            BY <2>13, <3>2
          <5> QED
            BY <2>5, <2>15, <4>1, <5>1, <5>2
        <4> QED
          BY <3>2, <4>2
      <3>3. CASE i \notin 1 .. a /\ j \in 1 .. a
        <4>1. PICK y \in 1 .. b : i = a + y
          BY <2>13, <3>3
        <4>2. j = (a + 1) + y
          <5>1. w[j] = ids[j] /\ w[a + y] = ids[(a + 1) + y]
            BY <2>11, <3>3
          <5>2. j \in 1 .. (a + 1) + b /\ (a + 1) + y \in 1 .. (a + 1) + b
            BY <2>13, <3>3
          <5> QED
            BY <2>5, <2>15, <4>1, <5>1, <5>2
        <4> QED
          BY <3>3, <4>2
      <3>4. CASE i \notin 1 .. a /\ j \notin 1 .. a
        <4>1. PICK x \in 1 .. b : i = a + x
          BY <2>13, <3>4
        <4>2. PICK y \in 1 .. b : j = a + y
          BY <2>13, <3>4
        <4>3. (a + 1) + x = (a + 1) + y
          <5>1. w[a + x] = ids[(a + 1) + x] /\ w[a + y] = ids[(a + 1) + y]
            BY <2>11
          <5>2. (a + 1) + x \in 1 .. (a + 1) + b /\ (a + 1) + y \in 1 .. (a + 1) + b
            BY <2>13
          <5> QED
            BY <2>5, <2>15, <4>1, <4>2, <5>1, <5>2
        <4> QED
          BY <4>1, <4>2, <4>3
      <3> QED
        BY <3>1, <3>2, <3>3, <3>4
    <2> QED
      BY <2>11, <2>12, <2>14, <2>15
  <1> QED
    BY <1>1, <1>2

(* Adding a key to it.                                                     *)
LEMMA WithIs ==
  ASSUME NEW ids \in Seq(Shells), NEW id \in Shells, id \notin Known(ids),
         \A i, j \in DOMAIN ids : ids[i] = ids[j] => i = j
  PROVE  /\ Append(ids, id) \in Seq(Shells)
         /\ Known(Append(ids, id)) = Known(ids) \cup {id}
         /\ \A i, j \in DOMAIN Append(ids, id) :
              Append(ids, id)[i] = Append(ids, id)[j] => i = j
  <1>1. PICK w : w = Append(ids, id)
    OBVIOUS
  <1>2. PICK n \in Nat : n = Len(ids)
    OBVIOUS
  <1>3. /\ w \in Seq(Shells) /\ DOMAIN ids = 1 .. n /\ DOMAIN w = 1 .. n + 1
        /\ w[n + 1] = id /\ \A i \in 1 .. n : w[i] = ids[i]
    BY <1>1, <1>2, OneMoreIs
  <1>4. /\ n + 1 \in 1 .. n + 1 /\ \A i \in 1 .. n : i \in 1 .. n + 1
        /\ \A i \in 1 .. n + 1 : i = n + 1 \/ i \in 1 .. n
    OBVIOUS
  <1>5. \A i \in 1 .. n : ids[i] # id
    BY <1>3 DEF Known
  <1>6. Known(w) = Known(ids) \cup {id}
    <2>1. Known(w) \subseteq Known(ids) \cup {id}
      BY <1>3, <1>4 DEF Known
    <2>2. Known(ids) \cup {id} \subseteq Known(w)
      BY <1>3, <1>4 DEF Known
    <2> QED
      BY <2>1, <2>2
  <1>7. ASSUME NEW i \in 1 .. n + 1, NEW j \in 1 .. n + 1, w[i] = w[j]
        PROVE  i = j
    <2>1. CASE i = n + 1
      BY <1>3, <1>4, <1>5, <1>7, <2>1
    <2>2. CASE j = n + 1
      BY <1>3, <1>4, <1>5, <1>7, <2>2
    <2>3. CASE i # n + 1 /\ j # n + 1
      BY <1>3, <1>4, <1>7, <2>3
    <2> QED
      BY <2>1, <2>2, <2>3
  <1> QED
    BY <1>1, <1>3, <1>6, <1>7

(* A call or an answer more, or the first one less.                        *)
LEMMA TermMore ==
  ASSUME NEW M, NEW q \in Seq(M), NEW x \in M
  PROVE  /\ Append(q, x) \in Seq(M) /\ Append(q, x) # <<>>
         /\ Append(q, x)[Len(Append(q, x))] = x
         /\ \E i \in DOMAIN Append(q, x) : Append(q, x)[i] = x
         /\ \A i \in DOMAIN q : i \in DOMAIN Append(q, x) /\ Append(q, x)[i] = q[i]
  <1>1. PICK w : w = Append(q, x)
    OBVIOUS
  <1>2. PICK n \in Nat : n = Len(q)
    OBVIOUS
  <1>3. /\ w \in Seq(M) /\ DOMAIN q = 1 .. n /\ DOMAIN w = 1 .. n + 1 /\ Len(w) = n + 1
        /\ w[n + 1] = x /\ \A i \in 1 .. n : w[i] = q[i]
    BY <1>1, <1>2, OneMoreIs, AppendProperties
  <1>4. n + 1 \in 1 .. n + 1 /\ \A i \in 1 .. n : i \in 1 .. n + 1
    OBVIOUS
  <1>5. w # <<>>
    BY <1>3, <1>4
  <1> QED
    BY <1>1, <1>3, <1>4, <1>5

LEMMA TermLess ==
  ASSUME NEW M, NEW q \in Seq(M), q # <<>>
  PROVE  /\ Head(q) \in M /\ Tail(q) \in Seq(M) /\ Head(q) = q[1]
         /\ Tail(q) = <<>> => q[Len(q)] = Head(q)
         /\ Tail(q) # <<>> => Tail(q)[Len(Tail(q))] = q[Len(q)]
         /\ \A i \in DOMAIN q : q[i] # Head(q) => \E j \in DOMAIN Tail(q) : Tail(q)[j] = q[i]
  <1>1. PICK h, t : h = Head(q) /\ t = Tail(q)
    OBVIOUS
  <1>2. PICK n \in Nat : /\ h \in M /\ t \in Seq(M) /\ DOMAIN q = 1 .. n + 1 /\ DOMAIN t = 1 .. n
                         /\ h = q[1] /\ \A i \in 1 .. n : t[i] = q[i + 1]
    BY <1>1, FirstLessIs
  <1>3. Len(t) = n /\ Len(q) = n + 1
    BY <1>2
  <1>4. t = <<>> => q[Len(q)] = h
    BY <1>2, <1>3
  <1>5. t # <<>> => t[Len(t)] = q[Len(q)]
    <2>1. t # <<>> => n \in 1 .. n
      BY <1>2, <1>3, EmptySeq
    <2> QED
      BY <1>2, <1>3, <2>1
  <1>6. ASSUME NEW i \in 1 .. n + 1, q[i] # h
        PROVE  \E j \in 1 .. n : t[j] = q[i]
    <2>1. i # 1
      BY <1>2, <1>6
    <2>2. i - 1 \in 1 .. n /\ (i - 1) + 1 = i
      BY <2>1
    <2> QED
      BY <1>2, <2>2
  <1> QED
    BY <1>1, <1>2, <1>4, <1>5, <1>6

-------------------------------------------------------------------------------
(* Calls the user makes.  What is to be listed or shown does not change    *)
(* by another call.                                                        *)
LEMMA AsksMore ==
  ASSUME TermInv, NEW c \in TermCalls, Call(c), UNCHANGED <<mainTermVars, listed, termAnswers>>,
         c.op = "list" \/ panelOpen
  PROVE  termCalls' \in Seq(TermCalls) /\ MapOfShells' /\ TabsFollow'
  <1>1. /\ termCalls' \in Seq(TermCalls) /\ \E i \in DOMAIN termCalls' : termCalls'[i] = c
        /\ \A i \in DOMAIN termCalls : i \in DOMAIN termCalls' /\ termCalls'[i] = termCalls[i]
    <2>1. PICK q \in Seq(TermCalls) : q = termCalls
      BY DEF TermInv, TermTyped
    <2>2. PICK w : w = Append(q, c)
      OBVIOUS
    <2>3. /\ w \in Seq(TermCalls) /\ \E i \in DOMAIN w : w[i] = c
          /\ \A i \in DOMAIN q : i \in DOMAIN w /\ w[i] = q[i]
      BY <2>2, TermMore
    <2> QED
      BY <2>1, <2>2, <2>3 DEF Call
  <1>2. MapOfShells'
    BY DEF TermInv, MapOfShells, mainTermVars, Known
  <1>3. ToBeListed => ToBeListed'
    BY <1>1 DEF ToBeListed
  <1>4. ListShows(ListToCome) => ListShows(ListToCome)'
    BY DEF ListShows, ListToCome, Known, mainTermVars
  <1>5. c.op = "list" => ToBeListed'
    BY <1>1 DEF ToBeListed
  <1>6. panelOpen => (quitting \/ ToBeListed \/ ListShows(ListToCome))
    BY DEF TermInv, TabsFollow
  <1>7. quitting' = quitting
    BY DEF mainTermVars
  <1> QED
    BY <1>1, <1>2, <1>3, <1>4, <1>5, <1>6, <1>7 DEF TabsFollow

(* What the renderer does with its panel alone.                            *)
LEMMA PanelOnly ==
  ASSUME TermInv, UNCHANGED <<mainTermVars, termCalls, termAnswers, listed>>, panelOpen' => panelOpen
  PROVE  MapOfShells' /\ TabsFollow'
  <1>1. MapOfShells'
    BY DEF TermInv, MapOfShells, mainTermVars, Known
  <1>2. ToBeListed => ToBeListed'
    BY DEF ToBeListed
  <1>3. ListShows(ListToCome) => ListShows(ListToCome)'
    BY DEF ListShows, ListToCome, Known, mainTermVars
  <1>4. quitting' = quitting
    BY DEF mainTermVars
  <1> QED
    BY <1>1, <1>2, <1>3, <1>4 DEF TermInv, TabsFollow

LEMMA TermOpenPanel == ASSUME TermInv, OpenPanel PROVE TermInv'
  <1>1. PICK c : c = [op |-> "list", first |-> activeTerminal = 0]
    OBVIOUS
  <1>2. c \in TermCalls /\ c.op = "list"
    BY <1>1 DEF TermCalls
  <1>3. termCalls' \in Seq(TermCalls) /\ MapOfShells' /\ TabsFollow'
    BY <1>1, <1>2, AsksMore DEF OpenPanel
  <1> QED
    BY <1>3 DEF OpenPanel, MountTerminal, TermInv, TermTyped, mainTermVars

LEMMA TermClosePanel == ASSUME TermInv, ClosePanel PROVE TermInv'
  <1>1. MapOfShells' /\ TabsFollow'
    BY PanelOnly DEF ClosePanel
  <1> QED
    BY <1>1 DEF ClosePanel, TermInv, TermTyped, mainTermVars

LEMMA TermNew == ASSUME TermInv, NewTerminal PROVE TermInv'
  <1>1. PICK c : c = [op |-> "create"]
    OBVIOUS
  <1>2. c \in TermCalls
    BY <1>1 DEF TermCalls
  <1>3. termCalls' \in Seq(TermCalls) /\ MapOfShells' /\ TabsFollow'
    BY <1>1, <1>2, AsksMore DEF NewTerminal, listVars
  <1> QED
    BY <1>3 DEF NewTerminal, TermInv, TermTyped, mainTermVars, listVars

LEMMA TermSelect == ASSUME TermInv, NEW s \in Shells, SelectTerminal(s) PROVE TermInv'
  <1>1. MapOfShells' /\ TabsFollow'
    BY PanelOnly DEF SelectTerminal
  <1> QED
    BY <1>1 DEF SelectTerminal, TermInv, TermTyped, mainTermVars

LEMMA TermKillCall == ASSUME TermInv, NEW s \in Shells, KillTerminal(s) PROVE TermInv'
  <1>1. PICK c : c = [op |-> "kill", id |-> s]
    OBVIOUS
  <1>2. c \in TermCalls
    BY <1>1 DEF TermCalls
  <1>3. termCalls' \in Seq(TermCalls) /\ MapOfShells' /\ TabsFollow'
    BY <1>1, <1>2, AsksMore DEF KillTerminal, listVars
  <1> QED
    BY <1>3 DEF KillTerminal, TermInv, TermTyped, mainTermVars, listVars

-------------------------------------------------------------------------------
(* The renderer handles an answer.                                         *)
LEMMA TermAnswer == ASSUME TermInv, HandleAnswer PROVE TermInv'
  <1>1. PICK a : a = Head(termAnswers)
    OBVIOUS
  <1>2. /\ a \in TermAnswers /\ termAnswers' = Tail(termAnswers) /\ termAnswers # <<>>
        /\ termAnswers' \in Seq(TermAnswers) /\ a = termAnswers[1]
        /\ termAnswers' = <<>> => termAnswers[Len(termAnswers)] = a
        /\ termAnswers' # <<>> => termAnswers'[Len(termAnswers')] = termAnswers[Len(termAnswers)]
        /\ \A i \in DOMAIN termAnswers :
             termAnswers[i] # a => \E j \in DOMAIN termAnswers' : termAnswers'[j] = termAnswers[i]
    BY <1>1, TermLess DEF HandleAnswer, TermInv, TermTyped
  <1>3. MapOfShells'
    BY DEF HandleAnswer, TermInv, MapOfShells, mainTermVars, Known
  <1>4. quitting' = quitting /\ panelOpen' = panelOpen /\ terminals' = terminals /\ shells' = shells
    BY DEF HandleAnswer, mainTermVars
  <1>5. CASE a.op \in {"created", "killed"}
    <2>1. PICK c : c = [op |-> "list", first |-> FALSE]
      OBVIOUS
    <2>2. c \in TermCalls /\ c.op = "list"
      BY <2>1 DEF TermCalls
    <2>3. Call(c) /\ listed' = listed
      BY <1>1, <1>5, <2>1 DEF HandleAnswer
    <2>4. termCalls' \in Seq(TermCalls) /\ \E i \in DOMAIN termCalls' : termCalls'[i] = c
      <3>1. PICK q \in Seq(TermCalls) : q = termCalls
        BY DEF TermInv, TermTyped
      <3>2. PICK w : w = Append(q, c)
        OBVIOUS
      <3>3. w \in Seq(TermCalls) /\ \E i \in DOMAIN w : w[i] = c
        BY <2>2, <3>2, TermMore
      <3> QED
        BY <2>3, <3>1, <3>2, <3>3 DEF Call
    <2>5. TabsFollow'
      BY <2>2, <2>4 DEF TabsFollow, ToBeListed
    <2>6. activeTerminal' \in Shells \cup {0}
      <3>1. CASE a.op = "created"
        <4>1. activeTerminal' = a.id
          BY <1>1, <3>1 DEF HandleAnswer
        <4> QED
          BY <1>2, <3>1, <4>1 DEF TermAnswers
      <3>2. CASE a.op = "killed"
        BY <1>1, <3>2 DEF HandleAnswer, TermInv, TermTyped
      <3> QED
        BY <1>5, <3>1, <3>2
    <2> QED
      BY <1>2, <1>3, <2>3, <2>4, <2>5, <2>6 DEF HandleAnswer, TermInv, TermTyped, mainTermVars
  <1>6. CASE a.op = "listed"
    <2>1. /\ listed' = a.ids /\ termCalls' = termCalls
          /\ activeTerminal' = IF a.first /\ a.ids # <<>> THEN Head(a.ids) ELSE activeTerminal
      BY <1>1, <1>6 DEF HandleAnswer
    <2>2. a.ids \in Seq(Shells)
      BY <1>2, <1>6 DEF TermAnswers
    <2>3. PICK ids \in Seq(Shells) : ids = a.ids
      BY <2>2
    <2>4. ids # <<>> => Head(ids) \in Shells
      BY HeadTailProperties
    <2>5. activeTerminal' \in Shells \cup {0}
      BY <2>1, <2>3, <2>4 DEF TermInv, TermTyped
    <2>6. ToBeListed => ToBeListed'
      <3>1. ASSUME NEW i \in DOMAIN termAnswers, termAnswers[i].op # "listed"
            PROVE  \E j \in DOMAIN termAnswers' : termAnswers'[j].op # "listed"
        <4>1. termAnswers[i] # a
          BY <1>6, <3>1
        <4> QED
          BY <1>2, <3>1, <4>1
      <3> QED
        BY <2>1, <3>1 DEF ToBeListed
    <2>7. ListToCome' = ListToCome
      BY <1>2, <2>1 DEF ListToCome
    <2>8. ListShows(ListToCome) => ListShows(ListToCome)'
      BY <1>4, <2>7 DEF ListShows, Known
    <2>9. TabsFollow'
      BY <1>2, <1>4, <2>6, <2>8 DEF TermInv, TabsFollow
    <2> QED
      BY <1>2, <1>3, <2>1, <2>2, <2>5, <2>9 DEF HandleAnswer, TermInv, TermTyped, mainTermVars
  <1> QED
    BY <1>2, <1>5, <1>6 DEF TermAnswers

-------------------------------------------------------------------------------
(* The main process.  An answer that makes the renderer call for the list. *)
LEMMA AnswersMore ==
  ASSUME TermInv, NEW a \in TermAnswers, Answer(a)
  PROVE  /\ termAnswers' \in Seq(TermAnswers)
         /\ a.op # "listed" => TabsFollow'
         /\ termAnswers' # <<>> /\ termAnswers'[Len(termAnswers')] = a
         /\ \A i \in DOMAIN termAnswers : i \in DOMAIN termAnswers' /\ termAnswers'[i] = termAnswers[i]
  <1>1. /\ termAnswers' \in Seq(TermAnswers) /\ \E i \in DOMAIN termAnswers' : termAnswers'[i] = a
        /\ termAnswers' # <<>> /\ termAnswers'[Len(termAnswers')] = a
        /\ \A i \in DOMAIN termAnswers : i \in DOMAIN termAnswers' /\ termAnswers'[i] = termAnswers[i]
    <2>1. PICK q \in Seq(TermAnswers) : q = termAnswers
      BY DEF TermInv, TermTyped
    <2>2. PICK w : w = Append(q, a)
      OBVIOUS
    <2>3. /\ w \in Seq(TermAnswers) /\ \E i \in DOMAIN w : w[i] = a
          /\ w # <<>> /\ w[Len(w)] = a
          /\ \A i \in DOMAIN q : i \in DOMAIN w /\ w[i] = q[i]
      BY <2>2, TermMore
    <2> QED
      BY <2>1, <2>2, <2>3 DEF Answer
  <1> QED
    BY <1>1 DEF TabsFollow, ToBeListed

(* The map loses a terminal.                                               *)
LEMMA Forgets ==
  ASSUME TermInv, NEW s \in Shells, terminals' = Without(terminals, s),
         shells' \in [Shells -> ShellLives], \A r \in Shells : r # s => shells'[r] = shells[r],
         shells'[s] # "alive", activeId' = IF activeId = s THEN 0 ELSE activeId
  PROVE  terminals' \in Seq(Shells) /\ activeId' \in Shells \cup {0} /\ MapOfShells'
  <1>1. /\ terminals' \in Seq(Shells) /\ Known(terminals)' = Known(terminals) \ {s}
        /\ \A i, j \in DOMAIN terminals' : terminals'[i] = terminals'[j] => i = j
    <2>1. PICK t : t = terminals
      OBVIOUS
    <2>2. PICK w : w = Without(t, s)
      OBVIOUS
    <2>3. /\ w \in Seq(Shells) /\ Known(w) = Known(t) \ {s}
          /\ \A i, j \in DOMAIN w : w[i] = w[j] => i = j
      BY <2>1, <2>2, WithoutIs DEF TermInv, TermTyped, MapOfShells
    <2>4. terminals' = w
      BY <2>1, <2>2
    <2> QED
      BY <2>1, <2>3, <2>4 DEF Known
  <1>2. Known(terminals) \subseteq Shells
    BY DEF TermInv, TermTyped, Known
  <1>3. activeId' \in Shells \cup {0} /\ (activeId' # 0 => activeId' \in Known(terminals)')
    BY <1>1 DEF TermInv, TermTyped, MapOfShells
  <1>4. /\ \A r \in Shells : shells'[r] = "alive" => r \in Known(terminals)'
        /\ \A r \in Known(terminals)' : shells'[r] \in {"alive", "leaving"}
    BY <1>1, <1>2 DEF TermInv, MapOfShells
  <1> QED
    BY <1>1, <1>3, <1>4 DEF MapOfShells

LEMMA TermCreate ==
  ASSUME TermInv, termCalls # <<>>, termCalls' = Tail(termCalls), Head(termCalls).op = "create",
         Create, UNCHANGED <<ptyWorks, quitting, listVars>>
  PROVE  TermInv'
  <1>1. /\ termCalls' \in Seq(TermCalls)
        /\ \A i \in DOMAIN termCalls : termCalls[i] # Head(termCalls) =>
             \E j \in DOMAIN termCalls' : termCalls'[j] = termCalls[i]
    BY TermLess DEF TermInv, TermTyped
  <1>2. CASE CanSpawn
    <2>1. PICK s \in Shells \ MadeShells :
                s = (CHOOSE x \in Shells \ MadeShells : \A r \in Shells \ MadeShells : x <= r)
      <3>1. PICK free : free = Shells \ MadeShells
        OBVIOUS
      <3>2. free # {} /\ free \in SUBSET Nat
        BY <1>2, <3>1, TerminalBounds DEF CanSpawn, Shells, MadeShells
      <3>3. \E s \in free : \A r \in free : s <= r
        BY <3>2, FirstOf
      <3> QED
        BY <3>1, <3>3
    <2>2. /\ shells' = [shells EXCEPT ![s] = "alive"] /\ terminals' = Append(terminals, s)
          /\ activeId' = (IF activeId = 0 THEN s ELSE activeId)
          /\ Answer([op |-> "created", id |-> s])
      BY <1>2, <2>1 DEF Create
    <2>3. PICK a : a = [op |-> "created", id |-> s]
      OBVIOUS
    <2>4. a \in TermAnswers /\ a.op # "listed" /\ Answer(a)
      BY <2>2, <2>3 DEF TermAnswers
    <2>5. termAnswers' \in Seq(TermAnswers) /\ TabsFollow'
      BY <2>4, AnswersMore
    <2>6. shells[s] = "none" /\ s \notin Known(terminals)
      BY <2>1 DEF MadeShells, TermInv, MapOfShells
    <2>7. /\ terminals' \in Seq(Shells) /\ Known(terminals)' = Known(terminals) \cup {s}
          /\ \A i, j \in DOMAIN terminals' : terminals'[i] = terminals'[j] => i = j
      <3>1. PICK t : t = terminals
        OBVIOUS
      <3>2. PICK w : w = Append(t, s)
        OBVIOUS
      <3>3. /\ w \in Seq(Shells) /\ Known(w) = Known(t) \cup {s}
            /\ \A i, j \in DOMAIN w : w[i] = w[j] => i = j
        BY <2>6, <3>1, <3>2, WithIs DEF TermInv, TermTyped, MapOfShells
      <3>4. terminals' = w
        BY <2>2, <3>1, <3>2
      <3> QED
        BY <3>1, <3>3, <3>4 DEF Known
    <2>8. shells' \in [Shells -> ShellLives] /\ activeId' \in Shells \cup {0}
      BY <2>2 DEF TermInv, TermTyped, ShellLives
    <2>9. /\ shells'[s] = "alive" /\ \A r \in Shells : r # s => shells'[r] = shells[r]
          /\ Known(terminals) \subseteq Shells
      BY <2>2 DEF TermInv, TermTyped, Known
    <2>10. /\ \A r \in Shells : shells'[r] = "alive" => r \in Known(terminals)'
           /\ \A r \in Known(terminals)' : shells'[r] \in {"alive", "leaving"}
           /\ activeId' # 0 => activeId' \in Known(terminals)'
      BY <2>2, <2>7, <2>9 DEF TermInv, MapOfShells
    <2>11. MapOfShells'
      BY <2>7, <2>10 DEF MapOfShells
    <2> QED
      BY <1>1, <2>5, <2>7, <2>8, <2>11 DEF TermInv, TermTyped, listVars
  <1>3. CASE ~CanSpawn
    <2>1. UNCHANGED <<shells, terminals, activeId, termAnswers>>
      BY <1>3 DEF Create
    <2>2. MapOfShells'
      BY <2>1 DEF TermInv, MapOfShells, Known
    <2>3. ToBeListed => ToBeListed'
      <3>1. ASSUME NEW i \in DOMAIN termCalls, termCalls[i].op = "list"
            PROVE  \E j \in DOMAIN termCalls' : termCalls'[j].op = "list"
        <4>1. termCalls[i] # Head(termCalls)
          BY <3>1
        <4> QED
          BY <1>1, <3>1, <4>1
      <3> QED
        BY <2>1, <3>1 DEF ToBeListed
    <2>4. ListShows(ListToCome) => ListShows(ListToCome)'
      <3>1. ListToCome' = ListToCome /\ terminals' = terminals /\ shells' = shells
        BY <2>1 DEF ListToCome, listVars
      <3> QED
        BY <3>1 DEF ListShows, Known
    <2>5. TabsFollow'
      BY <2>3, <2>4 DEF TermInv, TabsFollow
    <2> QED
      BY <1>1, <2>1, <2>2, <2>5 DEF TermInv, TermTyped, listVars
  <1> QED
    BY <1>2, <1>3

LEMMA TermKill ==
  ASSUME TermInv, termCalls # <<>>, termCalls' = Tail(termCalls), Head(termCalls).op = "kill",
         Kill(Head(termCalls).id), UNCHANGED <<ptyWorks, quitting, listVars>>
  PROVE  TermInv'
  <1>1. termCalls' \in Seq(TermCalls) /\ Head(termCalls) \in TermCalls
    BY TermLess DEF TermInv, TermTyped
  <1>2. PICK s \in Shells : s = Head(termCalls).id
    BY <1>1 DEF TermCalls
  <1>3. PICK a : a = [op |-> "killed"]
    OBVIOUS
  <1>4. a \in TermAnswers /\ a.op # "listed" /\ Answer(a)
    BY <1>3 DEF TermAnswers, Kill
  <1>5. termAnswers' \in Seq(TermAnswers) /\ TabsFollow'
    BY <1>4, AnswersMore
  <1>6. /\ shells' \in [Shells -> ShellLives] /\ shells'[s] # "alive"
        /\ \A r \in Shells : r # s => shells'[r] = shells[r]
    BY <1>2 DEF Kill, TermInv, TermTyped, MapOfShells, ShellLives
  <1>7. terminals' \in Seq(Shells) /\ activeId' \in Shells \cup {0} /\ MapOfShells'
    BY <1>2, <1>6, Forgets DEF Kill
  <1> QED
    BY <1>1, <1>5, <1>6, <1>7 DEF TermInv, TermTyped, listVars

LEMMA TermList ==
  ASSUME TermInv, termCalls # <<>>, termCalls' = Tail(termCalls), Head(termCalls).op = "list",
         ListTerminals(Head(termCalls)), UNCHANGED <<ptyWorks, quitting, listVars>>
  PROVE  TermInv'
  <1>1. termCalls' \in Seq(TermCalls) /\ Head(termCalls) \in TermCalls
    BY TermLess DEF TermInv, TermTyped
  <1>2. PICK b \in BOOLEAN : b = Head(termCalls).first
    BY <1>1 DEF TermCalls
  <1>3. PICK t \in Seq(Shells) : t = terminals
    BY DEF TermInv, TermTyped
  <1>4. PICK a : a = [op |-> "listed", ids |-> t, first |-> b]
    OBVIOUS
  <1>5. a \in TermAnswers /\ a.ids = t /\ Answer(a)
    BY <1>2, <1>3, <1>4 DEF TermAnswers, ListTerminals
  <1>6. /\ termAnswers' \in Seq(TermAnswers) /\ termAnswers' # <<>>
        /\ termAnswers'[Len(termAnswers')] = a
    BY <1>5, AnswersMore
  <1>7. UNCHANGED <<shells, terminals, activeId>>
    BY DEF ListTerminals
  <1>8. ListToCome' = terminals'
    BY <1>3, <1>5, <1>6, <1>7 DEF ListToCome
  <1>9. TabsFollow'
    BY <1>8 DEF TabsFollow, ListShows
  <1>10. MapOfShells'
    BY <1>7 DEF TermInv, MapOfShells, Known
  <1> QED
    BY <1>1, <1>6, <1>7, <1>9, <1>10 DEF TermInv, TermTyped, listVars

LEMMA TermCall == ASSUME TermInv, HandleCall PROVE TermInv'
  <1>1. Head(termCalls) \in TermCalls
    BY TermLess DEF HandleCall, TermInv, TermTyped
  <1>2. CASE Head(termCalls).op = "create"
    BY <1>2, TermCreate DEF HandleCall
  <1>3. CASE Head(termCalls).op = "kill"
    BY <1>3, TermKill DEF HandleCall
  <1>4. CASE Head(termCalls).op = "list"
    BY <1>4, TermList DEF HandleCall
  <1> QED
    BY <1>1, <1>2, <1>3, <1>4 DEF TermCalls

LEMMA TermExits == ASSUME TermInv, NEW s \in Shells, ShellExits(s) PROVE TermInv'
  <1>1. /\ shells' \in [Shells -> ShellLives] /\ shells'[s] = "leaving" /\ shells[s] = "alive"
        /\ \A r \in Shells : r # s => shells'[r] = shells[r]
    BY DEF ShellExits, TermInv, TermTyped, ShellLives
  <1>2. Known(terminals)' = Known(terminals) /\ Known(terminals) \subseteq Shells
    BY DEF ShellExits, Known, TermInv, TermTyped
  <1>3. MapOfShells'
    BY <1>1, <1>2 DEF ShellExits, TermInv, MapOfShells
  <1>4. ToBeListed => ToBeListed'
    BY DEF ShellExits, ToBeListed
  <1>5. ASSUME ListShows(ListToCome)
        PROVE  ListShows(ListToCome)'
    <2>1. Known(ListToCome)' = Known(ListToCome)
      BY DEF ShellExits, ListToCome, Known, listVars
    <2>2. s \in Known(terminals)
      BY <1>1 DEF TermInv, MapOfShells
    <2>3. \A r \in Known(ListToCome) \ Known(terminals) : shells[r] = "left"
      BY <1>5 DEF ListShows
    <2>4. \A r \in Known(ListToCome) \ Known(terminals) : shells'[r] = "left"
      BY <2>2, <2>3 DEF ShellExits, TermInv, TermTyped
    <2> QED
      BY <1>2, <1>5, <2>1, <2>4 DEF ListShows
  <1>6. TabsFollow'
    BY <1>4, <1>5 DEF ShellExits, TermInv, TabsFollow, listVars
  <1> QED
    BY <1>1, <1>3, <1>6 DEF ShellExits, TermInv, TermTyped, listVars

LEMMA TermHandleExit == ASSUME TermInv, NEW s \in Shells, HandleExit(s) PROVE TermInv'
  <1>1. /\ shells' \in [Shells -> ShellLives]
        /\ shells'[s] = (IF shells[s] = "leaving" THEN "left" ELSE "gone")
        /\ shells[s] \in {"leaving", "killed"}
        /\ \A r \in Shells : r # s => shells'[r] = shells[r]
    BY DEF HandleExit, TermInv, TermTyped, ShellLives
  <1>2. terminals' \in Seq(Shells) /\ activeId' \in Shells \cup {0} /\ MapOfShells'
    BY <1>1, Forgets DEF HandleExit
  <1>3. Known(terminals)' = Known(terminals) \ {s}
    <2>1. PICK t : t = terminals
      OBVIOUS
    <2>2. PICK w : w = Without(t, s)
      OBVIOUS
    <2>3. Known(w) = Known(t) \ {s}
      BY <2>1, <2>2, WithoutIs DEF TermInv, TermTyped, MapOfShells
    <2>4. terminals' = w
      BY <2>1, <2>2 DEF HandleExit
    <2> QED
      BY <2>1, <2>3, <2>4 DEF Known
  <1>4. ToBeListed => ToBeListed'
    BY DEF HandleExit, ToBeListed
  <1>5. ASSUME ListShows(ListToCome)
        PROVE  ListShows(ListToCome)'
    <2>1. Known(ListToCome)' = Known(ListToCome)
      BY DEF HandleExit, ListToCome, Known, listVars
    <2>2. \A r \in Known(ListToCome) \ Known(terminals) : shells[r] = "left"
      BY <1>5 DEF ListShows
    <2>3. s \in Known(terminals) => shells'[s] = "left"
      BY <1>1 DEF TermInv, MapOfShells
    <2>4. s \notin Known(terminals) => s \notin Known(ListToCome)
      BY <1>1, <2>2
    <2>5. \A r \in Known(ListToCome) \ Known(terminals) : shells'[r] = "left"
      <3> SUFFICES ASSUME NEW r \in Known(ListToCome) \ Known(terminals)
                   PROVE  shells'[r] = "left"
        OBVIOUS
      <3>1. shells[r] = "left" /\ r # s
        BY <1>1, <2>2
      <3> QED
        BY <3>1 DEF HandleExit, TermInv, TermTyped
    <2>6. \A r \in Known(ListToCome) \ Known(terminals)' : shells'[r] = "left"
      BY <1>3, <2>3, <2>5
    <2> QED
      BY <1>3, <1>5, <2>1, <2>6 DEF ListShows
  <1>6. TabsFollow'
    BY <1>4, <1>5 DEF HandleExit, TermInv, TabsFollow, listVars
  <1> QED
    BY <1>1, <1>2, <1>6 DEF HandleExit, TermInv, TermTyped, listVars

LEMMA TermQuit == ASSUME TermInv, BeforeQuit PROVE TermInv'
  <1>1. terminals' = <<>> /\ Known(terminals)' = {} /\ terminals' \in Seq(Shells)
    BY EmptySeq DEF BeforeQuit, Known
  <1>2. termCalls' \in Seq(TermCalls) /\ termAnswers' \in Seq(TermAnswers)
    BY EmptySeq DEF BeforeQuit
  <1>3. shells' \in [Shells -> ShellLives] /\ \A s \in Shells : shells'[s] # "alive"
    BY DEF BeforeQuit, TermInv, TermTyped, ShellLives, MapOfShells
  <1>4. MapOfShells'
    BY <1>1, <1>3 DEF BeforeQuit, MapOfShells
  <1>5. TabsFollow'
    BY DEF BeforeQuit, TabsFollow
  <1> QED
    BY <1>1, <1>2, <1>3, <1>4, <1>5 DEF BeforeQuit, TermInv, TermTyped, listVars

LEMMA TermInvStep == ASSUME TermInv, TerminalsNext \/ UNCHANGED termVars PROVE TermInv'
  <1>1. CASE UNCHANGED termVars
    <2>1. UNCHANGED <<mainTermVars, termCalls, termAnswers, listed>> /\ (panelOpen' => panelOpen)
      BY <1>1 DEF termVars, listVars
    <2>2. MapOfShells' /\ TabsFollow'
      BY <2>1, PanelOnly
    <2> QED
      BY <1>1, <2>2 DEF termVars, mainTermVars, listVars, TermInv, TermTyped
  <1> QED
    BY <1>1, TermOpenPanel, TermClosePanel, TermNew, TermSelect, TermKillCall, TermAnswer,
       TermCall, TermExits, TermHandleExit, TermQuit DEF TerminalsNext

LEMMA TermInvStart == TerminalsInit => TermInv
  <1> SUFFICES ASSUME TerminalsInit PROVE TermInv
    OBVIOUS
  <1>1. 1 \in Shells /\ <<1>> \in Seq(Shells) /\ <<>> \in Seq(Shells)
    BY TerminalBounds, EmptySeq DEF Shells
  <1>2. termCalls \in Seq(TermCalls) /\ termAnswers \in Seq(TermAnswers)
    BY EmptySeq DEF TerminalsInit
  <1>3. shells \in [Shells -> ShellLives]
    BY DEF TerminalsInit, ShellLives
  <1>4. terminals \in Seq(Shells) /\ listed \in Seq(Shells) /\ activeId \in Shells \cup {0}
    BY <1>1 DEF TerminalsInit
  <1>5. TermTyped
    BY <1>2, <1>3, <1>4 DEF TermTyped, TerminalsInit
  <1>6. MapOfShells
    <2>1. CASE ptyWorks
      <3>1. terminals = <<1>> /\ Known(terminals) = {1}
        BY <2>1 DEF TerminalsInit, Known
      <3> QED
        BY <1>1, <2>1, <3>1 DEF TerminalsInit, MapOfShells
    <2>2. CASE ~ptyWorks
      <3>1. terminals = <<>> /\ Known(terminals) = {}
        BY <2>2 DEF TerminalsInit, Known
      <3> QED
        BY <2>2, <3>1 DEF TerminalsInit, MapOfShells
    <2> QED
      BY <2>1, <2>2
  <1>7. TabsFollow
    BY DEF TabsFollow, TerminalsInit
  <1> QED
    BY <1>5, <1>6, <1>7 DEF TermInv

LEMMA TermInvGives == TermInv => TerminalsTypeOK /\ TabsAreTheTerminals
  <1> SUFFICES ASSUME TermInv PROVE TerminalsTypeOK /\ TabsAreTheTerminals
    OBVIOUS
  <1>1. \A i \in DOMAIN termCalls : termCalls[i].op \in {"create", "kill", "list"}
    BY DEF TermInv, TermTyped, TermCalls
  <1>2. \A i \in DOMAIN termAnswers : termAnswers[i].op \in {"created", "killed", "listed"}
    BY DEF TermInv, TermTyped, TermAnswers
  <1>3. TerminalsTypeOK
    BY <1>1, <1>2 DEF TermInv, TermTyped, TerminalsTypeOK, ShellLives
  <1>4. ASSUME panelOpen, ~quitting, termCalls = <<>>, termAnswers = <<>>
        PROVE  ListShows(listed)
    BY <1>4 DEF TermInv, TabsFollow, ToBeListed, ListToCome
  <1>5. TabsAreTheTerminals
    BY <1>4 DEF TermInv, MapOfShells, TabsAreTheTerminals, ListShows
  <1> QED
    BY <1>3, <1>5

(* No shell runs unknown to its manager, and at rest the tabs of the panel *)
(* are the terminals there are (terminal-manager.ts, TerminalPanel).       *)
THEOREM TheTabsAreTheTerminals == TerminalsSpec => []TabsAreTheTerminals
  <1>1. TermInv /\ [TerminalsNext]_termVars => TermInv'
    BY TermInvStep
  <1> QED
    BY <1>1, TermInvStart, TermInvGives, PTL DEF TerminalsSpec

-----------------------------------------------------------------------------
(* The working memory.  What is left of a sequence of nodes when some are  *)
(* dropped: the nodes at increasing positions g.                           *)
LeftAt(t, f, g) ==
  /\ g \in [DOMAIN t -> DOMAIN f]
  /\ \A a, b \in DOMAIN t : a < b => g[a] < g[b]
  /\ \A a \in DOMAIN t : t[a] = f[g[a]]

(* The positions taken among the first k: all of P and no other.           *)
TakenUpTo(t, f, P, k) ==
  \E g : /\ LeftAt(t, f, g)
         /\ \A a \in DOMAIN t : g[a] \in P /\ g[a] <= k
         /\ \A i \in P : i \in DOMAIN f /\ i <= k => \E a \in DOMAIN t : g[a] = i

(* One more node is looked at.                                             *)
LEMMA TakenOrNot ==
  ASSUME NEW M, NEW f \in Seq(M), NEW P, NEW k \in Nat, k + 1 \in DOMAIN f,
         NEW t \in Seq(M), TakenUpTo(t, f, P, k)
  PROVE  LET u == IF k + 1 \in P THEN Append(t, f[k + 1]) ELSE t
         IN u \in Seq(M) /\ TakenUpTo(u, f, P, k + 1)
  <1>1. PICK g : /\ LeftAt(t, f, g)
                 /\ \A a \in DOMAIN t : g[a] \in P /\ g[a] <= k
                 /\ \A i \in P : i \in DOMAIN f /\ i <= k => \E a \in DOMAIN t : g[a] = i
    BY DEF TakenUpTo
  <1>2. PICK n \in Nat : n = Len(t) /\ DOMAIN t = 1 .. n
    BY LenProperties
  <1>3. DOMAIN f = 1 .. Len(f) /\ Len(f) \in Nat /\ f[k + 1] \in M
    BY LenProperties, ElementOfSeq
  <1>4. CASE k + 1 \notin P
    <2>1. \A a \in DOMAIN t : g[a] \in P /\ g[a] <= k + 1
      <3>1. \A a \in DOMAIN t : g[a] \in Nat
        BY <1>1, <1>3 DEF LeftAt
      <3> QED
        BY <1>1, <3>1
    <2>2. ASSUME NEW i \in P, i \in DOMAIN f, i <= k + 1
          PROVE  \E a \in DOMAIN t : g[a] = i
      <3>1. i \in Nat /\ i # k + 1
        BY <1>3, <1>4, <2>2
      <3>2. i <= k
        BY <2>2, <3>1
      <3> QED
        BY <1>1, <2>2, <3>2
    <2>3. TakenUpTo(t, f, P, k + 1)
      BY <1>1, <2>1, <2>2 DEF TakenUpTo
    <2> QED
      BY <1>4, <2>3
  <1>5. CASE k + 1 \in P
    <2>1. PICK u : u = Append(t, f[k + 1])
      OBVIOUS
    <2>2. /\ u \in Seq(M) /\ DOMAIN u = 1 .. n + 1 /\ u[n + 1] = f[k + 1]
          /\ \A a \in 1 .. n : u[a] = t[a]
      BY <1>2, <1>3, <2>1, AppendProperties
    <2>3. PICK h : h = [a \in 1 .. n + 1 |-> IF a = n + 1 THEN k + 1 ELSE g[a]]
      OBVIOUS
    <2>4. /\ h[n + 1] = k + 1
          /\ \A a \in 1 .. n : h[a] = g[a] /\ g[a] \in DOMAIN f /\ g[a] \in Nat /\ g[a] <= k /\ g[a] \in P
      BY <1>1, <1>2, <1>3, <2>3 DEF LeftAt
    <2>5. \A a \in 1 .. n + 1 : a \in 1 .. n \/ a = n + 1
      BY <1>2
    <2>6. LeftAt(u, f, h)
      <3>1. h \in [DOMAIN u -> DOMAIN f]
        BY <2>2, <2>3, <2>4, <2>5
      <3>2. ASSUME NEW a \in DOMAIN u, NEW b \in DOMAIN u, a < b
            PROVE  h[a] < h[b]
        <4>1. a \in 1 .. n
          BY <1>2, <2>2, <3>2
        <4>2. CASE b \in 1 .. n
          BY <1>1, <1>2, <2>4, <3>2, <4>1, <4>2 DEF LeftAt
        <4>3. CASE b = n + 1
          BY <2>4, <4>1, <4>3
        <4> QED
          BY <2>2, <2>5, <4>2, <4>3
      <3>3. ASSUME NEW a \in DOMAIN u
            PROVE  u[a] = f[h[a]]
        BY <1>1, <1>2, <2>2, <2>4, <2>5 DEF LeftAt
      <3> QED
        BY <3>1, <3>2, <3>3 DEF LeftAt
    <2>7. \A a \in DOMAIN u : h[a] \in P /\ h[a] <= k + 1
      BY <1>5, <2>2, <2>4, <2>5
    <2>8. ASSUME NEW i \in P, i \in DOMAIN f, i <= k + 1
          PROVE  \E a \in DOMAIN u : h[a] = i
      <3>1. CASE i = k + 1
        <4>1. n + 1 \in DOMAIN u
          BY <1>2, <2>2
        <4> QED
          BY <2>4, <3>1, <4>1
      <3>2. CASE i # k + 1
        <4>1. i <= k
          BY <1>3, <2>8, <3>2
        <4>2. PICK a \in 1 .. n : g[a] = i
          BY <1>1, <1>2, <2>8, <4>1
        <4>3. a \in DOMAIN u
          BY <1>2, <2>2
        <4> QED
          BY <2>4, <4>2, <4>3
      <3> QED
        BY <3>1, <3>2
    <2>9. TakenUpTo(u, f, P, k + 1)
      BY <2>6, <2>7, <2>8 DEF TakenUpTo
    <2> QED
      BY <1>5, <2>1, <2>2, <2>9
  <1> QED
    BY <1>4, <1>5

(* The loop of NodesAt: such a function there is, step by step.            *)
Grows(c, f, P, k) ==
  /\ c[0] = <<>>
  /\ \A i \in 1 .. k : c[i] = IF i \in P THEN Append(c[i - 1], f[i]) ELSE c[i - 1]

LEMMA GrowthExists ==
  ASSUME NEW f, Len(f) \in Nat, NEW P
  PROVE  \A k \in Nat : \E c : Grows(c, f, P, k)
  <1> DEFINE Good == {k \in Nat : \E c : Grows(c, f, P, k)}
  <1>1. 0 \in Good
    <2>1. Grows([i \in {0} |-> <<>>], f, P, 0)
      BY DEF Grows
    <2> QED
      BY <2>1
  <1>2. ASSUME NEW k \in Nat, k \in Good PROVE k + 1 \in Good
    <2>1. PICK c : Grows(c, f, P, k)
      BY <1>2
    <2>2. PICK x : x = IF k + 1 \in P THEN Append(c[k], f[k + 1]) ELSE c[k]
      OBVIOUS
    <2>3. PICK d : d = [i \in 0 .. k + 1 |-> IF i = k + 1 THEN x ELSE c[i]]
      OBVIOUS
    <2>4. d[0] = <<>> /\ d[k + 1] = x /\ \A i \in 0 .. k : d[i] = c[i]
      BY <2>1, <2>3 DEF Grows
    <2>5. ASSUME NEW i \in 1 .. k + 1
          PROVE  d[i] = IF i \in P THEN Append(d[i - 1], f[i]) ELSE d[i - 1]
      <3>1. CASE i = k + 1
        <4>1. i - 1 = k /\ k \in 0 .. k
          BY <3>1
        <4> QED
          BY <2>2, <2>4, <3>1, <4>1
      <3>2. CASE i # k + 1
        <4>1. i \in 1 .. k /\ i \in 0 .. k /\ i - 1 \in 0 .. k
          BY <3>2
        <4> QED
          BY <2>1, <2>4, <4>1 DEF Grows
      <3> QED
        BY <3>1, <3>2
    <2>6. Grows(d, f, P, k + 1)
      BY <2>4, <2>5 DEF Grows
    <2> QED
      BY <2>6
  <1> HIDE DEF Good
  <1>3. Nat \subseteq Good
    BY <1>1, <1>2, NatsIn
  <1> QED
    BY <1>3 DEF Good

(* What NodesAt returns: the nodes at P, in their order.                   *)
LEMMA NodesAtTakes ==
  ASSUME NEW M, NEW f \in Seq(M), NEW P
  PROVE  NodesAt(f, P) \in Seq(M) /\ TakenUpTo(NodesAt(f, P), f, P, Len(f))
  <1> DEFINE D == 0 .. Len(f)
             step(c, i) == IF i = 0 THEN <<>>
                           ELSE IF i \in P THEN Append(c[i - 1], f[i]) ELSE c[i - 1]
             loop == CHOOSE c : c = [i \in D |-> step(c, i)]
  <1>0. Len(f) \in Nat /\ DOMAIN f = 1 .. Len(f)
    BY LenProperties
  <1>1. NodesAt(f, P) = loop[Len(f)]
    BY DEF NodesAt
  <1>2. \E c : c = [i \in D |-> step(c, i)]
    <2>1. PICK c : Grows(c, f, P, Len(f))
      BY <1>0, GrowthExists
    <2>2. PICK d : d = [i \in D |-> c[i]]
      OBVIOUS
    <2>3. ASSUME NEW i \in D PROVE d[i] = step(d, i)
      <3>1. CASE i = 0
        BY <2>1, <2>2, <3>1 DEF Grows
      <3>2. CASE i # 0
        <4>1. i \in 1 .. Len(f) /\ i - 1 \in D
          BY <1>0, <3>2
        <4>2. c[i] = IF i \in P THEN Append(c[i - 1], f[i]) ELSE c[i - 1]
          BY <2>1, <4>1 DEF Grows
        <4>3. d[i] = c[i] /\ d[i - 1] = c[i - 1]
          BY <2>2, <4>1
        <4> QED
          BY <3>2, <4>2, <4>3
      <3> QED
        BY <3>1, <3>2
    <2> HIDE DEF step
    <2>4. d = [i \in D |-> d[i]]
      BY <2>2
    <2> QED
      BY <2>3, <2>4
  <1>3. loop = [k \in D |-> step(loop, k)]
    <2> HIDE DEF step, D
    <2> QED
      BY <1>2
  <1>4. \A k \in D : loop[k] = step(loop, k)
    <2> HIDE DEF step, D, loop
    <2> QED
      BY <1>3
  <1> HIDE DEF loop
  <1> DEFINE Good == {k \in Nat : k \in D => loop[k] \in Seq(M) /\ TakenUpTo(loop[k], f, P, k)}
  <1>5. 0 \in Good
    <2>1. loop[0] = <<>>
      BY <1>0, <1>4
    <2>2. <<>> \in Seq(M) /\ DOMAIN <<>> = {}
      OBVIOUS
    <2>3. LeftAt(<<>>, f, <<>>)
      BY <2>2 DEF LeftAt
    <2>4. TakenUpTo(<<>>, f, P, 0)
      BY <1>0, <2>2, <2>3 DEF TakenUpTo
    <2> QED
      BY <2>1, <2>2, <2>4
  <1>6. ASSUME NEW k \in Nat, k \in Good PROVE k + 1 \in Good
    <2> SUFFICES ASSUME k + 1 \in D
                 PROVE  loop[k + 1] \in Seq(M) /\ TakenUpTo(loop[k + 1], f, P, k + 1)
      OBVIOUS
    <2>1. k \in D /\ k + 1 \in DOMAIN f /\ k + 1 # 0 /\ (k + 1) - 1 = k
      BY <1>0
    <2>2. loop[k + 1] = IF k + 1 \in P THEN Append(loop[k], f[k + 1]) ELSE loop[k]
      BY <1>4, <2>1
    <2>3. PICK t \in Seq(M) : t = loop[k] /\ TakenUpTo(t, f, P, k)
      BY <1>6, <2>1
    <2> QED
      BY <2>1, <2>2, <2>3, TakenOrNot
  <1> HIDE DEF Good
  <1>7. Len(f) \in Good
    BY <1>0, <1>5, <1>6, NatsIn
  <1> QED
    BY <1>0, <1>1, <1>7 DEF Good

(* The newest n nodes: what is left when the others are dropped.           *)
LEMMA LastOfSeq ==
  ASSUME NEW M, NEW f \in Seq(M), NEW n \in Nat, Len(f) > n
  PROVE  LET t == SubSeq(f, Len(f) - n + 1, Len(f))
         IN /\ t \in Seq(M) /\ \E g : LeftAt(t, f, g)
            /\ \A i \in DOMAIN f : i + n <= Len(f) \/ \E a \in DOMAIN t : t[a] = f[i]
  <1>1. PICK l \in Nat : l = Len(f) /\ DOMAIN f = 1 .. l
    BY LenProperties
  <1>2. PICK m \in Nat : l = m + n /\ m \in 1 .. l
    <2>1. l - n \in Nat /\ l = (l - n) + n /\ l - n \in 1 .. l
      BY <1>1
    <2> QED
      BY <2>1
  <1>3. Len(f) - n + 1 = m + 1
    BY <1>1, <1>2
  <1>4. PICK t : t = SubSeq(f, m + 1, l)
    OBVIOUS
  <1>5. /\ t \in Seq(M) /\ Len(t) = n /\ DOMAIN t = 1 .. n
        /\ \A i \in 1 .. n : t[i] = f[m + i]
    <2>1. \A i \in m + 1 .. l : f[i] \in M
      BY <1>1, <1>2, ElementOfSeq
    <2>2. PICK c \in Int : c = m + 1
      OBVIOUS
    <2>3. /\ t \in Seq(M) /\ Len(t) = (IF c <= l THEN (l - c) + 1 ELSE 0)
          /\ \A i \in 1 .. (l - c) + 1 : t[i] = f[c + i - 1]
      BY <1>4, <2>1, <2>2, SubSeqProperties
    <2>4. (l - c) + 1 = n /\ (IF c <= l THEN (l - c) + 1 ELSE 0) = n
      BY <1>2, <2>2
    <2>5. \A i \in 1 .. n : c + i - 1 = m + i
      BY <1>2, <2>2
    <2> QED
      BY <2>3, <2>4, <2>5, LenProperties
  <1>6. PICK g : g = [a \in 1 .. n |-> m + a]
    OBVIOUS
  <1>7. LeftAt(t, f, g)
    <2>1. g \in [DOMAIN t -> DOMAIN f]
      BY <1>1, <1>2, <1>5, <1>6
    <2>2. \A a, b \in DOMAIN t : a < b => g[a] < g[b]
      BY <1>2, <1>5, <1>6
    <2> QED
      BY <1>5, <1>6, <2>1, <2>2 DEF LeftAt
  <1>8. ASSUME NEW i \in DOMAIN f, ~(i + n <= Len(f))
        PROVE  \E a \in DOMAIN t : t[a] = f[i]
    <2>1. PICK a \in 1 .. n : i = m + a
      <3>1. i - m \in 1 .. n /\ i = m + (i - m)
        BY <1>1, <1>2, <1>8
      <3> QED
        BY <3>1
    <2> QED
      BY <1>5, <2>1
  <1>9. SubSeq(f, Len(f) - n + 1, Len(f)) = t
    BY <1>1, <1>3, <1>4
  <1>10. \A i \in DOMAIN f : i + n <= Len(f) \/ \E a \in DOMAIN t : t[a] = f[i]
    BY <1>8
  <1> QED
    BY <1>5, <1>7, <1>9, <1>10

-----------------------------------------------------------------------------
(* The history: nodes are numbered as they come and time does not go back. *)
HistoryOK(m, t) ==
  /\ m \in Seq(MemoryNode) /\ t \in 0 .. MaxTime
  /\ \A i \in DOMAIN m : m[i].id = i /\ m[i].timestamp <= t
  /\ \A i, j \in DOMAIN m : i < j => m[i].timestamp <= m[j].timestamp

(* The nodes f of a file are of the history m, in its order, they are cold *)
(* only when they are old, and the older the sooner.                       *)
FromHistory(f, m) ==
  \A i \in DOMAIN f : /\ f[i].id \in DOMAIN m
                      /\ f[i].session = m[f[i].id].session
                      /\ f[i].timestamp = m[f[i].id].timestamp
InOrder(f) == \A i, j \in DOMAIN f : i < j => f[i].id < f[j].id
ColdIsOld(f, t) ==
  \A i \in DOMAIN f : f[i].temperature = "cold" => f[i].timestamp + ColdAge < t
OldIsCold(f) ==
  \A i, j \in DOMAIN f : i < j /\ f[j].temperature = "cold" => f[i].temperature = "cold"
FileOK(f, m, t) ==
  f \in Seq(MemoryNode) /\ FromHistory(f, m) /\ InOrder(f) /\ ColdIsOld(f, t) /\ OldIsCold(f)

(* What is not in the file is in c (cleared or lost), or one of the oldest. *)
NoneIsMissed(f, m, c) ==
  \A n \in DOMAIN m : n \in c \/ n + Limit <= Len(m) \/ \E i \in DOMAIN f : f[i].id = n

MemInv ==
  /\ HistoryOK(memories, time) /\ FileOK(memoryFile, memories, time)
  /\ context \in Seq(MemoryNode) /\ cleared \subseteq 1 .. MaxMemories
  /\ lost \subseteq 1 .. MaxMemories /\ torn \in BOOLEAN
  /\ torn => memoryFile = <<>>
  /\ NoneIsMissed(memoryFile, memories, cleared \cup lost)

(* What is left of a file is as good.                                      *)
LEMMA LeftIsOK ==
  ASSUME NEW f, NEW m, NEW t, FileOK(f, m, t), NEW l \in Seq(MemoryNode),
         \E g : LeftAt(l, f, g)
  PROVE  FileOK(l, m, t)
  <1>1. PICK g : LeftAt(l, f, g)
    OBVIOUS
  <1>2. \A a \in DOMAIN l : g[a] \in DOMAIN f /\ l[a] = f[g[a]]
    BY <1>1 DEF LeftAt
  <1>3. \A a, b \in DOMAIN l : a < b => g[a] < g[b]
    BY <1>1 DEF LeftAt
  <1>4. FromHistory(l, m)
    BY <1>2 DEF FileOK, FromHistory
  <1>5. InOrder(l)
    BY <1>2, <1>3 DEF FileOK, InOrder
  <1>6. ColdIsOld(l, t)
    BY <1>2 DEF FileOK, ColdIsOld
  <1>7. OldIsCold(l)
    BY <1>2, <1>3 DEF FileOK, OldIsCold
  <1> QED
    BY <1>4, <1>5, <1>6, <1>7 DEF FileOK

LEMMA NoFileIsOK == ASSUME NEW m, NEW t PROVE FileOK(<<>>, m, t)
  BY DEF FileOK, FromHistory, InOrder, ColdIsOld, OldIsCold

(* A file that is not written stays good while nodes and time are added.   *)
LEMMA FileStaysOK ==
  ASSUME NEW f, NEW m \in Seq(MemoryNode), NEW t \in Nat, FileOK(f, m, t), NEW s \in Nat, t <= s,
         NEW n \in Seq(MemoryNode), DOMAIN m \subseteq DOMAIN n,
         \A i \in DOMAIN m : n[i] = m[i]
  PROVE  FileOK(f, n, s)
  <1>1. FromHistory(f, n)
    BY DEF FileOK, FromHistory
  <1>2. ColdIsOld(f, s)
    <2>1. ASSUME NEW i \in DOMAIN f, f[i].temperature = "cold"
          PROVE  f[i].timestamp + ColdAge < s
      <3>1. f[i].timestamp + ColdAge < t /\ f[i] \in MemoryNode
        BY <2>1, ElementOfSeq, LenProperties DEF FileOK, ColdIsOld
      <3>2. f[i].timestamp \in Nat /\ ColdAge \in Nat
        BY <3>1, MemoryBounds DEF MemoryNode
      <3> QED
        BY <3>1, <3>2
    <2> QED
      BY <2>1 DEF ColdIsOld
  <1> QED
    BY <1>1, <1>2 DEF FileOK

(* In an order the numbers grow at least as the positions do.              *)
LEMMA NumbersGrow ==
  ASSUME NEW f \in Seq(MemoryNode), InOrder(f), NEW i \in DOMAIN f
  PROVE  \A k \in Nat : i + k \in DOMAIN f => f[i].id + k <= f[i + k].id
  <1>0. PICK l \in Nat : DOMAIN f = 1 .. l
    BY LenProperties
  <1>1. \A j \in DOMAIN f : f[j].id \in Nat
    <2>1. \A j \in DOMAIN f : f[j] \in MemoryNode
      BY ElementOfSeq, LenProperties
    <2> QED
      BY <2>1, MemoryBounds DEF MemoryNode
  <1> DEFINE Good == {k \in Nat : i + k \in DOMAIN f => f[i].id + k <= f[i + k].id}
  <1>2. 0 \in Good
    BY <1>0, <1>1
  <1>3. ASSUME NEW k \in Nat, k \in Good PROVE k + 1 \in Good
    <2> SUFFICES ASSUME i + (k + 1) \in DOMAIN f
                 PROVE  f[i].id + (k + 1) <= f[i + (k + 1)].id
      OBVIOUS
    <2>1. i + k \in DOMAIN f /\ i + k < i + (k + 1)
      BY <1>0
    <2>2. f[i].id + k <= f[i + k].id
      BY <1>3, <2>1
    <2>3. f[i + k].id < f[i + (k + 1)].id
      BY <2>1 DEF InOrder
    <2>4. f[i].id \in Nat /\ f[i + k].id \in Nat /\ f[i + (k + 1)].id \in Nat
      BY <1>1, <2>1
    <2> QED
      BY <2>2, <2>3, <2>4
  <1> HIDE DEF Good
  <1>4. Nat \subseteq Good
    BY <1>2, <1>3, NatsIn
  <1> QED
    BY <1>4 DEF Good

-----------------------------------------------------------------------------
(* The more is excused, the less is missed; a node that was not written    *)
(* is excused; and nothing is missed when all there is is excused.         *)
LEMMA MoreExcused ==
  ASSUME NEW f, NEW m, NEW c, NEW d, NoneIsMissed(f, m, c), c \subseteq d
  PROVE  NoneIsMissed(f, m, d)
  BY DEF NoneIsMissed

LEMMA OneMoreExcused ==
  ASSUME NEW f, NEW m \in Seq(MemoryNode), NEW o, NEW c, NoneIsMissed(f, m, c),
         DOMAIN o = 1 .. Len(m) + 1, Len(o) = Len(m) + 1
  PROVE  NoneIsMissed(f, o, c \cup {Len(m) + 1})
  <1>1. PICK n \in Nat : n = Len(m) /\ DOMAIN m = 1 .. n
    BY LenProperties
  <1>2. ASSUME NEW i \in 1 .. n + 1
        PROVE  \/ i \in c \cup {n + 1} \/ i + Limit <= n + 1 \/ \E a \in DOMAIN f : f[a].id = i
    <2>1. i = n + 1 \/ i \in DOMAIN m
      BY <1>1
    <2>2. ASSUME i + Limit <= n
          PROVE  i + Limit <= n + 1
      BY <2>2, MemoryBounds
    <2> QED
      BY <1>1, <2>1, <2>2 DEF NoneIsMissed
  <1> QED
    BY <1>1, <1>2 DEF NoneIsMissed

LEMMA AllExcused ==
  ASSUME NEW m, NEW c, DOMAIN m \subseteq c
  PROVE  NoneIsMissed(<<>>, m, c)
  BY DEF NoneIsMissed

(* The three ways of writing, for a call that adds the nodes A.            *)
LEMMA WritingKeeps ==
  ASSUME MemInv, NEW f, NEW A, SaveStore(f, A), FileOK(f, memories', time'),
         FileOK(memoryFile, memories', time'),
         A \subseteq 1 .. MaxMemories, DOMAIN memories' = DOMAIN memories \cup A,
         NoneIsMissed(f, memories', cleared' \cup lost),
         NoneIsMissed(memoryFile, memories', (cleared' \cup lost) \cup A),
         HistoryOK(memories', time'), context' \in Seq(MemoryNode),
         cleared' \subseteq 1 .. MaxMemories
  PROVE  MemInv'
  <1>1. CASE memoryFile' = f /\ torn' = FALSE /\ UNCHANGED lost
    BY <1>1 DEF MemInv
  <1>2. CASE UNCHANGED <<memoryFile, torn>> /\ lost' = lost \cup A
    <2>1. (cleared' \cup lost) \cup A = cleared' \cup lost'
      BY <1>2
    <2>2. lost' \subseteq 1 .. MaxMemories
      BY <1>2 DEF MemInv
    <2> QED
      BY <1>2, <2>1, <2>2 DEF MemInv
  <1>3. CASE /\ memoryFile' = <<>> /\ torn' = TRUE
             /\ lost' = lost \cup A \cup {n.id : n \in NodesHeld(memories)}
    <2>1. \A i \in DOMAIN memories : memories[i].id = i /\ memories[i] \in MemoryNode
      BY ElementOfSeq, LenProperties DEF MemInv, HistoryOK
    <2>2. {n.id : n \in NodesHeld(memories)} \subseteq 1 .. MaxMemories
      BY <2>1 DEF NodesHeld, MemoryNode
    <2>3. DOMAIN memories \subseteq {n.id : n \in NodesHeld(memories)}
      BY <2>1 DEF NodesHeld
    <2>4. lost' \subseteq 1 .. MaxMemories
      BY <1>3, <2>2 DEF MemInv
    <2>5. DOMAIN memories' \subseteq cleared' \cup lost'
      BY <1>3, <2>3
    <2>6. NoneIsMissed(<<>>, memories', cleared' \cup lost')
      BY <2>5, AllExcused
    <2> QED
      BY <1>3, <2>4, <2>6, NoFileIsOK DEF MemInv
  <1> QED
    BY <1>1, <1>2, <1>3 DEF SaveStore

LEMMA LoadedIsOK ==
  ASSUME MemInv
  PROVE  FileOK(LoadStore, memories, time) /\ LoadStore = memoryFile
  BY NoFileIsOK DEF MemInv, LoadStore

(* A node more: the newest of all, and hot.                                *)
LEMMA OneNodeMore ==
  ASSUME NEW f, NEW m, NEW t, HistoryOK(m, t), FileOK(f, m, t), NEW s \in MemorySessions,
         Len(m) < MaxMemories
  PROVE  LET node == [id |-> Len(m) + 1, session |-> s, temperature |-> "hot", timestamp |-> t]
         IN /\ HistoryOK(Append(m, node), t)
            /\ FileOK(Append(f, node), Append(m, node), t)
  <1>1. PICK n \in Nat : n = Len(m) /\ DOMAIN m = 1 .. n /\ n < MaxMemories
    BY LenProperties DEF HistoryOK
  <1>2. PICK node \in MemoryNode :
          node = [id |-> Len(m) + 1, session |-> s, temperature |-> "hot", timestamp |-> t]
    <2>1. Len(m) + 1 \in 1 .. MaxMemories /\ t \in 0 .. MaxTime /\ "hot" \in Temperatures
      BY <1>1, MemoryBounds DEF HistoryOK, Temperatures
    <2> QED
      BY <2>1 DEF MemoryNode
  <1>3. node.id = n + 1 /\ node.session = s /\ node.temperature = "hot" /\ node.timestamp = t
    BY <1>1, <1>2
  <1>4. PICK o : o = Append(m, node)
    OBVIOUS
  <1>5. /\ o \in Seq(MemoryNode) /\ DOMAIN o = 1 .. n + 1 /\ o[n + 1] = node
        /\ \A i \in 1 .. n : o[i] = m[i]
    BY <1>1, <1>4, AppendProperties DEF HistoryOK
  <1>6. t \in Nat /\ \A i \in 1 .. n : m[i].id = i /\ m[i].timestamp <= t
    BY <1>1, MemoryBounds DEF HistoryOK
  <1>7. HistoryOK(o, t)
    <2>1. \A i \in DOMAIN o : o[i].id = i /\ o[i].timestamp <= t
      <3>1. \A i \in 1 .. n + 1 : i \in 1 .. n \/ i = n + 1
        OBVIOUS
      <3> QED
        BY <1>3, <1>5, <1>6, <3>1
    <2>2. ASSUME NEW i \in DOMAIN o, NEW j \in DOMAIN o, i < j
          PROVE  o[i].timestamp <= o[j].timestamp
      <3>1. i \in 1 .. n
        BY <1>5, <2>2
      <3>2. CASE j \in 1 .. n
        BY <1>1, <1>5, <2>2, <3>1, <3>2 DEF HistoryOK
      <3>3. CASE j = n + 1
        BY <1>3, <1>5, <1>6, <3>1, <3>3
      <3> QED
        BY <1>5, <3>2, <3>3
    <2> QED
      BY <1>5, <2>1, <2>2 DEF HistoryOK
  <1>8. PICK k \in Nat : k = Len(f) /\ DOMAIN f = 1 .. k
    BY LenProperties DEF FileOK
  <1>9. PICK h : h = Append(f, node)
    OBVIOUS
  <1>10. /\ h \in Seq(MemoryNode) /\ DOMAIN h = 1 .. k + 1 /\ h[k + 1] = node
         /\ \A i \in 1 .. k : h[i] = f[i]
    BY <1>8, <1>9, AppendProperties DEF FileOK
  <1>11. \A i \in 1 .. k + 1 : i \in 1 .. k \/ i = k + 1
    OBVIOUS
  <1>12. \A i \in 1 .. k : f[i].id \in 1 .. n
    BY <1>1, <1>8 DEF FileOK, FromHistory
  <1>13. FromHistory(h, o)
    <2>1. ASSUME NEW i \in 1 .. k
          PROVE  /\ h[i].id \in DOMAIN o
                 /\ h[i].session = o[h[i].id].session
                 /\ h[i].timestamp = o[h[i].id].timestamp
      <3>1. h[i] = f[i] /\ f[i].id \in 1 .. n /\ f[i].id \in DOMAIN o /\ o[f[i].id] = m[f[i].id]
        BY <1>5, <1>10, <1>12
      <3>2. f[i].session = m[f[i].id].session /\ f[i].timestamp = m[f[i].id].timestamp
        BY <1>8 DEF FileOK, FromHistory
      <3> QED
        BY <3>1, <3>2
    <2>2. /\ h[k + 1].id \in DOMAIN o
          /\ h[k + 1].session = o[h[k + 1].id].session
          /\ h[k + 1].timestamp = o[h[k + 1].id].timestamp
      BY <1>3, <1>5, <1>10
    <2> QED
      BY <1>10, <1>11, <2>1, <2>2 DEF FromHistory
  <1>14. InOrder(h)
    <2>1. ASSUME NEW i \in DOMAIN h, NEW j \in DOMAIN h, i < j
          PROVE  h[i].id < h[j].id
      <3>1. i \in 1 .. k /\ h[i] = f[i] /\ f[i].id \in 1 .. n
        BY <1>10, <1>12, <2>1
      <3>2. CASE j \in 1 .. k
        BY <1>8, <1>10, <2>1, <3>1, <3>2 DEF FileOK, InOrder
      <3>3. CASE j = k + 1
        BY <1>3, <1>10, <3>1, <3>3
      <3> QED
        BY <1>10, <3>2, <3>3
    <2> QED
      BY <2>1 DEF InOrder
  <1>15. ColdIsOld(h, t)
    BY <1>3, <1>8, <1>10, <1>11 DEF FileOK, ColdIsOld
  <1>16. OldIsCold(h)
    <2>1. ASSUME NEW i \in DOMAIN h, NEW j \in DOMAIN h, i < j, h[j].temperature = "cold"
          PROVE  h[i].temperature = "cold"
      <3>1. j \in 1 .. k /\ i \in 1 .. k
        BY <1>3, <1>10, <2>1
      <3> QED
        BY <1>8, <1>10, <2>1, <3>1 DEF FileOK, OldIsCold
    <2> QED
      BY <2>1 DEF OldIsCold
  <1>17. FileOK(h, o, t)
    BY <1>10, <1>13, <1>14, <1>15, <1>16 DEF FileOK
  <1> QED
    BY <1>2, <1>4, <1>7, <1>9, <1>17

(* Trimming drops the oldest, Limit younger ones stay.                     *)
LEMMA TrimmedIsOK ==
  ASSUME NEW f, NEW m, NEW t, HistoryOK(m, t), FileOK(f, m, t), NEW c
  PROVE  /\ FileOK(Trimmed(f), m, t)
         /\ NoneIsMissed(f, m, c) => NoneIsMissed(Trimmed(f), m, c)
  <1>0. f \in Seq(MemoryNode) /\ Limit \in Nat
    BY MemoryBounds DEF FileOK
  <1>1. CASE ~(Len(f) > Limit)
    BY <1>1 DEF Trimmed
  <1>2. CASE Len(f) > Limit
    <2>1. PICK l : l = Trimmed(f)
      OBVIOUS
    <2>2. /\ l \in Seq(MemoryNode) /\ \E g : LeftAt(l, f, g)
          /\ \A i \in DOMAIN f : i + Limit <= Len(f) \/ \E a \in DOMAIN l : l[a] = f[i]
      BY <1>0, <1>2, <2>1, LastOfSeq DEF Trimmed
    <2>3. FileOK(l, m, t)
      BY <2>2, LeftIsOK
    <2>4. ASSUME NoneIsMissed(f, m, c), NEW n \in DOMAIN m
          PROVE  n \in c \/ n + Limit <= Len(m) \/ \E a \in DOMAIN l : l[a].id = n
      <3>1. CASE n \in c \/ n + Limit <= Len(m)
        BY <3>1
      <3>2. CASE \E i \in DOMAIN f : f[i].id = n
        <4>1. PICK i \in DOMAIN f : f[i].id = n
          BY <3>2
        <4>2. CASE \E a \in DOMAIN l : l[a] = f[i]
          BY <4>1, <4>2
        <4>3. CASE i + Limit <= Len(f)
          <5>1. PICK k \in Nat : k = Len(f) /\ DOMAIN f = 1 .. k
            BY <1>0, LenProperties
          <5>2. PICK d \in Nat : i + d = k /\ Limit <= d
            <6>1. k - i \in Nat /\ i + (k - i) = k /\ Limit <= k - i
              BY <1>0, <4>3, <5>1
            <6> QED
              BY <6>1
          <5>3. i + d \in DOMAIN f
            BY <5>1, <5>2
          <5>4. f[i].id + d <= f[i + d].id
            BY <1>0, <5>3, NumbersGrow DEF FileOK
          <5>5. f[i + d].id \in DOMAIN m
            BY <5>3 DEF FileOK, FromHistory
          <5>6. PICK p \in Nat : p = Len(m) /\ DOMAIN m = 1 .. p
            BY LenProperties DEF HistoryOK
          <5>7. n \in Nat /\ f[i + d].id \in Nat /\ f[i + d].id <= p
            BY <5>5, <5>6
          <5>8. n + Limit <= p
            BY <1>0, <4>1, <5>2, <5>4, <5>7
          <5> QED
            BY <5>6, <5>8
        <4> QED
          BY <2>2, <4>2, <4>3
      <3> QED
        BY <2>4, <3>1, <3>2 DEF NoneIsMissed
    <2> QED
      BY <2>1, <2>3, <2>4 DEF NoneIsMissed
  <1> QED
    BY <1>1, <1>2

(* A new node is not missing, and the others are no more than before.      *)
LEMMA OneMoreNoneMissed ==
  ASSUME NEW f \in Seq(MemoryNode), NEW m \in Seq(MemoryNode), NEW c, NoneIsMissed(f, m, c),
         NEW node \in MemoryNode, node.id = Len(m) + 1
  PROVE  NoneIsMissed(Append(f, node), Append(m, node), c)
  <1>1. PICK n \in Nat : n = Len(m) /\ DOMAIN m = 1 .. n
    BY LenProperties
  <1>2. PICK k \in Nat : k = Len(f) /\ DOMAIN f = 1 .. k
    BY LenProperties
  <1>3. PICK o : o = Append(m, node)
    OBVIOUS
  <1>4. PICK h : h = Append(f, node)
    OBVIOUS
  <1>5. DOMAIN o = 1 .. n + 1 /\ Len(o) = n + 1
    BY <1>1, <1>3, AppendProperties
  <1>6. DOMAIN h = 1 .. k + 1 /\ h[k + 1] = node /\ \A i \in 1 .. k : h[i] = f[i]
    BY <1>2, <1>4, AppendProperties
  <1>7. ASSUME NEW i \in DOMAIN o
        PROVE  i \in c \/ i + Limit <= Len(o) \/ \E a \in DOMAIN h : h[a].id = i
    <2>1. CASE i = n + 1
      <3>1. k + 1 \in DOMAIN h /\ h[k + 1].id = i
        BY <1>1, <1>2, <1>6, <2>1
      <3> QED
        BY <3>1
    <2>2. CASE i # n + 1
      <3>1. i \in DOMAIN m
        BY <1>1, <1>5, <2>2
      <3>2. CASE i \in c
        BY <3>2
      <3>3. CASE i + Limit <= Len(m)
        BY <1>1, <1>5, <3>1, <3>3, MemoryBounds
      <3>4. CASE \E a \in DOMAIN f : f[a].id = i
        <4>1. PICK a \in DOMAIN f : f[a].id = i
          BY <3>4
        <4>2. a \in DOMAIN h /\ h[a].id = i
          BY <1>2, <1>6, <4>1
        <4> QED
          BY <4>2
      <3> QED
        BY <3>1, <3>2, <3>3, <3>4 DEF NoneIsMissed
    <2> QED
      BY <2>1, <2>2
  <1> QED
    BY <1>3, <1>4, <1>7 DEF NoneIsMissed

LEMMA StoreKeeps ==
  ASSUME MemInv, NEW s \in MemorySessions, StoreMemory(s)
  PROVE  MemInv'
  <1>1. PICK f, m, t : f = LoadStore /\ m = memories /\ t = time
    OBVIOUS
  <1>2. PICK node : node = [id |-> Len(m) + 1, session |-> s, temperature |-> "hot", timestamp |-> t]
    OBVIOUS
  <1>3. HistoryOK(m, t) /\ FileOK(f, m, t) /\ Len(m) < MaxMemories
    BY <1>1, LoadedIsOK DEF MemInv, StoreMemory
  <1>4. HistoryOK(Append(m, node), t) /\ FileOK(Append(f, node), Append(m, node), t)
    BY <1>2, <1>3, OneNodeMore
  <1>5. PICK o, h : o = Append(m, node) /\ h = Append(f, node)
    OBVIOUS
  <1>6. /\ SaveStore(Trimmed(h), {Len(m) + 1}) /\ memories' = o /\ time' = t
        /\ context' = context /\ cleared' = cleared
    BY <1>1, <1>2, <1>5 DEF StoreMemory
  <1>7. FileOK(Trimmed(h), o, t)
    BY <1>4, <1>5, TrimmedIsOK
  <1>8. NoneIsMissed(Trimmed(h), o, cleared \cup lost)
    <2>1. PICK c : c = cleared \cup lost
      OBVIOUS
    <2>2. NoneIsMissed(f, m, c)
      BY <1>1, <2>1, LoadedIsOK DEF MemInv
    <2>3. node \in MemoryNode
      <3>1. Len(m) \in Nat /\ m \in Seq(MemoryNode)
        BY <1>3, LenProperties DEF HistoryOK
      <3>2. Len(m) + 1 \in 1 .. MaxMemories /\ t \in 0 .. MaxTime /\ "hot" \in Temperatures
        BY <1>3, <3>1, MemoryBounds DEF HistoryOK, Temperatures
      <3> QED
        BY <1>2, <3>2 DEF MemoryNode
    <2>4. NoneIsMissed(h, o, c)
      BY <1>2, <1>3, <1>5, <2>2, <2>3, OneMoreNoneMissed DEF HistoryOK, FileOK
    <2> QED
      BY <1>4, <1>5, <2>1, <2>4, TrimmedIsOK
  <1>9. FileOK(memoryFile, o, t)
    <2>1. PICK g : g = memoryFile /\ FileOK(g, m, t)
      BY <1>1 DEF MemInv
    <2>2. /\ o \in Seq(MemoryNode) /\ DOMAIN m \subseteq DOMAIN o
          /\ \A i \in DOMAIN m : o[i] = m[i]
      <3>1. PICK n \in Nat : n = Len(m) /\ DOMAIN m = 1 .. n /\ m \in Seq(MemoryNode)
        BY <1>3, LenProperties DEF HistoryOK
      <3>2. o \in Seq(MemoryNode) /\ DOMAIN o = 1 .. n + 1 /\ \A i \in 1 .. n : o[i] = m[i]
        <4>1. o \in Seq(MemoryNode)
          BY <1>4, <1>5 DEF HistoryOK
        <4>2. o = Append(m, node) /\ \A M : node \in {node} \cup MemoryNode
          BY <1>5
        <4>3. m \in Seq({node} \cup MemoryNode)
          BY <3>1
        <4> QED
          BY <3>1, <4>1, <4>2, <4>3, AppendProperties
      <3> QED
        BY <3>1, <3>2
    <2>3. t \in Nat /\ t <= t /\ m \in Seq(MemoryNode)
      BY <1>3, MemoryBounds DEF HistoryOK
    <2> QED
      BY <2>1, <2>2, <2>3, FileStaysOK
  <1>10. context' \in Seq(MemoryNode) /\ cleared' \subseteq 1 .. MaxMemories
    BY <1>6 DEF MemInv
  <1>11. PICK n \in Nat : n = Len(m) /\ DOMAIN m = 1 .. n /\ n < MaxMemories /\ m \in Seq(MemoryNode)
    BY <1>3, LenProperties DEF HistoryOK
  <1>12. DOMAIN o = 1 .. n + 1 /\ Len(o) = n + 1
    BY <1>5, <1>11, AppendProperties
  <1>13. {n + 1} \subseteq 1 .. MaxMemories /\ DOMAIN o = DOMAIN m \cup {n + 1}
    BY <1>11, <1>12, MemoryBounds
  <1>14. NoneIsMissed(memoryFile, o, (cleared \cup lost) \cup {n + 1})
    <2>1. PICK c, g : c = cleared \cup lost /\ g = memoryFile /\ NoneIsMissed(g, m, c)
      BY <1>1 DEF MemInv
    <2> QED
      BY <1>11, <1>12, <2>1, OneMoreExcused
  <1>15. PICK z, A : z = Trimmed(h) /\ A = {n + 1} /\ SaveStore(z, A)
    BY <1>6, <1>11
  <1>16. FileOK(z, memories', time') /\ FileOK(memoryFile, memories', time') /\ HistoryOK(memories', time')
    BY <1>4, <1>5, <1>6, <1>7, <1>9, <1>15
  <1>17. A \subseteq 1 .. MaxMemories /\ DOMAIN memories' = DOMAIN memories \cup A
    BY <1>1, <1>6, <1>13, <1>15
  <1>18. NoneIsMissed(z, memories', cleared' \cup lost)
    BY <1>6, <1>8, <1>15
  <1>19. NoneIsMissed(memoryFile, memories', (cleared' \cup lost) \cup A)
    BY <1>6, <1>14, <1>15
  <1> QED
    BY <1>10, <1>15, <1>16, <1>17, <1>18, <1>19, WritingKeeps

(* The decay keeps everything but temperatures, and the oldest cool first. *)
LEMMA CooledIsOK ==
  ASSUME NEW f, HistoryOK(memories, time), FileOK(f, memories, time)
  PROVE  /\ FileOK(CoolNodes(f), memories, time)
         /\ \A c : NoneIsMissed(f, memories, c) => NoneIsMissed(CoolNodes(f), memories, c)
  <1>1. PICK h : h = CoolNodes(f)
    OBVIOUS
  <1>2. PICK k \in Nat : k = Len(f) /\ DOMAIN f = 1 .. k /\ f \in Seq(MemoryNode)
    BY LenProperties DEF FileOK
  <1>3. DOMAIN h = 1 .. k
    BY <1>1, <1>2 DEF CoolNodes
  <1>4. PICK t \in Nat : t = time
    BY MemoryBounds DEF HistoryOK
  <1>5. WarmAge \in Nat /\ ColdAge \in Nat /\ WarmAge < ColdAge
    BY MemoryBounds
  <1>6. ASSUME NEW i \in 1 .. k
        PROVE  /\ h[i] \in MemoryNode /\ h[i].id = f[i].id /\ h[i].session = f[i].session
               /\ h[i].timestamp = f[i].timestamp
               /\ h[i].timestamp \in Nat
               /\ h[i].temperature = "cold" <=> f[i].timestamp + ColdAge < t
    <2>1. PICK x \in MemoryNode : x = f[i]
      BY <1>2, ElementOfSeq
    <2>2. PICK b \in Nat : b = x.timestamp /\ b <= t
      <3>1. x.timestamp \in Nat
        BY <2>1, MemoryBounds DEF MemoryNode
      <3>2. f[i].id \in DOMAIN memories /\ f[i].timestamp = memories[f[i].id].timestamp
        BY <1>2 DEF FileOK, FromHistory
      <3>3. f[i].timestamp <= t
        BY <1>4, <3>2 DEF HistoryOK
      <3> QED
        BY <2>1, <3>1, <3>3
    <2>3. PICK e \in Temperatures :
            e = IF t - b > ColdAge THEN "cold" ELSE IF t - b > WarmAge THEN "warm" ELSE x.temperature
      BY <2>1 DEF MemoryNode, Temperatures
    <2>4. h[i] = [x EXCEPT !.temperature = e]
      BY <1>1, <1>2, <1>4, <2>1, <2>2, <2>3 DEF CoolNodes
    <2>5. h[i] \in MemoryNode /\ h[i].id = x.id /\ h[i].session = x.session
          /\ h[i].timestamp = x.timestamp /\ h[i].temperature = e
      BY <2>1, <2>3, <2>4 DEF MemoryNode
    <2>6. x.temperature = "cold" => b + ColdAge < t
      BY <1>2, <1>4, <2>1, <2>2 DEF FileOK, ColdIsOld
    <2>7. e = "cold" <=> b + ColdAge < t
      BY <1>5, <2>2, <2>3, <2>6
    <2> QED
      BY <2>1, <2>2, <2>5, <2>7
  <1>7. h \in Seq(MemoryNode)
    <2>1. h = [i \in 1 .. k |-> h[i]]
      BY <1>1, <1>2 DEF CoolNodes
    <2> QED
      BY <1>6, <2>1
  <1>8. FromHistory(h, memories)
    BY <1>2, <1>3, <1>6 DEF FileOK, FromHistory
  <1>9. InOrder(h)
    BY <1>2, <1>3, <1>6 DEF FileOK, InOrder
  <1>10. ColdIsOld(h, time)
    BY <1>3, <1>4, <1>6 DEF ColdIsOld
  <1>11. OldIsCold(h)
    <2>1. ASSUME NEW i \in 1 .. k, NEW j \in 1 .. k, i < j, h[j].temperature = "cold"
          PROVE  h[i].temperature = "cold"
      <3>1. f[i].id < f[j].id
        BY <1>2, <2>1 DEF FileOK, InOrder
      <3>2. /\ f[i].id \in DOMAIN memories /\ f[i].timestamp = memories[f[i].id].timestamp
            /\ f[j].id \in DOMAIN memories /\ f[j].timestamp = memories[f[j].id].timestamp
        BY <1>2 DEF FileOK, FromHistory
      <3>3. f[i].timestamp <= f[j].timestamp
        BY <3>1, <3>2 DEF HistoryOK
      <3>4. f[j].timestamp + ColdAge < t /\ f[i].timestamp \in Nat /\ f[j].timestamp \in Nat
        BY <1>6, <2>1
      <3>5. f[i].timestamp + ColdAge < t
        BY <1>5, <3>3, <3>4
      <3> QED
        BY <1>6, <3>5
    <2> QED
      BY <1>3, <2>1 DEF OldIsCold
  <1>12. FileOK(h, memories, time)
    BY <1>7, <1>8, <1>9, <1>10, <1>11 DEF FileOK
  <1>13. ASSUME NEW c, NoneIsMissed(f, memories, c) PROVE NoneIsMissed(h, memories, c)
    BY <1>2, <1>3, <1>6, <1>13 DEF NoneIsMissed
  <1> QED
    BY <1>1, <1>12, <1>13

LEMMA ContextKeeps ==
  ASSUME MemInv, NEW s \in MemorySessions, GetContext(s)
  PROVE  MemInv'
  <1>1. PICK f, h : f = LoadStore /\ h = CoolNodes(f)
    OBVIOUS
  <1>2. HistoryOK(memories, time) /\ FileOK(f, memories, time) /\ f = memoryFile
    BY <1>1, LoadedIsOK DEF MemInv
  <1>3. /\ FileOK(h, memories, time)
        /\ \A c : NoneIsMissed(f, memories, c) => NoneIsMissed(h, memories, c)
    BY <1>1, <1>2, CooledIsOK
  <1>4. /\ SaveStore(h, {}) /\ memories' = memories /\ time' = time /\ cleared' = cleared
    BY <1>1 DEF GetContext
  <1>5. PICK k : k = NodesAt(h, {i \in DOMAIN h : h[i].session = s /\ h[i].temperature # "cold"})
    OBVIOUS
  <1>6. context' = Newest(k)
    BY <1>1, <1>5 DEF GetContext
  <1>7. k \in Seq(MemoryNode)
    BY <1>3, <1>5, NodesAtTakes DEF FileOK
  <1>8. context' \in Seq(MemoryNode)
    <2>1. CASE Len(k) > ContextSize
      <3>1. ContextSize \in Nat
        BY MemoryBounds
      <3> QED
        BY <1>6, <1>7, <2>1, <3>1, LastOfSeq DEF Newest
    <2>2. CASE ~(Len(k) > ContextSize)
      BY <1>6, <1>7, <2>2 DEF Newest
    <2> QED
      BY <2>1, <2>2
  <1>9. /\ NoneIsMissed(h, memories, cleared \cup lost)
        /\ NoneIsMissed(memoryFile, memories, (cleared \cup lost) \cup {})
    <2>1. PICK c : c = cleared \cup lost
      OBVIOUS
    <2>2. c \cup {} = c /\ NoneIsMissed(memoryFile, memories, c)
      BY <2>1 DEF MemInv
    <2>3. NoneIsMissed(h, memories, c)
      BY <1>2, <1>3, <2>2
    <2> QED
      BY <2>1, <2>2, <2>3
  <1>10. cleared' \subseteq 1 .. MaxMemories /\ FileOK(memoryFile, memories, time)
    BY <1>4 DEF MemInv
  <1>11. PICK A : A = {} /\ SaveStore(h, A)
    BY <1>4
  <1>12. FileOK(h, memories', time') /\ FileOK(memoryFile, memories', time') /\ HistoryOK(memories', time')
    BY <1>2, <1>3, <1>4, <1>10
  <1>13. A \subseteq 1 .. MaxMemories /\ DOMAIN memories' = DOMAIN memories \cup A
    BY <1>4, <1>11
  <1>14. /\ NoneIsMissed(h, memories', cleared' \cup lost)
         /\ NoneIsMissed(memoryFile, memories', (cleared' \cup lost) \cup A)
    BY <1>4, <1>9, <1>11
  <1> QED
    BY <1>8, <1>10, <1>11, <1>12, <1>13, <1>14, WritingKeeps

(* Clearing drops the nodes of the session and no other.                   *)
LEMMA ClearKeeps ==
  ASSUME MemInv, NEW s \in MemorySessions, ClearMemory(s)
  PROVE  MemInv'
  <1>1. PICK f, P : f = LoadStore /\ P = {i \in DOMAIN f : f[i].session # s}
    OBVIOUS
  <1>2. HistoryOK(memories, time) /\ FileOK(f, memories, time) /\ f = memoryFile
    BY <1>1, LoadedIsOK DEF MemInv
  <1>3. PICK l : l = NodesAt(f, P)
    OBVIOUS
  <1>4. SaveStore(l, {}) /\ memories' = memories /\ time' = time /\ context' = context
    BY <1>1, <1>3 DEF ClearMemory
  <1>5. l \in Seq(MemoryNode) /\ TakenUpTo(l, f, P, Len(f))
    BY <1>2, <1>3, NodesAtTakes DEF FileOK
  <1>6. FileOK(l, memories, time)
    BY <1>2, <1>5, LeftIsOK DEF TakenUpTo
  <1>7. cleared' = cleared \cup {n.id : n \in {m \in NodesHeld(memories) : m.session = s}}
    BY DEF ClearMemory
  <1>8. PICK z \in Nat : DOMAIN memories = 1 .. z
    BY <1>2, LenProperties DEF HistoryOK
  <1>9. \A n \in DOMAIN memories : memories[n].id = n /\ memories[n] \in MemoryNode
    BY <1>2, ElementOfSeq, LenProperties DEF HistoryOK
  <1>10. \A n \in DOMAIN memories : memories[n].session = s => n \in cleared'
    BY <1>7, <1>9 DEF NodesHeld
  <1>11. cleared' \subseteq 1 .. MaxMemories
    <2>1. cleared \subseteq 1 .. MaxMemories
      BY DEF MemInv
    <2>2. \A n \in NodesHeld(memories) : n.id \in 1 .. MaxMemories
      BY <1>9 DEF NodesHeld, MemoryNode
    <2> QED
      BY <1>7, <2>1, <2>2
  <1>12. NoneIsMissed(l, memories, cleared' \cup lost)
    <2>1. NoneIsMissed(f, memories, cleared \cup lost)
      BY <1>2 DEF MemInv
    <2>2. ASSUME NEW n \in DOMAIN memories
          PROVE  \/ n \in cleared' \cup lost \/ n + Limit <= Len(memories)
                 \/ \E a \in DOMAIN l : l[a].id = n
      <3>1. CASE n \in cleared \cup lost \/ n + Limit <= Len(memories)
        BY <1>7, <3>1
      <3>2. CASE \E i \in DOMAIN f : f[i].id = n
        <4>1. PICK i \in DOMAIN f : f[i].id = n
          BY <3>2
        <4>2. CASE i \notin P
          <5>1. f[i].session = s
            BY <1>1, <4>2
          <5>2. memories[n].session = s
            BY <1>2, <4>1, <5>1 DEF FileOK, FromHistory
          <5> QED
            BY <1>10, <5>2
        <4>3. CASE i \in P
          <5>1. PICK g : /\ LeftAt(l, f, g)
                         /\ \A j \in P : j \in DOMAIN f /\ j <= Len(f) => \E a \in DOMAIN l : g[a] = j
            BY <1>5 DEF TakenUpTo
          <5>2. i <= Len(f)
            BY <1>2, <4>1, LenProperties DEF FileOK
          <5>3. PICK a \in DOMAIN l : g[a] = i
            BY <4>3, <5>1, <5>2
          <5>4. l[a] = f[i]
            BY <5>1, <5>3 DEF LeftAt
          <5> QED
            BY <4>1, <5>4
        <4> QED
          BY <4>2, <4>3
      <3> QED
        BY <2>1, <3>1, <3>2 DEF NoneIsMissed
    <2> QED
      BY <2>2 DEF NoneIsMissed
  <1>13. context' \in Seq(MemoryNode) /\ FileOK(memoryFile, memories, time)
    BY <1>4 DEF MemInv
  <1>14. PICK A : A = {} /\ SaveStore(l, A)
    BY <1>4
  <1>15. FileOK(l, memories', time') /\ FileOK(memoryFile, memories', time') /\ HistoryOK(memories', time')
    BY <1>2, <1>4, <1>6, <1>13
  <1>16. A \subseteq 1 .. MaxMemories /\ DOMAIN memories' = DOMAIN memories \cup A
    BY <1>4, <1>14
  <1>17. NoneIsMissed(memoryFile, memories, (cleared' \cup lost) \cup A)
    <2>1. cleared \cup lost \subseteq (cleared' \cup lost) \cup A
      BY <1>7
    <2>2. NoneIsMissed(memoryFile, memories, cleared \cup lost)
      BY DEF MemInv
    <2> QED
      BY <2>1, <2>2, MoreExcused
  <1>18. /\ NoneIsMissed(l, memories', cleared' \cup lost)
         /\ NoneIsMissed(memoryFile, memories', (cleared' \cup lost) \cup A)
    BY <1>4, <1>12, <1>17
  <1> QED
    BY <1>11, <1>13, <1>14, <1>15, <1>16, <1>18, WritingKeeps

LEMMA MemInvStart == ASSUME MemoryInit PROVE MemInv
  <1>1. <<>> \in Seq(MemoryNode) /\ DOMAIN <<>> = {} /\ 0 \in 0 .. MaxTime
    BY MemoryBounds
  <1>2. HistoryOK(memories, time)
    BY <1>1 DEF MemoryInit, HistoryOK
  <1>3. FileOK(memoryFile, memories, time)
    BY NoFileIsOK DEF MemoryInit
  <1>4. NoneIsMissed(memoryFile, memories, cleared \cup lost)
    BY <1>1 DEF MemoryInit, NoneIsMissed
  <1> QED
    BY <1>1, <1>2, <1>3, <1>4 DEF MemoryInit, MemInv

LEMMA MemInvStep == ASSUME MemInv, [MemoryNext]_memoryVars PROVE MemInv'
  <1>1. ASSUME TimePasses PROVE MemInv'
    <2>1. PICK t, m, f : t = time /\ m = memories /\ f = memoryFile
      OBVIOUS
    <2>2. /\ time' = t + 1 /\ t < MaxTime /\ memories' = m /\ memoryFile' = f
          /\ UNCHANGED <<torn, context, cleared, lost>>
      BY <1>1, <2>1 DEF TimePasses
    <2>3. HistoryOK(m, t) /\ FileOK(f, m, t)
      BY <2>1 DEF MemInv
    <2>4. t \in Nat /\ t + 1 \in 0 .. MaxTime /\ t <= t + 1 /\ m \in Seq(MemoryNode)
      BY <2>2, <2>3, MemoryBounds DEF HistoryOK
    <2>5. HistoryOK(m, t + 1)
      <3>1. \A i \in DOMAIN m : m[i].timestamp \in Nat
        <4>1. \A i \in DOMAIN m : m[i] \in MemoryNode
          BY <2>4, ElementOfSeq, LenProperties
        <4> QED
          BY <4>1, MemoryBounds DEF MemoryNode
      <3> QED
        BY <2>3, <2>4, <3>1 DEF HistoryOK
    <2>6. FileOK(f, m, t + 1)
      BY <2>3, <2>4, FileStaysOK
    <2> QED
      BY <2>1, <2>2, <2>5, <2>6 DEF MemInv
  <1>2. ASSUME UNCHANGED memoryVars PROVE MemInv'
    BY <1>2 DEF memoryVars, MemInv, HistoryOK, FileOK, FromHistory, InOrder, ColdIsOld, OldIsCold, NoneIsMissed
  <1> QED
    BY <1>1, <1>2, StoreKeeps, ContextKeeps, ClearKeeps DEF MemoryNext

LEMMA MemInvGives == ASSUME MemInv PROVE MemoryTypeOK /\ MemoryIsKept
  <1>1. MemoryTypeOK
    BY DEF MemInv, HistoryOK, FileOK, MemoryTypeOK
  <1>2. MemoryIsKept
    <2>1. \A i \in DOMAIN memories : memories[i].id = i
      BY DEF MemInv, HistoryOK
    <2>2. PICK z \in Nat : z = Len(memories) /\ DOMAIN memories = 1 .. z
      BY LenProperties DEF MemInv, HistoryOK
    <2>3. ASSUME NEW n \in DOMAIN memories, n \notin cleared \cup lost,
                 \A i \in DOMAIN memoryFile : memoryFile[i].id # n
          PROVE  Len(memories) - n >= Limit
      <3>1. n + Limit <= z
        BY <2>2, <2>3 DEF MemInv, NoneIsMissed
      <3>2. n \in Nat /\ Limit \in Nat
        BY <2>2, MemoryBounds
      <3> QED
        BY <2>2, <3>1, <3>2
    <2>4. \A n \in NodesHeld(memories) :
            n.id \notin cleared \cup lost /\ (\A k \in NodesHeld(memoryFile) : k.id # n.id)
              => Len(memories) - n.id >= Limit
      BY <2>1, <2>3 DEF NodesHeld
    <2> QED
      BY <2>4 DEF MemInv, FileOK, OldIsCold, MemoryIsKept
  <1> QED
    BY <1>1, <1>2

(* Whatever is stored, read, cleared and trimmed, whatever time passes and *)
(* whichever writes fail or tear the file: a memory that is neither        *)
(* cleared nor lost by such a write is in the file or older than Limit     *)
(* others, and the older a node of the file the colder it is.              *)
THEOREM TheMemoryIsKept == MemorySpec => []MemoryIsKept
  <1>1. MemorySpec => []MemInv
    BY MemInvStart, MemInvStep, PTL DEF MemorySpec
  <1>2. MemInv => MemoryIsKept
    BY MemInvGives
  <1> QED
    BY <1>1, <1>2, PTL

-------------------------------------------------------------------------------
(* Each part takes its own steps.                                          *)
LEMMA PartsStep ==
  ASSUME [DesktopNext]_desktopVars
  PROVE  /\ [ChatNext]_chatVars /\ [AgentNext]_agentVars /\ [FuserNext]_fuserVars
         /\ [PanelsNext]_panelVars /\ [TabsNext]_tabVars
         /\ [MissionNext]_missionVars /\ [WorkspaceNext]_workspaceVars /\ [VaultNext]_vaultVars
         /\ [TerminalsNext]_termVars /\ [FlowNext]_flowVars /\ [MemoryNext]_memoryVars
  BY DEF DesktopNext, Plays, desktopVars

LEMMA PartsStart ==
  ASSUME DesktopInit
  PROVE  /\ ChatInit /\ AgentInit /\ FuserInit /\ PanelsInit /\ TabsInit /\ MissionInit
         /\ WorkspaceInit /\ VaultInit /\ TerminalsInit /\ FlowInit /\ MemoryInit
  BY DEF DesktopInit

-------------------------------------------------------------------------------
(* The fusion under way has tried the primary model and at most one more;  *)
(* what was given up has tried all it could.                               *)
FuserInv ==
  /\ cloudKey \in BOOLEAN /\ sameModel \in BOOLEAN
  /\ IsFusing => /\ fusion = [of |-> fusion.of, frames |-> fusion.frames, tried |-> fusion.tried]
                 /\ fusion.tried = <<"primary">> \/ Len(fusion.tried) = 2
  /\ failure.set /\ Len(failure.tried) < 2 => ~cloudKey /\ sameModel
  /\ status.frames = frames /\ status.fusing = IsFusing

LEMMA OneMore ==
  ASSUME NEW x, NEW y
  PROVE  Append(<<x>>, y) \in Seq({x, y}) /\ Len(Append(<<x>>, y)) = 2
  <1>1. <<x>> \in Seq({x, y}) /\ Len(<<x>>) = 1
    OBVIOUS
  <1> QED
    BY <1>1, AppendProperties

(* A fusion that nothing is left to try for has tried two, or had no more. *)
LEMMA NothingLeft ==
  ASSUME FuserInv, IsFusing, NextAttempts = {}
  PROVE  Len(fusion.tried) < 2 => ~cloudKey /\ sameModel
  <1>1. CASE fusion.tried = <<"primary">>
    <2>1. "cloud" \notin NextAttempts /\ "fallback model" \notin NextAttempts
      OBVIOUS
    <2>2. "cloud" \in Attempts /\ "fallback model" \in Attempts
      BY DEF Attempts
    <2>3. ~cloudKey
      BY <1>1, <2>1, <2>2 DEF NextAttempts
    <2>4. sameModel
      BY <1>1, <2>1, <2>2, <2>3 DEF NextAttempts
    <2> QED
      BY <2>3, <2>4
  <1>2. CASE fusion.tried # <<"primary">>
    <2>1. Len(fusion.tried) = 2
      BY <1>2 DEF FuserInv
    <2> QED
      BY <2>1
  <1> QED
    BY <1>1, <1>2

LEMMA FuserStart == FuserInit => FuserInv
  <1> SUFFICES ASSUME FuserInit
               PROVE  FuserInv
    OBVIOUS
  <1>1. /\ cloudKey \in BOOLEAN /\ sameModel \in BOOLEAN
        /\ IsFusing = FALSE /\ frames = {} /\ failure.set = FALSE
    BY DEF FuserInit, IsFusing
  <1>2. status.frames = {} /\ status.fusing = FALSE
    BY DEF FuserInit, StatusFor
  <1> QED
    BY <1>1, <1>2 DEF FuserInv

(* What happens to the input and the audit leaves the fusion alone.        *)
LEMMA FuserStep ==
  ASSUME FuserInv, [FuserNext]_fuserVars
  PROVE  FuserInv'
  <1>1. CASE UNCHANGED <<cloudKey, sameModel, frames, fusion, status, failure>>
    BY <1>1 DEF FuserInv, IsFusing
  <1>2. ASSUME NEW id \in UsedFrames, ToggleFrame(id)
        PROVE  FuserInv'
    BY <1>2 DEF ToggleFrame, FuserInv, IsFusing, StatusFor
  <1>3. CASE HandleFuse
    <2>1. fusion'.tried = <<"primary">> /\ fusion' # NoFusion
      BY <1>3 DEF HandleFuse, NoFusion
    <2> QED
      BY <1>3, <2>1 DEF HandleFuse, FuserInv, IsFusing, StatusFor
  <1>4. ASSUME NEW empty \in BOOLEAN, Answers(empty)
        PROVE  FuserInv'
    BY <1>4 DEF Answers, Ends, FuserInv, IsFusing, StatusFor
  <1>5. ASSUME RequestFails, NEW a \in NextAttempts,
               fusion' = [fusion EXCEPT !.tried = Append(@, a)],
               UNCHANGED <<cloudKey, sameModel, text, frames, status, failure, auditVars, typed>>
        PROVE  FuserInv'
    <2>1. /\ fusion = [of |-> fusion.of, frames |-> fusion.frames, tried |-> fusion.tried]
          /\ fusion.tried = <<"primary">> /\ a \in {"cloud", "fallback model"}
      BY <1>5 DEF RequestFails, FuserInv, NextAttempts
    <2>2. fusion' = [of |-> fusion.of, frames |-> fusion.frames, tried |-> Append(<<"primary">>, a)]
      BY <1>5, <2>1
    <2>3. fusion'.tried = Append(<<"primary">>, a) /\ Len(fusion'.tried) = 2
      BY <2>2, OneMore
    <2>4. IsFusing' /\ IsFusing
      BY <1>5, <2>3, EmptySeq DEF IsFusing, NoFusion, RequestFails
    <2>5. fusion' = [of |-> fusion'.of, frames |-> fusion'.frames, tried |-> fusion'.tried]
      BY <2>2
    <2> QED
      BY <1>5, <2>3, <2>4, <2>5 DEF FuserInv
  <1>6. CASE RequestFails /\ NextAttempts = {} /\ Ends(TRUE, text)
    BY <1>6, NothingLeft DEF RequestFails, Ends, FuserInv, IsFusing, StatusFor
  <1>7. CASE TypeText \/ SendText \/ (\E audit \in BOOLEAN : ModeChange(audit)) \/ UNCHANGED fuserVars
    BY <1>1, <1>7 DEF TypeText, SendText, ModeChange, fuserVars
  <1> QED
    BY <1>2, <1>3, <1>4, <1>5, <1>6, <1>7 DEF FuserNext, RequestFails

LEMMA FuserInvGives == FuserInv => FusionIsExhaustive
  BY DEF FuserInv, FusionIsExhaustive

-------------------------------------------------------------------------------
(* However the application is used: while the chat shows busy its stream   *)
(* is open, and a prompt goes on in a session an earlier process founded   *)
(* and left (ChatStream.tla, sendMessage and the handlers of main).        *)
THEOREM DesktopStreamsAgree == DesktopSpec => []StreamsAgree
  <1>1. ChatTypeOK /\ SessionInv /\ WireInv /\ ViewInv => StreamsAgree
    BY ViewGives DEF StreamsAgree, SessionInv
  <1> QED
    BY <1>1, PartsStart, PartsStep, ChatTypeInit, ChatTypeStep, SessionStart, SessionStep,
       ViewStart, ViewStep, PTL DEF DesktopSpec

(* However the application is used: executeAgent gives up only after every *)
(* reachable endpoint, fuseText only after its fallback, and the status    *)
(* bar of the modulator speaks of the frames that are picked.              *)
THEOREM DesktopFailuresAreExhaustive == DesktopSpec => []FailuresAreExhaustive
  <1>1. AgentInv /\ FuserInv => FailuresAreExhaustive
    BY AgentInvGives, FuserInvGives DEF FailuresAreExhaustive
  <1> QED
    BY <1>1, PartsStart, PartsStep, AgentStart, AgentStep, FuserStart, FuserStep, PTL
       DEF DesktopSpec

(* However the application is used: the tool group of the agent panel      *)
(* shows a running badge for each call not yet settled, and one badge for  *)
(* each call (updateToolGroup, JcodePanel).                                *)
THEOREM DesktopBadgesKeepUp == DesktopSpec => []BadgesSettle
  <1>1. MaxCalls \in Nat
    BY AgentBounds
  <1> QED
    BY <1>1, PartsStart, PartsStep, BadgeStart, BadgeStep, BadgeInvGives, PTL DEF DesktopSpec

(* However the application is used: at rest the one browser view lies      *)
(* where the layout wants it, and the active tab bears its page            *)
(* (panel-manager.ts, BrowserPanel and BrowserViewContainer).              *)
THEOREM DesktopBrowserAgrees == DesktopSpec => []BrowserAgrees
  <1>1. PanelInv /\ TabInv => BrowserAgrees
    BY PanelInvGives, TabInvGives DEF BrowserAgrees
  <1> QED
    BY <1>1, PartsStart, PartsStep, PanelInvStart, PanelInvStep, TabInvStart, TabInvStep, PTL
       DEF DesktopSpec

(* However the application is used: at rest the sidebar shows what the     *)
(* main process has, the workspace and its sessions (workspaceStore), the  *)
(* prompts (PromptVaultPanel) and the state of Mission Control             *)
(* (useMissionControl).                                                    *)
THEOREM DesktopSidebarAgrees == DesktopSpec => []SidebarAgrees
  <1>1. WorkspaceInv /\ VaultInv /\ MissionInv => SidebarAgrees
    BY WorkspaceInvGives, VaultInvGives, MissionInvGives DEF SidebarAgrees
  <1>2. /\ WorkspaceInv /\ [WorkspaceNext]_workspaceVars => WorkspaceInv'
        /\ VaultInv /\ [VaultNext]_vaultVars => VaultInv'
    BY WorkspaceInvStep, VaultInvStep
  <1> QED
    BY <1>1, <1>2, PartsStart, PartsStep, WorkspaceInvStart, VaultInvStart,
       MissionInvStart, MissionInvStep, PTL DEF DesktopSpec

(* However the application is used: each line of a stream is shown,        *)
(* buffered or on the wire once, its tokens in order (useChatStream.ts).   *)
THEOREM DesktopTokensArriveOnce == DesktopSpec => []TokensArriveOnce
  BY PartsStart, PartsStep, TokenStart, TokenStep, TokenInvGives, ViewStart, ViewStep,
     SessionStart, SessionStep, ChatTypeInit, ChatTypeStep, PTL DEF DesktopSpec

(* However the application is used: no shell runs unknown to its manager,  *)
(* and at rest the tabs are the terminals (terminal-manager.ts).           *)
THEOREM DesktopTabsAreTheTerminals == DesktopSpec => []TabsAreTheTerminals
  <1>1. TermInv /\ [TerminalsNext]_termVars => TermInv'
    BY TermInvStep
  <1> QED
    BY <1>1, PartsStart, PartsStep, TermInvStart, TermInvGives, PTL DEF DesktopSpec

(* However the application is used: once nothing is under way the flow     *)
(* graph is as it was saved and shown as it is (graph-service.ts,          *)
(* appStore.ts), and a memory of the agent panel is in its file unless it  *)
(* was cleared, lost by a write that failed, or trimmed for 500 younger    *)
(* ones (kore-memory.ts).                                                  *)
THEOREM DesktopSavedIsKept == DesktopSpec => []SavedIsKept
  <1>1. /\ FlowInv /\ PlacesKept /\ [FlowNext]_flowVars => FlowInv' /\ PlacesKept'
        /\ MemInv /\ [MemoryNext]_memoryVars => MemInv'
    BY FlowStep, PlacesStep, MemInvStep
  <1>2. FlowInv /\ PlacesKept /\ MemInv => SavedIsKept
    BY FlowInvGives, MemInvGives DEF SavedIsKept
  <1> QED
    BY <1>1, <1>2, PartsStart, PartsStep, FlowStart, PlacesStart, MemInvStart, PTL DEF DesktopSpec

-------------------------------------------------------------------------------
(* Types of the agent panel: the rounds and sends stay within their bounds *)
(* and each tool is started at most twice, by kore-exec and by the bridge. *)
AgentCounts ==
  /\ round \in 0 .. Rounds /\ sends \in 0 .. MaxSends
  /\ phase \in {"ask", "try", "tools"} => round < Rounds
  /\ performed \in [1 .. Len(calls) -> 0 .. 2]
  /\ \A i \in 1 .. Len(calls) : /\ stage[i] = "kore" => performed[i] = 0
                                /\ stage[i] = "bridge" => performed[i] <= 1

LEMMA AgentCountsStart == AgentInit => AgentCounts
  <1> SUFFICES ASSUME AgentInit PROVE AgentCounts
    OBVIOUS
  <1>1. /\ phase = "idle" /\ round = 0 /\ sends = 0 /\ calls = <<>> /\ performed = <<>>
    BY DEF AgentInit
  <1>2. 1 .. Len(calls) = {}
    BY <1>1, EmptySeq
  <1>3. performed \in [1 .. Len(calls) -> 0 .. 2]
    BY <1>1, <1>2
  <1>4. round \in 0 .. Rounds /\ sends \in 0 .. MaxSends
    BY <1>1, AgentBounds
  <1> QED
    BY <1>1, <1>2, <1>3, <1>4 DEF AgentCounts

(* A tool is started once more.                                            *)
LEMMA StartedOnce ==
  ASSUME AgentCounts, BadgeInv, NEW i \in DOMAIN calls, stage[i] \in {"kore", "bridge"},
         UNCHANGED <<calls, phase, round, sends>>,
         NEW b \in {"bridge", "settled"}, stage' = [stage EXCEPT ![i] = b],
         b = "bridge" => stage[i] = "kore",
         Perform(i) \/ UNCHANGED performed
  PROVE  AgentCounts'
  <1>1. /\ DOMAIN calls = 1 .. Len(calls)
        /\ stage \in [1 .. Len(calls) -> {"kore", "bridge", "settled"}]
        /\ performed \in [1 .. Len(calls) -> 0 .. 2]
    BY LenProperties DEF BadgeInv, AgentCounts
  <1>2. performed[i] \in 0 .. 1 /\ (stage[i] = "kore" => performed[i] = 0)
    BY <1>1 DEF AgentCounts
  <1>3. /\ performed' \in [1 .. Len(calls) -> 0 .. 2]
        /\ \A k \in 1 .. Len(calls) : k # i => performed'[k] = performed[k]
        /\ performed'[i] \in {performed[i], performed[i] + 1}
    <2>1. CASE UNCHANGED performed
      BY <1>1, <2>1
    <2>2. CASE Perform(i)
      <3>1. performed' = [performed EXCEPT ![i] = @ + 1] /\ performed[i] + 1 \in 0 .. 2
        BY <1>2, <2>2 DEF Perform
      <3> QED
        BY <1>1, <3>1
    <2> QED
      BY <2>1, <2>2
  <1>4. ASSUME NEW k \in 1 .. Len(calls)
        PROVE  /\ stage'[k] = "kore" => performed'[k] = 0
               /\ stage'[k] = "bridge" => performed'[k] <= 1
    <2>1. CASE k = i
      <3>1. stage'[k] = b
        BY <1>1, <2>1
      <3>2. performed'[i] <= 1 \/ stage[i] # "kore"
        BY <1>2, <1>3
      <3> QED
        BY <2>1, <3>1, <3>2
    <2>2. CASE k # i
      BY <1>1, <1>3, <2>2 DEF AgentCounts
    <2> QED
      BY <2>1, <2>2
  <1> QED
    BY <1>3, <1>4 DEF AgentCounts

LEMMA AgentCountsStep ==
  ASSUME AgentInv, BadgeInv, AgentCounts, [AgentNext]_agentVars
  PROVE  AgentCounts'
  <1>0. Rounds \in Nat \ {0} /\ MaxSends \in Nat /\ MaxCalls \in Nat
    BY AgentBounds
  <1>1. ASSUME UNCHANGED <<round, sends, calls, stage, performed>>,
               phase' = phase \/ phase' \in {"idle", "pipeline"} \/ phase = "ask"
        PROVE  AgentCounts'
    BY <1>1 DEF AgentCounts
  <1>2. CASE AgentSend
    <2>1. /\ phase' = "ask" /\ sends < MaxSends /\ sends' = sends + 1 /\ round' = 0
          /\ calls' = <<>> /\ performed' = <<>>
      BY <1>2 DEF AgentSend
    <2>2. 1 .. Len(calls') = {}
      BY <2>1, EmptySeq
    <2>3. performed' \in [1 .. Len(calls') -> 0 .. 2]
      BY <2>1, <2>2
    <2>4. round' \in 0 .. Rounds /\ sends' \in 0 .. MaxSends /\ round' < Rounds
      BY <1>0, <2>1 DEF AgentCounts
    <2> QED
      BY <2>2, <2>3, <2>4 DEF AgentCounts
  <1>3. CASE CheckEndpoints \/ SkipUnreachable \/ EndpointsExhausted \/ PipelineEnds
    BY <1>1, <1>3 DEF CheckEndpoints, SkipUnreachable, EndpointsExhausted, PipelineEnds, Throws
  <1>4. ASSUME NEW why \in Failures, EndpointFails(why)
        PROVE  AgentCounts'
    BY <1>1, <1>4 DEF EndpointFails, Throws
  <1>5. ASSUME NEW cs \in ToolCalls, EndpointAnswers(cs)
        PROVE  AgentCounts'
    <2>1. PICK n \in 0 .. MaxCalls : cs \in [1 .. n -> Tools]
      BY DEF ToolCalls
    <2>2. n \in Nat /\ DOMAIN cs = 1 .. n /\ Len(cs) = n
      BY <1>0, <2>1, LenProperties
    <2>3. /\ calls' = cs /\ stage' = [i \in 1 .. n |-> "kore"] /\ performed' = [i \in 1 .. n |-> 0]
          /\ phase = "try" /\ UNCHANGED <<round, sends>>
      BY <1>5, <2>2 DEF EndpointAnswers
    <2>4. performed' \in [1 .. Len(calls') -> 0 .. 2]
      BY <2>2, <2>3
    <2>5. \A i \in 1 .. Len(calls') : stage'[i] = "kore" /\ performed'[i] = 0
      BY <2>2, <2>3
    <2> QED
      BY <2>3, <2>4, <2>5 DEF AgentCounts
  <1>6. ASSUME NEW i \in DOMAIN calls, KoreExecutes(i)
        PROVE  AgentCounts'
    <2>1. /\ stage[i] = "kore" /\ UNCHANGED <<calls, phase, round, sends>>
      BY <1>6 DEF KoreExecutes
    <2>2. \E b \in {"bridge", "settled"} : stage' = [stage EXCEPT ![i] = b]
      BY <1>6 DEF KoreExecutes, Settle, HandOver
    <2>3. Perform(i) \/ UNCHANGED performed
      BY <1>6 DEF KoreExecutes
    <2> QED
      BY <2>1, <2>2, <2>3, StartedOnce
  <1>7. ASSUME NEW i \in DOMAIN calls, BridgeExecutes(i)
        PROVE  AgentCounts'
    <2>1. /\ stage[i] = "bridge" /\ UNCHANGED <<calls, phase, round, sends>>
          /\ stage' = [stage EXCEPT ![i] = "settled"] /\ Perform(i)
      BY <1>7 DEF BridgeExecutes, Settle
    <2> QED
      BY <2>1, StartedOnce
  <1>8. CASE RoundEnds
    <2>1. /\ phase = "tools" /\ round' = round + 1 /\ UNCHANGED <<sends, calls, stage, performed>>
          /\ phase' = IF round + 1 < Rounds THEN "ask" ELSE "pipeline"
      BY <1>8 DEF RoundEnds
    <2>2. round' \in 0 .. Rounds /\ (phase' = "ask" => round' < Rounds)
          /\ phase' \in {"ask", "pipeline"}
      BY <1>0, <2>1 DEF AgentCounts
    <2> QED
      BY <2>1, <2>2 DEF AgentCounts
  <1>9. CASE UNCHANGED agentVars
    BY <1>1, <1>9 DEF agentVars
  <1> QED
    BY <1>2, <1>3, <1>4, <1>5, <1>6, <1>7, <1>8, <1>9 DEF AgentNext, AgentWork

LEMMA AgentCountsGive == AgentInv /\ BadgeInv /\ AgentCounts => AgentTypeOK
  <1> SUFFICES ASSUME AgentInv, BadgeInv, AgentCounts PROVE AgentTypeOK
    OBVIOUS
  <1>1. DOMAIN calls = 1 .. Len(calls)
    BY LenProperties DEF BadgeInv
  <1> QED
    BY <1>1 DEF AgentInv, BadgeInv, AgentCounts, AgentTypeOK, Tries, Badge

-------------------------------------------------------------------------------
(* Types of the panels: beside what PanelInv says, the layout's own        *)
(* settings; no message makes the right view visible.                      *)
PanelRest == /\ tab \in Tabs /\ center \in {"chat", "browser"} /\ centerSize \in Sizes
             /\ right \in BOOLEAN /\ panel.rightVisible = FALSE

LEMMA RightStaysHidden ==
  ASSUME NEW p \in PanelState, NEW m \in Messages
  PROVE  After(p, m).rightVisible = p.rightVisible
  <1>1. CASE m \in {Post("tab", "chat"), Post("bounds", "wide"), Post("rightBounds", "wide")}
    BY <1>1 DEF After, Post, PanelState
  <1>2. ASSUME NEW v \in {"none", "browser"}, m = Post("panel", v)
        PROVE  After(p, m).rightVisible = p.rightVisible
    BY <1>2 DEF After, Post, PanelState
  <1>3. ASSUME NEW v \in Sizes, m = Post("sidebarBounds", v)
        PROVE  After(p, m).rightVisible = p.rightVisible
    BY <1>3 DEF After, Post, PanelState
  <1>4. ASSUME NEW b \in BOOLEAN, m = Post("sidebarVisible", b)
        PROVE  After(p, m).rightVisible = p.rightVisible
    <2>1. PICK z : z = IF b THEN p.sidebarBounds ELSE "none"
      OBVIOUS
    <2>2. After(p, m) = [p EXCEPT !.sidebarVisible = b, !.sidebarBounds = z]
      BY <1>4, <2>1 DEF After, Post, PanelState
    <2> QED
      BY <2>2 DEF PanelState
  <1> QED
    BY <1>1, <1>2, <1>3, <1>4 DEF Messages

LEMMA MessageFields == ASSUME NEW m \in Messages PROVE DOMAIN m = {"ch", "value"}
  BY DEF Messages, Post

LEMMA PanelRestStart == PanelsInit => PanelRest
  <1> SUFFICES ASSUME PanelsInit PROVE PanelRest
    OBVIOUS
  <1>1. tab = "chat" /\ center = "chat" /\ centerSize = "wide" /\ right = FALSE
    BY DEF PanelsInit
  <1>2. panel.rightVisible = FALSE
    BY DEF PanelsInit, StateAtStart
  <1> HIDE DEF PanelsInit
  <1> QED
    BY <1>1, <1>2 DEF PanelRest, Tabs, Sizes

LEMMA PanelRestStep == PanelInv /\ PanelRest /\ [PanelsNext]_panelVars => PanelRest'
  <1> SUFFICES ASSUME PanelInv, PanelRest, [PanelsNext]_panelVars PROVE PanelRest'
    OBVIOUS
  <1>1. CASE HandlePosted
    <2>1. PICK p \in PanelState, m \in Messages : p = panel /\ m = Head(posted)
      BY <1>1, HeadTailProperties DEF HandlePosted, PanelInv, WillAgree
    <2>2. panel' = After(p, m) /\ UNCHANGED layoutVars
      BY <1>1, <2>1 DEF HandlePosted, Stored, After
    <2>3. panel'.rightVisible = panel.rightVisible
      BY <2>1, <2>2, RightStaysHidden
    <2> QED
      BY <2>2, <2>3 DEF PanelRest, layoutVars
  <1>2. CASE \/ \E t \in Tabs : ClickTab(t)
             \/ \E m \in {"chat", "browser"} : ClickCenter(m)
    BY <1>2 DEF PanelRest, ClickTab, ClickCenter
  <1>3. CASE CloseBrowserPanel \/ ToggleRight \/ Reload
    BY <1>3 DEF PanelRest, CloseBrowserPanel, ToggleRight, Reload, Tabs
  <1>4. CASE \/ \E size \in Sizes : ResizeCenter(size)
             \/ \E s \in Layouts : ChangeSidebar(s)
    BY <1>4 DEF PanelRest, ResizeCenter, ChangeSidebar
  <1>5. CASE UNCHANGED panelVars
    BY <1>5 DEF PanelRest, panelVars, layoutVars
  <1> QED
    BY <1>1, <1>2, <1>3, <1>4, <1>5 DEF PanelsNext, Layouts

LEMMA PanelRestGives == PanelInv /\ PanelRest => PanelsTypeOK
  <1> SUFFICES ASSUME PanelInv, PanelRest PROVE PanelsTypeOK
    OBVIOUS
  <1>1. /\ panel \in PanelState /\ LayoutTyped /\ posted \in Seq(Messages)
        /\ place = [browser |-> BrowserPlace(panel), right |-> RightPlace(panel)]
    BY DEF PanelInv, WillAgree
  <1>2. /\ panel.activePanel \in {"none", "browser"} /\ panel.bounds \in {"none", "wide"}
        /\ panel.sidebarBounds \in Sizes \cup {"none"} /\ panel.sidebarVisible \in BOOLEAN
        /\ panel.rightBounds \in {"none", "wide"}
    BY <1>1 DEF PanelState
  <1>3. place \in [browser: {"sidebar", "center", "offscreen"}, right: {"right", "offscreen"}]
    BY <1>1 DEF BrowserPlace, RightPlace
  <1>4. \A i \in DOMAIN posted : DOMAIN posted[i] = {"ch", "value"}
    <2>1. \A i \in DOMAIN posted : posted[i] \in Messages
      BY <1>1
    <2> QED
      BY <2>1, MessageFields
  <1> QED
    BY <1>1, <1>2, <1>3, <1>4 DEF PanelRest, PanelsTypeOK, LayoutTyped, Layouts

-------------------------------------------------------------------------------
(* Types of the frame modulator.                                           *)
Fusions == {<<"primary">>, <<"primary", "cloud">>, <<"primary", "fallback model">>}

FuserTypes ==
  /\ transformed \in BOOLEAN /\ mode \in BOOLEAN /\ auditActive \in BOOLEAN
  /\ text \in Texts /\ frames \subseteq UsedFrames
  /\ fusion.of \in Texts /\ fusion.frames \subseteq UsedFrames
  /\ fusion.tried \in Fusions \cup {<<>>}
  /\ IsFusing => fusion \in [of : Texts, frames : SUBSET UsedFrames, tried : Fusions]
  /\ status = StatusFor(status.frames, status.fusing)
  /\ failure.set \in BOOLEAN /\ auditPasses \in 0 .. 1 /\ typed \in 0 .. MaxTyped
  /\ ~mode => auditPasses = 0

LEMMA BlankText == Blanks \in Texts /\ MaxTyped \in Nat
  BY FuserBounds DEF Blanks, Texts

LEMMA NothingFused ==
  /\ NoFusion.of = Blanks /\ NoFusion.frames = {} /\ NoFusion.tried = <<>>
  BY DEF NoFusion

LEMMA StatusFits ==
  ASSUME NEW ids, NEW b \in BOOLEAN, NEW s, s = StatusFor(ids, b)
  PROVE  s = StatusFor(s.frames, s.fusing)
  BY DEF StatusFor

LEMMA OneAndAnother ==
  ASSUME NEW x, NEW y
  PROVE  Append(<<x>>, y) = <<x, y>>
  <1>1. PICK s, t : s = Append(<<x>>, y) /\ t = <<x, y>>
    OBVIOUS
  <1>2. <<x>> \in Seq({x, y}) /\ Len(<<x>>) = 1 /\ <<x>>[1] = x
    OBVIOUS
  <1>3. s \in Seq({x, y}) /\ Len(s) = 2 /\ s[1] = x /\ s[2] = y
    BY <1>1, <1>2, AppendProperties
  <1>4. t \in Seq({x, y}) /\ Len(t) = 2 /\ t[1] = x /\ t[2] = y
    BY <1>1
  <1>5. s = t
    BY <1>3, <1>4, SeqEqual
  <1> QED
    BY <1>1, <1>5

LEMMA FusingIsBoolean == IsFusing \in BOOLEAN
  BY DEF IsFusing

LEMMA FuserTypesStart == FuserInit => FuserTypes
  <1> SUFFICES ASSUME FuserInit PROVE FuserTypes
    OBVIOUS
  <1>1. /\ text = Blanks /\ frames = {} /\ fusion = NoFusion /\ transformed = FALSE
        /\ mode = FALSE /\ auditActive = FALSE /\ auditPasses = 0 /\ typed = 0
        /\ status = StatusFor({}, FALSE)
    BY DEF FuserInit
  <1>2. failure.set = FALSE
    BY DEF FuserInit
  <1> HIDE DEF FuserInit
  <1>3. status = StatusFor(status.frames, status.fusing)
    BY <1>1, StatusFits
  <1>4. typed \in 0 .. MaxTyped /\ auditPasses \in 0 .. 1
    BY <1>1, BlankText
  <1>5. ~IsFusing
    BY <1>1 DEF IsFusing
  <1> QED
    BY <1>1, <1>2, <1>3, <1>4, <1>5, BlankText, NothingFused DEF FuserTypes

(* A fusion ends with a text and a status of its own.                      *)
LEMMA EndsTyped ==
  ASSUME FuserTypes, NEW b \in BOOLEAN, NEW t \in Texts, Ends(b, t), transformed' \in BOOLEAN
  PROVE  FuserTypes'
  <1>1. /\ fusion' = NoFusion /\ text' = t /\ status' = StatusFor(frames, FALSE)
        /\ UNCHANGED <<frames, mode, auditActive, auditPasses, typed>>
    BY DEF Ends, auditVars
  <1>2. failure'.set = b
    BY DEF Ends
  <1>3. status' = StatusFor(status'.frames, status'.fusing)
    BY <1>1, StatusFits
  <1>4. ~IsFusing'
    BY <1>1 DEF IsFusing
  <1> QED
    BY <1>1, <1>2, <1>3, <1>4, BlankText, NothingFused DEF FuserTypes

LEMMA FuserTypesStep ==
  ASSUME FuserTypes, [FuserNext]_fuserVars
  PROVE  FuserTypes'
  <1>0. MaxTyped \in Nat
    BY BlankText
  <1>1. CASE TypeText
    <2>1. typed' \in 0 .. MaxTyped /\ text' = [version |-> typed', by |-> {}]
      BY <1>0, <1>1 DEF TypeText, FuserTypes
    <2>2. text' \in Texts
      BY <2>1 DEF Texts
    <2> QED
      BY <1>1, <2>1, <2>2 DEF TypeText, FuserTypes, auditVars, IsFusing
  <1>2. CASE SendText
    BY <1>2, BlankText DEF SendText, FuserTypes, auditVars, IsFusing
  <1>3. ASSUME NEW id \in UsedFrames, ToggleFrame(id)
        PROVE  FuserTypes'
    <2>1. frames' \subseteq UsedFrames /\ transformed' = FALSE
          /\ status' = StatusFor(frames', IsFusing)
          /\ UNCHANGED <<text, fusion, failure, mode, auditActive, auditPasses, typed>>
      BY <1>3 DEF ToggleFrame, FuserTypes, auditVars
    <2>2. status' = StatusFor(status'.frames, status'.fusing)
      BY <2>1, StatusFits, FusingIsBoolean
    <2> QED
      BY <2>1, <2>2 DEF FuserTypes, IsFusing
  <1>4. CASE HandleFuse
    <2>1. /\ fusion' = [of |-> text, frames |-> frames, tried |-> <<"primary">>]
          /\ status' = StatusFor(frames, TRUE)
          /\ UNCHANGED <<text, frames, transformed, failure, mode, auditActive, auditPasses, typed>>
      BY <1>4 DEF HandleFuse, auditVars
    <2>2. status' = StatusFor(status'.frames, status'.fusing)
      BY <2>1, StatusFits
    <2>3. /\ fusion' \in [of : Texts, frames : SUBSET UsedFrames, tried : Fusions]
          /\ fusion'.of \in Texts /\ fusion'.frames \subseteq UsedFrames /\ fusion'.tried \in Fusions
      BY <2>1 DEF FuserTypes, Fusions
    <2> QED
      BY <2>1, <2>2, <2>3 DEF FuserTypes
  <1>5. ASSUME NEW empty \in BOOLEAN, Answers(empty)
        PROVE  FuserTypes'
    <2>1. PICK f : f = fusion
      OBVIOUS
    <2>2. f.of \in Texts /\ f.frames \subseteq UsedFrames
      BY <2>1 DEF FuserTypes
    <2>3. PICK t : t = IF empty THEN f.of ELSE [f.of EXCEPT !.by = @ \cup f.frames]
      OBVIOUS
    <2>4. t \in Texts
      BY <2>2, <2>3 DEF Texts
    <2>5. Ends(FALSE, t) /\ transformed' \in BOOLEAN
      BY <1>5, <2>1, <2>3 DEF Answers
    <2> QED
      BY <2>4, <2>5, EndsTyped
  <1>6. ASSUME RequestFails, NEW a \in NextAttempts,
               fusion' = [fusion EXCEPT !.tried = Append(@, a)],
               UNCHANGED <<cloudKey, sameModel, text, frames, status, failure, auditVars, typed>>
        PROVE  FuserTypes'
    <2>1. PICK t, s : t = fusion.of /\ s = fusion.frames /\ t \in Texts /\ s \in SUBSET UsedFrames
      BY DEF FuserTypes
    <2>2. fusion = [of |-> t, frames |-> s, tried |-> <<"primary">>]
      <3>1. /\ fusion \in [of : Texts, frames : SUBSET UsedFrames, tried : Fusions]
            /\ fusion.tried = <<"primary">>
        BY <1>6 DEF RequestFails, FuserTypes, NextAttempts
      <3> QED
        BY <2>1, <3>1
    <2>3. PICK u : u = Append(<<"primary">>, a)
      OBVIOUS
    <2>4. u \in Fusions
      <3>1. a \in {"cloud", "fallback model"}
        BY <1>6 DEF NextAttempts
      <3>2. u = <<"primary", a>>
        BY <2>3, OneAndAnother
      <3> QED
        BY <3>1, <3>2 DEF Fusions
    <2>5. fusion' = [of |-> t, frames |-> s, tried |-> u]
      BY <1>6, <2>2, <2>3
    <2>6. /\ fusion' \in [of : Texts, frames : SUBSET UsedFrames, tried : Fusions]
          /\ fusion'.of \in Texts /\ fusion'.frames \subseteq UsedFrames /\ fusion'.tried \in Fusions
      BY <2>1, <2>4, <2>5
    <2>7. UNCHANGED transformed
      BY <1>6 DEF RequestFails
    <2> QED
      BY <1>6, <2>6, <2>7 DEF FuserTypes, auditVars
  <1>7. CASE RequestFails /\ Ends(TRUE, text)
    <2>1. PICK t \in Texts : t = text
      BY DEF FuserTypes
    <2>2. Ends(TRUE, t) /\ transformed' \in BOOLEAN
      BY <1>7, <2>1 DEF RequestFails, FuserTypes
    <2> QED
      BY <2>2, EndsTyped
  <1>8. ASSUME NEW audit \in BOOLEAN, ModeChange(audit)
        PROVE  FuserTypes'
    BY <1>8 DEF ModeChange, FuserTypes, IsFusing
  <1>9. CASE UNCHANGED fuserVars
    BY <1>9 DEF fuserVars, auditVars, FuserTypes, IsFusing
  <1> QED
    BY <1>1, <1>2, <1>3, <1>4, <1>5, <1>6, <1>7, <1>8, <1>9 DEF FuserNext, RequestFails

LEMMA FuserTypesGive == FuserInv /\ FuserTypes => FuserTypeOK
  BY DEF FuserInv, FuserTypes, FuserTypeOK, Fusions

-------------------------------------------------------------------------------
(* Types of the Mission Control view.  That the store is never shown the   *)
(* mark for nothing held needs the order of the two answers: the status    *)
(* comes once, and the state it is shown with has come or comes before it. *)
IsAnswer(m)  == m.kind = "status_answer"
BringsState(m) == m.kind = "state_answer"

AnswersInOrder(q, held) ==
  /\ \A i, j \in 1 .. Len(q) : IsAnswer(q[i]) /\ IsAnswer(q[j]) => i = j
  /\ \A i \in 1 .. Len(q) :
       IsAnswer(q[i]) => held \/ \E j \in 1 .. Len(q) : j < i /\ BringsState(q[j])
StateComes(q, held) == held \/ \E j \in 1 .. Len(q) : BringsState(q[j])
NoAnswer(q) == \A i \in 1 .. Len(q) : ~IsAnswer(q[i])

MissionTypes ==
  /\ pageNo \in 1 .. MaxPages
  /\ missionControl \in Numbers /\ missionControlStatus \in Numbers
  /\ heldState \in 0 .. NotHeld
  /\ AnswersInOrder(toPage, heldState # NotHeld)
  /\ viewAsks # <<>> => NoAnswer(toPage)
  /\ viewAsks = <<"getStatus">> => StateComes(toPage, heldState # NotHeld)

LEMMA NoAnswersInOrder ==
  ASSUME NEW q, NoAnswer(q), NEW h
  PROVE  AnswersInOrder(q, h)
  BY DEF AnswersInOrder, NoAnswer

(* A message more that is not the status.                                  *)
LEMMA AnswersMoreEvents ==
  ASSUME NEW q \in Seq(MissionMessages), NEW m \in MissionMessages, ~IsAnswer(m), NEW h \in BOOLEAN
  PROVE  /\ AnswersInOrder(q, h) => AnswersInOrder(Append(q, m), h)
         /\ NoAnswer(q) => NoAnswer(Append(q, m))
         /\ StateComes(q, h) => StateComes(Append(q, m), h)
         /\ BringsState(m) => StateComes(Append(q, m), h)
  <1>1. PICK s : s = Append(q, m)
    OBVIOUS
  <1>2. /\ Len(s) = Len(q) + 1 /\ Len(q) \in Nat
        /\ \A i \in 1 .. Len(q) : s[i] = q[i]
        /\ s[Len(q) + 1] = m
    BY <1>1, AppendProperties
  <1>3. \A i \in 1 .. Len(s) : IsAnswer(s[i]) => i \in 1 .. Len(q) /\ IsAnswer(q[i])
    <2>1. ASSUME NEW i \in 1 .. Len(s), IsAnswer(s[i])
          PROVE  i \in 1 .. Len(q) /\ IsAnswer(q[i])
      <3>1. CASE i = Len(q) + 1
        BY <1>2, <2>1, <3>1
      <3>2. CASE i # Len(q) + 1
        <4>1. i \in 1 .. Len(q)
          BY <1>2, <3>2
        <4> QED
          BY <1>2, <2>1, <4>1
      <3> QED
        BY <3>1, <3>2
    <2> QED
      BY <2>1
  <1>4. AnswersInOrder(q, h) => AnswersInOrder(s, h)
    <2> SUFFICES ASSUME AnswersInOrder(q, h) PROVE AnswersInOrder(s, h)
      OBVIOUS
    <2>1. ASSUME NEW i \in 1 .. Len(s), NEW j \in 1 .. Len(s), IsAnswer(s[i]), IsAnswer(s[j])
          PROVE  i = j
      BY <1>3, <2>1 DEF AnswersInOrder
    <2>2. ASSUME NEW i \in 1 .. Len(s), IsAnswer(s[i])
          PROVE  h \/ \E j \in 1 .. Len(s) : j < i /\ BringsState(s[j])
      <3>1. i \in 1 .. Len(q) /\ IsAnswer(q[i])
        BY <1>3, <2>2
      <3>2. CASE h
        BY <3>2
      <3>3. CASE ~h
        <4>1. PICK j \in 1 .. Len(q) : j < i /\ BringsState(q[j])
          BY <3>1, <3>3 DEF AnswersInOrder
        <4>2. j \in 1 .. Len(s) /\ s[j] = q[j]
          BY <1>2
        <4> QED
          BY <4>1, <4>2
      <3> QED
        BY <3>2, <3>3
    <2> QED
      BY <2>1, <2>2 DEF AnswersInOrder
  <1>5. NoAnswer(q) => NoAnswer(s)
    BY <1>3 DEF NoAnswer
  <1>6. StateComes(q, h) => StateComes(s, h)
    <2>1. ASSUME NEW j \in 1 .. Len(q), BringsState(q[j])
          PROVE  \E k \in 1 .. Len(s) : BringsState(s[k])
      <3>1. j \in 1 .. Len(s) /\ s[j] = q[j]
        BY <1>2
      <3> QED
        BY <2>1, <3>1
    <2> QED
      BY <2>1 DEF StateComes
  <1>7. BringsState(m) => StateComes(s, h)
    <2>1. Len(q) + 1 \in 1 .. Len(s)
      BY <1>2
    <2> QED
      BY <1>2, <2>1 DEF StateComes
  <1> QED
    BY <1>1, <1>4, <1>5, <1>6, <1>7

(* The status, once the state has come or is on its way.                   *)
LEMMA AnswersAreComplete ==
  ASSUME NEW q \in Seq(MissionMessages), NEW m \in MissionMessages, NEW h \in BOOLEAN,
         NoAnswer(q), StateComes(q, h)
  PROVE  AnswersInOrder(Append(q, m), h)
  <1>1. PICK s : s = Append(q, m)
    OBVIOUS
  <1>2. /\ Len(s) = Len(q) + 1 /\ Len(q) \in Nat
        /\ \A i \in 1 .. Len(q) : s[i] = q[i]
    BY <1>1, AppendProperties
  <1>3. ASSUME NEW i \in 1 .. Len(s), IsAnswer(s[i])
        PROVE  i = Len(q) + 1
    <2>1. CASE i \in 1 .. Len(q)
      BY <1>2, <1>3, <2>1 DEF NoAnswer
    <2>2. CASE i \notin 1 .. Len(q)
      BY <1>2, <2>2
    <2> QED
      BY <2>1, <2>2
  <1>4. ASSUME NEW i \in 1 .. Len(s), IsAnswer(s[i])
        PROVE  h \/ \E j \in 1 .. Len(s) : j < i /\ BringsState(s[j])
    <2>1. i = Len(q) + 1
      BY <1>3, <1>4
    <2>2. ASSUME NEW j \in 1 .. Len(q), BringsState(q[j])
          PROVE  \E k \in 1 .. Len(s) : k < i /\ BringsState(s[k])
      <3>1. j \in 1 .. Len(s) /\ j < i /\ s[j] = q[j]
        BY <1>2, <2>1
      <3> QED
        BY <2>2, <3>1
    <2> QED
      BY <2>2 DEF StateComes
  <1>5. AnswersInOrder(s, h)
    BY <1>3, <1>4 DEF AnswersInOrder
  <1> QED
    BY <1>1, <1>5

(* A message less.  The one that brought the state leaves it held.         *)
LEMMA AnswersLess ==
  ASSUME NEW q \in Seq(MissionMessages), q # <<>>, NEW h \in BOOLEAN, NEW k \in BOOLEAN,
         h => k, BringsState(Head(q)) => k
  PROVE  /\ AnswersInOrder(q, h) => AnswersInOrder(Tail(q), k)
         /\ NoAnswer(q) => NoAnswer(Tail(q))
         /\ StateComes(q, h) => StateComes(Tail(q), k)
  <1>1. PICK s, m : s = Tail(q) /\ m = Head(q)
    OBVIOUS
  <1>2. /\ Len(s) \in Nat /\ Len(q) = Len(s) + 1 /\ m = q[1]
        /\ \A i \in 1 .. Len(s) : s[i] = q[i + 1]
    <2>1. Len(q) \in Nat \ {0} /\ Head(q) = q[1]
      BY EmptySeq
    <2>2. s \in Seq(MissionMessages) /\ Len(s) = Len(q) - 1 /\ \A i \in 1 .. Len(s) : s[i] = q[i + 1]
      BY <1>1, HeadTailProperties
    <2> QED
      BY <1>1, <2>1, <2>2
  <1>3. \A i \in 1 .. Len(s) : i + 1 \in 1 .. Len(q) /\ s[i] = q[i + 1]
    BY <1>2
  <1>4. \A j \in 1 .. Len(q) : j = 1 \/ \E i \in 1 .. Len(s) : j = i + 1
    <2>1. ASSUME NEW j \in 1 .. Len(q), j # 1
          PROVE  \E i \in 1 .. Len(s) : j = i + 1
      <3>1. j - 1 \in 1 .. Len(s) /\ j = (j - 1) + 1
        BY <1>2, <2>1
      <3> QED
        BY <3>1
    <2> QED
      BY <2>1
  <1>5. AnswersInOrder(q, h) => AnswersInOrder(s, k)
    <2> SUFFICES ASSUME AnswersInOrder(q, h) PROVE AnswersInOrder(s, k)
      OBVIOUS
    <2>1. ASSUME NEW i \in 1 .. Len(s), NEW j \in 1 .. Len(s), IsAnswer(s[i]), IsAnswer(s[j])
          PROVE  i = j
      <3>1. i + 1 = j + 1
        BY <1>3, <2>1 DEF AnswersInOrder
      <3> QED
        BY <1>2, <3>1
    <2>2. ASSUME NEW i \in 1 .. Len(s), IsAnswer(s[i]), ~k
          PROVE  \E j \in 1 .. Len(s) : j < i /\ BringsState(s[j])
      <3>1. i + 1 \in 1 .. Len(q) /\ IsAnswer(q[i + 1])
        BY <1>3, <2>2
      <3>2. PICK j \in 1 .. Len(q) : j < i + 1 /\ BringsState(q[j])
        BY <2>2, <3>1 DEF AnswersInOrder
      <3>3. j # 1
        BY <1>1, <1>2, <2>2, <3>2
      <3>4. PICK c \in 1 .. Len(s) : j = c + 1
        BY <1>4, <3>3
      <3>5. c < i /\ BringsState(s[c])
        BY <1>2, <1>3, <3>2, <3>4
      <3> QED
        BY <3>5
    <2> QED
      BY <2>1, <2>2 DEF AnswersInOrder
  <1>6. NoAnswer(q) => NoAnswer(s)
    BY <1>3 DEF NoAnswer
  <1>7. StateComes(q, h) => StateComes(s, k)
    <2> SUFFICES ASSUME ~k, NEW j \in 1 .. Len(q), BringsState(q[j])
                 PROVE  \E i \in 1 .. Len(s) : BringsState(s[i])
      BY DEF StateComes
    <2>1. j # 1
      BY <1>1, <1>2
    <2>2. PICK c \in 1 .. Len(s) : j = c + 1
      BY <1>4, <2>1
    <2> QED
      BY <1>3, <2>2
  <1> QED
    BY <1>1, <1>5, <1>6, <1>7

(* The status is handed over: the state is there, and no other follows.    *)
LEMMA AnswerTaken ==
  ASSUME NEW q \in Seq(MissionMessages), q # <<>>, NEW h \in BOOLEAN,
         AnswersInOrder(q, h), IsAnswer(Head(q))
  PROVE  h /\ NoAnswer(Tail(q))
  <1>1. PICK s : s = Tail(q)
    OBVIOUS
  <1>2. /\ Len(s) \in Nat /\ Len(q) = Len(s) + 1 /\ Head(q) = q[1]
        /\ \A i \in 1 .. Len(s) : s[i] = q[i + 1]
    <2>1. Len(q) \in Nat \ {0} /\ Head(q) = q[1]
      BY EmptySeq
    <2>2. s \in Seq(MissionMessages) /\ Len(s) = Len(q) - 1 /\ \A i \in 1 .. Len(s) : s[i] = q[i + 1]
      BY <1>1, HeadTailProperties
    <2> QED
      BY <1>1, <2>1, <2>2
  <1>3. 1 \in 1 .. Len(q) /\ IsAnswer(q[1])
    BY <1>2
  <1>4. h
    <2>1. h \/ \E j \in 1 .. Len(q) : j < 1 /\ BringsState(q[j])
      BY <1>3 DEF AnswersInOrder
    <2>2. \A j \in 1 .. Len(q) : ~(j < 1)
      BY <1>2
    <2> QED
      BY <2>1, <2>2
  <1>5. ASSUME NEW i \in 1 .. Len(s), IsAnswer(s[i])
        PROVE  FALSE
    <2>1. i + 1 \in 1 .. Len(q) /\ IsAnswer(q[i + 1])
      BY <1>2, <1>5
    <2>2. i + 1 = 1
      BY <1>3, <2>1 DEF AnswersInOrder
    <2> QED
      BY <1>2, <2>2
  <1>6. NoAnswer(s)
    BY <1>5 DEF NoAnswer
  <1> QED
    BY <1>1, <1>4, <1>6

(* What was sent before the page subscribed are events.                    *)
LEMMA EventsAnswerNothing ==
  ASSUME NEW q \in Seq(MissionEvents)
  PROVE  NoAnswer(q)
  <1>1. \A i \in 1 .. Len(q) : q[i] \in MissionEvents
    OBVIOUS
  <1>2. \A m \in MissionEvents : ~IsAnswer(m)
    BY DEF MissionEvents, EventKinds, IsAnswer
  <1> QED
    BY <1>1, <1>2 DEF NoAnswer

LEMMA MissionTypesStart == MissionInit => MissionTypes
  <1> SUFFICES ASSUME MissionInit PROVE MissionTypes
    OBVIOUS
  <1>0. MaxEmits \in Nat /\ MaxPages \in Nat \ {0}
    BY ViewBounds
  <1>1. /\ 0 \in Numbers /\ NotHeld \in 0 .. NotHeld /\ 1 \in 1 .. MaxPages
    BY <1>0 DEF Numbers, NotHeld
  <1>2. /\ pageNo = 1 /\ missionControl = 0 /\ missionControlStatus = 0 /\ heldState = NotHeld
        /\ toPage = <<>> /\ viewAsks = <<>>
    BY DEF MissionInit
  <1>3. NoAnswer(toPage)
    BY <1>2, EmptySeq DEF NoAnswer
  <1>4. viewAsks # <<"getStatus">>
    BY <1>2
  <1>5. AnswersInOrder(toPage, heldState # NotHeld)
    BY <1>3, NoAnswersInOrder
  <1> QED
    BY <1>1, <1>2, <1>3, <1>4, <1>5 DEF MissionTypes

(* What a step sends to the page while it asks for nothing more.           *)
LEMMA EventIsNoAnswer ==
  ASSUME NEW m \in MissionEvents
  PROVE  m \in MissionMessages /\ ~IsAnswer(m)
  BY DEF MissionEvents, MissionMessages, EventKinds, IsAnswer

LEMMA OneThenAnother ==
  ASSUME NEW q \in Seq(MissionMessages), NEW a \in MissionMessages, NEW b \in MissionMessages
  PROVE  q \o <<a, b>> = Append(Append(q, a), b) /\ Append(q, a) \in Seq(MissionMessages)
  <1>1. PICK s, t : s = q \o <<a, b>> /\ t = Append(Append(q, a), b)
    OBVIOUS
  <1>2. /\ <<a, b>> \in Seq(MissionMessages) /\ Len(<<a, b>>) = 2
        /\ <<a, b>>[1] = a /\ <<a, b>>[2] = b
    OBVIOUS
  <1>3. /\ s \in Seq(MissionMessages) /\ Len(s) = Len(q) + 2 /\ Len(q) \in Nat
        /\ \A i \in 1 .. Len(q) : s[i] = q[i]
        /\ s[Len(q) + 1] = a /\ s[Len(q) + 2] = b
    <2>1. /\ s \in Seq(MissionMessages) /\ Len(s) = Len(q) + Len(<<a, b>>)
          /\ \A i \in 1 .. Len(s) : s[i] = IF i <= Len(q) THEN q[i] ELSE <<a, b>>[i - Len(q)]
      BY <1>1, <1>2, ConcatProperties
    <2>2. Len(q) \in Nat /\ Len(s) = Len(q) + 2
      BY <1>2, <2>1
    <2>3. (Len(q) + 1) - Len(q) = 1 /\ (Len(q) + 2) - Len(q) = 2
          /\ Len(q) + 1 \in 1 .. Len(s) /\ Len(q) + 2 \in 1 .. Len(s)
          /\ ~(Len(q) + 1 <= Len(q)) /\ ~(Len(q) + 2 <= Len(q))
          /\ \A i \in 1 .. Len(q) : i \in 1 .. Len(s) /\ i <= Len(q)
      BY <2>2
    <2> QED
      BY <1>2, <2>1, <2>2, <2>3
  <1>4. PICK u : u = Append(q, a)
    OBVIOUS
  <1>5. /\ u \in Seq(MissionMessages) /\ Len(u) = Len(q) + 1
        /\ \A i \in 1 .. Len(q) : u[i] = q[i]
        /\ u[Len(q) + 1] = a
    BY <1>4, AppendProperties
  <1>6. /\ t \in Seq(MissionMessages) /\ Len(t) = Len(u) + 1
        /\ \A i \in 1 .. Len(u) : t[i] = u[i]
        /\ t[Len(u) + 1] = b
    BY <1>1, <1>4, <1>5, AppendProperties
  <1>7. Len(t) = Len(q) + 2 /\ t[Len(q) + 2] = b /\ t[Len(q) + 1] = a
        /\ \A i \in 1 .. Len(q) : t[i] = q[i]
    BY <1>3, <1>5, <1>6
  <1>8. \A i \in 1 .. Len(s) : i \in 1 .. Len(q) \/ i = Len(q) + 1 \/ i = Len(q) + 2
    BY <1>3
  <1>9. \A i \in 1 .. Len(s) : s[i] = t[i]
    BY <1>3, <1>7, <1>8
  <1>10. s = t
    BY <1>3, <1>6, <1>7, <1>9, SeqEqual
  <1> QED
    BY <1>1, <1>4, <1>5, <1>10

(* The page is told of an event and is as it was.                          *)
LEMMA MissionTypesTold ==
  ASSUME MissionTypes, toPage \in Seq(MissionMessages), NEW m \in MissionEvents,
         toPage' = Append(toPage, m),
         UNCHANGED <<pageNo, missionControl, missionControlStatus, heldState, viewAsks>>
  PROVE  MissionTypes'
  <1>1. PICK q, h : q = toPage /\ h = (heldState # NotHeld) /\ q \in Seq(MissionMessages) /\ h \in BOOLEAN
    OBVIOUS
  <1>2. m \in MissionMessages /\ ~IsAnswer(m)
    BY EventIsNoAnswer
  <1>3. /\ AnswersInOrder(q, h) => AnswersInOrder(Append(q, m), h)
        /\ NoAnswer(q) => NoAnswer(Append(q, m))
        /\ StateComes(q, h) => StateComes(Append(q, m), h)
    BY <1>1, <1>2, AnswersMoreEvents
  <1> QED
    BY <1>1, <1>3 DEF MissionTypes

LEMMA MissionTypesEmit ==
  ASSUME MissionInv, MissionTypes, Emit
  PROVE  MissionTypes'
  <1>1. UNCHANGED <<pageNo, missionControl, missionControlStatus, heldState, viewAsks>>
    BY DEF Emit, missionStore
  <1>2. PICK n, k : n = statusNo' /\ k = snapshotNo'
    OBVIOUS
  <1>3. toPage \in Seq(MissionMessages) /\ n \in Numbers
    BY <1>2 DEF Emit, MissionInv, Numbers
  <1>4. CASE snapshotNo' = snapshotNo + 1
    <2>1. k \in Numbers
      BY <1>2, <1>4 DEF Emit, MissionInv, Numbers
    <2>2. PICK both : both = {Message("snapshot", k), Message("status", n)}
      OBVIOUS
    <2>3. PICK a \in both, b \in both : toPage' = toPage \o <<a, b>>
      <3>1. snapshotNo' # snapshotNo
        BY <1>4 DEF MissionInv, Numbers
      <3> QED
        BY <1>2, <2>2, <3>1 DEF Emit
    <2>4. a \in MissionEvents /\ b \in MissionEvents
      BY <1>3, <2>1, <2>2, MessagesTyped
    <2>5. PICK q, h : q = toPage /\ h = (heldState # NotHeld) /\ q \in Seq(MissionMessages) /\ h \in BOOLEAN
      BY <1>3
    <2>6. PICK u : u = Append(q, a)
      OBVIOUS
    <2>7. u \in Seq(MissionMessages) /\ toPage' = Append(u, b)
      BY <2>3, <2>4, <2>5, <2>6, OneThenAnother, EventIsNoAnswer
    <2>8. /\ a \in MissionMessages /\ ~IsAnswer(a) /\ b \in MissionMessages /\ ~IsAnswer(b)
      BY <2>4, EventIsNoAnswer
    <2>9. /\ AnswersInOrder(q, h) => AnswersInOrder(u, h)
          /\ NoAnswer(q) => NoAnswer(u)
          /\ StateComes(q, h) => StateComes(u, h)
      BY <2>5, <2>6, <2>8, AnswersMoreEvents
    <2>10. /\ AnswersInOrder(u, h) => AnswersInOrder(Append(u, b), h)
           /\ NoAnswer(u) => NoAnswer(Append(u, b))
           /\ StateComes(u, h) => StateComes(Append(u, b), h)
      BY <2>5, <2>7, <2>8, AnswersMoreEvents
    <2> QED
      BY <1>1, <2>5, <2>7, <2>9, <2>10 DEF MissionTypes
  <1>5. CASE UNCHANGED snapshotNo
    <2>1. PICK a : a = Message("status", n)
      OBVIOUS
    <2>2. toPage' = Append(toPage, a)
      <3>1. snapshotNo' # snapshotNo + 1
        BY <1>5 DEF MissionInv, Numbers
      <3> QED
        BY <1>2, <2>1, <3>1 DEF Emit
    <2>3. a \in MissionEvents
      BY <1>3, <2>1, MessagesTyped
    <2> QED
      BY <1>1, <1>3, <2>2, <2>3, MissionTypesTold
  <1> QED
    BY <1>4, <1>5 DEF Emit

LEMMA MissionTypesSubscribe ==
  ASSUME MissionInv, MissionTypes, Subscribe
  PROVE  MissionTypes'
  <1>1. /\ viewAsks' = Asks /\ ~subscribed
        /\ UNCHANGED <<pageNo, missionControl, missionControlStatus, heldState, toPage>>
    BY DEF Subscribe, missionStore
  <1>2. NoAnswer(toPage)
    BY <1>1, EventsAnswerNothing DEF MissionInv
  <1>3. viewAsks' # <<"getStatus">>
    BY <1>1 DEF Asks
  <1> QED
    BY <1>1, <1>2, <1>3 DEF MissionTypes

LEMMA MissionTypesAnswer ==
  ASSUME MissionInv, MissionTypes, AnswerAsk
  PROVE  MissionTypes'
  <1>1. /\ viewAsks # <<>> /\ viewAsks' = Tail(viewAsks)
        /\ UNCHANGED <<pageNo, missionControl, missionControlStatus, heldState>>
    BY DEF AnswerAsk, missionStore
  <1>2. viewAsks \in {Asks, <<"getStatus">>}
    BY <1>1 DEF MissionInv
  <1>3. PICK q, h : q = toPage /\ h = (heldState # NotHeld) /\ q \in Seq(MissionMessages) /\ h \in BOOLEAN
    BY DEF MissionInv
  <1>4. PICK k, n : k = snapshotNo /\ n = statusNo /\ k \in Numbers /\ n \in Numbers
    BY DEF MissionInv
  <1>5. NoAnswer(q) /\ AnswersInOrder(q, h)
    BY <1>1, <1>3 DEF MissionTypes
  <1>6. CASE viewAsks = Asks
    <2>1. viewAsks' = <<"getStatus">> /\ Head(viewAsks) = "getState"
      BY <1>1, <1>6 DEF Asks
    <2>2. PICK a \in MissionMessages : a = Message("state_answer", k)
      BY <1>4, MessagesTyped
    <2>3. toPage' = Append(q, a)
      BY <1>3, <1>4, <2>1, <2>2 DEF AnswerAsk
    <2>4. ~IsAnswer(a) /\ BringsState(a)
      BY <2>2 DEF IsAnswer, BringsState, Message
    <2>5. /\ AnswersInOrder(Append(q, a), h) /\ NoAnswer(Append(q, a))
          /\ StateComes(Append(q, a), h)
      BY <1>3, <1>5, <2>4, AnswersMoreEvents
    <2> QED
      BY <1>1, <1>3, <2>3, <2>5 DEF MissionTypes
  <1>7. CASE viewAsks = <<"getStatus">>
    <2>1. viewAsks' = <<>> /\ Head(viewAsks) = "getStatus"
      BY <1>1, <1>7
    <2>2. PICK a \in MissionMessages : a = Message("status_answer", n)
      BY <1>4, MessagesTyped
    <2>3. toPage' = Append(q, a)
      BY <1>3, <1>4, <2>1, <2>2 DEF AnswerAsk
    <2>4. StateComes(q, h)
      BY <1>3, <1>7 DEF MissionTypes
    <2>5. AnswersInOrder(Append(q, a), h)
      BY <1>3, <1>5, <2>4, AnswersAreComplete
    <2>6. viewAsks' # <<"getStatus">>
      BY <2>1
    <2> QED
      BY <1>1, <1>3, <2>1, <2>3, <2>5, <2>6 DEF MissionTypes
  <1> QED
    BY <1>2, <1>6, <1>7

LEMMA MissionTypesTake ==
  ASSUME MissionInv, MissionTypes, TakeMessage
  PROVE  MissionTypes'
  <1>1. toPage # <<>> /\ toPage' = Tail(toPage) /\ UNCHANGED <<pageNo, viewAsks, subscribed>>
    BY DEF TakeMessage
  <1>2. PICK q, m, h : /\ q = toPage /\ m = Head(toPage) /\ h = (heldState # NotHeld)
                       /\ q \in Seq(MissionMessages) /\ q # <<>> /\ m = Head(q)
                       /\ m \in MissionMessages /\ h \in BOOLEAN
    BY <1>1, HeadTailProperties DEF MissionInv
  <1>3. m.kind \in {"snapshot", "status", "state_answer", "status_answer"} /\ m.no \in Numbers
    BY <1>2 DEF MissionMessages, EventKinds
  <1>4. MaxEmits \in Nat /\ NotHeld \notin Numbers /\ NotHeld \in 0 .. NotHeld /\ Numbers \subseteq 0 .. NotHeld
    BY DEF MissionInv, NotHeld, Numbers
  <1>5. AnswersInOrder(q, h)
    BY <1>2 DEF MissionTypes
  <1>6. CASE m.kind \in {"snapshot", "status"}
    <2>1. missionControl' \in Numbers /\ missionControlStatus' \in Numbers /\ UNCHANGED heldState
      BY <1>2, <1>3, <1>6 DEF TakeMessage, MissionTypes, SetMissionControl, missionStore
    <2>2. ~BringsState(Head(q))
      BY <1>2, <1>6 DEF BringsState
    <2>3. /\ AnswersInOrder(Tail(q), h)
          /\ NoAnswer(q) => NoAnswer(Tail(q))
          /\ StateComes(q, h) => StateComes(Tail(q), h)
      BY <1>2, <1>5, <2>2, AnswersLess
    <2> QED
      BY <1>1, <1>2, <2>1, <2>3 DEF MissionTypes
  <1>7. CASE m.kind = "state_answer"
    <2>1. heldState' = m.no /\ UNCHANGED <<missionControl, missionControlStatus>>
      BY <1>2, <1>7 DEF TakeMessage, missionStore
    <2>2. PICK b \in BOOLEAN : b
      OBVIOUS
    <2>3. /\ AnswersInOrder(Tail(q), b)
          /\ NoAnswer(q) => NoAnswer(Tail(q))
          /\ StateComes(q, h) => StateComes(Tail(q), b)
      BY <1>2, <1>5, <2>2, AnswersLess
    <2>4. (heldState' # NotHeld) = b /\ heldState' \in 0 .. NotHeld
      BY <1>3, <1>4, <2>1, <2>2
    <2> QED
      BY <1>1, <1>2, <2>1, <2>3, <2>4 DEF MissionTypes, NotHeld
  <1>8. CASE m.kind = "status_answer"
    <2>1. /\ heldState' = NotHeld /\ missionControl' = heldState /\ missionControlStatus' = m.no
      BY <1>2, <1>8 DEF TakeMessage, SetMissionControl
    <2>2. IsAnswer(m)
      BY <1>8 DEF IsAnswer
    <2>3. h /\ NoAnswer(Tail(q))
      BY <1>2, <1>5, <2>2, AnswerTaken
    <2>4. missionControl' \in Numbers
      <3>1. missionControl' \in 0 .. NotHeld /\ missionControl' # NotHeld
        BY <1>2, <2>1, <2>3 DEF MissionTypes
      <3> QED
        BY <1>4, <3>1 DEF NotHeld, Numbers
    <2>5. viewAsks = <<>>
      <3>1. viewAsks # <<>> => NoAnswer(q)
        BY <1>2 DEF MissionTypes
      <3>2. ~NoAnswer(q)
        <4>1. 1 \in 1 .. Len(q) /\ q[1] = m
          BY <1>2, EmptySeq
        <4> QED
          BY <2>2, <4>1 DEF NoAnswer
      <3> QED
        BY <3>1, <3>2
    <2>6. viewAsks' # <<"getStatus">>
      BY <1>1, <2>5
    <2>7. AnswersInOrder(Tail(q), heldState' # NotHeld)
      BY <2>3, NoAnswersInOrder
    <2> QED
      BY <1>1, <1>2, <1>3, <1>4, <2>1, <2>3, <2>4, <2>5, <2>6, <2>7 DEF MissionTypes, NotHeld
  <1> QED
    BY <1>3, <1>6, <1>7, <1>8

LEMMA MissionTypesLoad ==
  ASSUME MissionInv, MissionTypes, LoadPage
  PROVE  MissionTypes'
  <1>0. MaxEmits \in Nat /\ MaxPages \in Nat \ {0}
    BY ViewBounds
  <1>1. /\ pageNo < MaxPages /\ pageNo' = pageNo + 1 /\ viewAsks' = <<>> /\ toPage' = <<>>
        /\ heldState' = NotHeld /\ missionControl' = 0 /\ missionControlStatus' = 0
    BY DEF LoadPage
  <1>2. pageNo' \in 1 .. MaxPages
    BY <1>0, <1>1 DEF MissionTypes
  <1>3. 0 \in Numbers /\ NotHeld \in 0 .. NotHeld
    BY <1>0 DEF Numbers, NotHeld
  <1>4. NoAnswer(toPage')
    BY <1>1, EmptySeq DEF NoAnswer
  <1>5. AnswersInOrder(toPage', heldState' # NotHeld) /\ viewAsks' # <<"getStatus">>
    BY <1>1, <1>4, NoAnswersInOrder
  <1> QED
    BY <1>1, <1>2, <1>3, <1>4, <1>5 DEF MissionTypes, NotHeld

LEMMA MissionTypesStep == MissionInv /\ MissionTypes /\ [MissionNext]_missionVars => MissionTypes'
  <1> SUFFICES ASSUME MissionInv, MissionTypes, [MissionNext]_missionVars PROVE MissionTypes'
    OBVIOUS
  <1>1. CASE UNCHANGED missionVars
    BY <1>1 DEF missionVars, missionStore, MissionTypes
  <1>2. CASE MissionNext
    BY <1>2, MissionTypesEmit, MissionTypesSubscribe, MissionTypesAnswer, MissionTypesTake,
       MissionTypesLoad DEF MissionNext
  <1> QED
    BY <1>1, <1>2

LEMMA MissionTypesGive == MissionInv /\ MissionTypes => MissionTypeOK
  BY DEF MissionInv, MissionTypes, MissionTypeOK, Numbers

-------------------------------------------------------------------------------
(* However the application is used, the variables of all its parts keep    *)
(* their types: the stores and the manager's state behind the panels, what *)
(* is under way over the bridge, the tables and the files (ChatPanel,      *)
(* JcodePanel, panel-manager.ts, terminal-manager.ts, graph-service.ts and *)
(* their counterparts in the renderer).                                    *)
THEOREM DesktopIsTyped == DesktopSpec => []DesktopTypeOK
  <1>1. /\ MaxCalls \in Nat
        /\ BadgeInv /\ [AgentNext]_agentVars => BadgeInv'
    BY AgentBounds, BadgeStep
  <1>2. /\ AgentInv /\ [AgentNext]_agentVars => AgentInv'
        /\ AgentInv /\ BadgeInv /\ AgentCounts /\ [AgentNext]_agentVars => AgentCounts'
    BY AgentStep, AgentCountsStep
  <1>3. /\ PanelInv /\ [PanelsNext]_panelVars => PanelInv'
        /\ PanelInv /\ PanelRest /\ [PanelsNext]_panelVars => PanelRest'
        /\ TabInv /\ [TabsNext]_tabVars => TabInv'
        /\ TermInv /\ [TerminalsNext]_termVars => TermInv'
    BY PanelInvStep, PanelRestStep, TabInvStep, TermInvStep
  <1>4. /\ FuserInv /\ [FuserNext]_fuserVars => FuserInv'
        /\ FuserTypes /\ [FuserNext]_fuserVars => FuserTypes'
        /\ MissionInv /\ [MissionNext]_missionVars => MissionInv'
        /\ MissionInv /\ MissionTypes /\ [MissionNext]_missionVars => MissionTypes'
    BY FuserStep, FuserTypesStep, MissionInvStep, MissionTypesStep
  <1>5. /\ FlowTyped /\ AttachedKept /\ [FlowNext]_flowVars => FlowTyped' /\ AttachedKept'
        /\ WorkspaceInv /\ [WorkspaceNext]_workspaceVars => WorkspaceInv'
        /\ VaultInv /\ [VaultNext]_vaultVars => VaultInv'
        /\ MemInv /\ [MemoryNext]_memoryVars => MemInv'
    BY FlowTypedStep, AttachedStep, WorkspaceInvStep, VaultInvStep, MemInvStep DEF FlowTyped
  <1>6. DesktopInit => /\ ChatTypeOK /\ AgentInv /\ BadgeInv /\ AgentCounts
                       /\ PanelInv /\ PanelRest /\ TabInv /\ TermInv
                       /\ FuserInv /\ FuserTypes /\ MissionInv /\ MissionTypes
                       /\ FlowTyped /\ AttachedKept /\ WorkspaceInv /\ VaultInv /\ MemInv
    BY PartsStart, ChatTypeInit, AgentStart, BadgeStart, AgentCountsStart, PanelInvStart,
       PanelRestStart, TabInvStart, TermInvStart, FuserStart, FuserTypesStart, MissionInvStart,
       MissionTypesStart, FlowTypedStart, AttachedStart, WorkspaceInvStart, VaultInvStart, MemInvStart
  <1>7. /\ ChatTypeOK /\ AgentInv /\ BadgeInv /\ AgentCounts
        /\ PanelInv /\ PanelRest /\ TabInv /\ TermInv
        /\ FuserInv /\ FuserTypes /\ MissionInv /\ MissionTypes
        /\ FlowTyped /\ AttachedKept /\ WorkspaceInv /\ VaultInv /\ MemInv
        => DesktopTypeOK
    BY AgentCountsGive, PanelRestGives, TermInvGives, FuserTypesGive, MissionTypesGive,
       FlowTypedGives, WorkspaceInvGives, VaultInvGives, MemInvGives DEF TabInv, DesktopTypeOK
  <1> QED
    BY <1>1, <1>2, <1>3, <1>4, <1>5, <1>6, <1>7, PartsStep, ChatTypeStep, PTL DEF DesktopSpec
===============================================================================
