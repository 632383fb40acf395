---------------------- MODULE MissionControlManagerProofs ----------------------
(***************************************************************************)
(* Theorems about MissionControlManager, for any number of bridges: types, *)
(* the handle of the manager, and that no bridge escapes it as long as     *)
(* bridges do not overlap.                                                 *)
(***************************************************************************)
EXTENDS MissionControlManager, TLAPS, SequenceTheorems

(* Killing changes the life of the bridge in the handle, and of no other.  *)
AtWork == {"booting", "running", "ending"}

LEMMA KilledLives ==
  ASSUME TypeOK
  PROVE  /\ Killed \in [Bridge -> Life]
         /\ \A b \in Bridge :
              /\ \/ Killed[b] = life[b]
                 \/ b = proc /\ life[b] \in AtWork /\ Killed[b] = "killed"
              /\ b = proc => Killed[b] \notin AtWork
  <1>0. /\ life \in [Bridge -> Life] /\ "killed" \in Life /\ "killed" \notin AtWork
        /\ proc # NoBridge => proc \in Bridge
    BY DEF TypeOK, Life, AtWork
  <1>1. CASE proc # NoBridge /\ Working(proc)
    <2>1. life[proc] \in AtWork /\ Killed = [life EXCEPT ![proc] = "killed"]
      BY <1>1 DEF Killed, AtWork, Working
    <2> QED
      BY <1>0, <1>1, <2>1
  <1>2. CASE ~(proc # NoBridge /\ Working(proc))
    <2>1. Killed = life
      BY <1>2 DEF Killed
    <2>2. NoBridge \notin Bridge
      BY DEF Bridge, NoBridge
    <2>3. proc \in Bridge => life[proc] \notin AtWork
      BY <1>2, <2>2 DEF Working, AtWork
    <2> QED
      BY <1>0, <2>1, <2>3
  <1> QED
    BY <1>1, <1>2

(* Lines are only added at the end and taken at the front.                 *)
LEMMA Pipes ==
  ASSUME NEW s \in Seq(Line)
  PROVE  /\ \A l \in Line : Append(s, l) \in Seq(Line)
         /\ s # <<>> => Head(s) \in Line /\ Tail(s) \in Seq(Line)
  BY AppendProperties, HeadTailProperties

LEMMA TypeInit == Init => TypeOK
  <1> SUFFICES ASSUME Init
               PROVE  TypeOK
    OBVIOUS
  <1>1. stdout \in [Bridge -> Seq(Line)]
    BY EmptySeq DEF Init
  <1>2. stderr \in [Bridge -> 0 .. 1] /\ life \in [Bridge -> Life]
    BY DEF Init, Life
  <1>3. 0 \in 0 .. MaxStarts
    BY BoundsAssumption
  <1> HIDE DEF Bridge
  <1> QED
    BY <1>1, <1>2, <1>3 DEF Init, TypeOK

LEMMA TypeStep ==
  ASSUME TypeOK, [Next]_vars
  PROVE  TypeOK'
  <1> USE DEF TypeOK
  <1>1. CASE Start
    <2>1. PICK found \in ResolveBridgePath :
            /\ \/ /\ found /\ started < MaxStarts
                  /\ started' = started + 1
                  /\ proc' = started + 1
                  /\ status' = "starting"
                  /\ \E born \in {"booting", "failed"} :
                        life' = [Killed EXCEPT ![started + 1] = born]
                  /\ overlapped' = (overlapped \/ \E b \in Bridge : ~Gone(b))
               \/ /\ ~found /\ started' = started
                  /\ proc' = NoBridge
                  /\ status' = "error"
                  /\ life' = Killed
                  /\ overlapped' = overlapped
            /\ interrupted' = (interrupted \/ Killed # life)
            /\ UNCHANGED <<shown, stdout, stderr>>
      BY <1>1 DEF Start
    <2>2. started' \in 0 .. MaxStarts /\ proc' \in Bridge \cup {NoBridge}
      BY <2>1, BoundsAssumption DEF Bridge, NoBridge
    <2>3. life' \in [Bridge -> Life]
      BY <2>1, KilledLives, BoundsAssumption DEF Bridge, Life
    <2>4. overlapped' \in BOOLEAN /\ interrupted' \in BOOLEAN
      BY <2>1
    <2> QED
      BY <2>1, <2>2, <2>3, <2>4
  <1>2. CASE Stop
    BY <1>2, KilledLives DEF AtWork, Stop, NoBridge
  <1>3. ASSUME NEW b \in Bridge, WriteSnapshot(b)
        PROVE  TypeOK'
    <2>1. Append(stdout[b], "snapshot") \in Seq(Line)
      BY Pipes DEF Line
    <2> QED
      BY <1>3, <2>1 DEF WriteSnapshot, Life
  <1>4. ASSUME NEW b \in Bridge, Finish(b)
        PROVE  TypeOK'
    <2>1. Append(stdout[b], "error") \in Seq(Line) /\ Append(stdout[b], "complete") \in Seq(Line)
      BY Pipes DEF Line
    <2>2. stdout' = stdout \/ \E l \in {"error", "complete"} :
                               stdout' = [stdout EXCEPT ![b] = Append(@, l)]
      BY <1>4 DEF Finish
    <2>3. stdout' \in [Bridge -> Seq(Line)]
      BY <2>1, <2>2
    <2>4. stderr' = stderr \/ stderr' = [stderr EXCEPT ![b] = 1]
      BY <1>4 DEF Finish
    <2>5. stderr' \in [Bridge -> 0 .. 1]
      BY <2>4
    <2> QED
      BY <1>4, <2>3, <2>5 DEF Finish, Life
  <1>5. ASSUME NEW b \in Bridge, Exit(b)
        PROVE  TypeOK'
    <2>1. Append(stdout[b], "broken") \in Seq(Line)
      BY Pipes DEF Line
    <2> QED
      BY <1>5, <2>1 DEF Exit, Life
  <1>6. ASSUME NEW b \in Bridge, HandleLine(b)
        PROVE  TypeOK'
    <2>1. Tail(stdout[b]) \in Seq(Line)
      BY <1>6, Pipes DEF HandleLine
    <2> QED
      BY <1>6, <2>1 DEF HandleLine
  <1>7. ASSUME NEW b \in Bridge, HandleStderr(b)
        PROVE  TypeOK'
    BY <1>7 DEF HandleStderr
  <1>8. ASSUME NEW b \in Bridge, HandleExit(b)
        PROVE  TypeOK'
    BY <1>8 DEF HandleExit, Life
  <1>9. CASE UNCHANGED vars
    BY <1>9 DEF vars
  <1> QED
    BY <1>1, <1>2, <1>3, <1>4, <1>5, <1>6, <1>7, <1>8, <1>9 DEF Next, Child, Handle

(* The variables of the manager and of its bridges keep their types.       *)
THEOREM ManagerTyped == Spec => []TypeOK
  BY TypeInit, TypeStep, PTL DEF Spec

-------------------------------------------------------------------------------
(* The handle is the newest bridge; only that one can be at work without   *)
(* having been overlapped, and if it works it is in the handle.            *)
ManagerInv ==
  /\ HandleIsNewest
  /\ \A b \in Bridge : b > started => life[b] = "none" /\ stdout[b] = <<>>
  /\ ~overlapped => /\ \A b \in Bridge : b < started => Gone(b)
                    /\ started \in Bridge /\ Working(started) => proc = started

LEMMA ManagerInvGives == TypeOK /\ ManagerInv => HandleIsNewest /\ NoBridgeEscapes
  BY DEF TypeOK, ManagerInv, NoBridgeEscapes, Working, Gone, Bridge

LEMMA ManagerStart == Init => ManagerInv
  BY BoundsAssumption DEF Init, ManagerInv, HandleIsNewest, NoBridge, Bridge, Working, Gone

LEMMA ManagerStep ==
  ASSUME TypeOK, ManagerInv, [Next]_vars
  PROVE  ManagerInv'
  <1> USE DEF ManagerInv, HandleIsNewest
  <1>0. /\ started \in Nat /\ shown \in Int /\ proc \in Bridge \cup {NoBridge}
        /\ life \in [Bridge -> Life] /\ stdout \in [Bridge -> Seq(Line)] /\ (started \in Bridge \/ started = 0)
    BY BoundsAssumption DEF TypeOK, Bridge, NoBridge
  <1>1. CASE Start
    <2>1. CASE /\ started < MaxStarts /\ started' = started + 1 /\ proc' = started + 1
               /\ \E born \in {"booting", "failed"} :
                     life' = [Killed EXCEPT ![started + 1] = born]
               /\ overlapped' = (overlapped \/ \E b \in Bridge : ~Gone(b))
               /\ UNCHANGED <<stdout, shown>>
      <3>1. started + 1 \in Bridge
        BY <1>0, <2>1, BoundsAssumption DEF Bridge
      <3>2. HandleIsNewest' /\ proc' = started'
        BY <2>1, <3>1, KilledLives DEF AtWork, Working
      <3>3. \A b \in Bridge : b > started' => life'[b] = "none" /\ stdout'[b] = <<>>
        BY <1>0, <2>1, <3>1, KilledLives DEF AtWork, Working, Bridge
      <3>4. ASSUME ~overlapped', NEW b \in Bridge, b < started'
            PROVE  Gone(b)'
        <4>1. Gone(b)
          BY <2>1, <3>4
        <4>2. life'[b] = life[b]
          BY <1>0, <2>1, <3>1, <3>4, <4>1, KilledLives DEF AtWork, Gone, Working, Bridge
        <4> QED
          BY <2>1, <4>1, <4>2 DEF Gone
      <3> QED
        BY <1>0, <2>1, <3>1, <3>2, <3>3, <3>4
    <2>2. CASE started' = started /\ proc' = NoBridge /\ life' = Killed
               /\ overlapped' = overlapped /\ UNCHANGED <<stdout, shown>>
      BY <1>0, <2>2, KilledLives DEF AtWork, Working, Gone, NoBridge, Bridge
    <2> QED
      BY <1>1, <2>1, <2>2 DEF Start
  <1>2. CASE Stop
    BY <1>0, <1>2, KilledLives DEF AtWork, Stop, Working, Gone, NoBridge, Bridge
  <1>3. ASSUME NEW b \in Bridge, WriteSnapshot(b)
        PROVE  ManagerInv'
    BY <1>0, <1>3 DEF WriteSnapshot, Working, Gone, NoBridge, Bridge
  <1>4. ASSUME NEW b \in Bridge, Finish(b)
        PROVE  ManagerInv'
    BY <1>0, <1>4 DEF Finish, Working, Gone, NoBridge, Bridge
  <1>5. ASSUME NEW b \in Bridge, Exit(b)
        PROVE  ManagerInv'
    BY <1>0, <1>5 DEF Exit, Working, Gone, NoBridge, Bridge
  <1>6. ASSUME NEW b \in Bridge, HandleLine(b)
        PROVE  ManagerInv'
    BY <1>0, <1>6 DEF HandleLine, Working, Gone, NoBridge, Bridge
  <1>7. ASSUME NEW b \in Bridge, HandleStderr(b)
        PROVE  ManagerInv'
    BY <1>7 DEF HandleStderr, Working, Gone
  <1>8. ASSUME NEW b \in Bridge, HandleExit(b)
        PROVE  ManagerInv'
    BY <1>0, <1>8 DEF HandleExit, Working, Gone, NoBridge, Bridge
  <1>9. CASE UNCHANGED vars
    BY <1>9 DEF vars, Working, Gone
  <1> QED
    BY <1>1, <1>2, <1>3, <1>4, <1>5, <1>6, <1>7, <1>8, <1>9 DEF Next, Child, Handle

(* Whatever the order of starts, stops, lines and exits, this.proc of      *)
(* mission-control-manager.ts is no bridge or the newest one, not reaped.  *)
THEOREM TheHandleIsNewest == Spec => []HandleIsNewest
  BY ManagerStart, ManagerStep, ManagerInvGives, TypeInit, TypeStep, PTL DEF Spec

(* While start() never meets an earlier bridge that is not yet gone, every *)
(* bridge at work is the one stop() kills.                                 *)
THEOREM OnlyOverlapLetsEscape == Spec => []NoBridgeEscapes
  BY ManagerStart, ManagerStep, ManagerInvGives, TypeInit, TypeStep, PTL DEF Spec
===============================================================================
