----------------------- MODULE BlueprintWorkspaceProofs -----------------------
(***************************************************************************)
(* Theorems about BlueprintWorkspace, for any number of handlers, modules, *)
(* labels and moves.                                                       *)
(***************************************************************************)
EXTENDS BlueprintWorkspace, TLAPS, SequenceTheorems, FiniteSetTheorems

Delibs == [round: 0 .. 3, fails: Seq(Labels), checks: SUBSET Checks]
Chains == [Modules -> Stages]
Jobs(n) == [kind: Kinds, pc: Pcs, home: 0 .. n, list: SUBSET (1 .. n), sess: 0 .. n,
            delib: Delibs, chain: Chains]

JobsTyped == jobs \in [Handlers -> Jobs(created)] /\ created \in Nat

(* A step of handler j: where it goes and what it takes along; the others  *)
(* and the closure stay.                                                   *)
Becomes(j, pc, sess, delib, chain) ==
  /\ jobs' = [i \in Handlers |-> jobs'[i]]
  /\ \A i \in Handlers : i # j => jobs'[i] = jobs[i]
  /\ jobs'[j] = [kind |-> jobs[j].kind, pc |-> pc, home |-> jobs[j].home,
                 list |-> jobs[j].list, sess |-> sess, delib |-> delib, chain |-> chain]

(* A handler is its fields.                                                *)
LEMMA Fields ==
  ASSUME JobsTyped, NEW j \in Handlers
  PROVE  /\ jobs[j] = [kind |-> jobs[j].kind, pc |-> jobs[j].pc, home |-> jobs[j].home,
                       list |-> jobs[j].list, sess |-> jobs[j].sess,
                       delib |-> jobs[j].delib, chain |-> jobs[j].chain]
         /\ jobs[j].kind \in Kinds /\ jobs[j].pc \in Pcs /\ jobs[j].home \in 0 .. created
         /\ jobs[j].list \subseteq 1 .. created /\ jobs[j].sess \in 0 .. created
         /\ jobs[j].delib \in Delibs /\ jobs[j].chain \in Chains
  BY DEF JobsTyped, Jobs

LEMMA GoBecomes ==
  ASSUME JobsTyped, NEW j \in Handlers, NEW pc, Go(j, pc)
  PROVE  Becomes(j, pc, jobs[j].sess, jobs[j].delib, jobs[j].chain)
  <1>1. jobs' = [jobs EXCEPT ![j].pc = pc] /\ DOMAIN jobs = Handlers
    BY DEF Go, JobsTyped
  <1>2. jobs' = [i \in Handlers |-> jobs'[i]] /\ \A i \in Handlers : i # j => jobs'[i] = jobs[i]
    BY <1>1
  <1> QED
    BY <1>1, <1>2, Fields DEF Becomes

LEMMA DoneBecomes ==
  ASSUME JobsTyped, NEW j \in Handlers, Done(j)
  PROVE  Becomes(j, "done", 0, NoDelib, jobs[j].chain)
  <1>1. jobs' = [jobs EXCEPT ![j].pc = "done", ![j].sess = 0, ![j].delib = NoDelib] /\ DOMAIN jobs = Handlers
    BY DEF Done, JobsTyped
  <1>2. jobs' = [i \in Handlers |-> jobs'[i]] /\ \A i \in Handlers : i # j => jobs'[i] = jobs[i]
    BY <1>1
  <1> QED
    BY <1>1, <1>2, Fields DEF Becomes

LEMMA SettleBecomes ==
  ASSUME JobsTyped, NEW j \in Handlers, NEW s, NEW pc, Settle(j, s, pc)
  PROVE  Becomes(j, pc, s, jobs[j].delib, jobs[j].chain)
  <1>1. jobs' = [jobs EXCEPT ![j].pc = pc, ![j].sess = s] /\ DOMAIN jobs = Handlers
    BY DEF Settle, JobsTyped
  <1>2. jobs' = [i \in Handlers |-> jobs'[i]] /\ \A i \in Handlers : i # j => jobs'[i] = jobs[i]
    BY <1>1
  <1> QED
    BY <1>1, <1>2, Fields DEF Becomes

-------------------------------------------------------------------------------
(* What holds of one handler.  A deliberation is held only in its rounds,  *)
(* of which it has at most three.  Subagents start with the pipeline; one  *)
(* is left at work only by another that threw.                             *)
DelibOK(pc, d) ==
  /\ pc \notin {"round", "finish"} => d = NoDelib
  /\ pc = "round" => d.round <= 2

ChainOK(pc, c) ==
  /\ pc \notin {"subagents", "done"} => \A m \in Modules : c[m] = "queued"
  /\ pc = "done" => \/ \A m \in Modules : c[m] \notin {"started", "built", "reviewed"}
                    \/ \E m \in Modules : c[m] = "threw"

KindOK(kind, pc) ==
  /\ pc = "navigate" => kind = "navigate"
  /\ kind = "navigate" => pc \in {"idle", "start", "navigate", "done"}

JobInv ==
  \A j \in Handlers :
    /\ DelibOK(jobs[j].pc, jobs[j].delib) /\ ChainOK(jobs[j].pc, jobs[j].chain)
    /\ KindOK(jobs[j].kind, jobs[j].pc)

(* busy, against the handlers at work.                                     *)
AtRest == {"idle", "done"}
BusyInv ==
  /\ busy \in BOOLEAN
  /\ \A i, j \in Handlers :
       i # j /\ jobs[i].pc \notin AtRest /\ jobs[j].pc \notin AtRest => overlap
  /\ busy => \/ stranded
             \/ \E j \in Handlers : jobs[j].pc \notin AtRest /\ jobs[j].kind # "navigate"
  /\ ~busy => \/ overlap
              \/ \A j \in Handlers : jobs[j].pc \in AtRest \/ jobs[j].kind = "navigate"

(* What a step of j to pc may do to busy.                                  *)
BusyStep(j, pc) ==
  /\ overlap' = overlap /\ (stranded => stranded')
  /\ \/ /\ jobs[j].pc \notin AtRest /\ pc \notin AtRest
        /\ busy' = busy \/ (busy' = TRUE /\ jobs[j].kind # "navigate")
     \/ /\ jobs[j].pc \notin AtRest /\ pc = "done"
        /\ \/ busy' = FALSE
           \/ busy' = busy /\ (jobs[j].kind = "navigate" \/ stranded')
     \/ jobs[j].pc \in AtRest /\ pc \in AtRest /\ busy' = busy

CanvasInv == JobsTyped /\ JobInv /\ BusyInv

LEMMA BusyKept ==
  ASSUME JobsTyped, BusyInv, NEW j \in Handlers, NEW pc, NEW s, NEW d, NEW c,
         Becomes(j, pc, s, d, c), BusyStep(j, pc)
  PROVE  BusyInv'
  <1>1. /\ jobs'[j].pc = pc /\ jobs'[j].kind = jobs[j].kind
        /\ \A i \in Handlers : i # j => jobs'[i] = jobs[i]
    BY DEF Becomes
  <1>2. busy' \in BOOLEAN
    BY DEF BusyStep, BusyInv
  <1>3. ASSUME NEW i \in Handlers, NEW k \in Handlers, i # k,
               jobs'[i].pc \notin AtRest, jobs'[k].pc \notin AtRest
        PROVE  overlap'
    BY <1>1, <1>3 DEF BusyStep, BusyInv
  <1>4. ASSUME busy', ~stranded'
        PROVE  \E k \in Handlers : jobs'[k].pc \notin AtRest /\ jobs'[k].kind # "navigate"
    <2>1. CASE pc \notin AtRest /\ jobs[j].kind # "navigate"
      BY <1>1, <2>1
    <2>2. CASE pc \in AtRest \/ jobs[j].kind = "navigate"
      <3>1. /\ busy' = busy /\ ~stranded
            /\ jobs[j].pc \in AtRest \/ jobs[j].kind = "navigate"
        BY <1>4, <2>2 DEF BusyStep, AtRest
      <3>2. PICK k \in Handlers : jobs[k].pc \notin AtRest /\ jobs[k].kind # "navigate"
        BY <1>4, <3>1 DEF BusyInv
      <3> QED
        BY <1>1, <3>1, <3>2
    <2> QED
      BY <2>1, <2>2
  <1>5. ASSUME ~busy', ~overlap', NEW k \in Handlers
        PROVE  jobs'[k].pc \in AtRest \/ jobs'[k].kind = "navigate"
    <2>1. ~overlap /\ (jobs[j].pc \notin AtRest => \A i \in Handlers : i # j => jobs[i].pc \in AtRest)
      BY <1>5 DEF BusyStep, BusyInv
    <2>2. CASE pc \in AtRest /\ jobs[j].pc \notin AtRest
      BY <1>1, <2>1, <2>2
    <2>3. CASE ~(pc \in AtRest /\ jobs[j].pc \notin AtRest)
      <3>1. ~busy /\ (pc \in AtRest <=> jobs[j].pc \in AtRest)
        BY <1>5, <2>3 DEF BusyStep, BusyInv, AtRest
      <3> QED
        BY <1>1, <2>1, <3>1 DEF BusyInv
    <2> QED
      BY <2>2, <2>3
  <1> QED
    BY <1>2, <1>3, <1>4, <1>5 DEF BusyInv

LEMMA Kept ==
  ASSUME CanvasInv, NEW j \in Handlers, NEW pc \in Pcs, NEW s \in 0 .. created',
         NEW d \in Delibs, NEW c \in Chains, Becomes(j, pc, s, d, c),
         created' \in Nat, created <= created',
         DelibOK(pc, d), ChainOK(pc, c), KindOK(jobs[j].kind, pc),
         BusyStep(j, pc)
  PROVE  CanvasInv'
  <1>1. JobsTyped'
    <2>1. created \in Nat /\ 0 .. created \subseteq 0 .. created' /\ 1 .. created \subseteq 1 .. created'
      BY DEF CanvasInv, JobsTyped
    <2>2. Jobs(created) \subseteq Jobs(created')
      BY <2>1 DEF Jobs
    <2>3. jobs'[j] \in Jobs(created')
      <3>1. /\ jobs[j].kind \in Kinds /\ jobs[j].home \in 0 .. created'
            /\ jobs[j].list \in SUBSET (1 .. created')
        BY <2>1, Fields DEF CanvasInv
      <3> QED
        BY <3>1 DEF Becomes, Jobs
    <2>4. \A i \in Handlers : jobs'[i] \in Jobs(created')
      BY <2>2, <2>3 DEF Becomes, CanvasInv, JobsTyped
    <2> QED
      BY <2>4 DEF Becomes, JobsTyped
  <1>2. JobInv'
    BY DEF CanvasInv, JobInv, Becomes
  <1>3. BusyInv'
    BY BusyKept DEF CanvasInv
  <1> QED
    BY <1>1, <1>2, <1>3 DEF CanvasInv

(* Sessions are only added.                                                *)
LEMMA StoreGrows ==
  ASSUME JobsTyped, NEW j \in Handlers
  PROVE  /\ EnsureSession(j) => created' \in Nat /\ created <= created' /\ Resolved(j) \in 0 .. created'
         /\ Open(j) \/ Report(j) \/ Say(j) \/ UNCHANGED store => created' \in Nat /\ created <= created'
  BY Fields DEF JobsTyped, EnsureSession, Resolved, Open, Report, Say, store
(* The steps that change a deliberation or a chain.                        *)
LEMMA DelibBecomes ==
  ASSUME JobsTyped, NEW j \in Handlers, NEW pc, NEW d,
         jobs' = [jobs EXCEPT ![j].pc = pc, ![j].delib = d]
  PROVE  Becomes(j, pc, jobs[j].sess, d, jobs[j].chain)
  <1>1. jobs' = [i \in Handlers |-> jobs'[i]] /\ \A i \in Handlers : i # j => jobs'[i] = jobs[i]
    BY DEF JobsTyped
  <1> QED
    BY <1>1, Fields DEF Becomes, JobsTyped

LEMMA DelibFirstBecomes ==
  ASSUME JobsTyped, NEW j \in Handlers, NEW pc, NEW d,
         jobs' = [jobs EXCEPT ![j].delib = d, ![j].pc = pc]
  PROVE  Becomes(j, pc, jobs[j].sess, d, jobs[j].chain)
  <1>1. jobs' = [i \in Handlers |-> jobs'[i]] /\ \A i \in Handlers : i # j => jobs'[i] = jobs[i]
    BY DEF JobsTyped
  <1> QED
    BY <1>1, Fields DEF Becomes, JobsTyped

LEMMA ChainBecomes ==
  ASSUME JobsTyped, NEW j \in Handlers, NEW pc, NEW c,
         jobs' = [jobs EXCEPT ![j].pc = pc, ![j].chain = c]
  PROVE  Becomes(j, pc, jobs[j].sess, jobs[j].delib, c)
  <1>1. jobs' = [i \in Handlers |-> jobs'[i]] /\ \A i \in Handlers : i # j => jobs'[i] = jobs[i]
    BY DEF JobsTyped
  <1> QED
    BY <1>1, Fields DEF Becomes, JobsTyped

LEMMA StageBecomes ==
  ASSUME JobsTyped, NEW j \in Handlers, NEW m \in Modules, NEW t,
         jobs' = [jobs EXCEPT ![j].chain[m] = t]
  PROVE  Becomes(j, jobs[j].pc, jobs[j].sess, jobs[j].delib, [jobs[j].chain EXCEPT ![m] = t])
  <1>1. jobs' = [i \in Handlers |-> jobs'[i]] /\ \A i \in Handlers : i # j => jobs'[i] = jobs[i]
    BY DEF JobsTyped
  <1> QED
    BY <1>1, Fields DEF Becomes, JobsTyped

LEMMA ThrewBecomes ==
  ASSUME JobsTyped, NEW j \in Handlers, NEW m \in Modules, NEW t, NEW pc,
         jobs' = [jobs EXCEPT ![j].chain[m] = t, ![j].pc = pc]
  PROVE  Becomes(j, pc, jobs[j].sess, jobs[j].delib, [jobs[j].chain EXCEPT ![m] = t])
  <1>1. jobs' = [i \in Handlers |-> jobs'[i]] /\ \A i \in Handlers : i # j => jobs'[i] = jobs[i]
    BY DEF JobsTyped
  <1> QED
    BY <1>1, Fields DEF Becomes, JobsTyped

(* A handler that ends without leaving a subagent at work.                 *)
LEMMA DoneKept ==
  ASSUME CanvasInv, NEW j \in Handlers, Done(j), jobs[j].pc \notin AtRest,
         \A m \in Modules : jobs[j].chain[m] \notin {"started", "built", "reviewed"},
         created' \in Nat, created <= created',
         overlap' = overlap, stranded => stranded',
         \/ busy' = FALSE
         \/ busy' = busy /\ (jobs[j].kind = "navigate" \/ stranded')
  PROVE  CanvasInv'
  <1>1. NoDelib \in Delibs /\ NoDelib.round = 0
    BY EmptySeq DEF NoDelib, Delibs
  <1>2. Becomes(j, "done", 0, NoDelib, jobs[j].chain) /\ jobs[j].chain \in Chains
    BY DoneBecomes, Fields DEF CanvasInv
  <1>3. DelibOK("done", NoDelib) /\ ChainOK("done", jobs[j].chain) /\ KindOK(jobs[j].kind, "done")
    BY <1>1 DEF DelibOK, ChainOK, KindOK
  <1>4. "done" \in Pcs /\ 0 \in 0 .. created' /\ BusyStep(j, "done")
    BY DEF Pcs, BusyStep, AtRest
  <1> QED
    BY <1>1, <1>2, <1>3, <1>4, Kept

(* A handler that goes on within its session.                              *)
LEMMA GoKept ==
  ASSUME CanvasInv, NEW j \in Handlers, NEW pc \in Pcs, Go(j, pc),
         jobs[j].pc \notin AtRest, pc \notin AtRest, KindOK(jobs[j].kind, pc),
         DelibOK(pc, jobs[j].delib), ChainOK(pc, jobs[j].chain),
         created' \in Nat, created <= created',
         overlap' = overlap, stranded => stranded',
         busy' = busy \/ (busy' = TRUE /\ jobs[j].kind # "navigate")
  PROVE  CanvasInv'
  <1>1. Becomes(j, pc, jobs[j].sess, jobs[j].delib, jobs[j].chain)
    BY GoBecomes DEF CanvasInv
  <1>2. /\ jobs[j].chain \in Chains /\ jobs[j].delib \in Delibs
        /\ jobs[j].sess \in 0 .. created /\ created \in Nat
    BY Fields DEF CanvasInv, JobsTyped
  <1>3. jobs[j].sess \in 0 .. created'
    BY <1>2
  <1>4. BusyStep(j, pc)
    BY DEF BusyStep
  <1> QED
    BY <1>1, <1>2, <1>3, <1>4, Kept

(* The three ways a handler throws.                                        *)
LEMMA ThrowKept ==
  ASSUME CanvasInv, NEW j \in Handlers, jobs[j].pc \notin AtRest,
         \A m \in Modules : jobs[j].chain[m] \notin {"started", "built", "reviewed"},
         ThrowAndReport(j) \/ ThrowQuietly(j) \/ PipelineThrow(j)
  PROVE  CanvasInv'
  <1>1. created' \in Nat /\ created <= created'
    BY StoreGrows DEF CanvasInv, ThrowAndReport, ThrowQuietly, PipelineThrow
  <1>2. Done(j) /\ busy' = FALSE /\ overlap' = overlap /\ stranded' = stranded
    BY DEF ThrowAndReport, ThrowQuietly, PipelineThrow, hist
  <1> QED
    BY <1>1, <1>2, DoneKept

(* Before its pipeline a handler has no subagents.                         *)
LEMMA NoSubagents ==
  ASSUME CanvasInv, NEW j \in Handlers, jobs[j].pc \notin {"subagents", "done"}
  PROVE  \A m \in Modules : jobs[j].chain[m] \notin {"started", "built", "reviewed"}
  BY DEF CanvasInv, JobInv, ChainOK

(* The first awaits: session, user's message, answers.                     *)
LEMMA FirstStepsKeep ==
  ASSUME CanvasInv, NEW j \in Handlers, Start(j) \/ Greet(j) \/ Answer(j) \/ Navigate(j)
  PROVE  CanvasInv'
  <1>0. /\ created \in Nat /\ jobs[j].kind \in Kinds
        /\ jobs[j].pc \in {"start", "greet", "answer", "navigate"}
        /\ KindOK(jobs[j].kind, jobs[j].pc)
        /\ jobs[j].delib = NoDelib /\ NoDelib \in Delibs /\ NoDelib.round = 0
        /\ jobs[j].chain \in Chains /\ \A m \in Modules : jobs[j].chain[m] = "queued"
    <2>1. jobs[j].pc \in {"start", "greet", "answer", "navigate"}
      BY DEF Start, Greet, Answer, Navigate, At
    <2>2. NoDelib \in Delibs /\ NoDelib.round = 0
      BY EmptySeq DEF NoDelib, Delibs
    <2>3. created \in Nat /\ jobs[j].kind \in Kinds /\ jobs[j].chain \in Chains
      BY Fields DEF CanvasInv, JobsTyped
    <2> QED
      BY <2>1, <2>2, <2>3 DEF CanvasInv, JobInv, DelibOK, ChainOK
  <1>1. jobs[j].pc \notin AtRest /\ jobs[j].pc \notin {"subagents", "done"}
    BY <1>0 DEF AtRest
  <1>2. CASE Start(j)
    <2>1. CASE /\ Open(j)
               /\ Settle(j, Resolved(j), Second(jobs[j].kind))
               /\ UNCHANGED <<panel, forge, hist>>
      <3> DEFINE pc == Second(jobs[j].kind)
      <3>1. pc \in {"synthesize", "navigate", "greet"} /\ KindOK(jobs[j].kind, pc)
        BY DEF KindOK, Second
      <3>2. Becomes(j, pc, Resolved(j), jobs[j].delib, jobs[j].chain)
        BY <2>1, SettleBecomes DEF CanvasInv
      <3> HIDE DEF pc
      <3>3. created' \in Nat /\ created <= created' /\ Resolved(j) \in 0 .. created'
        BY <2>1, StoreGrows DEF CanvasInv, Open
      <3>4. pc \in Pcs /\ DelibOK(pc, jobs[j].delib) /\ ChainOK(pc, jobs[j].chain)
        BY <1>0, <3>1 DEF Pcs, DelibOK, ChainOK
      <3>5. BusyStep(j, pc)
        BY <1>1, <2>1, <3>1 DEF BusyStep, AtRest, panel, hist
      <3> QED
        BY <1>0, <3>1, <3>2, <3>3, <3>4, <3>5, Kept
    <2>2. CASE ThrowAndReport(j) \/ ThrowQuietly(j)
      BY <1>1, <2>2, ThrowKept, NoSubagents
    <2>3. CASE jobs[j].kind = "navigate" /\ Done(j) /\ UNCHANGED <<store, panel, forge, hist>>
      <3>1. busy' = busy /\ overlap' = overlap /\ stranded' = stranded
        BY <2>3 DEF panel, hist
      <3>2. created' \in Nat /\ created <= created'
        BY <1>0, <2>3 DEF store
      <3> QED
        BY <1>1, <2>3, <3>1, <3>2, DoneKept, NoSubagents
    <2> QED
      BY <1>2, <2>1, <2>2, <2>3 DEF Start
  <1>3. CASE Greet(j)
    <2>1. CASE /\ Say(j)
               /\ Go(j, CASE jobs[j].kind = "plan" -> "purpose"
                          [] jobs[j].kind = "ask"  -> "answer"
                          [] OTHER                 -> "pipeline")
               /\ UNCHANGED <<busy, issues, draft, forge, hist>>
      <3> DEFINE pc == CASE jobs[j].kind = "plan" -> "purpose"
                         [] jobs[j].kind = "ask"  -> "answer"
                         [] OTHER                 -> "pipeline"
      <3>1. pc \in {"purpose", "answer", "pipeline"}
        OBVIOUS
      <3>2. Go(j, pc)
        BY <2>1
      <3> HIDE DEF pc
      <3>3. jobs[j].kind # "navigate"
        BY <1>3, <1>0 DEF KindOK, Greet, At
      <3>4. KindOK(jobs[j].kind, pc) /\ pc \in Pcs /\ pc \notin AtRest
        BY <3>1, <3>3 DEF KindOK, Pcs, AtRest
      <3>5. DelibOK(pc, jobs[j].delib) /\ ChainOK(pc, jobs[j].chain)
        BY <1>0, <3>1 DEF DelibOK, ChainOK
      <3>6. created' = created /\ busy' = busy /\ overlap' = overlap /\ stranded' = stranded
        BY <2>1 DEF Say, hist
      <3> QED
        BY <1>0, <1>1, <3>2, <3>4, <3>5, <3>6, GoKept
    <2>2. CASE ThrowAndReport(j) \/ ThrowQuietly(j)
      BY <1>1, <2>2, ThrowKept, NoSubagents
    <2> QED
      BY <1>3, <2>1, <2>2 DEF Greet
  <1>4. CASE Answer(j)
    <2>1. CASE Say(j) /\ Done(j) /\ busy' = FALSE /\ UNCHANGED hist
      <3>1. overlap' = overlap /\ stranded' = stranded
        BY <2>1 DEF hist
      <3>2. created' \in Nat /\ created <= created'
        BY <2>1, StoreGrows DEF CanvasInv
      <3> QED
        BY <1>1, <2>1, <3>1, <3>2, DoneKept, NoSubagents
    <2>2. CASE ThrowAndReport(j)
      BY <1>1, <2>2, ThrowKept, NoSubagents
    <2> QED
      BY <1>4, <2>1, <2>2 DEF Answer
  <1>5. CASE Navigate(j)
    <2>1. jobs[j].kind = "navigate"
      BY <1>0, <1>5 DEF Navigate, At, KindOK
    <2>2. created' \in Nat /\ created <= created'
      BY <1>5, StoreGrows DEF Navigate, CanvasInv
    <2>3. Done(j) /\ busy' = busy /\ overlap' = overlap /\ stranded' = stranded
      BY <1>5 DEF Navigate, panel, hist
    <2> QED
      BY <1>1, <2>1, <2>2, <2>3, DoneKept, NoSubagents
  <1> QED
    BY <1>2, <1>3, <1>4, <1>5

-------------------------------------------------------------------------------
(* A review leaves a deliberation within its bounds.                       *)
LEMMA ReviewKeeps ==
  ASSUME NEW d \in Delibs, DelibOK("round", d), NEW r \in Reviews, NEW new,
         new = [d EXCEPT !.round = @ + 1, !.fails = @ \o r.fails, !.checks = @ \union r.checks],
         NEW pc,
         pc = IF (IF r.converged THEN "Reviewer CONVERGED" ELSE CheckConvergence(new)) # "none"
              THEN "finish" ELSE "round"
  PROVE  new \in Delibs /\ pc \in {"round", "finish"} /\ DelibOK(pc, new)
  <1>1. /\ d.round \in 0 .. 2 /\ d.fails \in Seq(Labels) /\ d.checks \subseteq Checks
        /\ d = [round |-> d.round, fails |-> d.fails, checks |-> d.checks]
    BY DEF Delibs, DelibOK
  <1>2. r.fails \in Seq(Labels) /\ r.checks \subseteq Checks
    <2>1. \A l \in Labels : <<l>> \in Seq(Labels)
      OBVIOUS
    <2>0. <<>> \in Seq(Labels)
      BY EmptySeq
    <2>2. r.fails \in {<<>>} \union {<<l>> : l \in Labels}
      BY DEF Reviews
    <2>3. r.checks \in {{}} \union {{c} : c \in Checks}
      BY DEF Reviews
    <2> QED
      BY <2>0, <2>1, <2>2, <2>3
  <1>3. new = [round |-> d.round + 1, fails |-> d.fails \o r.fails, checks |-> d.checks \union r.checks]
    BY <1>1
  <1>4. d.fails \o r.fails \in Seq(Labels)
    BY <1>1, <1>2, ConcatProperties
  <1>5. new \in Delibs
    <2>1. d.round + 1 \in 0 .. 3 /\ d.checks \union r.checks \in SUBSET Checks
      BY <1>1, <1>2
    <2> QED
      BY <1>3, <1>4, <2>1 DEF Delibs
  <1>6. ASSUME pc = "round"
        PROVE  new.round <= 2
    <2>1. CheckConvergence(new) = "none"
      BY <1>6
    <2>2. ~(new.round >= 3)
      BY <2>1 DEF CheckConvergence
    <2>3. new.round \in 0 .. 3
      BY <1>5 DEF Delibs
    <2> QED
      BY <2>2, <2>3
  <1> QED
    BY <1>5, <1>6 DEF DelibOK

(* The deliberation.                                                       *)
LEMMA DeliberationKeeps ==
  ASSUME CanvasInv, NEW j \in Handlers, Purpose(j) \/ Round(j) \/ Finish(j) \/ Deliver(j)
  PROVE  CanvasInv'
  <1>0. /\ created \in Nat /\ jobs[j].chain \in Chains /\ jobs[j].delib \in Delibs
        /\ jobs[j].pc \in {"purpose", "round", "finish", "deliver"}
        /\ DelibOK(jobs[j].pc, jobs[j].delib) /\ KindOK(jobs[j].kind, jobs[j].pc)
        /\ ChainOK(jobs[j].pc, jobs[j].chain)
        /\ jobs[j].sess \in 0 .. created
        /\ NoDelib \in Delibs /\ NoDelib.round = 0
    <2>1. jobs[j].pc \in {"purpose", "round", "finish", "deliver"}
      BY DEF Purpose, Round, Finish, Deliver, At
    <2>2. NoDelib \in Delibs /\ NoDelib.round = 0
      BY EmptySeq DEF NoDelib, Delibs
    <2>3. /\ created \in Nat /\ jobs[j].chain \in Chains /\ jobs[j].delib \in Delibs
          /\ jobs[j].sess \in 0 .. created
      BY Fields DEF CanvasInv, JobsTyped
    <2> QED
      BY <2>1, <2>2, <2>3 DEF CanvasInv, JobInv
  <1>1. jobs[j].pc \notin AtRest /\ jobs[j].pc \notin {"subagents", "done"}
    BY <1>0 DEF AtRest
  <1>2. \A pc \in {"round", "finish", "deliver"} :
          pc \in Pcs /\ pc \notin AtRest /\ KindOK(jobs[j].kind, pc) /\ ChainOK(pc, jobs[j].chain)
    BY <1>0 DEF Pcs, AtRest, KindOK, ChainOK
  <1>3. CASE ThrowAndReport(j)
    BY <1>1, <1>3, ThrowKept, NoSubagents
  <1>4. CASE /\ At(j, "purpose") /\ (Say(j) \/ UNCHANGED store)
             /\ Go(j, "round") /\ UNCHANGED <<panel, forge, hist>>
    <2>1. created' \in Nat /\ created <= created'
      BY <1>4, StoreGrows DEF CanvasInv
    <2>2. busy' = busy /\ overlap' = overlap /\ stranded' = stranded
      BY <1>4 DEF panel, hist
    <2>3. DelibOK("round", jobs[j].delib)
      BY <1>0, <1>4 DEF At, DelibOK
    <2> QED
      BY <1>1, <1>2, <1>4, <2>1, <2>2, <2>3, GoKept
  <1>5. CASE At(j, "round") /\ ~ThrowAndReport(j) /\ Round(j)
    <2>1. PICK r \in Reviews :
          LET d   == jobs[j].delib
              new == [d EXCEPT !.round  = @ + 1,
                               !.fails  = @ \o r.fails,
                               !.checks = @ \union r.checks]
              end == IF r.converged THEN "Reviewer CONVERGED"
                                    ELSE CheckConvergence(new)
          IN /\ jobs' = [jobs EXCEPT
                  ![j].delib = new,
                  ![j].pc    = IF end # "none" THEN "finish" ELSE "round"]
             /\ UNCHANGED <<store, panel, forge, hist>>
      BY <1>5 DEF Round
    <2> DEFINE d   == jobs[j].delib
               new == [d EXCEPT !.round = @ + 1, !.fails = @ \o r.fails, !.checks = @ \union r.checks]
               pc  == IF (IF r.converged THEN "Reviewer CONVERGED" ELSE CheckConvergence(new)) # "none"
                      THEN "finish" ELSE "round"
    <2>2. jobs' = [jobs EXCEPT ![j].delib = new, ![j].pc = pc] /\ UNCHANGED <<store, panel, forge, hist>>
      BY <2>1
    <2>3. DelibOK("round", d) /\ d \in Delibs
      BY <1>0, <1>5 DEF At
    <2>4. new \in Delibs /\ pc \in {"round", "finish"} /\ DelibOK(pc, new)
      BY <2>3, ReviewKeeps
    <2> HIDE DEF new, pc
    <2>5. Becomes(j, pc, jobs[j].sess, new, jobs[j].chain)
      BY <2>2, DelibFirstBecomes DEF CanvasInv
    <2>6. /\ created' = created /\ busy' = busy /\ overlap' = overlap /\ stranded' = stranded
      BY <2>2 DEF store, panel, hist
    <2>7. /\ created' \in Nat /\ created <= created' /\ jobs[j].sess \in 0 .. created'
      BY <1>0, <2>6
    <2>8. /\ BusyStep(j, pc) /\ pc \in Pcs /\ KindOK(jobs[j].kind, pc) /\ ChainOK(pc, jobs[j].chain)
      BY <1>1, <1>2, <2>4, <2>6 DEF BusyStep
    <2> QED
      BY <1>0, <2>4, <2>5, <2>7, <2>8, Kept
  <1>6. CASE /\ At(j, "finish") /\ (Say(j) \/ UNCHANGED store)
             /\ jobs' = [jobs EXCEPT ![j].pc = "deliver", ![j].delib = NoDelib]
             /\ UNCHANGED <<panel, blocked, hist>>
    <2>1. created' \in Nat /\ created <= created'
      BY <1>6, StoreGrows DEF CanvasInv
    <2>2. busy' = busy /\ overlap' = overlap /\ stranded' = stranded
      BY <1>6 DEF panel, hist
    <2>3. Becomes(j, "deliver", jobs[j].sess, NoDelib, jobs[j].chain)
      BY <1>6, DelibBecomes DEF CanvasInv
    <2>4. jobs[j].sess \in 0 .. created'
      BY <1>0, <2>1
    <2>5. DelibOK("deliver", NoDelib) /\ BusyStep(j, "deliver")
      BY <1>0, <1>1, <1>2, <2>2 DEF DelibOK, BusyStep
    <2> QED
      BY <1>0, <1>2, <2>1, <2>3, <2>4, <2>5, Kept
  <1>7. CASE Deliver(j)
    <2>1. (Say(j) \/ Report(j) \/ UNCHANGED store) /\ Done(j) /\ busy' = FALSE
      BY <1>7 DEF Deliver, store
    <2>2. created' \in Nat /\ created <= created'
      BY <2>1, StoreGrows DEF CanvasInv
    <2>3. overlap' = overlap /\ stranded' = stranded
      BY <1>7 DEF Deliver, hist
    <2> QED
      BY <1>1, <2>1, <2>2, <2>3, DoneKept, NoSubagents
  <1>8. Purpose(j) => \/ ThrowAndReport(j)
                      \/ /\ At(j, "purpose") /\ (Say(j) \/ UNCHANGED store)
                         /\ Go(j, "round") /\ UNCHANGED <<panel, forge, hist>>
    BY DEF Purpose, FrameLockFails
  <1>9. Round(j) => ThrowAndReport(j) \/ (At(j, "round") /\ ~ThrowAndReport(j) /\ Round(j))
    BY DEF Round
  <1>10. Finish(j) => \/ ThrowAndReport(j)
                      \/ /\ At(j, "finish") /\ (Say(j) \/ UNCHANGED store)
                         /\ jobs' = [jobs EXCEPT ![j].pc = "deliver", ![j].delib = NoDelib]
                         /\ UNCHANGED <<panel, blocked, hist>>
    BY DEF Finish, RenderFails
  <1> QED
    BY <1>3, <1>4, <1>5, <1>6, <1>7, <1>8, <1>9, <1>10

-------------------------------------------------------------------------------
(* The pipeline.                                                           *)
LEMMA PipelineKeeps ==
  ASSUME CanvasInv, NEW j \in Handlers,
         Synthesize(j) \/ PipelineStart(j) \/ Contracts(j) \/ Wrap(j)
  PROVE  CanvasInv'
  <1>0. /\ created \in Nat /\ jobs[j].chain \in Chains
        /\ jobs[j].pc \in {"synthesize", "pipeline", "contracts", "subagents"}
        /\ jobs[j].delib = NoDelib /\ jobs[j].kind # "navigate"
        /\ ChainOK(jobs[j].pc, jobs[j].chain)
        /\ jobs[j].sess \in 0 .. created
        /\ NoDelib \in Delibs /\ NoDelib.round = 0
    <2>1. jobs[j].pc \in {"synthesize", "pipeline", "contracts", "subagents"}
      BY DEF Synthesize, PipelineStart, Contracts, Wrap, At
    <2>2. NoDelib \in Delibs /\ NoDelib.round = 0
      BY EmptySeq DEF NoDelib, Delibs
    <2>3. /\ created \in Nat /\ jobs[j].chain \in Chains /\ jobs[j].sess \in 0 .. created
      BY Fields DEF CanvasInv, JobsTyped
    <2> QED
      BY <2>1, <2>2, <2>3 DEF CanvasInv, JobInv, DelibOK, KindOK
  <1>1. jobs[j].pc \notin AtRest
    BY <1>0 DEF AtRest
  <1>2. \A pc \in {"pipeline", "contracts", "subagents"} :
          pc \in Pcs /\ pc \notin AtRest /\ KindOK(jobs[j].kind, pc) /\ DelibOK(pc, jobs[j].delib)
    BY <1>0 DEF Pcs, AtRest, KindOK, DelibOK
  <1>3. ASSUME ThrowQuietly(j) \/ PipelineThrow(j),
               \A m \in Modules : jobs[j].chain[m] \notin {"started", "built", "reviewed"}
        PROVE  CanvasInv'
    BY <1>1, <1>3, ThrowKept
  <1>4. CASE Synthesize(j)
    <2>0. jobs[j].pc \notin {"subagents", "done"}
      BY <1>4 DEF Synthesize, At
    <2>1. CASE ThrowQuietly(j)
      BY <1>3, <2>0, <2>1, NoSubagents
    <2>2. ASSUME NEW go \in BOOLEAN, Say(j), IF go THEN Go(j, "pipeline") ELSE Done(j),
                 busy' = go, UNCHANGED <<issues, forge, hist>>
          PROVE  CanvasInv'
      <3>1. created' \in Nat /\ created <= created'
        BY <2>2, StoreGrows DEF CanvasInv
      <3>2. overlap' = overlap /\ stranded' = stranded
        BY <2>2 DEF hist
      <3>3. CASE go
        <4>1. Go(j, "pipeline") /\ busy' = TRUE
          BY <2>2, <3>3
        <4>2. ChainOK("pipeline", jobs[j].chain)
          BY <1>0, <2>0 DEF ChainOK
        <4> QED
          BY <1>0, <1>1, <1>2, <3>1, <3>2, <4>1, <4>2, GoKept
      <3>4. CASE ~go
        <4>1. Done(j) /\ busy' = FALSE
          BY <2>2, <3>4
        <4> QED
          BY <1>1, <2>0, <3>1, <3>2, <4>1, DoneKept, NoSubagents
      <3> QED
        BY <3>3, <3>4
    <2>3. ASSUME Done(j), busy' = FALSE, UNCHANGED <<store, execState>>, UNCHANGED <<issues, forge, hist>>
          PROVE  CanvasInv'
      <3>1. created' = created /\ overlap' = overlap /\ stranded' = stranded
        BY <2>3 DEF hist, store
      <3>2. created' \in Nat /\ created <= created'
        BY <1>0, <3>1
      <3> QED
        BY <1>1, <2>0, <2>3, <3>1, <3>2, DoneKept, NoSubagents
    <2>4. ASSUME NEW go \in BOOLEAN,
                 \/ /\ Say(j)
                    /\ IF go THEN Go(j, "pipeline") ELSE Done(j)
                    /\ busy' = go
                    /\ execState' = IF go THEN "execute" ELSE execState
                 \/ Done(j) /\ busy' = FALSE /\ UNCHANGED <<store, execState>>,
                 UNCHANGED <<issues, forge, hist>>
          PROVE  CanvasInv'
      BY <2>2, <2>3, <2>4
    <2> QED
      BY <1>4, <2>1, <2>4 DEF Synthesize
  <1>5. CASE PipelineStart(j)
    <2>0. jobs[j].pc \notin {"subagents", "done"}
      BY <1>5 DEF PipelineStart, At
    <2>1. CASE ThrowQuietly(j)
      BY <1>3, <2>0, <2>1, NoSubagents
    <2>2. CASE /\ EnsureSession(j) /\ Post(j, Resolved(j))
               /\ Settle(j, Resolved(j), "contracts")
               /\ UNCHANGED <<panel, forge, hist>>
      <3>1. created' \in Nat /\ created <= created' /\ Resolved(j) \in 0 .. created'
        BY <2>2, StoreGrows DEF CanvasInv
      <3>2. busy' = busy /\ overlap' = overlap /\ stranded' = stranded
        BY <2>2 DEF panel, hist
      <3>3. Becomes(j, "contracts", Resolved(j), jobs[j].delib, jobs[j].chain)
        BY <2>2, SettleBecomes DEF CanvasInv
      <3>4. ChainOK("contracts", jobs[j].chain) /\ BusyStep(j, "contracts")
        BY <1>0, <1>1, <1>2, <2>0, <3>2 DEF ChainOK, BusyStep
      <3> QED
        BY <1>0, <1>2, <3>1, <3>3, <3>4, Kept
    <2>3. CASE Done(j) /\ stranded' = TRUE /\ UNCHANGED <<store, panel, forge, surfaces, moves, overlap>>
      <3>1. created' = created /\ busy' = busy /\ overlap' = overlap /\ stranded'
        BY <2>3 DEF store, panel
      <3>2. created' \in Nat /\ created <= created'
        BY <1>0, <3>1
      <3> QED
        BY <1>1, <2>0, <2>3, <3>1, <3>2, DoneKept, NoSubagents
    <2> QED
      BY <1>5, <2>1, <2>2, <2>3 DEF PipelineStart
  <1>6. CASE Contracts(j)
    <2>0. jobs[j].pc \notin {"subagents", "done"}
      BY <1>6 DEF Contracts, At
    <2>1. CASE PipelineThrow(j)
      BY <1>3, <2>0, <2>1, NoSubagents
    <2>2. ASSUME Say(j), UNCHANGED <<panel, forge, hist>>, NEW ms \in PlanModules,
                 jobs' = [jobs EXCEPT ![j].pc = "subagents",
                   ![j].chain = [m \in Modules |-> IF m \in ms THEN "started" ELSE "queued"]]
          PROVE  CanvasInv'
      <3> DEFINE c == [m \in Modules |-> IF m \in ms THEN "started" ELSE "queued"]
      <3>1. c \in Chains
        BY DEF Chains, Stages
      <3>2. jobs' = [jobs EXCEPT ![j].pc = "subagents", ![j].chain = c]
        BY <2>2
      <3> HIDE DEF c
      <3>3. Becomes(j, "subagents", jobs[j].sess, jobs[j].delib, c)
        BY <3>2, ChainBecomes DEF CanvasInv
      <3>4. created' \in Nat /\ created <= created'
        BY <2>2, StoreGrows DEF CanvasInv
      <3>5. jobs[j].sess \in 0 .. created'
        BY <1>0, <3>4
      <3>6. busy' = busy /\ overlap' = overlap /\ stranded' = stranded
        BY <2>2 DEF panel, hist
      <3>7. ChainOK("subagents", c) /\ BusyStep(j, "subagents")
        BY <1>1, <1>2, <3>6 DEF ChainOK, BusyStep
      <3> QED
        BY <1>0, <1>2, <3>1, <3>3, <3>4, <3>5, <3>7, Kept
    <2> QED
      BY <1>6, <2>1, <2>2 DEF Contracts
  <1>7. CASE Wrap(j)
    <2>0. \A m \in Modules : jobs[j].chain[m] \notin {"started", "built", "reviewed"}
      BY <1>7 DEF Wrap, AllTested, Tested
    <2>1. CASE PipelineThrow(j)
      BY <1>3, <2>0, <2>1
    <2>2. CASE Say(j) /\ Done(j) /\ busy' = FALSE /\ UNCHANGED <<draft, forge, moves, overlap, stranded>>
      <3>1. created' \in Nat /\ created <= created'
        BY <2>2, StoreGrows DEF CanvasInv
      <3> QED
        BY <1>1, <2>0, <2>2, <3>1, DoneKept
    <2> QED
      BY <1>7, <2>1, <2>2 DEF Wrap
  <1> QED
    BY <1>4, <1>5, <1>6, <1>7

(* A subagent; one that throws ends the pipeline.                          *)
LEMMA SubagentKeeps ==
  ASSUME CanvasInv, NEW j \in Handlers, NEW m \in Modules, SubagentStep(j, m)
  PROVE  CanvasInv'
  <1> DEFINE AtTheirWork == {"started", "built", "reviewed"}
  <1>0. /\ created \in Nat /\ jobs[j].chain \in Chains /\ jobs[j].delib = NoDelib
        /\ jobs[j].pc \in {"subagents", "done"} /\ jobs[j].pc \in Pcs
        /\ jobs[j].pc = "done" => \E k \in Modules : jobs[j].chain[k] = "threw"
        /\ KindOK(jobs[j].kind, jobs[j].pc)
        /\ jobs[j].sess \in 0 .. created
        /\ NoDelib \in Delibs /\ NoDelib.round = 0
    <2>1. jobs[j].pc \in {"subagents", "done"}
      BY DEF SubagentStep, At, Unattended
    <2>2. NoDelib \in Delibs /\ NoDelib.round = 0
      BY EmptySeq DEF NoDelib, Delibs
    <2>3. /\ created \in Nat /\ jobs[j].chain \in Chains /\ jobs[j].sess \in 0 .. created
          /\ jobs[j].pc \in Pcs
      BY Fields DEF CanvasInv, JobsTyped
    <2>4. DelibOK(jobs[j].pc, jobs[j].delib) /\ ChainOK(jobs[j].pc, jobs[j].chain)
          /\ KindOK(jobs[j].kind, jobs[j].pc)
      BY DEF CanvasInv, JobInv
    <2>5. jobs[j].delib = NoDelib
      BY <2>1, <2>4 DEF DelibOK
    <2>6. jobs[j].pc = "done" => \E k \in Modules : jobs[j].chain[k] = "threw"
      BY <2>4 DEF SubagentStep, At, Unattended, ChainOK
    <2> QED
      BY <2>1, <2>2, <2>3, <2>4, <2>5, <2>6
  <1>1. ASSUME NEW t \in NextStages(jobs[j].chain[m]), jobs' = [jobs EXCEPT ![j].chain[m] = t],
               Say(j), UNCHANGED <<panel, forge, hist>>
        PROVE  CanvasInv'
    <2> DEFINE c == [jobs[j].chain EXCEPT ![m] = t]
    <2>1. t \in {"built", "reviewed", "passed", "failed"} /\ jobs[j].chain[m] \in AtTheirWork
      BY <1>0, <1>1 DEF NextStages, Tested, Chains, Stages
    <2>2. c \in Chains /\ \A k \in Modules : jobs[j].chain[k] = "threw" => c[k] = "threw"
      BY <1>0, <2>1 DEF Chains, Stages
    <2>3. Becomes(j, jobs[j].pc, jobs[j].sess, jobs[j].delib, c)
      BY <1>1, StageBecomes DEF CanvasInv
    <2> HIDE DEF c
    <2>4. created' \in Nat /\ created <= created' /\ jobs[j].sess \in 0 .. created'
      BY <1>0, <1>1 DEF Say
    <2>5. busy' = busy /\ overlap' = overlap /\ stranded' = stranded
      BY <1>1 DEF panel, hist
    <2>6. ChainOK(jobs[j].pc, c) /\ DelibOK(jobs[j].pc, jobs[j].delib)
      BY <1>0, <2>2 DEF ChainOK, DelibOK
    <2>7. BusyStep(j, jobs[j].pc)
      BY <2>5 DEF BusyStep
    <2> QED
      BY <1>0, <2>2, <2>3, <2>4, <2>6, <2>7, Kept
  <1>2. ASSUME jobs[j].chain[m] \in AtTheirWork,
               jobs' = [jobs EXCEPT ![j].chain[m] = "threw", ![j].pc = "done"],
               IF At(j, "subagents") THEN busy' = FALSE /\ (Say(j) \/ UNCHANGED store)
                                     ELSE UNCHANGED <<busy, store>>,
               UNCHANGED <<execState, issues, draft, forge, hist>>
        PROVE  CanvasInv'
    <2> DEFINE c == [jobs[j].chain EXCEPT ![m] = "threw"]
    <2>1. c \in Chains /\ c[m] = "threw"
      BY <1>0 DEF Chains, Stages
    <2>2. Becomes(j, "done", jobs[j].sess, jobs[j].delib, c)
      BY <1>2, ThrewBecomes DEF CanvasInv
    <2> HIDE DEF c
    <2>3. created' \in Nat /\ created <= created' /\ jobs[j].sess \in 0 .. created'
      BY <1>0, <1>2 DEF Say, store
    <2>4. ChainOK("done", c) /\ DelibOK("done", jobs[j].delib) /\ KindOK(jobs[j].kind, "done")
      BY <1>0, <2>1 DEF ChainOK, DelibOK, KindOK
    <2>5. BusyStep(j, "done")
      BY <1>0, <1>2 DEF BusyStep, At, AtRest, hist
    <2>6. "done" \in Pcs
      BY DEF Pcs
    <2> QED
      BY <1>0, <2>1, <2>2, <2>3, <2>4, <2>5, <2>6, Kept
  <1> QED
    BY <1>1, <1>2 DEF SubagentStep

-------------------------------------------------------------------------------
(* Commands.  One that begins while another is at work overlaps it.        *)
LEMMA BeginKeeps ==
  ASSUME CanvasInv, NEW j \in Handlers, NEW kind \in Kinds,
         NEW pc \in {"start", "pipeline"}, Begin(j, kind, pc),
         sessions \subseteq 1 .. created, active \in 0 .. created,
         kind = "navigate" => pc = "start" /\ busy' = busy,
         kind # "navigate" => busy' = TRUE
  PROVE  CanvasInv'
  <1> DEFINE r == [Idle EXCEPT !.kind = kind, !.pc = pc, !.list = sessions,
                               !.home = IF active \in sessions THEN active ELSE 0]
  <1>1. /\ jobs[j].pc = "idle" /\ jobs' = [jobs EXCEPT ![j] = r]
        /\ overlap' = (overlap \/ AtWork # {}) /\ created' = created /\ stranded' = stranded
    BY DEF Begin, At, store
  <1>2. /\ r \in Jobs(created) /\ r.kind = kind /\ r.pc = pc /\ r.delib = NoDelib
        /\ r.chain = [m \in Modules |-> "queued"]
    <2> DEFINE h == IF active \in sessions THEN active ELSE 0
    <2> DEFINE c == [m \in Modules |-> "queued"]
    <2>1. created \in Nat /\ h \in 0 .. created /\ pc \in Pcs /\ sessions \in SUBSET (1 .. created)
      BY DEF CanvasInv, JobsTyped, Pcs
    <2>2. Idle = [kind |-> "ask", pc |-> "idle", home |-> 0, list |-> {}, sess |-> 0,
                  delib |-> NoDelib, chain |-> c]
      BY DEF Idle
    <2>3. c \in Chains /\ NoDelib \in Delibs
      BY EmptySeq DEF Chains, Stages, NoDelib, Delibs
    <2> HIDE DEF c, h
    <2>4. Idle \in Jobs(created)
      BY <2>1, <2>2, <2>3 DEF Jobs, Kinds, Pcs
    <2>5. r = [Idle EXCEPT !.kind = kind, !.pc = pc, !.list = sessions, !.home = h]
      BY DEF h
    <2> HIDE DEF r
    <2>6. r.kind = kind /\ r.pc = pc /\ r.delib = NoDelib /\ r.chain = c
      BY <2>2, <2>5
    <2>7. r \in Jobs(created)
      BY <2>1, <2>4, <2>5 DEF Jobs
    <2> QED
      BY <2>6, <2>7 DEF c
  <1> HIDE DEF r
  <1>3. /\ jobs \in [Handlers -> Jobs(created)] /\ created \in Nat
        /\ jobs'[j] = r /\ \A i \in Handlers : i # j => jobs'[i] = jobs[i]
    BY <1>1 DEF CanvasInv, JobsTyped
  <1>4. NoDelib \in Delibs /\ NoDelib.round = 0
    BY EmptySeq DEF NoDelib, Delibs
  <1>5. JobsTyped'
    BY <1>1, <1>2, <1>3 DEF JobsTyped
  <1>6. JobInv'
    <2>1. DelibOK(pc, NoDelib) /\ ChainOK(pc, [m \in Modules |-> "queued"]) /\ KindOK(kind, pc)
      BY <1>4 DEF DelibOK, ChainOK, KindOK
    <2>2. r.pc = pc /\ r.kind = kind /\ r.delib = NoDelib /\ r.chain = [m \in Modules |-> "queued"]
      BY <1>2
    <2>3. DelibOK(r.pc, r.delib) /\ ChainOK(r.pc, r.chain) /\ KindOK(r.kind, r.pc)
      BY <2>1, <2>2
    <2>4. ASSUME NEW i \in Handlers
          PROVE  /\ DelibOK(jobs'[i].pc, jobs'[i].delib) /\ ChainOK(jobs'[i].pc, jobs'[i].chain)
                 /\ KindOK(jobs'[i].kind, jobs'[i].pc)
      <3>1. CASE i = j
        BY <1>3, <2>3, <3>1
      <3>2. CASE i # j
        <4>1. jobs'[i] = jobs[i]
          BY <1>3, <3>2
        <4>2. /\ DelibOK(jobs[i].pc, jobs[i].delib) /\ ChainOK(jobs[i].pc, jobs[i].chain)
              /\ KindOK(jobs[i].kind, jobs[i].pc)
          BY DEF CanvasInv, JobInv
        <4> QED
          BY <4>1, <4>2
      <3> QED
        BY <3>1, <3>2
    <2> QED
      BY <2>4 DEF JobInv
  <1>7. BusyInv'
    <2>1. /\ jobs'[j].pc \notin AtRest /\ jobs[j].pc \in AtRest /\ jobs'[j].kind = kind
          /\ busy \in BOOLEAN
      BY <1>1, <1>2, <1>3 DEF AtRest, CanvasInv, BusyInv
    <2>2. ASSUME NEW i \in Handlers, jobs[i].pc \notin AtRest
          PROVE  overlap'
      <3>1. i \in AtWork
        BY <2>2 DEF AtWork, Working, AtRest
      <3> QED
        BY <1>1, <3>1
    <2>3. ASSUME NEW i \in Handlers, NEW k \in Handlers, i # k,
                 jobs'[i].pc \notin AtRest, jobs'[k].pc \notin AtRest
          PROVE  overlap'
      BY <1>3, <2>2, <2>3
    <2>4. overlap => overlap'
      BY <1>1
    <2>5. CASE kind # "navigate"
      BY <2>1, <2>3, <2>5 DEF BusyInv
    <2>6. CASE kind = "navigate"
      <3>1. busy' = busy
        BY <2>6
      <3>2. \A i \in Handlers : i = j \/ jobs'[i] = jobs[i]
        BY <1>3
      <3>3. busy /\ ~stranded => \E k \in Handlers : jobs'[k].pc \notin AtRest /\ jobs'[k].kind # "navigate"
        BY <1>1, <2>1, <3>2 DEF CanvasInv, BusyInv
      <3>4. ~busy /\ ~overlap => \A k \in Handlers : jobs'[k].pc \in AtRest \/ jobs'[k].kind = "navigate"
        BY <2>1, <2>6, <3>2 DEF CanvasInv, BusyInv
      <3> QED
        BY <1>1, <2>1, <2>3, <2>4, <3>1, <3>3, <3>4 DEF BusyInv
    <2> QED
      BY <2>5, <2>6
  <1> QED
    BY <1>5, <1>6, <1>7 DEF CanvasInv

LEMMA CommandKeeps ==
  ASSUME CanvasInv, NEW j \in Handlers, Command(j),
         sessions \subseteq 1 .. created, active \in 0 .. created
  PROVE  CanvasInv'
  <1>1. CASE RunNavigator(j)
    BY <1>1, BeginKeeps DEF RunNavigator, Kinds
  <1>2. CASE SendPlanChat(j) \/ SynthesizeBlueprint(j) \/ SwitchToExecute(j) \/ HandlePlanAndExecute(j)
    <2>1. busy' = TRUE /\ \E kind \in Kinds \ {"navigate"}, pc \in {"start", "pipeline"} : Begin(j, kind, pc)
      BY <1>2 DEF SendPlanChat, SynthesizeBlueprint, SwitchToExecute, HandlePlanAndExecute, Kinds
    <2> QED
      BY <2>1, BeginKeeps
  <1> QED
    BY <1>1, <1>2 DEF Command

-------------------------------------------------------------------------------
(* The store: sessions are listed and picked once they are created.        *)
StoreInv == sessions \subseteq 1 .. created /\ active \in 0 .. created

LEMMA StoreKept ==
  ASSUME CanvasInv, StoreInv, [BPNext]_bpVars
  PROVE  StoreInv'
  <1>0. created \in Nat /\ \A j \in Handlers : jobs[j].list \subseteq 1 .. created
    BY Fields DEF CanvasInv, JobsTyped
  <1>1. ASSUME UNCHANGED <<created, sessions, active>>
        PROVE  StoreInv'
    BY <1>1 DEF StoreInv
  <1>2. ASSUME NEW j \in Handlers, EnsureSession(j)
        PROVE  StoreInv'
    <2>1. CASE jobs[j].home # 0
      BY <1>1, <1>2, <2>1 DEF EnsureSession
    <2>2. CASE jobs[j].home = 0
      <3>1. /\ created' = created + 1 /\ active' = created + 1
            /\ sessions' = {created + 1} \union jobs[j].list
        BY <1>2, <2>2 DEF EnsureSession
      <3>2. 1 .. created \subseteq 1 .. created' /\ created + 1 \in 1 .. created'
        BY <1>0, <3>1
      <3> QED
        BY <1>0, <3>1, <3>2 DEF StoreInv
    <2> QED
      BY <2>1, <2>2
  <1>3. ASSUME NEW j \in Handlers, Open(j) \/ Report(j) \/ Say(j) \/ UNCHANGED store
        PROVE  StoreInv'
    BY <1>1, <1>2, <1>3 DEF Open, Report, Say, store
  <1>4. ASSUME NEW j \in Handlers, ThrowAndReport(j) \/ ThrowQuietly(j) \/ PipelineThrow(j)
        PROVE  StoreInv'
    BY <1>3, <1>4 DEF ThrowAndReport, ThrowQuietly, PipelineThrow
  <1>5. ASSUME NEW j \in Handlers, Start(j) \/ Greet(j) \/ Answer(j) \/ Navigate(j)
        PROVE  StoreInv'
    BY <1>3, <1>4, <1>5 DEF Start, Greet, Answer, Navigate
  <1>6. ASSUME NEW j \in Handlers, Purpose(j) \/ Round(j) \/ Finish(j) \/ Deliver(j)
        PROVE  StoreInv'
    <2>1. \/ ThrowAndReport(j)
          \/ Open(j) \/ Report(j) \/ Say(j) \/ UNCHANGED store
      BY <1>6 DEF Purpose, Round, Finish, Deliver, FrameLockFails, RenderFails, store
    <2> QED
      BY <1>3, <1>4, <2>1
  <1>7. ASSUME NEW j \in Handlers, Synthesize(j) \/ PipelineStart(j) \/ Contracts(j) \/ Wrap(j)
        PROVE  StoreInv'
    BY <1>2, <1>3, <1>4, <1>7 DEF Synthesize, PipelineStart, Contracts, Wrap
  <1>8. ASSUME NEW j \in Handlers, NEW m \in Modules, SubagentStep(j, m)
        PROVE  StoreInv'
    BY <1>3, <1>8 DEF SubagentStep, store
  <1>9. ASSUME NEW j \in Handlers, Command(j)
        PROVE  StoreInv'
    BY <1>1, <1>9 DEF Command, SendPlanChat, SynthesizeBlueprint, SwitchToExecute,
                      HandlePlanAndExecute, RunNavigator, Begin, store
  <1>10. CASE SwitchSession
    BY <1>10 DEF SwitchSession, StoreInv
  <1>11. CASE EditDraft \/ RunForge \/ UNCHANGED bpVars
    BY <1>1, <1>11 DEF EditDraft, RunForge, bpVars, store
  <1> QED
    BY <1>5, <1>6, <1>7, <1>8, <1>9, <1>10, <1>11 DEF BPNext, HandlerStep

(* Every step keeps the invariant of the canvas.                           *)
LEMMA CanvasStep ==
  ASSUME CanvasInv, StoreInv, [BPNext]_bpVars
  PROVE  CanvasInv'
  <1>1. ASSUME UNCHANGED <<jobs, created, busy, overlap, stranded>>
        PROVE  CanvasInv'
    BY <1>1 DEF CanvasInv, JobsTyped, JobInv, BusyInv
  <1>2. CASE EditDraft \/ SwitchSession \/ RunForge \/ UNCHANGED bpVars
    BY <1>1, <1>2 DEF EditDraft, SwitchSession, RunForge, bpVars, store, panel, hist
  <1>3. ASSUME NEW j \in Handlers, Command(j) \/ HandlerStep(j)
        PROVE  CanvasInv'
    BY <1>3, CommandKeeps, FirstStepsKeep, DeliberationKeeps, PipelineKeeps, SubagentKeeps
       DEF HandlerStep, StoreInv
  <1> QED
    BY <1>2, <1>3 DEF BPNext

LEMMA CanvasStart == BPInit => CanvasInv /\ StoreInv
  <1> SUFFICES ASSUME BPInit
               PROVE  CanvasInv /\ StoreInv
    OBVIOUS
  <1>1. \A j \in Handlers : jobs[j] = Idle
    BY DEF BPInit
  <1>2. /\ Idle.pc = "idle" /\ Idle.delib = NoDelib /\ Idle.kind = "ask"
        /\ Idle.chain = [m \in Modules |-> "queued"]
    BY DEF Idle
  <1>3. NoDelib \in Delibs /\ NoDelib.round = 0
    BY EmptySeq DEF NoDelib, Delibs
  <1>4. created = 1 /\ StoreInv /\ busy = FALSE /\ stranded = FALSE
    BY DEF BPInit, StoreInv
  <1>5. Idle \in Jobs(created)
    <2>1. [m \in Modules |-> "queued"] \in Chains
      BY DEF Chains, Stages
    <2> QED
      BY <1>3, <1>4, <2>1 DEF Idle, Jobs, Kinds, Pcs
  <1>6. JobsTyped
    BY <1>4, <1>5 DEF BPInit, JobsTyped
  <1>7. JobInv
    BY <1>1, <1>2, <1>3 DEF JobInv, DelibOK, ChainOK, KindOK
  <1>8. BusyInv
    BY <1>1, <1>2, <1>4 DEF BusyInv, AtRest
  <1> QED
    BY <1>4, <1>6, <1>7, <1>8 DEF CanvasInv

-------------------------------------------------------------------------------
(* busy differs from "a command is at work" only after an overlap or a     *)
(* pipeline that threw before its try block (sendPlanChat, the mode bar    *)
(* and executeBlueprintPlan).                                              *)
THEOREM BusyIsAccountedFor == BPSpec => []BusyFlagAccount
  <1>1. CanvasInv => BusyFlagAccount
    BY DEF CanvasInv, BusyInv, BusyFlagAccount, AtWork, Working, AtRest
  <1> QED
    BY <1>1, CanvasStart, StoreKept, CanvasStep, PTL DEF BPSpec

(* A subagent outlives its pipeline only when another one threw            *)
(* (Promise.all in executeBlueprintPlan).                                  *)
THEOREM OnlyAThrowLeavesWork == BPSpec => []NothingWorksUnattended
  <1>1. CanvasInv => NothingWorksUnattended
    BY DEF CanvasInv, JobInv, ChainOK, NothingWorksUnattended, Unattended
  <1> QED
    BY <1>1, CanvasStart, StoreKept, CanvasStep, PTL DEF BPSpec

-------------------------------------------------------------------------------
(* Sessions.  What a handler has written so far: nothing before its first  *)
(* session, then only there; a pipeline and a last report may open one     *)
(* more.                                                                   *)
Written == [j \in Handlers |-> {r[2] : r \in {q \in rows : q[1] = j}}]

OneSession == {"greet", "purpose", "round", "finish", "deliver", "answer", "synthesize", "navigate"}
Resting(c) == \A m \in Modules : c[m] \notin {"started", "built", "reviewed"}

Keeps(home, list, sess, pc, c, mine) ==
  /\ home # 0 => mine \subseteq {home} /\ sess \in {0, home}
  /\ home = 0 => mine \intersect list = {} /\ sess \notin list
  /\ pc \in OneSession \union {"contracts", "subagents"} => sess # 0
  /\ pc = "done" => Resting(c) \/ sess # 0
  /\ pc \in {"idle", "start"} => mine = {}
  /\ home = 0 =>
       /\ pc \in OneSession => mine \subseteq {sess}
       /\ pc = "pipeline" => \E a : mine \subseteq {a}
       /\ pc \in {"contracts", "subagents"} => \E a : mine \subseteq {a, sess}
       /\ pc = "done" => \E a, b : mine \subseteq {a, b} /\ (Resting(c) \/ b = sess)

KeepInv ==
  \A j \in Handlers :
    Keeps(jobs[j].home, jobs[j].list, jobs[j].sess, jobs[j].pc, jobs[j].chain, Written[j])

(* A message is its handler's, and in its session.                         *)
LEMMA PostWrites ==
  ASSUME NEW j \in Handlers, NEW s, Post(j, s)
  PROVE  /\ Written'[j] = Written[j] \union {s}
         /\ \A i \in Handlers : i # j => Written'[i] = Written[i]
  <1>1. rows' = rows \union {<<j, s>>}
    BY DEF Post
  <1>2. ASSUME NEW i \in Handlers
        PROVE  Written'[i] = {r[2] : r \in {q \in rows' : q[1] = i}}
    BY DEF Written
  <1>3. ASSUME NEW i \in Handlers
        PROVE  Written[i] = {r[2] : r \in {q \in rows : q[1] = i}}
    BY DEF Written
  <1>4. {r[2] : r \in {q \in rows' : q[1] = j}} = {r[2] : r \in {q \in rows : q[1] = j}} \union {s}
    <2>1. {q \in rows' : q[1] = j} = {q \in rows : q[1] = j} \union {<<j, s>>}
      BY <1>1
    <2>2. <<j, s>>[2] = s
      OBVIOUS
    <2> QED
      BY <2>1, <2>2
  <1>5. ASSUME NEW i \in Handlers, i # j
        PROVE  {r[2] : r \in {q \in rows' : q[1] = i}} = {r[2] : r \in {q \in rows : q[1] = i}}
    BY <1>1, <1>5
  <1> QED
    BY <1>2, <1>3, <1>4, <1>5

LEMMA SilentWrites ==
  ASSUME rows' = rows
  PROVE  \A i \in Handlers : Written'[i] = Written[i]
  BY DEF Written

(* A step of handler j that fits.                                          *)
LEMMA StepFits ==
  ASSUME JobsTyped, KeepInv, NEW j \in Handlers, NEW pc, NEW s, NEW d, NEW c,
         Becomes(j, pc, s, d, c),
         \A i \in Handlers : i # j => Written'[i] = Written[i],
         Keeps(jobs[j].home, jobs[j].list, s, pc, c, Written'[j])
  PROVE  KeepInv'
  <1>1. /\ jobs'[j].home = jobs[j].home /\ jobs'[j].list = jobs[j].list /\ jobs'[j].sess = s
        /\ jobs'[j].pc = pc /\ jobs'[j].chain = c
        /\ \A i \in Handlers : i # j => jobs'[i] = jobs[i]
    BY DEF Becomes
  <1>2. ASSUME NEW i \in Handlers
        PROVE  Keeps(jobs'[i].home, jobs'[i].list, jobs'[i].sess, jobs'[i].pc, jobs'[i].chain,
                     Written'[i])
    <2>1. CASE i = j
      BY <1>1, <2>1
    <2>2. CASE i # j
      <3>1. jobs'[i] = jobs[i] /\ Written'[i] = Written[i]
        BY <1>1, <2>2
      <3>2. Keeps(jobs[i].home, jobs[i].list, jobs[i].sess, jobs[i].pc, jobs[i].chain, Written[i])
        BY DEF KeepInv
      <3> QED
        BY <3>1, <3>2
    <2> QED
      BY <2>1, <2>2
  <1> QED
    BY <1>2 DEF KeepInv

(* What a step writes into the session it resolves once more ...           *)
LEMMA WritesAnew ==
  ASSUME JobsTyped, NEW j \in Handlers,
         Open(j) \/ Report(j) \/ rows' = rows \/ Post(j, Resolved(j))
  PROVE  /\ \A i \in Handlers : i # j => Written'[i] = Written[i]
         /\ Written'[j] \in {Written[j], Written[j] \union {Resolved(j)}}
         /\ jobs[j].home # 0 => Resolved(j) = jobs[j].home
         /\ jobs[j].home = 0 => Resolved(j) \notin jobs[j].list /\ Resolved(j) # 0
  <1>1. created \in Nat /\ jobs[j].list \subseteq 1 .. created
    BY Fields DEF JobsTyped
  <1>2. /\ jobs[j].home # 0 => Resolved(j) = jobs[j].home
        /\ jobs[j].home = 0 => Resolved(j) \notin jobs[j].list /\ Resolved(j) # 0
    BY <1>1 DEF Resolved
  <1>3. Post(j, Resolved(j)) \/ rows' = rows
    BY DEF Open, Report, store
  <1> QED
    BY <1>2, <1>3, PostWrites, SilentWrites

(* ... and what it writes into its own.                                    *)
LEMMA WritesOn ==
  ASSUME NEW j \in Handlers, Say(j) \/ rows' = rows
  PROVE  /\ \A i \in Handlers : i # j => Written'[i] = Written[i]
         /\ Written'[j] \in {Written[j], Written[j] \union {jobs[j].sess}}
  <1>1. Post(j, jobs[j].sess) \/ rows' = rows
    BY DEF Say
  <1> QED
    BY <1>1, PostWrites, SilentWrites

(* The end of a handler that leaves no subagent at work: it may have       *)
(* reported in one session more.                                           *)
LEMMA EndFits ==
  ASSUME JobsTyped, KeepInv, NEW j \in Handlers, Done(j), Resting(jobs[j].chain),
         \/ /\ jobs[j].pc \in OneSession \union {"start", "pipeline"}
            /\ Open(j) \/ Report(j) \/ rows' = rows
         \/ /\ jobs[j].pc \in OneSession \union {"contracts", "subagents"}
            /\ Say(j) \/ rows' = rows
  PROVE  KeepInv'
  <1> DEFINE home == jobs[j].home
             list == jobs[j].list
             sess == jobs[j].sess
             mine == Written'[j]
  <1>1. Becomes(j, "done", 0, NoDelib, jobs[j].chain)
    BY DoneBecomes
  <1>2. Keeps(home, list, sess, jobs[j].pc, jobs[j].chain, Written[j])
    BY DEF KeepInv
  <1>3. 0 \notin list
    BY Fields DEF JobsTyped
  <1>4. \A i \in Handlers : i # j => Written'[i] = Written[i]
    BY WritesAnew, WritesOn
  <1>5. ASSUME home # 0
        PROVE  mine \subseteq {home}
    <2>1. Written[j] \subseteq {home} /\ sess \in {0, home}
      BY <1>2, <1>5 DEF Keeps
    <2>2. CASE Open(j) \/ Report(j) \/ rows' = rows
      BY <1>5, <2>1, <2>2, WritesAnew
    <2>3. CASE jobs[j].pc \in OneSession \union {"contracts", "subagents"} /\ (Say(j) \/ rows' = rows)
      <3>1. sess = home
        BY <1>2, <2>1, <2>3 DEF Keeps
      <3> QED
        BY <2>1, <2>3, <3>1, WritesOn
    <2> QED
      BY <2>2, <2>3
  <1>6. ASSUME home = 0
        PROVE  mine \intersect list = {} /\ \E a, b : mine \subseteq {a, b}
    <2>1. Written[j] \intersect list = {} /\ sess \notin list
      BY <1>2, <1>6 DEF Keeps
    <2>2. CASE /\ jobs[j].pc \in OneSession \union {"start", "pipeline"}
               /\ Open(j) \/ Report(j) \/ rows' = rows
      <3>1. PICK a : Written[j] \subseteq {a}
        BY <1>2, <1>6, <2>2 DEF Keeps
      <3>2. mine \in {Written[j], Written[j] \union {Resolved(j)}} /\ Resolved(j) \notin list
        BY <1>6, <2>2, WritesAnew
      <3>3. mine \subseteq {a, Resolved(j)}
        BY <3>1, <3>2
      <3> QED
        BY <2>1, <3>2, <3>3
    <2>3. CASE /\ jobs[j].pc \in OneSession \union {"contracts", "subagents"}
               /\ Say(j) \/ rows' = rows
      <3>1. PICK a : Written[j] \subseteq {a, sess}
        BY <1>2, <1>6, <2>3 DEF Keeps
      <3>2. mine \in {Written[j], Written[j] \union {sess}}
        BY <2>3, WritesOn
      <3>3. mine \subseteq {a, sess}
        BY <3>1, <3>2
      <3> QED
        BY <2>1, <3>2, <3>3
    <2> QED
      BY <2>2, <2>3
  <1>7. Keeps(home, list, 0, "done", jobs[j].chain, mine)
    BY <1>3, <1>5, <1>6 DEF Keeps, OneSession
  <1> QED
    BY <1>1, <1>4, <1>7, StepFits

(* A handler that throws before or inside its pipeline.                    *)
LEMMA ThrowFits ==
  ASSUME CanvasInv, KeepInv, NEW j \in Handlers,
         \/ /\ jobs[j].pc \in OneSession \union {"start", "pipeline"}
            /\ ThrowAndReport(j) \/ ThrowQuietly(j)
         \/ /\ jobs[j].pc \in {"contracts", "subagents"} /\ Resting(jobs[j].chain)
            /\ PipelineThrow(j)
  PROVE  KeepInv'
  <1>1. Done(j) /\ Resting(jobs[j].chain)
    BY NoSubagents DEF ThrowAndReport, ThrowQuietly, PipelineThrow, Resting, OneSession
  <1>2. \/ /\ jobs[j].pc \in OneSession \union {"start", "pipeline"}
           /\ Open(j) \/ Report(j) \/ rows' = rows
        \/ /\ jobs[j].pc \in OneSession \union {"contracts", "subagents"}
           /\ Say(j) \/ rows' = rows
    BY DEF ThrowAndReport, ThrowQuietly, PipelineThrow, store
  <1> QED
    BY <1>1, <1>2, EndFits DEF CanvasInv

(* A handler that goes on in its one session.                              *)
LEMMA GoFits ==
  ASSUME JobsTyped, KeepInv, NEW j \in Handlers, NEW pc, NEW d, NEW c,
         Becomes(j, pc, jobs[j].sess, d, c),
         jobs[j].pc \in OneSession, pc \in OneSession \union {"pipeline"},
         Say(j) \/ rows' = rows
  PROVE  KeepInv'
  <1>1. Keeps(jobs[j].home, jobs[j].list, jobs[j].sess, jobs[j].pc, jobs[j].chain, Written[j])
    BY DEF KeepInv
  <1>2. Keeps(jobs[j].home, jobs[j].list, jobs[j].sess, pc, c, Written'[j])
    BY <1>1, WritesOn DEF Keeps, OneSession
  <1> QED
    BY <1>2, WritesOn, StepFits

LEMMA HandlerFits ==
  ASSUME CanvasInv, KeepInv, NEW j \in Handlers,
         \/ Start(j) \/ Greet(j) \/ Answer(j) \/ Navigate(j)
         \/ Purpose(j) \/ Round(j) \/ Finish(j) \/ Deliver(j)
  PROVE  KeepInv'
  <1>0. JobsTyped /\ (jobs[j].pc \notin {"subagents", "done"} => Resting(jobs[j].chain))
    BY NoSubagents DEF CanvasInv, Resting
  <1>1. CASE Start(j)
    <2>0. jobs[j].pc = "start" /\ jobs[j].pc \in OneSession \union {"start", "pipeline"}
      BY <1>1 DEF Start, At
    <2>1. CASE /\ Open(j)
               /\ Settle(j, Resolved(j), Second(jobs[j].kind))
      <3> DEFINE pc == Second(jobs[j].kind)
      <3>1. pc \in OneSession /\ pc \notin {"idle", "start", "pipeline", "contracts", "subagents", "done"}
        BY DEF OneSession, Second
      <3>2. Becomes(j, pc, Resolved(j), jobs[j].delib, jobs[j].chain)
        BY <1>0, <2>1, SettleBecomes
      <3> HIDE DEF pc
      <3>3. rows' = rows
        BY <2>1 DEF Open
      <3>4. Written'[j] = Written[j] /\ \A i \in Handlers : i # j => Written'[i] = Written[i]
        BY <3>3, SilentWrites
      <3>5. /\ jobs[j].home # 0 => Resolved(j) = jobs[j].home
            /\ jobs[j].home = 0 => Resolved(j) \notin jobs[j].list /\ Resolved(j) # 0
        BY <1>0, <2>1, WritesAnew
      <3>6. Keeps(jobs[j].home, jobs[j].list, jobs[j].sess, jobs[j].pc, jobs[j].chain, Written[j])
        BY DEF KeepInv
      <3>7. Keeps(jobs[j].home, jobs[j].list, Resolved(j), pc, jobs[j].chain, Written'[j])
        BY <2>0, <3>1, <3>4, <3>5, <3>6 DEF Keeps
      <3> QED
        BY <1>0, <3>2, <3>4, <3>7, StepFits
    <2>2. CASE ThrowAndReport(j) \/ ThrowQuietly(j)
      BY <2>0, <2>2, ThrowFits
    <2>3. CASE Done(j) /\ UNCHANGED store
      BY <1>0, <2>0, <2>3, EndFits DEF store
    <2> QED
      BY <1>1, <2>1, <2>2, <2>3 DEF Start
  <1>2. CASE ThrowAndReport(j) \/ ThrowQuietly(j)
    <2>1. jobs[j].pc \in OneSession \union {"start", "pipeline"}
      BY DEF Start, Greet, Answer, Navigate, Purpose, Round, Finish, Deliver, At, OneSession
    <2> QED
      BY <1>2, <2>1, ThrowFits
  <1>3. ASSUME jobs[j].pc \in OneSession, NEW pc \in OneSession \union {"pipeline"}, Go(j, pc),
               Say(j) \/ UNCHANGED store
        PROVE  KeepInv'
    BY <1>0, <1>3, GoBecomes, GoFits DEF store
  <1>4. CASE Greet(j)
    <2> DEFINE pc == CASE jobs[j].kind = "plan" -> "purpose"
                       [] jobs[j].kind = "ask"  -> "answer"
                       [] OTHER                 -> "pipeline"
    <2>1. pc \in OneSession \union {"pipeline"}
      BY DEF OneSession
    <2>2. ThrowAndReport(j) \/ ThrowQuietly(j) \/ (Say(j) /\ Go(j, pc))
      BY <1>4 DEF Greet
    <2> HIDE DEF pc
    <2>3. jobs[j].pc \in OneSession
      BY <1>4 DEF Greet, At, OneSession
    <2> QED
      BY <1>2, <1>3, <2>1, <2>2, <2>3
  <1>5. CASE Purpose(j)
    BY <1>2, <1>3, <1>5 DEF Purpose, FrameLockFails, At, OneSession
  <1>6. CASE Answer(j) \/ Navigate(j) \/ Deliver(j)
    <2>1. ThrowAndReport(j) \/ (Done(j) /\ (Say(j) \/ Report(j) \/ rows' = rows))
      BY <1>6 DEF Answer, Navigate, Deliver, store
    <2>2. jobs[j].pc \in OneSession /\ jobs[j].pc \notin {"subagents", "done"}
      BY <1>6 DEF Answer, Navigate, Deliver, At, OneSession
    <2> QED
      BY <1>0, <1>2, <2>1, <2>2, EndFits
  <1>7. CASE Round(j)
    <2>1. \/ ThrowAndReport(j)
          \/ /\ UNCHANGED store
             /\ \E d, pc : /\ pc \in {"finish", "round"}
                           /\ jobs' = [jobs EXCEPT ![j].delib = d, ![j].pc = pc]
      <3>1. ASSUME ~ThrowAndReport(j)
            PROVE  UNCHANGED store /\ \E d, pc : /\ pc \in {"finish", "round"}
                           /\ jobs' = [jobs EXCEPT ![j].delib = d, ![j].pc = pc]
        <4>1. PICK r \in Reviews :
          LET d   == jobs[j].delib
              new == [d EXCEPT !.round  = @ + 1,
                               !.fails  = @ \o r.fails,
                               !.checks = @ \union r.checks]
              end == IF r.converged THEN "Reviewer CONVERGED"
                                    ELSE CheckConvergence(new)
          IN /\ jobs' = [jobs EXCEPT
                  ![j].delib = new,
                  ![j].pc    = IF end # "none" THEN "finish" ELSE "round"]
             /\ UNCHANGED <<store, panel, forge, hist>>
          BY <1>7, <3>1 DEF Round
        <4> DEFINE d   == jobs[j].delib
                   new == [d EXCEPT !.round = @ + 1, !.fails = @ \o r.fails, !.checks = @ \union r.checks]
                   pc  == IF (IF r.converged THEN "Reviewer CONVERGED" ELSE CheckConvergence(new)) # "none"
                          THEN "finish" ELSE "round"
        <4>2. jobs' = [jobs EXCEPT ![j].delib = new, ![j].pc = pc] /\ UNCHANGED store
          BY <4>1
        <4>3. pc \in {"finish", "round"}
          OBVIOUS
        <4> HIDE DEF new, pc
        <4> QED
          BY <4>2, <4>3
      <3> QED
        BY <3>1
    <2>2. jobs[j].pc \in OneSession /\ {"finish", "round"} \subseteq OneSession
      BY <1>7 DEF Round, At, OneSession
    <2>3. ASSUME UNCHANGED store, NEW d, NEW pc \in {"finish", "round"},
                 jobs' = [jobs EXCEPT ![j].delib = d, ![j].pc = pc]
          PROVE  KeepInv'
      <3>1. Becomes(j, pc, jobs[j].sess, d, jobs[j].chain)
        BY <1>0, <2>3, DelibFirstBecomes
      <3> QED
        BY <1>0, <2>2, <2>3, <3>1, GoFits DEF store
    <2> QED
      BY <1>2, <2>1, <2>3
  <1>8. CASE Finish(j)
    <2>1. \/ ThrowAndReport(j)
          \/ /\ Say(j) \/ UNCHANGED store
             /\ jobs' = [jobs EXCEPT ![j].pc = "deliver", ![j].delib = NoDelib]
      BY <1>8 DEF Finish, RenderFails
    <2>2. jobs[j].pc \in OneSession /\ "deliver" \in OneSession
      BY <1>8 DEF Finish, At, OneSession
    <2>3. ASSUME Say(j) \/ UNCHANGED store,
                 jobs' = [jobs EXCEPT ![j].pc = "deliver", ![j].delib = NoDelib]
          PROVE  KeepInv'
      <3>1. Becomes(j, "deliver", jobs[j].sess, NoDelib, jobs[j].chain)
        BY <1>0, <2>3, DelibBecomes
      <3> QED
        BY <1>0, <2>2, <2>3, <3>1, GoFits DEF store
    <2> QED
      BY <1>2, <2>1, <2>3
  <1> QED
    BY <1>1, <1>4, <1>5, <1>6, <1>7, <1>8

LEMMA PipelineFits ==
  ASSUME CanvasInv, KeepInv, NEW j \in Handlers,
         Synthesize(j) \/ PipelineStart(j) \/ Contracts(j) \/ Wrap(j)
  PROVE  KeepInv'
  <1>0. JobsTyped /\ (jobs[j].pc \notin {"subagents", "done"} => Resting(jobs[j].chain))
    BY NoSubagents DEF CanvasInv, Resting
  <1>k. Keeps(jobs[j].home, jobs[j].list, jobs[j].sess, jobs[j].pc, jobs[j].chain, Written[j])
    BY DEF KeepInv
  <1>1. CASE Synthesize(j)
    <2>0. /\ jobs[j].pc \in OneSession /\ "pipeline" \in OneSession \union {"pipeline"}
          /\ jobs[j].pc \notin {"subagents", "done"}
      BY <1>1 DEF Synthesize, At, OneSession
    <2>1. \/ ThrowQuietly(j)
          \/ Say(j) /\ (Go(j, "pipeline") \/ Done(j))
          \/ Done(j) /\ busy' = FALSE /\ UNCHANGED store
      BY <1>1 DEF Synthesize
    <2>2. CASE Say(j) /\ Go(j, "pipeline")
      BY <1>0, <2>0, <2>2, GoBecomes, GoFits
    <2>3. CASE Say(j) /\ Done(j)
      BY <1>0, <2>0, <2>3, EndFits
    <2>4. CASE ThrowQuietly(j)
      BY <2>0, <2>4, ThrowFits
    <2>5. CASE Done(j) /\ busy' = FALSE /\ UNCHANGED store
      BY <1>0, <2>0, <2>5, EndFits DEF store
    <2> QED
      BY <2>1, <2>2, <2>3, <2>4, <2>5
  <1>2. CASE PipelineStart(j)
    <2>0. jobs[j].pc = "pipeline"
      BY <1>2 DEF PipelineStart, At
    <2>1. CASE Post(j, Resolved(j)) /\ Settle(j, Resolved(j), "contracts")
      <3>1. Becomes(j, "contracts", Resolved(j), jobs[j].delib, jobs[j].chain)
        BY <1>0, <2>1, SettleBecomes
      <3>2. /\ \A i \in Handlers : i # j => Written'[i] = Written[i]
            /\ Written'[j] \in {Written[j], Written[j] \union {Resolved(j)}}
            /\ jobs[j].home # 0 => Resolved(j) = jobs[j].home
            /\ jobs[j].home = 0 => Resolved(j) \notin jobs[j].list /\ Resolved(j) # 0
        BY <1>0, <2>1, WritesAnew
      <3>3. ASSUME jobs[j].home = 0
            PROVE  \E a : Written'[j] \subseteq {a, Resolved(j)}
        <4>1. PICK a : Written[j] \subseteq {a}
          BY <1>k, <2>0, <3>3 DEF Keeps
        <4>2. Written'[j] \subseteq {a, Resolved(j)}
          BY <3>2, <4>1
        <4> QED
          BY <4>2
      <3>4. Keeps(jobs[j].home, jobs[j].list, Resolved(j), "contracts", jobs[j].chain, Written'[j])
        BY <1>k, <3>2, <3>3 DEF Keeps, OneSession
      <3> QED
        BY <1>0, <3>1, <3>2, <3>4, StepFits
    <2>2. CASE ThrowQuietly(j)
      BY <2>0, <2>2, ThrowFits
    <2>3. CASE Done(j) /\ UNCHANGED store
      BY <1>0, <2>0, <2>3, EndFits DEF store
    <2> QED
      BY <1>2, <2>1, <2>2, <2>3 DEF PipelineStart
  <1>3. CASE Contracts(j)
    <2>0. jobs[j].pc = "contracts"
      BY <1>3 DEF Contracts, At
    <2>1. CASE PipelineThrow(j)
      BY <1>0, <2>0, <2>1, ThrowFits
    <2>2. ASSUME Say(j), NEW ms \in PlanModules,
                 jobs' = [jobs EXCEPT ![j].pc = "subagents",
                   ![j].chain = [m \in Modules |-> IF m \in ms THEN "started" ELSE "queued"]]
          PROVE  KeepInv'
      <3> DEFINE c == [m \in Modules |-> IF m \in ms THEN "started" ELSE "queued"]
      <3>1. jobs' = [jobs EXCEPT ![j].pc = "subagents", ![j].chain = c]
        BY <2>2
      <3> HIDE DEF c
      <3>2. Becomes(j, "subagents", jobs[j].sess, jobs[j].delib, c)
        BY <1>0, <3>1, ChainBecomes
      <3>3. Keeps(jobs[j].home, jobs[j].list, jobs[j].sess, "subagents", c, Written'[j])
        BY <1>k, <2>0, <2>2, WritesOn DEF Keeps, OneSession
      <3> QED
        BY <1>0, <2>2, <3>2, <3>3, WritesOn, StepFits
    <2> QED
      BY <1>3, <2>1, <2>2 DEF Contracts
  <1>4. CASE Wrap(j)
    <2>0. jobs[j].pc = "subagents" /\ Resting(jobs[j].chain)
      BY <1>4 DEF Wrap, At, AllTested, Tested, Resting
    <2>1. CASE PipelineThrow(j)
      BY <2>0, <2>1, ThrowFits
    <2>2. CASE Say(j) /\ Done(j)
      BY <1>0, <2>0, <2>2, EndFits
    <2> QED
      BY <1>4, <2>1, <2>2 DEF Wrap
  <1> QED
    BY <1>1, <1>2, <1>3, <1>4

LEMMA SubagentFits ==
  ASSUME CanvasInv, KeepInv, NEW j \in Handlers, NEW m \in Modules, SubagentStep(j, m)
  PROVE  KeepInv'
  <1>0. JobsTyped
    BY DEF CanvasInv
  <1>1. /\ jobs[j].pc \in {"subagents", "done"}
        /\ jobs[j].pc = "done" => ~Resting(jobs[j].chain)
    BY DEF SubagentStep, At, Unattended, Resting
  <1>2. Keeps(jobs[j].home, jobs[j].list, jobs[j].sess, jobs[j].pc, jobs[j].chain, Written[j])
    BY DEF KeepInv
  <1>3. /\ jobs[j].sess # 0
        /\ jobs[j].home = 0 => \E a : Written[j] \subseteq {a, jobs[j].sess}
    BY <1>1, <1>2 DEF Keeps
  <1>4. Say(j) \/ rows' = rows
    BY DEF SubagentStep, store
  <1>5. ASSUME NEW c, NEW pc \in {"subagents", "done"}
        PROVE  Keeps(jobs[j].home, jobs[j].list, jobs[j].sess, pc, c, Written'[j])
    <2>1. Written'[j] \in {Written[j], Written[j] \union {jobs[j].sess}}
      BY <1>4, WritesOn
    <2>2. ASSUME jobs[j].home = 0
          PROVE  \E a : Written'[j] \subseteq {a, jobs[j].sess}
      <3>1. PICK a : Written[j] \subseteq {a, jobs[j].sess}
        BY <1>3, <2>2
      <3>2. Written'[j] \subseteq {a, jobs[j].sess}
        BY <2>1, <3>1
      <3> QED
        BY <3>2
    <2> QED
      BY <1>2, <1>3, <2>1, <2>2 DEF Keeps, OneSession
  <1>6. \E pc \in {"subagents", "done"} : \E c : Becomes(j, pc, jobs[j].sess, jobs[j].delib, c)
    BY <1>0, <1>1, StageBecomes, ThrewBecomes DEF SubagentStep
  <1> QED
    BY <1>0, <1>4, <1>5, <1>6, WritesOn, StepFits

(* A command that begins has written nothing yet.                          *)
LEMMA BeginFits ==
  ASSUME CanvasInv, StoreInv, KeepInv, NEW j \in Handlers, Command(j)
  PROVE  KeepInv'
  <1>1. PICK kind \in Kinds, pc \in {"start", "pipeline"} : Begin(j, kind, pc)
    BY DEF Command, SendPlanChat, SynthesizeBlueprint, SwitchToExecute, HandlePlanAndExecute,
           RunNavigator, Kinds
  <1> DEFINE home == IF active \in sessions THEN active ELSE 0
             r    == [Idle EXCEPT !.kind = kind, !.pc = pc, !.list = sessions, !.home = home]
  <1>2. jobs[j].pc = "idle" /\ jobs' = [jobs EXCEPT ![j] = r] /\ rows' = rows
    BY <1>1 DEF Begin, At, store
  <1>3. Idle.sess = 0 /\ Idle.list = {} /\ Idle.chain = [m \in Modules |-> "queued"]
    BY DEF Idle
  <1>4. /\ r.home = home /\ r.list = sessions /\ r.pc = pc /\ r.sess = 0
    BY DEF Idle
  <1> HIDE DEF r, home
  <1>5. /\ jobs'[j] = r /\ \A i \in Handlers : i # j => jobs'[i] = jobs[i]
        /\ \A i \in Handlers : Written'[i] = Written[i]
    BY <1>2, SilentWrites DEF CanvasInv, JobsTyped
  <1>6. Keeps(jobs[j].home, jobs[j].list, jobs[j].sess, jobs[j].pc, jobs[j].chain, Written[j])
    BY DEF KeepInv
  <1>7. 0 \notin sessions /\ Written'[j] = {}
    BY <1>2, <1>5, <1>6 DEF StoreInv, Keeps
  <1>8. Keeps(r.home, r.list, r.sess, r.pc, r.chain, Written'[j])
    BY <1>4, <1>7 DEF Keeps, OneSession
  <1>9. ASSUME NEW i \in Handlers
        PROVE  Keeps(jobs'[i].home, jobs'[i].list, jobs'[i].sess, jobs'[i].pc, jobs'[i].chain,
                     Written'[i])
    <2>1. CASE i = j
      BY <1>5, <1>8, <2>1
    <2>2. CASE i # j
      <3>1. jobs'[i] = jobs[i] /\ Written'[i] = Written[i]
        BY <1>5, <2>2
      <3>2. Keeps(jobs[i].home, jobs[i].list, jobs[i].sess, jobs[i].pc, jobs[i].chain, Written[i])
        BY DEF KeepInv
      <3> QED
        BY <3>1, <3>2
    <2> QED
      BY <2>1, <2>2
  <1> QED
    BY <1>9 DEF KeepInv

LEMMA KeepStep ==
  ASSUME CanvasInv, StoreInv, KeepInv, [BPNext]_bpVars
  PROVE  KeepInv'
  <1>1. CASE EditDraft \/ SwitchSession \/ RunForge \/ UNCHANGED bpVars
    <2>1. UNCHANGED <<jobs, rows>>
      BY <1>1 DEF EditDraft, SwitchSession, RunForge, bpVars, store
    <2> QED
      BY <2>1 DEF KeepInv, Written
  <1>2. ASSUME NEW j \in Handlers, Command(j) \/ HandlerStep(j)
        PROVE  KeepInv'
    BY <1>2, BeginFits, HandlerFits, PipelineFits, SubagentFits DEF HandlerStep
  <1> QED
    BY <1>1, <1>2 DEF BPNext

LEMMA KeepStart == BPInit => KeepInv
  <1> SUFFICES ASSUME BPInit, NEW j \in Handlers
               PROVE  Keeps(jobs[j].home, jobs[j].list, jobs[j].sess, jobs[j].pc, jobs[j].chain,
                            Written[j])
    BY DEF KeepInv
  <1>1. jobs[j] = Idle /\ rows = {}
    BY DEF BPInit
  <1>2. Written[j] = {}
    BY <1>1 DEF Written
  <1>3. Idle.home = 0 /\ Idle.list = {} /\ Idle.pc = "idle"
    BY DEF Idle
  <1> QED
    BY <1>1, <1>2, <1>3 DEF Keeps, OneSession

(* A set within two elements has at most two.                              *)
LEMMA TwoAtMost ==
  ASSUME NEW a, NEW b, NEW S, S \subseteq {a, b}
  PROVE  Cardinality(S) <= 2
  <1>1. IsFiniteSet({} \union {a}) /\ Cardinality({} \union {a}) = 1
    BY FS_EmptySet, FS_AddElement
  <1>2. IsFiniteSet(({} \union {a}) \union {b}) /\ Cardinality(({} \union {a}) \union {b}) \in 1 .. 2
    BY <1>1, FS_AddElement
  <1>3. ({} \union {a}) \union {b} = {a, b}
    OBVIOUS
  <1> QED
    BY <1>2, <1>3, FS_Subset, FS_CardinalityType

(* A handler writes into the session it began with, or into at most two of *)
(* its own (ensureSession and the closures of BlueprintWorkspace.tsx).     *)
THEOREM SessionsAreKept == BPSpec => []HandlerKeepsItsSession
  <1>1. ASSUME CanvasInv, KeepInv
        PROVE  HandlerKeepsItsSession
    <2> SUFFICES ASSUME NEW j \in Handlers
                 PROVE  IF jobs[j].home # 0 THEN Written[j] \subseteq {jobs[j].home}
                        ELSE Written[j] \intersect jobs[j].list = {} /\ Cardinality(Written[j]) <= 2
      BY DEF HandlerKeepsItsSession, Written
    <2>1. Keeps(jobs[j].home, jobs[j].list, jobs[j].sess, jobs[j].pc, jobs[j].chain, Written[j])
      BY <1>1 DEF KeepInv
    <2>2. jobs[j].pc \in Pcs
      BY <1>1, Fields DEF CanvasInv
    <2>3. ASSUME jobs[j].home = 0
          PROVE  \E a, b : Written[j] \subseteq {a, b}
      BY <2>1, <2>2, <2>3 DEF Keeps, Pcs, OneSession
    <2> QED
      BY <2>1, <2>3, TwoAtMost DEF Keeps
  <1> QED
    BY <1>1, CanvasStart, StoreKept, CanvasStep, KeepStart, KeepStep, PTL DEF BPSpec
===============================================================================
