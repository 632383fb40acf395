------------------------------ MODULE KoreApiProofs ------------------------------
(***************************************************************************)
(* Theorems about the billing of kore-api, for any workers, customers,     *)
(* purchases, services, tenants and tiers and any number of deliveries and *)
(* crashes.  CreditLedger: the balance on file is the sum of its history   *)
(* whatever the workers do to one another, and it is what was granted and  *)
(* charged as long as no two requests overlap.  SubscriptionWallet: a      *)
(* tenant has only what its own customer subscribed to, in whatever order  *)
(* events come, and what it has now if they come in order.                 *)
(***************************************************************************)
EXTENDS KoreApi, Induction, SequenceTheorems

-----------------------------------------------------------------------------
(* Sums of sequences.  FoldSeq folds over the set of positions, which      *)
(* CHOOSE takes in an order of its own; a sum does not depend on it.       *)
Sum(h) == FoldSeq(+, 0, h)
Chosen(s) == CHOOSE x \in s : TRUE
Folds(f, h, D) ==
  \A s \in D : f[s] = IF s = {} THEN 0 ELSE h[Chosen(s)] + f[s \ {Chosen(s)}]
Folding(h, D) ==
  CHOOSE f : f = [s \in SUBSET D |->
                    IF s = {} THEN 0 ELSE h[Chosen(s)] + f[s \ {Chosen(s)}]]

LEMMA SumIs == \A h : Sum(h) = Folding(h, DOMAIN h)[DOMAIN h]
  BY DEF Sum, FoldSeq, FoldFunction, FoldFunctionOnSet, MapThenFoldSet, Folding, Chosen

LEMMA ChosenIn == \A s : s # {} => Chosen(s) \in s
  BY DEF Chosen

LEMMA FoldingExists ==
  ASSUME NEW D, IsFiniteSet(D), NEW h \in [D -> Int]
  PROVE  Folds(Folding(h, D), h, SUBSET D)
  <1> DEFINE Good == {k \in Nat : \E f \in [Smaller(D, k) -> Int] : Folds(f, h, Smaller(D, k))}
  <1>1. 0 \in Good
    <2>1. [s \in Smaller(D, 0) |-> 0] \in [Smaller(D, 0) -> Int]
      OBVIOUS
    <2>2. Folds([s \in Smaller(D, 0) |-> 0], h, Smaller(D, 0))
      BY SmallerZero DEF Folds
    <2> QED
      BY <2>1, <2>2
  <1>2. ASSUME NEW k \in Nat, k \in Good
        PROVE  k + 1 \in Good
    <2>1. PICK f \in [Smaller(D, k) -> Int] : Folds(f, h, Smaller(D, k))
      BY <1>2
    <2> DEFINE g == [s \in Smaller(D, k + 1) |->
                       IF s = {} THEN 0 ELSE h[Chosen(s)] + f[s \ {Chosen(s)}]]
    <2>2. ASSUME NEW s \in Smaller(D, k + 1), s # {}
          PROVE  /\ Chosen(s) \in s /\ Chosen(s) \in D
                 /\ s \ {Chosen(s)} \in Smaller(D, k) /\ s \ {Chosen(s)} \in Smaller(D, k + 1)
      BY <2>2, ChosenIn, SmallerWithout DEF Smaller
    <2>3. g \in [Smaller(D, k + 1) -> Int]
      BY <2>2
    <2>4. ASSUME NEW s \in Smaller(D, k), s \in Smaller(D, k + 1)
          PROVE  g[s] = f[s]
      BY <2>1, <2>4 DEF Folds
    <2>5. Folds(g, h, Smaller(D, k + 1))
      BY <2>2, <2>4 DEF Folds
    <2> HIDE DEF g
    <2> QED
      BY <2>3, <2>5
  <1>3. Cardinality(D) \in Good
    <2> HIDE DEF Good
    <2> QED
      BY <1>1, <1>2, NatsIn, SmallerAll
  <1>4. PICK f \in [SUBSET D -> Int] : Folds(f, h, SUBSET D)
    BY <1>3, SmallerAll
  <1>5. f = [s \in SUBSET D |-> IF s = {} THEN 0 ELSE h[Chosen(s)] + f[s \ {Chosen(s)}]]
    BY <1>4 DEF Folds
  <1>6. Folding(h, D) = [s \in SUBSET D |-> IF s = {} THEN 0
                           ELSE h[Chosen(s)] + Folding(h, D)[s \ {Chosen(s)}]]
    BY <1>5 DEF Folding
  <1> QED
    BY <1>6 DEF Folds

(* It does not matter which element is taken first. *)
LEMMA FoldingAny ==
  ASSUME NEW D, IsFiniteSet(D), NEW h \in [D -> Int], NEW f, Folds(f, h, SUBSET D)
  PROVE  /\ \A s \in SUBSET D : f[s] \in Int
         /\ \A s \in SUBSET D : \A x \in s : f[s] = h[x] + f[s \ {x}]
  <1> DEFINE P(s) == f[s] \in Int /\ \A x \in s : f[s] = h[x] + f[s \ {x}]
             Good == {k \in Nat : \A s \in Smaller(D, k) : P(s)}
  <1>0. f[{}] = 0
    BY DEF Folds
  <1>1. 0 \in Good
    <2>1. ASSUME NEW s \in Smaller(D, 0)
          PROVE  P(s)
      <3>1. s = {}
        BY SmallerZero
      <3> QED
        BY <1>0, <3>1
    <2> HIDE DEF P
    <2> QED
      BY <2>1
  <1>2. ASSUME NEW k \in Nat, k \in Good, NEW s \in Smaller(D, k + 1)
        PROVE  P(s)
    <2>1. CASE s = {}
      BY <1>0, <2>1
    <2>2. CASE s # {}
      <3>1. PICK y \in s : y = Chosen(s)
        BY <2>2, ChosenIn
      <3>2. s \in SUBSET D /\ y \in D /\ s \ {y} \in SUBSET D
        BY DEF Smaller
      <3>3. f[s] = h[y] + f[s \ {y}]
        BY <2>2, <3>1, <3>2 DEF Folds
      <3>4. s \ {y} \in Smaller(D, k)
        BY SmallerWithout
      <3>5. f[s \ {y}] \in Int /\ \A x \in s \ {y} : f[s \ {y}] = h[x] + f[(s \ {y}) \ {x}]
        BY <1>2, <3>4
      <3>6. ASSUME NEW x \in s, x # y
            PROVE  f[s] = h[x] + f[s \ {x}]
        <4>1. s \ {x} \in Smaller(D, k) /\ y \in s \ {x} /\ x \in s \ {y} /\ x \in D
          BY <3>6, SmallerWithout DEF Smaller
        <4>2. f[s \ {x}] = h[y] + f[(s \ {x}) \ {y}] /\ f[s \ {x}] \in Int
          BY <1>2, <4>1
        <4>3. (s \ {x}) \ {y} = (s \ {y}) \ {x}
          OBVIOUS
        <4>4. f[s \ {y}] = h[x] + f[(s \ {x}) \ {y}]
          BY <3>5, <4>1, <4>3
        <4>5. (s \ {x}) \ {y} \in Smaller(D, k)
          BY <4>1, SmallerStill
        <4>6. f[(s \ {x}) \ {y}] \in Int
          BY <1>2, <4>5
        <4>7. h[x] \in Int /\ h[y] \in Int
          BY <3>2, <4>1
        <4> QED
          BY <3>3, <4>2, <4>4, <4>6, <4>7
      <3>7. f[s] \in Int
        BY <3>2, <3>3, <3>5
      <3> QED
        BY <3>1, <3>3, <3>6, <3>7
    <2> QED
      BY <2>1, <2>2
  <1>3. Cardinality(D) \in Good
    <2>1. ASSUME NEW k \in Nat, k \in Good
          PROVE  k + 1 \in Good
      <3>1. \A s \in Smaller(D, k + 1) : P(s)
        BY <1>2, <2>1
      <3> HIDE DEF P
      <3> QED
        BY <3>1
    <2> HIDE DEF Good
    <2> QED
      BY <1>1, <2>1, NatsIn, SmallerAll
  <1> QED
    BY <1>3, SmallerAll

(* The fold of a set does not depend on what else there is. *)
LEMMA FoldingPart ==
  ASSUME NEW D, IsFiniteSet(D), NEW E \in SUBSET D, NEW f, NEW g, NEW h, NEW i,
         Folds(f, h, SUBSET D), Folds(g, i, SUBSET E), \A x \in E : h[x] = i[x]
  PROVE  \A s \in SUBSET E : f[s] = g[s]
  <1> DEFINE Good == {k \in Nat : \A s \in Smaller(E, k) : f[s] = g[s]}
  <1>0. IsFiniteSet(E)
    BY FS_Subset
  <1>1. 0 \in Good
    BY <1>0, SmallerZero DEF Folds, Smaller
  <1>2. ASSUME NEW k \in Nat, k \in Good, NEW s \in Smaller(E, k + 1)
        PROVE  f[s] = g[s]
    <2>1. CASE s = {}
      BY <2>1 DEF Folds
    <2>2. CASE s # {}
      <3>1. PICK y \in s : y = Chosen(s)
        BY <2>2, ChosenIn
      <3>2. s \in SUBSET E /\ s \in SUBSET D /\ y \in E
        BY DEF Smaller
      <3>3. f[s] = h[y] + f[s \ {y}] /\ g[s] = i[y] + g[s \ {y}]
        BY <2>2, <3>1, <3>2 DEF Folds
      <3>4. f[s \ {y}] = g[s \ {y}]
        BY <1>0, <1>2, SmallerWithout
      <3> QED
        BY <3>2, <3>3, <3>4
    <2> QED
      BY <2>1, <2>2
  <1>3. Cardinality(E) \in Good
    <2>1. \A k \in Nat : k \in Good => k + 1 \in Good
      BY <1>2
    <2> HIDE DEF Good
    <2> QED
      BY <1>0, <1>1, <2>1, NatsIn, SmallerAll
  <1> QED
    BY <1>0, <1>3, SmallerAll

(* The sum of a sequence, an entry more. *)
LEMMA SumAppend ==
  ASSUME NEW h \in Seq(Int), NEW d \in Int
  PROVE  Sum(Append(h, d)) = Sum(h) + d /\ Sum(h) \in Int
  <1>1. PICK n : n = Len(h)
    OBVIOUS
  <1>2. PICK g : g = Append(h, d)
    OBVIOUS
  <1>3. PICK E : E = 1 .. n
    OBVIOUS
  <1>4. PICK D : D = 1 .. n + 1
    OBVIOUS
  <1>5. n \in Nat /\ h \in [E -> Int] /\ DOMAIN h = E
    BY <1>1, <1>3
  <1>6. g \in Seq(Int) /\ Len(g) = n + 1
    BY <1>1, <1>2, AppendProperties
  <1>7. g \in [D -> Int] /\ DOMAIN g = D
    BY <1>4, <1>6
  <1>8. g[n + 1] = d /\ \A x \in E : g[x] = h[x]
    BY <1>1, <1>2, <1>3, AppendProperties
  <1>9. IsFiniteSet(E) /\ IsFiniteSet(D)
    BY <1>3, <1>4, <1>5, FS_Interval
  <1>10. E \in SUBSET D /\ n + 1 \in D /\ D \ {n + 1} = E
    BY <1>3, <1>4, <1>5
  <1>11. PICK f : f = Folding(h, E)
    OBVIOUS
  <1>12. PICK e : e = Folding(g, D)
    OBVIOUS
  <1>13. Folds(f, h, SUBSET E) /\ Folds(e, g, SUBSET D)
    BY <1>5, <1>7, <1>9, <1>11, <1>12, FoldingExists
  <1>a. \A s \in SUBSET E : e[s] = f[s]
    BY <1>8, <1>9, <1>10, <1>13, FoldingPart
  <1>14. e[E] = f[E]
    BY <1>a
  <1>15. e[D] = g[n + 1] + e[D \ {n + 1}]
    BY <1>7, <1>9, <1>10, <1>13, FoldingAny
  <1>16. f[E] \in Int
    BY <1>5, <1>9, <1>13, FoldingAny
  <1>17. Sum(h) = f[E] /\ Sum(g) = e[D]
    BY <1>5, <1>7, <1>11, <1>12, SumIs
  <1>18. Sum(g) = d + f[E]
    BY <1>8, <1>10, <1>14, <1>15, <1>17
  <1> QED
    BY <1>2, <1>16, <1>17, <1>18

LEMMA SumEmpty == Sum(<<>>) = 0
  <1>1. DOMAIN <<>> = {} /\ IsFiniteSet({}) /\ <<>> \in [{} -> Int] /\ {} \in SUBSET {}
    BY FS_EmptySet
  <1>2. Folds(Folding(<<>>, {}), <<>>, SUBSET {})
    BY <1>1, FoldingExists
  <1> QED
    BY <1>1, <1>2, SumIs DEF Folds

-----------------------------------------------------------------------------
(* CreditLedger                                                            *)

(* What is on file: a balance and a history, whether or not they agree.    *)
Entry == [balance : Int, history : Seq(Int)]
Table == [Accounts -> Entry]
Count == [Customers -> Nat]

Bought == [sends : Nat, customer : Accounts]
Requests ==
  [at : {"load", "open", "dump", "open_meter", "dump_meter"},
   kind : {"register", "purchase", "call"}, who : Accounts,
   of : Purchases \cup Services \cup {Nothing},
   meter : Count \cup {Nothing}, ledger : Table \cup {Nothing}]

RequestOK(j, sessions) ==
  /\ j \in Requests
  /\ j.kind # "purchase" => j.who \in Customers
  /\ j.kind = "purchase" => j.of \in Purchases /\ sessions[j.of] # NoSession
  /\ j.kind = "call" => j.of \in Services /\ j.meter \in Count
  /\ j.at \in {"open", "dump"} => j.ledger \in Table
  /\ j.at \in {"open_meter", "dump_meter"} => j.kind = "call"

FilesOK ==
  /\ balances = Unreadable \/ \E data \in Table : balances = Saved(data)
  /\ meters = Unreadable \/ \E data \in Count : meters = Saved(data)
  /\ texts \in [balances : SUBSET (Workers \X Table), meters : SUBSET (Workers \X Count)]
BooksOK ==
  /\ granted \in [Accounts -> Nat] /\ charged \in Count /\ served \in Count
  /\ agents \in [Workers -> SUBSET Customers] /\ registered \subseteq Customers
  /\ session \in [Purchases -> Bought \cup {NoSession}]
JobsOK ==
  /\ job \in [Workers -> Requests \cup {Idle}]
  /\ \A w \in Workers : job[w] # Idle => RequestOK(job[w], session)
LedgerTyped == FilesOK /\ BooksOK /\ JobsOK

-----------------------------------------------------------------------------
(* What is loaded is a table, whatever became of the file. *)
LEMMA Loaded == LedgerTyped => Ledger \in Table /\ Meter \in Count
  <1> SUFFICES ASSUME LedgerTyped PROVE Ledger \in Table /\ Meter \in Count
    OBVIOUS
  <1>1. NoEntry \in Entry
    BY EmptySeq DEF NoEntry, Entry
  <1>2. Ledger \in Table
    BY <1>1 DEF LedgerTyped, FilesOK, Ledger, Load, Unreadable, Saved, Table
  <1>3. Meter \in Count
    BY DEF LedgerTyped, FilesOK, Meter, Load, Unreadable, Saved, Count
  <1> QED
    BY <1>2, <1>3

(* Money moved in an account *)
LEMMA MovedTable ==
  ASSUME NEW T \in Table, NEW a \in Accounts, NEW d \in Int
  PROVE  /\ Moved(T, a, d) \in Table
         /\ \A b \in Accounts : Moved(T, a, d)[b].balance
              = T[b].balance + (IF b = a THEN d ELSE 0)
         /\ \A b \in Accounts : b # a => Moved(T, a, d)[b] = T[b]
         /\ Sum(T[a].history) = T[a].balance
              => Sum(Moved(T, a, d)[a].history) = Moved(T, a, d)[a].balance
  <1>1. T[a].balance \in Int /\ T[a].history \in Seq(Int)
    BY DEF Table, Entry
  <1>2. Append(T[a].history, d) \in Seq(Int)
    BY <1>1, AppendProperties
  <1>a. PICK n : n = T[a].balance + d
    OBVIOUS
  <1>b. PICK h : h = Append(T[a].history, d)
    OBVIOUS
  <1>c. Sum(T[a].history) = T[a].balance => Sum(h) = n
    BY <1>1, <1>a, <1>b, SumAppend
  <1>d. n \in Int /\ h \in Seq(Int)
    BY <1>1, <1>2, <1>a, <1>b
  <1> DEFINE e == [balance |-> n, history |-> h]
  <1>3. e \in Entry /\ e.balance = T[a].balance + d /\ e.balance = n /\ e.history = h
    BY <1>a, <1>d DEF Entry
  <1>4. Moved(T, a, d) = [T EXCEPT ![a] = e]
    BY <1>a, <1>b DEF Moved
  <1> HIDE DEF e
  <1>5. \A b \in Accounts : T[b].balance \in Int
    BY DEF Table, Entry
  <1>6. Moved(T, a, d)[a] = e
    BY <1>4 DEF Table
  <1>7. Sum(T[a].history) = T[a].balance
          => Sum(Moved(T, a, d)[a].history) = Moved(T, a, d)[a].balance
    BY <1>3, <1>6, <1>c
  <1> QED
    BY <1>3, <1>4, <1>5, <1>7 DEF Table

(* What dumps hold, and what a file reads as                               *)
Hold(dumps, keys, V) == \A d \in dumps : d[2] \in [keys -> V]
OneText(dumps) == \A d, e \in dumps : d = e
ReadsAs(file, keys, V) == file = Unreadable \/ \E data \in [keys -> V] : file = Saved(data)

(* Blocks of several dumps make a text of their values, of one dump none,  *)
(* before it ends.                                                         *)
LEMMA BlocksTyped ==
  ASSUME NEW dumps, NEW keys, NEW seam, NEW V, seam \subseteq V, Hold(dumps, keys, V)
  PROVE  /\ \A r \in Blocks(dumps, keys, seam) : ReadsAs(r, keys, V)
         /\ OneText(dumps) => Blocks(dumps, keys, seam) = {Unreadable}
  <1>1. ASSUME NEW r \in Mixtures(dumps, keys, seam)
        PROVE  ReadsAs(r, keys, V)
    <2> DEFINE entries(k) == {d[2][k] : d \in dumps} \cup seam
    <2>1. PICK m \in [keys -> UNION {entries(k) : k \in keys}] :
            r = Saved(m) /\ \A k \in keys : m[k] \in entries(k)
      BY DEF Mixtures
    <2>2. ASSUME NEW k \in keys PROVE m[k] \in V
      BY <2>1 DEF Hold
    <2>3. m \in [keys -> V]
      BY <2>1, <2>2
    <2> QED
      BY <2>1, <2>3 DEF ReadsAs
  <1>2. \A r \in Blocks(dumps, keys, seam) : ReadsAs(r, keys, V)
    BY <1>1 DEF Blocks, ReadsAs
  <1>3. OneText(dumps) => Blocks(dumps, keys, seam) = {Unreadable}
    BY DEF Blocks, OneText
  <1> QED
    BY <1>2, <1>3

LEMMA DumpedTyped ==
  ASSUME NEW dumps, NEW keys, NEW seam, NEW V, seam \subseteq V, Hold(dumps, keys, V),
         NEW data \in [keys -> V]
  PROVE  /\ \A r \in Dumped(dumps, data, keys, seam) : ReadsAs(r, keys, V)
         /\ OneText(dumps) => Dumped(dumps, data, keys, seam) = {Saved(data)}
  <1>1. \A r \in Blocks(dumps, keys, seam) : ReadsAs(r, keys, V)
    BY BlocksTyped
  <1>2. ReadsAs(Saved(data), keys, V)
    BY DEF ReadsAs
  <1>3. \A r \in Dumped(dumps, data, keys, seam) : ReadsAs(r, keys, V)
    BY <1>1, <1>2 DEF Dumped
  <1>4. OneText(dumps) => Dumped(dumps, data, keys, seam) = {Saved(data)}
    BY DEF Dumped, OneText
  <1> QED
    BY <1>3, <1>4

(* The two files *)
Seam == Garbled \cup {NoEntry}
CountSeam == GarbledCounts \cup {0}
BalanceBlocks == Blocks(texts.balances, Accounts, Seam)
BalancesDumped(data) == Dumped(texts.balances, data, Accounts, Seam)
MeterBlocks == Blocks(texts.meters, Customers, CountSeam)
MetersDumped(data) == Dumped(texts.meters, data, Customers, CountSeam)

LEMMA NoEntryTyped == NoEntry \in Entry
  BY EmptySeq DEF NoEntry, Entry

LEMMA FilesWritten ==
  ASSUME FilesOK
  PROVE  /\ \A r \in BalanceBlocks : ReadsAs(r, Accounts, Entry)
         /\ OneText(texts.balances) => BalanceBlocks = {Unreadable}
         /\ \A T \in Table : /\ \A r \in BalancesDumped(T) : ReadsAs(r, Accounts, Entry)
                             /\ OneText(texts.balances) => BalancesDumped(T) = {Saved(T)}
         /\ \A r \in MeterBlocks : ReadsAs(r, Customers, Nat)
         /\ \A M \in Count : /\ \A r \in MetersDumped(M) : ReadsAs(r, Customers, Nat)
                             /\ OneText(texts.meters) => MetersDumped(M) = {Saved(M)}
  <1>1. Hold(texts.balances, Accounts, Entry)
    BY DEF FilesOK, Table, Hold
  <1>2. Hold(texts.meters, Customers, Nat)
    BY DEF FilesOK, Count, Hold
  <1>3. Seam \subseteq Entry
    BY NoEntryTyped, LedgerBounds DEF Entry, Seam
  <1>4. CountSeam \subseteq Nat
    BY LedgerBounds DEF CountSeam
  <1>5. /\ \A r \in BalanceBlocks : ReadsAs(r, Accounts, Entry)
        /\ OneText(texts.balances) => BalanceBlocks = {Unreadable}
    BY <1>1, <1>3, BlocksTyped DEF BalanceBlocks
  <1>6. ASSUME NEW T \in Table
        PROVE  /\ \A r \in BalancesDumped(T) : ReadsAs(r, Accounts, Entry)
               /\ OneText(texts.balances) => BalancesDumped(T) = {Saved(T)}
    <2>1. T \in [Accounts -> Entry]
      BY DEF Table
    <2> QED
      BY <1>1, <1>3, <2>1, DumpedTyped DEF BalancesDumped
  <1>7. \A r \in MeterBlocks : ReadsAs(r, Customers, Nat)
    BY <1>2, <1>4, BlocksTyped DEF MeterBlocks
  <1>8. ASSUME NEW M \in Count
        PROVE  /\ \A r \in MetersDumped(M) : ReadsAs(r, Customers, Nat)
               /\ OneText(texts.meters) => MetersDumped(M) = {Saved(M)}
    <2>1. M \in [Customers -> Nat]
      BY DEF Count
    <2> QED
      <3>1. PICK keys, seam, V, dumps :
              keys = Customers /\ seam = CountSeam /\ V = Nat /\ dumps = texts.meters
        OBVIOUS
      <3>2. M \in [keys -> V] /\ Hold(dumps, keys, V) /\ seam \subseteq V
        BY <1>2, <1>4, <2>1, <3>1
      <3>3. /\ \A r \in Dumped(dumps, M, keys, seam) : ReadsAs(r, keys, V)
            /\ OneText(dumps) => Dumped(dumps, M, keys, seam) = {Saved(M)}
        BY <3>2, DumpedTyped
      <3> QED
        BY <3>1, <3>3 DEF MetersDumped
  <1> QED
    BY <1>5, <1>6, <1>7, <1>8

LEMMA TypeStart == LedgerInit => LedgerTyped
  BY DEF LedgerInit, LedgerTyped, FilesOK, BooksOK, JobsOK, Count

(* Requests stay what they are while sessions are only bought and counted. *)
LEMMA RequestStays ==
  ASSUME NEW j, RequestOK(j, session), \A p \in Purchases : session[p] # NoSession => session'[p] # NoSession
  PROVE  RequestOK(j, session')
  BY DEF RequestOK

(* One job *)
LEMMA JobStep ==
  ASSUME JobsOK, NEW w \in Workers, NEW k, job' = [job EXCEPT ![w] = k],
         k = Idle \/ RequestOK(k, session'),
         \A p \in Purchases : session[p] # NoSession => session'[p] # NoSession
  PROVE  JobsOK'
  <1>1. k \in Requests \cup {Idle}
    BY DEF RequestOK
  <1>2. job' \in [Workers -> Requests \cup {Idle}]
    BY <1>1 DEF JobsOK
  <1>3. ASSUME NEW v \in Workers, job'[v] # Idle
        PROVE  RequestOK(job'[v], session')
    <2>1. CASE v = w
      BY <1>3, <2>1 DEF JobsOK
    <2>2. CASE v # w
      BY <1>3, <2>2, RequestStays DEF JobsOK
    <2> QED
      BY <2>1, <2>2
  <1> QED
    BY <1>2, <1>3 DEF JobsOK

-----------------------------------------------------------------------------
Expected(a) == granted[a] - (IF a \in Customers THEN charged[a] ELSE 0)
BalancesComplete == \A a \in Accounts : Ledger[a].balance = Expected(a)
MetersComplete == \A c \in Customers : Meter[c] = served[c]
Due(j) == IF j.kind = "call" THEN -Cost[j.of] ELSE Amount(j)

RequestComplete(j) ==
  /\ j.at \in {"load", "open_meter", "dump_meter"} => BalancesComplete
  /\ j.at \in {"open", "dump"} =>
       \A a \in Accounts :
         j.ledger[a].balance = Expected(a) + (IF a = j.who THEN Due(j) ELSE 0)
  /\ j.at = "dump" => OneText(texts.balances)
  /\ j.at = "dump_meter" => OneText(texts.meters)
  /\ j.at # "dump_meter" => MetersComplete
  /\ j.kind = "call" => /\ served[j.who] < QuotaLimit
                        /\ \A c \in Customers : j.meter[c] = served[c]

Alone ==
  /\ \A v, w \in Workers : job[v] # Idle /\ job[w] # Idle => v = w
  /\ \A w \in Workers : job[w] # Idle => RequestComplete(job[w])
  /\ Quiet => BalancesComplete /\ MetersComplete
  /\ \A c \in Customers : served[c] <= QuotaLimit

LedgerInv == LedgerTyped /\ overlapped \in BOOLEAN /\ (~overlapped => Alone)

(* The only request in work takes a step. *)
LEMMA AloneStep ==
  ASSUME JobsOK, NEW w \in Workers, NEW k, job' = [job EXCEPT ![w] = k],
         \A v \in Workers : v # w => job[v] = Idle,
         k # Idle => RequestComplete(k)',
         k = Idle => BalancesComplete' /\ MetersComplete',
         \A c \in Customers : served'[c] <= QuotaLimit
  PROVE  Alone'
  <1>1. job'[w] = k /\ \A v \in Workers : v # w => job'[v] = Idle
    BY DEF JobsOK
  <1>2. Quiet' => k = Idle
    BY <1>1 DEF Quiet
  <1>3. ASSUME NEW v \in Workers, job'[v] # Idle
        PROVE  RequestComplete(job[v])'
    <2>1. v = w /\ job'[v] = k /\ RequestComplete(k)'
      BY <1>1, <1>3
    <2> QED
      BY <2>1 DEF RequestComplete
  <1> QED
    BY <1>1, <1>2, <1>3 DEF Alone

LEMMA LedgerStart == LedgerInit => LedgerInv
  <1> SUFFICES ASSUME LedgerInit PROVE LedgerInv
    OBVIOUS
  <1>1. LedgerTyped
    BY TypeStart
  <1>2. /\ \A a \in Accounts : Ledger[a].balance = 0 /\ Expected(a) = 0
        /\ \A c \in Customers : Meter[c] = served[c] /\ served[c] = 0
    BY DEF LedgerInit, Ledger, Meter, Load, Unreadable, NoEntry, Expected, Accounts
  <1>3. Alone
    BY <1>2, LedgerBounds DEF LedgerInit, Alone, BalancesComplete, MetersComplete
  <1> QED
    BY <1>1, <1>3 DEF LedgerInv, LedgerInit

-----------------------------------------------------------------------------
SessionsStay == \A p \in Purchases : session[p] # NoSession => session'[p] # NoSession

(* A request is accepted. *)
LEMMA Accepted ==
  ASSUME LedgerInv, NEW w \in Workers, NEW k, Begins(w, k), RequestOK(k, session'),
         k.at = "load", k.kind = "call" => k.meter = Meter /\ Meter[k.who] < QuotaLimit,
         UNCHANGED <<fileVars, agents, moneyVars>>,
         session' \in [Purchases -> Bought \cup {NoSession}], SessionsStay
  PROVE  LedgerInv'
  <1>1. FilesOK' /\ BooksOK'
    BY DEF LedgerInv, LedgerTyped, FilesOK, BooksOK, moneyVars, fileVars
  <1>2. JobsOK'
    BY JobStep DEF Begins, SessionsStay, LedgerInv, LedgerTyped
  <1>3. overlapped' \in BOOLEAN
    BY DEF Begins, LedgerInv
  <1>4. ASSUME ~overlapped'
        PROVE  Alone'
    <2>1. Alone /\ Quiet
      BY <1>4 DEF Begins, LedgerInv, Quiet
    <2>2. BalancesComplete' /\ MetersComplete' /\ Meter' = Meter /\ served' = served
      BY <2>1 DEF Alone, BalancesComplete, MetersComplete, Ledger, Meter, Load, Expected,
                  moneyVars, fileVars
    <2>3. k.kind = "call" => k.who \in Customers
      BY DEF RequestOK
    <2>4. RequestComplete(k)'
      BY <2>1, <2>2, <2>3 DEF RequestComplete, MetersComplete
    <2>5. k # Idle
      BY DEF Idle
    <2> QED
      BY <2>1, <2>2, <2>4, <2>5, AloneStep DEF Begins, LedgerInv, LedgerTyped, Quiet, Alone
  <1> QED
    BY <1>1, <1>2, <1>3, <1>4 DEF LedgerInv, LedgerTyped

LEMMA RegisterKeeps ==
  ASSUME LedgerInv, NEW w \in Workers, NEW c \in Customers, Register(w, c)
  PROVE  LedgerInv'
  <1> DEFINE k == Request("register", c, Nothing, Nothing)
  <1>1. k.at = "load" /\ k.kind = "register" /\ RequestOK(k, session')
    BY DEF Request, RequestOK, Requests, Accounts
  <1>2. Begins(w, k) /\ UNCHANGED <<fileVars, agents, session, moneyVars>>
    BY DEF Register
  <1> HIDE DEF k
  <1> QED
    BY <1>1, <1>2, Accepted DEF SessionsStay, LedgerInv, LedgerTyped, BooksOK

LEMMA CheckAndRecordKeeps ==
  ASSUME LedgerInv, NEW w \in Workers, NEW c \in Customers, NEW s \in Services,
         CheckAndRecord(w, c, s)
  PROVE  LedgerInv'
  <1> DEFINE k == Request("call", c, s, Meter)
  <1>1. Meter \in Count
    BY Loaded DEF LedgerInv
  <1>2. /\ k.at = "load" /\ k.kind = "call" /\ k.meter = Meter /\ k.who = c
        /\ RequestOK(k, session')
    BY <1>1 DEF Request, RequestOK, Requests, Accounts
  <1>3. /\ Begins(w, k) /\ Meter[c] < QuotaLimit
        /\ UNCHANGED <<fileVars, agents, session, moneyVars>>
    BY DEF CheckAndRecord
  <1> HIDE DEF k
  <1> QED
    BY <1>2, <1>3, Accepted DEF SessionsStay, LedgerInv, LedgerTyped, BooksOK

LEMMA StripeWebhookKeeps ==
  ASSUME LedgerInv, NEW w \in Workers, NEW p \in Purchases, StripeWebhook(w, p)
  PROVE  LedgerInv'
  <1> DEFINE k == Request("purchase", session[p].customer, p, Nothing)
             s == [session[p] EXCEPT !.sends = @ + 1]
  <1>1. session \in [Purchases -> Bought \cup {NoSession}] /\ session[p] \in Bought
    BY DEF StripeWebhook, LedgerInv, LedgerTyped, BooksOK
  <1>2. session' = [session EXCEPT ![p] = s]
    BY DEF StripeWebhook
  <1>3. s \in Bought
    BY <1>1 DEF Bought
  <1>4. \A b \in Bought : b # NoSession
    BY DEF Bought, NoSession
  <1> HIDE DEF s
  <1>5. /\ session' \in [Purchases -> Bought \cup {NoSession}] /\ session'[p] # NoSession
        /\ SessionsStay
    BY <1>1, <1>2, <1>3, <1>4 DEF SessionsStay
  <1>6. session[p].customer \in Accounts
    BY <1>1 DEF Bought
  <1>7. k.at = "load" /\ k.kind = "purchase" /\ RequestOK(k, session')
    BY <1>5, <1>6 DEF Request, RequestOK, Requests
  <1>8. Begins(w, k) /\ UNCHANGED <<fileVars, agents, moneyVars>>
    BY DEF StripeWebhook
  <1> HIDE DEF k
  <1> QED
    BY <1>5, <1>7, <1>8, Accepted

LEMMA BuyPackKeeps ==
  ASSUME LedgerInv, NEW w \in Workers, NEW c \in Customers, NEW p \in Purchases, BuyPack(w, c, p)
  PROVE  LedgerInv'
  <1>1. PICK customer \in {Unknown, IF c \in agents[w] THEN c ELSE Anonymous} :
          session' = [session EXCEPT ![p] = [sends |-> 0, customer |-> customer]]
    BY DEF BuyPack
  <1> DEFINE s == [sends |-> 0, customer |-> customer]
  <1>2. s \in Bought
    BY DEF Bought, Accounts
  <1>3. \A b \in Bought : b # NoSession
    BY DEF Bought, NoSession
  <1>4. session' = [session EXCEPT ![p] = s]
    BY <1>1
  <1> HIDE DEF s
  <1>5. session' \in [Purchases -> Bought \cup {NoSession}] /\ SessionsStay
    BY <1>2, <1>3, <1>4 DEF SessionsStay, LedgerInv, LedgerTyped, BooksOK
  <1>6. UNCHANGED <<fileVars, job, agents, moneyVars, overlapped>>
    BY DEF BuyPack, flagVars
  <1>7. FilesOK' /\ BooksOK'
    BY <1>5, <1>6 DEF LedgerInv, LedgerTyped, FilesOK, BooksOK, moneyVars, fileVars
  <1>8. JobsOK'
    BY <1>5, <1>6, RequestStays DEF LedgerInv, LedgerTyped, JobsOK, SessionsStay
  <1>9. Alone <=> Alone'
    BY <1>6 DEF Alone, RequestComplete, BalancesComplete, MetersComplete, Expected,
                Ledger, Meter, Load, Quiet, moneyVars, fileVars
  <1> QED
    BY <1>6, <1>7, <1>8, <1>9 DEF LedgerInv, LedgerTyped

-----------------------------------------------------------------------------
LEMMA AtWork ==
  ASSUME LedgerInv, NEW w \in Workers, job[w] # Idle
  PROVE  /\ RequestOK(job[w], session)
         /\ ~overlapped => /\ RequestComplete(job[w])
                           /\ \A v \in Workers : v # w => job[v] = Idle
                           /\ \A c \in Customers : served[c] <= QuotaLimit
  BY DEF LedgerInv, LedgerTyped, JobsOK, Alone

LEMMA Worked ==
  ASSUME LedgerInv, NEW w \in Workers, job[w] # Idle,
         NEW k, job' = [job EXCEPT ![w] = k], k = Idle \/ RequestOK(k, session'),
         SessionsStay, FilesOK', BooksOK', UNCHANGED overlapped,
         ~overlapped => /\ k # Idle => RequestComplete(k)'
                        /\ k = Idle => BalancesComplete' /\ MetersComplete'
                        /\ \A c \in Customers : served'[c] <= QuotaLimit
  PROVE  LedgerInv'
  <1>1. JobsOK'
    BY JobStep DEF SessionsStay, LedgerInv, LedgerTyped
  <1>2. ~overlapped => Alone'
    BY AtWork, AloneStep DEF LedgerInv, LedgerTyped
  <1> QED
    BY <1>1, <1>2 DEF LedgerInv, LedgerTyped

(* Money moved in what was loaded. *)
LEMMA LoadedMoves ==
  ASSUME LedgerInv, NEW w \in Workers, job[w].at = "load",
         Due(job[w]) \in Int,
         job' = [job EXCEPT ![w] = [job[w] EXCEPT !.at = "open",
                                      !.ledger = Moved(Ledger, job[w].who, Due(job[w]))]],
         UNCHANGED <<fileVars, agents, session, crashes, moneyVars, overlapped>>
  PROVE  LedgerInv'
  <1>a. PICK j : j = job[w]
    OBVIOUS
  <1>b. PICK T : T = Moved(Ledger, j.who, Due(j))
    OBVIOUS
  <1>c. PICK k : k = [j EXCEPT !.at = "open", !.ledger = T]
    OBVIOUS
  <1>0. job[w] # Idle /\ Ledger \in Table
    BY Loaded DEF Idle, LedgerInv
  <1>1. RequestOK(j, session) /\ j \in Requests /\ j.who \in Accounts
    BY <1>a, <1>0, AtWork DEF RequestOK, Requests
  <1>2. /\ T \in Table
        /\ \A a \in Accounts : T[a].balance = Ledger[a].balance + (IF a = j.who THEN Due(j) ELSE 0)
    BY <1>a, <1>b, <1>0, <1>1, MovedTable
  <1>3. job' = [job EXCEPT ![w] = k] /\ Due(k) = Due(j)
    BY <1>a, <1>b, <1>c, <1>1 DEF Due, Amount, Requests
  <1>4. /\ k \in Requests /\ k.at = "open" /\ k.kind = j.kind /\ k.who = j.who /\ k.of = j.of
        /\ k.meter = j.meter /\ k.ledger = T
    BY <1>c, <1>1, <1>2 DEF Requests
  <1>5. RequestOK(k, session')
    BY <1>1, <1>2, <1>4 DEF RequestOK
  <1>6. FilesOK' /\ BooksOK' /\ SessionsStay
    BY DEF SessionsStay, LedgerInv, LedgerTyped, FilesOK, BooksOK, moneyVars, fileVars
  <1>7. k # Idle
    BY <1>4 DEF Idle
  <1>8. ASSUME ~overlapped
        PROVE  RequestComplete(k)' /\ \A c \in Customers : served'[c] <= QuotaLimit
    <2>1. RequestComplete(j) /\ \A c \in Customers : served[c] <= QuotaLimit
      BY <1>a, <1>0, <1>8, AtWork
    <2>2. /\ \A a \in Accounts : Expected(a)' = Expected(a)
          /\ Meter' = Meter /\ served' = served
      BY DEF Expected, Meter, Load, moneyVars, fileVars
    <2>3. BalancesComplete /\ MetersComplete
      BY <1>a, <2>1 DEF RequestComplete
    <2>a. \A a \in Accounts : Ledger[a].balance = Expected(a)'
      BY <2>2, <2>3 DEF BalancesComplete
    <2>4. \A a \in Accounts : T[a].balance = Expected(a)' + (IF a = j.who THEN Due(j) ELSE 0)
      BY <1>2, <2>a
    <2>5. MetersComplete'
      BY <2>2, <2>3 DEF MetersComplete
    <2>6. \A a \in Accounts :
            k.ledger[a].balance = Expected(a)' + (IF a = k.who THEN Due(k) ELSE 0)
      BY <1>3, <1>4, <2>4
    <2>7. k.kind = "call" => /\ served'[k.who] < QuotaLimit
                             /\ \A c \in Customers : k.meter[c] = served'[c]
      BY <1>4, <2>1, <2>2 DEF RequestComplete
    <2> QED
      BY <1>4, <2>1, <2>2, <2>5, <2>6, <2>7 DEF RequestComplete
  <1> QED
    BY <1>0, <1>3, <1>5, <1>6, <1>7, <1>8, Worked

LEMMA LoadToAddKeeps ==
  ASSUME LedgerInv, NEW w \in Workers, LoadToAdd(w)
  PROVE  LedgerInv'
  <1>1. /\ job[w].at = "load" /\ job[w].kind \in {"register", "purchase"}
        /\ UNCHANGED <<fileVars, agents, session, crashes, moneyVars, overlapped>>
        /\ job' = [job EXCEPT ![w] = [job[w] EXCEPT !.at = "open",
                     !.ledger = Moved(Ledger, job[w].who, Amount(job[w]))]]
    BY DEF LoadToAdd, flagVars
  <1>2. Due(job[w]) = Amount(job[w]) /\ Due(job[w]) \in Nat
    BY <1>1, LedgerBounds DEF Due, Amount
  <1>6. Due(job[w]) \in Int
    BY <1>2
  <1>7. job' = [job EXCEPT ![w] = [job[w] EXCEPT !.at = "open",
                  !.ledger = Moved(Ledger, job[w].who, Due(job[w]))]]
    BY <1>1, <1>2
  <1> QED
    BY <1>1, <1>6, <1>7, LoadedMoves

LEMMA LoadToSpendKeeps ==
  ASSUME LedgerInv, NEW w \in Workers, LoadToSpend(w)
  PROVE  LedgerInv'
  <1>1. /\ job[w].at = "load" /\ job[w].kind = "call" /\ job[w] # Idle
        /\ UNCHANGED <<fileVars, agents, session, crashes, moneyVars, overlapped>>
    BY DEF LoadToSpend, Idle, flagVars
  <1>2. job[w].who \in Accounts /\ job[w].of \in Services /\ Ledger \in Table
    BY <1>1, AtWork, Loaded DEF RequestOK, Requests, LedgerInv
  <1>3. Due(job[w]) = -Cost[job[w].of] /\ Due(job[w]) \in Int
    BY <1>1, <1>2, LedgerBounds DEF Due, Services
  <1>4. CASE Ledger[job[w].who].balance < Cost[job[w].of]
    <2>1. job' = [job EXCEPT ![w] = Idle]
      BY <1>4 DEF LoadToSpend
    <2>2. FilesOK' /\ BooksOK' /\ SessionsStay
      BY <1>1 DEF SessionsStay, LedgerInv, LedgerTyped, FilesOK, BooksOK, moneyVars, fileVars
    <2>3. ASSUME ~overlapped
          PROVE  /\ BalancesComplete' /\ MetersComplete'
                 /\ \A c \in Customers : served'[c] <= QuotaLimit
      <3>1. RequestComplete(job[w]) /\ \A c \in Customers : served[c] <= QuotaLimit
        BY <1>1, <2>3, AtWork
      <3> QED
        BY <1>1, <3>1 DEF RequestComplete, BalancesComplete, MetersComplete, Expected,
                          Ledger, Meter, Load, moneyVars, fileVars
    <2> QED
      BY <1>1, <2>1, <2>2, <2>3, Worked
  <1>5. CASE ~(Ledger[job[w].who].balance < Cost[job[w].of])
    <2>1. job' = [job EXCEPT ![w] = [job[w] EXCEPT !.at = "open",
                     !.ledger = Moved(Ledger, job[w].who, -Cost[job[w].of])]]
      BY <1>5 DEF LoadToSpend
    <2> QED
      BY <1>1, <1>3, <2>1, LoadedMoves
  <1> QED
    BY <1>4, <1>5

(* A request that goes on with another file is the same request. *)
Same(k, j) == /\ k.kind = j.kind /\ k.who = j.who /\ k.of = j.of
              /\ k.meter = j.meter /\ k.ledger = j.ledger

LEMMA SameOK ==
  ASSUME NEW j, NEW k \in Requests, RequestOK(j, session), Same(k, j), UNCHANGED session,
         k.at \in {"open", "dump"} => j.at \in {"open", "dump"},
         k.at \in {"open_meter", "dump_meter"} => j.at \in {"open_meter", "dump_meter", "dump"}
                                                   /\ j.kind = "call"
  PROVE  RequestOK(k, session') /\ k # Idle /\ Due(k) = Due(j)
  <1>0. k.at \in {"load", "open", "dump", "open_meter", "dump_meter"}
    BY DEF Requests
  <1>1. k # Idle
    BY <1>0 DEF Idle
  <1>2. Due(k) = Due(j)
    BY DEF Due, Amount, Same
  <1>3. RequestOK(k, session')
    BY DEF RequestOK, Same
  <1> QED
    BY <1>1, <1>2, <1>3

LEMMA OpenBalancesKeeps ==
  ASSUME LedgerInv, NEW w \in Workers, OpenBalances(w)
  PROVE  LedgerInv'
  <1>1. PICK j : j = job[w]
    OBVIOUS
  <1>2. PICK k : k = [j EXCEPT !.at = "dump"]
    OBVIOUS
  <1>3. /\ j.at = "open" /\ j # Idle /\ balances' = Unreadable /\ job' = [job EXCEPT ![w] = k]
        /\ UNCHANGED <<meters, agents, session, moneyVars, overlapped>>
    BY <1>1, <1>2 DEF OpenBalances, Idle
  <1>4. RequestOK(j, session)
    BY <1>1, <1>3, AtWork
  <1>t. /\ texts' \in [balances : SUBSET (Workers \X Table), meters : SUBSET (Workers \X Count)]
        /\ ~overlapped => OneText(texts'.balances)
    <2>1. PICK dumping, D : /\ dumping = {v \in Workers : job[v].at = "dump"}
                            /\ D = {<<v, job[v].ledger>> : v \in dumping \cup {w}}
      OBVIOUS
    <2>2. texts' = [texts EXCEPT !.balances = D]
      BY <2>1 DEF OpenBalances
    <2>3. ASSUME NEW v \in dumping \cup {w}
          PROVE  <<v, job[v].ledger>> \in Workers \X Table
      <3>1. v \in Workers /\ job[v].at \in {"open", "dump"}
        BY <1>1, <1>3, <2>1
      <3>2. job[v] # Idle
        BY <3>1 DEF Idle
      <3>3. job[v].ledger \in Table
        BY <3>1, <3>2 DEF LedgerInv, LedgerTyped, JobsOK, RequestOK
      <3> QED
        BY <3>1, <3>3
    <2>4. D \in SUBSET (Workers \X Table)
      BY <2>1, <2>3
    <2>5. texts' \in [balances : SUBSET (Workers \X Table), meters : SUBSET (Workers \X Count)]
          /\ texts'.balances = D
      BY <2>2, <2>4 DEF LedgerInv, LedgerTyped, FilesOK
    <2>6. ASSUME ~overlapped PROVE OneText(D)
      <3>1. dumping = {}
        BY <1>1, <1>3, <2>1, <2>6, AtWork DEF Idle
      <3> QED
        BY <2>1, <3>1 DEF OneText
    <2> QED
      BY <2>5, <2>6
  <1>a. k \in Requests /\ k.at = "dump" /\ Same(k, j)
    BY <1>2, <1>4 DEF RequestOK, Requests, Same
  <1>b. RequestOK(k, session') /\ k # Idle /\ Due(k) = Due(j)
    BY <1>3, <1>4, <1>a, SameOK
  <1>5. /\ RequestOK(k, session') /\ k # Idle /\ Due(k) = Due(j)
        /\ k.at = "dump" /\ k.kind = j.kind /\ k.who = j.who
        /\ k.meter = j.meter /\ k.ledger = j.ledger
    BY <1>a, <1>b DEF Same
  <1>6. FilesOK' /\ BooksOK' /\ SessionsStay
    BY <1>3, <1>t DEF SessionsStay, LedgerInv, LedgerTyped, FilesOK, BooksOK, moneyVars
  <1>7. ASSUME ~overlapped
        PROVE  RequestComplete(k)' /\ \A c \in Customers : served'[c] <= QuotaLimit
    <2>1. RequestComplete(j) /\ \A c \in Customers : served[c] <= QuotaLimit
      BY <1>1, <1>3, <1>7, AtWork
    <2>2. /\ \A a \in Accounts : Expected(a)' = Expected(a)
          /\ Meter' = Meter /\ served' = served
      BY <1>3 DEF Expected, Meter, Load, moneyVars
    <2>3. MetersComplete'
      BY <1>3, <2>1, <2>2 DEF RequestComplete, MetersComplete
    <2>4. \A a \in Accounts :
            k.ledger[a].balance = Expected(a)' + (IF a = k.who THEN Due(k) ELSE 0)
      BY <1>3, <1>5, <2>1, <2>2 DEF RequestComplete
    <2>5. k.kind = "call" => /\ served'[k.who] < QuotaLimit
                             /\ \A c \in Customers : k.meter[c] = served'[c]
      BY <1>5, <2>1, <2>2 DEF RequestComplete
    <2> QED
      BY <1>3, <1>5, <1>7, <1>t, <2>1, <2>2, <2>3, <2>4, <2>5 DEF RequestComplete
  <1> QED
    BY <1>1, <1>3, <1>5, <1>6, <1>7, Worked

LEMMA RecordedTyped ==
  ASSUME NEW j, RequestOK(j, session), j.at \in {"open_meter", "dump_meter"}
  PROVE  Recorded(j) \in Count
  <1>1. j.meter \in Count /\ j.who \in Customers
    BY DEF RequestOK
  <1> QED
    BY <1>1 DEF Recorded, Count

LEMMA OpenMetersKeeps ==
  ASSUME LedgerInv, NEW w \in Workers, OpenMeters(w)
  PROVE  LedgerInv'
  <1>1. PICK j : j = job[w]
    OBVIOUS
  <1>2. PICK k : k = [j EXCEPT !.at = "dump_meter"]
    OBVIOUS
  <1>0. /\ j.at = "open_meter" /\ meters' = Unreadable
        /\ UNCHANGED <<balances, agents, session, moneyVars, overlapped>>
    BY <1>1 DEF OpenMeters, flagVars
  <1>c. job' = [job EXCEPT ![w] = k]
    BY <1>1, <1>2 DEF OpenMeters
  <1>3. /\ j.at = "open_meter" /\ j # Idle /\ meters' = Unreadable /\ job' = [job EXCEPT ![w] = k]
        /\ UNCHANGED <<balances, agents, session, moneyVars, overlapped>>
    BY <1>0, <1>c DEF Idle
  <1>4. RequestOK(j, session) /\ j.kind = "call"
    BY <1>1, <1>3, AtWork DEF RequestOK
  <1>a. k \in Requests /\ k.at = "dump_meter" /\ Same(k, j)
    BY <1>2, <1>4 DEF RequestOK, Requests, Same
  <1>b. RequestOK(k, session') /\ k # Idle
    BY <1>3, <1>4, <1>a, SameOK
  <1>t. /\ texts' \in [balances : SUBSET (Workers \X Table), meters : SUBSET (Workers \X Count)]
        /\ ~overlapped => OneText(texts'.meters)
    <2>1. PICK dumping, D : /\ dumping = {v \in Workers : job[v].at = "dump_meter"}
                            /\ D = {<<v, Recorded(job[v])>> : v \in dumping \cup {w}}
      OBVIOUS
    <2>2. texts' = [texts EXCEPT !.meters = D]
      BY <2>1 DEF OpenMeters
    <2>3. ASSUME NEW v \in dumping \cup {w}
          PROVE  <<v, Recorded(job[v])>> \in Workers \X Count
      <3>1. v \in Workers /\ job[v].at \in {"open_meter", "dump_meter"}
        BY <1>1, <1>3, <2>1
      <3>2. job[v] # Idle
        BY <3>1 DEF Idle
      <3>3. RequestOK(job[v], session)
        BY <3>1, <3>2 DEF LedgerInv, LedgerTyped, JobsOK
      <3>4. Recorded(job[v]) \in Count
        BY <3>1, <3>3, RecordedTyped
      <3> QED
        BY <3>1, <3>4
    <2>4. D \in SUBSET (Workers \X Count)
      BY <2>1, <2>3
    <2>5. texts' \in [balances : SUBSET (Workers \X Table), meters : SUBSET (Workers \X Count)]
          /\ texts'.meters = D
      BY <2>2, <2>4 DEF LedgerInv, LedgerTyped, FilesOK
    <2>6. ASSUME ~overlapped PROVE OneText(D)
      <3>1. dumping = {}
        BY <1>1, <1>3, <2>1, <2>6, AtWork DEF Idle
      <3> QED
        BY <2>1, <3>1 DEF OneText
    <2> QED
      BY <2>5, <2>6
  <1>5. /\ RequestOK(k, session') /\ k # Idle
        /\ k.at = "dump_meter" /\ k.kind = j.kind /\ k.who = j.who /\ k.meter = j.meter
    BY <1>a, <1>b DEF Same
  <1>6. FilesOK' /\ BooksOK' /\ SessionsStay
    BY <1>3, <1>t DEF SessionsStay, LedgerInv, LedgerTyped, FilesOK, BooksOK, moneyVars
  <1>7. ASSUME ~overlapped
        PROVE  RequestComplete(k)' /\ \A c \in Customers : served'[c] <= QuotaLimit
    <2>1. RequestComplete(j) /\ \A c \in Customers : served[c] <= QuotaLimit
      BY <1>1, <1>3, <1>7, AtWork
    <2>2. BalancesComplete' /\ served' = served
      BY <1>3, <2>1 DEF RequestComplete, BalancesComplete, Ledger, Load, Expected, moneyVars
    <2>3. k.kind = "call" => /\ served'[k.who] < QuotaLimit
                             /\ \A c \in Customers : k.meter[c] = served'[c]
      BY <1>5, <2>1, <2>2 DEF RequestComplete
    <2> QED
      BY <1>3, <1>5, <1>7, <1>t, <2>1, <2>2, <2>3 DEF RequestComplete
  <1> QED
    BY <1>1, <1>3, <1>5, <1>6, <1>7, Worked

(* A block of a dump that goes on *)
LEMMA WriteKeepsLedger ==
  ASSUME LedgerInv, NEW w \in Workers, WriteBalances(w) \/ WriteMeters(w)
  PROVE  LedgerInv'
  <1>1. /\ UNCHANGED <<texts, job, agents, session, crashes, moneyVars, overlapped>>
        /\ job[w].at \in {"dump", "dump_meter"} /\ job[w] # Idle
        /\ job[w].at = "dump" => UNCHANGED meters
        /\ job[w].at = "dump_meter" => UNCHANGED balances
    BY DEF WriteBalances, WriteMeters, flagVars, Idle
  <1>2. ReadsAs(balances', Accounts, Entry) /\ ReadsAs(meters', Customers, Nat)
    BY FilesWritten DEF WriteBalances, WriteMeters, BalanceBlocks, MeterBlocks, Seam, CountSeam,
                        ReadsAs, LedgerInv, LedgerTyped, FilesOK, Table, Count
  <1>3. FilesOK' /\ BooksOK' /\ JobsOK'
    BY <1>1, <1>2 DEF ReadsAs, LedgerInv, LedgerTyped, FilesOK, BooksOK, JobsOK, moneyVars, Table,
                          Count
  <1>4. ASSUME ~overlapped PROVE Alone'
    <2>1. Alone /\ ~Quiet
      BY <1>1, <1>4 DEF LedgerInv, Quiet
    <2>2. \A v \in Workers : job[v] # Idle => v = w
      BY <1>1, <2>1 DEF Alone
    <2>3. RequestComplete(job[w])
      BY <1>1, <2>1 DEF Alone
    <2>4. RequestComplete(job[w])'
      BY <1>1, <2>3 DEF RequestComplete, BalancesComplete, MetersComplete, Expected, Ledger, Meter,
                        Load, moneyVars
    <2> QED
      BY <1>1, <2>1, <2>2, <2>4 DEF Alone, Quiet, moneyVars
  <1> QED
    BY <1>1, <1>3, <1>4 DEF LedgerInv, LedgerTyped

(* What is dumped holds the change, if no one else touched the file. *)
LEMMA BalancesSaved ==
  ASSUME LedgerInv, NEW w \in Workers, job[w].at = "dump",
         balances' \in BalancesDumped(job[w].ledger), UNCHANGED <<meters, texts>>
  PROVE  /\ job[w] # Idle /\ RequestOK(job[w], session) /\ FilesOK'
         /\ ~overlapped =>
              /\ \A a \in Accounts :
                   Ledger'[a].balance = Expected(a) + (IF a = job[w].who THEN Due(job[w]) ELSE 0)
              /\ MetersComplete
              /\ \A c \in Customers : served[c] <= QuotaLimit
              /\ job[w].kind = "call" => /\ served[job[w].who] < QuotaLimit
                                         /\ \A c \in Customers : job[w].meter[c] = served[c]
  <1>1. job[w] # Idle
    BY DEF Idle
  <1>2. RequestOK(job[w], session) /\ job[w].ledger \in Table
    BY <1>1, AtWork DEF RequestOK
  <1>3. FilesOK'
    BY <1>2, FilesWritten DEF ReadsAs, FilesOK, LedgerInv, LedgerTyped, Table, Count
  <1>4. ASSUME ~overlapped
        PROVE  /\ \A a \in Accounts : Ledger'[a].balance
                    = Expected(a) + (IF a = job[w].who THEN Due(job[w]) ELSE 0)
               /\ MetersComplete
               /\ \A c \in Customers : served[c] <= QuotaLimit
               /\ job[w].kind = "call" => /\ served[job[w].who] < QuotaLimit
                                          /\ \A c \in Customers : job[w].meter[c] = served[c]
    <2>1. RequestComplete(job[w]) /\ \A c \in Customers : served[c] <= QuotaLimit
      BY <1>1, <1>4, AtWork
    <2>2. balances' = Saved(job[w].ledger)
      BY <1>2, <2>1, FilesWritten DEF RequestComplete, LedgerInv, LedgerTyped
    <2>3. Ledger' = job[w].ledger
      BY <2>2 DEF Ledger, Load, Saved
    <2> QED
      BY <2>1, <2>3 DEF RequestComplete
  <1> QED
    BY <1>1, <1>2, <1>3, <1>4

LEMMA RegisteredKeeps ==
  ASSUME LedgerInv, NEW w \in Workers, Registered(w)
  PROVE  LedgerInv'
  <1>1. PICK j : j = job[w]
    OBVIOUS
  <1>2. /\ j.at = "dump" /\ j.kind = "register" /\ balances' \in BalancesDumped(j.ledger)
        /\ job' = [job EXCEPT ![w] = Idle]
        /\ agents' = [agents EXCEPT ![w] = @ \cup {j.who}] /\ registered' = registered \cup {j.who}
        /\ granted' = [granted EXCEPT ![j.who] = @ + FreeCredits]
        /\ UNCHANGED <<meters, texts, session, charged, served, overlapped>>
    BY <1>1 DEF Registered, SaveBalances, BalancesDumped, Seam, flagVars
  <1>3. j # Idle /\ RequestOK(j, session) /\ FilesOK'
    BY <1>1, <1>2, BalancesSaved
  <1>4. j.who \in Customers /\ j.who \in Accounts
    BY <1>2, <1>3 DEF RequestOK, Accounts
  <1>5. BooksOK' /\ SessionsStay
    BY <1>2, <1>4, LedgerBounds DEF SessionsStay, LedgerInv, LedgerTyped, BooksOK, moneyVars
  <1>6. ASSUME ~overlapped
        PROVE  /\ BalancesComplete' /\ MetersComplete'
               /\ \A c \in Customers : served'[c] <= QuotaLimit
    <2>1. /\ \A a \in Accounts :
               Ledger'[a].balance = Expected(a) + (IF a = j.who THEN Due(j) ELSE 0)
          /\ MetersComplete
          /\ \A c \in Customers : served[c] <= QuotaLimit
      BY <1>1, <1>2, <1>6, BalancesSaved
    <2>2. Due(j) = FreeCredits
      BY <1>2 DEF Due, Amount
    <2>3. granted \in [Accounts -> Nat] /\ charged \in Count
      BY DEF LedgerInv, LedgerTyped, BooksOK
    <2>4. \A a \in Accounts : Expected(a)' = Expected(a) + (IF a = j.who THEN Due(j) ELSE 0)
      BY <1>2, <1>4, <2>2, <2>3, LedgerBounds DEF Expected, Count
    <2> QED
      BY <1>2, <2>1, <2>4 DEF BalancesComplete, MetersComplete, Meter, Load
  <1> QED
    BY <1>1, <1>2, <1>3, <1>5, <1>6, Worked

LEMMA PurchasedKeeps ==
  ASSUME LedgerInv, NEW w \in Workers, Purchased(w)
  PROVE  LedgerInv'
  <1>1. PICK j : j = job[w]
    OBVIOUS
  <1>2. /\ j.at = "dump" /\ j.kind = "purchase" /\ balances' \in BalancesDumped(j.ledger)
        /\ job' = [job EXCEPT ![w] = Idle]
        /\ granted' = [granted EXCEPT ![j.who] = @ + PackCredits]
        /\ UNCHANGED <<meters, texts, agents, session, charged, served, registered, overlapped>>
    BY <1>1 DEF Purchased, SaveBalances, BalancesDumped, Seam, flagVars
  <1>3. j # Idle /\ RequestOK(j, session) /\ FilesOK'
    BY <1>1, <1>2, BalancesSaved
  <1>4. j.who \in Accounts
    BY <1>3 DEF RequestOK, Requests
  <1>9. BooksOK' /\ SessionsStay
    BY <1>2, <1>4, LedgerBounds DEF SessionsStay, LedgerInv, LedgerTyped, BooksOK, moneyVars
  <1>10. ASSUME ~overlapped
         PROVE  /\ BalancesComplete' /\ MetersComplete'
                /\ \A c \in Customers : served'[c] <= QuotaLimit
    <2>1. /\ \A a \in Accounts :
               Ledger'[a].balance = Expected(a) + (IF a = j.who THEN Due(j) ELSE 0)
          /\ MetersComplete
          /\ \A c \in Customers : served[c] <= QuotaLimit
      BY <1>1, <1>2, <1>10, BalancesSaved
    <2>2. Due(j) = PackCredits
      BY <1>2 DEF Due, Amount
    <2>3. granted \in [Accounts -> Nat] /\ charged \in Count
      BY DEF LedgerInv, LedgerTyped, BooksOK
    <2>4. \A a \in Accounts : Expected(a)' = Expected(a) + (IF a = j.who THEN Due(j) ELSE 0)
      BY <1>2, <1>4, <2>2, <2>3, LedgerBounds DEF Expected, Count
    <2> QED
      BY <1>2, <2>1, <2>4 DEF BalancesComplete, MetersComplete, Meter, Load
  <1> QED
    BY <1>1, <1>2, <1>3, <1>9, <1>10, Worked

LEMMA ChargedKeeps ==
  ASSUME LedgerInv, NEW w \in Workers, Charged(w)
  PROVE  LedgerInv'
  <1>1. PICK j : j = job[w]
    OBVIOUS
  <1>2. PICK k : k = [j EXCEPT !.at = "open_meter"]
    OBVIOUS
  <1>3. /\ j.at = "dump" /\ j.kind = "call" /\ balances' \in BalancesDumped(j.ledger)
        /\ charged' = [charged EXCEPT ![j.who] = @ + Cost[j.of]]
        /\ UNCHANGED <<meters, texts, agents, session, granted, served, registered, overlapped>>
    BY <1>1 DEF Charged, SaveBalances, BalancesDumped, Seam, flagVars
  <1>4. job' = [job EXCEPT ![w] = k]
    BY <1>1, <1>2 DEF Charged
  <1>5. j # Idle /\ RequestOK(j, session) /\ FilesOK'
    BY <1>1, <1>3, BalancesSaved
  <1>6. j.who \in Customers /\ Cost[j.of] \in Nat /\ j \in Requests
    BY <1>3, <1>5, LedgerBounds DEF RequestOK, Services
  <1>7. k \in Requests /\ k.at = "open_meter" /\ Same(k, j)
    BY <1>2, <1>6 DEF Requests, Same
  <1>8. RequestOK(k, session') /\ k # Idle
    BY <1>3, <1>5, <1>7, SameOK
  <1>9. BooksOK' /\ SessionsStay
    BY <1>3, <1>6 DEF SessionsStay, LedgerInv, LedgerTyped, BooksOK, moneyVars, Count
  <1>10. ASSUME ~overlapped
         PROVE  RequestComplete(k)' /\ \A c \in Customers : served'[c] <= QuotaLimit
    <2>1. /\ \A a \in Accounts :
               Ledger'[a].balance = Expected(a) + (IF a = j.who THEN Due(j) ELSE 0)
          /\ MetersComplete
          /\ \A c \in Customers : served[c] <= QuotaLimit
          /\ served[j.who] < QuotaLimit
          /\ \A c \in Customers : j.meter[c] = served[c]
      BY <1>1, <1>3, <1>10, BalancesSaved
    <2>2. Due(j) = -Cost[j.of]
      BY <1>3 DEF Due
    <2>3. granted \in [Accounts -> Nat] /\ charged \in Count
      BY DEF LedgerInv, LedgerTyped, BooksOK
    <2>4. \A a \in Accounts : Expected(a)' = Expected(a) + (IF a = j.who THEN Due(j) ELSE 0)
      BY <1>3, <1>6, <2>2, <2>3 DEF Expected, Count
    <2>5. BalancesComplete' /\ MetersComplete'
      BY <1>3, <2>1, <2>4 DEF BalancesComplete, MetersComplete, Meter, Load
    <2> QED
      BY <1>3, <1>7, <2>1, <2>5 DEF RequestComplete, Same
  <1> QED
    BY <1>1, <1>3, <1>4, <1>5, <1>8, <1>9, <1>10, Worked

LEMMA ServedKeeps ==
  ASSUME LedgerInv, NEW w \in Workers, Served(w)
  PROVE  LedgerInv'
  <1>1. PICK j : j = job[w]
    OBVIOUS
  <1>2. PICK M : M = Recorded(j)
    OBVIOUS
  <1>3. /\ j.at = "dump_meter" /\ job' = [job EXCEPT ![w] = Idle]
        /\ meters' \in MetersDumped(M)
        /\ served' = [served EXCEPT ![j.who] = @ + 1]
        /\ UNCHANGED <<balances, texts, agents, session, granted, charged, registered, overlapped>>
    BY <1>1, <1>2 DEF Served, MetersDumped, CountSeam, flagVars
  <1>4. j # Idle
    BY <1>3 DEF Idle
  <1>5. RequestOK(j, session)
    BY <1>1, <1>4, AtWork
  <1>6. j.kind = "call" /\ j.who \in Customers /\ j.meter \in Count
    BY <1>3, <1>5 DEF RequestOK
  <1>7. M \in Count
    BY <1>2, <1>3, <1>5, RecordedTyped
  <1>8. FilesOK'
    BY <1>3, <1>7, FilesWritten DEF ReadsAs, FilesOK, LedgerInv, LedgerTyped, Table, Count
  <1>9. BooksOK' /\ SessionsStay
    BY <1>3, <1>6 DEF SessionsStay, LedgerInv, LedgerTyped, BooksOK, moneyVars, Count
  <1>10. ASSUME ~overlapped
         PROVE  /\ BalancesComplete' /\ MetersComplete'
                /\ \A c \in Customers : served'[c] <= QuotaLimit
    <2>1. RequestComplete(j) /\ \A c \in Customers : served[c] <= QuotaLimit
      BY <1>1, <1>4, <1>10, AtWork
    <2>2. /\ BalancesComplete /\ OneText(texts.meters) /\ served[j.who] < QuotaLimit
          /\ \A c \in Customers : j.meter[c] = served[c]
      BY <1>3, <1>6, <2>1 DEF RequestComplete
    <2>3. meters' = Saved(M)
      BY <1>3, <1>7, <2>2, FilesWritten DEF LedgerInv, LedgerTyped
    <2>4. Meter' = M
      BY <2>3 DEF Meter, Load, Saved
    <2>5. served \in Count
      BY DEF LedgerInv, LedgerTyped, BooksOK
    <2>6. \A c \in Customers : M[c] = served'[c]
      BY <1>2, <1>3, <1>6, <2>2, <2>5 DEF Count, Recorded
    <2>7. \A c \in Customers : served'[c] <= QuotaLimit
      BY <1>3, <1>6, <2>1, <2>2, <2>5, LedgerBounds DEF Count
    <2>8. BalancesComplete'
      BY <1>3, <2>2 DEF BalancesComplete, Ledger, Load, Expected
    <2> QED
      BY <2>4, <2>6, <2>7, <2>8 DEF MetersComplete
  <1> QED
    BY <1>1, <1>3, <1>4, <1>8, <1>9, <1>10, Worked

(* A worker that dies with a request in hand may leave any file behind. *)
LEMMA CrashKeeps ==
  ASSUME LedgerInv, NEW w \in Workers, Crash(w)
  PROVE  LedgerInv'
  <1>1. /\ job' = [job EXCEPT ![w] = Idle] /\ agents' = [agents EXCEPT ![w] = {}]
        /\ overlapped' = (overlapped \/ job[w] # Idle)
        /\ UNCHANGED <<balances, meters, texts, session, granted, charged, served, registered>>
    BY DEF Crash, moneyVars, fileVars
  <1>2. SessionsStay
    BY <1>1 DEF SessionsStay
  <1>3. FilesOK' /\ BooksOK'
    BY <1>1, <1>2 DEF LedgerInv, LedgerTyped, FilesOK, BooksOK
  <1>4. JobsOK'
    <2>1. PICK k : k = Idle
      OBVIOUS
    <2> QED
      BY <1>1, <1>2, <2>1, JobStep DEF SessionsStay, LedgerInv, LedgerTyped
  <1>5. ASSUME ~overlapped'
        PROVE  Alone'
    <2>1. job[w] = Idle /\ ~overlapped /\ Alone
      BY <1>1, <1>5 DEF LedgerInv
    <2>2. job' = job
      BY <1>1, <2>1 DEF LedgerInv, LedgerTyped, JobsOK
    <2> QED
      BY <1>1, <2>1, <2>2 DEF Alone, RequestComplete, BalancesComplete, MetersComplete, Expected,
                              Ledger, Meter, Load, Quiet
  <1> QED
    BY <1>1, <1>3, <1>4, <1>5 DEF LedgerInv, LedgerTyped

LEMMA LedgerStep == LedgerInv /\ [LedgerNext]_ledgerVars => LedgerInv'
  <1>1. ASSUME LedgerInv, UNCHANGED ledgerVars
        PROVE  LedgerInv'
    <2>1. FilesOK' /\ BooksOK' /\ JobsOK' /\ overlapped' = overlapped
      BY <1>1 DEF ledgerVars, moneyVars, fileVars, flagVars, LedgerInv, LedgerTyped, FilesOK,
                  BooksOK, JobsOK
    <2>2. Alone <=> Alone'
      BY <1>1 DEF ledgerVars, moneyVars, fileVars, flagVars, Alone, RequestComplete, BalancesComplete,
                  MetersComplete, Expected, Ledger, Meter, Load, Quiet
    <2> QED
      BY <1>1, <2>1, <2>2 DEF LedgerInv, LedgerTyped
  <1> QED
    BY <1>1, RegisterKeeps, CheckAndRecordKeeps, StripeWebhookKeeps, BuyPackKeeps,
       LoadToAddKeeps, LoadToSpendKeeps, OpenBalancesKeeps, WriteKeepsLedger, RegisteredKeeps, PurchasedKeeps,
       ChargedKeeps, OpenMetersKeeps, ServedKeeps, CrashKeeps DEF LedgerNext, WorkerStep

(* The invariant gives the property.                                       *)
LEMMA LedgerGives == LedgerInv => LedgerIsComplete
  BY DEF LedgerInv, LedgerTyped, BooksOK, LedgerIsComplete, Alone, BalancesComplete,
         MetersComplete, Expected, Accounts

(* credits.py and billing.py: as long as no two requests were in work at   *)
(* once and no worker was cut off, the files hold between requests all     *)
(* that was granted and charged, and no call beyond the quota.             *)
THEOREM TheLedgerIsComplete == LedgerSpec => []LedgerIsComplete
  BY LedgerGives, LedgerStart, LedgerStep, PTL DEF LedgerSpec

-----------------------------------------------------------------------------
(* While no two dumps of the balances overlap.                             *)

Sound(T) == \A a \in Accounts : T[a].balance = Sum(T[a].history) /\ T[a].balance >= 0
(* what a request adds to an account, and has not been counted as granted  *)
Adds(j, a) == IF j.kind # "call" /\ j.who = a THEN Amount(j) ELSE 0
Writing(j) == j.at \in {"open", "dump"}
MoneyInv ==
  ~mingled =>
    /\ Sound(Ledger) /\ \A a \in Accounts : Ledger[a].balance <= granted[a]
    /\ \A w \in Workers : Writing(job[w]) =>
         /\ Sound(job[w].ledger)
         /\ \A a \in Accounts : job[w].ledger[a].balance <= granted[a] + Adds(job[w], a)
    /\ \A v, w \in Workers : job[v].at = "dump" /\ job[w].at = "dump" => v = w
    /\ \A w \in Workers : job[w].at = "dump" => OneText(texts.balances)

(* The empty ledger, which an unreadable file reads as *)
LEMMA EmptyIsSound ==
  ASSUME balances = Unreadable
  PROVE  Sound(Ledger) /\ \A a \in Accounts : Ledger[a].balance = 0
  <1>1. \A a \in Accounts : Ledger[a] = NoEntry
    BY DEF Ledger, Load, Unreadable
  <1> QED
    BY <1>1, SumEmpty DEF NoEntry, Sound

(* A step that leaves the balances alone, and who writes them, keeps it. *)
LEMMA MoneyStays ==
  ASSUME LedgerInv, MoneyInv, NEW w \in Workers, NEW k, job' = [job EXCEPT ![w] = k], ~Writing(k),
         UNCHANGED <<balances, granted, mingled>>, texts'.balances = texts.balances
  PROVE  MoneyInv'
  <1>1. \A v \in Workers : Writing(job'[v]) => v # w /\ job'[v] = job[v]
    BY DEF LedgerInv, LedgerTyped, JobsOK
  <1>2. Ledger' = Ledger
    BY DEF Ledger, Load
  <1>3. \A v \in Workers : job'[v].at = "dump" => job'[v] = job[v]
    BY <1>1 DEF Writing
  <1>4. ASSUME ~mingled'
        PROVE  /\ Sound(Ledger)' /\ \A a \in Accounts : Ledger'[a].balance <= granted'[a]
               /\ \A v \in Workers : Writing(job'[v]) =>
                    /\ Sound(job'[v].ledger)
                    /\ \A a \in Accounts : job'[v].ledger[a].balance <= granted'[a] + Adds(job'[v], a)
    BY <1>1, <1>2, <1>4 DEF MoneyInv, Sound
  <1>5. ASSUME ~mingled'
        PROVE  /\ \A u, v \in Workers : job'[u].at = "dump" /\ job'[v].at = "dump" => u = v
               /\ \A v \in Workers : job'[v].at = "dump" => OneText(texts'.balances)
    BY <1>3, <1>5 DEF MoneyInv
  <1> QED
    BY <1>4, <1>5 DEF MoneyInv, Sound, Writing, Adds, Amount, OneText

LEMMA BeginsKeepsMoney ==
  ASSUME LedgerInv, MoneyInv, NEW w \in Workers, NEW k, Begins(w, k), k.at = "load",
         UNCHANGED <<fileVars, moneyVars>>
  PROVE  MoneyInv'
  BY MoneyStays DEF Begins, Writing, fileVars, moneyVars

(* A change that is read and not yet written. *)
LEMMA LoadKeepsMoney ==
  ASSUME LedgerInv, MoneyInv, NEW w \in Workers, LoadToAdd(w) \/ LoadToSpend(w)
  PROVE  MoneyInv'
  <1>1. PICK j : j = job[w]
    OBVIOUS
  <1>2. /\ j.at = "load" /\ j # Idle /\ Ledger \in Table
        /\ UNCHANGED <<fileVars, moneyVars, mingled>>
    BY <1>1, Loaded DEF LoadToAdd, LoadToSpend, Idle, flagVars, LedgerInv
  <1>3. RequestOK(j, session) /\ j \in Requests /\ j.who \in Accounts
    BY <1>1, <1>2, AtWork DEF RequestOK, Requests
  <1>4. CASE j.kind = "call" /\ Ledger[j.who].balance < Cost[j.of]
    <2>1. job' = [job EXCEPT ![w] = Idle] /\ ~Writing(Idle)
      BY <1>1, <1>4 DEF LoadToAdd, LoadToSpend, Writing, Idle
    <2> QED
      BY <1>2, <2>1, MoneyStays DEF fileVars, moneyVars
  <1>5. CASE ~(j.kind = "call" /\ Ledger[j.who].balance < Cost[j.of])
    <2>1. PICK d : d = IF j.kind = "call" THEN -Cost[j.of] ELSE Amount(j)
      OBVIOUS
    <2>2. d \in Int
      BY <1>3, <2>1, LedgerBounds DEF RequestOK, Services, Amount
    <2>3. PICK T : T = Moved(Ledger, j.who, d)
      OBVIOUS
    <2>4. PICK k : k = [j EXCEPT !.at = "open", !.ledger = T]
      OBVIOUS
    <2>5. job' = [job EXCEPT ![w] = k]
      BY <1>1, <1>5, <2>1, <2>3, <2>4 DEF LoadToAdd, LoadToSpend
    <2>6. k.at = "open" /\ k.kind = j.kind /\ k.who = j.who /\ k.ledger = T
      BY <1>3, <2>4 DEF Requests
    <2>7. /\ T \in Table
          /\ \A b \in Accounts : T[b].balance = Ledger[b].balance + (IF b = j.who THEN d ELSE 0)
          /\ \A b \in Accounts : b # j.who => T[b] = Ledger[b]
          /\ Sum(Ledger[j.who].history) = Ledger[j.who].balance
               => Sum(T[j.who].history) = T[j.who].balance
      BY <1>2, <1>3, <2>2, <2>3, MovedTable
    <2>8. ASSUME ~mingled
          PROVE  /\ Sound(T)
                 /\ \A a \in Accounts : T[a].balance <= granted[a] + Adds(k, a)
      <3>1. Sound(Ledger) /\ \A a \in Accounts : Ledger[a].balance <= granted[a]
        BY <2>8 DEF MoneyInv
      <3>2. \A a \in Accounts : Ledger[a].balance \in Int /\ granted[a] \in Nat
        BY <1>2 DEF Table, Entry, LedgerInv, LedgerTyped, BooksOK
      <3>3. Ledger[j.who].balance + d >= 0
        <4>1. CASE j.kind = "call"
          <5>1. Cost[j.of] \in Nat /\ d = -Cost[j.of]
            BY <1>3, <2>1, <4>1, LedgerBounds DEF RequestOK, Services
          <5> QED
            BY <1>3, <1>5, <3>2, <4>1, <5>1
        <4>2. CASE j.kind # "call"
          <5>1. d \in Nat
            BY <2>1, <4>2, LedgerBounds DEF Amount
          <5> QED
            BY <1>3, <3>1, <3>2, <5>1 DEF Sound
        <4> QED
          BY <4>1, <4>2
      <3>4. \A a \in Accounts : T[a].balance >= 0
        BY <2>7, <3>1, <3>2, <3>3 DEF Sound
      <3>5. \A a \in Accounts : T[a].balance = Sum(T[a].history)
        BY <1>3, <2>7, <3>1 DEF Sound
      <3>6. \A a \in Accounts : (IF a = j.who THEN d ELSE 0) <= Adds(k, a)
        <4>1. CASE j.kind = "call"
          <5>1. d <= 0 /\ d \in Int
            BY <1>3, <2>1, <4>1, LedgerBounds DEF RequestOK, Services
          <5> QED
            BY <2>6, <4>1, <5>1 DEF Adds
        <4>2. CASE j.kind # "call"
          BY <2>1, <2>2, <2>6, <4>2 DEF Adds, Amount
        <4> QED
          BY <4>1, <4>2
      <3>7. \A a \in Accounts : Adds(k, a) \in Int
        BY LedgerBounds DEF Adds, Amount
      <3>8. \A a \in Accounts : T[a].balance <= granted[a] + Adds(k, a)
        BY <2>2, <2>7, <3>1, <3>2, <3>6, <3>7
      <3> QED
        BY <3>4, <3>5, <3>8 DEF Sound
    <2>9. Ledger' = Ledger /\ granted' = granted /\ texts' = texts /\ mingled' = mingled
      BY <1>2 DEF Ledger, Load, fileVars, moneyVars
    <2>10. job'[w] = k /\ \A v \in Workers : v # w => job'[v] = job[v]
      BY <2>5 DEF LedgerInv, LedgerTyped, JobsOK
    <2>11. \A v \in Workers : job'[v].at = "dump" => job'[v] = job[v]
      BY <2>6, <2>10
    <2>12. ASSUME ~mingled', NEW v \in Workers, Writing(job'[v])
           PROVE  /\ Sound(job'[v].ledger)
                  /\ \A a \in Accounts : job'[v].ledger[a].balance <= granted[a] + Adds(job'[v], a)
      <3>1. CASE v = w
        BY <2>6, <2>8, <2>9, <2>10, <2>12, <3>1
      <3>2. CASE v # w
        BY <2>9, <2>10, <2>12, <3>2 DEF MoneyInv
      <3> QED
        BY <3>1, <3>2
    <2>13. ASSUME ~mingled'
           PROVE  /\ Sound(Ledger) /\ \A a \in Accounts : Ledger[a].balance <= granted[a]
                  /\ \A u, v \in Workers : job'[u].at = "dump" /\ job'[v].at = "dump" => u = v
                  /\ \A v \in Workers : job'[v].at = "dump" => OneText(texts.balances)
      BY <2>9, <2>11, <2>13 DEF MoneyInv
    <2> QED
      BY <2>9, <2>12, <2>13 DEF MoneyInv, Sound, Writing, Adds, Amount, OneText
  <1> QED
    BY <1>4, <1>5

LEMMA OpenKeepsMoney ==
  ASSUME LedgerInv, MoneyInv, NEW w \in Workers, OpenBalances(w)
  PROVE  MoneyInv'
  <1>1. PICK j, k : j = job[w] /\ k = [j EXCEPT !.at = "dump"]
    OBVIOUS
  <1>2. PICK dumping : dumping = {v \in Workers : job[v].at = "dump"}
    OBVIOUS
  <1>3. /\ j.at = "open" /\ j # Idle /\ balances' = Unreadable /\ job' = [job EXCEPT ![w] = k]
        /\ granted' = granted /\ mingled' = (mingled \/ dumping # {})
        /\ texts' = [texts EXCEPT !.balances = {<<v, job[v].ledger>> : v \in dumping \cup {w}}]
    BY <1>1, <1>2 DEF OpenBalances, Idle, moneyVars
  <1>4. j \in Requests
    BY <1>1, <1>3, AtWork DEF RequestOK
  <1>5. k.at = "dump" /\ k.kind = j.kind /\ k.who = j.who /\ k.ledger = j.ledger
    BY <1>1, <1>4 DEF Requests
  <1>6. job'[w] = k /\ \A v \in Workers : v # w => job'[v] = job[v]
    BY <1>3 DEF LedgerInv, LedgerTyped, JobsOK
  <1>7. Sound(Ledger)' /\ \A a \in Accounts : Ledger'[a].balance = 0
    <2>1. \A a \in Accounts : Ledger'[a] = NoEntry
      BY <1>3 DEF Ledger, Load, Unreadable
    <2> QED
      BY <2>1, SumEmpty DEF NoEntry, Sound
  <1>8. \A a \in Accounts : granted[a] \in Nat
    BY DEF LedgerInv, LedgerTyped, BooksOK
  <1>9. ASSUME ~mingled'
        PROVE  MoneyInv'
    <2>1. ~mingled /\ dumping = {}
      BY <1>3, <1>9
    <2>2. \A v \in Workers : job'[v].at = "dump" => v = w
      BY <1>2, <1>6, <2>1
    <2>3. OneText(texts'.balances)
      <3>1. PICK D : D = {<<v, job[v].ledger>> : v \in dumping \cup {w}}
        OBVIOUS
      <3>2. texts'.balances = D
        BY <1>3, <3>1 DEF LedgerInv, LedgerTyped, FilesOK
      <3>3. OneText(D)
        BY <2>1, <3>1 DEF OneText
      <3> QED
        BY <3>2, <3>3
    <2>4. ASSUME NEW v \in Workers, Writing(job'[v])
          PROVE  /\ Sound(job'[v].ledger)
                 /\ \A a \in Accounts : job'[v].ledger[a].balance <= granted[a] + Adds(job'[v], a)
      <3>1. CASE v = w
        <4>1. Writing(job[w])
          BY <1>1, <1>3 DEF Writing
        <4>2. \A a \in Accounts : Adds(k, a) = Adds(j, a)
          BY <1>5 DEF Adds, Amount
        <4> QED
          BY <1>1, <1>5, <1>6, <2>1, <3>1, <4>1, <4>2 DEF MoneyInv
      <3>2. CASE v # w
        BY <1>6, <2>1, <2>4, <3>2 DEF MoneyInv
      <3> QED
        BY <3>1, <3>2
    <2>5. \A a \in Accounts : Ledger'[a].balance <= granted'[a]
      BY <1>3, <1>7, <1>8
    <2> QED
      BY <1>3, <1>7, <2>2, <2>3, <2>4, <2>5 DEF MoneyInv, Sound, Writing, Adds, Amount, OneText
  <1> QED
    BY <1>9 DEF MoneyInv

LEMMA WriteKeepsMoney ==
  ASSUME LedgerInv, MoneyInv, NEW w \in Workers, WriteBalances(w)
  PROVE  MoneyInv'
  <1>1. /\ job[w].at = "dump" /\ balances' \in BalanceBlocks
        /\ UNCHANGED <<texts, job, granted, mingled>>
    BY DEF WriteBalances, BalanceBlocks, Seam, moneyVars, flagVars
  <1>2. ASSUME ~mingled
        PROVE  Sound(Ledger)' /\ \A a \in Accounts : Ledger'[a].balance <= granted'[a]
    <2>1. balances' = Unreadable
      BY <1>1, <1>2, FilesWritten DEF MoneyInv, LedgerInv, LedgerTyped
    <2>2. \A a \in Accounts : Ledger'[a] = NoEntry
      BY <2>1 DEF Ledger, Load, Unreadable
    <2>3. \A a \in Accounts : granted[a] \in Nat
      BY DEF LedgerInv, LedgerTyped, BooksOK
    <2> QED
      BY <1>1, <2>2, <2>3, SumEmpty DEF NoEntry, Sound
  <1> QED
    BY <1>1, <1>2 DEF MoneyInv, Sound, Writing, Adds, Amount, OneText

(* The end of a dump *)
LEMMA SavedKeepsMoney ==
  ASSUME LedgerInv, MoneyInv, NEW w \in Workers, Registered(w) \/ Purchased(w) \/ Charged(w)
  PROVE  MoneyInv'
  <1>1. PICK j : j = job[w]
    OBVIOUS
  <1>2. /\ j.at = "dump" /\ j # Idle /\ balances' \in BalancesDumped(j.ledger)
        /\ UNCHANGED <<texts, mingled>>
    BY <1>1 DEF Registered, Purchased, Charged, SaveBalances, BalancesDumped, Seam,
              Idle, flagVars
  <1>3. RequestOK(j, session)
    BY <1>1, <1>2, AtWork
  <1>4. PICK k : job' = [job EXCEPT ![w] = k] /\ ~Writing(k)
    <2>1. CASE Registered(w) \/ Purchased(w)
      <3>1. PICK k : k = Idle
        OBVIOUS
      <3>2. job' = [job EXCEPT ![w] = k]
        BY <2>1, <3>1 DEF Registered, Purchased
      <3>3. ~Writing(k)
        BY <3>1 DEF Writing, Idle
      <3> QED
        BY <3>2, <3>3
    <2>2. CASE Charged(w)
      <3>1. PICK k : k = [j EXCEPT !.at = "open_meter"]
        OBVIOUS
      <3>2. job' = [job EXCEPT ![w] = k]
        BY <1>1, <2>2, <3>1 DEF Charged
      <3>3. k.at = "open_meter"
        BY <1>3, <3>1 DEF RequestOK, Requests
      <3> QED
        BY <3>2, <3>3 DEF Writing
    <2> QED
      BY <2>1, <2>2
  <1>5. \A a \in Accounts : granted'[a] = granted[a] + Adds(j, a) /\ granted[a] \in Nat
    <2>1. granted \in [Accounts -> Nat]
      BY DEF LedgerInv, LedgerTyped, BooksOK
    <2>2. CASE Registered(w)
      <3>1. j.kind = "register" /\ granted' = [granted EXCEPT ![j.who] = @ + FreeCredits]
        BY <1>1, <2>2 DEF Registered, SaveBalances
      <3> QED
        BY <2>1, <3>1, LedgerBounds DEF Adds, Amount
    <2>3. CASE Purchased(w)
      <3>1. j.kind = "purchase" /\ granted' = [granted EXCEPT ![j.who] = @ + PackCredits]
        BY <1>1, <2>3 DEF Purchased, SaveBalances
      <3> QED
        BY <2>1, <3>1, LedgerBounds DEF Adds, Amount
    <2>4. CASE Charged(w)
      <3>1. j.kind = "call" /\ granted' = granted
        BY <1>1, <2>4 DEF Charged, SaveBalances
      <3> QED
        BY <2>1, <3>1 DEF Adds
    <2> QED
      BY <2>2, <2>3, <2>4
  <1>6. \A a \in Accounts : granted[a] <= granted'[a] /\ granted'[a] \in Nat
    BY <1>5, LedgerBounds DEF Adds, Amount
  <1>7. ASSUME ~mingled
        PROVE  Ledger' = j.ledger
    <2>1. OneText(texts.balances) /\ j.ledger \in Table
      BY <1>1, <1>2, <1>3, <1>7 DEF MoneyInv, RequestOK
    <2>2. balances' = Saved(j.ledger)
      BY <1>2, <2>1, FilesWritten DEF LedgerInv, LedgerTyped
    <2> QED
      BY <2>2 DEF Ledger, Load, Saved
  <1>8. \A v \in Workers : Writing(job'[v]) => v # w /\ job'[v] = job[v]
    BY <1>4 DEF LedgerInv, LedgerTyped, JobsOK
  <1>9. ASSUME ~mingled
        PROVE  /\ Sound(Ledger') /\ \A a \in Accounts : Ledger'[a].balance <= granted'[a]
    BY <1>1, <1>2, <1>5, <1>7, <1>9 DEF MoneyInv, Writing
  <1>10. ASSUME ~mingled, NEW v \in Workers, Writing(job'[v])
         PROVE  /\ Sound(job'[v].ledger)
                /\ \A a \in Accounts : job'[v].ledger[a].balance <= granted'[a] + Adds(job'[v], a)
    <2>1. /\ v # w /\ job'[v] = job[v] /\ Sound(job[v].ledger)
          /\ \A a \in Accounts : job[v].ledger[a].balance <= granted[a] + Adds(job[v], a)
      BY <1>8, <1>10 DEF MoneyInv
    <2>2. job[v].ledger \in Table
      <3>1. Writing(job[v]) /\ job[v] # Idle
        BY <1>8, <1>10 DEF Writing, Idle
      <3> QED
        BY <3>1 DEF Writing, LedgerInv, LedgerTyped, JobsOK, RequestOK
    <2>3. \A a \in Accounts : job[v].ledger[a].balance \in Int /\ Adds(job[v], a) \in Int
      BY <2>2, LedgerBounds DEF Table, Entry, Adds, Amount
    <2>4. \A a \in Accounts : job[v].ledger[a].balance <= granted'[a] + Adds(job[v], a)
      BY <1>5, <1>6, <2>1, <2>3
    <2> QED
      BY <2>1, <2>4
  <1>11. \A v \in Workers : job'[v].at = "dump" => job'[v] = job[v]
    BY <1>8 DEF Writing
  <1>12. ASSUME ~mingled
         PROVE  /\ \A u, v \in Workers : job'[u].at = "dump" /\ job'[v].at = "dump" => u = v
                /\ \A v \in Workers : job'[v].at = "dump" => OneText(texts.balances)
    BY <1>11, <1>12 DEF MoneyInv
  <1> QED
    BY <1>2, <1>9, <1>10, <1>12 DEF MoneyInv, Sound, Writing, Adds, Amount, OneText

(* Every other step leaves the balances and their writers alone. *)
LEMMA OthersKeepMoney ==
  ASSUME LedgerInv, MoneyInv, NEW w \in Workers,
         \/ OpenMeters(w) \/ WriteMeters(w) \/ Served(w) \/ Crash(w)
         \/ \E c \in Customers, p \in Purchases : BuyPack(w, c, p)
  PROVE  MoneyInv'
  <1>1. CASE OpenMeters(w)
    <2>1. PICK k : k = [job[w] EXCEPT !.at = "dump_meter"]
      OBVIOUS
    <2>2. /\ job' = [job EXCEPT ![w] = k] /\ job[w].at = "open_meter" /\ job[w] # Idle
          /\ UNCHANGED <<balances, granted, mingled>>
      BY <1>1, <2>1 DEF OpenMeters, Idle, moneyVars, flagVars
    <2>3. job[w] \in Requests
      BY <2>2, AtWork DEF RequestOK
    <2>4. ~Writing(k)
      BY <2>1, <2>3 DEF Requests, Writing
    <2>5. texts'.balances = texts.balances
      <3>1. PICK D : D = {<<v, Recorded(job[v])>> : v \in {v \in Workers : job[v].at = "dump_meter"} \cup {w}}
        OBVIOUS
      <3>2. texts' = [texts EXCEPT !.meters = D]
        BY <1>1, <3>1 DEF OpenMeters
      <3> QED
        BY <3>2 DEF LedgerInv, LedgerTyped, FilesOK
    <2> QED
      BY <2>2, <2>4, <2>5, MoneyStays
  <1>2. CASE Served(w) \/ Crash(w)
    <2>1. PICK k : k = Idle
      OBVIOUS
    <2>2. job' = [job EXCEPT ![w] = k] /\ UNCHANGED <<balances, texts, granted, mingled>>
      BY <1>2, <2>1 DEF Served, Crash, moneyVars, fileVars, flagVars
    <2> QED
      BY <2>1, <2>2, MoneyStays DEF Writing, Idle
  <1>3. CASE UNCHANGED <<balances, texts, job, granted, mingled>>
    BY <1>3 DEF MoneyInv, Sound, Ledger, Load, Writing, Adds, Amount, OneText
  <1>4. CASE WriteMeters(w) \/ \E c \in Customers, p \in Purchases : BuyPack(w, c, p)
    BY <1>3, <1>4 DEF WriteMeters, BuyPack, moneyVars, fileVars, flagVars
  <1> QED
    BY <1>1, <1>2, <1>4

LEMMA MoneyStart == LedgerInit => MoneyInv
  <1> SUFFICES ASSUME LedgerInit PROVE MoneyInv
    OBVIOUS
  <1>1. /\ balances = Unreadable /\ \A w \in Workers : ~Writing(job[w]) /\ job[w].at # "dump"
        /\ \A a \in Accounts : granted[a] = 0
    BY DEF LedgerInit, Writing, Idle
  <1>2. Sound(Ledger) /\ \A a \in Accounts : Ledger[a].balance = 0
    BY <1>1, EmptyIsSound
  <1> QED
    BY <1>1, <1>2 DEF MoneyInv

LEMMA MoneyStep == LedgerInv /\ MoneyInv /\ [LedgerNext]_ledgerVars => MoneyInv'
  <1> SUFFICES ASSUME LedgerInv, MoneyInv, [LedgerNext]_ledgerVars PROVE MoneyInv'
    OBVIOUS
  <1>1. CASE UNCHANGED ledgerVars
    BY <1>1 DEF ledgerVars, fileVars, moneyVars, flagVars, MoneyInv, Sound, Ledger, Load, Writing,
                Adds, Amount, OneText
  <1>2. ASSUME NEW w \in Workers, WorkerStep(w) \/ Crash(w)
        PROVE  MoneyInv'
    BY <1>2, LoadKeepsMoney, OpenKeepsMoney, WriteKeepsMoney, SavedKeepsMoney, OthersKeepMoney
       DEF WorkerStep
  <1>3. ASSUME NEW w \in Workers, NEW c \in Customers, Register(w, c)
        PROVE  MoneyInv'
    BY <1>3, BeginsKeepsMoney DEF Register, Request
  <1>4. ASSUME NEW w \in Workers, NEW c \in Customers, NEW s \in Services, CheckAndRecord(w, c, s)
        PROVE  MoneyInv'
    BY <1>4, BeginsKeepsMoney DEF CheckAndRecord, Request
  <1>5. ASSUME NEW w \in Workers, NEW p \in Purchases, StripeWebhook(w, p)
        PROVE  MoneyInv'
    BY <1>5, BeginsKeepsMoney DEF StripeWebhook, Request
  <1> QED
    BY <1>1, <1>2, <1>3, <1>4, <1>5, OthersKeepMoney DEF LedgerNext

LEMMA MoneyGives == MoneyInv => BalanceIsHistory /\ CreditsWereGranted
  BY DEF MoneyInv, Sound, BalanceIsHistory, CreditsWereGranted, Sum

(* credits.py's _save_balances without a lock: however requests interleave *)
(* around their two files, lose one another's changes or die in a dump, as *)
(* long as no two dumps of the balances overlap the balance on file is the *)
(* sum of the account's history and never negative.                        *)
THEOREM TheBalanceIsItsHistory == LedgerSpec => []BalanceIsHistory
  BY MoneyGives, LedgerStart, LedgerStep, MoneyStart, MoneyStep, PTL DEF LedgerSpec

(* add_credits and spend_credits under the same condition: a lost update   *)
(* may bring charged credits back, and never more than were granted.       *)
THEOREM NoCreditIsMade == LedgerSpec => []CreditsWereGranted
  BY MoneyGives, LedgerStart, LedgerStep, MoneyStart, MoneyStep, PTL DEF LedgerSpec

-----------------------------------------------------------------------------
(* SubscriptionWallet                                                      *)

(* An event names the tenant of its customer or none, and a tier.          *)
EventTypes == {"created", "updated", "deleted", "paid", "failed"}
Ids == Subscribers \X (1 .. MaxPlans)
Written == [type : EventTypes, customer : Subscribers, id : Ids,
            tier : Tiers, form : {"id", "object"}, tenant : {NoTenant} \cup Tenants]
Plans == [number : 1 .. MaxPlans, active : BOOLEAN, tier : Tiers]

(* Tenant t may hold tier: an event of one of its customers speaks of it.  *)
Paid(t, tier) ==
  \E i \in DOMAIN events : Owner[events[i].customer] = t /\ events[i].tier = tier

(* Stripe writes events of the plan a customer has or had.                 *)
StripeInv ==
  /\ plan \in [Subscribers -> [number : 0 .. MaxPlans, active : BOOLEAN, tier : Tiers \cup {NoTier}]]
  /\ \A c \in Subscribers : plan[c].active => plan[c].number > 0
  /\ \A c \in Subscribers : plan[c].number > 0 => plan[c] \in Plans
  /\ events \in Seq(Written)
  /\ \A i \in DOMAIN events : events[i].tenant \in {NoTenant, Owner[events[i].customer]}

(* A store holds what was paid for.                                        *)
TypedStore ==
  [pools : [Tenants -> SUBSET Tiers], tenantOf : [Subscribers -> Tenants \cup {NoTenant}],
   subs : [Tenants -> Records], grace : SUBSET Tenants]
StoreOK(s) ==
  /\ s \in TypedStore
  /\ \A t \in Tenants : \A tier \in s.pools[t] : Paid(t, tier)
  /\ \A t \in Tenants : s.subs[t] # NoSub => Paid(t, s.subs[t].tier)
  /\ \A c \in Subscribers : s.tenantOf[c] \in {NoTenant, Owner[c]}
StoresOK == store \in [Routers -> TypedStore] /\ \A r \in Routers : StoreOK(store[r])

WalletInv == StripeInv /\ StoresOK

-----------------------------------------------------------------------------
(* What Stripe has written it does not take back.                          *)
LEMMA PaidStays ==
  ASSUME StripeInv, NEW e \in Written, events' = Append(events, e),
         NEW t, NEW tier, Paid(t, tier)
  PROVE  Paid(t, tier)'
  <1>1. PICK i \in DOMAIN events : Owner[events[i].customer] = t /\ events[i].tier = tier
    BY DEF Paid
  <1>2. i \in DOMAIN events' /\ events'[i] = events[i]
    BY <1>1 DEF StripeInv
  <1> QED
    BY <1>1, <1>2 DEF Paid

LEMMA StoreStays ==
  ASSUME NEW s, StoreOK(s), \A t, tier : Paid(t, tier) => Paid(t, tier)'
  PROVE  StoreOK(s)'
  BY DEF StoreOK

(* Stripe writes an event.                                                 *)
LEMMA WriteKeeps ==
  ASSUME WalletInv, NEW c \in Subscribers, NEW type \in EventTypes, NEW now \in Plans,
         NEW named, Write(type, c, now, named)
  PROVE  WalletInv'
  <1>0. PICK tenant : tenant = IF named THEN Owner[c] ELSE NoTenant
    OBVIOUS
  <1>1. PICK form \in {"id", "object"} :
          events' = Append(events, [type |-> type, customer |-> c, id |-> <<c, now.number>>,
                                       tier |-> now.tier, form |-> form, tenant |-> tenant])
    BY <1>0 DEF Write
  <1>2. PICK e : e = [type |-> type, customer |-> c, id |-> <<c, now.number>>,
                      tier |-> now.tier, form |-> form, tenant |-> tenant]
    OBVIOUS
  <1>3. now.number \in 1 .. MaxPlans /\ now.tier \in Tiers /\ now.active \in BOOLEAN
    BY DEF Plans
  <1>4. <<c, now.number>> \in Ids
    BY <1>3 DEF Ids
  <1>5. tenant \in {NoTenant} \cup Tenants
    BY <1>0 DEF Tenants
  <1>6. e \in Written /\ e.tenant = tenant /\ e.customer = c
    BY <1>2, <1>3, <1>4, <1>5 DEF Written
  <1>7. events' = Append(events, e) /\ UNCHANGED <<configured, store>>
        /\ plan' = [plan EXCEPT ![c] = now]
    BY <1>1, <1>2 DEF Write
  <1>8. events \in Seq(Written)
    BY DEF WalletInv, StripeInv
  <1>9. events' \in Seq(Written)
    BY <1>6, <1>7, <1>8
  <1>10. ASSUME NEW i \in DOMAIN events'
         PROVE  events'[i].tenant \in {NoTenant, Owner[events'[i].customer]}
    <2>1. CASE i \in DOMAIN events
      BY <1>7, <1>8, <2>1 DEF WalletInv, StripeInv
    <2>2. CASE i \notin DOMAIN events
      <3>1. events'[i] = e
        BY <1>6, <1>7, <1>8, <1>10, <2>2
      <3> QED
        BY <1>0, <1>6, <3>1
    <2> QED
      BY <2>1, <2>2
  <1>11. /\ plan' \in [Subscribers -> [number : 0 .. MaxPlans, active : BOOLEAN,
                                       tier : Tiers \cup {NoTier}]]
         /\ \A d \in Subscribers : plan'[d].active => plan'[d].number > 0
         /\ \A d \in Subscribers : plan'[d].number > 0 => plan'[d] \in Plans
    <2>1. now \in [number : 0 .. MaxPlans, active : BOOLEAN, tier : Tiers \cup {NoTier}]
          /\ now.number > 0
      BY <1>3, WalletBounds DEF Plans
    <2> QED
      BY <1>7, <2>1 DEF WalletInv, StripeInv
  <1>12. StripeInv'
    BY <1>9, <1>10, <1>11 DEF StripeInv
  <1>13. \A t, tier : Paid(t, tier) => Paid(t, tier)'
    BY <1>6, <1>7, PaidStays DEF WalletInv
  <1>14. ASSUME NEW r \in Routers PROVE StoreOK(store[r])'
    <2>1. PICK s : s = store[r]
      OBVIOUS
    <2>2. StoreOK(s)'
      BY <1>13, <2>1, StoreStays DEF WalletInv, StoresOK
    <2> QED
      BY <1>7, <2>1, <2>2 DEF StoreOK
  <1> QED
    BY <1>7, <1>12, <1>14 DEF WalletInv, StoresOK

(* The steps of Stripe.                                                    *)
LEMMA StripeKeeps ==
  ASSUME WalletInv, NEW c \in Subscribers,
         \/ \E tier \in Tiers : Subscribe(c, tier) \/ ChangePlan(c, tier)
         \/ Cancel(c)
         \/ \E type \in {"paid", "failed"} : Invoice(c, type)
  PROVE  WalletInv'
  <1>0. /\ plan[c] \in [number : 0 .. MaxPlans, active : BOOLEAN, tier : Tiers \cup {NoTier}]
        /\ plan[c].active => plan[c].number > 0
        /\ plan[c].number > 0 => plan[c] \in Plans
    BY DEF WalletInv, StripeInv
  <1>1. ASSUME NEW tier \in Tiers, Subscribe(c, tier)
        PROVE  WalletInv'
    <2>1. PICK now : now = [number |-> plan[c].number + 1, active |-> TRUE, tier |-> tier]
      OBVIOUS
    <2>2. now \in Plans
      BY <1>0, <1>1, <2>1, WalletBounds DEF Plans, Subscribe
    <2>3. PICK named : named = (c \in Named)
      OBVIOUS
    <2>4. Write("created", c, now, named)
      BY <1>1, <2>1, <2>3 DEF Subscribe
    <2> QED
      BY <2>2, <2>4, WriteKeeps DEF EventTypes
  <1>2. ASSUME NEW tier \in Tiers, ChangePlan(c, tier)
        PROVE  WalletInv'
    <2>1. PICK now : now = [plan[c] EXCEPT !.tier = tier]
      OBVIOUS
    <2>2. now \in Plans
      BY <1>0, <1>2, <2>1 DEF Plans, ChangePlan
    <2>3. PICK named : named = (c \in Named)
      OBVIOUS
    <2>4. Write("updated", c, now, named)
      BY <1>2, <2>1, <2>3 DEF ChangePlan
    <2> QED
      BY <2>2, <2>4, WriteKeeps DEF EventTypes
  <1>3. CASE Cancel(c)
    <2>1. PICK now : now = [plan[c] EXCEPT !.active = FALSE]
      OBVIOUS
    <2>2. now \in Plans
      BY <1>0, <1>3, <2>1 DEF Plans, Cancel
    <2>3. PICK named : named = (c \in Named)
      OBVIOUS
    <2>4. Write("deleted", c, now, named)
      BY <1>3, <2>1, <2>3 DEF Cancel
    <2> QED
      BY <2>2, <2>4, WriteKeeps DEF EventTypes
  <1>4. ASSUME NEW type \in {"paid", "failed"}, Invoice(c, type)
        PROVE  WalletInv'
    <2>1. PICK now : now = plan[c]
      OBVIOUS
    <2>2. now \in Plans /\ type \in EventTypes
      BY <1>0, <1>4, <2>1 DEF Invoice, EventTypes
    <2>3. Write(type, c, now, FALSE)
      BY <1>4, <2>1 DEF Invoice
    <2> QED
      BY <2>2, <2>3, WriteKeeps
  <1> QED
    BY <1>1, <1>2, <1>3, <1>4

-----------------------------------------------------------------------------
(* The tenant an event is for is the one its customer pays for.            *)
LEMMA TenantIsOwn ==
  ASSUME StripeInv, NEW i \in DOMAIN events, NEW s, StoreOK(s), NEW t,
         t = TenantFromEvent(s, events[i]), t # NoTenant
  PROVE  /\ t \in Tenants /\ Paid(t, events[i].tier) /\ t = Owner[events[i].customer]
         /\ events[i].customer \in Subscribers /\ events[i].tier \in Tiers
         /\ events[i].id \in Ids
  <1>1. events[i] \in Written
    BY DEF StripeInv
  <1>2. t = Owner[events[i].customer]
    BY <1>1 DEF TenantFromEvent, StripeInv, StoreOK, Written
  <1> QED
    BY <1>1, <1>2 DEF Tenants, Paid, Written

(* Each handler keeps what a store holds to what was paid for.             *)
LEMMA CreatedKeeps ==
  ASSUME StripeInv, NEW i \in DOMAIN events, NEW s, StoreOK(s)
  PROVE  StoreOK(HandleSubscriptionCreated(s, events[i]))
  <1>1. PICK e, t : e = events[i] /\ t = TenantFromEvent(s, e)
    OBVIOUS
  <1>2. CASE t = NoTenant \/ e.form = "object"
    BY <1>1, <1>2 DEF HandleSubscriptionCreated
  <1>3. CASE ~(t = NoTenant \/ e.form = "object")
    <2>1. /\ t \in Tenants /\ Paid(t, e.tier) /\ t = Owner[e.customer]
          /\ e.customer \in Subscribers /\ e.tier \in Tiers /\ e.id \in Ids
      BY <1>1, <1>3, TenantIsOwn
    <2>2. PICK record : record = [id |-> e.id, tier |-> e.tier, customer |-> e.customer]
      OBVIOUS
    <2>3. record \in Records /\ record.tier = e.tier
      BY <2>1, <2>2 DEF Records, Ids
    <2>4. PICK after : after = [s EXCEPT !.pools[t] = @ \cup {e.tier}, !.subs[t] = record,
                                         !.tenantOf[e.customer] = t]
      OBVIOUS
    <2>5. HandleSubscriptionCreated(s, events[i]) = after
      BY <1>1, <1>3, <2>2, <2>4 DEF HandleSubscriptionCreated, Recording
    <2>6. s \in TypedStore
      BY DEF StoreOK
    <2>7. /\ after.pools = [s.pools EXCEPT ![t] = @ \cup {e.tier}]
          /\ after.subs = [s.subs EXCEPT ![t] = record]
          /\ after.tenantOf = [s.tenantOf EXCEPT ![e.customer] = t]
          /\ after = [pools |-> after.pools, tenantOf |-> after.tenantOf, subs |-> after.subs,
                      grace |-> s.grace]
      BY <2>4, <2>6 DEF TypedStore
    <2>8. after.pools \in [Tenants -> SUBSET Tiers]
          /\ \A u \in Tenants : \A tier \in after.pools[u] : Paid(u, tier)
      BY <2>1, <2>6, <2>7 DEF TypedStore, StoreOK
    <2>9. after.subs \in [Tenants -> Records]
          /\ \A u \in Tenants : after.subs[u] # NoSub => Paid(u, after.subs[u].tier)
      BY <2>1, <2>3, <2>6, <2>7 DEF TypedStore, StoreOK
    <2>10. after.tenantOf \in [Subscribers -> Tenants \cup {NoTenant}]
           /\ \A c \in Subscribers : after.tenantOf[c] \in {NoTenant, Owner[c]}
      BY <2>1, <2>6, <2>7 DEF TypedStore, StoreOK
    <2>11. after \in TypedStore
      BY <2>6, <2>7, <2>8, <2>9, <2>10 DEF TypedStore
    <2> QED
      BY <2>5, <2>8, <2>9, <2>10, <2>11 DEF StoreOK
  <1> QED
    BY <1>2, <1>3

LEMMA UpdatedAndDeletedKeep ==
  ASSUME StripeInv, NEW i \in DOMAIN events, NEW s, StoreOK(s)
  PROVE  /\ StoreOK(HandleSubscriptionUpdated(s, events[i]))
         /\ StoreOK(HandleSubscriptionDeleted(s, events[i]))
  <1>1. PICK e, t : e = events[i] /\ t = TenantFromEvent(s, e)
    OBVIOUS
  <1>2. CASE t = NoTenant
    BY <1>1, <1>2 DEF HandleSubscriptionUpdated, HandleSubscriptionDeleted
  <1>3. CASE t # NoTenant
    <2>1. t \in Tenants /\ Paid(t, e.tier) /\ e.tier \in Tiers
      BY <1>1, <1>3, TenantIsOwn
    <2>2. s \in TypedStore
      BY DEF StoreOK
    <2>3. ASSUME NEW tiers, tiers = {} \/ tiers = {e.tier}
          PROVE  StoreOK([s EXCEPT !.pools[t] = tiers])
      <3>1. PICK after : after = [s EXCEPT !.pools[t] = tiers]
        OBVIOUS
      <3>2. /\ after.pools = [s.pools EXCEPT ![t] = tiers]
            /\ after = [pools |-> after.pools, tenantOf |-> s.tenantOf, subs |-> s.subs,
                        grace |-> s.grace]
            /\ after.subs = s.subs /\ after.tenantOf = s.tenantOf
        BY <2>2, <3>1 DEF TypedStore
      <3>3. /\ after.pools \in [Tenants -> SUBSET Tiers]
            /\ \A u \in Tenants : \A tier \in after.pools[u] : Paid(u, tier)
        BY <2>1, <2>2, <2>3, <3>2 DEF TypedStore, StoreOK
      <3>4. after \in TypedStore
        BY <2>2, <3>2, <3>3 DEF TypedStore
      <3>5. StoreOK(after)
        BY <3>2, <3>3, <3>4 DEF StoreOK
      <3> QED
        BY <3>1, <3>5
    <2>4. /\ HandleSubscriptionUpdated(s, events[i]) = [s EXCEPT !.pools[t] = {e.tier}]
          /\ HandleSubscriptionDeleted(s, events[i]) = [s EXCEPT !.pools[t] = {}]
      BY <1>1, <1>3 DEF HandleSubscriptionUpdated, HandleSubscriptionDeleted
    <2> QED
      BY <2>3, <2>4
  <1> QED
    BY <1>2, <1>3

LEMMA PaymentKeeps ==
  ASSUME StripeInv, NEW i \in DOMAIN events, NEW s, StoreOK(s)
  PROVE  StoreOK(HandleInvoicePaymentSucceeded(s, events[i]))
  <1>1. PICK found : found = {t \in TenantsOfInvoice(s, events[i]) : s.subs[t] # NoSub}
    OBVIOUS
  <1>2. PICK P : P = [t \in Tenants |-> IF t \in found THEN s.pools[t] \cup {s.subs[t].tier}
                                        ELSE s.pools[t]]
    OBVIOUS
  <1>3. PICK G : G = s.grace \ found
    OBVIOUS
  <1>4. PICK after : after = [s EXCEPT !.pools = P, !.grace = G]
    OBVIOUS
  <1>5. HandleInvoicePaymentSucceeded(s, events[i]) = after
    BY <1>1, <1>2, <1>3, <1>4 DEF HandleInvoicePaymentSucceeded
  <1>6. s \in TypedStore
    BY DEF StoreOK
  <1>7. after = [pools |-> P, tenantOf |-> s.tenantOf, subs |-> s.subs, grace |-> G]
    BY <1>4, <1>6 DEF TypedStore
  <1>8. ASSUME NEW t \in Tenants
        PROVE  P[t] \subseteq Tiers /\ \A tier \in P[t] : Paid(t, tier)
    <2>1. s.pools[t] \subseteq Tiers /\ \A tier \in s.pools[t] : Paid(t, tier)
      BY <1>6 DEF StoreOK, TypedStore
    <2>2. s.subs[t] # NoSub => s.subs[t].tier \in Tiers /\ Paid(t, s.subs[t].tier)
      BY <1>6 DEF StoreOK, TypedStore, Records
    <2>3. t \in found => s.subs[t] # NoSub
      BY <1>1
    <2> QED
      BY <1>2, <2>1, <2>2, <2>3
  <1>9. P \in [Tenants -> SUBSET Tiers]
    BY <1>2, <1>8
  <1>10. G \in SUBSET Tenants
    BY <1>3, <1>6 DEF TypedStore
  <1>11. after \in TypedStore
    BY <1>6, <1>7, <1>9, <1>10 DEF TypedStore
  <1>12. StoreOK(after)
    BY <1>7, <1>8, <1>11 DEF StoreOK
  <1> QED
    BY <1>5, <1>12

LEMMA FailureKeeps ==
  ASSUME StripeInv, NEW i \in DOMAIN events, NEW s, StoreOK(s)
  PROVE  StoreOK(HandleInvoicePaymentFailed(s, events[i]))
  <1>1. PICK t : t = TenantFromEvent(s, events[i])
    OBVIOUS
  <1>2. CASE t = NoTenant
    BY <1>1, <1>2 DEF HandleInvoicePaymentFailed
  <1>3. CASE t # NoTenant
    <2>1. t \in Tenants /\ s \in TypedStore
      BY <1>1, <1>3, TenantIsOwn DEF StoreOK
    <2>2. PICK after : after = [s EXCEPT !.grace = @ \cup {t}]
      OBVIOUS
    <2>3. after = [pools |-> s.pools, tenantOf |-> s.tenantOf, subs |-> s.subs,
                   grace |-> s.grace \cup {t}]
      BY <2>1, <2>2 DEF TypedStore
    <2>4. after \in TypedStore
      BY <2>1, <2>3 DEF TypedStore
    <2>5. StoreOK(after)
      BY <2>3, <2>4 DEF StoreOK
    <2>6. HandleInvoicePaymentFailed(s, events[i]) = after
      BY <1>1, <1>3, <2>2 DEF HandleInvoicePaymentFailed
    <2> QED
      BY <2>5, <2>6
  <1> QED
    BY <1>2, <1>3

LEMMA HandledKeeps ==
  ASSUME StripeInv, NEW i \in DOMAIN events, NEW s, StoreOK(s)
  PROVE  StoreOK(Handled(s, events[i]))
  <1>1. events[i].type \in EventTypes
    <2>1. events[i] \in Written
      BY DEF StripeInv
    <2> QED
      BY <2>1 DEF Written
  <1>2. \/ Handled(s, events[i]) = HandleSubscriptionCreated(s, events[i])
        \/ Handled(s, events[i]) = HandleSubscriptionUpdated(s, events[i])
        \/ Handled(s, events[i]) = HandleSubscriptionDeleted(s, events[i])
        \/ Handled(s, events[i]) = HandleInvoicePaymentSucceeded(s, events[i])
        \/ Handled(s, events[i]) = HandleInvoicePaymentFailed(s, events[i])
    BY <1>1 DEF Handled, EventTypes
  <1> QED
    BY <1>2, CreatedKeeps, UpdatedAndDeletedKeep, PaymentKeeps, FailureKeeps

-----------------------------------------------------------------------------
LEMMA NewStoreOK == StoreOK(NewStore)
  <1>1. NewStore \in TypedStore
    BY DEF NewStore, TypedStore, Records
  <1> QED
    BY <1>1 DEF NewStore, StoreOK

LEMMA WalletStart == WalletInit => WalletInv
  <1> SUFFICES ASSUME WalletInit PROVE WalletInv
    OBVIOUS
  <1>1. StripeInv
    BY WalletBounds DEF WalletInit, StripeInv, Written
  <1>2. NewStore \in TypedStore
    BY NewStoreOK DEF StoreOK
  <1>3. StoresOK
    BY <1>2, NewStoreOK DEF WalletInit, StoresOK
  <1> QED
    BY <1>1, <1>3 DEF WalletInv

(* One worker's store becomes another that holds only what was paid for.   *)
LEMMA StoreStep ==
  ASSUME WalletInv, NEW r \in Routers, NEW after, StoreOK(after),
         store' = [store EXCEPT ![r] = after] \/ store' = store, UNCHANGED stripeVars
  PROVE  WalletInv'
  <1>1. StripeInv'
    BY DEF WalletInv, StripeInv, stripeVars
  <1>2. \A t, tier : Paid(t, tier) => Paid(t, tier)'
    BY DEF Paid, stripeVars
  <1>3. ASSUME NEW q \in Routers PROVE StoreOK(store[q])'
    <2>1. PICK s : s = store'[q]
      OBVIOUS
    <2>2. s = after \/ s = store[q]
      BY <2>1 DEF WalletInv, StoresOK
    <2>3. StoreOK(s)
      BY <2>2 DEF WalletInv, StoresOK
    <2>4. StoreOK(s)'
      BY <1>2, <2>3, StoreStays
    <2> QED
      BY <2>1, <2>4 DEF StoreOK
  <1>4. after \in TypedStore
    BY DEF StoreOK
  <1>5. store' \in [Routers -> TypedStore]
    BY <1>4 DEF WalletInv, StoresOK
  <1> QED
    BY <1>1, <1>3, <1>5 DEF WalletInv, StoresOK

LEMMA WalletStep == WalletInv /\ [WalletNext]_walletVars => WalletInv'
  <1> SUFFICES ASSUME WalletInv, [WalletNext]_walletVars PROVE WalletInv'
    OBVIOUS
  <1>1. ASSUME NEW r \in Routers, NEW i \in DOMAIN events, RouteEvent(r, i)
        PROVE  WalletInv'
    <2>1. PICK s, after : s = store[r] /\ after = Handled(s, events[i])
      OBVIOUS
    <2>2. StoreOK(after)
      BY <2>1, HandledKeeps DEF WalletInv, StoresOK
    <2>3. (store' = [store EXCEPT ![r] = after] \/ store' = store) /\ UNCHANGED stripeVars
      BY <1>1, <2>1 DEF RouteEvent
    <2> QED
      BY <2>2, <2>3, StoreStep
  <1>2. ASSUME NEW r \in Routers, Restart(r)
        PROVE  WalletInv'
    <2>1. PICK after : after = NewStore
      OBVIOUS
    <2>2. StoreOK(after) /\ store' = [store EXCEPT ![r] = after] /\ UNCHANGED stripeVars
      BY <1>2, <2>1, NewStoreOK DEF Restart
    <2> QED
      BY <2>2, StoreStep
  <1>3. CASE UNCHANGED walletVars
    <2>1. UNCHANGED <<plan, events, store>>
      BY <1>3 DEF walletVars, stripeVars
    <2> QED
      BY <2>1 DEF WalletInv, StripeInv, StoresOK, StoreOK, Paid
  <1> QED
    BY <1>1, <1>2, <1>3, StripeKeeps DEF WalletNext

LEMMA WalletInvGives == WalletInv => PoolsWerePaidFor /\ WalletTypeOK
  <1>1. WalletInv => PoolsWerePaidFor
    BY DEF WalletInv, StoresOK, StoreOK, PoolsWerePaidFor, RecordedTiers, Paid
  <1>2. ASSUME WalletInv PROVE WalletTypeOK
    <2>1. store \in [Routers -> TypedStore]
      BY <1>2 DEF WalletInv, StoresOK, StoreOK
    <2> QED
      BY <2>1 DEF WalletTypeOK, TypedStore
  <1> QED
    BY <1>1, <1>2

(* webhook_router_v2.py: in whatever order events come, however often and  *)
(* to whichever worker, and whatever workers restart, a tenant's pools and *)
(* record hold only tiers its own customer subscribed to, and a customer   *)
(* is mapped to the tenant it pays for, or to none.                        *)
THEOREM OnlyOwnPayment == WalletSpec => []PoolsWerePaidFor
  BY WalletInvGives, WalletStart, WalletStep, PTL DEF WalletSpec

(* The stores keep their types.                                            *)
THEOREM StoresKeepTheirTypes == WalletSpec => []WalletTypeOK
  BY WalletInvGives, WalletStart, WalletStep, PTL DEF WalletSpec

-----------------------------------------------------------------------------
(* KoreApi: each scene is a behaviour of its part.                         *)
LEMMA ScenesStep == [KoreNext]_koreVars => [LedgerNext]_ledgerVars /\ [WalletNext]_walletVars
  BY DEF KoreNext, koreVars

(* The composition the run checks, in which each part is a scene.          *)
THEOREM TheBooksAreRight ==
  KoreSpec => [](BalanceIsHistory /\ CreditsWereGranted /\ LedgerIsComplete /\ PoolsWerePaidFor)
  <1>1. KoreInit => LedgerInv /\ MoneyInv /\ WalletInv
    BY LedgerStart, MoneyStart, WalletStart DEF KoreInit
  <1>2. LedgerInv /\ MoneyInv /\ WalletInv /\ [KoreNext]_koreVars => (LedgerInv /\ MoneyInv /\ WalletInv)'
    BY ScenesStep, LedgerStep, MoneyStep, WalletStep
  <1> QED
    BY <1>1, <1>2, LedgerGives, MoneyGives, WalletInvGives, PTL DEF KoreSpec
=============================================================================
