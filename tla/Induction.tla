------------------------------- MODULE Induction -------------------------------
(***************************************************************************)
(* Induction over the natural numbers as a fact about sets.  The library's *)
(* theorem takes the proposition as an operator; here it is the set of the *)
(* numbers that have it, which a proof names by a DEFINE.  And what a      *)
(* queue of messages leads to, one handled after the other.                *)
(***************************************************************************)
EXTENDS Integers, FiniteSetTheorems, SequenceTheorems, WellFoundedInduction, TLAPS

(* A set that holds 0 and with each of its numbers the next holds all of   *)
(* them: of those it did not hold there would be a least one.              *)
LEMMA NatsIn ==
  ASSUME NEW S, 0 \in S, \A n \in Nat : n \in S => n + 1 \in S
  PROVE  Nat \subseteq S
  <1> DEFINE T == Nat \ S
  <1> SUFFICES ASSUME T # {} PROVE FALSE
    OBVIOUS
  <1>1. PICK b \in T : \A c \in T : ~(<<c, b>> \in OpToRel(<, Nat))
    BY NatLessThanWellFounded, WFMin
  <1>2. b \in Nat /\ b # 0 /\ b \notin S
    BY <1>1
  <1>3. b - 1 \in Nat /\ <<b - 1, b>> \in OpToRel(<, Nat)
    BY <1>2 DEF OpToRel
  <1>4. b - 1 \in Nat /\ (b - 1) + 1 = b
    BY <1>2
  <1>5. PICK a \in Nat : a = b - 1 /\ a + 1 = b
    BY <1>4
  <1>6. a \in S
    BY <1>1, <1>3, <1>5
  <1>7. a + 1 \in S
    BY <1>6
  <1> QED
    BY <1>2, <1>5, <1>7

(* Of the numbers that have a property there is a least one.               *)
LEMMA FirstOf ==
  ASSUME NEW S \in SUBSET Nat, S # {}
  PROVE  \E i \in S : \A j \in S : i <= j
  <1>1. PICK i \in S : \A j \in S : ~(<<j, i>> \in OpToRel(<, Nat))
    BY NatLessThanWellFounded, WFMin
  <1>2. ASSUME NEW j \in S
        PROVE  i <= j
    <2>1. j \in Nat /\ i \in Nat
      OBVIOUS
    <2>2. j < i => <<j, i>> \in OpToRel(<, Nat)
      BY <2>1 DEF OpToRel
    <2>3. ~(j < i)
      BY <1>1, <2>2
    <2> QED
      BY <2>1, <2>3
  <1> QED
    BY <1>2

(* A sequence of elements of T.                                            *)
LEMMA SeqInto ==
  ASSUME NEW T, NEW U, NEW s \in Seq(U), \A i \in 1 .. Len(s) : s[i] \in T
  PROVE  s \in Seq(T)
  OBVIOUS

-----------------------------------------------------------------------------
(* The subsets of D with at most k elements: an induction over k is one    *)
(* over the finite subsets of D.                                           *)
Smaller(D, k) == {s \in SUBSET D : Cardinality(s) <= k}

(* An element less.                                                        *)
LEMMA SmallerWithout ==
  ASSUME NEW D, IsFiniteSet(D), NEW k \in Nat, NEW s \in Smaller(D, k + 1), NEW x \in s
  PROVE  s \ {x} \in Smaller(D, k) /\ s \ {x} \in Smaller(D, k + 1)
  <1>1. s \in SUBSET D /\ IsFiniteSet(s) /\ Cardinality(s) <= k + 1 /\ Cardinality(s) \in Nat
    BY FS_Subset, FS_CardinalityType DEF Smaller
  <1>2. Cardinality(s \ {x}) = Cardinality(s) - 1
    BY <1>1, FS_RemoveElement
  <1> QED
    BY <1>1, <1>2 DEF Smaller

(* Whatever is left out, the bound stays.                                  *)
LEMMA SmallerStill ==
  ASSUME NEW D, IsFiniteSet(D), NEW k \in Nat, NEW s \in Smaller(D, k), NEW x
  PROVE  s \ {x} \in Smaller(D, k)
  <1>1. s \in SUBSET D /\ IsFiniteSet(s) /\ Cardinality(s) <= k /\ Cardinality(s) \in Nat
    BY FS_Subset, FS_CardinalityType DEF Smaller
  <1>2. Cardinality(s \ {x}) \in {Cardinality(s) - 1, Cardinality(s)}
    BY <1>1, FS_RemoveElement
  <1> QED
    BY <1>1, <1>2 DEF Smaller

(* With no element there is the empty set.                                 *)
LEMMA SmallerZero ==
  ASSUME NEW D, IsFiniteSet(D), NEW s \in Smaller(D, 0)
  PROVE  s = {}
  <1>1. IsFiniteSet(s) /\ Cardinality(s) <= 0 /\ Cardinality(s) \in Nat
    BY FS_Subset, FS_CardinalityType DEF Smaller
  <1> QED
    BY <1>1, FS_EmptySet

(* With as many as D has there are all its subsets.                        *)
LEMMA SmallerAll ==
  ASSUME NEW D, IsFiniteSet(D)
  PROVE  Cardinality(D) \in Nat /\ Smaller(D, Cardinality(D)) = SUBSET D
  BY FS_Subset, FS_CardinalityType DEF Smaller

-----------------------------------------------------------------------------
(* What a queue leads to: its messages q, handled one by one, take the     *)
(* state p to the state r, by the states of h.  A handler is the function  *)
(* F of the state and the message.                                         *)
Path(F, h, p, q, r) ==
  /\ h[0] = p /\ h[Len(q)] = r
  /\ \A i \in 1 .. Len(q) : h[i] = F[<<h[i - 1], q[i]>>]

Leads(F, p, q, r) == \E h : Path(F, h, p, q, r)

(* Nothing is to come of an empty queue.                                   *)
LEMMA NothingLeads == ASSUME NEW F, NEW p PROVE Leads(F, p, <<>>, p)
  <1> DEFINE h == [i \in {0} |-> p]
  <1>1. h[0] = p /\ Len(<<>>) = 0 /\ 1 .. 0 = {}
    OBVIOUS
  <1>2. Path(F, h, p, <<>>, p)
    BY <1>1 DEF Path
  <1> QED
    BY <1>2 DEF Leads

LEMMA NothingStays == ASSUME NEW F, NEW p, NEW r, Leads(F, p, <<>>, r) PROVE r = p
  BY DEF Leads, Path

(* A message more at the end.                                              *)
LEMMA LeadsOn ==
  ASSUME NEW F, NEW M, NEW p, NEW q \in Seq(M), NEW r, Leads(F, p, q, r), NEW m \in M
  PROVE  Leads(F, p, Append(q, m), F[<<r, m>>]) /\ Append(q, m) \in Seq(M)
  <1>1. PICK h : Path(F, h, p, q, r)
    BY DEF Leads
  <1>2. PICK n \in Nat : n = Len(q)
    OBVIOUS
  <1>3. PICK a : a = F[<<r, m>>]
    OBVIOUS
  <1>4. PICK k : k = [i \in 0 .. n + 1 |-> IF i = n + 1 THEN a ELSE h[i]]
    OBVIOUS
  <1>5. PICK s : s = Append(q, m) /\ s \in Seq(M)
    BY AppendProperties
  <1>6. Len(s) = n + 1 /\ s[n + 1] = m /\ \A i \in 1 .. n : s[i] = q[i]
    BY <1>2, <1>5, AppendProperties
  <1>7. h[0] = p /\ h[n] = r /\ \A i \in 1 .. n : h[i] = F[<<h[i - 1], q[i]>>]
    BY <1>1, <1>2 DEF Path
  <1>8. k[0] = p /\ k[n + 1] = a /\ k[n] = r
    BY <1>2, <1>4, <1>7
  <1>9. ASSUME NEW i \in 1 .. n + 1
        PROVE  k[i] = F[<<k[i - 1], s[i]>>]
    <2>1. CASE i = n + 1
      <3>1. i - 1 = n
        BY <1>2, <2>1
      <3> QED
        BY <1>3, <1>6, <1>8, <2>1, <3>1
    <2>2. CASE i # n + 1
      <3>1. i \in 1 .. n /\ i - 1 \in 0 .. n + 1 /\ i - 1 # n + 1 /\ i \in 0 .. n + 1
        BY <1>2, <2>2
      <3>2. k[i] = h[i] /\ k[i - 1] = h[i - 1] /\ s[i] = q[i]
        BY <1>4, <1>6, <2>2, <3>1
      <3> QED
        BY <1>7, <3>1, <3>2
    <2> QED
      BY <2>1, <2>2
  <1>10. Path(F, k, p, s, a)
    BY <1>6, <1>8, <1>9 DEF Path
  <1> QED
    BY <1>3, <1>5, <1>10 DEF Leads

(* Messages that come together come one after the other.                   *)
LEMMA OneAfterTheOther ==
  ASSUME NEW M, NEW q \in Seq(M), NEW m1 \in M, NEW m2 \in M
  PROVE  /\ q \o <<>> = q /\ q \o <<m1>> = Append(q, m1)
         /\ q \o <<m1, m2>> = Append(Append(q, m1), m2)
  <1>1. q \o <<>> = q /\ q \o <<m1>> = Append(q, m1)
    BY ConcatEmptySeq, AppendIsConcat
  <1>2. <<m1, m2>> = <<m1>> \o <<m2>>
    <2>1. <<m1>> \in Seq(M) /\ <<m1, m2>> = Append(<<m1>>, m2)
      OBVIOUS
    <2> QED
      BY <2>1, AppendIsConcat
  <1>3. <<m1>> \in Seq(M) /\ <<m2>> \in Seq(M) /\ Append(q, m1) \in Seq(M)
    OBVIOUS
  <1>4. q \o (<<m1>> \o <<m2>>) = (q \o <<m1>>) \o <<m2>>
    BY <1>3, ConcatAssociative
  <1>5. Append(q, m1) \o <<m2>> = Append(Append(q, m1), m2)
    BY <1>3, AppendIsConcat
  <1> QED
    BY <1>1, <1>2, <1>4, <1>5

LEMMA FourParts ==
  ASSUME NEW M
  PROVE  \A s, u, v, w \in Seq(M) : s \o ((u \o v) \o w) = ((s \o u) \o v) \o w
  <1>1. \A a, b, c \in Seq(M) : a \o (b \o c) = (a \o b) \o c
    BY ConcatAssociative
  <1>2. \A a, b \in Seq(M) : a \o b \in Seq(M)
    BY ConcatProperties
  <1> QED
    BY <1>1, <1>2

LEMMA LeadsOnTwice ==
  ASSUME NEW F, NEW M, NEW p, NEW q \in Seq(M), NEW r, Leads(F, p, q, r), NEW m1 \in M, NEW m2 \in M
  PROVE  /\ q \o <<m1, m2>> \in Seq(M)
         /\ Leads(F, p, q \o <<m1, m2>>, F[<<F[<<r, m1>>], m2>>])
  <1>1. Append(q, m1) \in Seq(M) /\ Leads(F, p, Append(q, m1), F[<<r, m1>>])
    BY LeadsOn
  <1>2. PICK s, x : s \in Seq(M) /\ s = Append(q, m1) /\ x = F[<<r, m1>>] /\ Leads(F, p, s, x)
    BY <1>1
  <1>3. Append(s, m2) \in Seq(M) /\ Leads(F, p, Append(s, m2), F[<<x, m2>>])
    BY <1>2, LeadsOn
  <1>4. q \o <<m1, m2>> = Append(s, m2)
    BY <1>2, OneAfterTheOther
  <1> QED
    BY <1>2, <1>3, <1>4

(* The first message handled.                                              *)
LEMMA LeadsFrom ==
  ASSUME NEW F, NEW M, NEW p, NEW q \in Seq(M), q # <<>>, NEW r, Leads(F, p, q, r)
  PROVE  /\ Head(q) \in M /\ Tail(q) \in Seq(M)
         /\ Leads(F, F[<<p, Head(q)>>], Tail(q), r)
  <1>1. PICK h : Path(F, h, p, q, r)
    BY DEF Leads
  <1>2. PICK n \in Nat : n + 1 = Len(q)
    <2>1. Len(q) \in Nat /\ Len(q) # 0
      BY EmptySeq
    <2>2. Len(q) - 1 \in Nat /\ (Len(q) - 1) + 1 = Len(q)
      BY <2>1
    <2> QED
      BY <2>2
  <1>3. PICK t : t = Tail(q)
    OBVIOUS
  <1>4. /\ Head(q) \in M /\ t \in Seq(M) /\ Len(t) = n /\ Head(q) = q[1]
        /\ \A i \in 1 .. n : t[i] = q[i + 1]
    BY <1>2, <1>3, HeadTailProperties
  <1>5. h[0] = p /\ h[n + 1] = r /\ \A i \in 1 .. n + 1 : h[i] = F[<<h[i - 1], q[i]>>]
    BY <1>1, <1>2 DEF Path
  <1>6. PICK k : k = [i \in 0 .. n |-> h[i + 1]]
    OBVIOUS
  <1>7. k[n] = r /\ k[0] = h[1]
    BY <1>2, <1>5, <1>6
  <1>8. h[1] = F[<<p, Head(q)>>]
    <2>1. 1 \in 1 .. n + 1 /\ 1 - 1 = 0
      BY <1>2
    <2> QED
      BY <1>4, <1>5, <2>1
  <1>9. ASSUME NEW i \in 1 .. n
        PROVE  k[i] = F[<<k[i - 1], t[i]>>]
    <2>1. /\ i \in 0 .. n /\ i - 1 \in 0 .. n /\ (i - 1) + 1 = i /\ i + 1 \in 1 .. n + 1
          /\ (i + 1) - 1 = i
      BY <1>2
    <2>2. k[i] = h[i + 1] /\ k[i - 1] = h[i]
      BY <1>6, <2>1
    <2>3. h[i + 1] = F[<<h[i], q[i + 1]>>]
      BY <1>5, <2>1
    <2> QED
      BY <1>4, <2>2, <2>3
  <1>10. Path(F, k, F[<<p, Head(q)>>], t, r)
    BY <1>4, <1>7, <1>8, <1>9 DEF Path
  <1> QED
    BY <1>3, <1>4, <1>10 DEF Leads

(* A queue leads somewhere, and nowhere out of a set of states that none   *)
(* of its messages leaves.                                                 *)
LEMMA LeadsWithin ==
  ASSUME NEW F, NEW M, NEW S, \A s \in S, m \in M : F[<<s, m>>] \in S,
         NEW p \in S, NEW q \in Seq(M)
  PROVE  \E r \in S : Leads(F, p, q, r)
  <1> DEFINE Good == {n \in Nat : \A s \in Seq(M) : Len(s) = n => \E r \in S : Leads(F, p, s, r)}
  <1>1. 0 \in Good
    BY NothingLeads, EmptySeq
  <1>2. ASSUME NEW n \in Nat, n \in Good
        PROVE  n + 1 \in Good
    <2> SUFFICES ASSUME NEW s \in Seq(M), Len(s) = n + 1
                 PROVE  \E r \in S : Leads(F, p, s, r)
      OBVIOUS
    <2>1. PICK t : t = SubSeq(s, 1, n)
      OBVIOUS
    <2>2. n + 1 \in 1 .. Len(s) /\ s # <<>>
      BY EmptySeq
    <2>3. PICK m \in M : m = s[n + 1]
      BY <2>2
    <2>4. t \in Seq(M) /\ Len(t) = n /\ s = Append(t, m)
      <3>1. /\ t \in Seq(M) /\ Len(t) = n /\ \A i \in 1 .. n : t[i] = s[i]
        BY <2>1, <2>2, SubSeqProperties
      <3>2. Append(t, m) \in Seq(M) /\ Len(Append(t, m)) = n + 1
        BY <3>1, AppendProperties
      <3>3. \A i \in 1 .. n + 1 : Append(t, m)[i] = s[i]
        BY <2>3, <3>1, AppendProperties
      <3> QED
        BY <3>1, <3>2, <3>3, SeqEqual
    <2>5. PICK r \in S : Leads(F, p, t, r)
      BY <1>2, <2>4
    <2>6. Leads(F, p, s, F[<<r, m>>]) /\ F[<<r, m>>] \in S
      BY <2>4, <2>5, LeadsOn
    <2> QED
      BY <2>6
  <1> HIDE DEF Good
  <1>3. Nat \subseteq Good
    BY <1>1, <1>2, NatsIn
  <1> USE DEF Good
  <1>4. Len(q) \in Nat /\ Len(q) \in Good
    BY <1>3
  <1> QED
    BY <1>4

-----------------------------------------------------------------------------
(* The messages of a queue that belong to a set L: there is none, the last *)
(* of them is in G, or there is one and it is in G.                        *)
Free(q, L) == \A i \in DOMAIN q : q[i] \notin L

EndsIn(q, L, G) ==
  \A i \in DOMAIN q :
    q[i] \in L /\ (\A j \in DOMAIN q : i < j => q[j] \notin L) => q[i] \in G

HasOne(q, L, G) ==
  \E i \in DOMAIN q : q[i] \in L /\ q[i] \in G /\ \A j \in DOMAIN q : j # i => q[j] \notin L

LEMMA NoMessages == ASSUME NEW L, NEW G PROVE Free(<<>>, L) /\ EndsIn(<<>>, L, G)
  BY DEF Free, EndsIn

LEMMA FreeEnds == ASSUME NEW q, NEW L, NEW G, Free(q, L) PROVE EndsIn(q, L, G)
  BY DEF Free, EndsIn

LEMMA EndsInMore ==
  ASSUME NEW q, NEW L, NEW G, NEW H, EndsIn(q, L, G), G \cap L \subseteq H
  PROVE  EndsIn(q, L, H)
  BY DEF EndsIn

(* A message joins the queue.                                              *)
LEMMA OneMoreIs ==
  ASSUME NEW M, NEW q \in Seq(M), NEW x \in M
  PROVE  /\ Append(q, x) \in Seq(M) /\ DOMAIN q = 1 .. Len(q) /\ Len(q) \in Nat
         /\ DOMAIN Append(q, x) = 1 .. Len(q) + 1
         /\ Append(q, x)[Len(q) + 1] = x /\ \A i \in 1 .. Len(q) : Append(q, x)[i] = q[i]
  BY AppendProperties

LEMMA JoinsFree ==
  ASSUME NEW M, NEW q \in Seq(M), NEW x \in M, NEW L
  PROVE  Free(Append(q, x), L) <=> Free(q, L) /\ x \notin L
  <1>1. PICK s : s = Append(q, x)
    OBVIOUS
  <1>2. PICK n \in Nat : n = Len(q)
    OBVIOUS
  <1>3. DOMAIN q = 1 .. n /\ DOMAIN s = 1 .. n + 1 /\ s[n + 1] = x /\ \A i \in 1 .. n : s[i] = q[i]
    BY <1>1, <1>2, OneMoreIs
  <1>4. n + 1 \in 1 .. n + 1 /\ \A i \in 1 .. n + 1 : i = n + 1 \/ i \in 1 .. n
    OBVIOUS
  <1> QED
    BY <1>1, <1>3, <1>4 DEF Free

LEMMA JoinsEnd ==
  ASSUME NEW M, NEW q \in Seq(M), NEW x \in M, NEW L, NEW G,
         x \in L => x \in G, x \notin L => EndsIn(q, L, G)
  PROVE  EndsIn(Append(q, x), L, G)
  <1>1. PICK s : s = Append(q, x)
    OBVIOUS
  <1>2. PICK n \in Nat : n = Len(q)
    OBVIOUS
  <1>3. DOMAIN q = 1 .. n /\ DOMAIN s = 1 .. n + 1 /\ s[n + 1] = x /\ \A i \in 1 .. n : s[i] = q[i]
    BY <1>1, <1>2, OneMoreIs
  <1>4. /\ n + 1 \in 1 .. n + 1
        /\ \A i \in 1 .. n + 1 : i = n + 1 \/ (i \in 1 .. n /\ i < n + 1)
        /\ \A i \in 1 .. n : i \in 1 .. n + 1
    OBVIOUS
  <1>5. ASSUME NEW i \in 1 .. n + 1, s[i] \in L, \A j \in 1 .. n + 1 : i < j => s[j] \notin L
        PROVE  s[i] \in G
    <2>1. CASE i = n + 1
      BY <1>3, <1>5, <2>1
    <2>2. CASE i # n + 1
      <3>1. i \in 1 .. n /\ i < n + 1
        BY <1>4, <2>2
      <3>2. x \notin L
        BY <1>3, <1>4, <1>5, <3>1
      <3>3. \A j \in 1 .. n : i < j => q[j] \notin L
        BY <1>3, <1>4, <1>5
      <3> QED
        BY <1>3, <1>5, <3>1, <3>2, <3>3 DEF EndsIn
    <2> QED
      BY <2>1, <2>2
  <1> QED
    BY <1>1, <1>3, <1>5 DEF EndsIn

LEMMA JoinsOne ==
  ASSUME NEW M, NEW q \in Seq(M), NEW x \in M, NEW L, NEW G,
         \/ x \notin L /\ HasOne(q, L, G)
         \/ x \in L /\ x \in G /\ Free(q, L)
  PROVE  HasOne(Append(q, x), L, G)
  <1>1. PICK s : s = Append(q, x)
    OBVIOUS
  <1>2. PICK n \in Nat : n = Len(q)
    OBVIOUS
  <1>3. DOMAIN q = 1 .. n /\ DOMAIN s = 1 .. n + 1 /\ s[n + 1] = x /\ \A i \in 1 .. n : s[i] = q[i]
    BY <1>1, <1>2, OneMoreIs
  <1>4. /\ n + 1 \in 1 .. n + 1
        /\ \A i \in 1 .. n + 1 : i = n + 1 \/ (i \in 1 .. n /\ i # n + 1)
        /\ \A i \in 1 .. n : i \in 1 .. n + 1
    OBVIOUS
  <1>5. CASE x \notin L /\ HasOne(q, L, G)
    <2>1. PICK i \in 1 .. n : q[i] \in L /\ q[i] \in G /\ \A j \in 1 .. n : j # i => q[j] \notin L
      BY <1>3, <1>5 DEF HasOne
    <2>2. s[i] \in L /\ s[i] \in G /\ \A j \in 1 .. n + 1 : j # i => s[j] \notin L
      BY <1>3, <1>4, <1>5, <2>1
    <2> QED
      BY <1>1, <1>3, <1>4, <2>2 DEF HasOne
  <1>6. CASE x \in L /\ x \in G /\ Free(q, L)
    <2>1. \A j \in 1 .. n + 1 : j # n + 1 => s[j] \notin L
      BY <1>3, <1>4, <1>6 DEF Free
    <2> QED
      BY <1>1, <1>3, <1>4, <1>6, <2>1 DEF HasOne
  <1> QED
    BY <1>5, <1>6

(* The first message leaves it.                                            *)
LEMMA FirstLessIs ==
  ASSUME NEW M, NEW q \in Seq(M), q # <<>>
  PROVE  \E n \in Nat :
           /\ Head(q) \in M /\ Tail(q) \in Seq(M) /\ DOMAIN q = 1 .. n + 1 /\ DOMAIN Tail(q) = 1 .. n
           /\ Head(q) = q[1] /\ \A i \in 1 .. n : Tail(q)[i] = q[i + 1]
  <1>1. PICK n \in Nat : n + 1 = Len(q)
    <2>1. Len(q) \in Nat /\ Len(q) # 0
      BY EmptySeq
    <2>2. Len(q) - 1 \in Nat /\ (Len(q) - 1) + 1 = Len(q)
      BY <2>1
    <2> QED
      BY <2>2
  <1>2. /\ Head(q) \in M /\ Tail(q) \in Seq(M) /\ Len(Tail(q)) = n /\ Head(q) = q[1]
        /\ \A i \in 1 .. n : Tail(q)[i] = q[i + 1]
    BY <1>1, HeadTailProperties
  <1>3. DOMAIN q = 1 .. n + 1 /\ DOMAIN Tail(q) = 1 .. n
    BY <1>1, <1>2
  <1> QED
    BY <1>2, <1>3

LEMMA LeavesFree ==
  ASSUME NEW M, NEW q \in Seq(M), q # <<>>, NEW L
  PROVE  Free(q, L) <=> Free(Tail(q), L) /\ Head(q) \notin L
  <1>1. PICK h, t : h = Head(q) /\ t = Tail(q)
    OBVIOUS
  <1>2. PICK n \in Nat : /\ DOMAIN q = 1 .. n + 1 /\ DOMAIN t = 1 .. n
                         /\ h = q[1] /\ \A i \in 1 .. n : t[i] = q[i + 1]
    BY <1>1, FirstLessIs
  <1>3. /\ 1 \in 1 .. n + 1 /\ \A i \in 1 .. n : i + 1 \in 1 .. n + 1
        /\ \A i \in 1 .. n + 1 : i = 1 \/ \E k \in 1 .. n : i = k + 1
    <2>1. \A i \in 1 .. n + 1 : i = 1 \/ (i - 1 \in 1 .. n /\ i = (i - 1) + 1)
      OBVIOUS
    <2>2. 1 \in 1 .. n + 1 /\ \A i \in 1 .. n : i + 1 \in 1 .. n + 1
      OBVIOUS
    <2> QED
      BY <2>1, <2>2
  <1>4. ASSUME Free(t, L), h \notin L
        PROVE  Free(q, L)
    <2>1. ASSUME NEW i \in 1 .. n + 1
          PROVE  q[i] \notin L
      <3>1. CASE i = 1
        BY <1>2, <1>4, <3>1
      <3>2. CASE i # 1
        <4>1. PICK k \in 1 .. n : i = k + 1
          BY <1>3, <3>2
        <4> QED
          BY <1>2, <1>4, <4>1 DEF Free
      <3> QED
        BY <3>1, <3>2
    <2> QED
      BY <1>2, <2>1 DEF Free
  <1>5. Free(q, L) => Free(t, L) /\ h \notin L
    BY <1>2, <1>3 DEF Free
  <1> QED
    BY <1>1, <1>4, <1>5

LEMMA LeavesEnd ==
  ASSUME NEW M, NEW q \in Seq(M), q # <<>>, NEW L, NEW G, EndsIn(q, L, G)
  PROVE  /\ EndsIn(Tail(q), L, G)
         /\ Head(q) \in L /\ Free(Tail(q), L) => Head(q) \in G
  <1>1. PICK h, t : h = Head(q) /\ t = Tail(q)
    OBVIOUS
  <1>2. PICK n \in Nat : /\ DOMAIN q = 1 .. n + 1 /\ DOMAIN t = 1 .. n
                         /\ h = q[1] /\ \A i \in 1 .. n : t[i] = q[i + 1]
    BY <1>1, FirstLessIs
  <1>3. /\ 1 \in 1 .. n + 1 /\ \A i \in 1 .. n : i + 1 \in 1 .. n + 1
        /\ \A i \in 1 .. n + 1 : i = 1 \/ \E k \in 1 .. n : i = k + 1
    <2>1. \A i \in 1 .. n + 1 : i = 1 \/ (i - 1 \in 1 .. n /\ i = (i - 1) + 1)
      OBVIOUS
    <2>2. 1 \in 1 .. n + 1 /\ \A i \in 1 .. n : i + 1 \in 1 .. n + 1
      OBVIOUS
    <2> QED
      BY <2>1, <2>2
  <1>4. ASSUME NEW i \in 1 .. n, t[i] \in L, \A j \in 1 .. n : i < j => t[j] \notin L
        PROVE  t[i] \in G
    <2>1. \A j \in 1 .. n + 1 : i + 1 < j => q[j] \notin L
      <3>1. SUFFICES ASSUME NEW j \in 1 .. n + 1, i + 1 < j PROVE q[j] \notin L
        OBVIOUS
      <3>2. PICK k \in 1 .. n : j = k + 1
        BY <1>3, <3>1
      <3>3. i < k
        BY <3>1, <3>2
      <3> QED
        BY <1>2, <1>4, <3>2, <3>3
    <2> QED
      BY <1>2, <1>3, <1>4, <2>1 DEF EndsIn
  <1>5. ASSUME h \in L, Free(t, L)
        PROVE  h \in G
    <2>1. \A j \in 1 .. n + 1 : 1 < j => q[j] \notin L
      <3>1. SUFFICES ASSUME NEW j \in 1 .. n + 1, 1 < j PROVE q[j] \notin L
        OBVIOUS
      <3>2. j # 1
        BY <3>1
      <3>3. PICK k \in 1 .. n : j = k + 1
        BY <1>3, <3>2
      <3> QED
        BY <1>2, <1>5, <3>3 DEF Free
    <2> QED
      BY <1>2, <1>3, <1>5, <2>1 DEF EndsIn
  <1>6. EndsIn(t, L, G)
    BY <1>2, <1>4 DEF EndsIn
  <1> QED
    BY <1>1, <1>5, <1>6

LEMMA LeavesOne ==
  ASSUME NEW M, NEW q \in Seq(M), q # <<>>, NEW L, NEW G, HasOne(q, L, G)
  PROVE  /\ Head(q) \notin L => HasOne(Tail(q), L, G)
         /\ Head(q) \in L => Head(q) \in G /\ Free(Tail(q), L)
  <1>1. PICK h, t : h = Head(q) /\ t = Tail(q)
    OBVIOUS
  <1>2. PICK n \in Nat : /\ DOMAIN q = 1 .. n + 1 /\ DOMAIN t = 1 .. n
                         /\ h = q[1] /\ \A i \in 1 .. n : t[i] = q[i + 1]
    BY <1>1, FirstLessIs
  <1>3. /\ 1 \in 1 .. n + 1 /\ \A i \in 1 .. n : i + 1 \in 1 .. n + 1 /\ i + 1 # 1
        /\ \A i \in 1 .. n + 1 : i = 1 \/ \E k \in 1 .. n : i = k + 1
    <2>1. \A i \in 1 .. n + 1 : i = 1 \/ (i - 1 \in 1 .. n /\ i = (i - 1) + 1)
      OBVIOUS
    <2>2. 1 \in 1 .. n + 1 /\ \A i \in 1 .. n : i + 1 \in 1 .. n + 1 /\ i + 1 # 1
      OBVIOUS
    <2> QED
      BY <2>1, <2>2
  <1>4. PICK i \in 1 .. n + 1 : q[i] \in L /\ q[i] \in G /\ \A j \in 1 .. n + 1 : j # i => q[j] \notin L
    BY <1>2 DEF HasOne
  <1>5. CASE i = 1
    <2>1. \A j \in 1 .. n : t[j] \notin L
      BY <1>2, <1>3, <1>4, <1>5
    <2> QED
      BY <1>1, <1>2, <1>4, <1>5, <2>1 DEF Free
  <1>6. CASE i # 1
    <2>1. PICK k \in 1 .. n : i = k + 1
      BY <1>3, <1>6
    <2>2. h \notin L
      BY <1>2, <1>3, <1>4, <1>6
    <2>3. \A j \in 1 .. n : j # k => j + 1 # i
      BY <2>1
    <2>4. t[k] \in L /\ t[k] \in G /\ \A j \in 1 .. n : j # k => t[j] \notin L
      BY <1>2, <1>3, <1>4, <2>1, <2>3
    <2>5. HasOne(t, L, G)
      BY <1>2, <2>4 DEF HasOne
    <2> QED
      BY <1>1, <2>2, <2>5
  <1> QED
    BY <1>5, <1>6
=============================================================================
