-------------------------- MODULE KernelSched_proofs --------------------------
(***************************************************************************)
(* What the lists of the kernel hold, and what the operations of the       *)
(* scheduler keep: each one moves the thread it is given, leaves the       *)
(* others where they are and has every thread in one place.                *)
(***************************************************************************)
EXTENDS Kernel, SequenceTheorems, FiniteSetTheorems, WellFoundedInduction, TLAPS

LEMMA Constants ==
    /\ IsFiniteSet(Threads) /\ Idle \in Threads /\ Nobody \notin Threads
    /\ InitPrio \in [Threads -> Nat] /\ TickMax \in Nat \ {0}
    /\ \A d \in SemTimes \cup MutexTimes \cup SleepTimes : d \in Nat
    /\ SemUsers \subseteq Threads /\ MutexUsers \subseteq Threads /\ Sleepers \subseteq Threads
    /\ MaxValue \in Nat /\ MaxHold \in Nat \ {0}
BY KernelAssumption, Zenon DEF KernelAssumption

LEMMA PriosNat == Prios \subseteq Nat /\ \A t \in Threads : InitPrio[t] \in Prios
BY Constants, Zenon DEF Prios

-----------------------------------------------------------------------------
(* Lists                                                                   *)

LEMMA LessThanRelation ==
    \E R : IsWellFoundedOn(R, Nat) /\ \A x, y \in Nat : x < y => <<x, y>> \in R
<1>1. IsWellFoundedOn(OpToRel(<, Nat), Nat)
  BY NatLessThanWellFounded, Zenon
<1>2. \A x, y \in Nat : x < y => <<x, y>> \in OpToRel(<, Nat)
  BY Zenon DEF OpToRel
<1> QED BY <1>1, <1>2, Zenon

\* A set of natural numbers has a least member, which CHOOSE finds.
LEMMA Least ==
    ASSUME NEW S, S \subseteq Nat, S # {}
    PROVE  /\ (CHOOSE p \in S : \A q \in S : p <= q) \in S
           /\ \A q \in S : (CHOOSE p \in S : \A r \in S : p <= r) <= q
<1>1. PICK R : IsWellFoundedOn(R, Nat) /\ \A x, y \in Nat : x < y => <<x, y>> \in R
  BY LessThanRelation
<1>2. PICK x \in S : \A y \in S : ~ (<<y, x>> \in R)
  <2>1. IsWellFoundedOn(R, Nat)
    BY <1>1
  <2> QED BY <2>1, WFMin
<1>3. ASSUME NEW y \in S PROVE x <= y
  <2>1. ~(y < x)
    BY <1>1, <1>2
  <2> QED BY <2>1, SMT
<1> QED BY <1>3

LEMMA AppendHolds ==
    ASSUME NEW T, NEW q \in Seq(T), NEW S, Holds(q, S), NEW t \in T, t \notin S
    PROVE  Append(q, t) \in Seq(T) /\ Holds(Append(q, t), S \cup {t})
<1>1. Append(q, t) \in Seq(T)
  BY AppendProperties
<1>2. IsInjective(Append(q, t))
  BY AppendProperties, LenProperties, SMT DEF Holds, IsInjective, ToSet
<1>3. ToSet(Append(q, t)) = S \cup {t}
  BY AppendProperties, LenProperties, SMT DEF Holds, ToSet
<1> QED BY <1>1, <1>2, <1>3 DEF Holds

LEMMA TailHolds ==
    ASSUME NEW T, NEW q \in Seq(T), q # <<>>, NEW S, Holds(q, S)
    PROVE  /\ Head(q) \in S /\ Head(q) \in T
           /\ Tail(q) \in Seq(T) /\ Holds(Tail(q), S \ {Head(q)})
<1>1. Head(q) \in S
  BY EmptySeq, LenProperties, SMT DEF Holds, ToSet
<1>2. Head(q) \in T /\ Tail(q) \in Seq(T)
  BY HeadTailProperties
<1>3. /\ Len(q) \in Nat \ {0} /\ Len(Tail(q)) = Len(q) - 1 /\ Head(q) = q[1]
      /\ DOMAIN q = 1..Len(q) /\ DOMAIN Tail(q) = 1..Len(q) - 1
      /\ \A i \in 1..Len(q) - 1 : Tail(q)[i] = q[i + 1]
  BY HeadTailProperties, LenProperties, EmptySeq, SMT
<1>4. \A i, j \in 1..Len(q) : q[i] = q[j] => i = j
  BY <1>3 DEF Holds, IsInjective
<1>5. IsInjective(Tail(q))
  <2> SUFFICES ASSUME NEW i \in 1..Len(q) - 1, NEW j \in 1..Len(q) - 1,
                      Tail(q)[i] = Tail(q)[j]
               PROVE  i = j
    BY <1>3 DEF IsInjective
  <2> QED BY <1>3, <1>4, SMT
<1>6. ToSet(Tail(q)) \subseteq S \ {Head(q)}
  <2> SUFFICES ASSUME NEW i \in 1..Len(q) - 1 PROVE Tail(q)[i] \in S \ {Head(q)}
    BY <1>3 DEF ToSet
  <2>1. i + 1 \in 1..Len(q) /\ 1 \in 1..Len(q) /\ i + 1 # 1 /\ Tail(q)[i] = q[i + 1]
    BY <1>3, SMT
  <2> QED BY <2>1, <1>3, <1>4 DEF Holds, ToSet
<1>7. S \ {Head(q)} \subseteq ToSet(Tail(q))
  <2> SUFFICES ASSUME NEW i \in 1..Len(q), q[i] # Head(q) PROVE q[i] \in ToSet(Tail(q))
    BY <1>3 DEF Holds, ToSet
  <2>1. i - 1 \in 1..Len(q) - 1 /\ Tail(q)[i - 1] = q[i]
    BY <1>3, SMT
  <2> QED BY <2>1, <1>3 DEF ToSet
<1> QED BY <1>1, <1>2, <1>5, <1>6, <1>7 DEF Holds

\* The list without its i-th entry: what stands where.
LEMMA RemoveAtFacts ==
    ASSUME NEW T, NEW q \in Seq(T), NEW i \in 1..Len(q)
    PROVE  /\ RemoveAt(q, i) \in Seq(T) /\ Len(RemoveAt(q, i)) = Len(q) - 1
           /\ \A j \in 1..Len(q) - 1 :
                 RemoveAt(q, i)[j] = IF j < i THEN q[j] ELSE q[j + 1]
<1>0. Len(q) \in Nat /\ i \in Int
  BY LenProperties, SMT
<1>1. \A j \in 1..Len(q) : q[j] \in T
  BY ElementOfSeq
<1> DEFINE L == SubSeq(q, 1, i - 1)
           R == SubSeq(q, i + 1, Len(q))
<1>2. /\ L \in Seq(T) /\ Len(L) = i - 1
      /\ \A j \in 1..i - 1 : L[j] = q[j]
  <2>1. \A j \in 1..i - 1 : q[j] \in T
    BY <1>0, <1>1, SMT
  <2>2. L \in Seq(T)
    BY <2>1, <1>0, SubSeqProperties, SMT
  <2>3. Len(L) = IF 1 <= i - 1 THEN i - 1 - 1 + 1 ELSE 0
    BY <2>1, <1>0, SubSeqProperties, SMT
  <2>4. \A j \in 1..i - 1 - 1 + 1 : L[j] = q[1 + j - 1]
    BY <2>1, <1>0, SubSeqProperties, SMT
  <2> HIDE DEF L
  <2> QED BY <2>2, <2>3, <2>4, <1>0, SMT
<1>3. /\ R \in Seq(T) /\ Len(R) = Len(q) - i
      /\ \A j \in 1..Len(q) - i : R[j] = q[i + j]
  <2>1. \A j \in i + 1..Len(q) : q[j] \in T
    BY <1>0, <1>1, SMT
  <2>2. R \in Seq(T)
    BY <2>1, <1>0, SubSeqProperties, SMT
  <2>3. Len(R) = IF i + 1 <= Len(q) THEN Len(q) - (i + 1) + 1 ELSE 0
    BY <2>1, <1>0, SubSeqProperties, SMT
  <2>4. \A j \in 1..Len(q) - (i + 1) + 1 : R[j] = q[i + 1 + j - 1]
    BY <2>1, <1>0, SubSeqProperties, SMT
  <2> HIDE DEF R
  <2> QED BY <2>2, <2>3, <2>4, <1>0, SMT
<1>4. RemoveAt(q, i) = L \o R
  BY DEF RemoveAt
<1> HIDE DEF L, R
<1>5. /\ L \o R \in Seq(T) /\ Len(L \o R) = Len(L) + Len(R)
      /\ \A j \in 1..Len(L) + Len(R) :
            (L \o R)[j] = IF j <= Len(L) THEN L[j] ELSE R[j - Len(L)]
  BY <1>2, <1>3, ConcatProperties
<1>6. Len(L) + Len(R) = Len(q) - 1
  BY <1>0, <1>2, <1>3, SMT
<1>7. ASSUME NEW j \in 1..Len(q) - 1
      PROVE  (L \o R)[j] = IF j < i THEN q[j] ELSE q[j + 1]
  <2>1. (L \o R)[j] = IF j <= i - 1 THEN L[j] ELSE R[j - (i - 1)]
    BY <1>5, <1>6, <1>2
  <2>2. CASE j < i
    BY <2>1, <2>2, <1>0, <1>2, SMT
  <2>3. CASE ~(j < i)
    <3>1. j - (i - 1) \in 1..Len(q) - i /\ i + (j - (i - 1)) = j + 1
      BY <2>3, <1>0, SMT
    <3>2. R[j - (i - 1)] = q[j + 1]
      BY <3>1, <1>3
    <3> QED BY <3>2, <2>1, <2>3, <1>0, SMT
  <2> QED BY <2>2, <2>3
<1> QED BY <1>4, <1>5, <1>6, <1>7

LEMMA WithoutHolds ==
    ASSUME NEW T, NEW q \in Seq(T), NEW S, Holds(q, S), NEW t
    PROVE  Without(q, t) \in Seq(T) /\ Holds(Without(q, t), S \ {t})
<1>1. CASE t \notin S
  BY <1>1 DEF Without, Holds
<1>2. CASE t \in S
  <2> DEFINE i == CHOOSE i \in DOMAIN q : q[i] = t
             r == RemoveAt(q, i)
             n == Len(q)
  <2>1. n \in Nat /\ DOMAIN q = 1..n
    BY LenProperties
  <2>2. i \in 1..n /\ q[i] = t
    BY <1>2, <2>1 DEF Holds, ToSet
  <2>3. Without(q, t) = r
    BY <1>2 DEF Without, Holds
  <2>4. /\ r \in Seq(T) /\ Len(r) = n - 1
        /\ \A j \in 1..n - 1 : r[j] = IF j < i THEN q[j] ELSE q[j + 1]
    BY <2>2, RemoveAtFacts
  <2>5. DOMAIN r = 1..n - 1
    BY <2>4, LenProperties
  <2>6. /\ \A j, k \in 1..n : q[j] = q[k] => j = k
        /\ S = {q[j] : j \in 1..n}
    BY <2>1 DEF Holds, IsInjective, ToSet
  <2> HIDE DEF i, r, n
  <2>7. IsInjective(r)
    <3> SUFFICES ASSUME NEW j \in 1..n - 1, NEW k \in 1..n - 1, r[j] = r[k]
                 PROVE  j = k
      BY <2>5 DEF IsInjective
    <3> QED BY <2>1, <2>2, <2>4, <2>6, SMT
  <2>8. ToSet(r) = S \ {t}
    <3>1. ASSUME NEW j \in 1..n - 1 PROVE r[j] \in S \ {t}
      BY <2>1, <2>2, <2>4, <2>6, SMT
    <3>2. ASSUME NEW j \in 1..n, q[j] # t PROVE \E k \in 1..n - 1 : r[k] = q[j]
      <4>1. CASE j < i
        <5>1. j \in 1..n - 1 /\ r[j] = q[j]
          BY <4>1, <2>1, <2>2, <2>4, SMT
        <5> QED BY <5>1
      <4>2. CASE ~(j < i)
        <5>1. j # i
          BY <3>2, <2>2
        <5>2. j - 1 \in 1..n - 1 /\ r[j - 1] = q[j]
          BY <4>2, <5>1, <2>1, <2>2, <2>4, SMT
        <5> QED BY <5>2
      <4> QED BY <4>1, <4>2
    <3> QED BY <3>1, <3>2, <2>5, <2>6 DEF ToSet
  <2> QED BY <2>3, <2>4, <2>7, <2>8 DEF Holds
<1> QED BY <1>1, <1>2

LEMMA InsertAtFacts ==
    ASSUME NEW T, NEW q \in Seq(T), NEW i \in 1..Len(q), NEW t \in T
    PROVE  /\ InsertAt(q, i, t) \in Seq(T) /\ Len(InsertAt(q, i, t)) = Len(q) + 1
           /\ \A j \in 1..Len(q) + 1 :
                 InsertAt(q, i, t)[j] = IF j < i THEN q[j] ELSE IF j = i THEN t ELSE q[j - 1]
<1>0. Len(q) \in Nat /\ i \in Int
  BY LenProperties, SMT
<1>1. \A j \in 1..Len(q) : q[j] \in T
  BY ElementOfSeq
<1> DEFINE L == SubSeq(q, 1, i - 1)
           R == SubSeq(q, i, Len(q))
           M == L \o <<t>>
<1>2. /\ L \in Seq(T) /\ Len(L) = i - 1
      /\ \A j \in 1..i - 1 : L[j] = q[j]
  <2>1. \A j \in 1..i - 1 : q[j] \in T
    BY <1>0, <1>1, SMT
  <2>2. L \in Seq(T)
    BY <2>1, <1>0, SubSeqProperties, SMT
  <2>3. Len(L) = IF 1 <= i - 1 THEN i - 1 - 1 + 1 ELSE 0
    BY <2>1, <1>0, SubSeqProperties, SMT
  <2>4. \A j \in 1..i - 1 - 1 + 1 : L[j] = q[1 + j - 1]
    BY <2>1, <1>0, SubSeqProperties, SMT
  <2> HIDE DEF L
  <2> QED BY <2>2, <2>3, <2>4, <1>0, SMT
<1>3. /\ R \in Seq(T) /\ Len(R) = Len(q) - i + 1
      /\ \A j \in 1..Len(q) - i + 1 : R[j] = q[i + j - 1]
  <2>1. \A j \in i..Len(q) : q[j] \in T
    BY <1>0, <1>1, SMT
  <2>2. R \in Seq(T)
    BY <2>1, <1>0, SubSeqProperties, SMT
  <2>3. Len(R) = IF i <= Len(q) THEN Len(q) - i + 1 ELSE 0
    BY <2>1, <1>0, SubSeqProperties, SMT
  <2>4. \A j \in 1..Len(q) - i + 1 : R[j] = q[i + j - 1]
    BY <2>1, <1>0, SubSeqProperties, SMT
  <2> HIDE DEF R
  <2> QED BY <2>2, <2>3, <2>4, <1>0, SMT
<1> HIDE DEF L, R
<1>4. /\ M \in Seq(T) /\ Len(M) = i
      /\ \A j \in 1..i : M[j] = IF j < i THEN q[j] ELSE t
  <2>1. /\ Append(L, t) \in Seq(T) /\ Len(Append(L, t)) = Len(L) + 1
        /\ \A j \in 1..Len(L) : Append(L, t)[j] = L[j]
        /\ Append(L, t)[Len(L) + 1] = t
    BY <1>2, AppendProperties
  <2>2. M = Append(L, t)
    BY <1>2, AppendIsConcat
  <2> HIDE DEF M
  <2> QED BY <2>1, <2>2, <1>0, <1>2, SMT
<1>5. InsertAt(q, i, t) = M \o R
  BY DEF InsertAt, L, R
<1> HIDE DEF M
<1>6. /\ M \o R \in Seq(T) /\ Len(M \o R) = Len(M) + Len(R)
      /\ \A j \in 1..Len(M) + Len(R) :
            (M \o R)[j] = IF j <= Len(M) THEN M[j] ELSE R[j - Len(M)]
  BY <1>3, <1>4, ConcatProperties
<1>7. Len(M) + Len(R) = Len(q) + 1
  BY <1>0, <1>3, <1>4, SMT
<1>8. ASSUME NEW j \in 1..Len(q) + 1
      PROVE  (M \o R)[j] = IF j < i THEN q[j] ELSE IF j = i THEN t ELSE q[j - 1]
  <2>1. (M \o R)[j] = IF j <= i THEN M[j] ELSE R[j - i]
    BY <1>4, <1>6, <1>7
  <2>2. CASE j <= i
    BY <2>1, <2>2, <1>0, <1>4, SMT
  <2>3. CASE ~(j <= i)
    <3>1. j - i \in 1..Len(q) - i + 1 /\ i + (j - i) - 1 = j - 1
      BY <2>3, <1>0, SMT
    <3>2. R[j - i] = q[j - 1]
      BY <3>1, <1>3
    <3> QED BY <3>2, <2>1, <2>3, <1>0, SMT
  <2> QED BY <2>2, <2>3
<1> QED BY <1>5, <1>6, <1>7, <1>8

LEMMA BeforeHolds ==
    ASSUME NEW T, NEW q \in Seq(T), NEW S, Holds(q, S), NEW t \in T, t \notin S,
           NEW places, places \subseteq DOMAIN q
    PROVE  Before(q, places, t) \in Seq(T) /\ Holds(Before(q, places, t), S \cup {t})
<1>1. CASE places = {}
  BY <1>1, AppendHolds DEF Before
<1>2. CASE places # {}
  <2> DEFINE i == CHOOSE i \in places : \A j \in places : i <= j
             r == InsertAt(q, i, t)
             n == Len(q)
  <2>1. n \in Nat /\ DOMAIN q = 1..n
    BY LenProperties
  <2>2. i \in 1..n
    <3>1. places \subseteq Nat
      BY <2>1, SMT
    <3>2. i \in places
      BY <3>1, <1>2, Least
    <3> QED BY <3>2, <2>1
  <2>3. Before(q, places, t) = r
    BY <1>2 DEF Before
  <2> HIDE DEF i
  <2>4. /\ r \in Seq(T) /\ Len(r) = n + 1
        /\ \A j \in 1..n + 1 : r[j] = IF j < i THEN q[j] ELSE IF j = i THEN t ELSE q[j - 1]
    BY <2>2, InsertAtFacts
  <2>5. DOMAIN r = 1..n + 1
    BY <2>4, LenProperties
  <2>6. /\ \A j, k \in 1..n : q[j] = q[k] => j = k
        /\ S = {q[j] : j \in 1..n}
    BY <2>1 DEF Holds, IsInjective, ToSet
  <2> HIDE DEF r, n
  <2>7. \A j \in 1..n : q[j] # t
    BY <2>6
  <2>8. IsInjective(r)
    <3> SUFFICES ASSUME NEW j \in 1..n + 1, NEW k \in 1..n + 1, r[j] = r[k]
                 PROVE  j = k
      BY <2>5 DEF IsInjective
    <3>1. /\ j < i => j \in 1..n
          /\ j > i => j - 1 \in 1..n
          /\ k < i => k \in 1..n
          /\ k > i => k - 1 \in 1..n
      BY <2>1, <2>2, SMT
    <3> QED BY <3>1, <2>1, <2>2, <2>4, <2>6, <2>7, SMT
  <2>9. ToSet(r) = S \cup {t}
    <3>1. ASSUME NEW j \in 1..n + 1 PROVE r[j] \in S \cup {t}
      <4>1. CASE j < i
        BY <4>1, <2>1, <2>2, <2>4, <2>6, SMT
      <4>2. CASE j = i
        BY <4>2, <2>1, <2>2, <2>4, SMT
      <4>3. CASE j > i
        <5>1. j - 1 \in 1..n /\ r[j] = q[j - 1]
          BY <4>3, <2>1, <2>2, <2>4, SMT
        <5> QED BY <5>1, <2>6
      <4> QED BY <4>1, <4>2, <4>3, <2>1, <2>2, SMT
    <3>2. \E k \in 1..n + 1 : r[k] = t
      <4>1. i \in 1..n + 1 /\ r[i] = t
        BY <2>1, <2>2, <2>4, SMT
      <4> QED BY <4>1
    <3>3. ASSUME NEW j \in 1..n PROVE \E k \in 1..n + 1 : r[k] = q[j]
      <4>1. CASE j < i
        <5>1. j \in 1..n + 1 /\ r[j] = q[j]
          BY <4>1, <2>1, <2>2, <2>4, SMT
        <5> QED BY <5>1
      <4>2. CASE ~(j < i)
        <5>1. j + 1 \in 1..n + 1 /\ r[j + 1] = q[j]
          BY <4>2, <2>1, <2>2, <2>4, SMT
        <5> QED BY <5>1
      <4> QED BY <4>1, <4>2
    <3> QED BY <3>1, <3>2, <3>3, <2>5, <2>6 DEF ToSet
  <2> QED BY <2>3, <2>4, <2>8, <2>9 DEF Holds
<1> QED BY <1>1, <1>2

LEMMA SetToSeqHolds ==
    ASSUME NEW S, IsFiniteSet(S)
    PROVE  SetToSeq(S) \in Seq(S) /\ Holds(SetToSeq(S), S)
<1> DEFINE n == Cardinality(S)
           f == SetToSeq(S)
<1>1. n \in Nat /\ Bijection(1..n, S) # {}
  BY FS_CardinalityType DEF ExistsBijection
<1>2. PICK b : b \in Bijection(1..n, S)
  BY <1>1
<1>3. b \in [1..n -> S] /\ IsInjective(b)
  BY <1>2 DEF Bijection, Injection
<1>4. f \in [1..n -> S] /\ IsInjective(f)
  BY <1>3 DEF SetToSeq
<1>5. f \in Injection(1..n, S)
  BY <1>4 DEF Injection
<1> HIDE DEF f
<1>6. f \in Surjection(1..n, S)
  <2>1. Cardinality(1..n) = Cardinality(S)
    BY <1>1, FS_Interval, SMT
  <2> QED BY <2>1, <1>5, FS_Injection
<1>7. f \in Seq(S) /\ DOMAIN f = 1..n
  BY <1>1, <1>4, SMT
<1> QED BY <1>4, <1>6, <1>7 DEF Holds, ToSet, f, Surjection

-----------------------------------------------------------------------------
(* The operations of the scheduler                                         *)

ReadyBut(k, t) ==
    \A p \in Prios :
       Holds(k.ready[p], {x \in Threads \ {t} : k.stat[x] = "ready" /\ k.prio[x] = p})

LEMMA Fields ==
    ASSUME NEW k \in Scheduler
    PROVE  /\ k.stat \in [Threads -> {"running", "ready", "suspend"}]
           /\ k.prio \in [Threads -> Prios] /\ k.ready \in [Prios -> Seq(Threads)]
           /\ k.current \in Threads /\ k.yield \in SUBSET Threads
BY DEF Scheduler

\* Inserting a thread that is in no queue.
LEMMA InsertKeeps ==
    ASSUME NEW k \in Scheduler, NEW t \in Threads, ReadyBut(k, t),
           \A x \in Threads \ {t} : k.stat[x] = "running" => x = k.current
    PROVE  /\ Insert(k, t) \in Scheduler /\ Coherent(Insert(k, t))
           /\ Insert(k, t).prio = k.prio /\ Insert(k, t).current = k.current
           /\ Insert(k, t).stat[t] # "suspend"
           /\ \A x \in Threads \ {t} : Insert(k, t).stat[x] = k.stat[x]
<1> USE Fields
<1>1. CASE t = k.current
  <2> DEFINE n == [k EXCEPT !.stat[t] = "running"]
  <2>1. Insert(k, t) = n
    BY <1>1 DEF Insert
  <2>2. /\ n \in Scheduler /\ n.prio = k.prio /\ n.current = k.current /\ n.ready = k.ready
        /\ n.stat = [k.stat EXCEPT ![t] = "running"]
    BY DEF Scheduler
  <2> HIDE DEF n
  <2>3. ASSUME NEW p \in Prios
        PROVE  {x \in Threads : n.stat[x] = "ready" /\ n.prio[x] = p}
             = {x \in Threads \ {t} : k.stat[x] = "ready" /\ k.prio[x] = p}
    BY <2>2
  <2>4. Coherent(n)
    BY <2>2, <2>3, <1>1 DEF Coherent, ReadyBut
  <2> QED BY <2>1, <2>2, <2>4
<1>2. CASE t # k.current
  <2> DEFINE q == Append(k.ready[k.prio[t]], t)
             n == [k EXCEPT !.stat[t] = "ready", !.ready[k.prio[t]] = Append(@, t)]
             R(p) == {x \in Threads \ {t} : k.stat[x] = "ready" /\ k.prio[x] = p}
  <2>1. Insert(k, t) = n
    BY <1>2 DEF Insert
  <2>2. q \in Seq(Threads) /\ Holds(q, R(k.prio[t]) \cup {t})
    <3>1. k.prio[t] \in Prios
      OBVIOUS
    <3>2. Holds(k.ready[k.prio[t]], R(k.prio[t])) /\ k.ready[k.prio[t]] \in Seq(Threads)
      BY <3>1 DEF ReadyBut
    <3>3. t \notin R(k.prio[t])
      OBVIOUS
    <3> QED BY <3>2, <3>3, AppendHolds
  <2>3. /\ n \in Scheduler /\ n.prio = k.prio /\ n.current = k.current
        /\ n.ready = [k.ready EXCEPT ![k.prio[t]] = q]
        /\ n.stat = [k.stat EXCEPT ![t] = "ready"]
    BY <2>2 DEF Scheduler
  <2> HIDE DEF n, q
  <2>4. ASSUME NEW p \in Prios
        PROVE  Holds(n.ready[p], {x \in Threads : n.stat[x] = "ready" /\ n.prio[x] = p})
    <3>1. CASE p = k.prio[t]
      <4>1. {x \in Threads : n.stat[x] = "ready" /\ n.prio[x] = p} = R(p) \cup {t}
        BY <2>3, <3>1
      <4>2. n.ready[p] = q
        BY <2>3, <3>1
      <4> QED BY <4>1, <4>2, <2>2, <3>1
    <3>2. CASE p # k.prio[t]
      <4>1. {x \in Threads : n.stat[x] = "ready" /\ n.prio[x] = p} = R(p)
        BY <2>3, <3>2
      <4>2. n.ready[p] = k.ready[p]
        BY <2>3, <3>2
      <4> QED BY <4>1, <4>2 DEF ReadyBut
    <3> QED BY <3>1, <3>2
  <2>5. ASSUME NEW x \in Threads, n.stat[x] = "running" PROVE x = n.current
    BY <2>3, <2>5
  <2>6. Coherent(n)
    BY <2>4, <2>5 DEF Coherent
  <2> QED BY <2>1, <2>3, <2>6
<1> QED BY <1>1, <1>2

LEMMA SuspendKeeps ==
    ASSUME NEW k \in Scheduler, Coherent(k), NEW t \in Threads, k.stat[t] = "running"
    PROVE  /\ Suspend(k, t) \in Scheduler /\ Coherent(Suspend(k, t))
           /\ Suspend(k, t).prio = k.prio /\ Suspend(k, t).current = k.current
           /\ Suspend(k, t).stat = [k.stat EXCEPT ![t] = "suspend"]
<1> USE Fields
<1> DEFINE n == [k EXCEPT !.stat[t] = "suspend"]
<1>1. Suspend(k, t) = n
  BY DEF Suspend
<1>2. /\ n \in Scheduler /\ n.prio = k.prio /\ n.current = k.current /\ n.ready = k.ready
      /\ n.stat = [k.stat EXCEPT ![t] = "suspend"]
  BY DEF Scheduler
<1> HIDE DEF n
<1>3. ASSUME NEW p \in Prios
      PROVE  {x \in Threads : n.stat[x] = "ready" /\ n.prio[x] = p}
           = {x \in Threads : k.stat[x] = "ready" /\ k.prio[x] = p}
  BY <1>2
<1>4. ASSUME NEW x \in Threads, n.stat[x] = "running" PROVE x = n.current
  BY <1>2, <1>4 DEF Coherent
<1>5. ASSUME NEW p \in Prios
      PROVE  Holds(n.ready[p], {x \in Threads : n.stat[x] = "ready" /\ n.prio[x] = p})
  <2>1. Holds(k.ready[p], {x \in Threads : k.stat[x] = "ready" /\ k.prio[x] = p})
    BY DEF Coherent
  <2> QED BY <2>1, <1>2, <1>3
<1>6. Coherent(n)
  BY <1>4, <1>5 DEF Coherent
<1> QED BY <1>1, <1>2, <1>6

LEMMA ChangePrioKeeps ==
    ASSUME NEW k \in Scheduler, Coherent(k), NEW t \in Threads, NEW p \in Prios
    PROVE  /\ ChangePrio(k, t, p) \in Scheduler /\ Coherent(ChangePrio(k, t, p))
           /\ ChangePrio(k, t, p).prio = [k.prio EXCEPT ![t] = p]
           /\ ChangePrio(k, t, p).current = k.current
           /\ \A x \in Threads \ {t} : ChangePrio(k, t, p).stat[x] = k.stat[x]
           /\ \A x \in Threads :
                 ChangePrio(k, t, p).stat[x] = "suspend" <=> k.stat[x] = "suspend"
<1> USE Fields
<1>1. CASE k.stat[t] = "ready"
  <2> DEFINE q == Without(k.ready[k.prio[t]], t)
             u == Unready(k, t)
             n == [u EXCEPT !.prio[t] = p]
             R(r) == {x \in Threads : k.stat[x] = "ready" /\ k.prio[x] = r}
  <2>1. ChangePrio(k, t, p) = Insert(n, t)
    BY <1>1 DEF ChangePrio
  <2>2. q \in Seq(Threads) /\ Holds(q, R(k.prio[t]) \ {t})
    <3>1. Holds(k.ready[k.prio[t]], R(k.prio[t])) /\ k.ready[k.prio[t]] \in Seq(Threads)
      BY DEF Coherent
    <3> QED BY <3>1, WithoutHolds
  <2>3. /\ u \in Scheduler /\ u.prio = k.prio /\ u.current = k.current
        /\ u.ready = [k.ready EXCEPT ![k.prio[t]] = q] /\ u.stat = k.stat
    BY <2>2 DEF Unready, Scheduler
  <2> HIDE DEF q, u
  <2>4. /\ n \in Scheduler /\ n.prio = [k.prio EXCEPT ![t] = p] /\ n.current = k.current
        /\ n.ready = [k.ready EXCEPT ![k.prio[t]] = q] /\ n.stat = k.stat
    <3>1. n = [u EXCEPT !.prio = [u.prio EXCEPT ![t] = p]]
      OBVIOUS
    <3> HIDE DEF n
    <3>2. [u.prio EXCEPT ![t] = p] \in [Threads -> Prios]
      BY <2>3
    <3> QED BY <3>1, <3>2, <2>3 DEF Scheduler
  <2> HIDE DEF n
  <2>5. ASSUME NEW r \in Prios
        PROVE  Holds(n.ready[r], {x \in Threads \ {t} : n.stat[x] = "ready" /\ n.prio[x] = r})
    <3>1. {x \in Threads \ {t} : n.stat[x] = "ready" /\ n.prio[x] = r} = R(r) \ {t}
      BY <2>4
    <3>2. CASE r = k.prio[t]
      <4>1. n.ready[r] = q
        BY <3>2, <2>4
      <4> QED BY <4>1, <3>1, <3>2, <2>2
    <3>3. CASE r # k.prio[t]
      <4>1. R(r) \ {t} = R(r) /\ n.ready[r] = k.ready[r]
        BY <3>3, <2>4
      <4> QED BY <4>1, <3>1 DEF Coherent
    <3> QED BY <3>2, <3>3
  <2>6. ReadyBut(n, t)
    BY <2>5 DEF ReadyBut
  <2>7. \A x \in Threads \ {t} : n.stat[x] = "running" => x = n.current
    BY <2>4 DEF Coherent
  <2>8. /\ Insert(n, t) \in Scheduler /\ Coherent(Insert(n, t))
        /\ Insert(n, t).prio = n.prio /\ Insert(n, t).current = n.current
        /\ Insert(n, t).stat[t] # "suspend"
        /\ \A x \in Threads \ {t} : Insert(n, t).stat[x] = n.stat[x]
    BY <2>4, <2>6, <2>7, InsertKeeps
  <2> QED BY <1>1, <2>1, <2>4, <2>8
<1>2. CASE k.stat[t] # "ready"
  <2> DEFINE n == [k EXCEPT !.prio[t] = p]
  <2>1. ChangePrio(k, t, p) = n
    BY <1>2 DEF ChangePrio
  <2>2. /\ n \in Scheduler /\ n.prio = [k.prio EXCEPT ![t] = p] /\ n.current = k.current
        /\ n.ready = k.ready /\ n.stat = k.stat
    BY DEF Scheduler
  <2> HIDE DEF n
  <2>3. ASSUME NEW r \in Prios
        PROVE  {x \in Threads : n.stat[x] = "ready" /\ n.prio[x] = r}
             = {x \in Threads : k.stat[x] = "ready" /\ k.prio[x] = r}
    BY <2>2, <1>2
  <2>4. Coherent(n)
    BY <2>2, <2>3 DEF Coherent
  <2> QED BY <2>1, <2>2, <2>4
<1> QED BY <1>1, <1>2

LEMMA ScheduleKeeps ==
    ASSUME NEW k \in Scheduler, Coherent(k)
    PROVE  /\ Schedule(k) \in Scheduler /\ Coherent(Schedule(k))
           /\ Schedule(k).prio = k.prio
           /\ \A x \in Threads : Schedule(k).stat[x] = "suspend" <=> k.stat[x] = "suspend"
<1> USE Fields
<1> DEFINE some == {p \in Prios : k.ready[p] # <<>>}
           highest == CHOOSE p \in some : \A q \in some : p <= q
           from == k.current
           to == Head(k.ready[highest])
           picked == [k EXCEPT !.current = to, !.stat[to] = "running",
                               !.ready[highest] = Tail(@)]
           final == [Insert(picked, from) EXCEPT !.yield = @ \ {from}]
           R(p) == {x \in Threads : k.stat[x] = "ready" /\ k.prio[x] = p}
<1>1. \/ Schedule(k) = k
      \/ some # {} /\ k.stat[from] # "running" /\ Schedule(k) = picked
      \/ some # {} /\ k.stat[from] = "running" /\ Schedule(k) = final
  BY DEF Schedule
<1>2. CASE Schedule(k) = k
  BY <1>2
<1>3. CASE some # {}
  <2>1. highest \in some
    BY <1>3, PriosNat, Least
  <2>2. highest \in Prios /\ k.ready[highest] # <<>> /\ k.ready[highest] \in Seq(Threads)
    BY <2>1
  <2>3. Holds(k.ready[highest], R(highest))
    BY <2>2 DEF Coherent
  <2> HIDE DEF some, highest
  <2>4. /\ to \in R(highest) /\ to \in Threads /\ Tail(k.ready[highest]) \in Seq(Threads)
        /\ Holds(Tail(k.ready[highest]), R(highest) \ {to})
    BY <2>2, <2>3, TailHolds
  <2> HIDE DEF to
  <2>5. /\ picked \in Scheduler /\ picked.prio = k.prio /\ picked.current = to
        /\ picked.stat = [k.stat EXCEPT ![to] = "running"]
        /\ picked.ready = [k.ready EXCEPT ![highest] = Tail(k.ready[highest])]
    BY <2>2, <2>4 DEF Scheduler
  <2> HIDE DEF picked
  <2>6. ASSUME NEW p \in Prios
        PROVE  Holds(picked.ready[p], R(p) \ {to})
    <3>1. CASE p = highest
      BY <3>1, <2>4, <2>5
    <3>2. CASE p # highest
      <4>1. R(p) \ {to} = R(p) /\ picked.ready[p] = k.ready[p]
        BY <3>2, <2>4, <2>5
      <4> QED BY <4>1 DEF Coherent
    <3> QED BY <3>1, <3>2
  <2>7. ASSUME NEW p \in Prios
        PROVE  {x \in Threads : picked.stat[x] = "ready" /\ picked.prio[x] = p} = R(p) \ {to}
    BY <2>5
  <2>8. \A x \in Threads : picked.stat[x] = "suspend" <=> k.stat[x] = "suspend"
    BY <2>4, <2>5
  <2>9. CASE k.stat[from] # "running" /\ Schedule(k) = picked
    <3>1. ASSUME NEW x \in Threads, picked.stat[x] = "running" PROVE x = picked.current
      BY <3>1, <2>9, <2>5 DEF Coherent
    <3>2. Coherent(picked)
      BY <3>1, <2>6, <2>7 DEF Coherent
    <3> QED BY <3>2, <2>5, <2>8, <2>9
  <2>10. CASE k.stat[from] = "running" /\ Schedule(k) = final
    <3>1. from \in Threads /\ from # to /\ picked.stat[from] = "running"
      BY <2>4, <2>5, <2>10
    <3>2. ReadyBut(picked, from)
      <4>1. ASSUME NEW p \in Prios
            PROVE  {x \in Threads \ {from} : picked.stat[x] = "ready" /\ picked.prio[x] = p}
                 = {x \in Threads : picked.stat[x] = "ready" /\ picked.prio[x] = p}
        BY <3>1
      <4>2. ASSUME NEW p \in Prios
            PROVE  Holds(picked.ready[p],
                         {x \in Threads \ {from} : picked.stat[x] = "ready" /\ picked.prio[x] = p})
        <5>1. {x \in Threads \ {from} : picked.stat[x] = "ready" /\ picked.prio[x] = p} = R(p) \ {to}
          BY <4>1, <2>7
        <5> QED BY <5>1, <2>6
      <4> QED BY <4>2 DEF ReadyBut
    <3>3. \A x \in Threads \ {from} : picked.stat[x] = "running" => x = picked.current
      BY <2>5 DEF Coherent
    <3> DEFINE n == Insert(picked, from)
    <3>4. /\ n \in Scheduler /\ Coherent(n) /\ n.prio = picked.prio
          /\ n.stat[from] # "suspend"
          /\ \A x \in Threads \ {from} : n.stat[x] = picked.stat[x]
      BY <2>5, <3>1, <3>2, <3>3, InsertKeeps
    <3> HIDE DEF n
    <3>5. /\ final \in Scheduler /\ final.prio = n.prio /\ final.stat = n.stat
          /\ final.ready = n.ready /\ final.current = n.current
      BY <3>4 DEF Scheduler, n
    <3> HIDE DEF final
    <3>6. Coherent(final)
      <4>1. ASSUME NEW p \in Prios
            PROVE  Holds(final.ready[p],
                         {x \in Threads : final.stat[x] = "ready" /\ final.prio[x] = p})
        <5>1. Holds(n.ready[p], {x \in Threads : n.stat[x] = "ready" /\ n.prio[x] = p})
          BY <3>4 DEF Coherent
        <5> QED BY <5>1, <3>5
      <4>2. \A x \in Threads : final.stat[x] = "running" => x = final.current
        BY <3>4, <3>5 DEF Coherent
      <4> QED BY <4>1, <4>2 DEF Coherent
    <3>7. ASSUME NEW x \in Threads
          PROVE  final.stat[x] = "suspend" <=> k.stat[x] = "suspend"
      <4>1. CASE x = from
        BY <4>1, <2>10, <3>4, <3>5
      <4>2. CASE x # from
        <5>1. final.stat[x] = picked.stat[x]
          BY <4>2, <3>4, <3>5
        <5> QED BY <5>1, <2>8
      <4> QED BY <4>1, <4>2
    <3> QED BY <2>5, <2>10, <3>4, <3>5, <3>6, <3>7
  <2> QED BY <1>1, <1>2, <2>9, <2>10
<1> QED BY <1>1, <1>2, <1>3

\* Resuming a suspended thread.
LEMMA Resumes ==
    ASSUME NEW k \in Scheduler, Coherent(k), NEW t \in Threads, k.stat[t] = "suspend",
           NEW n \in {Insert(k, t), Schedule(Insert(k, t))}
    PROVE  /\ n \in Scheduler /\ Coherent(n) /\ n.prio = k.prio
           /\ \A x \in Threads : n.stat[x] = "suspend" <=> k.stat[x] = "suspend" /\ x # t
<1>1. ReadyBut(k, t)
  <2>1. ASSUME NEW p \in Prios
        PROVE  {x \in Threads \ {t} : k.stat[x] = "ready" /\ k.prio[x] = p}
             = {x \in Threads : k.stat[x] = "ready" /\ k.prio[x] = p}
    OBVIOUS
  <2> QED BY <2>1 DEF Coherent, ReadyBut
<1>2. \A x \in Threads \ {t} : k.stat[x] = "running" => x = k.current
  BY DEF Coherent
<1> DEFINE m == Insert(k, t)
<1>3. /\ m \in Scheduler /\ Coherent(m) /\ m.prio = k.prio /\ m.stat[t] # "suspend"
      /\ \A x \in Threads \ {t} : m.stat[x] = k.stat[x]
  BY <1>1, <1>2, InsertKeeps
<1> HIDE DEF m
<1>4. \A x \in Threads : m.stat[x] = "suspend" <=> k.stat[x] = "suspend" /\ x # t
  BY <1>3
<1>5. CASE n = m
  BY <1>3, <1>4, <1>5
<1>6. CASE n = Schedule(m)
  BY <1>3, <1>4, <1>6, ScheduleKeeps
<1> QED BY <1>5, <1>6 DEF m
=============================================================================
