----------------------------- MODULE CanTx_proofs -----------------------------
(***************************************************************************)
(* For every number of senders: send boxes and tokens stay in step, a full *)
(* mailbox is not written, and with one box and no bus errors a suspended  *)
(* sender is always going to be told.                                      *)
(***************************************************************************)
EXTENDS CanTx, FiniteSetTheorems, TLAPS

LEMMA Constants ==
    /\ IsFiniteSet(Senders) /\ None \notin Senders
    /\ BoxNum \in Nat \ {0} /\ ErrorKinds \subseteq {"ack", "other"}
BY TxAssumption, SMT DEF TxAssumption

-----------------------------------------------------------------------------
(* Lists and numbers                                                       *)

Elems(q) == {q[i] : i \in 1..Len(q)}
Distinct(q) == \A i, j \in 1..Len(q) : i # j => q[i] # q[j]

LEMMA AppendFacts ==
    ASSUME NEW S, NEW q \in Seq(S), NEW x \in S
    PROVE  /\ Append(q, x) \in Seq(S) /\ Append(q, x) # <<>>
           /\ Len(q) \in Nat /\ Len(Append(q, x)) = Len(q) + 1
           /\ \A i \in 1..Len(q) : Append(q, x)[i] = q[i]
           /\ Append(q, x)[Len(q) + 1] = x
BY SMT

LEMMA TailFacts ==
    ASSUME NEW S, NEW q \in Seq(S), q # <<>>
    PROVE  /\ Head(q) \in S /\ Tail(q) \in Seq(S)
           /\ Len(q) \in Nat \ {0} /\ Len(Tail(q)) = Len(q) - 1
           /\ Head(q) = q[1]
           /\ \A i \in 1..Len(q) - 1 : Tail(q)[i] = q[i + 1]
BY SMT

LEMMA FrontFacts ==
    ASSUME NEW S, NEW q \in Seq(S), NEW x \in S
    PROVE  /\ <<x>> \o q \in Seq(S)
           /\ Len(q) \in Nat /\ Len(<<x>> \o q) = Len(q) + 1
           /\ (<<x>> \o q)[1] = x
           /\ \A i \in 2..Len(q) + 1 : (<<x>> \o q)[i] = q[i - 1]
BY SMT

LEMMA AppendElems ==
    ASSUME NEW S, NEW q \in Seq(S), NEW x \in S, Distinct(q), x \notin Elems(q)
    PROVE  Distinct(Append(q, x)) /\ Elems(Append(q, x)) = Elems(q) \cup {x}
<1> DEFINE t == Append(q, x)
<1>1. /\ Len(t) = Len(q) + 1 /\ Len(q) \in Nat
      /\ \A i \in 1..Len(q) : t[i] = q[i]
      /\ t[Len(q) + 1] = x
  BY AppendFacts
<1> HIDE DEF t
<1>2. 1..Len(t) = 1..Len(q) \cup {Len(q) + 1}
  BY <1>1, SMT
<1>3. Elems(t) = Elems(q) \cup {x}
  BY <1>1, <1>2 DEF Elems
<1>4. Distinct(t)
  BY <1>1, <1>2 DEF Distinct, Elems
<1> QED BY <1>3, <1>4 DEF t

LEMMA TailElems ==
    ASSUME NEW S, NEW q \in Seq(S), q # <<>>, Distinct(q)
    PROVE  /\ Distinct(Tail(q)) /\ Head(q) \in Elems(q)
           /\ Elems(Tail(q)) = Elems(q) \ {Head(q)}
<1> DEFINE t == Tail(q)
<1>1. /\ Len(q) \in Nat \ {0} /\ Len(t) = Len(q) - 1 /\ Head(q) = q[1]
      /\ \A i \in 1..Len(q) - 1 : t[i] = q[i + 1]
  BY TailFacts
<1> HIDE DEF t
<1>2. \A i \in 1..Len(t) : i + 1 \in 1..Len(q) /\ i + 1 # 1 /\ i \in 1..Len(q) - 1
  BY <1>1, SMT
<1>3. \A i \in 1..Len(t) : t[i] = q[i + 1] /\ t[i] # Head(q)
  BY <1>1, <1>2 DEF Distinct
<1>4. Distinct(t)
  BY <1>1, <1>2, <1>3, SMT DEF Distinct
<1>5. Head(q) \in Elems(q)
  BY <1>1, SMT DEF Elems
<1>6. Elems(t) \subseteq Elems(q) \ {Head(q)}
  BY <1>2, <1>3 DEF Elems
<1>7. ASSUME NEW x \in Elems(q) \ {Head(q)} PROVE x \in Elems(t)
  <2>1. PICK i \in 1..Len(q) : x = q[i]
    BY <1>7 DEF Elems
  <2>2. i # 1
    BY <1>1, <1>7, <2>1
  <2>3. i - 1 \in 1..Len(t) /\ i - 1 \in 1..Len(q) - 1 /\ (i - 1) + 1 = i
    BY <1>1, <2>2, SMT
  <2> QED BY <1>1, <2>1, <2>3 DEF Elems
<1> QED BY <1>4, <1>5, <1>6, <1>7 DEF t

\* A box put at the front of the list.
LEMMA FrontDistinct ==
    ASSUME NEW S, NEW q \in Seq(S), NEW x \in S, Distinct(q), x \notin Elems(q)
    PROVE  Distinct(<<x>> \o q) /\ Elems(<<x>> \o q) = Elems(q) \cup {x}
<1> DEFINE t == <<x>> \o q
<1>1. /\ Len(q) \in Nat /\ Len(t) = Len(q) + 1 /\ t[1] = x
      /\ \A i \in 2..Len(q) + 1 : t[i] = q[i - 1]
  BY FrontFacts
<1> HIDE DEF t
<1>2. ASSUME NEW i \in 1..Len(t), i # 1 PROVE i \in 2..Len(q) + 1 /\ i - 1 \in 1..Len(q)
  BY <1>1, <1>2, SMT
<1>3. ASSUME NEW i \in 1..Len(q) PROVE i + 1 \in 1..Len(t) /\ t[i + 1] = q[i]
  <2>1. i + 1 \in 1..Len(t) /\ i + 1 \in 2..Len(q) + 1 /\ (i + 1) - 1 = i
    BY <1>1, SMT
  <2> QED BY <2>1, <1>1
<1>4. 1 \in 1..Len(t)
  BY <1>1, SMT
<1>5. Distinct(t)
  <2> SUFFICES ASSUME NEW i \in 1..Len(t), NEW j \in 1..Len(t), i # j PROVE t[i] # t[j]
    BY DEF Distinct
  <2>1. CASE i = 1 \/ j = 1
    BY <2>1, <1>1, <1>2 DEF Elems
  <2>2. CASE i # 1 /\ j # 1
    <3>1. /\ i - 1 \in 1..Len(q) /\ j - 1 \in 1..Len(q)
          /\ t[i] = q[i - 1] /\ t[j] = q[j - 1]
      BY <2>2, <1>1, <1>2
    <3>2. Len(t) \in Nat
      BY <1>1
    <3>3. i \in Int /\ j \in Int
      BY <3>2, SMT
    <3>4. i - 1 # j - 1
      BY <3>3, SMT
    <3> QED BY <3>1, <3>4 DEF Distinct
  <2> QED BY <2>1, <2>2
<1>6. Elems(t) \subseteq Elems(q) \cup {x}
  BY <1>1, <1>2 DEF Elems
<1>7. Elems(q) \subseteq Elems(t)
  BY <1>1, <1>3 DEF Elems
<1>8. x \in Elems(t)
  BY <1>1, <1>4 DEF Elems
<1> QED BY <1>5, <1>6, <1>7, <1>8 DEF t

\* The number of senders of a kind, when one more or one less is of it.
LEMMA Counts ==
    ASSUME NEW A \in SUBSET Senders, NEW x
    PROVE  /\ Cardinality(A) \in Nat /\ Cardinality({}) = 0
           /\ Cardinality(A \cup {x}) = IF x \in A THEN Cardinality(A) ELSE Cardinality(A) + 1
           /\ Cardinality(A \ {x}) = IF x \in A THEN Cardinality(A) - 1 ELSE Cardinality(A)
           /\ x \in A => Cardinality(A) >= 1
<1>1. IsFiniteSet(A)
  BY Constants, FS_Subset
<1>2. Cardinality(A) \in Nat
  BY <1>1, FS_CardinalityType
<1>3. Cardinality({}) = 0 /\ (x \in A => Cardinality(A) # 0)
  BY <1>1, FS_EmptySet
<1>4. Cardinality(A \cup {x}) = IF x \in A THEN Cardinality(A) ELSE Cardinality(A) + 1
  BY <1>1, FS_AddElement
<1>5. Cardinality(A \ {x}) = IF x \in A THEN Cardinality(A) - 1 ELSE Cardinality(A)
  BY <1>1, FS_RemoveElement
<1>6. x \in A => Cardinality(A) >= 1
  BY <1>2, <1>3, SMT
<1> QED BY <1>2, <1>3, <1>4, <1>5, <1>6

-----------------------------------------------------------------------------
(* The inductive invariant                                                 *)

\* The senders past the semaphore that hold no box.
Between == {s \in Senders : pc[s] \in {"box", "retry", "release"}}

Apart ==
    /\ Distinct(freelist)
    /\ \A s, t \in Holding : s # t => box[s] # box[t]
    /\ \A s \in Holding : box[s] \notin Elems(freelist)
InStep ==
    /\ Len(freelist) + Cardinality(Holding) = BoxNum
    /\ sem + Cardinality(Between) = Len(freelist)
    /\ sem > 0 => semQ = <<>>
\* The semaphore's list holds the senders that wait for it, each once.
Blocked == {s \in Senders : pc[s] = "blocked"}
QueueAgrees == Distinct(semQ) /\ Elems(semQ) = Blocked

IInv == TypeOK /\ Apart /\ InStep /\ QueueAgrees

LEMMA Accounted == IInv => BoxesAccounted
<1> SUFFICES ASSUME IInv PROVE BoxesAccounted
  OBVIOUS
<1>1. \A i, j \in 1..Len(freelist) : i # j => freelist[i] # freelist[j]
  BY DEF IInv, Apart, Distinct
<1>2. \A s \in Holding, i \in 1..Len(freelist) : box[s] # freelist[i]
  BY DEF IInv, Apart, Elems
<1> QED BY <1>1, <1>2 DEF IInv, Apart, InStep, Between, BoxesAccounted

PcSet == {"idle", "take", "blocked", "box", "mark", "load", "undo",
          "retry", "wait", "asleep", "woken", "collect", "release"}
HoldPc == {"mark", "load", "undo", "wait", "asleep", "woken", "collect"}
BetweenPc == {"box", "retry", "release"}

LEMMA Sets ==
    /\ Holding = {s \in Senders : pc[s] \in HoldPc}
    /\ Between = {s \in Senders : pc[s] \in BetweenPc}
    /\ Holding \in SUBSET Senders /\ Between \in SUBSET Senders
BY DEF Holding, Between, HoldPc, BetweenPc

\* A step of one sender, and what it is afterwards.
LEMMA Moved ==
    ASSUME TypeOK, NEW s \in Senders, NEW v \in PcSet, pc' = [pc EXCEPT ![s] = v]
    PROVE  /\ pc' \in [Senders -> PcSet]
           /\ Holding' = IF v \in HoldPc THEN Holding \cup {s} ELSE Holding \ {s}
           /\ Between' = IF v \in BetweenPc THEN Between \cup {s} ELSE Between \ {s}
           /\ Blocked' = IF v = "blocked" THEN Blocked \cup {s} ELSE Blocked \ {s}
<1>1. pc \in [Senders -> PcSet] /\ \A x \in Senders : pc'[x] = IF x = s THEN v ELSE pc[x]
  BY DEF TypeOK, PcSet
<1>2. pc' \in [Senders -> PcSet]
  BY <1>1
<1>3. Holding' = IF v \in HoldPc THEN Holding \cup {s} ELSE Holding \ {s}
  BY <1>1 DEF Holding, HoldPc
<1>4. Between' = IF v \in BetweenPc THEN Between \cup {s} ELSE Between \ {s}
  BY <1>1 DEF Between, BetweenPc
<1>5. Blocked' = IF v = "blocked" THEN Blocked \cup {s} ELSE Blocked \ {s}
  BY <1>1 DEF Blocked
<1> QED BY <1>2, <1>3, <1>4, <1>5

\* A step that moves no box and no token.
LEMMA Frame ==
    ASSUME IInv, TypeOK', UNCHANGED <<freelist, sem, semQ>>,
           Holding' = Holding, Between' = Between, Blocked' = Blocked,
           \A s \in Holding : box'[s] = box[s]
    PROVE  IInv'
<1>1. Apart'
  BY DEF IInv, Apart
<1>2. InStep'
  BY DEF IInv, InStep
<1>3. QueueAgrees'
  BY DEF IInv, QueueAgrees
<1> QED BY <1>1, <1>2, <1>3 DEF IInv

-----------------------------------------------------------------------------
(* The controller and the interrupts                                       *)

LEMMA BusSafe ==
    ASSUME IInv, NEW b \in Boxes, BusEnd(b) \/ BusError(b) \/ ErrorEnd(b)
    PROVE  IInv'
<1> USE DEF isrVars, boxVars, semVars, thrVars
<1>1. UNCHANGED <<state, isr, errtype, freelist, result, done, sem, semQ, pc, box, res>>
  BY DEF BusEnd, BusError, ErrorEnd
<1>2. ASSUME NEW o \in {"ok", "lost"}, Complete(b, o)
      PROVE  /\ mail' \in [Boxes -> Senders \cup {None}] /\ failing' \subseteq Boxes
             /\ rqcp' \subseteq Boxes /\ txok' \subseteq rqcp'
             /\ fate' \in [Boxes -> {None, "pending", "ok", "lost"}]
  BY <1>2 DEF Complete, IInv, TypeOK
<1>3. /\ mail' \in [Boxes -> Senders \cup {None}] /\ failing' \subseteq Boxes
      /\ rqcp' \subseteq Boxes /\ txok' \subseteq rqcp'
      /\ fate' \in [Boxes -> {None, "pending", "ok", "lost"}]
  BY <1>2 DEF BusEnd, BusError, ErrorEnd, IInv, TypeOK
<1>4. lec' \in ErrorKinds \cup {None}
  BY DEF BusEnd, BusError, ErrorEnd, IInv, TypeOK
<1>5. TypeOK'
  BY <1>1, <1>3, <1>4 DEF IInv, TypeOK
<1> QED BY <1>1, <1>5, Frame DEF Holding, Between, Blocked

\* A sender that is told stays where it holds its box.
LEMMA Told ==
    ASSUME TypeOK, NEW b \in Boxes, NEW v \in {"ok", "err"}, HwCanIsr(b, v)
    PROVE  /\ result' \in [Boxes -> {"ok", "err", "wait"}] /\ done' \subseteq Boxes
           /\ pc' \in [Senders -> PcSet]
           /\ Holding' = Holding /\ Between' = Between /\ Blocked' = Blocked
<1>1. result' \in [Boxes -> {"ok", "err", "wait"}] /\ done' \subseteq Boxes
  BY DEF TypeOK, HwCanIsr, CompletionDone
<1>2. /\ pc \in [Senders -> PcSet] /\ pc' \in [Senders -> PcSet]
      /\ \A s \in Senders : pc'[s] = pc[s] \/ (pc[s] = "asleep" /\ pc'[s] = "woken")
  <2>1. pc \in [Senders -> PcSet]
    BY DEF TypeOK, PcSet
  <2>2. CASE b \in done
    <3>1. pc' = pc
      BY <2>2 DEF HwCanIsr, CompletionDone
    <3> QED BY <2>1, <3>1
  <2>3. CASE b \notin done
    <3>1. pc' = [s \in Senders |->
                   IF pc[s] = "asleep" /\ box[s] = b THEN "woken" ELSE pc[s]]
      BY <2>3 DEF HwCanIsr, CompletionDone
    <3>2. \A s \in Senders : pc'[s] = pc[s] \/ (pc[s] = "asleep" /\ pc'[s] = "woken")
      BY <3>1
    <3>3. \A s \in Senders : pc'[s] \in PcSet
      BY <2>1, <3>2 DEF PcSet
    <3> QED BY <2>1, <3>1, <3>2, <3>3
  <2> QED BY <2>2, <2>3
<1>3. Holding' = Holding /\ Between' = Between /\ Blocked' = Blocked
  BY <1>2 DEF Holding, Between, Blocked
<1> QED BY <1>1, <1>2, <1>3

LEMMA TxIsrSafe == ASSUME IInv, TxIsr PROVE IInv'
<1> DEFINE b == CHOOSE x \in rqcp : \A y \in rqcp : x <= y
<1>1. b \in Boxes
  <2>1. rqcp \subseteq Boxes /\ rqcp # {}
    BY DEF IInv, TypeOK, TxIsr
  <2>2. \E x \in rqcp : \A y \in rqcp : x <= y
    <3>1. rqcp \subseteq {0, 1, 2}
      BY <2>1, TxAssumption, SMT DEF TxAssumption, Boxes
    <3>2. CASE 0 \in rqcp
      BY <3>1, <3>2, SMT
    <3>3. CASE 0 \notin rqcp /\ 1 \in rqcp
      <4>1. \A y \in rqcp : y \in {1, 2}
        BY <3>1, <3>3
      <4>2. \A y \in rqcp : 1 <= y
        BY <4>1, SMT
      <4> QED BY <3>3, <4>2
    <3>4. CASE 0 \notin rqcp /\ 1 \notin rqcp
      <4>1. rqcp = {2}
        BY <2>1, <3>1, <3>4
      <4>2. \A y \in rqcp : 2 <= y
        BY <4>1, SMT
      <4> QED BY <4>1, <4>2
    <3> QED BY <3>2, <3>3, <3>4
  <2> QED BY <2>1, <2>2
<1>2. PICK v \in {"ok", "err"} : HwCanIsr(b, v)
  BY DEF TxIsr
<1> HIDE DEF b
<1>3. /\ result' \in [Boxes -> {"ok", "err", "wait"}] /\ done' \subseteq Boxes
      /\ pc' \in [Senders -> PcSet]
      /\ Holding' = Holding /\ Between' = Between /\ Blocked' = Blocked
  BY <1>1, <1>2, Told DEF IInv
<1>4. /\ rqcp' = {} /\ txok' = {}
      /\ UNCHANGED <<mail, failing, lec, fate, state, isr, errtype, freelist, sem, semQ, box, res>>
  BY DEF TxIsr, isrVars, semVars
<1>5. TypeOK'
  BY <1>3, <1>4 DEF IInv, TypeOK, PcSet
<1> QED BY <1>3, <1>4, <1>5, Frame

LEMMA SceSafe ==
    ASSUME IInv, SceEnter \/ SceHal \/ SceSwitch
    PROVE  IInv'
<1> USE DEF hwVars, isrVars, boxVars, semVars, thrVars
<1>1. CASE SceEnter
  <2>1. TypeOK'
    BY <1>1 DEF IInv, TypeOK, SceEnter
  <2> QED BY <1>1, <2>1, Frame DEF SceEnter, Holding, Between, Blocked
<1>2. CASE SceHal
  <2>1. TypeOK'
    BY <1>2 DEF IInv, TypeOK, SceHal
  <2> QED BY <1>2, <2>1, Frame DEF SceHal, Holding, Between, Blocked
<1>3. CASE SceSwitch
  <2>1. 0 \in Boxes
    BY Constants, SMT DEF Boxes
  <2>2. /\ isr' = "off" /\ errtype' = None
        /\ UNCHANGED <<mail, failing, rqcp, txok, lec, fate, state, freelist, sem, semQ, box, res>>
        /\ HwCanIsr(0, "err") \/ UNCHANGED <<result, done, pc>>
    BY <1>3 DEF SceSwitch
  <2>3. /\ result' \in [Boxes -> {"ok", "err", "wait"}] /\ done' \subseteq Boxes
        /\ pc' \in [Senders -> PcSet]
        /\ Holding' = Holding /\ Between' = Between /\ Blocked' = Blocked
    <3>1. CASE HwCanIsr(0, "err")
      BY <3>1, <2>1, Told DEF IInv
    <3>2. CASE UNCHANGED <<result, done, pc>>
      BY <3>2 DEF IInv, TypeOK, PcSet, Holding, Between, Blocked
    <3> QED BY <2>2, <3>1, <3>2
  <2>4. TypeOK'
    BY <2>2, <2>3 DEF IInv, TypeOK, PcSet
  <2> QED BY <2>2, <2>3, <2>4, Frame
<1> QED BY <1>1, <1>2, <1>3

-----------------------------------------------------------------------------
(* The senders                                                             *)

\* What holds of a sender at its next step.
LEMMA Now ==
    ASSUME IInv, NEW s \in Senders
    PROVE  /\ pc \in [Senders -> PcSet] /\ box \in [Senders -> Boxes] /\ box[s] \in Boxes
           /\ freelist \in Seq(Boxes) /\ Len(freelist) \in Nat
           /\ semQ \in Seq(Senders) /\ sem \in Nat
           /\ (s \in Holding) = (pc[s] \in HoldPc) /\ (s \in Between) = (pc[s] \in BetweenPc)
           /\ (s \in Blocked) = (pc[s] = "blocked")
<1>1. freelist \in Seq(Boxes) /\ semQ \in Seq(Senders) /\ sem \in 0..BoxNum
      /\ pc \in [Senders -> PcSet] /\ box \in [Senders -> Boxes]
  BY DEF IInv, TypeOK, PcSet
<1>2. Len(freelist) \in Nat /\ sem \in Nat
  BY <1>1, SMT
<1> QED BY <1>1, <1>2, Sets DEF Blocked

LEMMA SemTakeSafe == ASSUME IInv, NEW s \in Senders, SemTake(s) PROVE IInv'
<1>1. pc[s] \in {"idle", "take"} /\ UNCHANGED <<hwVars, state, isrVars, boxVars, box, res>>
  BY DEF SemTake
<1>2. s \notin Holding /\ s \notin Between /\ s \notin Blocked
  BY <1>1, Now DEF HoldPc, BetweenPc
<1>3. CASE sem > 0
  <2>1. sem' = sem - 1 /\ semQ' = semQ /\ pc' = [pc EXCEPT ![s] = "box"]
    BY <1>3 DEF SemTake, Goto
  <2>2. /\ pc' \in [Senders -> PcSet] /\ Holding' = Holding \ {s}
        /\ Between' = Between \cup {s} /\ Blocked' = Blocked \ {s}
    BY <2>1, Moved DEF IInv, PcSet, HoldPc, BetweenPc
  <2>3. Holding' = Holding /\ Blocked' = Blocked
    BY <1>2, <2>2
  <2>4. Cardinality(Between') = Cardinality(Between) + 1 /\ Cardinality(Between) \in Nat
    BY <1>2, <2>2, Sets, Counts
  <2>5. sem' \in 0..BoxNum
    BY <1>3, <2>1, Constants, SMT DEF IInv, TypeOK
  <2>6. TypeOK'
    BY <1>1, <2>1, <2>2, <2>5
    DEF IInv, TypeOK, PcSet, hwVars, isrVars, boxVars
  <2>7. InStep'
    <3>1. sem' + Cardinality(Between') = Len(freelist)
      BY <2>1, <2>4, Now, SMT DEF IInv, InStep
    <3>2. sem' > 0 => semQ' = <<>>
      BY <1>3, <2>1 DEF IInv, InStep
    <3> QED BY <1>1, <2>3, <3>1, <3>2 DEF IInv, InStep, boxVars
  <2>8. Apart' /\ QueueAgrees'
    BY <1>1, <2>1, <2>3 DEF IInv, Apart, QueueAgrees, boxVars
  <2> QED BY <2>6, <2>7, <2>8 DEF IInv
<1>4. CASE ~(sem > 0)
  <2>1. sem' = sem /\ semQ' = Append(semQ, s) /\ pc' = [pc EXCEPT ![s] = "blocked"]
    BY <1>4 DEF SemTake, Goto
  <2>2. /\ pc' \in [Senders -> PcSet] /\ Holding' = Holding \ {s}
        /\ Between' = Between \ {s} /\ Blocked' = Blocked \cup {s}
    BY <2>1, Moved DEF IInv, PcSet, HoldPc, BetweenPc
  <2>3. Holding' = Holding /\ Between' = Between
    BY <1>2, <2>2
  <2>4. semQ' \in Seq(Senders) /\ Distinct(semQ') /\ Elems(semQ') = Elems(semQ) \cup {s}
    BY <1>2, <2>1, Now, AppendFacts, AppendElems DEF IInv, QueueAgrees
  <2>5. TypeOK'
    BY <1>1, <2>1, <2>2, <2>4
    DEF IInv, TypeOK, PcSet, hwVars, isrVars, boxVars
  <2>6. InStep' /\ Apart'
    BY <1>1, <1>4, <2>1, <2>3 DEF IInv, InStep, Apart, boxVars
  <2> QED BY <2>2, <2>4, <2>5, <2>6 DEF IInv, QueueAgrees
<1> QED BY <1>3, <1>4

LEMMA TakeBoxSafe == ASSUME IInv, NEW s \in Senders, TakeBox(s) PROVE IInv'
<1>1. /\ pc[s] = "box" /\ pc' = [pc EXCEPT ![s] = "mark"]
      /\ box' = [box EXCEPT ![s] = Head(freelist)] /\ freelist' = Tail(freelist)
      /\ UNCHANGED <<hwVars, state, isrVars, result, done, semVars, res>>
  BY DEF TakeBox, Goto
<1>2. s \notin Holding /\ s \in Between /\ s \notin Blocked
  BY <1>1, Now DEF HoldPc, BetweenPc
<1>3. /\ pc' \in [Senders -> PcSet] /\ Holding' = Holding \cup {s}
      /\ Between' = Between \ {s} /\ Blocked' = Blocked \ {s}
  BY <1>1, Moved DEF IInv, PcSet, HoldPc, BetweenPc
<1>4. /\ Cardinality(Holding') = Cardinality(Holding) + 1 /\ Cardinality(Holding) \in Nat
      /\ Cardinality(Between') = Cardinality(Between) - 1 /\ Cardinality(Between) >= 1
      /\ Cardinality(Between) \in Nat
  BY <1>2, <1>3, Sets, Counts
<1>5. freelist \in Seq(Boxes) /\ freelist # <<>> /\ Distinct(freelist)
  <2>1. Len(freelist) >= 1
    BY <1>4, Now, SMT DEF IInv, InStep
  <2>2. freelist \in Seq(Boxes) /\ freelist # <<>>
    BY <2>1, Now, SMT
  <2> QED BY <2>2 DEF IInv, Apart
<1>6. PICK b \in Boxes : b = Head(freelist)
  BY <1>5, TailFacts
<1>7. /\ freelist' \in Seq(Boxes) /\ Len(freelist') = Len(freelist) - 1 /\ Distinct(freelist')
      /\ b \in Elems(freelist) /\ Elems(freelist') = Elems(freelist) \ {b}
  BY <1>1, <1>5, <1>6, TailFacts, TailElems
<1>8. box' \in [Senders -> Boxes] /\ box'[s] = b /\ \A x \in Holding : box'[x] = box[x]
  BY <1>1, <1>2, <1>6, Now
<1>9. TypeOK'
  BY <1>1, <1>3, <1>7, <1>8 DEF IInv, TypeOK, PcSet, hwVars, isrVars, semVars
<1>10. Apart'
  <2>1. \A x \in Holding : box'[x] # b /\ box'[x] \notin Elems(freelist)
    BY <1>7, <1>8 DEF IInv, Apart
  <2>2. \A x, y \in Holding' : x # y => box'[x] # box'[y]
    BY <1>3, <1>8, <2>1 DEF IInv, Apart
  <2> QED BY <1>3, <1>7, <1>8, <2>1, <2>2 DEF Apart
<1>11. InStep'
  <2>1. Len(freelist') + Cardinality(Holding') = BoxNum
    BY <1>4, <1>7, Now, SMT DEF IInv, InStep
  <2>2. sem' + Cardinality(Between') = Len(freelist')
    <3>1. sem' = sem /\ sem + Cardinality(Between) = Len(freelist)
      BY <1>1 DEF IInv, InStep, semVars
    <3>2. Len(freelist') = Len(freelist) - 1 /\ Len(freelist) \in Nat /\ sem \in Nat
      BY <1>7, Now
    <3> QED BY <1>4, <3>1, <3>2, SMT
  <2>3. sem' > 0 => semQ' = <<>>
    BY <1>1 DEF IInv, InStep, semVars
  <2> QED BY <2>1, <2>2, <2>3 DEF InStep
<1>12. QueueAgrees'
  BY <1>1, <1>2, <1>3 DEF IInv, QueueAgrees, semVars
<1> QED BY <1>9, <1>10, <1>11, <1>12 DEF IInv

\* The steps between the box and the result leave the lists alone.
LEMMA HoldingSafe ==
    ASSUME IInv, NEW s \in Senders, MarkWait(s) \/ SendMsg(s) \/ Wait(s) \/ Woken(s)
    PROVE  IInv'
<1>1. /\ pc[s] \in {"mark", "load", "wait", "woken"}
      /\ UNCHANGED <<failing, rqcp, txok, lec, isrVars, freelist, semVars, box, res>>
  BY DEF MarkWait, SendMsg, Wait, Woken, hwVars, boxVars
<1>2. PICK v \in {"load", "wait", "undo", "collect", "asleep"} : pc' = [pc EXCEPT ![s] = v]
  BY DEF MarkWait, SendMsg, Wait, Woken, Goto
<1>3. s \in Holding /\ s \notin Between /\ s \notin Blocked
  BY <1>1, Now DEF HoldPc, BetweenPc
<1>4. /\ pc' \in [Senders -> PcSet] /\ Holding' = Holding \cup {s}
      /\ Between' = Between \ {s} /\ Blocked' = Blocked \ {s}
  <2>1. v \in PcSet /\ v \in HoldPc /\ v \notin BetweenPc /\ v # "blocked"
    BY <1>2 DEF PcSet, HoldPc, BetweenPc
  <2> QED BY <1>2, <2>1, Moved DEF IInv
<1>5. box[s] \in Boxes
  BY Now
<1>6. /\ mail' \in [Boxes -> Senders \cup {None}]
      /\ fate' \in [Boxes -> {None, "pending", "ok", "lost"}]
      /\ state' \in {"ready", "error"}
  BY <1>5 DEF MarkWait, SendMsg, Wait, Woken, hwVars, IInv, TypeOK
<1>7. result' \in [Boxes -> {"ok", "err", "wait"}] /\ done' \subseteq Boxes
  BY <1>5 DEF MarkWait, SendMsg, Wait, Woken, boxVars, IInv, TypeOK
<1>8. TypeOK'
  BY <1>1, <1>4, <1>6, <1>7 DEF IInv, TypeOK, PcSet, isrVars, semVars
<1> QED BY <1>1, <1>3, <1>4, <1>8, Frame DEF semVars

\* A box goes back to the list, at its end or at its front.
LEMMA BackSafe ==
    ASSUME IInv, NEW s \in Senders, UndoBox(s) \/ Collect(s)
    PROVE  IInv'
<1>1. /\ pc[s] \in HoldPc
      /\ UNCHANGED <<hwVars, state, isrVars, result, done, semVars, box>>
  BY DEF UndoBox, Collect, HoldPc, thrVars
<1>2. PICK v \in {"retry", "release"} : pc' = [pc EXCEPT ![s] = v]
  BY DEF UndoBox, Collect, Goto
<1>3. s \in Holding /\ s \notin Between /\ s \notin Blocked /\ box[s] \in Boxes
  BY <1>1, Now DEF HoldPc, BetweenPc
<1>4. /\ pc' \in [Senders -> PcSet] /\ Holding' = Holding \ {s}
      /\ Between' = Between \cup {s} /\ Blocked' = Blocked \ {s}
  <2>1. v \in PcSet /\ v \notin HoldPc /\ v \in BetweenPc /\ v # "blocked"
    BY <1>2 DEF PcSet, HoldPc, BetweenPc
  <2> QED BY <1>2, <2>1, Moved DEF IInv
<1>5. /\ Cardinality(Holding') = Cardinality(Holding) - 1 /\ Cardinality(Holding) \in Nat
      /\ Cardinality(Between') = Cardinality(Between) + 1 /\ Cardinality(Between) \in Nat
  BY <1>3, <1>4, Sets, Counts
<1>6. freelist \in Seq(Boxes) /\ Distinct(freelist) /\ box[s] \notin Elems(freelist)
  BY <1>3, Now DEF IInv, Apart
<1>7. /\ freelist' \in Seq(Boxes) /\ Len(freelist') = Len(freelist) + 1
      /\ Distinct(freelist') /\ Elems(freelist') = Elems(freelist) \cup {box[s]}
  <2>1. CASE freelist' = Append(freelist, box[s])
    BY <2>1, <1>3, <1>6, AppendFacts, AppendElems
  <2>2. CASE freelist' = <<box[s]>> \o freelist
    BY <2>2, <1>3, <1>6, FrontFacts, FrontDistinct
  <2> QED BY <2>1, <2>2 DEF UndoBox, Collect
<1>8. res' \in [Senders -> {None, "ok", "err", "wait"}]
  BY <1>3 DEF UndoBox, Collect, IInv, TypeOK
<1>9. TypeOK'
  BY <1>1, <1>4, <1>7, <1>8 DEF IInv, TypeOK, PcSet, hwVars, isrVars, semVars
<1>10. Apart'
  <2>1. box' = box /\ \A x \in Holding' : x \in Holding /\ box[x] # box[s]
    BY <1>1, <1>3, <1>4 DEF IInv, Apart
  <2> QED BY <1>7, <2>1 DEF IInv, Apart
<1>11. InStep'
  <2>1. Len(freelist') + Cardinality(Holding') = BoxNum
    BY <1>5, <1>7, Now, SMT DEF IInv, InStep
  <2>2. sem' + Cardinality(Between') = Len(freelist')
    <3>1. sem' = sem /\ sem + Cardinality(Between) = Len(freelist)
      BY <1>1 DEF IInv, InStep, semVars
    <3> QED BY <1>5, <1>7, <3>1, Now, SMT
  <2>3. sem' > 0 => semQ' = <<>>
    BY <1>1 DEF IInv, InStep, semVars
  <2> QED BY <2>1, <2>2, <2>3 DEF InStep
<1>12. QueueAgrees'
  BY <1>1, <1>3, <1>4 DEF IInv, QueueAgrees, semVars
<1> QED BY <1>9, <1>10, <1>11, <1>12 DEF IInv

LEMMA ReleaseSafe == ASSUME IInv, NEW s \in Senders, Release(s) PROVE IInv'
<1>1. /\ pc[s] \in {"release", "retry"}
      /\ UNCHANGED <<hwVars, state, isrVars, boxVars, box, res>>
  BY DEF Release
<1>2. PICK v \in {"idle", "take"} : v = AfterRelease(s)
  BY DEF AfterRelease
<1>3. s \notin Holding /\ s \in Between /\ s \notin Blocked
  BY <1>1, Now DEF HoldPc, BetweenPc
<1>4. Cardinality(Between \ {s}) = Cardinality(Between) - 1 /\ Cardinality(Between) \in Nat
      /\ Cardinality(Between) >= 1
  BY <1>3, Sets, Counts
<1>5. v \in PcSet /\ v \notin HoldPc /\ v \notin BetweenPc /\ v # "blocked"
  BY <1>2 DEF PcSet, HoldPc, BetweenPc
<1>6. CASE semQ = <<>>
  <2>1. sem' = sem + 1 /\ semQ' = semQ /\ pc' = [pc EXCEPT ![s] = v]
    BY <1>2, <1>6 DEF Release
  <2>2. /\ pc' \in [Senders -> PcSet] /\ Holding' = Holding \ {s}
        /\ Between' = Between \ {s} /\ Blocked' = Blocked \ {s}
    BY <1>5, <2>1, Moved DEF IInv
  <2>3. Holding' = Holding /\ Blocked' = Blocked
    BY <1>3, <2>2
  <2>4. sem' + Cardinality(Between') = Len(freelist)
    <3>1. sem + Cardinality(Between) = Len(freelist)
      BY DEF IInv, InStep
    <3> QED BY <1>4, <2>1, <2>2, <3>1, Now, SMT
  <2>5. sem' \in 0..BoxNum
    <3>1. Len(freelist) + Cardinality(Holding) = BoxNum /\ Cardinality(Holding) \in Nat
      BY Sets, Counts DEF IInv, InStep
    <3>2. sem' \in Nat /\ Cardinality(Between') \in Nat
      BY <1>4, <2>1, <2>2, Now, SMT
    <3> QED BY <2>4, <3>1, <3>2, Now, Constants, SMT
  <2>6. TypeOK'
    BY <1>1, <2>1, <2>2, <2>5
    DEF IInv, TypeOK, PcSet, hwVars, isrVars, boxVars
  <2>7. InStep'
    BY <1>1, <1>6, <2>1, <2>3, <2>4 DEF IInv, InStep, boxVars
  <2>8. Apart' /\ QueueAgrees'
    BY <1>1, <2>1, <2>3 DEF IInv, Apart, QueueAgrees, boxVars
  <2> QED BY <2>6, <2>7, <2>8 DEF IInv
<1>7. CASE semQ # <<>>
  <2>1. semQ \in Seq(Senders) /\ Distinct(semQ) /\ Elems(semQ) = Blocked
    BY Now DEF IInv, QueueAgrees
  <2>2. PICK h \in Senders : h = Head(semQ) /\ h \in Blocked
    BY <1>7, <2>1, TailFacts, TailElems
  <2>3. sem' = sem /\ semQ' = Tail(semQ)
        /\ pc' = [[pc EXCEPT ![s] = v] EXCEPT ![h] = "box"]
    BY <1>2, <1>7, <2>2 DEF Release
  <2>4. /\ semQ' \in Seq(Senders) /\ Distinct(semQ') /\ Elems(semQ') = Blocked \ {h}
    BY <1>7, <2>1, <2>2, <2>3, TailFacts, TailElems
  <2>5. h # s /\ h \notin Between /\ h \notin Holding
    BY <1>3, <2>2, Now DEF HoldPc, BetweenPc
  <2>6. /\ pc' \in [Senders -> PcSet]
        /\ \A x \in Senders : pc'[x] = IF x = h THEN "box" ELSE IF x = s THEN v ELSE pc[x]
    <3>1. pc \in [Senders -> PcSet] /\ "box" \in PcSet
      BY Now DEF PcSet
    <3> QED BY <3>1, <1>5, <2>3
  <2>7. Holding' = Holding
    BY <1>3, <1>5, <2>5, <2>6 DEF Holding, HoldPc
  <2>8. Between' = (Between \ {s}) \cup {h}
    BY <1>5, <2>5, <2>6 DEF Between, BetweenPc
  <2>9. Blocked' = Blocked \ {h}
    BY <1>3, <1>5, <2>5, <2>6 DEF Blocked
  <2>10. Cardinality(Between') = Cardinality(Between)
    <3>1. Cardinality((Between \ {s}) \cup {h}) = Cardinality(Between \ {s}) + 1
      <4>1. Between \ {s} \in SUBSET Senders /\ h \notin Between \ {s}
        BY <2>5, Sets
      <4> QED BY <4>1, Counts
    <3> QED BY <1>4, <2>8, <3>1, SMT
  <2>11. TypeOK'
    BY <1>1, <2>3, <2>4, <2>6
    DEF IInv, TypeOK, PcSet, hwVars, isrVars, boxVars
  <2>12. ~(sem > 0)
    BY <1>7 DEF IInv, InStep
  <2>13. InStep'
    BY <1>1, <2>3, <2>7, <2>10, <2>12 DEF IInv, InStep, boxVars
  <2>14. Apart' /\ QueueAgrees'
    BY <1>1, <2>4, <2>7, <2>9 DEF IInv, Apart, QueueAgrees, boxVars
  <2> QED BY <2>11, <2>13, <2>14 DEF IInv
<1> QED BY <1>6, <1>7

-----------------------------------------------------------------------------
(* The theorems                                                            *)

LEMMA InitSafe == Init => IInv
<1> SUFFICES ASSUME Init PROVE IInv
  OBVIOUS
<1>1. /\ freelist = [i \in 1..BoxNum |-> i - 1] /\ sem = BoxNum /\ semQ = <<>>
      /\ pc = [s \in Senders |-> "idle"]
  BY DEF Init
<1>2. /\ freelist \in Seq(Boxes) /\ Len(freelist) = BoxNum
      /\ \A i \in 1..BoxNum : freelist[i] = i - 1
  <2>1. \A i \in 1..BoxNum : i - 1 \in Boxes
    BY Constants, SMT DEF Boxes
  <2> QED BY <1>1, <2>1, Constants, SMT
<1>3. Holding = {} /\ Between = {} /\ Blocked = {}
  BY <1>1 DEF Holding, Between, Blocked
<1>4. TypeOK
  <2>1. 0 \in Boxes /\ sem \in 0..BoxNum /\ semQ \in Seq(Senders)
    BY <1>1, Constants, SMT DEF Boxes
  <2>2. pc \in [Senders -> PcSet]
    BY <1>1 DEF PcSet
  <2> QED BY <1>2, <2>1, <2>2 DEF Init, TypeOK, PcSet
<1>5. Distinct(freelist)
  BY <1>2, Constants, SMT DEF Distinct
<1>6. Apart
  BY <1>3, <1>5 DEF Apart
<1>7. InStep
  <2>1. Cardinality({}) = 0
    BY FS_EmptySet
  <2> QED BY <1>1, <1>2, <1>3, <2>1, Constants, SMT DEF InStep
<1>8. QueueAgrees
  BY <1>1, <1>3, SMT DEF QueueAgrees, Distinct, Elems
<1> QED BY <1>4, <1>6, <1>7, <1>8 DEF IInv

LEMMA NextSafe == IInv /\ [Next]_vars => IInv'
<1> SUFFICES ASSUME IInv, [Next]_vars PROVE IInv'
  OBVIOUS
<1>1. CASE UNCHANGED vars
  <2>1. UNCHANGED <<mail, failing, rqcp, txok, lec, fate, state, isr, errtype, freelist,
                    result, done, sem, semQ, pc, box, res>>
    BY <1>1 DEF vars, hwVars, isrVars, boxVars, semVars, thrVars
  <2>2. TypeOK'
    BY <2>1 DEF IInv, TypeOK
  <2> QED BY <2>1, <2>2, Frame DEF Holding, Between, Blocked
<1>2. CASE Bus
  BY <1>2, BusSafe DEF Bus
<1>3. CASE Isr
  BY <1>3, TxIsrSafe, SceSafe DEF Isr
<1>4. ASSUME NEW s \in Senders, Sender(s) PROVE IInv'
  BY <1>4, SemTakeSafe, TakeBoxSafe, HoldingSafe, BackSafe, ReleaseSafe DEF Sender
<1> QED BY <1>1, <1>2, <1>3, <1>4 DEF Next

LEMMA Invariance == Spec => []IInv
BY InitSafe, NextSafe, PTL DEF Spec

\* Types are kept: the free list is not empty when _can_int_tx takes from it, and
\* the semaphore does not count past the number of boxes.
THEOREM Typing == Spec => []TypeOK
<1>1. IInv => TypeOK
  BY DEF IInv
<1> QED BY <1>1, Invariance, PTL

\* _can_int_tx keeps send boxes and tokens in step, whatever errors and refusals
\* there are and however many threads send.
THEOREM NoBoxLost == Spec => []BoxesAccounted
BY Accounted, Invariance, PTL

\* A frame in a mailbox stays until the controller is done with it.
THEOREM MailboxKept == Spec => NeverOverwritten
<1>1. IInv /\ [Next]_vars => \A b \in Boxes : mail[b] # None => mail'[b] \in {mail[b], None}
  <2> SUFFICES ASSUME IInv, [Next]_vars, NEW b \in Boxes, mail[b] # None
               PROVE  mail'[b] \in {mail[b], None}
    OBVIOUS
  <2> USE DEF vars, hwVars, isrVars, boxVars, semVars, thrVars
  <2>1. mail \in [Boxes -> Senders \cup {None}]
    BY DEF IInv, TypeOK
  <2>2. CASE UNCHANGED vars \/ Isr
    BY <2>2 DEF Isr, TxIsr, SceEnter, SceHal, SceSwitch
  <2>3. CASE Bus
    BY <2>1, <2>3 DEF Bus, BusEnd, BusError, ErrorEnd, Complete
  <2>4. ASSUME NEW s \in Senders, Sender(s) PROVE mail'[b] \in {mail[b], None}
    <3>1. CASE SendMsg(s)
      BY <2>1, <3>1 DEF SendMsg
    <3>2. CASE ~SendMsg(s)
      BY <2>4, <3>2 DEF Sender, SemTake, TakeBox, MarkWait, UndoBox, Wait, Woken, Collect, Release
    <3> QED BY <3>1, <3>2
  <2> QED BY <2>2, <2>3, <2>4 DEF Next
<1> QED BY <1>1, Invariance, PTL DEF Spec, NeverOverwritten

-----------------------------------------------------------------------------
(* One send box and no bus errors: the service                             *)

Calm == lec = None /\ isr = "off" /\ failing = {}

InFlight == mail[0] # None \/ 0 \in rqcp
Answered == (result[0] = "ok" /\ fate[0] = "ok") \/ (result[0] = "err" /\ fate[0] = "lost")

\* The mailbox and its flags tell what became of the frame.
Flags ==
    /\ mail[0] # None => 0 \notin rqcp /\ fate[0] = "pending"
    /\ 0 \in rqcp => fate[0] \in {"ok", "lost"} /\ (0 \in txok <=> fate[0] = "ok")

\* Where the holder of the box is, its frame is.
Follows(s) ==
    /\ pc[s] \in {"mark", "load", "undo"} => ~InFlight /\ done = {}
    /\ pc[s] = "wait" => IF done = {} THEN InFlight ELSE ~InFlight /\ Answered
    /\ pc[s] = "asleep" => done = {} /\ InFlight
    /\ pc[s] = "woken" => done # {} /\ ~InFlight /\ Answered
    /\ pc[s] = "collect" => done = {} /\ ~InFlight /\ Answered

ServiceInv ==
    /\ Calm /\ Flags
    /\ \A s \in Holding : Follows(s)
    /\ Holding = {} => ~InFlight /\ done = {}

LEMMA OneBox ==
    ASSUME IInv, BoxNum = 1
    PROVE  /\ Boxes = {0} /\ \A s \in Senders : box[s] = 0
           /\ \A s, t \in Holding : s = t
           /\ rqcp \subseteq {0} /\ txok \subseteq rqcp /\ done \subseteq {0}
           /\ Holding \subseteq Senders
<1>1. Boxes = {0}
  BY SMT DEF Boxes
<1>2. \A s \in Senders : box[s] = 0
  BY <1>1 DEF IInv, TypeOK
<1>3. \A s, t \in Holding : s = t
  BY <1>2, Sets DEF IInv, Apart
<1>4. rqcp \subseteq {0} /\ txok \subseteq rqcp /\ done \subseteq {0}
  BY <1>1 DEF IInv, TypeOK
<1> QED BY <1>1, <1>2, <1>3, <1>4, Sets

\* The steps of a sender that holds the box afterwards.
LEMMA HolderInv ==
    ASSUME IInv', BoxNum = 1, NEW s \in Senders, s \in Holding',
           Calm', Flags', Follows(s)'
    PROVE  ServiceInv'
<1>1. \A t \in Holding' : t = s
  <2>1. Boxes = {0}
    BY SMT DEF Boxes
  <2>2. \A t \in Senders : box'[t] = 0
    BY <2>1 DEF IInv, TypeOK
  <2>3. Holding' \subseteq Senders
    BY DEF Holding
  <2> QED BY <2>2, <2>3 DEF IInv, Apart
<1> QED BY <1>1 DEF ServiceInv

\* The steps of the senders that do not hold it.
LEMMA OutsideInv ==
    ASSUME ServiceInv,
           UNCHANGED <<mail, failing, rqcp, txok, lec, fate, isr, result, done>>,
           Holding' = Holding, \A s \in Holding : pc'[s] = pc[s]
    PROVE  ServiceInv'
<1>1. Calm' /\ Flags' /\ InFlight' = InFlight /\ Answered' = Answered
  BY DEF ServiceInv, Calm, Flags, InFlight, Answered
<1>2. \A s \in Holding : Follows(s)'
  BY <1>1 DEF ServiceInv, Follows
<1> QED BY <1>1, <1>2 DEF ServiceInv

Phases == [s \in Senders |-> Phase(s)]
Answers == [s \in Senders |-> IF res[s] = "err" THEN "lost" ELSE res[s]]

\* A step that concerns the phase of one sender.
LEMMA OnePhase ==
    ASSUME NEW s \in Senders, \A x \in Senders \ {s} : Phase(x)' = Phase(x)
    PROVE  Phases' = [Phases EXCEPT ![s] = Phase(s)']
BY DEF Phases

LEMMA OthersPhases ==
    ASSUME IInv, IInv', BoxNum = 1, NEW s \in Senders,
           \A x \in Senders \ {s} :
              pc'[x] = pc[x] \/ (pc[x] = "blocked" /\ pc'[x] = "box"),
           fate' = fate \/ s \in Holding
    PROVE  Phases' = [Phases EXCEPT ![s] = Phase(s)']
<1>1. \A x \in Senders : box[x] = 0 /\ box'[x] = 0
  <2>1. Boxes = {0}
    BY SMT DEF Boxes
  <2> QED BY <2>1 DEF IInv, TypeOK
<1>2. ASSUME NEW x \in Senders \ {s} PROVE Phase(x)' = Phase(x)
  <2>1. CASE fate' = fate
    BY <1>1, <1>2, <2>1 DEF Phase
  <2>2. CASE s \in Holding
    <3>1. x \notin Holding
      BY <2>2, OneBox
    <3>2. pc[x] \notin {"wait", "asleep", "woken", "collect"}
      BY <3>1 DEF Holding
    <3> QED BY <3>2, <1>2 DEF Phase
  <2> QED BY <2>1, <2>2
<1> QED BY <1>2, OnePhase

LEMMA Quiet ==
    ASSUME Phases' = Phases, res' = res
    PROVE  UNCHANGED Service!svars
BY DEF Service!svars, Phases

-----------------------------------------------------------------------------

LEMMA SemTakeServes ==
    ASSUME IInv, IInv', ServiceInv, BoxNum = 1, NEW s \in Senders, SemTake(s)
    PROVE  ServiceInv' /\ [Service!Next]_Service!svars
<1>1. /\ pc[s] \in {"idle", "take"} /\ UNCHANGED <<hwVars, isrVars, boxVars, box, res>>
      /\ pc' = [pc EXCEPT ![s] = "box"] \/ pc' = [pc EXCEPT ![s] = "blocked"]
  BY DEF SemTake, Goto
<1>2. pc'[s] \in {"box", "blocked"} /\ \A x \in Senders \ {s} : pc'[x] = pc[x]
  BY <1>1, Now
<1>3. Holding' = Holding /\ \A x \in Holding : pc'[x] = pc[x]
  BY <1>1, <1>2 DEF Holding
<1>4. ServiceInv'
  BY <1>1, <1>3, OutsideInv DEF hwVars, isrVars, boxVars
<1>5. Phases' = [Phases EXCEPT ![s] = "called"]
  <2>1. Phase(s)' = "called"
    BY <1>2 DEF Phase
  <2> QED BY <2>1, <1>1, <1>2, OthersPhases DEF hwVars
<1>6. CASE pc[s] = "idle"
  <2>1. Phase(s) = "idle"
    BY <1>6 DEF Phase
  <2>2. Service!Call(s)
    BY <1>1, <1>5, <2>1 DEF Service!Call, Phases
  <2> QED BY <1>4, <2>2 DEF Service!Next
<1>7. CASE pc[s] = "take"
  <2>1. Phases[s] = "called"
    BY <1>7 DEF Phase, Phases
  <2>2. Phases' = Phases
    BY <1>5, <2>1 DEF Phases
  <2> QED BY <1>1, <1>4, <2>2, Quiet
<1> QED BY <1>1, <1>6, <1>7

LEMMA ReleaseServes ==
    ASSUME IInv, IInv', ServiceInv, BoxNum = 1, NEW s \in Senders, Release(s)
    PROVE  ServiceInv' /\ UNCHANGED Service!svars
<1>1. pc[s] \in {"release", "retry"} /\ UNCHANGED <<hwVars, isrVars, boxVars, box, res>>
  BY DEF Release
<1>2. /\ pc'[s] = AfterRelease(s)
      /\ \A x \in Senders \ {s} :
            pc'[x] = pc[x] \/ (pc[x] = "blocked" /\ pc'[x] = "box")
  <2>1. CASE semQ = <<>>
    BY <2>1, Now DEF Release
  <2>2. CASE semQ # <<>>
    <3>1. semQ \in Seq(Senders) /\ Distinct(semQ) /\ Elems(semQ) = Blocked
      BY Now DEF IInv, QueueAgrees
    <3>2. PICK h \in Senders : h = Head(semQ) /\ h \in Blocked
      BY <2>2, <3>1, TailFacts, TailElems
    <3>3. pc' = [[pc EXCEPT ![s] = AfterRelease(s)] EXCEPT ![h] = "box"]
      BY <2>2, <3>2 DEF Release
    <3>4. pc[h] = "blocked" /\ h # s
      BY <1>1, <3>2 DEF Blocked
    <3> QED BY <3>3, <3>4, Now
  <2> QED BY <2>1, <2>2
<1>3. pc'[s] \in {"idle", "take"}
  BY <1>2 DEF AfterRelease
<1>4. Holding' = Holding /\ \A x \in Holding : pc'[x] = pc[x]
  BY <1>1, <1>2, <1>3 DEF Holding
<1>5. ServiceInv'
  BY <1>1, <1>4, OutsideInv DEF hwVars, isrVars, boxVars
<1>6. Phase(s)' = Phase(s)
  BY <1>1, <1>2 DEF Phase, AfterRelease
<1>7. Phases' = Phases
  <2>1. Phases' = [Phases EXCEPT ![s] = Phase(s)']
    BY <1>1, <1>2, OthersPhases DEF hwVars
  <2> QED BY <2>1, <1>6 DEF Phases
<1> QED BY <1>1, <1>5, <1>7, Quiet

LEMMA TakeBoxServes ==
    ASSUME IInv, IInv', ServiceInv, BoxNum = 1, NEW s \in Senders, TakeBox(s)
    PROVE  ServiceInv' /\ UNCHANGED Service!svars
<1>1. /\ pc[s] = "box" /\ pc' = [pc EXCEPT ![s] = "mark"]
      /\ UNCHANGED <<hwVars, isrVars, result, done, res>>
  BY DEF TakeBox, Goto
<1>2. pc'[s] = "mark" /\ \A x \in Senders \ {s} : pc'[x] = pc[x]
  BY <1>1, Now
<1>3. s \in Holding' /\ s \notin Holding /\ Holding \subseteq Holding'
  BY <1>1, <1>2 DEF Holding
<1>4. Holding = {}
  <2>1. \A t \in Holding' : t = s
    <3>1. Boxes = {0}
      BY SMT DEF Boxes
    <3>2. \A t \in Senders : box'[t] = 0
      BY <3>1 DEF IInv, TypeOK
    <3>3. Holding' \subseteq Senders
      BY DEF Holding
    <3> QED BY <1>3, <3>2, <3>3 DEF IInv, Apart
  <2> QED BY <2>1, <1>3
<1>5. ~InFlight /\ done = {} /\ Calm /\ Flags
  BY <1>4 DEF ServiceInv
<1>6. Calm' /\ Flags' /\ ~InFlight' /\ done' = {}
  BY <1>1, <1>5 DEF Calm, Flags, InFlight, hwVars, isrVars
<1>7. ServiceInv'
  BY <1>2, <1>3, <1>6, HolderInv DEF Follows
<1>8. Phase(s) = "called" /\ Phase(s)' = "called"
  BY <1>1, <1>2 DEF Phase
<1>9. Phases' = Phases
  <2>1. Phases' = [Phases EXCEPT ![s] = Phase(s)']
    BY <1>1, <1>2, OthersPhases DEF hwVars
  <2> QED BY <2>1, <1>8 DEF Phases
<1> QED BY <1>1, <1>7, <1>9, Quiet

\* What the holder of the box finds, and what a step of it does to the phases.
LEMMA HolderFacts ==
    ASSUME IInv, IInv', ServiceInv, BoxNum = 1, NEW s \in Senders, s \in Holding,
           \A x \in Senders \ {s} : pc'[x] = pc[x]
    PROVE  /\ Calm /\ Flags /\ Follows(s)
           /\ box[s] = 0 /\ box'[s] = 0 /\ Boxes = {0}
           /\ \A x \in Senders \ {s} : x \notin Holding
           /\ Phases' = [Phases EXCEPT ![s] = Phase(s)']
<1>1. Calm /\ Flags /\ Follows(s)
  BY DEF ServiceInv
<1>2. box[s] = 0 /\ Boxes = {0} /\ \A x \in Senders \ {s} : x \notin Holding
  BY OneBox
<1>3. box'[s] = 0
  BY <1>2 DEF IInv, TypeOK
<1>4. Phases' = [Phases EXCEPT ![s] = Phase(s)']
  BY OthersPhases
<1> QED BY <1>1, <1>2, <1>3, <1>4

LEMMA MarkWaitServes ==
    ASSUME IInv, IInv', ServiceInv, BoxNum = 1, NEW s \in Senders, MarkWait(s)
    PROVE  ServiceInv' /\ UNCHANGED Service!svars
<1>1. /\ pc[s] = "mark" /\ pc' = [pc EXCEPT ![s] = "load"]
      /\ UNCHANGED <<hwVars, isrVars, done, res>>
  BY DEF MarkWait, Goto
<1>2. pc'[s] = "load" /\ \A x \in Senders \ {s} : pc'[x] = pc[x]
  BY <1>1, Now
<1>3. s \in Holding /\ s \in Holding'
  BY <1>1, <1>2 DEF Holding
<1>4. /\ Calm /\ Flags /\ Follows(s)
      /\ Phases' = [Phases EXCEPT ![s] = Phase(s)']
  BY <1>2, <1>3, HolderFacts
<1>5. Calm' /\ Flags' /\ ~InFlight' /\ done' = {}
  BY <1>1, <1>4 DEF Calm, Flags, Follows, InFlight, hwVars, isrVars
<1>6. ServiceInv'
  BY <1>2, <1>3, <1>5, HolderInv DEF Follows
<1>7. Phase(s) = "called" /\ Phase(s)' = "called"
  BY <1>1, <1>2 DEF Phase
<1>8. Phases' = Phases
  BY <1>4, <1>7 DEF Phases
<1> QED BY <1>1, <1>6, <1>8, Quiet

LEMMA WaitServes ==
    ASSUME IInv, IInv', ServiceInv, BoxNum = 1, NEW s \in Senders,
           Wait(s) \/ Woken(s)
    PROVE  ServiceInv' /\ UNCHANGED Service!svars
<1>1. /\ pc[s] \in {"wait", "woken"}
      /\ UNCHANGED <<hwVars, isrVars, result, box, res>>
      /\ \/ /\ pc[s] = "wait" /\ box[s] \notin done
            /\ pc' = [pc EXCEPT ![s] = "asleep"] /\ done' = done
         \/ /\ pc[s] = "wait" => box[s] \in done
            /\ pc' = [pc EXCEPT ![s] = "collect"] /\ done' = done \ {box[s]}
  BY DEF Wait, Woken, Goto
<1>2. pc'[s] \in {"asleep", "collect"} /\ \A x \in Senders \ {s} : pc'[x] = pc[x]
  BY <1>1, Now
<1>3. s \in Holding /\ s \in Holding'
  BY <1>1, <1>2 DEF Holding
<1>4. /\ Calm /\ Flags /\ Follows(s) /\ box[s] = 0 /\ box'[s] = 0
      /\ Phases' = [Phases EXCEPT ![s] = Phase(s)']
  BY <1>2, <1>3, HolderFacts
<1>5. done \subseteq {0}
  BY OneBox
<1>6. Calm' /\ Flags' /\ InFlight' = InFlight /\ Answered' = Answered
  BY <1>1, <1>4 DEF Calm, Flags, InFlight, Answered, hwVars, isrVars
<1>7. Follows(s)'
  <2>1. CASE pc'[s] = "asleep"
    <3>1. pc[s] = "wait" /\ 0 \notin done /\ done' = done
      BY <1>1, <1>4, <2>1, Now
    <3>2. done = {}
      BY <1>5, <3>1
    <3> QED BY <1>4, <1>6, <2>1, <3>1, <3>2 DEF Follows
  <2>2. CASE pc'[s] = "collect"
    <3>1. (pc[s] = "wait" => 0 \in done) /\ done' = done \ {0}
      BY <1>1, <1>4, <2>2, Now
    <3>2. done' = {}
      BY <1>5, <3>1
    <3>3. ~InFlight /\ Answered
      BY <1>1, <1>4, <3>1 DEF Follows
    <3> QED BY <1>6, <2>2, <3>2, <3>3 DEF Follows
  <2> QED BY <1>2, <2>1, <2>2
<1>8. ServiceInv'
  BY <1>3, <1>6, <1>7, HolderInv
<1>9. Phase(s)' = Phase(s)
  BY <1>1, <1>2 DEF Phase, hwVars
<1>10. Phases' = Phases
  BY <1>4, <1>9 DEF Phases
<1> QED BY <1>1, <1>8, <1>10, Quiet

\* A holder that lets go of the box.
LEMMA FreedInv ==
    ASSUME IInv, IInv', ServiceInv, BoxNum = 1, NEW s \in Senders, s \in Holding,
           \A x \in Senders \ {s} : pc'[x] = pc[x],
           pc'[s] \in {"retry", "release"},
           UNCHANGED <<mail, failing, rqcp, txok, lec, fate, isr, done>>,
           ~InFlight, done = {}
    PROVE  ServiceInv'
<1>1. \A x \in Senders \ {s} : x \notin Holding
  BY HolderFacts
<1>2. Holding' = {}
  BY <1>1 DEF Holding
<1>3. Calm' /\ Flags' /\ ~InFlight' /\ done' = {}
  BY DEF ServiceInv, Calm, Flags, InFlight
<1> QED BY <1>2, <1>3 DEF ServiceInv

LEMMA UndoBoxServes ==
    ASSUME IInv, IInv', ServiceInv, BoxNum = 1, NEW s \in Senders, UndoBox(s)
    PROVE  ServiceInv' /\ UNCHANGED Service!svars
<1>1. /\ pc[s] = "undo" /\ pc' = [pc EXCEPT ![s] = "retry"]
      /\ UNCHANGED <<hwVars, isrVars, done, res>>
  BY DEF UndoBox, Goto
<1>2. pc'[s] = "retry" /\ \A x \in Senders \ {s} : pc'[x] = pc[x]
  BY <1>1, Now
<1>3. s \in Holding
  BY <1>1 DEF Holding
<1>4. Follows(s) /\ Phases' = [Phases EXCEPT ![s] = Phase(s)']
  BY <1>2, <1>3, HolderFacts
<1>5. ~InFlight /\ done = {}
  BY <1>1, <1>4 DEF Follows
<1>6. ServiceInv'
  BY <1>1, <1>2, <1>3, <1>5, FreedInv DEF hwVars, isrVars
<1>7. Phase(s) = "called" /\ Phase(s)' = "called"
  BY <1>1, <1>2 DEF Phase
<1>8. Phases' = Phases
  BY <1>4, <1>7 DEF Phases
<1> QED BY <1>1, <1>6, <1>8, Quiet

LEMMA CollectServes ==
    ASSUME IInv, IInv', ServiceInv, BoxNum = 1, NEW s \in Senders, Collect(s)
    PROVE  ServiceInv' /\ Service!Return(s)
<1>1. /\ pc[s] = "collect" /\ pc' = [pc EXCEPT ![s] = "release"]
      /\ res' = [res EXCEPT ![s] = result[box[s]]]
      /\ UNCHANGED <<hwVars, isrVars, result, done>>
  BY DEF Collect, Goto
<1>2. pc'[s] = "release" /\ \A x \in Senders \ {s} : pc'[x] = pc[x]
  BY <1>1, Now
<1>3. s \in Holding
  BY <1>1 DEF Holding
<1>4. /\ Follows(s) /\ box[s] = 0
      /\ Phases' = [Phases EXCEPT ![s] = Phase(s)']
  BY <1>2, <1>3, HolderFacts
<1>5. ~InFlight /\ done = {} /\ Answered
  BY <1>1, <1>4 DEF Follows
<1>6. ServiceInv'
  BY <1>1, <1>2, <1>3, <1>5, FreedInv DEF hwVars, isrVars
<1>7. Phase(s) = fate[0] /\ Phase(s)' = "idle" /\ fate[0] \in {"ok", "lost"}
  BY <1>1, <1>2, <1>4, <1>5 DEF Phase, Answered
<1>8. Answers' = [Answers EXCEPT ![s] = fate[0]]
  <2>1. res' = [res EXCEPT ![s] = result[0]] /\ res \in [Senders -> {None, "ok", "err", "wait"}]
    BY <1>1, <1>4 DEF IInv, TypeOK
  <2>2. (IF result[0] = "err" THEN "lost" ELSE result[0]) = fate[0]
    BY <1>5 DEF Answered
  <2>3. (IF res'[s] = "err" THEN "lost" ELSE res'[s]) = fate[0]
    BY <2>1, <2>2
  <2>4. \A x \in Senders \ {s} : res'[x] = res[x]
    BY <2>1
  <2> QED BY <2>3, <2>4 DEF Answers
<1>9. Phases' = [Phases EXCEPT ![s] = "idle"] /\ Phases[s] = fate[0]
  BY <1>4, <1>7 DEF Phases
<1>10. Service!Return(s)
  BY <1>7, <1>8, <1>9 DEF Service!Return, Service!Outcomes, Phases, Answers
<1> QED BY <1>6, <1>10

LEMMA SendMsgServes ==
    ASSUME IInv, IInv', ServiceInv, BoxNum = 1, NEW s \in Senders, SendMsg(s)
    PROVE  ServiceInv' /\ [Service!Next]_Service!svars
<1>1. /\ pc[s] = "load" /\ UNCHANGED <<failing, rqcp, txok, lec, isrVars, boxVars, box, res>>
      /\ pc' = [pc EXCEPT ![s] = "wait"] \/ pc' = [pc EXCEPT ![s] = "undo"]
  BY DEF SendMsg, Goto, semVars
<1>2. pc'[s] \in {"wait", "undo"} /\ \A x \in Senders \ {s} : pc'[x] = pc[x]
  BY <1>1, Now
<1>3. s \in Holding /\ s \in Holding'
  BY <1>1, <1>2 DEF Holding
<1>4. /\ Calm /\ Flags /\ Follows(s) /\ box[s] = 0 /\ box'[s] = 0 /\ Boxes = {0}
      /\ \A x \in Senders \ {s} : x \notin Holding
      /\ Phases' = [Phases EXCEPT ![s] = Phase(s)']
  BY <1>2, <1>3, HolderFacts
<1>5. ~InFlight /\ done = {} /\ Phase(s) = "called"
  BY <1>1, <1>4 DEF Follows, Phase
<1>6. CASE pc'[s] = "wait"
  <2>1. /\ mail' = [mail EXCEPT ![0] = s] /\ fate' = [fate EXCEPT ![0] = "pending"]
    BY <1>1, <1>4, <1>6, Now DEF SendMsg, Goto
  <2>2. mail'[0] = s /\ fate'[0] = "pending" /\ s # None
    BY <1>4, <2>1, Constants DEF IInv, TypeOK
  <2>3. Calm' /\ Flags' /\ InFlight' /\ done' = {}
    BY <1>1, <1>4, <1>5, <2>2 DEF Calm, Flags, InFlight, isrVars, boxVars
  <2>4. ServiceInv'
    BY <1>3, <1>6, <2>3, HolderInv DEF Follows
  <2>5. Phase(s)' = "bus"
    BY <1>4, <1>6, <2>2 DEF Phase
  <2>6. \A x \in Senders : Phase(x) # "bus"
    <3>1. \A x \in Senders \ {s} : pc[x] \notin {"wait", "asleep", "woken", "collect"}
      BY <1>4 DEF Holding
    <3>2. \A x \in Senders \ {s} : Phase(x) \in {"idle", "called"}
      BY <3>1 DEF Phase
    <3> QED BY <1>5, <3>2
  <2>7. Service!InMailbox = {}
    BY <2>6 DEF Service!InMailbox
  <2>8. Service!Cardinality(Service!InMailbox) < BoxNum
    <3>1. Cardinality(Service!InMailbox) = 0
      BY <2>7, FS_EmptySet
    <3>2. Service!Cardinality(Service!InMailbox) = Cardinality(Service!InMailbox)
      BY DEF Service!Cardinality, Cardinality
    <3> QED BY <3>1, <3>2
  <2>9. Phases' = [Phases EXCEPT ![s] = "bus"] /\ Phases[s] = "called"
    BY <1>4, <1>5, <2>5 DEF Phases
  <2>10. Service!Place(s)
    BY <1>1, <2>8, <2>9 DEF Service!Place, Phases
  <2> QED BY <2>4, <2>10 DEF Service!Next
<1>7. CASE pc'[s] = "undo"
  <2>1. UNCHANGED <<mail, fate>>
    BY <1>1, <1>7, Now DEF SendMsg, Goto
  <2>2. Calm' /\ Flags' /\ ~InFlight' /\ done' = {}
    BY <1>1, <1>4, <1>5, <2>1 DEF Calm, Flags, InFlight, isrVars, boxVars
  <2>3. ServiceInv'
    BY <1>3, <1>7, <2>2, HolderInv DEF Follows
  <2>4. Phase(s)' = "called"
    BY <1>7 DEF Phase
  <2>5. Phases' = Phases
    BY <1>4, <1>5, <2>4 DEF Phases
  <2> QED BY <1>1, <2>3, <2>5, Quiet
<1> QED BY <1>2, <1>6, <1>7

-----------------------------------------------------------------------------

\* While the box is in flight, its holder waits, or is about to.
LEMMA FlightHolder ==
    ASSUME IInv, ServiceInv, BoxNum = 1, InFlight
    PROVE  \E s \in Senders : s \in Holding /\ pc[s] \in {"wait", "asleep"} /\ done = {}
<1>1. PICK s \in Senders : s \in Holding
  BY DEF ServiceInv, Holding
<1>2. Follows(s)
  BY <1>1 DEF ServiceInv
<1>3. pc[s] \in {"wait", "asleep"} /\ done = {}
  BY <1>1, <1>2 DEF Follows, Holding
<1> QED BY <1>1, <1>3

LEMMA TxIsrServes ==
    ASSUME IInv, IInv', ServiceInv, BoxNum = 1, TxIsr
    PROVE  ServiceInv' /\ UNCHANGED Service!svars
<1>1. rqcp = {0} /\ Boxes = {0} /\ (\A x \in Senders : box[x] = 0) /\ InFlight
  BY OneBox DEF TxIsr, InFlight
<1>2. PICK s \in Senders : s \in Holding /\ pc[s] \in {"wait", "asleep"} /\ done = {}
  BY <1>1, FlightHolder
<1>3. \A x \in Senders \ {s} : x \notin Holding
  BY <1>2, OneBox
<1>4. HwCanIsr(0, IF 0 \in txok THEN "ok" ELSE "err")
  <2>1. (CHOOSE x \in rqcp : \A y \in rqcp : x <= y) = 0
    BY <1>1, SMT
  <2> QED BY <2>1 DEF TxIsr
<1>5. /\ result' = [result EXCEPT ![0] = IF 0 \in txok THEN "ok" ELSE "err"]
      /\ done' = {0} /\ rqcp' = {} /\ UNCHANGED <<mail, failing, lec, fate, isr, box, res>>
      /\ pc' = [x \in Senders |-> IF pc[x] = "asleep" /\ box[x] = 0 THEN "woken" ELSE pc[x]]
  BY <1>2, <1>4 DEF TxIsr, HwCanIsr, CompletionDone, isrVars
<1>6. \A x \in Senders \ {s} : pc[x] # "asleep"
  BY <1>3 DEF Holding
<1>7. /\ \A x \in Senders \ {s} : pc'[x] = pc[x]
      /\ pc'[s] = IF pc[s] = "asleep" THEN "woken" ELSE "wait"
  BY <1>1, <1>2, <1>5, <1>6
<1>8. s \in Holding'
  BY <1>7 DEF Holding
<1>9. /\ Calm /\ Flags /\ Follows(s)
      /\ Phases' = [Phases EXCEPT ![s] = Phase(s)']
  BY <1>2, <1>7, HolderFacts
<1>10. Answered'
  <2>1. result'[0] = IF 0 \in txok THEN "ok" ELSE "err"
    BY <1>1, <1>5 DEF IInv, TypeOK
  <2>2. fate[0] \in {"ok", "lost"} /\ (0 \in txok <=> fate[0] = "ok")
    BY <1>1, <1>9 DEF Flags
  <2> QED BY <1>5, <2>1, <2>2 DEF Answered
<1>11. Calm' /\ Flags' /\ ~InFlight'
  <2>1. mail[0] = None
    BY <1>1, <1>9 DEF Flags
  <2> QED BY <1>5, <1>9, <2>1 DEF Calm, Flags, InFlight
<1>12. Follows(s)'
  BY <1>5, <1>7, <1>10, <1>11 DEF Follows
<1>13. ServiceInv'
  BY <1>8, <1>11, <1>12, HolderInv
<1>14. Phase(s)' = Phase(s)
  BY <1>2, <1>5, <1>7 DEF Phase
<1>15. Phases' = Phases
  BY <1>9, <1>14 DEF Phases
<1> QED BY <1>5, <1>13, <1>15, Quiet

LEMMA BusEndServes ==
    ASSUME IInv, IInv', ServiceInv, BoxNum = 1, NEW b \in Boxes, BusEnd(b)
    PROVE  ServiceInv' /\ [Service!Next]_Service!svars
<1>1. b = 0 /\ Boxes = {0} /\ (\A x \in Senders : box[x] = 0) /\ mail[0] # None /\ InFlight
  BY OneBox DEF BusEnd, InFlight
<1>2. PICK s \in Senders : s \in Holding /\ pc[s] \in {"wait", "asleep"} /\ done = {}
  BY <1>1, FlightHolder
<1>3. PICK o \in {"ok", "lost"} : Complete(0, o)
  BY <1>1 DEF BusEnd
<1>4. UNCHANGED <<lec, isr, done, pc, box, res>>
  BY DEF BusEnd, isrVars, boxVars, thrVars
<1>5. s \in Holding'
  BY <1>2, <1>4 DEF Holding
<1>6. /\ Calm /\ Flags /\ Follows(s)
      /\ Phases' = [Phases EXCEPT ![s] = Phase(s)']
  BY <1>2, <1>4, HolderFacts
<1>7. /\ mail'[0] = None /\ failing' = {} /\ rqcp' = rqcp \cup {0} /\ fate'[0] = o
      /\ 0 \in txok' <=> o = "ok"
  BY <1>1, <1>3, <1>6 DEF Complete, Calm, IInv, TypeOK
<1>8. Calm' /\ Flags' /\ InFlight' /\ done' = {}
  BY <1>2, <1>4, <1>6, <1>7 DEF Calm, Flags, InFlight
<1>9. ServiceInv'
  BY <1>2, <1>4, <1>5, <1>8, HolderInv DEF Follows
<1>10. Phase(s) = "bus" /\ Phase(s)' = o
  <2>1. fate[0] = "pending"
    BY <1>1, <1>6 DEF Flags
  <2> QED BY <1>1, <1>2, <1>4, <1>7, <2>1 DEF Phase
<1>11. Phases[s] = "bus" /\ Phases' = [Phases EXCEPT ![s] = o]
  BY <1>6, <1>10 DEF Phases
<1>12. Service!Outcome(s)
  BY <1>4, <1>11 DEF Service!Outcome, Service!Outcomes, Phases
<1> QED BY <1>9, <1>12 DEF Service!Next

\* Without bus errors the status-change handler never runs.
LEMMA CalmSteps ==
    ASSUME IInv, ServiceInv, ErrorKinds = {}, Next
    PROVE  \/ TxIsr \/ (\E b \in Boxes : BusEnd(b)) \/ (\E s \in Senders : Sender(s))
<1>1. ~SceEnter /\ ~SceHal /\ ~SceSwitch
  BY DEF ServiceInv, Calm, SceEnter, SceHal, SceSwitch
<1>2. \A b \in Boxes : ~BusError(b) /\ ~ErrorEnd(b)
  BY DEF ServiceInv, Calm, BusError, ErrorEnd
<1> QED BY <1>1, <1>2 DEF Next, Bus, Isr

LEMMA InitServes == BoxNum = 1 /\ Init => ServiceInv /\ Service!Init
<1> SUFFICES ASSUME BoxNum = 1, Init PROVE ServiceInv /\ Service!Init
  OBVIOUS
<1>1. Boxes = {0}
  BY SMT DEF Boxes
<1>2. mail[0] = None /\ rqcp = {} /\ Calm /\ done = {} /\ \A s \in Senders : pc[s] = "idle"
  BY <1>1 DEF Init, Calm
<1>3. Holding = {}
  BY <1>2 DEF Holding
<1>4. ServiceInv
  BY <1>2, <1>3 DEF ServiceInv, Flags, InFlight
<1>5. Service!Init
  <2>1. \A s \in Senders : Phase(s) = "idle"
    BY <1>2 DEF Phase
  <2>2. \A s \in Senders : res[s] = None
    BY DEF Init
  <2> QED BY <2>1, <2>2 DEF Service!Init, None
<1> QED BY <1>4, <1>5

LEMMA NextServes ==
    ASSUME IInv, IInv', ServiceInv, BoxNum = 1, ErrorKinds = {}, [Next]_vars
    PROVE  ServiceInv' /\ [Service!Next]_Service!svars
<1>1. CASE TxIsr
  BY <1>1, TxIsrServes
<1>2. ASSUME NEW b \in Boxes, BusEnd(b) PROVE ServiceInv' /\ [Service!Next]_Service!svars
  BY <1>2, BusEndServes
<1>3. ASSUME NEW s \in Senders, Sender(s) PROVE ServiceInv' /\ [Service!Next]_Service!svars
  <2>1. CASE SemTake(s)
    BY <2>1, SemTakeServes
  <2>2. CASE TakeBox(s)
    BY <2>2, TakeBoxServes
  <2>3. CASE MarkWait(s)
    BY <2>3, MarkWaitServes
  <2>4. CASE SendMsg(s)
    BY <2>4, SendMsgServes
  <2>5. CASE UndoBox(s)
    BY <2>5, UndoBoxServes
  <2>6. CASE Wait(s) \/ Woken(s)
    BY <2>6, WaitServes
  <2>7. CASE Collect(s)
    BY <2>7, CollectServes DEF Service!Next
  <2>8. CASE Release(s)
    BY <2>8, ReleaseServes
  <2> QED BY <1>3, <2>1, <2>2, <2>3, <2>4, <2>5, <2>6, <2>7, <2>8 DEF Sender
<1>4. CASE UNCHANGED vars
  <2>1. /\ UNCHANGED <<mail, failing, rqcp, txok, lec, fate, isr, result, done>>
        /\ UNCHANGED <<pc, box, res>>
    BY <1>4 DEF vars, hwVars, isrVars, boxVars, thrVars
  <2>2. ServiceInv'
    <3>1. Holding' = Holding
      BY <2>1 DEF Holding
    <3> QED BY <2>1, <3>1, OutsideInv
  <2>3. \A s \in Senders : Phase(s)' = Phase(s)
    BY <2>1 DEF Phase
  <2>4. Phases' = Phases
    BY <2>3 DEF Phases
  <2> QED BY <2>1, <2>2, <2>4, Quiet
<1> QED BY <1>1, <1>2, <1>3, <1>4, CalmSteps

LEMMA WaiterInFlight ==
    ASSUME IInv, ServiceInv, BoxNum = 1
    PROVE  WaiterNotForgotten
<1>1. \A s \in Senders : pc[s] = "asleep" => box[s] = 0 /\ InFlight
  BY OneBox DEF ServiceInv, Follows, Holding
<1> QED BY <1>1 DEF WaiterNotForgotten, InFlight

\* With one send box and a bus without errors, every frame of every sender goes
\* through the service TxService: the call hands it to the mailbox, the bus
\* ends it, and only then the call returns, with what became of this frame.
THEOREM ServiceImplemented ==
    ASSUME BoxNum = 1, ErrorKinds = {}
    PROVE  Spec => IsTxService
<1>1. Init => ServiceInv /\ Service!Init
  BY InitServes
<1>2. IInv /\ IInv' /\ ServiceInv /\ [Next]_vars
        => ServiceInv' /\ [Service!Next]_Service!svars
  BY NextServes
<1> QED BY <1>1, <1>2, Invariance, PTL DEF Spec, IsTxService, Service!Spec

\* And a suspended sender waits for something that is still to come: its frame
\* is in the mailbox, or the end of it has not been served yet.
THEOREM NoWaiterForgotten ==
    ASSUME BoxNum = 1, ErrorKinds = {}
    PROVE  Spec => []WaiterNotForgotten
<1>1. Init => ServiceInv
  BY InitServes
<1>2. IInv /\ IInv' /\ ServiceInv /\ [Next]_vars => ServiceInv'
  BY NextServes
<1>3. IInv /\ ServiceInv => WaiterNotForgotten
  BY WaiterInFlight
<1> QED BY <1>1, <1>2, <1>3, Invariance, PTL DEF Spec
=============================================================================
