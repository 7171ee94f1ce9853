-------------------------- MODULE ConsoleRx_proofs --------------------------
(***************************************************************************)
(* For every size of the ring: its indices stay inside.  For every size    *)
(* but one byte: a shell that sleeps has read everything, unless the       *)
(* semaphore wrapped, and the ring is a queue that drops its oldest byte,  *)
(* so that ConsoleRx implements LossyQueue.                                *)
(***************************************************************************)
EXTENDS ConsoleRx, SequenceTheorems, TLAPS

LEMMA Constants == N \in Nat \ {0} /\ SemMod \in Nat \ {0} /\ MaxBytes \in Nat
BY ConsoleAssumption DEF ConsoleAssumption

LEMMA WrapTyped == ASSUME NEW i \in 0..N-1 PROVE Wrap(i + 1) \in 0..N-1
BY Constants, SMT DEF Wrap

LEMMA TokenTyped ==
    ASSUME TypeOK, SemRelease PROVE sem' \in 0..SemMod-1 /\ pc' \in {pc, "read"}
<1>1. sem \in 0..SemMod-1
  BY DEF TypeOK
<1>2. (sem + 1) % SemMod \in 0..SemMod-1
  BY <1>1, Constants, SMT
<1> QED BY <1>1, <1>2 DEF SemRelease

LEMMA TypeStep == ASSUME TypeOK, [Next]_vars PROVE TypeOK'
<1>1. CASE Receive
  <2>1. sent' \in 0..MaxBytes /\ dr' \in 0..MaxBytes
    <3>1. sent \in 0..MaxBytes /\ dr \in 0..MaxBytes /\ sent < MaxBytes /\ sent' = sent + 1
      BY <1>1 DEF Receive, TypeOK
    <3>2. dr' \in {sent + 1, None, dr}
      BY <1>1 DEF Receive
    <3>3. sent + 1 \in 0..MaxBytes /\ None \in 0..MaxBytes
      BY <3>1, Constants, SMT DEF None
    <3> QED BY <3>1, <3>2, <3>3
  <2> QED BY <1>1, <2>1, Zenon DEF Receive, TypeOK, ringVars
<1>2. CASE IsrChar
  <2>1. /\ put \in 0..N-1 /\ get \in 0..N-1 /\ dr \in 0..MaxBytes
        /\ buffer \in [0..N-1 -> 0..MaxBytes] /\ full \in BOOLEAN
    BY DEF TypeOK
  <2>2. put' \in 0..N-1 /\ get' \in 0..N-1
    BY <1>2, <2>1, WrapTyped DEF IsrChar
  <2>3. buffer' \in [0..N-1 -> 0..MaxBytes] /\ full' \in BOOLEAN
    BY <1>2, <2>1 DEF IsrChar
  <2>4. dr' \in 0..MaxBytes /\ isr' = "in"
    BY <1>2, Constants, SMT DEF IsrChar, None
  <2> QED BY <1>2, <2>2, <2>3, <2>4, Zenon DEF IsrChar, TypeOK
<1>3. CASE IsrNotify
  <2>1. sem' \in 0..SemMod-1 /\ pc' \in {pc, "read"}
    BY <1>3, TokenTyped DEF IsrNotify, TypeOK
  <2> QED BY <1>3, <2>1, Zenon DEF IsrNotify, TypeOK, lineVars, ringVars
<1>4. CASE OpenDevice \/ SetRxIndicate \/ Process
  BY <1>4, Zenon DEF OpenDevice, SetRxIndicate, Process, TypeOK, lineVars, ringVars
<1>5. CASE Read
  <2>1. get \in 0..N-1 /\ buffer \in [0..N-1 -> 0..MaxBytes] /\ full \in BOOLEAN
        /\ ch \in 0..MaxBytes
    BY DEF TypeOK
  <2>2. get' \in 0..N-1 /\ ch' \in 0..MaxBytes /\ full' \in BOOLEAN /\ pc' \in {"take", "process"}
    BY <1>5, <2>1, WrapTyped DEF Read
  <2> QED BY <1>5, <2>2, Zenon DEF Read, TypeOK, lineVars
<1>6. CASE SemTake
  <2>1. sem \in 0..SemMod-1
    BY DEF TypeOK
  <2>2. sem > 0 => sem - 1 \in 0..SemMod-1
    BY <2>1, Constants, SMT
  <2>3. sem' \in 0..SemMod-1 /\ pc' \in {"read", "asleep"}
    BY <1>6, <2>1, <2>2 DEF SemTake
  <2> QED BY <1>6, <2>3, Zenon DEF SemTake, TypeOK, lineVars, ringVars
<1>7. CASE UNCHANGED vars
  BY <1>7, Zenon DEF TypeOK, vars, lineVars, ringVars
<1> QED BY <1>1, <1>2, <1>3, <1>4, <1>5, <1>6, <1>7, Zenon DEF Next, Isr, Shell

\* The indices of the ring stay inside it and the semaphore keeps its width,
\* for every size of the ring.
THEOREM Typing == Spec => []TypeOK
<1>1. Init => TypeOK
  <2>1. 0 \in 0..N-1 /\ 0 \in 0..SemMod-1 /\ None \in 0..MaxBytes /\ 0 \in 0..MaxBytes
    BY Constants, SMT DEF None
  <2> QED BY <2>1, Zenon DEF Init, TypeOK
<1>2. TypeOK /\ [Next]_vars => TypeOK'
  BY TypeStep
<1> QED BY <1>1, <1>2, PTL DEF Spec

-----------------------------------------------------------------------------
(* Tokens and bytes                                                        *)

\* The inductive part: a byte the sleeping shell has not read is about to be
\* announced, one that came after its last look is covered by a token, and
\* there are no more tokens than bytes, so that the semaphore does not wrap.
Pending == (IF dr = None THEN 0 ELSE 1) + (IF isr = "in" THEN 1 ELSE 0)
TokenInv ==
    /\ pc \in {"read", "take", "asleep", "process"} => stage = "ready"
    /\ stage = "closed" => isr = "off"
    /\ full => get # put
    /\ pc = "take" /\ isr = "off" => get = put \/ sem > 0
    /\ pc = "asleep" /\ isr = "off" => get = put
    /\ sem + Pending <= sent

LEMMA PendingRange ==
    /\ Pending \in 0..2
    /\ dr = None => Pending = (IF isr = "in" THEN 1 ELSE 0)
    /\ dr # None => Pending = 1 + (IF isr = "in" THEN 1 ELSE 0)
    /\ dr' = None => Pending' = (IF isr' = "in" THEN 1 ELSE 0)
    /\ dr' # None => Pending' = 1 + (IF isr' = "in" THEN 1 ELSE 0)
BY SMT DEF Pending

LEMMA Sums ==
    ASSUME NEW a \in Int, NEW c \in Int, NEW p \in Int, NEW q \in Int, a + p <= c
    PROVE  (q <= p + 1 => a + q <= c + 1) /\ (q <= p => a + q <= c)
BY SMT

LEMMA RxLengthZero == ASSUME TypeOK, RxLength = 0 PROVE get = put
<1>1. put \in 0..N-1 /\ get \in 0..N-1
  BY DEF TypeOK
<1> QED BY <1>1, Constants, SMT DEF RxLength

LEMMA TokenStep ==
    ASSUME TypeOK, TokenInv, N > 1, MaxBytes < SemMod, [Next]_vars
    PROVE  TokenInv'
<1>0. sent \in 0..MaxBytes /\ sem \in 0..SemMod-1 /\ put \in 0..N-1 /\ get \in 0..N-1
      /\ isr \in {"off", "in"} /\ full \in BOOLEAN
      /\ N \in Nat /\ SemMod \in Nat /\ MaxBytes \in Nat
  BY Constants DEF TypeOK
<1>a. sem + Pending <= sent /\ sem \in Int /\ sent \in Int
  <2>1. sem + Pending <= sent
    BY Zenon DEF TokenInv
  <2>2. sem \in Int /\ sent \in Int
    BY <1>0, SMT
  <2> QED BY <2>1, <2>2
<1>1. CASE Receive
  <2>1. sent' = sent + 1 /\ UNCHANGED <<stage, isr, put, get, full, sem, pc>>
    BY <1>1, Zenon DEF Receive, ringVars
  <2>2. Pending' <= Pending + 1 /\ Pending' \in Int /\ Pending \in Int
    <3>1. dr = None \/ dr' = dr
      BY <1>1 DEF Receive
    <3> QED BY <2>1, <3>1, PendingRange, SMT
  <2>3. sem' + Pending' <= sent'
    <3>1. sem + Pending' <= sent + 1
      BY <1>a, <2>2, Sums, Zenon
    <3>2. sem' = sem /\ sent' = sent + 1
      BY <2>1
    <3> QED BY <3>1, <3>2, Zenon
  <2> QED BY <2>1, <2>3, Zenon DEF TokenInv
<1>2. CASE IsrChar
  <2>1. /\ isr' = "in" /\ dr # None /\ dr' = None /\ stage # "closed"
        /\ put' = Wrap(put + 1) /\ get' = (IF put' = get THEN Wrap(get + 1) ELSE get)
        /\ full' = (full \/ put' = get) /\ UNCHANGED <<sent, stage, sem, pc>>
    BY <1>2, Zenon DEF IsrChar
  <2>2. Wrap(get + 1) # get
    BY <1>0, SMT DEF Wrap
  <2>3. get' # put'
    BY <2>1, <2>2
  <2>4. Pending' <= Pending /\ Pending' \in Int /\ Pending \in Int
    BY <1>0, <2>1, PendingRange, SMT
  <2>5. sem' + Pending' <= sent'
    <3>1. sem + Pending' <= sent
      BY <1>a, <2>4, Sums, Zenon
    <3>2. sem' = sem /\ sent' = sent
      BY <2>1
    <3> QED BY <3>1, <3>2, Zenon
  <2>6. isr' # "off"
    BY <2>1
  <2> QED BY <2>1, <2>3, <2>5, <2>6, Zenon DEF TokenInv
<1>3. CASE IsrNotify
  <2>1. /\ isr = "in" /\ isr' = "off" /\ dr = None /\ dr' = dr
        /\ IF stage = "ready" /\ RxLength # 0 THEN SemRelease ELSE UNCHANGED <<pc, sem>>
        /\ UNCHANGED <<sent, stage, put, get, full>>
    BY <1>3, Zenon DEF IsrNotify, lineVars, ringVars
  <2>2. Pending = 1 /\ Pending' = 0
    BY <2>1, SMT DEF Pending
  <2>3. CASE stage = "ready" /\ RxLength # 0 /\ pc = "asleep"
    <3>1. pc' = "read" /\ sem' = sem
      BY <2>1, <2>3 DEF SemRelease
    <3> QED BY <1>0, <2>1, <2>2, <2>3, <3>1, SMT DEF TokenInv
  <2>4. CASE stage = "ready" /\ RxLength # 0 /\ pc # "asleep"
    <3>1. pc' = pc /\ sem' = (sem + 1) % SemMod
      BY <2>1, <2>4 DEF SemRelease
    <3>2. sem + 1 <= sent
      BY <2>2, SMT DEF TokenInv
    <3>3. sem + 1 \in 0..SemMod-1
      BY <1>0, <3>2, Constants, SMT
    <3>4. sem' = sem + 1
      BY <3>1, <3>3, Constants, SMT
    <3> QED BY <1>0, <2>1, <2>2, <2>4, <3>1, <3>2, <3>4, SMT DEF TokenInv
  <2>5. CASE ~(stage = "ready" /\ RxLength # 0)
    <3>1. pc' = pc /\ sem' = sem
      BY <2>1, <2>5
    <3>2. stage = "ready" => get = put
      BY <2>5, RxLengthZero
    <3> QED BY <1>0, <2>1, <2>2, <3>1, <3>2, SMT DEF TokenInv
  <2> QED BY <2>3, <2>4, <2>5
<1>4. CASE OpenDevice \/ SetRxIndicate \/ Process
  <2>1. /\ pc' \in {"register", "read"} /\ (pc' = "read" => stage' = "ready")
        /\ stage' # "closed" \/ stage' = stage
        /\ UNCHANGED <<sent, dr, isr, put, get, full, sem>>
    BY <1>4, Zenon DEF OpenDevice, SetRxIndicate, Process, lineVars, ringVars, TokenInv
  <2>2. Pending' = Pending
    BY <2>1, Zenon DEF Pending
  <2>3. pc' \notin {"take", "asleep", "process"}
    BY <2>1
  <2>4. stage' = "closed" => isr' = "off"
    BY <2>1 DEF TokenInv
  <2> QED BY <2>1, <2>2, <2>3, <2>4, SMT DEF TokenInv
<1>5. CASE Read
  <2>1. /\ pc = "read" /\ UNCHANGED <<sent, dr, stage, isr, put, sem>>
        /\ \/ get = put /\ pc' = "take" /\ UNCHANGED <<get, full>>
           \/ pc' = "process" /\ full' = FALSE
    BY <1>5, Zenon DEF Read, lineVars
  <2>2. Pending' = Pending
    BY <2>1, Zenon DEF Pending
  <2> QED BY <2>1, <2>2, SMT DEF TokenInv
<1>6. CASE SemTake
  <2>1. /\ pc = "take" /\ isr = "off" /\ UNCHANGED <<sent, dr, stage, isr, put, get, full>>
        /\ \/ sem > 0 /\ sem' = sem - 1 /\ pc' = "read"
           \/ ~(sem > 0) /\ sem' = sem /\ pc' = "asleep"
    BY <1>6, Zenon DEF SemTake, lineVars, ringVars
  <2>2. Pending' = Pending /\ Pending \in Int
    BY <2>1, SMT DEF Pending
  <2> QED BY <1>0, <2>1, <2>2, SMT DEF TokenInv
<1>7. CASE UNCHANGED vars
  <2>1. UNCHANGED <<sent, dr, stage, isr, put, get, full, sem, pc>>
    BY <1>7, Zenon DEF vars, lineVars, ringVars
  <2> QED BY <2>1, Zenon DEF TokenInv, Pending
<1> QED BY <1>1, <1>2, <1>3, <1>4, <1>5, <1>6, <1>7, Zenon DEF Next, Isr, Shell

\* SleeperHasReadAll: no byte is left behind a sleeping shell, whenever it
\* came.  A ring of one byte would never announce its byte, and a wrapped
\* semaphore forgets its tokens: hence the assumptions.
THEOREM SleeperMissesNothing ==
    ASSUME N > 1, MaxBytes < SemMod
    PROVE  Spec => []SleeperHasReadAll
<1>1. Init => TokenInv
  BY Constants, SMT DEF Init, TokenInv, Pending, None
<1>2. TypeOK /\ TokenInv /\ [Next]_vars => TokenInv'
  BY TokenStep
<1>3. TokenInv => SleeperHasReadAll
  BY DEF TokenInv, SleeperHasReadAll
<1> QED BY <1>1, <1>2, <1>3, Typing, PTL DEF Spec
-----------------------------------------------------------------------------
(* The ring as a queue                                                     *)

\* The place of the i-th byte from g on, and the n bytes from there.
Place(g, i)   == (g + (i - 1)) % N
Held(b, g, n) == [i \in 1..n |-> b[(g + i - 1) % N]]

\* The byte that came last of those the shell has or will find.
Latest == IF get = put THEN ch ELSE buffer[IF put = 0 THEN N - 1 ELSE put - 1]

\* Bytes get newer on their way from the shell back to the line.
OrderInv ==
    /\ full => get # put
    /\ Latest <= sent
    /\ dr # None => Latest < dr /\ dr <= sent

LEMMA ModSmall == ASSUME NEW n \in Nat, NEW a \in Nat, a < n PROVE a % n = a
BY SMT

LEMMA ModWrap == ASSUME NEW n \in Nat, NEW a \in Nat, a < n PROVE (a + n) % n = a
BY SMT

LEMMA PlaceIs ==
    ASSUME NEW g \in 0..N-1, NEW i \in 1..N
    PROVE  /\ Place(g, i) = IF g + (i - 1) < N THEN g + (i - 1) ELSE (g + (i - 1)) - N
           /\ Place(g, i) \in 0..N-1
<1>1. N \in Nat \ {0} /\ g \in Nat /\ i \in Nat /\ g < N /\ 1 <= i /\ i <= N
  BY Constants, SMT
<1> DEFINE s == g + (i - 1)
<1>2. s \in Nat /\ s < N + N
  BY <1>1, SMT
<1>3. CASE s < N
  <2> HIDE DEF s
  <2>1. s % N = s /\ s \in 0..N-1
    BY <1>1, <1>2, <1>3, ModSmall, SMT
  <2> QED BY <2>1, <1>3, Zenon DEF Place, s
<1>4. CASE ~(s < N)
  <2> HIDE DEF s
  <2> DEFINE a == s - N
  <2>1. a \in Nat /\ a < N /\ s = a + N /\ a \in 0..N-1
    BY <1>1, <1>2, <1>4, SMT
  <2>2. s % N = a
    <3> HIDE DEF a
    <3> QED BY <1>1, <2>1, ModWrap
  <2> QED BY <2>1, <2>2, <1>4, Zenon DEF Place, s, a
<1> QED BY <1>3, <1>4

\* No two of N places are the same, and the next of the last is the first.
LEMMA PlaceApart ==
    ASSUME NEW g \in 0..N-1, NEW i \in 1..N, NEW j \in 1..N, i < j
    PROVE  Place(g, i) # Place(g, j)
<1>1. /\ Place(g, i) = IF g + (i - 1) < N THEN g + (i - 1) ELSE (g + (i - 1)) - N
      /\ Place(g, j) = IF g + (j - 1) < N THEN g + (j - 1) ELSE (g + (j - 1)) - N
  BY PlaceIs
<1> QED BY <1>1, Constants, SMT

\* One place on: from the next index, or the next place from the same.
LEMMA PlaceShift ==
    ASSUME NEW g \in 0..N-1, NEW i \in 1..N-1
    PROVE  Place(Wrap(g + 1), i) = Place(g, i + 1)
<1>1. i \in 1..N /\ i + 1 \in 1..N /\ Wrap(g + 1) \in 0..N-1
      /\ Wrap(g + 1) = IF g + 1 >= N THEN 0 ELSE g + 1
  BY Constants, SMT DEF Wrap
<1> DEFINE w == Wrap(g + 1)
           j == i + 1
<1> HIDE DEF w, j
<1>2. /\ Place(w, i) = IF w + (i - 1) < N THEN w + (i - 1) ELSE (w + (i - 1)) - N
      /\ Place(g, j) = IF g + (j - 1) < N THEN g + (j - 1) ELSE (g + (j - 1)) - N
  BY <1>1, PlaceIs DEF w, j
<1>3. w = (IF g + 1 >= N THEN 0 ELSE g + 1) /\ j = i + 1
  BY <1>1 DEF w, j
<1>4. Place(w, i) = Place(g, j)
  BY <1>2, <1>3, Constants, SMT
<1> QED BY <1>4 DEF w, j

\* The put index is the place behind the unread bytes, and the one before it
\* that of the last of them.
LEMMA Ends ==
    ASSUME TypeOK
    PROVE  /\ RxLength \in 0..N-1 /\ RxLength + 1 \in 1..N
           /\ (RxLength = 0) = (get = put)
           /\ Place(get, RxLength + 1) = put
           /\ get # put => Place(get, RxLength) = IF put = 0 THEN N - 1 ELSE put - 1
<1>1. put \in 0..N-1 /\ get \in 0..N-1 /\ N \in Nat \ {0}
  BY Constants DEF TypeOK
<1> DEFINE n == RxLength
           m == RxLength + 1
<1>2. n = IF put >= get THEN put - get ELSE N - (get - put)
  BY DEF RxLength
<1> HIDE DEF n
<1>3. n \in 0..N-1 /\ m \in 1..N /\ m = n + 1 /\ (n = 0) = (get = put)
  BY <1>1, <1>2, SMT DEF n
<1> HIDE DEF m
<1>4. Place(get, m) = IF get + (m - 1) < N THEN get + (m - 1) ELSE (get + (m - 1)) - N
  BY <1>1, <1>3, PlaceIs
<1>5. Place(get, m) = put
  BY <1>1, <1>2, <1>3, <1>4, SMT
<1>6. get # put => Place(get, n) = IF put = 0 THEN N - 1 ELSE put - 1
  <2> HAVE get # put
  <2>1. n \in 1..N
    BY <1>1, <1>3, SMT
  <2>2. Place(get, n) = IF get + (n - 1) < N THEN get + (n - 1) ELSE (get + (n - 1)) - N
    BY <1>1, <2>1, PlaceIs
  <2> QED BY <1>1, <1>2, <2>1, <2>2, SMT
<1> QED BY <1>3, <1>5, <1>6 DEF n, m

Values == 0..MaxBytes

LEMMA HeldFacts ==
    ASSUME NEW b \in [0..N-1 -> Values], NEW g \in 0..N-1, NEW n \in 0..N
    PROVE  /\ Held(b, g, n) \in Seq(Values) /\ Len(Held(b, g, n)) = n
           /\ \A i \in 1..n : Held(b, g, n)[i] = b[Place(g, i)]
           /\ (Held(b, g, n) = <<>>) = (n = 0)
<1>1. n \in Nat /\ \A i \in 1..n : i \in 1..N
  BY Constants, SMT
<1>2. \A i \in 1..n : b[(g + i - 1) % N] \in Values
  BY <1>1, PlaceIs, Zenon DEF Place
<1>3. Held(b, g, n) \in [1..n -> Values]
  BY <1>2, Zenon DEF Held
<1>4. Held(b, g, n) \in Seq(Values)
  BY <1>1, <1>3, SMT
<1>5. DOMAIN Held(b, g, n) = 1..n
  BY Zenon DEF Held
<1>6. Len(Held(b, g, n)) = n
  BY <1>1, <1>4, <1>5, SMT
<1>7. \A i \in 1..n : Held(b, g, n)[i] = b[Place(g, i)]
  BY Zenon DEF Held, Place
<1>8. (Held(b, g, n) = <<>>) = (n = 0)
  BY <1>1, <1>4, <1>6, EmptySeq, SMT
<1> QED BY <1>4, <1>6, <1>7, <1>8

LEMMA HeldAppend ==
    ASSUME NEW b \in [0..N-1 -> Values], NEW g \in 0..N-1, NEW n \in 0..N-1
    PROVE  Held(b, g, n + 1) = Append(Held(b, g, n), b[Place(g, n + 1)])
<1> DEFINE s == Held(b, g, n)
           e == b[Place(g, n + 1)]
           t == Held(b, g, n + 1)
<1>1. n \in Nat /\ n \in 0..N /\ n + 1 \in 0..N /\ n + 1 \in 1..N
  BY Constants, SMT
<1>2. e \in Values
  BY <1>1, PlaceIs, Zenon
<1>3. /\ s \in Seq(Values) /\ Len(s) = n /\ \A i \in 1..n : s[i] = b[Place(g, i)]
      /\ t \in Seq(Values) /\ Len(t) = n + 1 /\ \A i \in 1..n+1 : t[i] = b[Place(g, i)]
  <2>1. s \in Seq(Values) /\ Len(s) = n /\ \A i \in 1..n : s[i] = b[Place(g, i)]
    BY <1>1, HeldFacts
  <2> DEFINE k == n + 1
  <2>2. k \in 0..N
    BY <1>1
  <2> HIDE DEF k
  <2>3. Held(b, g, k) \in Seq(Values) /\ Len(Held(b, g, k)) = k
        /\ \A i \in 1..k : Held(b, g, k)[i] = b[Place(g, i)]
    BY <2>2, HeldFacts
  <2> QED BY <2>1, <2>3 DEF k
<1>4. t[n + 1] = e
  BY <1>1, <1>3, SMT
<1> HIDE DEF s, e, t
<1>5. /\ Append(s, e) \in Seq(Values) /\ Len(Append(s, e)) = n + 1
      /\ \A i \in 1..n : Append(s, e)[i] = s[i] /\ Append(s, e)[n + 1] = e
  BY <1>2, <1>3, AppendProperties
<1>6. \A i \in 1..n+1 : i \in 1..n \/ i = n + 1
  BY <1>1, SMT
<1>7. \A i \in 1..n : i \in 1..n+1
  BY <1>1, SMT
<1>8. ASSUME NEW i \in 1..n+1 PROVE t[i] = Append(s, e)[i]
  <2>1. CASE i = n + 1
    BY <2>1, <1>4, <1>1, <1>2, <1>3, AppendProperties
  <2>2. CASE i \in 1..n
    BY <2>2, <1>3, <1>5, <1>7
  <2> QED BY <2>1, <2>2, <1>6
<1>9. t = Append(s, e)
  BY <1>3, <1>5, <1>8, SeqEqual
<1> QED BY <1>9 DEF s, e, t

LEMMA HeldTail ==
    ASSUME NEW b \in [0..N-1 -> Values], NEW g \in 0..N-1, NEW n \in 1..N
    PROVE  /\ Head(Held(b, g, n)) = b[g]
           /\ Tail(Held(b, g, n)) = Held(b, Wrap(g + 1), n - 1)
<1> DEFINE s == Held(b, g, n)
           w == Wrap(g + 1)
           t == Held(b, w, n - 1)
<1>1. n \in 0..N /\ n - 1 \in 0..N /\ n # 0 /\ 1 \in 1..n /\ 1 \in 1..N
      /\ g \in Nat /\ g < N /\ g + (1 - 1) = g
      /\ \A i \in 1..n-1 : i \in 1..N-1 /\ i + 1 \in 1..n
  BY Constants, SMT
<1>2. w \in 0..N-1
  BY WrapTyped
<1>3. /\ s \in Seq(Values) /\ Len(s) = n /\ s # <<>>
      /\ \A i \in 1..n : s[i] = b[Place(g, i)]
  BY <1>1, HeldFacts
<1>4. /\ t \in Seq(Values) /\ Len(t) = n - 1
      /\ \A i \in 1..n-1 : t[i] = b[Place(w, i)]
  BY <1>1, <1>2, HeldFacts
<1>5. Place(g, 1) = g
  BY <1>1, PlaceIs, Zenon
<1>6. \A i \in 1..n-1 : Place(w, i) = Place(g, i + 1)
  BY <1>1, PlaceShift
<1> HIDE DEF s, w, t
<1>7. Tail(s) \in Seq(Values) /\ Len(Tail(s)) = n - 1
      /\ \A i \in 1..n-1 : Tail(s)[i] = s[i+1]
  BY <1>3, HeadTailProperties
<1>8. \A i \in 1..n-1 : Tail(s)[i] = t[i]
  BY <1>1, <1>3, <1>4, <1>6, <1>7
<1>9. Tail(s) = t
  BY <1>4, <1>7, <1>8, SeqEqual
<1>10. Head(s) = s[1]
  BY <1>3, SMT
<1> QED BY <1>1, <1>3, <1>5, <1>9, <1>10 DEF s, w, t

\* A byte behind them leaves them alone.
LEMMA HeldExcept ==
    ASSUME NEW b \in [0..N-1 -> Values], NEW g \in 0..N-1, NEW n \in 0..N-1, NEW m \in Values
    PROVE  Held([b EXCEPT ![Place(g, n + 1)] = m], g, n) = Held(b, g, n)
<1> DEFINE p == Place(g, n + 1)
           c == [b EXCEPT ![p] = m]
<1>1. n \in 0..N /\ n + 1 \in 1..N /\ \A i \in 1..n : i \in 1..N /\ i < n + 1
  BY Constants, SMT
<1>2. \A i \in 1..n : Place(g, i) \in 0..N-1 /\ Place(g, i) # p
  BY <1>1, PlaceIs, PlaceApart
<1>3. \A i \in 1..n : c[Place(g, i)] = b[Place(g, i)]
  BY <1>2, Zenon
<1> QED BY <1>3, Zenon DEF Held, Place

LEMMA QueueNow ==
    ASSUME TypeOK
    PROVE  /\ Unread = Held(buffer, get, RxLength)
           /\ Unread \in Seq(Values) /\ Len(Unread) = RxLength
           /\ (Unread = <<>>) = (get = put)
           /\ get # put => Unread[Len(Unread)] = Latest
<1>1. Unread = Held(buffer, get, RxLength)
  BY Zenon DEF Unread, Held
<1>2. RxLength \in 0..N-1 /\ RxLength \in 0..N /\ (RxLength = 0) = (get = put)
      /\ (RxLength # 0 => RxLength \in 1..RxLength)
      /\ (get # put => Place(get, RxLength) = IF put = 0 THEN N - 1 ELSE put - 1)
  <2>1. RxLength \in 0..N-1
    BY Ends
  <2>2. RxLength \in 0..N /\ (RxLength # 0 => RxLength \in 1..RxLength)
    BY <2>1, Constants, SMT
  <2> QED BY <2>1, <2>2, Ends
<1>3. buffer \in [0..N-1 -> Values] /\ get \in 0..N-1
  BY DEF TypeOK, Values
<1>4. /\ Held(buffer, get, RxLength) \in Seq(Values)
      /\ Len(Held(buffer, get, RxLength)) = RxLength
      /\ \A i \in 1..RxLength : Held(buffer, get, RxLength)[i] = buffer[Place(get, i)]
      /\ (Held(buffer, get, RxLength) = <<>>) = (RxLength = 0)
  BY <1>2, <1>3, HeldFacts
<1>5. get # put => Held(buffer, get, RxLength)[RxLength] = Latest
  BY <1>2, <1>4, Zenon DEF Latest
<1> QED BY <1>1, <1>2, <1>4, <1>5

\* What IsrChar does to the unread bytes.
LEMMA Stored ==
    ASSUME TypeOK, N > 1, IsrChar
    PROVE  /\ get' # put' /\ Latest' = dr
           /\ Unread' = IF Len(Unread) < N - 1 THEN Append(Unread, dr)
                                               ELSE Append(Tail(Unread), dr)
<1>1. /\ buffer \in [0..N-1 -> Values] /\ get \in 0..N-1 /\ put \in 0..N-1 /\ dr \in Values
      /\ N \in Nat /\ N > 1
  BY Constants DEF TypeOK, Values
<1>2. /\ buffer' = [buffer EXCEPT ![put] = dr]
      /\ put' = Wrap(put + 1) /\ get' = IF put' = get THEN Wrap(get + 1) ELSE get
  BY Zenon DEF IsrChar
<1> DEFINE n == RxLength
<1>3. /\ n \in 0..N-1 /\ n + 1 \in 1..N /\ Place(get, n + 1) = put
      /\ Unread = Held(buffer, get, n) /\ Len(Unread) = n
      /\ Unread \in Seq(Values)
  BY Ends, QueueNow
<1>4. TypeOK'
  BY TypeStep DEF Next, Isr
<1>5. Unread' = Held(buffer', get', RxLength')
  BY Zenon DEF Unread, Held
<1>6. buffer' \in [0..N-1 -> Values] /\ buffer'[put] = dr
  BY <1>1, <1>2
<1>7. /\ Wrap(put + 1) = IF put + 1 >= N THEN 0 ELSE put + 1
      /\ Wrap(get + 1) = IF get + 1 >= N THEN 0 ELSE get + 1
  BY DEF Wrap
<1>8. get' # put'
  BY <1>1, <1>2, <1>7, SMT
<1>9. (put' = get) = (n = N - 1) /\ n = IF put >= get THEN put - get ELSE N - (get - put)
  <2>1. n = IF put >= get THEN put - get ELSE N - (get - put)
    BY DEF RxLength
  <2> HIDE DEF n
  <2> QED BY <1>1, <1>2, <1>7, <2>1, SMT
<1>10. RxLength' = IF put' = get THEN N - 1 ELSE n + 1
  <2>1. RxLength' = IF put' >= get' THEN put' - get' ELSE N - (get' - put')
    BY DEF RxLength
  <2> HIDE DEF n
  <2> QED BY <1>1, <1>2, <1>7, <1>9, <2>1, SMT
<1>11. Latest' = dr
  <2> DEFINE i == IF put' = 0 THEN N - 1 ELSE put' - 1
  <2>1. i = put
    BY <1>1, <1>2, <1>7, SMT
  <2>2. Latest' = buffer'[i]
    BY <1>8, Zenon DEF Latest
  <2> HIDE DEF i
  <2> QED BY <1>6, <2>1, <2>2
<1>12. Held(buffer', get, n) = Unread
  <2>1. Held([buffer EXCEPT ![Place(get, n + 1)] = dr], get, n) = Held(buffer, get, n)
    BY <1>1, <1>3, HeldExcept
  <2>2. buffer' = [buffer EXCEPT ![Place(get, n + 1)] = dr]
    BY <1>2, <1>3
  <2> QED BY <1>3, <2>1, <2>2, Zenon
<1>13. Held(buffer', get, n + 1) = Append(Unread, dr)
  BY <1>1, <1>3, <1>6, <1>12, HeldAppend
<1> HIDE DEF n
<1>14. CASE put' # get
  <2>1. Unread' = Append(Unread, dr)
    BY <1>2, <1>5, <1>10, <1>13, <1>14
  <2>2. n < N - 1
    BY <1>1, <1>3, <1>9, <1>14, SMT
  <2> QED BY <1>3, <1>8, <1>11, <2>1, <2>2
<1>15. CASE put' = get
  <2>1. get' = Wrap(get + 1) /\ RxLength' = N - 1 /\ n = N - 1
    BY <1>2, <1>9, <1>10, <1>15
  <2>2. N \in 1..N /\ n + 1 = N /\ ~(n < N - 1) /\ n # 0
    BY <1>1, <2>1, SMT
  <2>3. Tail(Held(buffer', get, N)) = Held(buffer', Wrap(get + 1), N - 1)
    BY <1>1, <1>6, <2>2, HeldTail
  <2>4. Unread' = Tail(Append(Unread, dr))
    BY <1>5, <1>13, <2>1, <2>2, <2>3
  <2>5. Unread # <<>>
    BY <1>3, <2>2, EmptySeq
  <2>6. Tail(Append(Unread, dr)) = Append(Tail(Unread), dr)
    BY <1>3, <2>5, HeadTailAppend
  <2> QED BY <1>3, <1>8, <1>11, <2>2, <2>4, <2>6
<1> QED BY <1>14, <1>15

\* What Read does to them when it finds one.
LEMMA Fetched ==
    ASSUME TypeOK, Read, OrderInv, get # put
    PROVE  /\ Unread # <<>> /\ ch' = Head(Unread) /\ Unread' = Tail(Unread)
           /\ Latest' = Latest
<1>1. /\ buffer \in [0..N-1 -> Values] /\ get \in 0..N-1 /\ put \in 0..N-1 /\ N \in Nat \ {0}
  BY Constants DEF TypeOK, Values
<1>2. /\ ch' = buffer[get] /\ get' = Wrap(get + 1) /\ UNCHANGED <<buffer, put>>
  BY Zenon DEF Read
<1> DEFINE n == RxLength
<1>3. n \in 1..N /\ Unread = Held(buffer, get, n) /\ Unread # <<>>
  <2>1. n \in 0..N-1 /\ n # 0
    BY Ends
  <2> HIDE DEF n
  <2>2. n \in 1..N
    BY <1>1, <2>1, SMT
  <2> QED BY <2>2, QueueNow DEF n
<1>4. Head(Unread) = buffer[get] /\ Tail(Unread) = Held(buffer, Wrap(get + 1), n - 1)
  BY <1>1, <1>3, HeldTail
<1>5. Wrap(get + 1) = IF get + 1 >= N THEN 0 ELSE get + 1
  BY DEF Wrap
<1>6. RxLength' = n - 1
  <2>1. n = IF put >= get THEN put - get ELSE N - (get - put)
    BY DEF RxLength
  <2>2. RxLength' = IF put' >= get' THEN put' - get' ELSE N - (get' - put')
    BY DEF RxLength
  <2> HIDE DEF n
  <2> QED BY <1>1, <1>2, <1>5, <2>1, <2>2, SMT
<1>7. Unread' = Tail(Unread)
  <2>1. Unread' = Held(buffer', get', RxLength')
    BY Zenon DEF Unread, Held
  <2> QED BY <1>2, <1>4, <1>6, <2>1
<1>8. Latest' = Latest
  <2>1. CASE get' = put'
    <3>1. (IF put = 0 THEN N - 1 ELSE put - 1) = get
      BY <1>1, <1>2, <1>5, <2>1, SMT
    <3>2. Latest = buffer[get] /\ Latest' = ch'
      BY <2>1, <3>1, Zenon DEF Latest
    <3> QED BY <1>2, <3>2
  <2>2. CASE get' # put'
    BY <1>2, <2>2, Zenon DEF Latest
  <2> QED BY <2>1, <2>2
<1> QED BY <1>2, <1>3, <1>4, <1>7, <1>8

\* The other steps do not touch them.
LEMMA Untouched ==
    ASSUME OrderInv, \/ Receive \/ IsrNotify \/ OpenDevice \/ SetRxIndicate \/ SemTake
                     \/ Process \/ (Read /\ get = put) \/ UNCHANGED vars
    PROVE  UNCHANGED <<buffer, put, get, full, ch>>
<1>1. CASE Read /\ get = put
  <2>1. ~full
    BY <1>1 DEF OrderInv
  <2> QED BY <1>1, <2>1, Zenon DEF Read
<1>2. CASE \/ Receive \/ IsrNotify \/ OpenDevice \/ SetRxIndicate \/ SemTake
           \/ Process \/ UNCHANGED vars
  BY <1>2, Zenon DEF Receive, IsrNotify, OpenDevice, SetRxIndicate, SemTake, Process,
                     vars, ringVars
<1> QED BY <1>1, <1>2

LEMMA OrderStep == ASSUME TypeOK, N > 1, OrderInv, [Next]_vars PROVE OrderInv'
<1>1. CASE IsrChar
  <2>1. get' # put' /\ Latest' = dr
    BY <1>1, Stored
  <2>2. dr # None /\ dr' = None /\ sent' = sent
    BY <1>1, Zenon DEF IsrChar
  <2> QED BY <2>1, <2>2 DEF OrderInv
<1>2. CASE Read /\ get # put
  <2>1. Latest' = Latest
    BY <1>2, Fetched
  <2>2. full' = FALSE /\ UNCHANGED <<dr, sent>>
    BY <1>2, Zenon DEF Read, lineVars
  <2> QED BY <2>1, <2>2 DEF OrderInv
<1>3. ASSUME UNCHANGED <<buffer, put, get, full, ch>>,
             \/ UNCHANGED <<dr, sent>>
             \/ sent' = sent + 1 /\ dr' \in {dr, None, sent + 1}
      PROVE  OrderInv'
  <2>1. Latest' = Latest /\ full' = full /\ get' = get /\ put' = put
    BY <1>3, Zenon DEF Latest
  <2>2. Latest \in Int /\ sent \in Int /\ dr \in Int
    <3>1. /\ buffer \in [0..N-1 -> 0..MaxBytes] /\ put \in 0..N-1 /\ ch \in 0..MaxBytes
          /\ sent \in 0..MaxBytes /\ dr \in 0..MaxBytes
      BY DEF TypeOK
    <3>2. (IF put = 0 THEN N - 1 ELSE put - 1) \in 0..N-1
      BY <3>1, Constants, SMT
    <3>3. Latest \in 0..MaxBytes
      BY <3>1, <3>2, Zenon DEF Latest
    <3> QED BY <3>1, <3>3, SMT
  <2>3. CASE UNCHANGED <<dr, sent>>
    BY <2>1, <2>3 DEF OrderInv
  <2>4. CASE sent' = sent + 1 /\ dr' \in {dr, None, sent + 1}
    <3>1. Latest <= sent /\ (dr # None => Latest < dr /\ dr <= sent)
      BY DEF OrderInv
    <3> DEFINE l == Latest
    <3> HIDE DEF l
    <3>2. l <= sent /\ (dr # None => l < dr /\ dr <= sent) /\ l \in Int
      BY <2>2, <3>1 DEF l
    <3>3. l <= sent' /\ (dr' # None => l < dr' /\ dr' <= sent')
      BY <2>2, <2>4, <3>2, SMT
    <3>4. Latest' = l
      BY <2>1 DEF l
    <3> QED BY <2>1, <3>3, <3>4 DEF OrderInv
  <2> QED BY <1>3, <2>3, <2>4
<1>4. CASE Receive
  BY <1>3, <1>4, Untouched DEF Receive
<1>5. CASE \/ IsrNotify \/ OpenDevice \/ SetRxIndicate \/ SemTake
           \/ Process \/ (Read /\ get = put) \/ UNCHANGED vars
  <2>1. UNCHANGED <<dr, sent>>
    BY <1>5, Zenon DEF IsrNotify, OpenDevice, SetRxIndicate, SemTake, Process, Read,
                       vars, lineVars
  <2> QED BY <1>3, <1>5, <2>1, Untouched
<1> QED BY <1>1, <1>2, <1>4, <1>5, Zenon DEF Next, Isr, Shell

LEMMA QueueStep ==
    ASSUME TypeOK, N > 1, OrderInv, [Next]_vars PROVE [Queue!Next]_(Queue!qvars)
<1>1. CASE IsrChar
  <2>1. Unread' = IF Len(Unread) < N - 1 THEN Append(Unread, dr) ELSE Append(Tail(Unread), dr)
    BY <1>1, Stored
  <2>2. dr # None /\ ch' = ch
    BY <1>1, Zenon DEF IsrChar
  <2>3. dr > Queue!Newest
    <3>1. (Unread = <<>>) = (get = put) /\ (get # put => Unread[Len(Unread)] = Latest)
      BY QueueNow
    <3>2. Queue!Newest = Latest
      BY <3>1, Zenon DEF Queue!Newest, Latest
    <3> QED BY <2>2, <3>2 DEF OrderInv
  <2>4. dr \in Bytes
    <3>1. dr \in 0..MaxBytes
      BY DEF TypeOK
    <3> QED BY <2>2, <3>1, Constants, SMT DEF Bytes, None
  <2>5. Queue!Put
    BY <2>1, <2>2, <2>3, <2>4, Zenon DEF Queue!Put
  <2> QED BY <2>5 DEF Queue!Next
<1>2. CASE Read /\ get # put
  <2>1. Unread # <<>> /\ ch' = Head(Unread) /\ Unread' = Tail(Unread)
    BY <1>2, Fetched
  <2> QED BY <2>1 DEF Queue!Next, Queue!Get
<1>3. CASE \/ Receive \/ IsrNotify \/ OpenDevice \/ SetRxIndicate \/ SemTake
           \/ Process \/ (Read /\ get = put) \/ UNCHANGED vars
  <2>1. UNCHANGED <<buffer, put, get, full, ch>>
    BY <1>3, Untouched
  <2>2. Unread' = Unread
    BY <2>1, Zenon DEF Unread, RxLength
  <2> QED BY <2>1, <2>2 DEF Queue!qvars
<1> QED BY <1>1, <1>2, <1>3, Zenon DEF Next, Isr, Shell

\* IsLossyQueue: whatever the interleaving of line, interrupt and shell, and
\* whatever came before the callback, the shell reads the bytes in the order
\* of the line, each at most once, and a full ring gives up its oldest.  It
\* says so for every size of the ring but 1, where a stored byte leaves the
\* indices as they were and only is_full tells that there is one.
THEOREM ImplementsLossyQueue == ASSUME N > 1 PROVE Spec => IsLossyQueue
<1>1. Init => OrderInv /\ Queue!Init
  <2> SUFFICES ASSUME Init PROVE OrderInv /\ Queue!Init
    OBVIOUS
  <2>1. put = 0 /\ get = 0 /\ ~full /\ ch = 0 /\ dr = None /\ sent = 0
    BY DEF Init, None
  <2>2. RxLength = 0
    BY <2>1, SMT DEF RxLength
  <2>3. Unread = <<>>
    BY <2>2, SMT DEF Unread
  <2>4. Latest <= sent
    BY <2>1, SMT DEF Latest
  <2> QED BY <2>1, <2>3, <2>4, Zenon DEF OrderInv, Queue!Init
<1>2. TypeOK /\ OrderInv /\ [Next]_vars => OrderInv'
  BY OrderStep
<1>3. TypeOK /\ OrderInv /\ [Next]_vars => [Queue!Next]_(Queue!qvars)
  BY QueueStep
<1> QED BY <1>1, <1>2, <1>3, Typing, PTL DEF Spec, IsLossyQueue, Queue!Spec
=============================================================================
