--------------------------- MODULE LokiBatch_proofs ---------------------------
(***************************************************************************)
(* Proofs about LokiBatch, for any size of the channel and of a batch and  *)
(* any number of marked messages.                                          *)
(*                                                                         *)
(* That Loki gets the marked messages in order is not inductive by itself: *)
(* IInv says of all the places a message passes, from the channel over the *)
(* pending batch and the request to Loki, that each holds its messages in  *)
(* order and that what is nearer to Loki is earlier.  What a push keeps of *)
(* a batch is defined by recursion over the batch; that it keeps the order *)
(* is shown by induction over the natural numbers (NatSets), whose        *)
(* hypothesis is stated as a set.                                          *)
(***************************************************************************)
EXTENDS LokiBatch, WellFoundedInduction, SequenceTheorems, TLAPS

-----------------------------------------------------------------------------
(* Induction, and what a push keeps of a batch *)

\* A set that holds 0 and with every number the next holds all numbers.
LEMMA NatSets ==
  ASSUME NEW S, 0 \in S, \A n \in Nat : n \in S => n + 1 \in S
  PROVE  Nat \subseteq S
<1>. DEFINE T == Nat \ S
            R == OpToRel(<, Nat)
<1>1. SUFFICES ASSUME T # {} PROVE FALSE
  OBVIOUS
<1>2. PICK x \in T : \A y \in T : ~ (<<y, x>> \in R)
  <2>1. IsWellFoundedOn(R, Nat)
    BY NatLessThanWellFounded
  <2>2. T \subseteq Nat
    OBVIOUS
  <2>. HIDE DEF R, T
  <2>3. QED
    BY <1>1, <2>1, <2>2, WFMin
<1>3. x \in Nat /\ x # 0
  OBVIOUS
<1>4. x - 1 \in T /\ <<x - 1, x>> \in R
  BY <1>3 DEF OpToRel
<1>5. QED
  BY <1>2, <1>4


\* f[k] is what the first k messages of a batch leave.
Collects(f, batch, n) ==
  f = [k \in 0..n |->
         IF k = 0 THEN << >>
         ELSE IF batch[k] \in Marks THEN Append(f[k - 1], batch[k])
         ELSE f[k - 1]]

LEMMA CollectsExists ==
  ASSUME NEW batch \in Seq(0..LastMark), NEW n \in Nat
  PROVE  \E f : Collects(f, batch, n)
<1>. DEFINE S == {k \in Nat : \E f : Collects(f, batch, k)}
<1>1. 0 \in S
  <2>. DEFINE f == [k \in 0..0 |-> << >>]
  <2>1. Collects(f, batch, 0)
    BY DEF Collects
  <2>2. QED
    BY <2>1
<1>2. ASSUME NEW k \in Nat, k \in S
      PROVE  k + 1 \in S
  <2>1. PICK f : Collects(f, batch, k)
    BY <1>2
  <2>. DEFINE g == [j \in 0..(k + 1) |->
                      IF j <= k THEN f[j]
                      ELSE IF batch[j] \in Marks THEN Append(f[j - 1], batch[j])
                      ELSE f[j - 1]]
  <2>2. ASSUME NEW j \in 0..(k + 1)
        PROVE  g[j] = IF j = 0 THEN << >>
                      ELSE IF batch[j] \in Marks THEN Append(g[j - 1], batch[j])
                      ELSE g[j - 1]
    <3>1. CASE j = 0
      BY <2>1, <3>1 DEF Collects
    <3>2. CASE j \in 1..k
      <4>1. g[j] = f[j] /\ g[j - 1] = f[j - 1] /\ j \in 0..k /\ j # 0
        BY <3>2
      <4>2. QED
        BY <2>1, <4>1 DEF Collects
    <3>3. CASE j = k + 1
      BY <3>3
    <3>4. QED
      BY <3>1, <3>2, <3>3
  <2>3. Collects(g, batch, k + 1)
    BY <2>2, Zenon DEF Collects
  <2>4. QED
    BY <2>3
<1>3. QED
  <2>1. Nat \subseteq S
    <3>. HIDE DEF S
    <3>1. QED
      BY <1>1, <1>2, NatSets
  <2>2. QED
    BY <2>1

LEMMA MarkedOfCollects ==
  ASSUME NEW batch \in Seq(0..LastMark)
  PROVE  \E f : Collects(f, batch, Len(batch)) /\ MarkedOf(batch) = f[Len(batch)]
<1>. DEFINE f == CHOOSE g : Collects(g, batch, Len(batch))
<1>1. Collects(f, batch, Len(batch))
  BY CollectsExists
<1>2. MarkedOf(batch) = f[Len(batch)]
  BY DEF MarkedOf, Collects
<1>3. QED
  BY <1>1, <1>2

\* The marked messages of a sequence are in the order they were published, and so are those
\* of one sequence and of another behind it.
Rising(s)    == \A i, j \in DOMAIN s : i < j /\ s[i] \in Marks /\ s[j] \in Marks => s[i] < s[j]
Before(s, t) == \A i \in DOMAIN s, j \in DOMAIN t : s[i] \in Marks /\ t[j] \in Marks => s[i] < t[j]

LEMMA CollectsSteps ==
  ASSUME NEW batch \in Seq(0..LastMark), NEW f, Collects(f, batch, Len(batch))
  PROVE  /\ f[0] = << >>
         /\ \A k \in Nat : k + 1 <= Len(batch) =>
              f[k + 1] = IF batch[k + 1] \in Marks THEN Append(f[k], batch[k + 1]) ELSE f[k]
<1>1. Len(batch) \in Nat
  BY LenProperties
<1>2. f[0] = << >>
  BY <1>1 DEF Collects
<1>3. ASSUME NEW k \in Nat, k + 1 <= Len(batch)
      PROVE  f[k + 1] = IF batch[k + 1] \in Marks THEN Append(f[k], batch[k + 1]) ELSE f[k]
  <2>1. k + 1 \in 0..Len(batch) /\ k + 1 # 0 /\ (k + 1) - 1 = k
    BY <1>1, <1>3
  <2>2. QED
    BY <2>1 DEF Collects
<1>4. QED
  BY <1>2, <1>3

\* No marked message of a batch is left out.
LEMMA MarkedOfComplete ==
  ASSUME NEW batch \in Seq(0..LastMark), NEW i \in DOMAIN batch, batch[i] \in Marks
  PROVE  \E j \in DOMAIN MarkedOf(batch) : MarkedOf(batch)[j] = batch[i]
<1>1. PICK f : Collects(f, batch, Len(batch)) /\ MarkedOf(batch) = f[Len(batch)]
  BY MarkedOfCollects
<1>2. Len(batch) \in Nat /\ DOMAIN batch = 1..Len(batch)
  BY LenProperties
<1>. DEFINE Good(k) == /\ f[k] \in Seq(Marks)
                       /\ \A l \in 1..k : batch[l] \in Marks =>
                            \E j \in 1..Len(f[k]) : f[k][j] = batch[l]
            S == {k \in Nat : k <= Len(batch) => Good(k)}
<1>3. /\ f[0] = << >>
      /\ \A k \in Nat : k + 1 <= Len(batch) =>
           f[k + 1] = IF batch[k + 1] \in Marks THEN Append(f[k], batch[k + 1]) ELSE f[k]
  BY <1>1, CollectsSteps
<1>4. 0 \in S
  <2>1. f[0] \in Seq(Marks)
    BY <1>3
  <2>2. QED
    BY <2>1
<1>5. ASSUME NEW k \in Nat, k \in S
      PROVE  k + 1 \in S
  <2>1. SUFFICES ASSUME k + 1 <= Len(batch) PROVE Good(k + 1)
    OBVIOUS
  <2>2. Good(k)
    BY <1>2, <1>5, <2>1
  <2>3. CASE batch[k + 1] \notin Marks
    <3>1. f[k + 1] = f[k]
      BY <1>3, <2>1, <2>3
    <3>2. QED
      BY <2>2, <2>3, <3>1
  <2>4. CASE batch[k + 1] \in Marks
    <3>1. f[k + 1] = Append(f[k], batch[k + 1])
      BY <1>3, <2>1, <2>4, Zenon
    <3>2. /\ f[k + 1] \in Seq(Marks) /\ Len(f[k + 1]) = Len(f[k]) + 1 /\ Len(f[k]) \in Nat
          /\ f[k + 1][Len(f[k]) + 1] = batch[k + 1]
          /\ \A j \in 1..Len(f[k]) : f[k + 1][j] = f[k][j]
      BY <2>2, <2>4, <3>1
    <3>3. ASSUME NEW l \in 1..(k + 1), batch[l] \in Marks
          PROVE  \E j \in 1..Len(f[k + 1]) : f[k + 1][j] = batch[l]
      <4>1. CASE l = k + 1
        <5>1. Len(f[k]) + 1 \in 1..Len(f[k + 1])
          BY <3>2
        <5>2. QED
          BY <3>2, <4>1, <5>1
      <4>2. CASE l # k + 1
        <5>1. PICK j \in 1..Len(f[k]) : f[k][j] = batch[l]
          BY <2>2, <3>3, <4>2
        <5>2. j \in 1..Len(f[k + 1])
          BY <3>2
        <5>3. QED
          BY <3>2, <5>1, <5>2
      <4>3. QED
        BY <4>1, <4>2
    <3>4. QED
      BY <3>2, <3>3
  <2>5. QED
    BY <2>3, <2>4
<1>6. Nat \subseteq S
  <2>. HIDE DEF S
  <2>1. QED
    BY <1>4, <1>5, NatSets
<1>7. Good(Len(batch))
  BY <1>2, <1>6
<1>8. PICK j \in 1..Len(MarkedOf(batch)) : MarkedOf(batch)[j] = batch[i]
  BY <1>1, <1>2, <1>7
<1>9. DOMAIN MarkedOf(batch) = 1..Len(MarkedOf(batch))
  BY <1>1, <1>7, LenProperties
<1>10. QED
  BY <1>8, <1>9

\* What a push keeps of a batch are marked messages of the batch, in its order.
LEMMA MarkedOfKeepsOrder ==
  ASSUME NEW batch \in Seq(0..LastMark), Rising(batch)
  PROVE  /\ MarkedOf(batch) \in Seq(Marks)
         /\ Rising(MarkedOf(batch))
         /\ \A i \in DOMAIN MarkedOf(batch) : \E j \in DOMAIN batch : MarkedOf(batch)[i] = batch[j]
<1>1. PICK f : Collects(f, batch, Len(batch)) /\ MarkedOf(batch) = f[Len(batch)]
  BY MarkedOfCollects
<1>. DEFINE Good(k) == /\ f[k] \in Seq(Marks)
                       /\ Rising(f[k])
                       /\ \A i \in DOMAIN f[k] : \E j \in 1..k : f[k][i] = batch[j]
            S == {k \in Nat : k <= Len(batch) => Good(k)}
<1>2. /\ f[0] = << >>
      /\ \A k \in Nat : k + 1 <= Len(batch) =>
           f[k + 1] = IF batch[k + 1] \in Marks THEN Append(f[k], batch[k + 1]) ELSE f[k]
  BY <1>1, CollectsSteps
<1>3. 0 \in S
  <2>1. f[0] \in Seq(Marks) /\ DOMAIN f[0] = {}
    BY <1>2
  <2>2. QED
    BY <2>1 DEF Rising
<1>4. ASSUME NEW k \in Nat, k \in S
      PROVE  k + 1 \in S
  <2>1. SUFFICES ASSUME k + 1 <= Len(batch) PROVE Good(k + 1)
    OBVIOUS
  <2>2. Good(k) /\ k \in 0..Len(batch) /\ k + 1 \in 0..Len(batch) /\ k + 1 \in DOMAIN batch
    BY <1>4, <2>1
  <2>3. CASE batch[k + 1] \notin Marks
    <3>1. f[k + 1] = f[k]
      BY <1>2, <2>2, <2>3
    <3>2. QED
      BY <2>2, <3>1
  <2>4. CASE batch[k + 1] \in Marks
    <3>1. f[k + 1] = Append(f[k], batch[k + 1])
      BY <1>2, <2>1, <2>4, Zenon
    <3>2. f[k + 1] \in Seq(Marks) /\ Len(f[k + 1]) = Len(f[k]) + 1
      BY <2>2, <2>4, <3>1
    <3>3. ASSUME NEW i \in 1..Len(f[k])
          PROVE  f[k + 1][i] = f[k][i] /\ \E j \in 1..k : f[k + 1][i] = batch[j]
      BY <2>2, <2>4, <3>1
    <3>4. f[k + 1][Len(f[k]) + 1] = batch[k + 1]
      BY <2>2, <2>4, <3>1
    <3>5. ASSUME NEW i \in DOMAIN f[k + 1]
          PROVE  \E j \in 1..(k + 1) : f[k + 1][i] = batch[j]
      <4>1. CASE i \in 1..Len(f[k])
        BY <3>3, <4>1
      <4>2. CASE i = Len(f[k]) + 1
        BY <3>4, <4>2
      <4>3. QED
        BY <2>2, <3>2, <4>1, <4>2
    <3>6. ASSUME NEW i \in DOMAIN f[k + 1], NEW j \in DOMAIN f[k + 1], i < j
          PROVE  f[k + 1][i] < f[k + 1][j]
      <4>1. CASE j \in 1..Len(f[k])
        <5>1. i \in 1..Len(f[k])
          BY <3>2, <3>6, <4>1
        <5>2. f[k][i] \in Marks /\ f[k][j] \in Marks /\ f[k][i] < f[k][j]
          BY <2>2, <3>6, <4>1, <5>1 DEF Rising
        <5>3. QED
          BY <3>3, <4>1, <5>1, <5>2
      <4>2. CASE j = Len(f[k]) + 1
        <5>1. i \in 1..Len(f[k])
          BY <2>2, <3>2, <3>6, <4>2
        <5>2. PICK m \in 1..k : f[k + 1][i] = batch[m]
          BY <3>3, <5>1
        <5>3. batch[m] \in Marks /\ m \in DOMAIN batch /\ m < k + 1
          BY <2>2, <3>2, <3>6, <5>2
        <5>4. batch[m] < batch[k + 1]
          BY <2>2, <2>4, <5>3 DEF Rising
        <5>5. QED
          BY <3>4, <4>2, <5>2, <5>4
      <4>3. QED
        BY <2>2, <3>2, <4>1, <4>2
    <3>7. QED
      BY <3>2, <3>5, <3>6 DEF Rising
  <2>5. QED
    BY <2>3, <2>4
<1>5. Nat \subseteq S
  <2>. HIDE DEF S
  <2>1. QED
    BY <1>3, <1>4, NatSets
<1>6. Good(Len(batch))
  BY <1>5
<1>7. QED
  BY <1>1, <1>6

-----------------------------------------------------------------------------
(* How the order of sequences passes to their parts and their concatenation *)

Lines      == Seq(0..LastMark)
Upto(s, n) == \A i \in DOMAIN s : s[i] <= n

LEMMA ConcatOrder ==
  ASSUME NEW s \in Lines, NEW t \in Lines, NEW u \in Lines, NEW n
  PROVE  /\ s \o t \in Lines /\ Len(s \o t) = Len(s) + Len(t)
         /\ Upto(s, n) /\ Upto(t, n) => Upto(s \o t, n)
         /\ Rising(s) /\ Rising(t) /\ Before(s, t) => Rising(s \o t)
         /\ Before(s, u) /\ Before(t, u) => Before(s \o t, u)
         /\ Before(u, s) /\ Before(u, t) => Before(u, s \o t)
<1>1. /\ s \o t \in Lines /\ Len(s \o t) = Len(s) + Len(t) /\ Len(s) \in Nat /\ Len(t) \in Nat
      /\ \A i \in 1..Len(s) : (s \o t)[i] = s[i]
      /\ \A i \in (Len(s) + 1)..(Len(s) + Len(t)) : (s \o t)[i] = t[i - Len(s)]
  BY DEF Lines
<1>. DEFINE c == s \o t
<1>2. \A i \in DOMAIN c : \/ i \in DOMAIN s /\ c[i] = s[i]
                          \/ i - Len(s) \in DOMAIN t /\ i > Len(s) /\ c[i] = t[i - Len(s)]
  BY <1>1 DEF Lines
<1>3. DOMAIN s \subseteq Int /\ DOMAIN t \subseteq Int /\ DOMAIN c \subseteq Int
  BY <1>1 DEF Lines
<1>4. \A i \in DOMAIN s : i <= Len(s)
  BY DEF Lines
<1>. HIDE DEF c
<1>5. ASSUME Rising(s), Rising(t), Before(s, t), NEW i \in DOMAIN c, NEW j \in DOMAIN c,
             i < j, c[i] \in Marks, c[j] \in Marks
      PROVE  c[i] < c[j]
  <2>1. CASE i \in DOMAIN s /\ c[i] = s[i]
    BY <1>2, <1>3, <1>5, <2>1 DEF Rising, Before
  <2>2. CASE i - Len(s) \in DOMAIN t /\ i > Len(s) /\ c[i] = t[i - Len(s)]
    <3>1. j - Len(s) \in DOMAIN t /\ c[j] = t[j - Len(s)] /\ i - Len(s) < j - Len(s)
      BY <1>1, <1>2, <1>3, <1>4, <1>5, <2>2
    <3>2. QED
      BY <1>5, <2>2, <3>1 DEF Rising
  <2>3. QED
    BY <1>2, <2>1, <2>2
<1>6. ASSUME Before(s, u), Before(t, u)
      PROVE  Before(c, u)
  BY <1>2, <1>6 DEF Before
<1>7. ASSUME Before(u, s), Before(u, t)
      PROVE  Before(u, c)
  BY <1>2, <1>7 DEF Before
<1>8. ASSUME Upto(s, n), Upto(t, n)
      PROVE  Upto(c, n)
  BY <1>2, <1>8 DEF Upto
<1>9. QED
  BY <1>1, <1>5, <1>6, <1>7, <1>8 DEF c, Rising

LEMMA HeadTailOrder ==
  ASSUME NEW s \in Lines, NEW t \in Lines, s # << >>, NEW n
  PROVE  /\ Tail(s) \in Lines /\ Len(Tail(s)) = Len(s) - 1 /\ Head(s) \in 0..LastMark
         /\ Rising(s) => Rising(Tail(s)) /\ Before(<<Head(s)>>, Tail(s))
         /\ Before(t, s) => Before(t, Tail(s)) /\ Before(t, <<Head(s)>>)
         /\ Upto(s, n) => Upto(Tail(s), n) /\ Upto(<<Head(s)>>, n)
<1>1. /\ Len(s) \in Nat \ {0} /\ Head(s) = s[1] /\ 1 \in DOMAIN s
      /\ Tail(s) \in Lines /\ Len(Tail(s)) = Len(s) - 1 /\ Head(s) \in 0..LastMark
  <2>1. Len(s) \in Nat \ {0} /\ DOMAIN s = 1..Len(s)
    BY EmptySeq, LenProperties DEF Lines
  <2>2. Tail(s) \in Lines /\ Len(Tail(s)) = Len(s) - 1 /\ Head(s) \in 0..LastMark
    BY HeadTailProperties DEF Lines
  <2>3. QED
    BY <2>1, <2>2 DEF Lines
<1>2. ASSUME NEW i \in DOMAIN Tail(s)
      PROVE  i \in Nat \ {0} /\ i + 1 \in DOMAIN s /\ Tail(s)[i] = s[i + 1]
  <2>1. i \in 1..(Len(s) - 1)
    BY <1>1 DEF Lines
  <2>2. QED
    BY <1>1, <2>1 DEF Lines
<1>3. DOMAIN <<Head(s)>> = {1} /\ <<Head(s)>>[1] = s[1]
  BY <1>1
<1>4. ASSUME Rising(s)
      PROVE  Rising(Tail(s)) /\ Before(<<Head(s)>>, Tail(s))
  BY <1>1, <1>3, <1>4, <1>2 DEF Rising, Before
<1>5. ASSUME Before(t, s)
      PROVE  Before(t, Tail(s)) /\ Before(t, <<Head(s)>>)
  BY <1>1, <1>3, <1>5, <1>2 DEF Before
<1>6. ASSUME Upto(s, n)
      PROVE  Upto(Tail(s), n) /\ Upto(<<Head(s)>>, n)
  BY <1>1, <1>3, <1>6, <1>2 DEF Upto
<1>7. QED
  BY <1>1, <1>4, <1>5, <1>6

LEMMA NothingOrder ==
  ASSUME NEW s, NEW n
  PROVE  /\ << >> \in Lines /\ Len(<< >>) = 0
         /\ Rising(<< >>) /\ Before(s, << >>) /\ Before(<< >>, s) /\ Upto(<< >>, n)
BY DEF Lines, Rising, Before, Upto

LEMMA OneMessage ==
  ASSUME NEW m \in 0..LastMark
  PROVE  <<m>> \in Lines /\ Rising(<<m>>)
BY DEF Lines, Rising
-----------------------------------------------------------------------------
(* The inductive invariant *)

\* What is nearer to Loki was published earlier, and nothing was that is not published yet.
InOrder ==
  /\ Rising(stored) /\ Rising(request) /\ Rising(pending) /\ Rising(queue)
  /\ Before(stored, request) /\ Before(stored, pending) /\ Before(stored, queue)
  /\ Before(request, pending) /\ Before(request, queue)
  /\ Before(pending, queue)

Published ==
  Upto(stored, marked) /\ Upto(request, marked) /\ Upto(pending, marked) /\ Upto(queue, marked)

\* The task collects only while no request is under way and pushes only what it collected.
OneAtATime ==
  /\ pc \notin {"push", "last push"} => request = << >>
  /\ pc \in {"push", "last push"} => pending = << >>
  /\ pc = "recv" => Len(pending) < MaxBatch

IInv == TypeOK /\ InOrder /\ Published /\ OneAtATime

LEMMA TypeLines ==
  ASSUME TypeOK
  PROVE  queue \in Lines /\ pending \in Lines /\ request \in Lines /\ stored \in Lines
<1>1. Marks \subseteq 0..LastMark
  BY SizesAssumption DEF Marks
<1>2. stored \in Lines
  BY <1>1, SeqMonotonic DEF TypeOK, Lines
<1>3. QED
  BY <1>2 DEF TypeOK, Lines

LEMMA InitIInv == Init => IInv
<1> SUFFICES ASSUME Init PROVE IInv
  OBVIOUS
<1>1. TypeOK
  BY SizesAssumption DEF Init, TypeOK
<1>2. InOrder /\ Published
  BY NothingOrder DEF Init, InOrder, Published
<1>3. OneAtATime
  BY SizesAssumption DEF Init, OneAtATime
<1>4. QED
  BY <1>1, <1>2, <1>3 DEF IInv

\* A published message is behind everything that is on its way.
LEMMA PublishKeeps ==
  ASSUME IInv, NEW m \in Marks \cup {Unmarked}, Publish(m)
  PROVE  IInv'
<1>1. /\ m \in 0..LastMark /\ marked \in 0..LastMark /\ marked' \in 0..LastMark
      /\ marked <= marked' /\ m <= marked' /\ (m \in Marks => marked < m)
  <2>1. LastMark \in Nat /\ marked \in 0..LastMark
    BY SizesAssumption DEF IInv, TypeOK
  <2>2. CASE m = Unmarked
    BY <2>1, <2>2 DEF Publish, Marks, Unmarked
  <2>3. CASE m # Unmarked
    BY <2>1, <2>3 DEF Publish, Marks, Unmarked
  <2>4. QED
    BY <2>2, <2>3
<1>2. UNCHANGED <<open, pending, request, pc, stored>>
  BY DEF Publish
<1>3. stored \in Lines /\ request \in Lines /\ pending \in Lines /\ queue \in Lines
  BY TypeLines DEF IInv
<1>4. ASSUME NEW s \in Lines, Upto(s, marked)
      PROVE  Before(s, <<m>>) /\ Upto(s, marked') /\ Upto(<<m>>, marked')
  <2>1. \A i \in DOMAIN s : s[i] \in Int
    <3>1. \A i \in 1..Len(s) : s[i] \in 0..LastMark
      BY ElementOfSeq DEF Lines
    <3>2. DOMAIN s = 1..Len(s)
      BY LenProperties DEF Lines
    <3>3. QED
      BY <3>1, <3>2
  <2>2. QED
    BY <1>1, <1>4, <2>1, SizesAssumption DEF Before, Upto, Marks
<1>5. CASE queue' = queue
  <2>1. TypeOK'
    BY <1>1, <1>2, <1>5 DEF IInv, TypeOK, Marks
  <2>2. InOrder' /\ OneAtATime'
    BY <1>2, <1>5 DEF IInv, InOrder, OneAtATime
  <2>3. Published'
    BY <1>2, <1>3, <1>4, <1>5 DEF IInv, Published
  <2>4. QED
    BY <2>1, <2>2, <2>3 DEF IInv
<1>6. CASE Len(queue) < Capacity /\ queue' = Append(queue, m)
  <2>1. queue' = queue \o <<m>> /\ <<m>> \in Lines /\ Rising(<<m>>) /\ Len(<<m>>) = 1
    BY <1>1, <1>3, <1>6, OneMessage DEF Lines
  <2>2. queue' \in Lines /\ Len(queue') = Len(queue) + 1 /\ Len(queue) \in Nat
    BY <1>3, <2>1, ConcatOrder DEF Lines
  <2>3. TypeOK'
    <3>1. Len(queue') <= Capacity
      BY <1>6, <2>2, SizesAssumption
    <3>2. QED
      BY <1>1, <1>2, <2>2, <3>1 DEF IInv, TypeOK, Marks, Lines
  <2>4. InOrder'
    <3>1. Rising(queue')
      BY <1>3, <1>4, <2>1, ConcatOrder DEF IInv, InOrder, Published
    <3>2. ASSUME NEW s \in Lines, Upto(s, marked), Before(s, queue)
          PROVE  Before(s, queue')
      BY <1>3, <1>4, <2>1, <3>2, ConcatOrder
    <3>3. QED
      BY <1>2, <1>3, <3>1, <3>2 DEF IInv, InOrder, Published
  <2>5. Published'
    <3>1. Upto(queue', marked')
      BY <1>3, <1>4, <2>1, ConcatOrder DEF IInv, Published
    <3>2. QED
      BY <1>2, <1>3, <1>4, <3>1 DEF IInv, Published
  <2>6. QED
    BY <1>2, <2>3, <2>4, <2>5 DEF IInv, OneAtATime
<1>7. QED
  BY <1>5, <1>6 DEF Publish

\* The message taken from the channel was ahead of all others in it.
LEMMA TakeOneKeeps ==
  ASSUME IInv, TakeOne
  PROVE  /\ InOrder' /\ Published'
         /\ queue' \in Lines /\ Len(queue') <= Capacity
         /\ pending' \in Lines /\ Len(pending') = Len(pending) + 1 /\ Len(pending) \in Nat
<1>1. stored \in Lines /\ request \in Lines /\ pending \in Lines /\ queue \in Lines
  BY TypeLines DEF IInv
<1>. DEFINE first == <<Head(queue)>>
<1>2. /\ queue # << >> /\ queue' = Tail(queue) /\ pending' = Append(pending, Head(queue))
      /\ UNCHANGED <<open, request, marked, stored>>
  BY DEF TakeOne
<1>3. /\ queue' \in Lines /\ Len(queue') = Len(queue) - 1 /\ Head(queue) \in 0..LastMark
      /\ Rising(queue') /\ Before(first, queue')
      /\ Upto(queue', marked) /\ Upto(first, marked)
      /\ Before(pending, queue') /\ Before(pending, first)
  BY <1>1, <1>2, HeadTailOrder DEF IInv, InOrder, Published
<1>4. ASSUME NEW s \in Lines, Before(s, queue)
      PROVE  Before(s, queue') /\ Before(s, first)
  BY <1>1, <1>2, <1>4, HeadTailOrder
<1>5. pending' = pending \o first /\ first \in Lines /\ Rising(first) /\ Len(first) = 1
  <2>1. first \in Lines /\ Rising(first)
    BY <1>3, OneMessage
  <2>2. pending' = pending \o first
    BY <1>1, <1>2, <1>3, AppendIsConcat DEF Lines
  <2>3. QED
    BY <2>1, <2>2
<1>. HIDE DEF first
<1>6. /\ pending' \in Lines /\ Len(pending') = Len(pending) + 1
      /\ Rising(pending') /\ Before(pending', queue') /\ Upto(pending', marked)
  BY <1>1, <1>3, <1>5, ConcatOrder DEF IInv, InOrder, Published
<1>7. ASSUME NEW s \in Lines, Before(s, pending), Before(s, queue)
      PROVE  Before(s, pending')
  BY <1>1, <1>4, <1>5, <1>7, ConcatOrder
<1>8. InOrder' /\ Published'
  BY <1>1, <1>2, <1>3, <1>4, <1>6, <1>7 DEF IInv, InOrder, Published
<1>9. Len(queue) <= Capacity /\ Len(queue) \in Nat /\ Len(pending) \in Nat
  BY <1>1, LenProperties DEF IInv, TypeOK, Lines
<1>10. QED
  BY <1>3, <1>6, <1>8, <1>9, SizesAssumption

LEMMA BatchNotNegative == 0 <= MaxBatch
BY SizesAssumption

\* A batch goes to the request while none is under way.
LEMMA FlushKeeps ==
  ASSUME IInv, pc \in {"recv", "drain"}, NEW next \in {"push", "last push"}, Flush(next)
  PROVE  IInv'
<1>1. /\ pending' = << >> /\ request' = pending /\ pc' = next
      /\ UNCHANGED <<queue, open, marked, stored>>
  BY DEF Flush
<1>2. TypeOK'
  <2>1. pending' \in Seq(0..LastMark) /\ Len(pending') <= MaxBatch
    <3>1. pending' = << >> /\ << >> \in Seq(0..LastMark) /\ Len(<< >>) = 0
      BY <1>1, EmptySeq
    <3>2. QED
      BY <3>1, BatchNotNegative
  <2>2. QED
    BY <1>1, <2>1 DEF IInv, TypeOK, Marks
<1>3. InOrder' /\ Published'
  BY <1>1, NothingOrder DEF IInv, InOrder, Published
<1>4. QED
  BY <1>1, <1>2, <1>3 DEF IInv, OneAtATime

\* A batch that Loki takes is behind all it has and before all that is still to come.
LEMMA PushEndsKeeps ==
  ASSUME IInv, NEW taken, NEW error, PushEnds(taken, error)
  PROVE  IInv'
<1>. DEFINE kept == MarkedOf(request)
<1>1. /\ request' = << >> /\ pending = << >> /\ pc' \in {"recv", "end"}
      /\ UNCHANGED <<queue, open, pending, marked>>
  BY DEF PushEnds, AfterPush, IInv, OneAtATime
<1>2. OneAtATime'
  BY <1>1, SizesAssumption DEF OneAtATime
<1>3. request \in Lines /\ stored \in Lines /\ queue \in Lines /\ stored \in Seq(Marks)
  BY TypeLines DEF IInv, TypeOK
<1>4. /\ kept \in Seq(Marks) /\ Rising(kept)
      /\ \A i \in DOMAIN kept : \E j \in DOMAIN request : kept[i] = request[j]
  BY <1>3, MarkedOfKeepsOrder DEF IInv, InOrder, Lines
<1>5. stored' = stored \/ stored' = stored \o kept
  BY DEF PushEnds
<1>. HIDE DEF kept
<1>6. kept \in Lines /\ stored \o kept \in Seq(Marks)
  BY <1>3, <1>4, SizesAssumption DEF Lines, Marks
<1>7. Before(stored, kept) /\ Before(kept, queue) /\ Upto(kept, marked)
  BY <1>4 DEF IInv, InOrder, Published, Before, Upto
<1>8. /\ stored' \in Seq(Marks) /\ Rising(stored') /\ Before(stored', queue)
      /\ Upto(stored', marked)
  BY <1>3, <1>4, <1>5, <1>6, <1>7, ConcatOrder DEF IInv, InOrder, Published
<1>9. TypeOK'
  BY <1>1, <1>8, SizesAssumption DEF IInv, TypeOK, Marks
<1>10. InOrder' /\ Published'
  BY <1>1, <1>8, NothingOrder DEF IInv, InOrder, Published
<1>11. QED
  BY <1>2, <1>9, <1>10 DEF IInv

LEMMA NextKeeps == IInv /\ [Next]_vars => IInv'
<1> SUFFICES ASSUME IInv, [Next]_vars PROVE IInv'
  OBVIOUS
<1>1. ASSUME NEW m \in Marks \cup {Unmarked}, Publish(m)
      PROVE  IInv'
  BY <1>1, PublishKeeps
<1>2. ASSUME Close
      PROVE  IInv'
  BY <1>2 DEF Close, IInv, TypeOK, InOrder, Published, OneAtATime, Marks
<1>3. ASSUME TakeOne, pc' = "drain", Recv \/ Drain
      PROVE  IInv'
  <2>1. Len(pending) < MaxBatch
    BY <1>3 DEF Recv, Drain, IInv, OneAtATime
  <2>2. TypeOK'
    <3>1. Len(pending') <= MaxBatch
      BY <1>3, <2>1, TakeOneKeeps, SizesAssumption
    <3>2. UNCHANGED <<open, request, marked, stored>>
      BY <1>3 DEF TakeOne
    <3>3. QED
      BY <1>3, <3>1, <3>2, TakeOneKeeps DEF IInv, TypeOK, Lines, Marks
  <2>3. OneAtATime'
    BY <1>3 DEF Recv, Drain, TakeOne, IInv, OneAtATime
  <2>4. QED
    BY <1>3, <2>2, <2>3, TakeOneKeeps DEF IInv
<1>4. ASSUME Drained
      PROVE  IInv'
  <2>1. CASE Len(pending) >= MaxBatch
    BY <1>4, <2>1, FlushKeeps DEF Drained
  <2>2. CASE ~ (Len(pending) >= MaxBatch)
    <3>1. Len(pending) < MaxBatch
      <4>1. MaxBatch \in Nat /\ Len(pending) \in Nat
        BY SizesAssumption, LenProperties DEF IInv, TypeOK
      <4>2. QED
        BY <2>2, <4>1
    <3>2. pc = "drain" /\ pc' = "recv" /\ UNCHANGED <<queue, open, pending, request, marked, stored>>
      BY <1>4, <2>2 DEF Drained
    <3>3. QED
      BY <3>1, <3>2 DEF IInv, TypeOK, InOrder, Published, OneAtATime, Marks
  <2>3. QED
    BY <2>1, <2>2
<1>5. ASSUME Timeout
      PROVE  IInv'
  BY <1>5, FlushKeeps DEF Timeout
<1>6. ASSUME Closed
      PROVE  IInv'
  <2>1. CASE pending # << >>
    BY <1>6, <2>1, FlushKeeps DEF Closed
  <2>2. CASE pending = << >>
    BY <1>6, <2>2 DEF Closed, IInv, TypeOK, InOrder, Published, OneAtATime, Marks
  <2>3. QED
    BY <2>1, <2>2
<1>7. ASSUME NEW taken \in BOOLEAN, NEW error \in BOOLEAN, PushEnds(taken, error)
      PROVE  IInv'
  BY <1>7, PushEndsKeeps
<1>8. CASE UNCHANGED vars
  BY <1>8 DEF vars, IInv, TypeOK, InOrder, Published, OneAtATime, Marks
<1>9. QED
  BY <1>1, <1>2, <1>3, <1>4, <1>5, <1>6, <1>7, <1>8 DEF Next, Task, Recv, Drain

-----------------------------------------------------------------------------
(* Theorems *)

\* Whatever the control loop publishes and however the requests end, the marked messages
\* on their way stand in the order they were published, from Loki back to the channel.
THEOREM Invariance == Spec => []IInv
<1>1. Init => IInv
  BY InitIInv
<1>2. IInv /\ [Next]_vars => IInv'
  BY NextKeeps
<1>3. QED
  BY <1>1, <1>2, PTL DEF Spec

\* Types, and the limits: the channel never holds more than its capacity, a batch and a
\* request never more than MAX_BATCH_SIZE.
THEOREM TypeCorrect == Spec => []TypeOK
<1>1. IInv => TypeOK
  BY DEF IInv
<1>2. QED
  BY <1>1, Invariance, PTL

\* Loki gets the messages of a robot in order and none twice, for every capacity, size of a
\* batch and number of messages.
THEOREM OrderCorrect == Spec => []InOrderOnce
<1>1. IInv => InOrderOnce
  <2> SUFFICES ASSUME IInv, NEW i \in DOMAIN stored, NEW j \in DOMAIN stored, i < j
               PROVE  stored[i] < stored[j]
    BY DEF InOrderOnce
  <2>1. stored[i] \in Marks /\ stored[j] \in Marks
    BY LenProperties, ElementOfSeq DEF IInv, TypeOK
  <2>2. QED
    BY <2>1 DEF IInv, InOrder, Rising
<1>2. QED
  BY <1>1, Invariance, PTL

\* What Loki has is neither waiting nor under way: no message is pushed again once it was
\* taken, not even after an error.
StoredIsDone == \A m \in Marks : Contains(stored, m) => ~Held(m)

THEOREM StoredOnce == Spec => []StoredIsDone
<1>1. IInv => StoredIsDone
  <2> SUFFICES ASSUME IInv, NEW m \in Marks, NEW i \in 1..Len(stored), stored[i] = m,
                      NEW s \in {queue, pending, request}, NEW j \in 1..Len(s), s[j] = m
               PROVE  FALSE
    BY DEF StoredIsDone, Held, Contains
  <2>1. Before(stored, s)
    BY DEF IInv, InOrder
  <2>2. i \in DOMAIN stored /\ j \in DOMAIN s
    BY TypeLines, LenProperties DEF IInv, Lines
  <2>3. m \in Int /\ m > 0
    BY SizesAssumption DEF Marks
  <2>4. QED
    BY <2>1, <2>2, <2>3 DEF Before, Marks
<1>2. QED
  BY <1>1, Invariance, PTL

\* A message that got into the channel is not lost before its push: until then it is in the
\* channel, the batch or the request, however batches are cut, timed out or closed, and a
\* push that Loki takes has all of its batch.
KeptUntilPushed ==
  [][\A m \in Marks : Held(m) =>
       \/ Held(m)'
       \/ Contains(stored', m)
       \/ \E error \in BOOLEAN : PushEnds(FALSE, error) /\ Contains(request, m)]_vars

LEMMA AppendKeeps ==
  ASSUME NEW s \in Lines, NEW m \in 0..LastMark
  PROVE  /\ Contains(Append(s, m), m)
         /\ \A l : Contains(s, l) => Contains(Append(s, m), l)
<1>1. /\ Len(Append(s, m)) = Len(s) + 1 /\ Len(s) \in Nat
      /\ Append(s, m)[Len(s) + 1] = m
      /\ \A i \in 1..Len(s) : Append(s, m)[i] = s[i]
  BY LenProperties DEF Lines
<1>2. Len(s) + 1 \in 1..Len(Append(s, m)) /\ 1..Len(s) \subseteq 1..Len(Append(s, m))
  BY <1>1
<1>3. QED
  BY <1>1, <1>2 DEF Contains

LEMMA TakeOneKeepsHeld ==
  ASSUME IInv, TakeOne, NEW m \in Marks, Held(m)
  PROVE  Held(m)'
<1>1. queue \in Lines /\ pending \in Lines
  BY TypeLines DEF IInv
<1>2. /\ queue # << >> /\ queue' = Tail(queue) /\ pending' = Append(pending, Head(queue))
      /\ request' = request
  BY DEF TakeOne
<1>3. Head(queue) \in 0..LastMark /\ Len(queue) \in Nat /\ Head(queue) = queue[1]
  <2>1. Head(queue) \in 0..LastMark
    BY <1>1, <1>2, HeadTailOrder
  <2>2. Len(queue) \in Nat /\ Head(queue) = queue[1]
    BY <1>1, <1>2 DEF Lines
  <2>3. QED
    BY <2>1, <2>2
<1>4. CASE Contains(request, m)
  BY <1>2, <1>4 DEF Held
<1>5. CASE Contains(pending, m)
  BY <1>1, <1>2, <1>3, <1>5, AppendKeeps DEF Held
<1>6. CASE Contains(queue, m)
  <2>1. PICK i \in 1..Len(queue) : queue[i] = m
    BY <1>6 DEF Contains
  <2>2. CASE i = 1
    BY <1>1, <1>2, <1>3, <2>1, <2>2, AppendKeeps DEF Held
  <2>3. CASE i # 1
    <3>1. Len(Tail(queue)) = Len(queue) - 1
      BY <1>1, <1>2, HeadTailOrder
    <3>2. i - 1 \in 1..Len(Tail(queue))
      BY <1>3, <2>3, <3>1
    <3>3. Tail(queue)[i - 1] = queue[i]
      BY <1>1, <1>2, <2>3, <3>2, HeadTailProperties DEF Lines
    <3>4. Contains(queue', m)
      BY <1>2, <2>1, <3>2, <3>3 DEF Contains
    <3>5. QED
      BY <3>4 DEF Held
  <2>4. QED
    BY <2>2, <2>3
<1>7. QED
  BY <1>4, <1>5, <1>6 DEF Held

LEMMA FlushKeepsHeld ==
  ASSUME IInv, pc \in {"recv", "drain"}, NEW next, Flush(next), NEW m \in Marks, Held(m)
  PROVE  Held(m)'
<1>1. request = << >>
  BY DEF IInv, OneAtATime
<1>2. ~Contains(request, m)
  BY <1>1 DEF Contains
<1>3. QED
  BY <1>2 DEF Held, Flush

LEMMA PushKeepsOthers ==
  ASSUME IInv, NEW taken \in BOOLEAN, NEW error \in BOOLEAN, PushEnds(taken, error),
         NEW m \in Marks, Held(m)
  PROVE  \/ Held(m)'
         \/ Contains(stored', m)
         \/ PushEnds(FALSE, error) /\ Contains(request, m)
<1>1. queue' = queue /\ pending' = pending
  BY DEF PushEnds
<1>2. CASE Contains(queue, m) \/ Contains(pending, m)
  BY <1>1, <1>2 DEF Held
<1>3. CASE Contains(request, m) /\ taken
  <2>1. /\ request \in Lines /\ stored \in Lines /\ stored \in Seq(Marks)
        /\ stored' = stored \o MarkedOf(request) /\ Rising(request)
    BY <1>3, TypeLines DEF PushEnds, IInv, TypeOK, InOrder
  <2>2. MarkedOf(request) \in Seq(Marks)
    BY <2>1, MarkedOfKeepsOrder DEF Lines
  <2>3. PICK i \in DOMAIN request : request[i] = m
    BY <1>3, <2>1, LenProperties DEF Contains, Lines
  <2>4. PICK j \in DOMAIN MarkedOf(request) : MarkedOf(request)[j] = m
    BY <2>1, <2>3, MarkedOfComplete DEF Lines
  <2>. DEFINE t == MarkedOf(request)
  <2>5. Len(t) \in Nat /\ Len(stored) \in Nat /\ j \in 1..Len(t)
    BY <2>1, <2>2, <2>4, LenProperties
  <2>6. stored \in Seq(Marks) /\ t \in Seq(Marks) /\ t[j] = m
    BY <2>1, <2>2, <2>4
  <2>. HIDE DEF t
  <2>7. Len(stored \o t) = Len(stored) + Len(t) /\ (stored \o t)[Len(stored) + j] = t[j]
    BY <2>5, <2>6
  <2>8. Len(stored) + j \in 1..Len(stored \o t)
    BY <2>5, <2>7
  <2>9. Contains(stored \o t, m)
    BY <2>6, <2>7, <2>8 DEF Contains
  <2>10. QED
    BY <2>1, <2>9 DEF t
<1>4. CASE Contains(request, m) /\ ~taken
  BY <1>4
<1>5. QED
  BY <1>2, <1>3, <1>4 DEF Held

THEOREM KeptCorrect == Spec => KeptUntilPushed
<1>1. IInv /\ [Next]_vars =>
        [\A m \in Marks : Held(m) =>
           \/ Held(m)'
           \/ Contains(stored', m)
           \/ \E error \in BOOLEAN : PushEnds(FALSE, error) /\ Contains(request, m)]_vars
  <2> SUFFICES ASSUME IInv, Next, NEW m \in Marks, Held(m)
               PROVE  \/ Held(m)'
                      \/ Contains(stored', m)
                      \/ \E error \in BOOLEAN : PushEnds(FALSE, error) /\ Contains(request, m)
    OBVIOUS
  <2>1. ASSUME NEW l \in Marks \cup {Unmarked}, Publish(l)
        PROVE  Held(m)'
    <3>1. UNCHANGED <<pending, request>> /\ (queue' = queue \/ queue' = Append(queue, l))
      BY <2>1 DEF Publish
    <3>2. queue \in Lines /\ l \in 0..LastMark
      BY TypeLines, SizesAssumption DEF IInv, Marks, Unmarked
    <3>3. Contains(queue, m) => Contains(queue', m)
      BY <3>1, <3>2, AppendKeeps
    <3>4. QED
      BY <3>1, <3>3 DEF Held
  <2>2. ASSUME UNCHANGED <<queue, pending, request>> PROVE Held(m)'
    BY <2>2 DEF Held
  <2>3. CASE Close
    BY <2>2, <2>3 DEF Close
  <2>4. CASE Recv \/ Drain
    BY <2>4, TakeOneKeepsHeld DEF Recv, Drain
  <2>5. CASE Drained \/ Timeout \/ Closed
    <3>1. pc \in {"recv", "drain"}
      BY <2>5 DEF Drained, Timeout, Closed
    <3>2. (\E next : Flush(next)) \/ UNCHANGED <<queue, pending, request>>
      BY <2>5 DEF Drained, Timeout, Closed
    <3>3. QED
      BY <2>2, <3>1, <3>2, FlushKeepsHeld
  <2>6. CASE \E taken, error \in BOOLEAN : PushEnds(taken, error)
    BY <2>6, PushKeepsOthers
  <2>7. QED
    BY <2>1, <2>3, <2>4, <2>5, <2>6 DEF Next, Task
<1>2. QED
  BY <1>1, Invariance, PTL DEF Spec, KeptUntilPushed

\* When the task ends nothing is left behind: the channel is closed and empty, and what was
\* pending has been pushed.
LastComesLast ==
  pc \in {"last push", "end"} =>
    ~open /\ queue = << >> /\ pending = << >> /\ (pc = "end" => request = << >>)

THEOREM NothingLeft == Spec => []LastComesLast
<1>1. Init => LastComesLast
  BY DEF Init, LastComesLast
<1>2. IInv /\ LastComesLast /\ [Next]_vars => LastComesLast'
  <2> SUFFICES ASSUME IInv, LastComesLast, [Next]_vars PROVE LastComesLast'
    OBVIOUS
  <2>1. CASE (\E m \in Marks \cup {Unmarked} : Publish(m)) \/ Close
    BY <2>1 DEF Publish, Close, LastComesLast
  <2>2. CASE Recv \/ Drain \/ Drained \/ Timeout
    BY <2>2 DEF Recv, Drain, Drained, Timeout, Flush, LastComesLast
  <2>3. CASE Closed
    <3>1. pc = "recv" /\ request = << >>
      BY <2>3 DEF Closed, IInv, OneAtATime
    <3>2. QED
      BY <2>3, <3>1 DEF Closed, Flush, LastComesLast
  <2>4. CASE \E taken, error \in BOOLEAN : PushEnds(taken, error)
    <3>1. /\ UNCHANGED <<queue, open, pending>> /\ request' = << >>
          /\ pc' = (IF pc = "last push" THEN "end" ELSE "recv")
      BY <2>4, Zenon DEF PushEnds, AfterPush
    <3>2. CASE pc = "last push"
      BY <3>1, <3>2 DEF LastComesLast
    <3>3. CASE pc # "last push"
      BY <3>1, <3>3 DEF LastComesLast
    <3>4. QED
      BY <3>2, <3>3
  <2>5. CASE UNCHANGED vars
    BY <2>5 DEF vars, LastComesLast
  <2>6. QED
    BY <2>1, <2>2, <2>3, <2>4, <2>5 DEF Next, Task
<1>3. QED
  BY <1>1, <1>2, Invariance, PTL DEF Spec
=============================================================================
