-------------------------- MODULE ReplaySeek_proofs --------------------------
(***************************************************************************)
(* Proofs about ReplaySeek, for any log files, seeks and clients.          *)
(*                                                                         *)
(* What is filtered and shown at a position is what playing the log        *)
(* straight to it gives: one more event takes Replayed(n) to               *)
(* Replayed(n + 1), and moving the cursor is feeding events from a         *)
(* position reached before or from the start.  How often an event is       *)
(* applied depends on the data, so that this takes an induction over the   *)
(* natural numbers (NatSets), whose hypothesis is stated as a set.         *)
(***************************************************************************)
EXTENDS ReplaySeek, FiniteSetTheorems, WellFoundedInduction, SequenceTheorems, TLAPS

-----------------------------------------------------------------------------
(* Induction, and the recursive definitions *)

\* A set that holds 0 and with every number the next holds all numbers.
LEMMA NatSets ==
  ASSUME NEW S, 0 \in S, \A n \in Nat : n \in S => n + 1 \in S
  PROVE  Nat \subseteq S
<1>. DEFINE T == Nat \ S
            R == OpToRel(<, Nat)
<1>1. SUFFICES ASSUME T # {} PROVE FALSE
  OBVIOUS
<1>2. PICK x \in T : \A y \in T : ~ (<<y, x>> \in R)
  <2>1. IsWellFoundedOn(R, Nat)
    BY NatLessThanWellFounded
  <2>2. T \subseteq Nat
    OBVIOUS
  <2>. HIDE DEF R, T
  <2>3. QED
    BY <1>1, <2>1, <2>2, WFMin
<1>3. x \in Nat /\ x # 0
  OBVIOUS
<1>4. x - 1 \in T /\ <<x - 1, x>> \in R
  BY <1>3 DEF OpToRel
<1>5. QED
  BY <1>2, <1>4


\* The last of a set of positions.
LEMMA LastOfGreatest ==
  ASSUME NEW S, NEW m \in S, S \subseteq Int, \A j \in S : j <= m
  PROVE  LastOf(S) = m
<1>. DEFINE last == CHOOSE i \in S : \A j \in S : j <= i
<1>1. last \in S /\ \A j \in S : j <= last
  OBVIOUS
<1>2. last = m
  <2>. HIDE DEF last
  <2>1. last <= m /\ m <= last /\ last \in Int /\ m \in Int
    BY <1>1
  <2>2. QED
    BY <2>1
<1>3. QED
  BY <1>2 DEF LastOf

LEMMA LastUpTo ==
  ASSUME NEW P, NEW n \in Nat
  PROVE  LastOf({i \in 1..(n + 1) : i \in P})
           = IF n + 1 \in P THEN n + 1 ELSE LastOf({i \in 1..n : i \in P})
<1>1. CASE n + 1 \in P
  BY <1>1, LastOfGreatest
<1>2. CASE n + 1 \notin P
  <2>1. {i \in 1..(n + 1) : i \in P} = {i \in 1..n : i \in P}
    BY <1>2
  <2>2. QED
    BY <1>2, <2>1
<1>3. QED
  BY <1>1, <1>2

\* f[k] is what VisionUpTo(n) computes for the first k events.
Collects(f, n) ==
  f = [k \in 0..n |->
         IF k = 0 THEN << >>
         ELSE IF IsVision(k) THEN Append(f[k - 1], k)
         ELSE f[k - 1]]

LEMMA CollectsExists ==
  ASSUME NEW n \in Nat
  PROVE  \E f : Collects(f, n)
<1>. DEFINE S == {k \in Nat : \E f : Collects(f, k)}
<1>1. 0 \in S
  <2>. DEFINE f == [k \in 0..0 |-> << >>]
  <2>1. Collects(f, 0)
    BY DEF Collects
  <2>2. QED
    BY <2>1
<1>2. ASSUME NEW k \in Nat, k \in S
      PROVE  k + 1 \in S
  <2>1. PICK f : Collects(f, k)
    BY <1>2
  <2>. DEFINE g == [j \in 0..(k + 1) |->
                      IF j <= k THEN f[j]
                      ELSE IF IsVision(j) THEN Append(f[j - 1], j)
                      ELSE f[j - 1]]
  <2>2. ASSUME NEW j \in 0..(k + 1)
        PROVE  g[j] = IF j = 0 THEN << >>
                      ELSE IF IsVision(j) THEN Append(g[j - 1], j)
                      ELSE g[j - 1]
    <3>1. CASE j = 0
      BY <2>1, <3>1 DEF Collects
    <3>2. CASE j \in 1..k
      <4>1. g[j] = f[j] /\ g[j - 1] = f[j - 1] /\ j \in 0..k /\ j # 0
        BY <3>2
      <4>2. QED
        BY <2>1, <4>1 DEF Collects
    <3>3. CASE j = k + 1
      BY <3>3
    <3>4. QED
      BY <3>1, <3>2, <3>3
  <2>3. Collects(g, k + 1)
    BY <2>2, Zenon DEF Collects
  <2>4. QED
    BY <2>3
<1>3. Nat \subseteq S
  <2>. HIDE DEF S
  <2>1. QED
    BY <1>1, <1>2, NatSets
<1>4. QED
  BY <1>3

\* Whatever two of them are for, they agree where both are defined.
LEMMA CollectsAgree ==
  ASSUME NEW n \in Nat, NEW m \in Nat, n <= m, NEW f, NEW g, Collects(f, n), Collects(g, m)
  PROVE  f[n] = g[n]
<1>. DEFINE S == {k \in Nat : k <= n => f[k] = g[k]}
<1>1. 0 \in S
  BY DEF Collects
<1>2. ASSUME NEW k \in Nat, k \in S
      PROVE  k + 1 \in S
  <2>1. SUFFICES ASSUME k + 1 <= n PROVE f[k + 1] = g[k + 1]
    OBVIOUS
  <2>2. f[k] = g[k]
    BY <1>2, <2>1
  <2>3. k + 1 \in 0..n /\ k + 1 \in 0..m /\ k + 1 # 0 /\ (k + 1) - 1 = k
    BY <2>1
  <2>4. f[k + 1] = IF IsVision(k + 1) THEN Append(f[k], k + 1) ELSE f[k]
    BY <2>3 DEF Collects
  <2>5. g[k + 1] = IF IsVision(k + 1) THEN Append(g[k], k + 1) ELSE g[k]
    BY <2>3 DEF Collects
  <2>6. QED
    BY <2>2, <2>4, <2>5
<1>3. Nat \subseteq S
  <2>. HIDE DEF S
  <2>1. QED
    BY <1>1, <1>2, NatSets
<1>4. QED
  BY <1>3

LEMMA VisionUpToCollects ==
  ASSUME NEW n \in Nat
  PROVE  \E f : Collects(f, n) /\ VisionUpTo(n) = f[n]
<1>. DEFINE f == CHOOSE g : Collects(g, n)
<1>1. Collects(f, n)
  BY CollectsExists
<1>2. VisionUpTo(n) = f[n]
  BY DEF VisionUpTo, Collects
<1>3. QED
  BY <1>1, <1>2

\* The equations that define VisionUpTo.
LEMMA VisionUpToNext ==
  ASSUME NEW n \in Nat
  PROVE  /\ VisionUpTo(0) = << >>
         /\ VisionUpTo(n + 1) = IF IsVision(n + 1) THEN Append(VisionUpTo(n), n + 1)
                                ELSE VisionUpTo(n)
<1>1. VisionUpTo(0) = << >>
  <2>1. PICK f : Collects(f, 0) /\ VisionUpTo(0) = f[0]
    BY VisionUpToCollects
  <2>2. QED
    BY <2>1 DEF Collects
<1>2. PICK f : Collects(f, n) /\ VisionUpTo(n) = f[n]
  BY VisionUpToCollects
<1>3. PICK g : Collects(g, n + 1) /\ VisionUpTo(n + 1) = g[n + 1]
  BY VisionUpToCollects
<1>4. f[n] = g[n]
  BY <1>2, <1>3, CollectsAgree
<1>5. g[n + 1] = IF IsVision(n + 1) THEN Append(g[n], n + 1) ELSE g[n]
  <2>1. n + 1 \in 0..(n + 1) /\ n + 1 # 0 /\ (n + 1) - 1 = n
    OBVIOUS
  <2>2. QED
    BY <1>3, <2>1 DEF Collects
<1>6. QED
  BY <1>1, <1>2, <1>3, <1>4, <1>5

-----------------------------------------------------------------------------
(* One event more, and moving the cursor *)

\* What load_log accepts: events of the three kinds, at least one of them vision.
LogOK == log \in Seq(Messages) /\ \E i \in DOMAIN log : IsVision(i)

\* A world model fed with nothing is what playing no event gives.
LEMMA FreshReplayed == Fresh = Replayed(0)
<1>1. VisionUpTo(0) = << >>
  BY VisionUpToNext
<1>2. {i \in 1..0 : log[i].kind = "Raw" /\ log[i].geometry} = {}
  OBVIOUS
<1>3. \A k : {i \in 1..0 : log[i].kind = k} = {}
  OBVIOUS
<1>4. LastOf({}) = 0
  BY DEF LastOf
<1>5. QED
  BY <1>1, <1>2, <1>3, <1>4 DEF Fresh, NewModel, Replayed

\* apply_next goes from one position of the log to the next.
LEMMA ApplyNextReplays ==
  ASSUME LogOK, NEW n \in Nat, n < Len(log)
  PROVE  ApplyNext(Replayed(n)) = Replayed(n + 1)
<1>. DEFINE i == n + 1
            Field(k) == LastOf({j \in 1..k : log[j].kind = "Raw" /\ log[j].geometry})
            Kind(k, kind) == LastOf({j \in 1..k : log[j].kind = kind})
<1>1. log[i].kind \in {"Raw", "Tracked", "Referee"} /\ log[i].geometry \in BOOLEAN
  <2>1. i \in 1..Len(log)
    BY LenProperties DEF LogOK
  <2>2. log[i] \in Messages
    BY <2>1, ElementOfSeq DEF LogOK
  <2>3. QED
    BY <2>2 DEF Messages, Kinds
<1>2. VisionUpTo(i) = IF IsVision(i) THEN Append(VisionUpTo(n), i) ELSE VisionUpTo(n)
  BY VisionUpToNext
<1>3. Field(i) = IF log[i].kind = "Raw" /\ log[i].geometry THEN i ELSE Field(n)
  <2>. DEFINE P == {j \in 1..i : log[j].kind = "Raw" /\ log[j].geometry}
  <2>1. /\ {j \in 1..i : j \in P} = P
        /\ {j \in 1..n : j \in P} = {j \in 1..n : log[j].kind = "Raw" /\ log[j].geometry}
        /\ i \in P <=> log[i].kind = "Raw" /\ log[i].geometry
    OBVIOUS
  <2>. HIDE DEF P
  <2>2. LastOf({j \in 1..i : j \in P}) = IF i \in P THEN i ELSE LastOf({j \in 1..n : j \in P})
    BY LastUpTo
  <2>3. QED
    BY <2>1, <2>2 DEF P
<1>4. ASSUME NEW kind
      PROVE  Kind(i, kind) = IF log[i].kind = kind THEN i ELSE Kind(n, kind)
  <2>. DEFINE P == {j \in 1..i : log[j].kind = kind}
  <2>1. /\ {j \in 1..i : j \in P} = P
        /\ {j \in 1..n : j \in P} = {j \in 1..n : log[j].kind = kind}
        /\ i \in P <=> log[i].kind = kind
    OBVIOUS
  <2>. HIDE DEF P
  <2>2. LastOf({j \in 1..i : j \in P}) = IF i \in P THEN i ELSE LastOf({j \in 1..n : j \in P})
    BY LastUpTo
  <2>3. QED
    BY <2>1, <2>2 DEF P
<1>5. ASSUME NEW k
      PROVE  Replayed(k) = [cursor |-> k, field |-> Field(k),
                            model |-> [field |-> Field(k), fed |-> VisionUpTo(k)],
                            snapshot |-> VisionUpTo(k), raw |-> Kind(k, "Raw"),
                            tracked |-> Kind(k, "Tracked"), referee |-> Kind(k, "Referee")]
  BY DEF Replayed
<1>. HIDE DEF Field, Kind
<1>6. n # Len(log) /\ Replayed(n).cursor = n
  BY <1>5, LenProperties DEF LogOK
<1>7. CASE log[i].kind = "Raw"
  <2>1. IsVision(i)
    BY <1>7 DEF IsVision
  <2>2. ApplyNext(Replayed(n)) = [Feed(Replayed(n), i) EXCEPT !.raw = i]
    BY <1>6, <1>7 DEF ApplyNext
  <2>3. CASE log[i].geometry
    <3>. DEFINE fed == Append(VisionUpTo(n), i)
    <3>1. Feed(Replayed(n), i)
            = [cursor |-> i, field |-> i, model |-> [field |-> i, fed |-> fed],
               snapshot |-> fed, raw |-> Kind(n, "Raw"), tracked |-> Kind(n, "Tracked"),
               referee |-> Kind(n, "Referee")]
      <4>1. Replayed(n).model.fed = VisionUpTo(n)
        BY <1>5
      <4>2. Feed(Replayed(n), i)
              = [Replayed(n) EXCEPT !.cursor = i, !.model = [field |-> i, fed |-> fed],
                                    !.snapshot = fed, !.field = i]
        BY <1>7, <2>3, <4>1 DEF Feed
      <4>3. QED
        BY <1>5, <4>2
    <3>2. /\ VisionUpTo(i) = fed /\ Field(i) = i /\ Kind(i, "Raw") = i
          /\ Kind(i, "Tracked") = Kind(n, "Tracked") /\ Kind(i, "Referee") = Kind(n, "Referee")
      BY <1>2, <1>3, <1>4, <1>7, <2>1, <2>3
    <3>. HIDE DEF fed
    <3>3. QED
      BY <1>5, <2>2, <3>1, <3>2
  <2>4. CASE ~log[i].geometry
    BY <1>2, <1>3, <1>4, <1>5, <1>7, <2>1, <2>2, <2>4 DEF Feed
  <2>5. QED
    BY <2>3, <2>4
<1>8. CASE log[i].kind = "Tracked"
  <2>1. IsVision(i)
    BY <1>8 DEF IsVision
  <2>2. ApplyNext(Replayed(n)) = [Feed(Replayed(n), i) EXCEPT !.tracked = i]
    BY <1>6, <1>8 DEF ApplyNext
  <2>3. QED
    BY <1>2, <1>3, <1>4, <1>5, <1>8, <2>1, <2>2 DEF Feed
<1>9. CASE log[i].kind = "Referee"
  <2>1. ~IsVision(i)
    BY <1>9 DEF IsVision
  <2>2. ApplyNext(Replayed(n)) = [Replayed(n) EXCEPT !.cursor = i, !.referee = i]
    BY <1>6, <1>9 DEF ApplyNext
  <2>3. QED
    BY <1>2, <1>3, <1>4, <1>5, <1>9, <2>1, <2>2
<1>10. QED
  BY <1>1, <1>7, <1>8, <1>9

\* From a position reached before, apply_next goes through the log up to any later one.
LEMMA ApplyToReplays ==
  ASSUME LogOK, NEW c \in Nat, NEW n \in Nat, c <= n, n <= Len(log)
  PROVE  ApplyTo(Replayed(c), n) = Replayed(n)
<1>. DEFINE Steps(f) == f = [k \in c..n |-> IF k = c THEN Replayed(c) ELSE ApplyNext(f[k - 1])]
            at == CHOOSE f : Steps(f)
<1>1. Steps([k \in c..n |-> Replayed(k)])
  <2>. DEFINE f == [k \in c..n |-> Replayed(k)]
  <2>1. ASSUME NEW k \in c..n
        PROVE  f[k] = IF k = c THEN Replayed(c) ELSE ApplyNext(f[k - 1])
    <3>1. CASE k = c
      BY <3>1
    <3>2. CASE k # c
      <4>1. k - 1 \in Nat /\ k - 1 < Len(log) /\ k - 1 \in c..n /\ (k - 1) + 1 = k
        BY <3>2, LenProperties DEF LogOK
      <4>2. ApplyNext(Replayed(k - 1)) = Replayed(k)
        BY <4>1, ApplyNextReplays
      <4>3. QED
        BY <3>2, <4>1, <4>2
    <3>3. QED
      BY <3>1, <3>2
  <2>2. QED
    BY <2>1, Zenon
<1>2. Steps(at)
  BY <1>1
<1>3. Replayed(c).cursor = c
  BY DEF Replayed
<1>4. ApplyTo(Replayed(c), n) = at[n]
  BY <1>3 DEF ApplyTo
<1>. HIDE DEF at
<1>5. at[c] = Replayed(c) /\ \A k \in c..n : k # c => at[k] = ApplyNext(at[k - 1])
  <2>1. c \in c..n
    OBVIOUS
  <2>2. QED
    BY <1>2, <2>1
<1>. DEFINE S == {k \in Nat : c + k <= n => at[c + k] = Replayed(c + k)}
<1>6. 0 \in S
  BY <1>5
<1>7. ASSUME NEW k \in Nat, k \in S
      PROVE  k + 1 \in S
  <2>1. SUFFICES ASSUME c + (k + 1) <= n PROVE at[c + (k + 1)] = Replayed(c + (k + 1))
    OBVIOUS
  <2>2. at[c + k] = Replayed(c + k)
    BY <1>7, <2>1
  <2>3. /\ c + (k + 1) \in c..n /\ c + (k + 1) # c /\ (c + (k + 1)) - 1 = c + k
        /\ c + k \in Nat /\ c + k < Len(log) /\ (c + k) + 1 = c + (k + 1)
    BY <2>1, LenProperties DEF LogOK
  <2>4. at[c + (k + 1)] = ApplyNext(at[c + k])
    BY <1>5, <2>3
  <2>5. QED
    BY <2>2, <2>3, <2>4, ApplyNextReplays
<1>8. Nat \subseteq S
  <2>. HIDE DEF S
  <2>1. QED
    BY <1>6, <1>7, NatSets
<1>9. n - c \in S /\ c + (n - c) = n
  BY <1>8
<1>10. QED
  BY <1>4, <1>9

-----------------------------------------------------------------------------
(* The log, the first vision packet and the cursor *)

LEMMA LoadedLog ==
  ASSUME NEW f \in Files, log \in Loaded(f)
  PROVE  LogOK
<1>. DEFINE kept == {i \in DOMAIN f : f[i].usable}
            N    == Cardinality(kept)
<1>1. f \in Seq(Messages) /\ \E i \in DOMAIN f : f[i].usable /\ f[i].kind \in {"Raw", "Tracked"}
  BY FilesAssumption
<1>2. N \in Nat
  <2>1. DOMAIN f = 1..Len(f) /\ Len(f) \in Nat
    BY <1>1, LenProperties
  <2>2. IsFiniteSet(1..Len(f))
    BY <2>1, FS_Interval
  <2>3. kept \in SUBSET (1..Len(f))
    BY <2>1
  <2>. HIDE DEF kept
  <2>4. QED
    BY <2>2, <2>3, FS_Subset, FS_CardinalityType
<1>3. PICK o \in Bijection(1..N, kept) : log = [k \in DOMAIN o |-> f[o[k]]]
  BY DEF Loaded
<1>4. /\ o \in [1..N -> kept] /\ DOMAIN o = 1..N
      /\ \A i \in kept : \E k \in 1..N : o[k] = i
  BY <1>3 DEF Bijection, Injection, Surjection
<1>5. \A i \in kept : f[i] \in Messages
  BY <1>1, ElementOfSeq, LenProperties
<1>6. log \in Seq(Messages)
  <2>1. log \in [1..N -> Messages]
    <3>. HIDE DEF N, kept
    <3>1. QED
      BY <1>3, <1>4, <1>5
  <2>. HIDE DEF N
  <2>2. QED
    BY <1>2, <2>1, SeqDef
<1>7. \E k \in DOMAIN log : IsVision(k)
  <2>1. PICK i \in kept : f[i].kind \in {"Raw", "Tracked"}
    BY <1>1
  <2>2. PICK k \in 1..N : o[k] = i
    BY <1>4, <2>1
  <2>. HIDE DEF N, kept
  <2>3. k \in DOMAIN log /\ log[k] = f[i]
    BY <1>3, <1>4, <2>2
  <2>4. QED
    BY <2>1, <2>3 DEF IsVision
<1>8. QED
  BY <1>6, <1>7 DEF LogOK

LEMMA InitialCursorType ==
  ASSUME LogOK
  PROVE  InitialCursor \in 1..Len(log) /\ IsVision(InitialCursor)
<1>. DEFINE First(i) == IsVision(i) /\ \A j \in 1..(i - 1) : ~IsVision(j)
            S == {n \in Nat : (\E i \in 1..n : i \in DOMAIN log /\ IsVision(i))
                                => \E i \in DOMAIN log : First(i)}
<1>1. DOMAIN log = 1..Len(log) /\ Len(log) \in Nat
  BY LenProperties DEF LogOK
<1>2. 0 \in S
  OBVIOUS
<1>3. ASSUME NEW n \in Nat, n \in S
      PROVE  n + 1 \in S
  <2>1. SUFFICES ASSUME NEW i \in 1..(n + 1), i \in DOMAIN log, IsVision(i)
                 PROVE  \E m \in DOMAIN log : First(m)
    OBVIOUS
  <2>2. CASE \E m \in 1..n : IsVision(m)
    <3>1. PICK m \in 1..n : IsVision(m)
      BY <2>2
    <3>2. m \in 1..n /\ (m <= i \/ i \in 1..n)
      BY <2>1
    <3>3. \E k \in 1..n : k \in DOMAIN log /\ IsVision(k)
      BY <1>1, <2>1, <3>1, <3>2
    <3>4. QED
      BY <1>3, <3>3
  <2>3. CASE \A m \in 1..n : ~IsVision(m)
    <3>1. i = n + 1
      BY <2>1, <2>3
    <3>2. QED
      BY <2>1, <2>3, <3>1
  <2>4. QED
    BY <2>2, <2>3
<1>4. Nat \subseteq S
  <2>. HIDE DEF S
  <2>1. QED
    BY <1>2, <1>3, NatSets
<1>5. \E i \in DOMAIN log : First(i)
  <2>1. Len(log) \in S
    BY <1>1, <1>4
  <2>2. QED
    BY <1>1, <2>1 DEF LogOK
<1>6. InitialCursor \in DOMAIN log /\ First(InitialCursor)
  BY <1>5 DEF InitialCursor
<1>7. QED
  BY <1>1, <1>6

Cursors == InitialCursor..Len(log)

LEMMA SeekTargetType ==
  ASSUME LogOK, NEW delta, NEW exact
  PROVE  SeekTarget(delta, exact) \in Cursors
<1>. DEFINE sought == Sought(delta)
            upTo   == {i \in DOMAIN log : \/ log[i].time - Base < sought
                                          \/ log[i].time - Base = sought /\ (exact \/ sought = 0)}
<1>1. InitialCursor \in 1..Len(log) /\ Len(log) \in Nat /\ DOMAIN log = 1..Len(log)
  BY InitialCursorType, LenProperties DEF LogOK
<1>2. upTo \in SUBSET (1..Len(log))
  BY <1>1
<1>3. SeekTarget(delta, exact) = AtLeast(Cardinality(upTo), InitialCursor)
  BY DEF SeekTarget
<1>. HIDE DEF upTo
<1>4. IsFiniteSet(1..Len(log)) /\ Cardinality(1..Len(log)) = Len(log)
  BY <1>1, FS_Interval
<1>5. Cardinality(upTo) \in Nat /\ Cardinality(upTo) <= Len(log)
  BY <1>2, <1>4, FS_Subset, FS_CardinalityType
<1>6. QED
  BY <1>1, <1>3, <1>5 DEF AtLeast, Cursors

\* Every way to move the cursor ends as if the log had been played up to there.
LEMMA MovesReplay ==
  ASSUME LogOK, engine = Replayed(engine.cursor), engine.cursor \in 0..Len(log),
         NEW n \in 0..Len(log)
  PROVE  RebuildTo(engine, n) = Replayed(n) /\ MoveTo(engine, n) = Replayed(n)
<1>1. Len(log) \in Nat
  BY LenProperties DEF LogOK
<1>2. RebuildTo(engine, n) = Replayed(n)
  BY <1>1, FreshReplayed, ApplyToReplays DEF RebuildTo, Reset
<1>3. ASSUME ~(n < engine.cursor)
      PROVE  ApplyTo(engine, n) = Replayed(n)
  <2>. DEFINE c == engine.cursor
  <2>1. c \in Nat /\ n \in Nat /\ c <= n /\ n <= Len(log)
    BY <1>1, <1>3
  <2>2. engine = Replayed(c)
    OBVIOUS
  <2>. HIDE DEF c
  <2>3. QED
    BY <2>1, <2>2, ApplyToReplays
<1>4. QED
  BY <1>2, <1>3 DEF MoveTo

LEMMA NextReplays ==
  ASSUME LogOK, engine = Replayed(engine.cursor), engine.cursor \in 0..Len(log)
  PROVE  ApplyNext(engine) = Replayed(IF AtEnd THEN engine.cursor ELSE engine.cursor + 1)
<1>1. Len(log) \in Nat
  BY LenProperties DEF LogOK
<1>2. CASE AtEnd
  <2>1. ApplyNext(engine) = engine
    BY <1>2 DEF AtEnd, ApplyNext
  <2>2. QED
    BY <1>2, <2>1
<1>3. CASE ~AtEnd
  <2>. DEFINE c == engine.cursor
  <2>1. c \in Nat /\ c < Len(log)
    BY <1>1, <1>3 DEF AtEnd
  <2>2. engine = Replayed(c)
    OBVIOUS
  <2>. HIDE DEF c
  <2>3. ApplyNext(engine) = Replayed(c + 1)
    BY <2>1, <2>2, ApplyNextReplays
  <2>4. QED
    BY <1>3, <2>3 DEF c
<1>4. QED
  BY <1>2, <1>3

-----------------------------------------------------------------------------
(* The invariant of the engine *)

EngineOK == LogOK /\ engine.cursor \in 0..Len(log) /\ ShowsPrefix

IInv == EngineOK /\ TypeOK

LEMMA InitIInv == Init => IInv
<1> SUFFICES ASSUME Init PROVE IInv
  OBVIOUS
<1>1. LogOK
  BY LoadedLog DEF Init
<1>2. engine = Fresh /\ engine.cursor = 0
  BY DEF Init, Fresh
<1>3. engine.cursor \in 0..Len(log)
  BY <1>1, <1>2, LenProperties DEF LogOK
<1>4. ShowsPrefix
  BY <1>2, FreshReplayed DEF ShowsPrefix
<1>5. TypeOK
  BY <1>2 DEF Init, TypeOK, Opened
<1>6. QED
  BY <1>1, <1>3, <1>4, <1>5 DEF IInv, EngineOK

\* Whatever is played or pressed, the engine is at a position the log was played to, and
\* a move is published.
LEMMA Moves ==
  ASSUME IInv, Open \/ Play \/ Control
  PROVE  /\ log' = log /\ playing' \in BOOLEAN
         /\ \/ Publish /\ \E n \in Cursors : engine' = Replayed(n)
            \/ UNCHANGED <<engine, latest, client, behind, hand, shown>>
<1>1. LogOK /\ engine = Replayed(engine.cursor) /\ engine.cursor \in 0..Len(log) /\ playing \in BOOLEAN
  BY DEF IInv, EngineOK, TypeOK, ShowsPrefix
<1>2. InitialCursor \in 1..Len(log) /\ Len(log) \in Nat
  BY <1>1, InitialCursorType, LenProperties DEF LogOK
<1>3. InitialCursor \in Cursors /\ Len(log) \in Cursors /\ Cursors \subseteq 0..Len(log)
  BY <1>2 DEF Cursors
<1>4. \A n \in Cursors : RebuildTo(engine, n) = Replayed(n) /\ MoveTo(engine, n) = Replayed(n)
  BY <1>1, <1>3, MovesReplay
<1>5. Opened => engine.cursor \in Cursors
  BY DEF IInv, TypeOK, Cursors
<1>6. ASSUME Opened, ~AtEnd
      PROVE  \E n \in Cursors : ApplyNext(engine) = Replayed(n)
  <2>1. engine.cursor + 1 \in Cursors
    BY <1>1, <1>2, <1>5, <1>6 DEF Cursors, AtEnd
  <2>2. ApplyNext(engine) = Replayed(engine.cursor + 1)
    BY <1>1, <1>6, NextReplays
  <2>3. QED
    BY <2>1, <2>2
<1>7. CASE Open
  BY <1>1, <1>3, <1>4, <1>7 DEF Open, Publish
<1>8. CASE Play
  <2>1. playing' \in BOOLEAN /\ Publish /\ engine' = ApplyNext(engine) /\ Opened /\ ~AtEnd
    BY <1>8 DEF Play
  <2>2. QED
    BY <1>6, <2>1 DEF Publish
<1>9. CASE Control
  <2>1. Opened
    BY <1>9 DEF Control
  <2>2. CASE TogglePlayback
    <3>1. playing' \in BOOLEAN
      BY <1>1, <2>2 DEF TogglePlayback
    <3>2. QED
      BY <1>3, <1>4, <2>2, <3>1 DEF TogglePlayback, Publish
  <2>3. ASSUME NEW delta \in Deltas, NEW exact \in BOOLEAN, Seek(delta, exact)
        PROVE  Publish /\ playing' \in BOOLEAN /\ \E n \in Cursors : engine' = Replayed(n)
    <3>1. SeekTarget(delta, exact) \in Cursors
      BY <1>1, SeekTargetType
    <3>2. QED
      BY <1>1, <1>4, <2>3, <3>1 DEF Seek
  <2>4. CASE StepForward
    <3>1. AtEnd => ApplyNext(engine) = engine
      BY DEF AtEnd, ApplyNext
    <3>2. QED
      BY <1>6, <2>1, <2>4, <3>1 DEF StepForward, Publish
  <2>5. CASE StepBack
    <3>1. AtLeast(engine.cursor - 1, InitialCursor) \in Cursors
      BY <1>1, <1>2 DEF AtLeast, Cursors
    <3>2. QED
      BY <1>4, <2>5, <3>1 DEF StepBack, Publish
  <2>6. CASE Start
    BY <1>1, <1>3, <1>4, <2>6 DEF Start, Publish
  <2>7. CASE End
    BY <1>3, <1>4, <2>7 DEF End, Publish
  <2>8. CASE Restart
    BY <1>3, <1>4, <2>8 DEF Restart, Publish
  <2>9. QED
    BY <1>9, <2>2, <2>3, <2>4, <2>5, <2>6, <2>7, <2>8 DEF Control, Publish
<1>10. QED
  BY <1>7, <1>8, <1>9

\* While the log is the same, so is what playing it gives.
LEMMA SameLog ==
  ASSUME log' = log
  PROVE  /\ LogOK' = LogOK
         /\ InitialCursor' = InitialCursor /\ Cursors' = Cursors
         /\ \A n : Replayed(n)' = Replayed(n)
BY DEF LogOK, InitialCursor, Cursors, Replayed, VisionUpTo, IsVision

LEMMA MovedOK ==
  ASSUME EngineOK, log' = log, engine' = engine \/ \E n \in Cursors : engine' = Replayed(n)
  PROVE  EngineOK' /\ (engine' = engine \/ engine'.cursor \in Cursors)
<1>1. LogOK' /\ \A n : Replayed(n)' = Replayed(n)
  BY SameLog DEF EngineOK
<1>2. CASE engine' = engine
  BY <1>1, <1>2 DEF EngineOK, ShowsPrefix
<1>3. ASSUME NEW n \in Cursors, engine' = Replayed(n)
      PROVE  EngineOK' /\ engine'.cursor \in Cursors
  <2>1. engine'.cursor = n
    BY <1>3 DEF Replayed
  <2>2. n \in 0..Len(log)
    BY InitialCursorType, LenProperties DEF EngineOK, LogOK, Cursors
  <2>3. QED
    BY <1>1, <1>3, <2>1, <2>2 DEF EngineOK, ShowsPrefix
<1>4. QED
  BY <1>2, <1>3

LEMMA NextKeeps == IInv /\ [Next]_vars => IInv'
<1> SUFFICES ASSUME IInv, [Next]_vars PROVE IInv'
  OBVIOUS
<1>1. CASE Open \/ Play \/ Control
  <2>1. log' = log /\ playing' \in BOOLEAN
    BY <1>1, Moves
  <2>2. EngineOK' /\ (engine' = engine \/ engine'.cursor \in Cursors)
    <3>1. engine' = engine \/ \E n \in Cursors : engine' = Replayed(n)
      BY <1>1, Moves
    <3>2. QED
      BY <2>1, <3>1, MovedOK DEF IInv
  <2>3. Opened' => engine'.cursor \in Cursors'
    BY <2>1, <2>2, SameLog DEF IInv, TypeOK, Opened, Cursors
  <2>4. /\ client' \in [Clients -> {"off", "new", "wait", "read", "send"}]
        /\ behind' \subseteq {c \in Clients : client'[c] # "off"}
    <3>1. \/ Publish
          \/ UNCHANGED <<client, behind>>
      BY <1>1, Moves
    <3>2. QED
      BY <3>1 DEF Publish, IInv, TypeOK
  <2>5. QED
    BY <2>1, <2>2, <2>3, <2>4 DEF IInv, TypeOK, Cursors
<1>2. ASSUME NEW c \in Clients, Client(c)
      PROVE  IInv'
  <2>1. UNCHANGED <<log, engine, playing>>
    BY <1>2 DEF Client, Connect, ReadInitial, Changed, Take, Send, Disconnect, ClientStep
  <2>2. EngineOK'
    BY <2>1, MovedOK DEF IInv
  <2>3. Opened' => engine'.cursor \in Cursors'
    BY <2>1, SameLog DEF IInv, TypeOK, Opened, Cursors
  <2>4. /\ client' \in [Clients -> {"off", "new", "wait", "read", "send"}]
        /\ behind' \subseteq {d \in Clients : client'[d] # "off"}
    BY <1>2 DEF IInv, TypeOK, Client, Connect, ReadInitial, Changed, Take, Send, Disconnect,
                ClientStep
  <2>5. QED
    BY <2>1, <2>2, <2>3, <2>4 DEF IInv, TypeOK, Cursors
<1>3. CASE UNCHANGED vars
  <2>1. UNCHANGED <<log, engine, playing, client, behind>>
    BY <1>3 DEF vars
  <2>2. EngineOK' /\ (Opened' => engine'.cursor \in Cursors')
    BY <2>1, MovedOK, SameLog DEF IInv, TypeOK, Opened, Cursors
  <2>3. QED
    BY <2>1, <2>2 DEF IInv, TypeOK, Cursors
<1>4. QED
  BY <1>1, <1>2, <1>3 DEF Next

-----------------------------------------------------------------------------
(* The clients *)

\* What the tool can show: nothing yet, or a position at or after the first vision packet.
Positions == {NoView} \cup {View(Replayed(n)) : n \in Cursors}

\* A client that has no unseen change in front of it holds or shows what was published last,
\* and before the replay is open nothing was published.
ClientsOK ==
  /\ latest = View(engine)
  /\ ~Opened => /\ behind = {}
                /\ \A c \in Clients : client[c] \in {"off", "new", "wait"} /\ shown[c] = NoView
  /\ \A c \in Clients : client[c] = "send" /\ c \notin behind => hand[c] = latest
  /\ \A c \in Clients : client[c] = "wait" /\ c \notin behind => shown[c] = latest
  /\ hand \in [Clients -> Positions] /\ shown \in [Clients -> Positions]

LEMMA InitClientsOK == Init => ClientsOK
<1> SUFFICES ASSUME Init PROVE ClientsOK
  OBVIOUS
<1>1. NoView \in Positions
  BY DEF Positions
<1>2. QED
  BY <1>1 DEF Init, ClientsOK, NoView

\* Once a vision packet was played something is shown.
LEMMA VisionShows ==
  ASSUME LogOK, NEW n \in Cursors
  PROVE  View(Replayed(n)) # NoView
<1>. DEFINE S == {k \in Nat : /\ VisionUpTo(k) \in Seq(Nat)
                              /\ (\E i \in 1..k : IsVision(i)) => VisionUpTo(k) # << >>}
<1>1. 0 \in S
  <2>1. VisionUpTo(0) = << >> /\ << >> \in Seq(Nat) /\ 1..0 = {}
    BY VisionUpToNext, EmptySeq
  <2>2. QED
    BY <2>1
<1>2. ASSUME NEW k \in Nat, k \in S
      PROVE  k + 1 \in S
  <2>1. CASE IsVision(k + 1)
    <3>1. VisionUpTo(k + 1) = Append(VisionUpTo(k), k + 1) /\ VisionUpTo(k) \in Seq(Nat)
      BY <1>2, <2>1, VisionUpToNext
    <3>2. VisionUpTo(k + 1) \in Seq(Nat) /\ VisionUpTo(k + 1) # << >>
      BY <3>1, AppendProperties
    <3>3. QED
      BY <3>2
  <2>2. CASE ~IsVision(k + 1)
    <3>1. VisionUpTo(k + 1) = VisionUpTo(k)
      BY <2>2, VisionUpToNext
    <3>2. ASSUME NEW i \in 1..(k + 1), IsVision(i)
          PROVE  i \in 1..k
      BY <2>2, <3>2
    <3>3. QED
      BY <1>2, <3>1, <3>2
  <2>3. QED
    BY <2>1, <2>2
<1>3. Nat \subseteq S
  <2>. HIDE DEF S
  <2>1. QED
    BY <1>1, <1>2, NatSets
<1>4. n \in Nat /\ InitialCursor \in 1..n /\ IsVision(InitialCursor)
  BY InitialCursorType, LenProperties DEF LogOK, Cursors
<1>5. VisionUpTo(n) # << >>
  BY <1>3, <1>4
<1>6. View(Replayed(n)).sources = VisionUpTo(n) /\ NoView.sources = << >>
  BY DEF View, Replayed, NoView, Fresh, NewModel
<1>7. QED
  BY <1>5, <1>6

LEMMA SamePositions ==
  ASSUME log' = log
  PROVE  Positions' = Positions
<1>1. Cursors' = Cursors /\ \A n : Replayed(n)' = Replayed(n)
  BY SameLog
<1>2. \A n : View(Replayed(n))' = View(Replayed(n))
  BY <1>1 DEF View
<1>3. QED
  BY <1>1, <1>2 DEF Positions, NoView, View, Fresh, NewModel

LEMMA ClientKeeps ==
  ASSUME IInv, ClientsOK, NEW c \in Clients, Client(c)
  PROVE  ClientsOK'
<1>1. /\ UNCHANGED <<log, engine, playing, latest>>
      /\ client' = [client EXCEPT ![c] = client'[c]]
  BY DEF Client, Connect, ReadInitial, Changed, Take, Send, Disconnect, ClientStep, IInv, TypeOK
<1>2. Positions' = Positions /\ Opened' = Opened /\ View(engine)' = View(engine)
  BY <1>1, SamePositions DEF Opened, View
<1>3. latest \in Positions /\ (~Opened => latest = NoView)
  <2>1. engine = Replayed(engine.cursor) /\ (Opened => engine.cursor \in Cursors)
    BY DEF IInv, EngineOK, TypeOK, ShowsPrefix, Cursors
  <2>2. CASE Opened
    BY <2>1, <2>2 DEF Positions, ClientsOK
  <2>3. CASE ~Opened
    <3>1. engine = Fresh
      BY <2>1, <2>3, FreshReplayed DEF Opened
    <3>2. QED
      BY <3>1 DEF Positions, ClientsOK, NoView
  <2>4. QED
    BY <2>2, <2>3
<1>4. latest = NoView => ~Opened
  <2>1. SUFFICES ASSUME Opened PROVE latest # NoView
    OBVIOUS
  <2>2. LogOK /\ engine = Replayed(engine.cursor) /\ engine.cursor \in Cursors
    BY <2>1 DEF IInv, EngineOK, TypeOK, ShowsPrefix, Cursors
  <2>3. View(Replayed(engine.cursor)) # NoView
    BY <2>2, VisionShows
  <2>4. View(engine) # NoView
    BY <2>2, <2>3
  <2>5. QED
    BY <2>4 DEF ClientsOK
<1>5. client \in [Clients -> {"off", "new", "wait", "read", "send"}]
  BY DEF IInv, TypeOK
<1>6. CASE Connect(c)
  BY <1>1, <1>2, <1>5, <1>6 DEF Connect, ClientStep, ClientsOK
<1>7. CASE ReadInitial(c)
  <2>1. /\ hand' = [hand EXCEPT ![c] = latest] /\ UNCHANGED <<behind, shown>>
        /\ client[c] = "new"
        /\ client' = [client EXCEPT ![c] = IF latest = NoView THEN "wait" ELSE "send"]
    BY <1>7 DEF ReadInitial, ClientStep
  <2>2. hand' \in [Clients -> Positions] /\ hand'[c] = latest
    BY <1>3, <2>1 DEF ClientsOK
  <2>3. \A d \in Clients : d # c => client'[d] = client[d] /\ hand'[d] = hand[d]
    BY <1>5, <2>1 DEF ClientsOK
  <2>4. CASE latest = NoView
    <3>1. ~Opened /\ shown[c] = latest /\ client'[c] = "wait"
      BY <1>4, <1>5, <2>1, <2>4 DEF ClientsOK
    <3>2. QED
      BY <1>1, <1>2, <2>1, <2>2, <2>3, <3>1 DEF ClientsOK
  <2>5. CASE latest # NoView
    <3>1. client'[c] = "send"
      BY <1>5, <2>1, <2>5
    <3>2. Opened
      BY <1>3, <2>5
    <3>3. QED
      BY <1>1, <1>2, <2>1, <2>2, <2>3, <3>1, <3>2 DEF ClientsOK
  <2>6. QED
    BY <2>4, <2>5
<1>8. CASE Changed(c)
  BY <1>1, <1>2, <1>5, <1>8 DEF Changed, ClientStep, ClientsOK
<1>9. CASE Take(c)
  BY <1>1, <1>2, <1>3, <1>5, <1>9 DEF Take, ClientStep, ClientsOK
<1>10. CASE Send(c)
  BY <1>1, <1>2, <1>5, <1>10 DEF Send, ClientStep, ClientsOK
<1>11. CASE Disconnect(c)
  BY <1>1, <1>2, <1>5, <1>11 DEF Disconnect, ClientStep, ClientsOK
<1>12. QED
  BY <1>6, <1>7, <1>8, <1>9, <1>10, <1>11 DEF Client

LEMMA ClientsKeep == IInv /\ ClientsOK /\ [Next]_vars => ClientsOK'
<1> SUFFICES ASSUME IInv, ClientsOK, [Next]_vars PROVE ClientsOK'
  OBVIOUS
<1>1. CASE Open \/ Play \/ Control
  <2>1. log' = log /\ Positions' = Positions
    BY <1>1, Moves, SamePositions
  <2>2. CASE Publish /\ \E n \in Cursors : engine' = Replayed(n)
    <3>1. /\ latest' = View(engine)' /\ behind' = {c \in Clients : client[c] # "off"}
          /\ UNCHANGED <<client, hand, shown>>
      BY <2>2 DEF Publish, View
    <3>2. Opened'
      <4>1. PICK n \in Cursors : engine' = Replayed(n)
        BY <2>2
      <4>2. n # 0
        BY InitialCursorType, LenProperties DEF IInv, EngineOK, LogOK, Cursors
      <4>3. QED
        BY <4>1, <4>2 DEF Opened, Replayed
    <3>3. QED
      BY <2>1, <3>1, <3>2 DEF ClientsOK
  <2>3. CASE UNCHANGED <<engine, latest, client, behind, hand, shown>>
    BY <2>1, <2>3 DEF ClientsOK, Opened, View, NoView, Fresh, NewModel
  <2>4. QED
    BY <1>1, <2>2, <2>3, Moves
<1>2. ASSUME NEW c \in Clients, Client(c)
      PROVE  ClientsOK'
  BY <1>2, ClientKeeps
<1>3. CASE UNCHANGED vars
  <2>1. UNCHANGED <<log, engine, latest, client, behind, hand, shown>>
    BY <1>3 DEF vars
  <2>2. Positions' = Positions
    BY <2>1, SamePositions
  <2>3. QED
    BY <2>1, <2>2 DEF ClientsOK, Opened, View, NoView, Fresh, NewModel
<1>4. QED
  BY <1>1, <1>2, <1>3 DEF Next

-----------------------------------------------------------------------------
(* Theorems *)

THEOREM Invariance == Spec => []IInv
<1>1. Init => IInv
  BY InitIInv
<1>2. IInv /\ [Next]_vars => IInv'
  BY NextKeeps
<1>3. QED
  BY <1>1, <1>2, PTL DEF Spec

\* Types; an open replay stays between the first vision packet and the end of the log,
\* however far one seeks or steps back.
THEOREM TypeCorrect == Spec => []TypeOK
<1>1. IInv => TypeOK
  BY DEF IInv
<1>2. QED
  BY <1>1, Invariance, PTL

\* Whatever was played, stepped and sought to and fro, the engine is what playing the log
\* straight to its position gives, for every log and every seek.
THEOREM PrefixCorrect == Spec => []ShowsPrefix
<1>1. IInv => ShowsPrefix
  BY DEF IInv, EngineOK
<1>2. QED
  BY <1>1, Invariance, PTL

LEMMA ClientInvariance == Spec => []ClientsOK
<1>1. Init => ClientsOK
  BY InitClientsOK
<1>2. IInv /\ ClientsOK /\ [Next]_vars => ClientsOK'
  BY ClientsKeep
<1>3. QED
  BY <1>1, <1>2, Invariance, PTL DEF Spec

\* A client's task that waits, with no change it has not seen, has sent what the engine is at
\* now: between reading the first value and the wait for changes, and between a change and
\* the value read after it, nothing published gets lost.
CaughtUp == \A c \in Clients : client[c] = "wait" /\ c \notin behind => shown[c] = View(engine)

THEOREM ClientsCatchUp == Spec => []CaughtUp
<1>1. ClientsOK => CaughtUp
  BY DEF ClientsOK, CaughtUp
<1>2. QED
  BY <1>1, ClientInvariance, PTL

\* A client never shows anything but nothing or what playing the log straight to some
\* position at or after the first vision packet gives, however slow it is.
ShowsPositions == \A c \in Clients : shown[c] \in Positions

THEOREM ClientsShowPositions == Spec => []ShowsPositions
<1>1. ClientsOK => ShowsPositions
  BY DEF ClientsOK, ShowsPositions
<1>2. QED
  BY <1>1, ClientInvariance, PTL

-----------------------------------------------------------------------------
(* Loading a log *)

\* A set of numbers has a least one.
LEMMA LeastNat ==
  ASSUME NEW S \in SUBSET Nat, S # {}
  PROVE  \E m \in S : \A n \in S : m <= n
<1>. DEFINE R == OpToRel(<, Nat)
<1>1. PICK m \in S : \A n \in S : ~ (<<n, m>> \in R)
  <2>1. IsWellFoundedOn(R, Nat)
    BY NatLessThanWellFounded
  <2>. HIDE DEF R
  <2>2. QED
    BY <2>1, WFMin
<1>2. \A n \in S : ~(n < m)
  BY <1>1 DEF OpToRel
<1>3. QED
  BY <1>2

\* Message i of a file comes before message j: it is older, or as old and written before.
Earlier(f, i, j) == f[i].time < f[j].time \/ (f[i].time = f[j].time /\ i < j)

\* The ways to put the messages of K in order, as Loaded has it.
Orders(f, K) ==
  {o \in Bijection(1..Cardinality(K), K) : \A k, l \in DOMAIN o : k < l => Earlier(f, o[k], o[l])}

LEMMA LoadedOrders ==
  ASSUME NEW f
  PROVE  Loaded(f) = {[k \in DOMAIN o |-> f[o[k]]] : o \in Orders(f, {i \in DOMAIN f : f[i].usable})}
BY DEF Loaded, Orders, Earlier

LEMMA FileMessages ==
  ASSUME NEW f \in Seq(Messages)
  PROVE  /\ DOMAIN f = 1..Len(f) /\ Len(f) \in Nat
         /\ \A i \in DOMAIN f : f[i].time \in Nat
<1>1. DOMAIN f = 1..Len(f) /\ Len(f) \in Nat
  BY LenProperties
<1>2. \A i \in DOMAIN f : f[i] \in Messages
  BY <1>1, ElementOfSeq
<1>3. QED
  BY <1>1, <1>2 DEF Messages

\* Any messages of a file have a first one.
LEMMA FirstMessage ==
  ASSUME NEW f \in Seq(Messages), NEW K \in SUBSET (DOMAIN f), K # {}
  PROVE  \E m \in K : \A i \in K \ {m} : Earlier(f, m, i)
<1>1. DOMAIN f \subseteq Nat /\ \A i \in DOMAIN f : f[i].time \in Nat
  BY FileMessages
<1>. DEFINE times == {f[i].time : i \in K}
<1>2. PICK t \in times : \A u \in times : t <= u
  <2>1. times \in SUBSET Nat /\ times # {}
    BY <1>1
  <2>. HIDE DEF times
  <2>2. QED
    BY <2>1, LeastNat
<1>. DEFINE oldest == {i \in K : f[i].time = t}
<1>3. PICK m \in oldest : \A i \in oldest : m <= i
  <2>1. oldest \in SUBSET Nat /\ oldest # {}
    BY <1>1, <1>2
  <2>. HIDE DEF oldest
  <2>2. QED
    BY <2>1, LeastNat
<1>4. ASSUME NEW i \in K \ {m}
      PROVE  Earlier(f, m, i)
  <2>1. f[i].time \in times /\ t <= f[i].time /\ f[m].time = t
    BY <1>2, <1>3
  <2>2. i \in Nat /\ m \in Nat /\ f[i].time \in Nat /\ t \in Nat /\ i # m
    BY <1>1, <1>2, <1>3
  <2>3. CASE f[i].time = t
    BY <1>3, <2>1, <2>2, <2>3 DEF Earlier
  <2>4. CASE f[i].time # t
    BY <2>1, <2>2, <2>4 DEF Earlier
  <2>5. QED
    BY <2>3, <2>4
<1>5. QED
  BY <1>3, <1>4

\* They can be put in order: the first one and then the others.
LEMMA SomeOrder ==
  ASSUME NEW f \in Seq(Messages), NEW K \in SUBSET (DOMAIN f)
  PROVE  Orders(f, K) # {}
<1>. DEFINE S == {n \in Nat : \A J \in SUBSET (DOMAIN f) : Cardinality(J) = n => Orders(f, J) # {}}
<1>1. \A J \in SUBSET (DOMAIN f) : IsFiniteSet(J) /\ Cardinality(J) \in Nat
  <2>1. DOMAIN f = 1..Len(f) /\ IsFiniteSet(1..Len(f))
    BY FileMessages, FS_Interval
  <2>2. QED
    BY <2>1, FS_Subset, FS_CardinalityType
<1>2. 0 \in S
  <2>1. SUFFICES ASSUME NEW J \in SUBSET (DOMAIN f), Cardinality(J) = 0
                 PROVE  Orders(f, J) # {}
    OBVIOUS
  <2>2. J = {}
    BY <1>1, <2>1, FS_EmptySet
  <2>3. << >> \in Bijection(1..0, {})
    BY DEF Bijection, Injection, Surjection, IsInjective
  <2>4. << >> \in Orders(f, J)
    BY <2>1, <2>2, <2>3 DEF Orders
  <2>5. QED
    BY <2>4
<1>3. ASSUME NEW n \in Nat, n \in S
      PROVE  n + 1 \in S
  <2>1. SUFFICES ASSUME NEW J \in SUBSET (DOMAIN f), Cardinality(J) = n + 1
                 PROVE  Orders(f, J) # {}
    OBVIOUS
  <2>2. J # {}
    BY <1>1, <2>1, FS_EmptySet
  <2>3. PICK m \in J : \A i \in J \ {m} : Earlier(f, m, i)
    BY <2>2, FirstMessage
  <2>. DEFINE others == J \ {m}
  <2>4. Cardinality(others) = n
    BY <1>1, <2>1, <2>3, FS_RemoveElement
  <2>5. PICK o : o \in Orders(f, others)
    BY <1>3, <2>4
  <2>6. o \in Bijection(1..n, others) /\ \A k, l \in DOMAIN o : k < l => Earlier(f, o[k], o[l])
    BY <2>4, <2>5 DEF Orders
  <2>7. /\ o \in [1..n -> others] /\ DOMAIN o = 1..n
        /\ \A k, l \in 1..n : o[k] = o[l] => k = l
        /\ \A i \in others : \E k \in 1..n : o[k] = i
    BY <2>6 DEF Bijection, Injection, Surjection, IsInjective
  <2>. DEFINE p == [k \in 1..(n + 1) |-> IF k = 1 THEN m ELSE o[k - 1]]
  <2>8. \A k \in 1..(n + 1) : k = 1 \/ (k - 1 \in 1..n /\ k = (k - 1) + 1)
    OBVIOUS
  <2>9. p \in Bijection(1..(n + 1), J)
    <3>1. p \in [1..(n + 1) -> J]
      BY <2>7, <2>8
    <3>2. \A k, l \in 1..(n + 1) : p[k] = p[l] => k = l
      BY <2>7, <2>8
    <3>3. \A i \in J : \E k \in 1..(n + 1) : p[k] = i
      <4>1. p[1] = m
        OBVIOUS
      <4>2. ASSUME NEW i \in others PROVE \E k \in 1..(n + 1) : p[k] = i
        <5>1. PICK k \in 1..n : o[k] = i
          BY <2>7
        <5>2. k + 1 \in 1..(n + 1) /\ k + 1 # 1 /\ (k + 1) - 1 = k
          OBVIOUS
        <5>3. p[k + 1] = i
          BY <5>1, <5>2
        <5>4. QED
          BY <5>2, <5>3
      <4>3. 1 \in 1..(n + 1)
        OBVIOUS
      <4>4. QED
        BY <4>1, <4>2, <4>3
    <3>. HIDE DEF p
    <3>4. QED
      BY <3>1, <3>2, <3>3 DEF Bijection, Injection, Surjection, IsInjective
  <2>10. ASSUME NEW k \in 1..(n + 1), NEW l \in 1..(n + 1), k < l
         PROVE  Earlier(f, p[k], p[l])
    <3>1. l # 1 /\ l - 1 \in 1..n /\ p[l] = o[l - 1] /\ p[l] \in others
      BY <2>7, <2>10
    <3>2. CASE k = 1
      BY <2>3, <3>1, <3>2
    <3>3. CASE k # 1
      <4>1. k - 1 \in 1..n /\ k - 1 < l - 1 /\ p[k] = o[k - 1]
        BY <2>10, <3>3
      <4>2. QED
        BY <2>6, <2>7, <3>1, <4>1
    <3>4. QED
      BY <3>2, <3>3
  <2>11. DOMAIN p = 1..(n + 1)
    OBVIOUS
  <2>. HIDE DEF p
  <2>12. p \in Orders(f, J)
    BY <2>1, <2>9, <2>10, <2>11 DEF Orders
  <2>13. QED
    BY <2>12
<1>. HIDE DEF S
<1>4. Nat \subseteq S
  BY <1>2, <1>3, NatSets
<1>5. QED
  BY <1>1, <1>4 DEF S

LEMMA OrderFacts ==
  ASSUME NEW f, NEW K, NEW o \in Orders(f, K)
  PROVE  /\ o \in [1..Cardinality(K) -> K] /\ DOMAIN o = 1..Cardinality(K)
         /\ \A k, l \in 1..Cardinality(K) : o[k] = o[l] => k = l
         /\ \A i \in K : \E k \in 1..Cardinality(K) : o[k] = i
         /\ \A k, l \in 1..Cardinality(K) : k < l => Earlier(f, o[k], o[l])
<1>. DEFINE N == Cardinality(K)
<1>1. o \in Bijection(1..N, K) /\ \A k, l \in DOMAIN o : k < l => Earlier(f, o[k], o[l])
  BY DEF Orders
<1>. HIDE DEF N
<1>2. o \in [1..N -> K] /\ DOMAIN o = 1..N
  BY <1>1 DEF Bijection, Injection
<1>3. \A k, l \in 1..N : o[k] = o[l] => k = l
  BY <1>1, <1>2 DEF Bijection, Injection, IsInjective
<1>4. \A i \in K : \E k \in 1..N : o[k] = i
  BY <1>1 DEF Bijection, Surjection
<1>5. QED
  BY <1>1, <1>2, <1>3, <1>4 DEF N

\* There is only one order.
LEMMA OneOrder ==
  ASSUME NEW f \in Seq(Messages), NEW K \in SUBSET (DOMAIN f),
         NEW o \in Orders(f, K), NEW p \in Orders(f, K)
  PROVE  o = p
<1>. DEFINE N == Cardinality(K)
            S == {n \in Nat : \A k \in 1..N : k <= n => o[k] = p[k]}
<1>1. N \in Nat
  <2>1. DOMAIN f = 1..Len(f) /\ IsFiniteSet(1..Len(f))
    BY FileMessages, FS_Interval
  <2>2. QED
    BY <2>1, FS_Subset, FS_CardinalityType
<1>2. \A q \in {o, p} :
        /\ q \in [1..N -> K] /\ DOMAIN q = 1..N
        /\ \A k, l \in 1..N : q[k] = q[l] => k = l
        /\ \A i \in K : \E k \in 1..N : q[k] = i
        /\ \A k, l \in 1..N : k < l => Earlier(f, q[k], q[l])
  BY OrderFacts
<1>3. \A i, j \in K : Earlier(f, i, j) => ~Earlier(f, j, i)
  BY FileMessages DEF Earlier
<1>. HIDE DEF N
<1>4. 0 \in S
  BY <1>1
<1>5. ASSUME NEW n \in Nat, n \in S
      PROVE  n + 1 \in S
  <2>1. SUFFICES ASSUME n + 1 \in 1..N PROVE o[n + 1] = p[n + 1]
    BY <1>5
  <2>2. \A k \in 1..N : k <= n => o[k] = p[k]
    BY <1>5
  <2>3. ASSUME o[n + 1] # p[n + 1] PROVE FALSE
    <3>1. PICK l \in 1..N : p[l] = o[n + 1]
      BY <1>2, <2>1
    <3>2. PICK k \in 1..N : o[k] = p[n + 1]
      BY <1>2, <2>1
    <3>3. ~(l <= n) /\ ~(k <= n)
      BY <1>1, <1>2, <2>1, <2>2, <3>1, <3>2
    <3>4. l # n + 1 /\ k # n + 1
      BY <2>3, <3>1, <3>2
    <3>5. n + 1 < l /\ n + 1 < k
      BY <1>1, <3>3, <3>4
    <3>6. Earlier(f, p[n + 1], p[l]) /\ Earlier(f, o[n + 1], o[k])
      BY <1>2, <2>1, <3>5
    <3>7. o[n + 1] \in K /\ p[n + 1] \in K
      BY <1>2, <2>1
    <3>8. QED
      BY <1>3, <3>1, <3>2, <3>6, <3>7
  <2>4. QED
    BY <2>3
<1>. HIDE DEF S
<1>6. Nat \subseteq S
  BY <1>4, <1>5, NatSets
<1>7. \A k \in 1..N : o[k] = p[k]
  BY <1>1, <1>6 DEF S
<1>8. o = [k \in 1..N |-> o[k]] /\ p = [k \in 1..N |-> p[k]]
  BY <1>2
<1>9. QED
  BY <1>7, <1>8

\* Loading a file gives exactly one log: there is one, and as messages of the same time stay
\* in the order of the file, no other.
THEOREM LoadedOnce == \A f \in Files : \E l \in Seq(Messages) : Loaded(f) = {l}
<1> SUFFICES ASSUME NEW f \in Files
             PROVE  \E l \in Seq(Messages) : Loaded(f) = {l}
  OBVIOUS
<1>. DEFINE kept == {i \in DOMAIN f : f[i].usable}
<1>1. f \in Seq(Messages) /\ kept \in SUBSET (DOMAIN f)
  BY FilesAssumption
<1>2. Loaded(f) = {[k \in DOMAIN o |-> f[o[k]]] : o \in Orders(f, kept)}
  BY LoadedOrders
<1>. HIDE DEF kept
<1>3. PICK o : o \in Orders(f, kept)
  BY <1>1, SomeOrder
<1>4. Orders(f, kept) = {o}
  BY <1>1, <1>3, OneOrder
<1>. DEFINE l == [k \in DOMAIN o |-> f[o[k]]]
<1>5. Loaded(f) = {l}
  BY <1>2, <1>4
<1>6. l \in Seq(Messages)
  <2>1. Cardinality(kept) \in Nat
    <3>1. DOMAIN f = 1..Len(f) /\ IsFiniteSet(1..Len(f))
      BY <1>1, FileMessages, FS_Interval
    <3>2. QED
      BY <1>1, <3>1, FS_Subset, FS_CardinalityType
  <2>2. o \in [1..Cardinality(kept) -> kept] /\ DOMAIN o = 1..Cardinality(kept)
    BY <1>3 DEF Orders, Bijection, Injection
  <2>3. \A i \in DOMAIN f : f[i] \in Messages
    BY <1>1, ElementOfSeq, LenProperties
  <2>4. l \in [1..Cardinality(kept) -> Messages]
    BY <1>1, <2>2, <2>3
  <2>. HIDE DEF l
  <2>5. QED
    BY <2>1, <2>4, SeqDef
<1>7. QED
  BY <1>5, <1>6

-----------------------------------------------------------------------------
(* Where a seek lands *)

LogSorted == \A i, j \in DOMAIN log : i <= j => log[i].time <= log[j].time

LEMMA LoadedSorted ==
  ASSUME NEW f \in Files, log \in Loaded(f)
  PROVE  LogSorted
<1>. DEFINE kept == {i \in DOMAIN f : f[i].usable}
            N    == Cardinality(kept)
<1>1. PICK o \in Orders(f, kept) : log = [k \in DOMAIN o |-> f[o[k]]]
  BY LoadedOrders
<1>2. /\ o \in [1..N -> kept] /\ DOMAIN o = 1..N
      /\ \A k, l \in 1..N : k < l => Earlier(f, o[k], o[l])
  BY OrderFacts
<1>3. \A i \in kept : f[i].time \in Nat
  BY FilesAssumption, FileMessages
<1>. HIDE DEF N, kept
<1>4. ASSUME NEW i \in 1..N, NEW j \in 1..N, i <= j
      PROVE  log[i].time <= log[j].time
  <2>1. log[i] = f[o[i]] /\ log[j] = f[o[j]] /\ o[i] \in kept /\ o[j] \in kept
    BY <1>1, <1>2
  <2>2. f[o[i]].time \in Nat /\ f[o[j]].time \in Nat
    BY <1>3, <2>1
  <2>3. CASE i = j
    BY <2>1, <2>2, <2>3
  <2>4. CASE i # j
    <3>1. i < j
      BY <1>4, <2>4, SMT
    <3>2. Earlier(f, o[i], o[j])
      BY <1>2, <3>1
    <3>3. QED
      BY <2>1, <2>2, <3>2 DEF Earlier
  <2>5. QED
    BY <2>3, <2>4
<1>5. DOMAIN log = 1..N
  BY <1>1, <1>2
<1>6. QED
  BY <1>4, <1>5 DEF LogSorted

LEMMA SortedInvariance == Spec => []LogSorted
<1>1. Init => LogSorted
  BY LoadedSorted DEF Init
<1>2. IInv /\ LogSorted /\ [Next]_vars => LogSorted'
  <2> SUFFICES ASSUME IInv, LogSorted, [Next]_vars PROVE LogSorted'
    OBVIOUS
  <2>1. log' = log
    <3>1. CASE Open \/ Play \/ Control
      BY <3>1, Moves
    <3>2. CASE \E c \in Clients : Client(c)
      BY <3>2 DEF Client, Connect, ReadInitial, Changed, Take, Send, Disconnect, ClientStep
    <3>3. QED
      BY <3>1, <3>2 DEF Next, vars
  <2>2. QED
    BY <2>1 DEF LogSorted
<1>3. QED
  BY <1>1, <1>2, Invariance, PTL DEF Spec

\* A set of positions that holds with each all before it is counted by its last one.
LEMMA CountOfPrefix ==
  ASSUME NEW N \in Nat, NEW S \in SUBSET (1..N),
         \A i \in S : \A j \in 1..N : j <= i => j \in S
  PROVE  S = 1..Cardinality(S) /\ Cardinality(S) \in 0..N
<1>. DEFINE Ends == {n \in Nat : n + 1 \notin S}
<1>1. PICK m \in Ends : \A n \in Ends : m <= n
  <2>1. N \in Ends
    OBVIOUS
  <2>. HIDE DEF Ends
  <2>2. Ends \in SUBSET Nat
    BY DEF Ends
  <2>3. QED
    BY <2>1, <2>2, LeastNat
<1>2. m \in Nat /\ m <= N
  BY <1>1
<1>3. ASSUME NEW i \in S PROVE i \in 1..m
  <2>1. ~(m + 1 <= i)
    BY <1>1, <1>2, <1>3
  <2>2. QED
    BY <1>2, <2>1
<1>4. ASSUME NEW i \in 1..m PROVE i \in S
  <2>1. i - 1 \in Nat /\ ~(m <= i - 1)
    BY <1>2
  <2>2. i - 1 \notin Ends
    BY <1>1, <2>1
  <2>3. (i - 1) + 1 \in S
    BY <2>1, <2>2
  <2>4. QED
    BY <2>3
<1>5. S = 1..m
  BY <1>3, <1>4
<1>6. Cardinality(1..m) = m
  BY <1>2, FS_Interval
<1>7. QED
  BY <1>2, <1>5, <1>6

\* Times of a log that is open.
LEMMA Times ==
  ASSUME LogOK, LogSorted, engine.cursor \in Cursors, NEW delta \in Int
  PROVE  /\ Len(log) \in Nat /\ DOMAIN log = 1..Len(log) /\ InitialCursor \in 1..Len(log)
         /\ engine.cursor \in 1..Len(log) /\ InitialCursor <= engine.cursor
         /\ \A i \in 1..Len(log) : log[i].time - Base \in Nat /\ log[i].time - Base <= Duration
         /\ Position = log[engine.cursor].time - Base
         /\ Position \in Nat /\ Duration \in Nat /\ Position <= Duration
         /\ Sought(delta) \in Nat /\ Sought(delta) <= Duration
         /\ Position + delta \in 0..Duration => Sought(delta) = Position + delta
         /\ Position + delta > Duration => Sought(delta) = Duration
         /\ Position + delta < 0 => Sought(delta) = 0
<1>1. Len(log) \in Nat /\ DOMAIN log = 1..Len(log) /\ InitialCursor \in 1..Len(log)
  BY InitialCursorType, LenProperties DEF LogOK
<1>2. engine.cursor \in 1..Len(log) /\ InitialCursor <= engine.cursor
  BY <1>1 DEF Cursors
<1>3. \A i \in 1..Len(log) : log[i].time \in Nat
  BY <1>1, FileMessages DEF LogOK
<1>4. 1 \in 1..Len(log) /\ Len(log) \in 1..Len(log)
  BY <1>1
<1>5. \A i \in 1..Len(log) : log[i].time - Base \in Nat /\ log[i].time - Base <= Duration
  <2> SUFFICES ASSUME NEW i \in 1..Len(log)
               PROVE  log[i].time - Base \in Nat /\ log[i].time - Base <= Duration
    OBVIOUS
  <2>1. log[1].time <= log[i].time /\ log[i].time <= log[Len(log)].time
    BY <1>1, <1>4 DEF LogSorted
  <2>2. QED
    BY <1>3, <1>4, <2>1 DEF Base, Duration
<1>6. Position = log[engine.cursor].time - Base
  BY <1>2 DEF Position
<1>7. Position \in Nat /\ Position <= Duration /\ Duration \in Nat
  <2>1. Duration = log[Len(log)].time - Base
    BY DEF Duration
  <2>2. QED
    BY <1>2, <1>4, <1>5, <1>6, <2>1
<1>8. /\ Sought(delta) \in Nat /\ Sought(delta) <= Duration
      /\ Position + delta \in 0..Duration => Sought(delta) = Position + delta
      /\ Position + delta > Duration => Sought(delta) = Duration
      /\ Position + delta < 0 => Sought(delta) = 0
  <2>1. Sought(delta) = IF Position + delta > Duration THEN Duration
                        ELSE IF Position + delta < 0 THEN 0 ELSE Position + delta
    <3>1. AtMost(Position + delta, Duration)
            = IF Position + delta > Duration THEN Duration ELSE Position + delta
      BY DEF AtMost
    <3>2. Sought(delta) = AtLeast(AtMost(Position + delta, Duration), 0)
      BY DEF Sought
    <3>3. CASE Position + delta > Duration
      BY <1>7, <3>1, <3>2, <3>3 DEF AtLeast
    <3>4. CASE ~(Position + delta > Duration)
      BY <1>7, <3>1, <3>2, <3>4 DEF AtLeast
    <3>5. QED
      BY <3>3, <3>4
  <2>2. QED
    BY <1>7, <2>1
<1>9. QED
  BY <1>1, <1>2, <1>5, <1>6, <1>7, <1>8

\* In a sorted log the events counted are the first ones, as partition_point has it.
LEMMA SeekCuts ==
  ASSUME LogOK, LogSorted, engine.cursor \in Cursors, NEW delta \in Int, NEW exact \in BOOLEAN
  PROVE  \E n \in 0..Len(log) :
           /\ SeekTarget(delta, exact) = AtLeast(n, InitialCursor)
           /\ \A i \in 1..Len(log) :
                i <= n <=> \/ log[i].time - Base < Sought(delta)
                           \/ log[i].time - Base = Sought(delta) /\ (exact \/ Sought(delta) = 0)
<1>. DEFINE Counts(i) == \/ log[i].time - Base < Sought(delta)
                         \/ log[i].time - Base = Sought(delta) /\ (exact \/ Sought(delta) = 0)
            upTo == {i \in DOMAIN log : Counts(i)}
<1>1. Len(log) \in Nat /\ DOMAIN log = 1..Len(log) /\ Sought(delta) \in Nat
  BY Times
<1>2. SeekTarget(delta, exact) = AtLeast(Cardinality(upTo), InitialCursor)
  BY DEF SeekTarget
<1>3. \A i, j \in 1..Len(log) : Counts(i) /\ j <= i => Counts(j)
  <2> SUFFICES ASSUME NEW i \in 1..Len(log), NEW j \in 1..Len(log), Counts(i), j <= i
               PROVE  Counts(j)
    OBVIOUS
  <2>1. log[i].time - Base \in Nat /\ log[j].time - Base \in Nat
    BY Times
  <2>2. log[j].time - Base <= log[i].time - Base
    <3>1. log[j].time <= log[i].time
      BY <1>1 DEF LogSorted
    <3>2. log[i].time \in Nat /\ log[j].time \in Nat /\ Base \in Nat
      <4>1. \A k \in 1..Len(log) : log[k].time \in Nat
        BY <1>1, FileMessages DEF LogOK
      <4>2. 1 \in 1..Len(log)
        BY <1>1
      <4>3. QED
        BY <4>1, <4>2 DEF Base
    <3>3. QED
      BY <3>1, <3>2
  <2>3. QED
    BY <1>1, <2>1, <2>2
<1>4. upTo \in SUBSET (1..Len(log)) /\ \A i \in upTo : \A j \in 1..Len(log) : j <= i => j \in upTo
  BY <1>1, <1>3
<1>. DEFINE n == Cardinality(upTo)
<1>5. upTo = 1..n /\ n \in 0..Len(log)
  <2>. HIDE DEF upTo
  <2>1. QED
    BY <1>1, <1>4, CountOfPrefix
<1>6. \A i \in 1..Len(log) : i \in upTo <=> Counts(i)
  BY <1>1
<1>. HIDE DEF upTo, Counts
<1>7. \A i \in 1..Len(log) : i <= n <=> Counts(i)
  <2>. HIDE DEF n
  <2>1. QED
    BY <1>1, <1>5, <1>6
<1>8. QED
  BY <1>2, <1>5, <1>7 DEF Counts

\* A seek takes the cursor to the target.
LEMMA SeekMoves ==
  ASSUME IInv, Opened, NEW delta \in Deltas, NEW exact \in BOOLEAN, Seek(delta, exact)
  PROVE  engine'.cursor = SeekTarget(delta, exact)
<1>1. SeekTarget(delta, exact) \in Cursors /\ Cursors \subseteq 0..Len(log)
  <2>1. InitialCursor \in 1..Len(log) /\ Len(log) \in Nat
    BY InitialCursorType, LenProperties DEF IInv, EngineOK, LogOK
  <2>2. QED
    BY <2>1, SeekTargetType DEF IInv, EngineOK, Cursors
<1>2. engine' = Replayed(SeekTarget(delta, exact))
  BY <1>1, MovesReplay DEF Seek, IInv, EngineOK, ShowsPrefix
<1>3. QED
  BY <1>2 DEF Replayed

\* A seek lands where the time says: the events it has played are no later than the time
\* sought, but for those that lead up to the first vision packet, and those still to come are
\* no earlier; if the time comes through its conversion exactly, they are later.
SeekLands ==
  [][\A delta \in Deltas, exact \in BOOLEAN : Opened /\ Seek(delta, exact) =>
       \A i \in (InitialCursor + 1)..Len(log) :
         IF i <= engine'.cursor THEN log[i].time - Base <= Sought(delta)
         ELSE IF exact THEN log[i].time - Base > Sought(delta)
         ELSE log[i].time - Base >= Sought(delta)]_vars

THEOREM SeekLandsCorrect == Spec => SeekLands
<1>1. IInv /\ LogSorted /\ [Next]_vars =>
        [\A delta \in Deltas, exact \in BOOLEAN : Opened /\ Seek(delta, exact) =>
           \A i \in (InitialCursor + 1)..Len(log) :
             IF i <= engine'.cursor THEN log[i].time - Base <= Sought(delta)
             ELSE IF exact THEN log[i].time - Base > Sought(delta)
             ELSE log[i].time - Base >= Sought(delta)]_vars
  <2> SUFFICES ASSUME IInv, LogSorted, NEW delta \in Deltas, NEW exact \in BOOLEAN,
                      Opened, Seek(delta, exact), NEW i \in (InitialCursor + 1)..Len(log)
               PROVE  IF i <= engine'.cursor THEN log[i].time - Base <= Sought(delta)
                      ELSE IF exact THEN log[i].time - Base > Sought(delta)
                      ELSE log[i].time - Base >= Sought(delta)
    OBVIOUS
  <2>1. LogOK /\ engine.cursor \in Cursors /\ delta \in Int
    BY DeltasAssumption DEF IInv, EngineOK, TypeOK, Cursors
  <2>2. PICK n \in 0..Len(log) :
          /\ SeekTarget(delta, exact) = AtLeast(n, InitialCursor)
          /\ \A j \in 1..Len(log) :
               j <= n <=> \/ log[j].time - Base < Sought(delta)
                          \/ log[j].time - Base = Sought(delta) /\ (exact \/ Sought(delta) = 0)
    BY <2>1, SeekCuts
  <2>3. /\ i \in 1..Len(log) /\ InitialCursor < i /\ InitialCursor \in Nat /\ n \in Nat
        /\ log[i].time - Base \in Nat /\ Sought(delta) \in Nat
    <3>1. /\ Len(log) \in Nat /\ InitialCursor \in 1..Len(log) /\ Sought(delta) \in Nat
          /\ \A j \in 1..Len(log) : log[j].time - Base \in Nat
      BY <2>1, Times
    <3>2. i \in 1..Len(log) /\ InitialCursor < i /\ InitialCursor \in Nat /\ n \in Nat
      BY <3>1
    <3>3. QED
      BY <3>1, <3>2
  <2>4. i <= engine'.cursor <=> i <= n
    <3>1. engine'.cursor = AtLeast(n, InitialCursor)
      BY <2>2, SeekMoves
    <3>2. QED
      BY <2>3, <3>1 DEF AtLeast
  <2>5. QED
    BY <2>2, <2>3, <2>4
<1>2. QED
  BY <1>1, Invariance, SortedInvariance, PTL DEF Spec, SeekLands

\* A seek goes the way its key says.  Two seeks do not: one forward at the very end of the
\* log may go back, as the conversion may leave out the last events (main.rs:254), and one
\* back at the very start may go on, over the events of the first one's time.
SeeksTheRightWay ==
  [][\A delta \in Deltas, exact \in BOOLEAN : Opened /\ Seek(delta, exact) =>
       /\ delta > 0 /\ (exact \/ Position < Duration) => engine'.cursor >= engine.cursor
       /\ delta < 0 /\ Position > 0 => engine'.cursor <= engine.cursor]_vars

THEOREM SeekDirection == Spec => SeeksTheRightWay
<1>1. IInv /\ LogSorted /\ [Next]_vars =>
        [\A delta \in Deltas, exact \in BOOLEAN : Opened /\ Seek(delta, exact) =>
           /\ delta > 0 /\ (exact \/ Position < Duration) => engine'.cursor >= engine.cursor
           /\ delta < 0 /\ Position > 0 => engine'.cursor <= engine.cursor]_vars
  <2> SUFFICES ASSUME IInv, LogSorted, NEW delta \in Deltas, NEW exact \in BOOLEAN,
                      Opened, Seek(delta, exact)
               PROVE  /\ delta > 0 /\ (exact \/ Position < Duration) =>
                           engine'.cursor >= engine.cursor
                      /\ delta < 0 /\ Position > 0 => engine'.cursor <= engine.cursor
    OBVIOUS
  <2>1. LogOK /\ engine.cursor \in Cursors /\ delta \in Int
    BY DeltasAssumption DEF IInv, EngineOK, TypeOK, Cursors
  <2>2. PICK n \in 0..Len(log) :
          /\ SeekTarget(delta, exact) = AtLeast(n, InitialCursor)
          /\ \A j \in 1..Len(log) :
               j <= n <=> \/ log[j].time - Base < Sought(delta)
                          \/ log[j].time - Base = Sought(delta) /\ (exact \/ Sought(delta) = 0)
    BY <2>1, SeekCuts
  <2>3. /\ engine.cursor \in 1..Len(log) /\ InitialCursor <= engine.cursor
        /\ InitialCursor \in Nat /\ n \in Nat /\ engine.cursor \in Nat
        /\ Position \in Nat /\ Duration \in Nat /\ Position <= Duration /\ Sought(delta) \in Nat
        /\ Position + delta \in 0..Duration => Sought(delta) = Position + delta
        /\ Position + delta > Duration => Sought(delta) = Duration
        /\ Position + delta < 0 => Sought(delta) = 0
    <3>1. /\ engine.cursor \in 1..Len(log) /\ InitialCursor <= engine.cursor
          /\ InitialCursor \in 1..Len(log) /\ Len(log) \in Nat
      BY <2>1, Times
    <3>2. InitialCursor \in Nat /\ n \in Nat /\ engine.cursor \in Nat
      BY <3>1
    <3>3. QED
      BY <2>1, <3>1, <3>2, Times
  <2>4. engine.cursor <= n <=> \/ Position < Sought(delta)
                               \/ Position = Sought(delta) /\ (exact \/ Sought(delta) = 0)
    <3>1. Position = log[engine.cursor].time - Base
      BY <2>1, Times
    <3>2. QED
      BY <2>2, <2>3, <3>1
  <2>5. engine'.cursor = AtLeast(n, InitialCursor)
    BY <2>2, SeekMoves
  <2>6. ASSUME delta > 0, exact \/ Position < Duration
        PROVE  engine'.cursor >= engine.cursor
    <3>1. engine.cursor <= n
      BY <2>1, <2>3, <2>4, <2>6
    <3>2. QED
      BY <2>3, <2>5, <3>1 DEF AtLeast
  <2>7. ASSUME delta < 0, Position > 0
        PROVE  engine'.cursor <= engine.cursor
    <3>1. ~(engine.cursor <= n)
      BY <2>1, <2>3, <2>4, <2>7
    <3>2. QED
      BY <2>3, <2>5, <3>1 DEF AtLeast
  <2>8. QED
    BY <2>6, <2>7
<1>2. QED
  BY <1>1, Invariance, SortedInvariance, PTL DEF Spec, SeeksTheRightWay
=============================================================================
