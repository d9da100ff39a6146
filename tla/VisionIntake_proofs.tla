------------------------- MODULE VisionIntake_proofs -------------------------
(***************************************************************************)
(* Proofs about VisionIntake, for any sources, clocks, windows and bounds. *)
(*                                                                         *)
(* OncePerFrame is not inductive: it needs that what was measured was seen *)
(* (MeasuredSeen).  NumberFollowsClock needs that no snapshot is ahead of  *)
(* the world's clock (OutBehindClock), NoGhost that an estimate which was  *)
(* not published is not kept either (Dropped).  RestsOnMeasurement needs   *)
(* that an estimate expires by the measurement remembered last             *)
(* (LastMeasured), and that a kept estimate is no older than that          *)
(* measurement unless it came in this tick (Covered).                      *)
(***************************************************************************)
EXTENDS VisionIntake, SequenceTheorems, FiniteSetTheorems, TLAPS

Observations == [source : Sources, number : Nat, time : Int]

-----------------------------------------------------------------------------
(* Lemmas about the operators *)

\* A set of natural numbers that is not empty has a least element, because the intervals
\* below its elements cannot shrink forever.
LEMMA LeastElement ==
  ASSUME NEW T, T \subseteq Nat, T # {}
  PROVE  \E x \in T : \A y \in T : x <= y
<1> DEFINE Below(n) == 0..(n - 1)
           Intervals == {Below(n) : n \in T}
<1>1. Intervals \subseteq FiniteSubsetsOf(Nat) /\ Intervals # {}
  <2>1. \A n \in T : IsFiniteSet(Below(n)) /\ Below(n) \subseteq Nat
    BY FS_Interval
  <2>2. QED
    BY <2>1 DEF FiniteSubsetsOf
<1>2. PICK b \in Intervals : \A c \in Intervals : <<c, b>> \notin StrictSubsetOrdering(Nat)
  <2> HIDE DEF Intervals
  <2>1. QED
    BY <1>1, FS_StrictSubsetOrderingWellFounded, WFMin
<1>3. PICK x \in T : b = Below(x)
  OBVIOUS
<1>4. ASSUME NEW y \in T, y < x
      PROVE  FALSE
  <2>1. <<Below(y), Below(x)>> \notin StrictSubsetOrdering(Nat)
    BY <1>2, <1>3
  <2>2. Below(y) \subseteq Below(x) /\ y \in Below(x) /\ y \notin Below(y)
    BY <1>4
  <2>3. Below(y) \subseteq Nat /\ Below(x) \subseteq Nat
    OBVIOUS
  <2> HIDE DEF Below
  <2>4. Below(y) # Below(x)
    BY <2>2
  <2>5. QED
    BY <2>1, <2>2, <2>3, <2>4 DEF StrictSubsetOrdering
<1>5. QED
  BY <1>4

\* A set of times that the clock bounds has a newest one.
LEMMA NewestIsMember ==
  ASSUME NEW T, T \subseteq Int, T # {}, NEW top \in Int, \A t \in T : t <= top
  PROVE  Max(T) \in T /\ \A t \in T : Max(T) >= t
<1> DEFINE Ages == {top - t : t \in T}
<1>1. Ages \subseteq Nat
  <2>1. SUFFICES ASSUME NEW t \in T PROVE top - t \in Nat
    OBVIOUS
  <2>2. t \in Int /\ t <= top
    OBVIOUS
  <2>3. QED
    BY <2>2
<1>2. Ages # {}
  OBVIOUS
<1>3. PICK x \in Ages : \A y \in Ages : x <= y
  <2> HIDE DEF Ages
  <2>1. QED
    BY <1>1, <1>2, LeastElement
<1>4. PICK m \in T : x = top - m
  OBVIOUS
<1>5. ASSUME NEW t \in T PROVE m >= t
  <2>1. top - m <= top - t
    BY <1>3, <1>4
  <2>2. m \in Int /\ t \in Int
    OBVIOUS
  <2>3. QED
    BY <2>1, <2>2
<1>6. QED
  BY <1>5 DEF Max

\* Forgetting old measurements keeps a suffix, the newest one included.
LEMMA RecentIsSuffix ==
  ASSUME NEW s \in Seq(Observations), s # <<>>, NEW cutoff \in Int,
         s[Len(s)].time >= cutoff
  PROVE  \E first \in 1..Len(s) : Recent(s, cutoff) = SubSeq(s, first, Len(s))
<1> DEFINE T == {i \in DOMAIN s : s[i].time >= cutoff}
<1>1. Len(s) \in DOMAIN s /\ DOMAIN s = 1..Len(s)
  BY LenProperties, EmptySeq
<1>2. T \subseteq Nat /\ T # {}
  BY <1>1
<1>3. PICK i \in T : \A j \in T : i <= j
  <2> HIDE DEF T
  <2>1. QED
    BY <1>2, LeastElement
<1>4. \A j \in 1..(i - 1) : s[j].time < cutoff
  <2>1. SUFFICES ASSUME NEW j \in 1..(i - 1) PROVE s[j].time < cutoff
    OBVIOUS
  <2>2. j \in DOMAIN s /\ j \notin T
    BY <1>1, <1>3
  <2>3. s[j] \in Observations
    BY <1>1, <2>2, ElementOfSeq
  <2>4. s[j].time \in Int
    BY <2>3 DEF Observations
  <2>5. QED
    BY <2>2, <2>4
<1>5. \E f \in DOMAIN s : s[f].time >= cutoff /\ \A j \in 1..(f - 1) : s[j].time < cutoff
  BY <1>3, <1>4
<1>6. QED
  BY <1>1, <1>5 DEF Recent

-----------------------------------------------------------------------------
(* The inductive invariant *)

\* What was measured was seen.
MeasuredSeen ==
  \A i \in DOMAIN obs : Frame(obs[i].source, obs[i].number) \in seen

\* No snapshot is ahead of the world's clock.
OutBehindClock == out.time # None => latest # None /\ out.time <= latest

\* An estimate that is not published is not kept.
Dropped == out.estimate = None => estimate = None

\* last_measurement is the time of the measurement remembered last.
LastMeasured == measured # None => obs # <<>> /\ obs[Len(obs)].time = measured

\* As long as no measurement was late, an estimate is as new as the last measurement, unless
\* that one has not come to a snapshot yet.
Covered ==
  ~late /\ measured # None /\ estimate # None => estimate >= measured \/ measured \in fed

IInv ==
  /\ TypeOK
  /\ OncePerFrame
  /\ MeasuredSeen
  /\ OutBehindClock
  /\ Dropped
  /\ LastMeasured
  /\ Covered
  /\ RestsOnMeasurement

-----------------------------------------------------------------------------
(* A measurement *)

\* What push_observation remembers: a suffix of what it did, then the measurement.
LEMMA PushIsSuffix ==
  ASSUME NEW before \in Seq(Observations), NEW o \in Observations, Push(before, o)
  PROVE  \E first \in 1..(Len(before) + 1) :
           /\ obs' \in Seq(Observations)
           /\ Len(obs') = Len(before) + 2 - first
           /\ \A i \in 1..Len(obs') :
                obs'[i] = IF first + i - 1 = Len(before) + 1 THEN o ELSE before[first + i - 1]
<1> DEFINE s == Append(before, o)
           n == Len(before) + 1
<1>1. s \in Seq(Observations) /\ s # <<>> /\ Len(s) = n /\ s[n] = o
  BY AppendProperties
<1>2. \A i \in 1..(n - 1) : s[i] = before[i]
  BY AppendProperties
<1>3. n \in Nat \ {0}
  BY LenProperties
<1>4. o.time \in Int /\ o.time - History \in Int /\ o.time >= o.time - History
  BY VisionAssumption DEF Observations
<1>5. obs' = Recent(s, o.time - History)
  BY DEF Push
<1> HIDE DEF s, n
<1>6. PICK first \in 1..n : obs' = SubSeq(s, first, n)
  BY <1>1, <1>4, <1>5, RecentIsSuffix
<1>7. \A i \in first..n : s[i] \in Observations
  BY <1>1, <1>3, ElementOfSeq
<1>8. /\ obs' \in Seq(Observations)
      /\ Len(obs') = n - first + 1
      /\ \A i \in 1..(n - first + 1) : obs'[i] = s[first + i - 1]
  BY <1>3, <1>6, <1>7, SubSeqProperties
<1>9. ASSUME NEW i \in 1..Len(obs')
      PROVE  obs'[i] = IF first + i - 1 = n THEN o ELSE before[first + i - 1]
  <2>1. first + i - 1 \in 1..n /\ obs'[i] = s[first + i - 1]
    BY <1>3, <1>8
  <2>2. QED
    BY <1>1, <1>2, <1>3, <2>1
<1>10. QED
  BY <1>3, <1>8, <1>9 DEF n

\* What a new frame's measurement keeps of the invariant.
LEMMA PushKeeps ==
  ASSUME TypeOK, OncePerFrame, MeasuredSeen,
         NEW before \in Seq(Observations), before \in {obs, <<>>},
         NEW o \in Observations, Push(before, o),
         Frame(o.source, o.number) \notin seen,
         seen' = seen \cup {Frame(o.source, o.number)},
         latest' \in Int, o.time <= latest', latest # None => latest <= latest'
  PROVE  /\ obs' \in Seq(Observations)
         /\ \A i \in DOMAIN obs' : obs'[i].time <= latest'
         /\ OncePerFrame'
         /\ MeasuredSeen'
         /\ LastMeasured'
<1>1. PICK first \in 1..(Len(before) + 1) :
        /\ obs' \in Seq(Observations)
        /\ Len(obs') = Len(before) + 2 - first
        /\ \A i \in 1..Len(obs') :
             obs'[i] = IF first + i - 1 = Len(before) + 1 THEN o ELSE before[first + i - 1]
  BY PushIsSuffix
<1>2. Len(before) \in Nat /\ Len(obs') \in Nat /\ DOMAIN before = 1..Len(before)
      /\ DOMAIN obs' = 1..Len(obs')
  BY <1>1, LenProperties
<1>3. \A j \in DOMAIN before : j \in DOMAIN obs /\ before[j] = obs[j]
  BY EmptySeq
<1>4. \A j \in DOMAIN before :
        /\ before[j] \in Observations
        /\ before[j].time <= latest'
        /\ Frame(before[j].source, before[j].number) \in seen
  <2>1. SUFFICES ASSUME NEW j \in DOMAIN before
                 PROVE  /\ before[j] \in Observations
                        /\ before[j].time <= latest'
                        /\ Frame(before[j].source, before[j].number) \in seen
    OBVIOUS
  <2>2. before[j] \in Observations
    BY <1>2, ElementOfSeq
  <2>3. latest \in Int /\ before[j].time <= latest
    BY <1>3 DEF TypeOK, Times
  <2>4. latest <= latest' /\ before[j].time \in Int
    BY <2>2, <2>3, VisionAssumption DEF Observations
  <2>5. QED
    BY <1>3, <2>2, <2>3, <2>4 DEF MeasuredSeen
<1>5. ASSUME NEW i \in DOMAIN obs'
      PROVE  \/ first + i - 1 = Len(before) + 1 /\ obs'[i] = o
             \/ first + i - 1 \in DOMAIN before /\ obs'[i] = before[first + i - 1]
  <2>1. i \in 1..Len(obs')
    BY <1>2
  <2>2. first + i - 1 \in 1..(Len(before) + 1)
    BY <1>1, <1>2, <2>1
  <2>3. first + i - 1 = Len(before) + 1 \/ first + i - 1 \in DOMAIN before
    BY <1>2, <2>2
  <2>4. obs'[i] = IF first + i - 1 = Len(before) + 1 THEN o ELSE before[first + i - 1]
    BY <1>1, <2>1
  <2>5. first + i - 1 \in DOMAIN before => first + i - 1 # Len(before) + 1
    BY <1>2
  <2>6. QED
    BY <2>3, <2>4, <2>5
<1>6. \A i \in DOMAIN obs' : obs'[i].time <= latest'
  BY <1>4, <1>5
<1>7. MeasuredSeen'
  BY <1>4, <1>5 DEF MeasuredSeen
<1>8. OncePerFrame'
  <2>1. SUFFICES ASSUME NEW i \in DOMAIN obs', NEW j \in DOMAIN obs',
                        obs'[i].source = obs'[j].source, obs'[i].number = obs'[j].number
                 PROVE  i = j
    BY DEF OncePerFrame
  <2>2. Frame(obs'[i].source, obs'[i].number) = Frame(obs'[j].source, obs'[j].number)
    BY <2>1
  <2>3. CASE obs'[i] = o /\ first + i - 1 = Len(before) + 1
    <3>1. Frame(obs'[j].source, obs'[j].number) \notin seen
      BY <2>2, <2>3
    <3>2. first + j - 1 = Len(before) + 1
      BY <1>4, <1>5, <3>1
    <3>3. QED
      BY <1>2, <2>3, <3>2
  <2>4. CASE obs'[i] = before[first + i - 1] /\ first + i - 1 \in DOMAIN before
    <3>1. Frame(obs'[j].source, obs'[j].number) \in seen
      BY <1>4, <2>2, <2>4
    <3>2. first + j - 1 \in DOMAIN before /\ obs'[j] = before[first + j - 1]
      BY <1>5, <3>1
    <3>3. first + i - 1 = first + j - 1
      BY <1>3, <2>1, <2>4, <3>2 DEF OncePerFrame
    <3>4. QED
      BY <1>2, <3>3
  <2>5. QED
    BY <1>5, <2>3, <2>4
<1>9. LastMeasured'
  <2>1. Len(obs') \in 1..Len(obs') /\ first + Len(obs') - 1 = Len(before) + 1
    BY <1>1, <1>2
  <2>2. obs'[Len(obs')] = o
    BY <1>1, <2>1
  <2>3. obs' # <<>>
    BY <1>1, <2>1, EmptySeq
  <2>4. QED
    BY <2>2, <2>3 DEF LastMeasured, Push
<1>10. QED
  BY <1>1, <1>6, <1>7, <1>8, <1>9

\* What feeding a measurement to the track keeps of the invariant.
LEMMA MeasureKeeps ==
  ASSUME TypeOK, OncePerFrame, MeasuredSeen, LastMeasured, Covered,
         NEW o \in Observations, Measure(o), fed' = fed \cup {o.time}, UNCHANGED late,
         Frame(o.source, o.number) \notin seen,
         seen' = seen \cup {Frame(o.source, o.number)},
         latest' \in Int, o.time <= latest', latest # None => latest <= latest'
  PROVE  /\ obs' \in Seq(Observations)
         /\ \A i \in DOMAIN obs' : obs'[i].time <= latest'
         /\ {measured', estimate'} \subseteq Times
         /\ OncePerFrame'
         /\ MeasuredSeen'
         /\ LastMeasured'
         /\ Covered'
         /\ estimate = None => estimate' = None
<1>1. obs \in Seq(Observations) /\ {measured, estimate} \subseteq Times
  BY DEF TypeOK, Observations
<1>2. o.time \in Times
  BY DEF Observations, Times
<1>3. CASE UNCHANGED track
  <2>1. UNCHANGED <<obs, measured, estimate>>
    BY <1>3 DEF track
  <2>2. ASSUME NEW i \in DOMAIN obs PROVE obs[i].time <= latest'
    <3>1. obs[i] \in Observations
      BY <1>1, ElementOfSeq, LenProperties
    <3>2. latest \in Int /\ obs[i].time <= latest /\ latest <= latest' /\ obs[i].time \in Int
      BY <3>1 DEF TypeOK, Times, Observations
    <3>3. QED
      BY <3>2
  <2>3. QED
    BY <1>1, <2>1, <2>2 DEF OncePerFrame, MeasuredSeen, LastMeasured, Covered
<1>4. CASE Push(obs, o) /\ UNCHANGED estimate
  <2>1. measured' = o.time
    BY <1>4 DEF Push
  <2>2. Covered'
    BY <2>1 DEF Covered
  <2>3. QED
    BY <1>1, <1>2, <1>4, <2>1, <2>2, PushKeeps
<1>5. CASE MayBounce(o) /\ Push(<<>>, o) /\ estimate' = o.time
  <2>1. <<>> \in Seq(Observations) /\ estimate # None
    BY <1>5, EmptySeq DEF MayBounce
  <2>2. measured' = o.time
    BY <1>5 DEF Push
  <2>3. Covered'
    BY <2>2 DEF Covered
  <2>4. QED
    BY <1>2, <1>5, <2>1, <2>2, <2>3, PushKeeps
<1>6. QED
  BY <1>3, <1>4, <1>5 DEF Measure

-----------------------------------------------------------------------------
(* The snapshot *)

\* The estimate that goes out: none, or the kept one, or one of a measurement in the window.
LEMMA FitIs ==
  ASSUME TypeOK, latest # None
  PROVE  /\ Fit \in Times
         /\ Fit # None /\ Fit # estimate => latest - Fit <= Window
<1> DEFINE fresh == {t \in {obs[i].time : i \in DOMAIN obs} : latest - t <= Window}
<1>1. latest \in Int /\ estimate \in Times
  BY DEF TypeOK, Times
<1>2. fresh \subseteq Int /\ \A t \in fresh : t <= latest
  <2>1. ASSUME NEW i \in DOMAIN obs PROVE obs[i].time \in Int /\ obs[i].time <= latest
    <3>1. obs[i] \in Observations
      BY ElementOfSeq, LenProperties DEF TypeOK, Observations
    <3>2. QED
      BY <3>1 DEF TypeOK, Observations
  <2>2. QED
    BY <2>1
<1>3. Fit \in {None, estimate} \/ (fresh # {} /\ Fit = Max(fresh))
  BY DEF Fit
<1>4. ASSUME fresh # {}, Fit = Max(fresh)
      PROVE  Fit \in fresh
  <2> HIDE DEF fresh
  <2>1. QED
    BY <1>1, <1>2, <1>4, NewestIsMember
<1>5. QED
  BY <1>1, <1>2, <1>3, <1>4 DEF Times

\* If no measurement of this tick was late, the estimate is as new as the last one.
LEMMA FitCovers ==
  ASSUME TypeOK, LastMeasured, Covered, latest # None, Fit # None,
         ~late, \A t \in fed : ~(latest - t > Window)
  PROVE  Fit >= measured /\ measured \in Int /\ latest - measured <= Invalid
<1> DEFINE times == {obs[i].time : i \in DOMAIN obs}
           fresh == {t \in times : latest - t <= Window}
<1>1. measured # None /\ ~Expired /\ Fit = IF fresh = {} THEN estimate ELSE Max(fresh)
  BY DEF Fit
<1>2. /\ measured \in Int /\ latest \in Int /\ estimate \in Times
      /\ Window \in Int /\ Invalid \in Int
  BY <1>1, VisionAssumption DEF TypeOK, Times
<1>3. latest - measured <= Invalid
  BY <1>1, <1>2 DEF Expired
<1>4. measured \in times
  <2>1. Len(obs) \in DOMAIN obs /\ obs[Len(obs)].time = measured
    BY <1>1, LenProperties, EmptySeq DEF LastMeasured, TypeOK
  <2>2. QED
    BY <2>1
<1>5. times \subseteq Int /\ \A t \in times : t <= latest
  <2>1. ASSUME NEW i \in DOMAIN obs PROVE obs[i].time \in Int /\ obs[i].time <= latest
    <3>1. obs[i] \in Observations
      BY ElementOfSeq, LenProperties DEF TypeOK, Observations
    <3>2. QED
      BY <3>1 DEF TypeOK, Observations
  <2>2. QED
    BY <2>1
<1> HIDE DEF times
<1>6. CASE fresh = {}
  <2>1. measured \notin fed
    <3>1. ~(latest - measured <= Window)
      BY <1>4, <1>6
    <3>2. latest - measured > Window
      BY <1>2, <3>1
    <3>3. QED
      BY <3>2
  <2>2. Fit = estimate /\ estimate # None
    BY <1>1, <1>6
  <2>3. QED
    BY <1>1, <1>2, <1>3, <2>1, <2>2 DEF Covered
<1>7. CASE fresh # {}
  <2>1. fresh \subseteq Int /\ \A t \in fresh : t <= latest
    BY <1>5
  <2>2. Fit \in fresh /\ \A t \in fresh : Fit >= t
    <3> HIDE DEF fresh
    <3>1. QED
      BY <1>1, <1>2, <1>7, <2>1, NewestIsMember
  <2>3. Fit \in Int /\ latest - Fit <= Window
    BY <2>1, <2>2
  <2>4. CASE measured \in fresh
    BY <1>2, <1>3, <2>2, <2>4
  <2>5. CASE measured \notin fresh
    <3>1. ~(latest - measured <= Window)
      BY <1>4, <2>5
    <3>2. QED
      BY <1>2, <1>3, <2>3, <3>1
  <2>6. QED
    BY <2>4, <2>5
<1>8. QED
  BY <1>6, <1>7

-----------------------------------------------------------------------------
(* The inductive invariant holds *)

LEMMA InitEstablishes == Init => IInv
<1> SUFFICES ASSUME Init PROVE IInv
  OBVIOUS
<1>1. <<>> \in Seq(Frames) /\ <<>> \in Seq(Observations) /\ DOMAIN <<>> = {}
  BY EmptySeq
<1>2. TypeOK
  <2>1. now \in 0..MaxTime /\ arrivals \in 0..MaxArrivals
    BY VisionAssumption DEF Init
  <2>2. out \in [number : Nat, time : Times, estimate : Times]
    BY DEF Init, Times
  <2>3. offset \in [Sources -> Times] /\ {latest, measured, estimate} \subseteq Times
    BY DEF Init, Times
  <2>4. raw \in Seq(Frames) /\ tracked \in Seq(Frames) /\ pending \in Seq(Frames)
    BY <1>1 DEF Init
  <2>5. /\ obs \in Seq([source : Sources, number : Nat, time : Int])
        /\ \A i \in DOMAIN obs : latest # None /\ obs[i].time <= latest
    BY <1>1 DEF Init, Observations
  <2>6. /\ pc \in {"idle", "ingest"} /\ seen \subseteq Frames
        /\ fed \subseteq Int /\ late \in BOOLEAN
    BY DEF Init
  <2>7. QED
    BY <2>1, <2>2, <2>3, <2>4, <2>5, <2>6 DEF TypeOK
<1>3. QED
  BY <1>1, <1>2 DEF Init, IInv, OncePerFrame, MeasuredSeen, OutBehindClock, Dropped,
                    LastMeasured, Covered, RestsOnMeasurement

\* The time of a frame is a number, and so is the offset of its source.
LEMMA FrameTime ==
  ASSUME TypeOK, pending # <<>>
  PROVE  LET f == Head(pending)
         IN /\ f \in Frames
            /\ f = Frame(f.source, f.number)
            /\ OffsetOf(f) \in Int
            /\ Time(f) \in Int
            /\ Tail(pending) \in Seq(Frames)
            /\ [offset EXCEPT ![f.source] = OffsetOf(f)] \in [Sources -> Times]
<1> DEFINE f == Head(pending)
<1>1. f \in Frames /\ Tail(pending) \in Seq(Frames)
  BY HeadTailProperties DEF TypeOK
<1>2. f = Frame(f.source, f.number) /\ f.source \in Sources /\ f.number \in Nat
  BY <1>1 DEF Frames, Frame
<1>3. Stamp(f) \in Int
  BY <1>2, VisionAssumption DEF Stamp
<1>4. OffsetOf(f) \in Int
  BY <1>2, <1>3 DEF OffsetOf, TypeOK, Times
<1>5. Time(f) \in Int
  BY <1>3, <1>4 DEF Time
<1>6. [offset EXCEPT ![f.source] = OffsetOf(f)] \in [Sources -> Times]
  BY <1>4 DEF TypeOK, Times
<1>7. QED
  BY <1>1, <1>2, <1>4, <1>5, <1>6

LEMMA IngestKeeps ==
  ASSUME IInv, NEW object \in BOOLEAN, Ingest(object)
  PROVE  IInv'
<1> DEFINE f == Head(pending)
           o == [source |-> f.source, number |-> f.number, time |-> Time(f)]
<1>1. /\ TypeOK /\ OncePerFrame /\ MeasuredSeen /\ OutBehindClock /\ Dropped
      /\ LastMeasured /\ Covered /\ RestsOnMeasurement
  BY DEF IInv
<1>2. /\ pending # <<>>
      /\ f \notin seen
      /\ o.time >= 0
      /\ seen' = seen \cup {f}
      /\ offset' = [offset EXCEPT ![f.source] = OffsetOf(f)]
      /\ latest' = Advanced(o.time)
      /\ IF object THEN Measure(o) ELSE UNCHANGED track
      /\ fed' = IF object THEN fed \cup {o.time} ELSE fed
      /\ pending' = Tail(pending)
      /\ UNCHANGED <<now, arrivals, raw, tracked, pc, out, late>>
  BY DEF Ingest, outside, inbox
<1>3. /\ f \in Frames
      /\ f = Frame(f.source, f.number)
      /\ Time(f) \in Int
      /\ pending' \in Seq(Frames)
      /\ offset' \in [Sources -> Times]
  BY <1>1, <1>2, FrameTime
<1>4. o \in Observations /\ o.time = Time(f) /\ f = Frame(o.source, o.number)
  BY <1>3 DEF Observations, Frames
<1>5. latest' \in Int /\ o.time <= latest' /\ (latest # None => latest \in Int /\ latest <= latest')
  BY <1>1, <1>2, <1>3, <1>4 DEF Advanced, TypeOK, Times
<1> HIDE DEF o, f
<1>6. /\ obs' \in Seq(Observations)
      /\ \A i \in DOMAIN obs' : obs'[i].time <= latest'
      /\ {measured', estimate'} \subseteq Times
      /\ OncePerFrame'
      /\ MeasuredSeen'
      /\ LastMeasured'
      /\ Covered'
      /\ estimate = None => estimate' = None
  <2>1. CASE object
    BY <1>1, <1>2, <1>4, <1>5, <2>1, MeasureKeeps
  <2>2. CASE ~object
    <3>1. UNCHANGED <<obs, measured, estimate>>
      BY <1>2, <2>2 DEF track
    <3>2. obs \in Seq(Observations)
      BY <1>1 DEF TypeOK, Observations
    <3>3. ASSUME NEW i \in DOMAIN obs PROVE obs[i].time <= latest'
      <4>1. obs[i] \in Observations
        BY <3>2, ElementOfSeq, LenProperties
      <4>2. latest \in Int /\ obs[i].time <= latest /\ latest <= latest' /\ obs[i].time \in Int
        BY <1>1, <1>5, <4>1 DEF TypeOK, Observations
      <4>3. QED
        BY <1>5, <4>2
    <3>4. QED
      BY <1>1, <1>2, <2>2, <3>1, <3>2, <3>3
         DEF OncePerFrame, MeasuredSeen, TypeOK, LastMeasured, Covered
  <2>3. QED
    BY <2>1, <2>2
<1>7. latest' \in Times /\ latest' # None /\ fed' \subseteq Int /\ seen' \subseteq Frames
  BY <1>1, <1>2, <1>3, <1>4, <1>5, VisionAssumption DEF TypeOK, Times
<1>8. TypeOK'
  BY <1>1, <1>2, <1>3, <1>6, <1>7 DEF TypeOK, Observations
<1>9. OutBehindClock'
  BY <1>1, <1>2, <1>5, <1>7 DEF OutBehindClock, TypeOK, Times
<1>10. Dropped'
  BY <1>1, <1>2, <1>6 DEF Dropped
<1>11. RestsOnMeasurement'
  BY <1>1, <1>2 DEF RestsOnMeasurement
<1>12. QED
  BY <1>6, <1>8, <1>9, <1>10, <1>11 DEF IInv

LEMMA SnapshotKeeps ==
  ASSUME IInv, Snapshot
  PROVE  IInv'
<1>1. /\ TypeOK /\ OncePerFrame /\ MeasuredSeen /\ OutBehindClock /\ Dropped
      /\ LastMeasured /\ Covered /\ RestsOnMeasurement
  BY DEF IInv
<1>2. UNCHANGED <<now, arrivals, raw, tracked, pending, seen, offset, latest, obs, measured>>
  BY DEF Snapshot, outside, inbox, clock
<1>3. pc' = "idle" /\ fed' = {} /\ late' \in BOOLEAN
  BY DEF Snapshot
<1>4. CASE latest = None
  <2>1. UNCHANGED <<estimate, out>>
    BY <1>4 DEF Snapshot
  <2>2. TypeOK'
    BY <1>1, <1>2, <1>3, <2>1 DEF TypeOK
  <2>3. measured = None
    BY <1>1, <1>4, EmptySeq, LenProperties DEF LastMeasured, TypeOK
  <2>4. RestsOnMeasurement'
    BY <1>1, <2>1 DEF RestsOnMeasurement, Snapshot
  <2>5. QED
    BY <1>1, <1>2, <2>1, <2>2, <2>3, <2>4
       DEF IInv, OncePerFrame, MeasuredSeen, OutBehindClock, Dropped, LastMeasured, Covered
<1>5. CASE latest # None
  <2>1. estimate' = Fit /\ out' = [number |-> Numbered, time |-> latest, estimate |-> Fit]
    BY <1>5 DEF Snapshot
  <2>2. Fit \in Times /\ latest \in Int
    BY <1>1, <1>5, FitIs DEF TypeOK, Times
  <2>3. Numbered \in Nat
    BY <1>1 DEF Numbered, TypeOK
  <2>4. out' \in [number : Nat, time : Times, estimate : Times]
    BY <2>1, <2>2, <2>3 DEF Times
  <2>5. TypeOK'
    BY <1>1, <1>2, <1>3, <2>1, <2>2, <2>4 DEF TypeOK
  <2>6. OutBehindClock' /\ Dropped'
    BY <1>2, <1>5, <2>1, <2>2 DEF OutBehindClock, Dropped
  <2>7. ASSUME ~late', Fit # None
        PROVE  Fit >= measured /\ measured \in Int /\ latest - measured <= Invalid
    BY <1>1, <1>5, <2>7, FitCovers DEF Snapshot
  <2>8. Covered'
    BY <1>2, <2>1, <2>7 DEF Covered
  <2>9. RestsOnMeasurement'
    <3>1. SUFFICES ASSUME ~late', Fit # None PROVE latest - Fit <= Invalid
      BY <2>1 DEF RestsOnMeasurement
    <3>2. Fit \in Int /\ Fit >= measured /\ measured \in Int /\ latest - measured <= Invalid
      BY <2>2, <2>7, <3>1 DEF Times
    <3>3. Invalid \in Int /\ latest \in Int
      BY <2>2, VisionAssumption
    <3>4. QED
      BY <3>2, <3>3
  <2>10. QED
    BY <1>1, <1>2, <2>5, <2>6, <2>8, <2>9 DEF IInv, OncePerFrame, MeasuredSeen, LastMeasured
<1>6. QED
  BY <1>4, <1>5

LEMMA ArriveKeeps ==
  ASSUME IInv, NEW f \in InFlight, Arrive(f)
  PROVE  IInv'
<1>1. f \in Frames /\ now \in 0..MaxTime
  BY DEF InFlight, Frame, Frames, IInv, TypeOK
<1>2. arrivals' \in 0..MaxArrivals
  BY VisionAssumption DEF Arrive, IInv, TypeOK
<1>3. raw' \in Seq(Frames) /\ tracked' \in Seq(Frames)
  <2>1. raw \in Seq(Frames) /\ tracked \in Seq(Frames)
    BY DEF IInv, TypeOK
  <2>2. Append(raw, f) \in Seq(Frames) /\ Append(tracked, f) \in Seq(Frames)
    BY <1>1, <2>1, AppendProperties
  <2>3. raw' \in {raw, Append(raw, f)} /\ tracked' \in {tracked, Append(tracked, f)}
    BY DEF Arrive
  <2>4. QED
    BY <2>1, <2>2, <2>3
<1>4. UNCHANGED <<now, pc, pending, seen, offset, latest, obs, measured, estimate, out, fed, late>>
  BY DEF Arrive, clock, track, history
<1>5. TypeOK'
  BY <1>2, <1>3, <1>4 DEF IInv, TypeOK
<1>6. QED
  BY <1>4, <1>5 DEF IInv, OncePerFrame, MeasuredSeen, OutBehindClock, Dropped,
                    LastMeasured, Covered, RestsOnMeasurement

LEMMA TakeKeeps ==
  ASSUME IInv, Take
  PROVE  IInv'
<1>1. ASSUME NEW s \in Seq(Frames) PROVE Newest(s) \in Seq(Frames)
  <2>1. CASE s = <<>>
    BY <2>1 DEF Newest
  <2>2. CASE s # <<>>
    <3>1. Last(s) \in Frames
      BY <2>2, ElementOfSeq, LenProperties, EmptySeq DEF Last
    <3>2. QED
      BY <2>2, <3>1 DEF Newest
  <2>3. QED
    BY <2>1, <2>2
<1>2. raw \in Seq(Frames) /\ tracked \in Seq(Frames)
  BY DEF IInv, TypeOK
<1>3. Newest(raw) \in Seq(Frames) /\ Newest(tracked) \in Seq(Frames)
  BY <1>1, <1>2
<1>4. raw \o Newest(raw) \o tracked \o Newest(tracked) \in Seq(Frames)
  BY <1>2, <1>3, ConcatProperties
<1>5. pending' \in Seq(Frames) /\ raw' \in Seq(Frames) /\ tracked' \in Seq(Frames)
  BY <1>4, EmptySeq DEF Take
<1>6. /\ pc' = "ingest"
      /\ UNCHANGED <<now, arrivals, seen, offset, latest, obs, measured, estimate, out, fed, late>>
  BY DEF Take, outside, clock, track, history
<1>7. TypeOK'
  BY <1>5, <1>6 DEF IInv, TypeOK
<1>8. QED
  BY <1>6, <1>7 DEF IInv, OncePerFrame, MeasuredSeen, OutBehindClock, Dropped,
                    LastMeasured, Covered, RestsOnMeasurement

\* The steps that leave clock and track as they are.
LEMMA OthersKeep ==
  ASSUME IInv, TimePasses \/ Skip \/ Refuse \/ UNCHANGED vars
  PROVE  IInv'
<1>1. UNCHANGED <<arrivals, raw, tracked, pc, latest, obs, measured, estimate, out, fed, late>>
  BY DEF TimePasses, Skip, Refuse, vars, outside, inbox, clock, track, history
<1>2. /\ now' \in 0..MaxTime /\ pending' \in Seq(Frames)
      /\ offset' \in [Sources -> Times]
      /\ seen \subseteq seen' /\ seen' \subseteq Frames
  <2>1. CASE TimePasses
    BY <2>1, VisionAssumption DEF TimePasses, clock, IInv, TypeOK
  <2>2. CASE Skip
    BY <2>2, FrameTime DEF Skip, outside, clock, IInv, TypeOK
  <2>3. CASE Refuse
    BY <2>3, FrameTime DEF Refuse, outside, IInv, TypeOK
  <2>4. CASE UNCHANGED vars
    BY <2>4 DEF vars, IInv, TypeOK
  <2>5. QED
    BY <2>1, <2>2, <2>3, <2>4
<1>3. TypeOK'
  BY <1>1, <1>2 DEF IInv, TypeOK
<1>4. QED
  BY <1>1, <1>2, <1>3 DEF IInv, OncePerFrame, MeasuredSeen, OutBehindClock, Dropped,
                          LastMeasured, Covered, RestsOnMeasurement

-----------------------------------------------------------------------------
(* Theorems *)

\* The inductive invariant holds in every reachable state, whatever the network delivers.
THEOREM Invariance == Spec => []IInv
<1>1. IInv /\ [Next]_vars => IInv'
  BY ArriveKeeps, TakeKeeps, IngestKeeps, SnapshotKeeps, OthersKeep DEF Next
<1>2. QED
  BY <1>1, InitEstablishes, PTL DEF Spec

\* Everything is of its type; no measurement is newer than the world's clock.
THEOREM TypeCorrect == Spec => []TypeOK
<1>1. IInv => TypeOK
  BY DEF IInv
<1>2. QED
  BY <1>1, Invariance, PTL

\* A frame is evidence once, however often the network and the inbox deliver it.
THEOREM OnceCorrect == Spec => []OncePerFrame
<1>1. IInv => OncePerFrame
  BY DEF IInv
<1>2. QED
  BY <1>1, Invariance, PTL

\* As long as no measurement is late for the fit, no estimate outlives the invalid timeout.
THEOREM RestsCorrect == Spec => []RestsOnMeasurement
<1>1. IInv => RestsOnMeasurement
  BY DEF IInv
<1>2. QED
  BY <1>1, Invariance, PTL

\* No step but the snapshot publishes anything.
LEMMA OnlySnapshots ==
  ASSUME [Next]_vars, ~Snapshot
  PROVE  UNCHANGED out
BY DEF Next, vars, TimePasses, Arrive, Take, Skip, Refuse, Ingest

\* The snapshot's time never goes back, and its number changes when its time does.
THEOREM NumberCorrect == Spec => NumberFollowsClock
<1>1. ASSUME IInv, [Next]_vars, out.time # None
      PROVE  /\ out'.time >= out.time
             /\ out'.number = out.number <=> out'.time = out.time
  <2>1. out.time \in Int /\ out.number \in Nat /\ latest \in Int /\ out.time <= latest
    BY <1>1 DEF IInv, TypeOK, OutBehindClock, Times
  <2>2. CASE Snapshot
    <3>1. out' = [number |-> Numbered, time |-> latest, estimate |-> Fit]
      BY <2>1, <2>2, VisionAssumption DEF Snapshot
    <3>2. QED
      BY <2>1, <3>1 DEF Numbered
  <2>3. CASE ~Snapshot
    BY <1>1, <2>1, <2>3, OnlySnapshots
  <2>4. QED
    BY <2>2, <2>3
<1>2. IInv /\ [Next]_vars => [out.time # None =>
        /\ out'.time >= out.time
        /\ out'.number = out.number <=> out'.time = out.time]_vars
  BY <1>1
<1>3. QED
  BY <1>2, Invariance, PTL DEF Spec, NumberFollowsClock

\* What was lost comes back only with a measurement in the window of the fit.
THEOREM GhostCorrect == Spec => NoGhost
<1>1. ASSUME IInv, [Next]_vars, out.estimate = None, out'.estimate # None
      PROVE  out'.time - out'.estimate <= Window
  <2>1. Snapshot /\ latest # None
    BY <1>1, OnlySnapshots DEF Snapshot
  <2>2. out'.time = latest /\ out'.estimate = Fit
    BY <2>1 DEF Snapshot
  <2>3. estimate = None
    BY <1>1 DEF IInv, Dropped
  <2>4. latest - Fit <= Window
    BY <1>1, <2>1, <2>2, <2>3, FitIs DEF IInv
  <2>5. QED
    BY <2>2, <2>4
<1>2. IInv /\ [Next]_vars => [out.estimate = None /\ out'.estimate # None =>
        out'.time - out'.estimate <= Window]_vars
  BY <1>1
<1>3. QED
  BY <1>2, Invariance, PTL DEF Spec, NoGhost
=============================================================================
