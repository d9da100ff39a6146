----------------------------- MODULE VisionIntake -----------------------------
(***************************************************************************)
(* From the cameras' and trackers' frames to the snapshot of the world.    *)
(*                                                                         *)
(* The network loses, delays, duplicates and reorders frames.  The inbox   *)
(* keeps every frame since the last tick, and the newest one once more;    *)
(* the tick takes it, camera frames first, and feeds them one by one to    *)
(* the world model, which skips the frames it has seen, brings the clocks  *)
(* of the sources together and remembers the measurements of every object. *)
(* The snapshot then fits an estimate to the recent ones.                  *)
(*                                                                         *)
(* One object stands for the ball and every robot: their tracks do not     *)
(* depend on each other.  Of an estimate only the time of the newest       *)
(* measurement it rests on is kept.                                        *)
(***************************************************************************)
EXTENDS Integers, SequencesExt

CONSTANTS
  Cameras,      \* sources of raw frames: camera_id
  Trackers,     \* sources of tracked frames: source_name and uuid
  None,         \* Option::None
  Window,       \* fit_window_ms, in units of time
  Invalid,      \* invalid_timeout_ms
  History,      \* history_ms
  BounceTime,   \* the longest time between measurements that shows a bounce: 200 ms
  ClockGap,     \* a source this far off is brought to the world's clock: 5 s
  Skew,         \* how far each source's clock is ahead
  MaxTime,      \* bound: when the model ends
  MaxDelay,     \* bound: the network drops a frame after this time
  MaxInbox,     \* bound: frames of a kind between two ticks
  MaxArrivals   \* bound: how many frames arrive

Sources == Cameras \cup Trackers

ASSUME VisionAssumption ==
  /\ Cameras \cap Trackers = {}
  /\ None \notin Int
  /\ {Window, Invalid, History, BounceTime, ClockGap} \subseteq Nat
  /\ {MaxTime, MaxDelay, MaxInbox, MaxArrivals} \subseteq Nat
  /\ Skew \in [Sources -> Nat]

VARIABLES
  now,       \* the time
  arrivals,  \* how many frames have arrived
  raw,       \* Events.raw_frames
  tracked,   \* Events.tracked_frames
  pc,        \* "idle" between ticks, "ingest" while a tick feeds the world model
  pending,   \* pending_raw_frames, then pending_tracked_frames
  seen,      \* seen_raw and seen_tracked
  offset,    \* source_clock_offsets
  latest,    \* latest_time
  obs,       \* MotionTrack.observations
  measured,  \* MotionTrack.last_measurement
  estimate,  \* MotionTrack.estimate: the time of the newest measurement it rests on
  out,       \* clean_snapshot: frame number, timestamp and the object's estimate
  fed,       \* history: times of the measurements of this tick
  late       \* history: a measurement was too old for the fit when its tick ended

vars == <<now, arrivals, raw, tracked, pc, pending, seen, offset, latest,
          obs, measured, estimate, out, fed, late>>

outside == <<now, arrivals>>
inbox   == <<raw, tracked>>
clock   == <<seen, offset, latest>>
track   == <<obs, measured, estimate>>
history == <<fed, late>>

\* Every source captures a frame in every unit of time, numbered by that time.
Frame(s, n) == [source |-> s, number |-> n]
Frames == [source : Sources, number : Nat]

Init ==
  /\ now = 0
  /\ arrivals = 0
  /\ raw = <<>>
  /\ tracked = <<>>
  /\ pc = "idle"
  /\ pending = <<>>
  /\ seen = {}
  /\ offset = [s \in Sources |-> None]
  /\ latest = None
  /\ obs = <<>>
  /\ measured = None
  /\ estimate = None
  /\ out = [number |-> 0, time |-> None, estimate |-> None]
  /\ fed = {}
  /\ late = FALSE

-----------------------------------------------------------------------------
(* The sources and the network *)

TimePasses ==
  /\ pc = "idle"
  /\ raw = <<>> /\ tracked = <<>>
  /\ now < MaxTime
  /\ now' = now + 1
  /\ UNCHANGED <<arrivals, inbox, pc, pending, clock, track, out, history>>

\* The frames the network may deliver, once or again.
InFlight == {Frame(s, n) : s \in Sources, n \in {m \in 1..now : now - m <= MaxDelay}}

\* A frame arrives.  One that arrives during a tick waits like one that arrives after it.
Arrive(f) ==
  /\ pc = "idle"
  /\ arrivals < MaxArrivals
  /\ arrivals' = arrivals + 1
  /\ \/ /\ f.source \in Cameras
        /\ Len(raw) < MaxInbox
        /\ raw' = Append(raw, f)
        /\ UNCHANGED tracked
     \/ /\ f.source \in Trackers
        /\ Len(tracked) < MaxInbox
        /\ tracked' = Append(tracked, f)
        /\ UNCHANGED raw
  /\ UNCHANGED <<now, pc, pending, clock, track, out, history>>

\* The slots Events.raw and Events.tracked: the newest frame once more.
Newest(frames) == IF frames = <<>> THEN <<>> ELSE <<Last(frames)>>

\* recv and interpret: take the inbox.  A tick that finds none repeats its snapshot.
Take ==
  /\ pc = "idle"
  /\ raw # <<>> \/ tracked # <<>>
  /\ pc' = "ingest"
  /\ pending' = raw \o Newest(raw) \o tracked \o Newest(tracked)
  /\ raw' = <<>>
  /\ tracked' = <<>>
  /\ UNCHANGED <<outside, clock, track, out, history>>

-----------------------------------------------------------------------------
(* ingest_raw and ingest_tracked *)

\* Mutation: the clock follows every frame.
AdvanceTo(t) == t

\* advance_time
Advanced(t) == IF latest = None \/ t > latest THEN t ELSE latest

Distance(a, b) == IF a > b THEN a - b ELSE b - a

\* logical_time: the offset of a source is fixed by its first frame.
Stamp(f) == f.number + Skew[f.source]

OffsetOf(f) ==
  IF offset[f.source] # None THEN offset[f.source]
  ELSE IF latest # None /\ Distance(latest, Stamp(f)) > ClockGap THEN latest - Stamp(f)
  ELSE 0

Time(f) == Stamp(f) + OffsetOf(f)

\* push_observation: a measurement of the same source and time is ignored, old ones are
\* forgotten from the front up to the first that is recent enough.
Repeats(o) ==
  /\ obs # <<>>
  /\ Last(obs).source = o.source
  /\ Last(obs).time = o.time

Recent(s, cutoff) ==
  LET first == CHOOSE i \in DOMAIN s :
                 s[i].time >= cutoff /\ \A j \in 1..(i - 1) : s[j].time < cutoff
  IN  SubSeq(s, first, Len(s))

Push(before, o) ==
  /\ obs' = Recent(Append(before, o), o.time - History)
  /\ measured' = o.time

\* A jump of the ball that a wall explains; robots do not bounce.
MayBounce(o) ==
  /\ estimate # None
  /\ measured # None
  /\ o.time > measured
  /\ o.time - measured <= BounceTime

\* ingest_ball_observation, ingest_robot_observation
Measure(o) ==
  \/ /\ Repeats(o)
     /\ UNCHANGED track
  \/ /\ ~Repeats(o)
     /\ Push(obs, o)
     /\ UNCHANGED estimate
  \/ /\ MayBounce(o)
     /\ Push(<<>>, o)
     /\ estimate' = o.time

\* Mutation: frames are not remembered.
IngestForgetting(object) ==
  /\ pc = "ingest"
  /\ pending # <<>>
  /\ LET f == Head(pending)
         o == [source |-> f.source, number |-> f.number, time |-> Time(f)]
     IN /\ f \notin seen
        /\ o.time >= 0
        /\ UNCHANGED seen
        /\ offset' = [offset EXCEPT ![f.source] = OffsetOf(f)]
        /\ latest' = Advanced(o.time)
        /\ IF object THEN Measure(o) ELSE UNCHANGED track
        /\ fed' = IF object THEN fed \cup {o.time} ELSE fed
  /\ pending' = Tail(pending)
  /\ UNCHANGED <<outside, inbox, pc, out, late>>

\* A frame that was seen before.
Skip ==
  /\ pc = "ingest"
  /\ pending # <<>>
  /\ Head(pending) \in seen
  /\ pending' = Tail(pending)
  /\ UNCHANGED <<outside, inbox, pc, clock, track, out, history>>

\* A frame whose time is not valid.
Refuse ==
  /\ pc = "ingest"
  /\ pending # <<>>
  /\ LET f == Head(pending)
     IN /\ f \notin seen
        /\ Time(f) < 0
        /\ seen' = seen \cup {f}
        /\ offset' = [offset EXCEPT ![f.source] = OffsetOf(f)]
  /\ pending' = Tail(pending)
  /\ UNCHANGED <<outside, inbox, pc, latest, track, out, history>>

\* A new frame, which shows the object or does not.
Ingest(object) ==
  /\ pc = "ingest"
  /\ pending # <<>>
  /\ LET f == Head(pending)
         o == [source |-> f.source, number |-> f.number, time |-> Time(f)]
     IN /\ f \notin seen
        /\ o.time >= 0
        /\ seen' = seen \cup {f}
        /\ offset' = [offset EXCEPT ![f.source] = OffsetOf(f)]
        /\ latest' = Advanced(o.time)
        /\ IF object THEN Measure(o) ELSE UNCHANGED track
        /\ fed' = IF object THEN fed \cup {o.time} ELSE fed
  /\ pending' = Tail(pending)
  /\ UNCHANGED <<outside, inbox, pc, out, late>>

-----------------------------------------------------------------------------
(* snapshot *)

Expired == latest - measured > Invalid

\* Mutation: estimates do not expire.
FitForever ==
  IF measured = None THEN None
  ELSE LET fresh == {t \in {obs[i].time : i \in DOMAIN obs} : latest - t <= Window}
       IN  IF fresh = {} THEN estimate ELSE Max(fresh)

\* fit_track: to the measurements of the window; without any the estimate stays as it is.
Fit ==
  IF measured = None \/ Expired THEN None
  ELSE LET fresh == {t \in {obs[i].time : i \in DOMAIN obs} : latest - t <= Window}
       IN  IF fresh = {} THEN estimate ELSE Max(fresh)

Numbered == IF out.time = latest THEN out.number ELSE out.number + 1

\* Mutation: an expired estimate is not published, yet it is kept.
SnapshotKeeping ==
  /\ pc = "ingest"
  /\ pending = <<>>
  /\ pc' = "idle"
  /\ IF latest = None
       THEN UNCHANGED <<estimate, out>>
       ELSE /\ estimate' = IF Fit = None THEN estimate ELSE Fit
            /\ out' = [number |-> Numbered, time |-> latest, estimate |-> Fit]
  /\ late' = (late \/ \E t \in fed : latest - t > Window)
  /\ fed' = {}
  /\ UNCHANGED <<outside, inbox, pending, clock, obs, measured>>

\* The snapshot at the end of the tick; its number counts the times it was taken at.
Snapshot ==
  /\ pc = "ingest"
  /\ pending = <<>>
  /\ pc' = "idle"
  /\ IF latest = None
       THEN UNCHANGED <<estimate, out>>
       ELSE /\ estimate' = Fit
            /\ out' = [number |-> Numbered, time |-> latest, estimate |-> Fit]
  /\ late' = (late \/ \E t \in fed : latest - t > Window)
  /\ fed' = {}
  /\ UNCHANGED <<outside, inbox, pending, clock, obs, measured>>

Next ==
  \/ TimePasses
  \/ \E f \in InFlight : Arrive(f)
  \/ Take
  \/ Skip
  \/ Refuse
  \/ \E object \in BOOLEAN : Ingest(object)
  \/ Snapshot

Spec == Init /\ [][Next]_vars

-----------------------------------------------------------------------------
(* Properties *)

Times == Int \cup {None}

\* Types; what was measured is no newer than the clock.
TypeOK ==
  /\ now \in 0..MaxTime
  /\ arrivals \in 0..MaxArrivals
  /\ raw \in Seq(Frames)
  /\ tracked \in Seq(Frames)
  /\ pc \in {"idle", "ingest"}
  /\ pending \in Seq(Frames)
  /\ seen \subseteq Frames
  /\ offset \in [Sources -> Times]
  /\ latest \in Times
  /\ obs \in Seq([source : Sources, number : Nat, time : Int])
  /\ \A i \in DOMAIN obs : latest # None /\ obs[i].time <= latest
  /\ {measured, estimate} \subseteq Times
  /\ out \in [number : Nat, time : Times, estimate : Times]
  /\ fed \subseteq Int
  /\ late \in BOOLEAN

\* A frame is evidence once, although the inbox holds the newest one twice and the network
\* may deliver any of them again, between others and ticks later.
OncePerFrame ==
  \A i, j \in DOMAIN obs :
    obs[i].source = obs[j].source /\ obs[i].number = obs[j].number => i = j

\* The estimate that goes out rests on a measurement no older than the invalid timeout, as
\* long as no measurement reached the fit when its window had passed.
RestsOnMeasurement ==
  ~late /\ out.estimate # None => out.time - out.estimate <= Invalid

\* Robots and interface tell snapshots apart by their number: it changes when the snapshot's
\* time does, and that moves forward only, in whatever order frames arrive and whichever
\* source's clock they carry.
NumberFollowsClock ==
  [][out.time # None =>
       /\ out'.time >= out.time
       /\ out'.number = out.number <=> out'.time = out.time]_vars

\* An object that was lost comes back only with a recent measurement: an estimate once
\* dropped is never published again, not even when a late measurement of the object arrives.
NoGhost ==
  [][out.estimate = None /\ out'.estimate # None =>
       out'.time - out'.estimate <= Window]_vars
=============================================================================
