------------------------------ MODULE ReplaySeek ------------------------------
(***************************************************************************)
(* The vision-log replay tool (tools/vision-filter-replay/src/main.rs).    *)
(*                                                                         *)
(* ReplayEngine feeds a recorded log, event by event, to the world model   *)
(* and keeps what the interface is to show.  The terminal's controls move  *)
(* its cursor to and fro; going back means starting a fresh world model    *)
(* and feeding it the log up to there.  Every change is published in a     *)
(* watch channel, which one task per WebSocket client sends on.            *)
(*                                                                         *)
(* The world model is what it was fed with: its field and its packets in   *)
(* order.  The delay between two events, and with it the playback speed,   *)
(* is not modelled: the next event may come at any moment.  Quit ends the  *)
(* program and the behaviour.                                              *)
(***************************************************************************)
EXTENDS Integers, SequencesExt

CONSTANTS
  Files,      \* the log files: sequences of messages in the order they were written
  Deltas,     \* how far a control seeks: -10, -1, 1 or 10 seconds
  Clients     \* WebSocket clients of the tool

VARIABLES
  log,        \* ReplayEngine.events
  engine,     \* the rest of ReplayEngine
  playing,    \* of main
  latest,     \* the watch channel's value: what was published last
  client,     \* where the task of each client is, "off" without one
  behind,     \* clients whose receiver has not marked the latest value as seen
  hand,       \* what a client's task is sending
  shown       \* what the client got last

vars == <<log, engine, playing, latest, client, behind, hand, shown>>

Kinds == {"Raw", "Tracked", "Referee"}

\* A message of the log; one of another kind or that does not decode is not usable.
Messages == [time : Nat, kind : Kinds, geometry : BOOLEAN, usable : BOOLEAN]

\* A log without usable vision is refused.
ASSUME FilesAssumption ==
  \A f \in Files :
    /\ f \in Seq(Messages)
    /\ \E i \in DOMAIN f : f[i].usable /\ f[i].kind \in {"Raw", "Tracked"}

ASSUME DeltasAssumption == Deltas \subseteq Int

-----------------------------------------------------------------------------
(* ReplayEngine *)

\* load_log: the usable messages by time, in the order of the file at equal times.
Loaded(f) ==
  LET kept == {i \in DOMAIN f : f[i].usable}
      Before(i, j) == f[i].time < f[j].time \/ (f[i].time = f[j].time /\ i < j)
      orders == {o \in Bijection(1..Cardinality(kept), kept) :
                   \A k, l \in DOMAIN o : k < l => Before(o[k], o[l])}
  IN  {[k \in DOMAIN o |-> f[o[k]]] : o \in orders}

IsVision(i) == log[i].kind \in {"Raw", "Tracked"}

\* A world model fed with nothing; 0 stands for "none" and for the default field.
NewModel(field) == [field |-> field, fed |-> << >>]

Fresh ==
  [cursor |-> 0, field |-> 0, model |-> NewModel(0), raw |-> 0, tracked |-> 0,
   referee |-> 0, snapshot |-> << >>]

\* Mutation: the new world model is made before the field is reset.
ResetModelFirst(e) == [Fresh EXCEPT !.model = NewModel(e.field)]

Reset(e) == Fresh

\* The packet of a log event is its number; the snapshot is what the model was fed with.
Feed(e, i) ==
  LET fed   == Append(e.model.fed, i)
      field == IF log[i].kind = "Raw" /\ log[i].geometry THEN i ELSE e.model.field
  IN  [e EXCEPT !.cursor = i, !.model = [field |-> field, fed |-> fed], !.snapshot = fed,
                !.field = IF log[i].kind = "Raw" /\ log[i].geometry THEN i ELSE @]

ApplyNext(e) ==
  LET i == e.cursor + 1
  IN  IF e.cursor = Len(log) THEN e
      ELSE CASE log[i].kind = "Raw"     -> [Feed(e, i) EXCEPT !.raw = i]
             [] log[i].kind = "Tracked" -> [Feed(e, i) EXCEPT !.tracked = i]
             [] log[i].kind = "Referee" -> [e EXCEPT !.cursor = i, !.referee = i]

\* apply_next until the cursor is at n.
ApplyTo(e, n) ==
  LET at[k \in e.cursor..n] == IF k = e.cursor THEN e ELSE ApplyNext(at[k - 1])
  IN  at[n]

RebuildTo(e, n) == ApplyTo(Reset(e), n)

MoveTo(e, n) == IF n < e.cursor THEN RebuildTo(e, n) ELSE ApplyTo(e, n)

\* Right after the first vision packet.
InitialCursor == CHOOSE i \in DOMAIN log : IsVision(i) /\ \A j \in 1..(i - 1) : ~IsVision(j)

AtLeast(n, least) == IF n < least THEN least ELSE n
AtMost(n, most)   == IF n > most THEN most ELSE n

Base     == log[1].time
Duration == log[Len(log)].time - Base
Position == IF engine.cursor = 0 THEN 0 ELSE log[engine.cursor].time - Base

\* seek_relative: the time sought is one of the log's.
Sought(delta) == AtLeast(AtMost(Position + delta, Duration), 0)

\* The events up to the time sought.  The time goes through floating-point seconds and
\* back and may come out a nanosecond early, so that events at that very time are left out.
SeekTarget(delta, exact) ==
  LET sought == Sought(delta)
      upTo   == {i \in DOMAIN log : \/ log[i].time - Base < sought
                                    \/ log[i].time - Base = sought /\ (exact \/ sought = 0)}
  IN  AtLeast(Cardinality(upTo), InitialCursor)

\* encoded_interface_packet
View(e) == [raw |-> e.raw, tracked |-> e.tracked, referee |-> e.referee,
            sources |-> e.model.fed, filtered |-> e.snapshot]

NoView == View(Fresh)

-----------------------------------------------------------------------------
(* main: the engine moves and what it shows is published *)

Init ==
  /\ \E f \in Files : log \in Loaded(f)
  /\ engine = Fresh
  /\ playing \in BOOLEAN
  /\ latest = NoView
  /\ client = [c \in Clients |-> "off"]
  /\ behind = {}
  /\ hand = [c \in Clients |-> NoView]
  /\ shown = [c \in Clients |-> NoView]

\* Every receiver has something new to read.
Publish ==
  /\ latest' = View(engine')
  /\ behind' = {c \in Clients : client[c] # "off"}
  /\ UNCHANGED <<log, client, hand, shown>>

Opened == engine.cursor # 0
AtEnd  == engine.cursor = Len(log)

\* Clients are accepted before the engine is at the first vision packet.
Open ==
  /\ ~Opened
  /\ engine' = RebuildTo(engine, InitialCursor)
  /\ UNCHANGED playing
  /\ Publish

\* The time of the next event has come.
Play ==
  /\ Opened
  /\ playing
  /\ ~AtEnd
  /\ engine' = ApplyNext(engine)
  /\ playing' = (engine'.cursor < Len(log))
  /\ Publish

TogglePlayback ==
  /\ playing' = ~playing
  /\ \/ AtEnd /\ engine' = RebuildTo(engine, InitialCursor) /\ Publish
     \/ ~AtEnd /\ UNCHANGED <<log, engine, latest, client, behind, hand, shown>>

Seek(delta, exact) ==
  /\ engine' = MoveTo(engine, SeekTarget(delta, exact))
  /\ UNCHANGED playing
  /\ Publish

StepForward ==
  /\ playing' = FALSE
  /\ engine' = ApplyNext(engine)
  /\ IF AtEnd THEN UNCHANGED <<log, latest, client, behind, hand, shown>> ELSE Publish

\* Mutation: one may step back to before the first vision packet.
StepBackBeyond ==
  /\ playing' = FALSE
  /\ engine' = RebuildTo(engine, engine.cursor - 1)
  /\ Publish

StepBack ==
  /\ playing' = FALSE
  /\ engine' = RebuildTo(engine, AtLeast(engine.cursor - 1, InitialCursor))
  /\ Publish

Start ==
  /\ engine' = RebuildTo(engine, InitialCursor)
  /\ UNCHANGED playing
  /\ Publish

End ==
  /\ engine' = MoveTo(engine, Len(log))
  /\ playing' = FALSE
  /\ Publish

Restart ==
  /\ engine' = RebuildTo(engine, InitialCursor)
  /\ playing' = TRUE
  /\ Publish

Control ==
  /\ Opened
  /\ \/ TogglePlayback
     \/ \E delta \in Deltas, exact \in BOOLEAN : Seek(delta, exact)
     \/ StepForward
     \/ StepBack
     \/ Start
     \/ End
     \/ Restart

-----------------------------------------------------------------------------
(* ReplayWebsocket: the task of one client *)

ClientStep(c, from, to) ==
  /\ client[c] = from
  /\ client' = [client EXCEPT ![c] = to]
  /\ UNCHANGED <<log, engine, playing, latest>>

\* subscribe: the value there is now counts as seen.
Connect(c) ==
  /\ ClientStep(c, "off", "new")
  /\ behind' = behind \ {c}
  /\ UNCHANGED <<hand, shown>>

\* Mutation: a new client waits for the next change.
SkipInitial(c) ==
  /\ ClientStep(c, "new", "wait")
  /\ UNCHANGED <<behind, hand, shown>>

\* The first value is read without marking it as seen; there may be none yet.
ReadInitial(c) ==
  /\ ClientStep(c, "new", IF latest = NoView THEN "wait" ELSE "send")
  /\ hand' = [hand EXCEPT ![c] = latest]
  /\ UNCHANGED <<behind, shown>>

\* updates.changed() marks the value as seen ...
Changed(c) ==
  /\ ClientStep(c, "wait", "read")
  /\ c \in behind
  /\ behind' = behind \ {c}
  /\ UNCHANGED <<hand, shown>>

\* ... and borrow_and_update reads and marks what is there by then.
Take(c) ==
  /\ ClientStep(c, "read", "send")
  /\ behind' = behind \ {c}
  /\ hand' = [hand EXCEPT ![c] = latest]
  /\ UNCHANGED shown

Send(c) ==
  /\ ClientStep(c, "send", "wait")
  /\ shown' = [shown EXCEPT ![c] = hand[c]]
  /\ UNCHANGED <<behind, hand>>

\* The client is gone: sending fails and the task ends.
Disconnect(c) ==
  /\ ClientStep(c, "send", "off")
  /\ behind' = behind \ {c}
  /\ UNCHANGED <<hand, shown>>

Client(c) ==
  \/ Connect(c)
  \/ ReadInitial(c)
  \/ Changed(c)
  \/ Take(c)
  \/ Send(c)
  \/ Disconnect(c)

Next ==
  \/ Open
  \/ Play
  \/ Control
  \/ \E c \in Clients : Client(c)

\* The runtime runs the clients' tasks; nothing is assumed of the user.
Spec ==
  /\ Init
  /\ [][Next]_vars
  /\ \A c \in Clients : WF_vars(ReadInitial(c) \/ Changed(c) \/ Take(c) \/ Send(c))

-----------------------------------------------------------------------------
(* Properties *)

LastOf(S) == IF S = {} THEN 0 ELSE CHOOSE i \in S : \A j \in S : j <= i

\* The vision packets among the first n events.
VisionUpTo(n) ==
  LET among[k \in 0..n] ==
        IF k = 0 THEN << >>
        ELSE IF IsVision(k) THEN Append(among[k - 1], k)
        ELSE among[k - 1]
  IN  among[n]

\* What a program that had only ever applied the first n events would have.
Replayed(n) ==
  LET vision   == VisionUpTo(n)
      geometry == LastOf({i \in 1..n : log[i].kind = "Raw" /\ log[i].geometry})
      lastKind(k) == LastOf({i \in 1..n : log[i].kind = k})
  IN  [cursor |-> n, field |-> geometry,
       model |-> [field |-> geometry, fed |-> vision], snapshot |-> vision,
       raw |-> lastKind("Raw"), tracked |-> lastKind("Tracked"),
       referee |-> lastKind("Referee")]

\* Types; an open replay's cursor stays between the first vision packet and the end of the log.
TypeOK ==
  /\ Opened => engine.cursor \in InitialCursor..Len(log)
  /\ playing \in BOOLEAN
  /\ client \in [Clients -> {"off", "new", "wait", "read", "send"}]
  /\ behind \subseteq {c \in Clients : client[c] # "off"}

\* Whatever was played, stepped and sought to and fro, what is filtered and shown at a
\* position is what playing the log straight to it gives: no packet, field size or
\* referee state of a later position stays, and none is fed twice or left out.
ShowsPrefix == engine = Replayed(engine.cursor)

\* A client that stays connected ends up showing the position the replay rests at, whenever
\* it connected and however many positions it was too slow to show.
ClientShows ==
  \A c \in Clients :
    <>[][UNCHANGED engine]_vars /\ <>[](client[c] # "off") => <>[](shown[c] = View(engine))
==============================================================================
