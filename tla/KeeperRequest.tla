---------------------------- MODULE KeeperRequest ----------------------------
(***************************************************************************)
(* Asking the game controller for another keeper.                          *)
(*                                                                         *)
(* The operator selects a keeper on the interface, the referee's packets   *)
(* name the keeper the game controller holds.  When the two differ,        *)
(* mode_game asks for the selected one, once, and spawns a task that puts  *)
(* the request into the channel of an actor.  The actor owns the TCP       *)
(* connection to the game controller and serves one request at a time;     *)
(* when the connection breaks it drops the request and connects anew.      *)
(*                                                                         *)
(* Requests are numbered in the order in which mode_game makes them.       *)
(***************************************************************************)
EXTENDS Naturals, Sequences, Functions

CONSTANTS
  Keepers,        \* ids a keeper may have
  DefaultKeeper,  \* the id a forgotten referee packet names: 0
  NoKeeper,       \* Option::None
  Capacity,       \* capacity of the actor's channel: 32
  MaxSelections,  \* bound: how often the operator selects another keeper
  MaxOthers       \* bound: how often somebody else sets the keeper

ASSUME KeeperAssumption ==
  /\ DefaultKeeper \in Keepers /\ NoKeeper \notin Keepers
  /\ Capacity \in Nat \ {0}
  /\ {MaxSelections, MaxOthers} \subseteq Nat

VARIABLES
  chosen,         \* WorldState.new_goalie: the interface's selection
  goalie,         \* WorldState.goalie: the keeper the referee's packet names
  lastRequested,  \* WorldState.last_requested_goalie
  asked,          \* asked[n]: the keeper that request n asks for
  tasks,          \* spawned requests that are not in the channel yet
  queue,          \* the channel of the actor
  connected,      \* the actor has a connection it has not seen break
  serving,        \* the request the actor has sent, 0 if none
  arrived,        \* that request has reached the game controller
  received,       \* the requests that reached the game controller, in order
  keeper,         \* the keeper the game controller holds
  held,           \* the keepers it has held, which packets under way may still name
  selections,     \* how often the selection changed
  others,         \* how often somebody else set the keeper
  unasked,        \* history: the selection was not requested since it changed
  upset           \* history: a request was lost, refused or overtaken, or
                  \* somebody else set the keeper

vars == <<chosen, goalie, lastRequested, asked, tasks, queue, connected, serving,
          arrived, received, keeper, held, selections, others, unasked, upset>>

world   == <<chosen, goalie, lastRequested, asked, selections, unasked>>
channel == <<tasks, queue>>
link    == <<serving, arrived, received>>
outside == <<keeper, held, others>>

Outstanding == tasks \cup Range(queue) \cup ({serving} \ {0})

Init ==
  /\ chosen = NoKeeper
  /\ goalie = NoKeeper
  /\ lastRequested = NoKeeper
  /\ asked = <<>>
  /\ tasks = {}
  /\ queue = <<>>
  /\ connected = FALSE
  /\ serving = 0
  /\ arrived = FALSE
  /\ received = <<>>
  /\ keeper \in Keepers
  /\ held = {keeper}
  /\ selections = 0
  /\ others = 0
  /\ unasked = FALSE
  /\ upset = FALSE

-----------------------------------------------------------------------------
(* The operator and the control loop *)

\* The interface sends another selection; one sent again changes nothing.
Select(k) ==
  /\ selections < MaxSelections
  /\ k # chosen
  /\ chosen' = k
  /\ selections' = selections + 1
  /\ unasked' = TRUE
  /\ UNCHANGED <<goalie, lastRequested, asked, channel, connected, link, outside, upset>>

\* What the referee's packet may name: the keeper as it is, one it was before, when no newer
\* packet arrived or an older one after it, or the default, when the packet was forgotten.
Named == held \cup {DefaultKeeper}

\* Mutation: the selection is noted as requested although it was not.
RequestNotingAlways(g) ==
  /\ lastRequested' = chosen
  /\ IF NoKeeper \notin {g, chosen} /\ chosen \notin {g, lastRequested}
       THEN /\ asked' = Append(asked, chosen)
            /\ tasks' = tasks \cup {Len(asked')}
            /\ unasked' = FALSE
       ELSE UNCHANGED <<asked, tasks, unasked>>

\* Mutation: the request is not remembered.
RequestForgetting(g) ==
  IF NoKeeper \notin {g, chosen} /\ chosen # g
    THEN /\ asked' = Append(asked, chosen)
         /\ tasks' = tasks \cup {Len(asked')}
         /\ unasked' = FALSE
         /\ UNCHANGED lastRequested
    ELSE UNCHANGED <<lastRequested, asked, tasks, unasked>>

RequestIfChanged(g) ==
  IF NoKeeper \notin {g, chosen} /\ chosen \notin {g, lastRequested}
    THEN /\ lastRequested' = chosen
         /\ asked' = Append(asked, chosen)
         /\ tasks' = tasks \cup {Len(asked')}
         /\ unasked' = FALSE
    ELSE UNCHANGED <<lastRequested, asked, tasks, unasked>>

\* update_states, then the head of mode_game.
GameTick(g) ==
  /\ goalie' = g
  /\ RequestIfChanged(g)
  /\ UNCHANGED <<chosen, queue, connected, link, outside, selections, upset>>

\* A tick while the game does not run, or in another mode.
IdleTick(g) ==
  /\ goalie' = g
  /\ UNCHANGED <<chosen, lastRequested, asked, channel, connected, link, outside,
                 selections, unasked, upset>>

-----------------------------------------------------------------------------
(* The spawned tasks and the actor *)

\* Mutation: the channel is a stack.
EnqueueFirst(n) ==
  /\ n \in tasks
  /\ Len(queue) < Capacity
  /\ tasks' = tasks \ {n}
  /\ queue' = <<n>> \o queue
  /\ upset' = (upset \/ \E m \in tasks : m < n)
  /\ UNCHANGED <<world, connected, link, outside>>

\* The task of request n runs; older ones may still wait to.
Enqueue(n) ==
  /\ n \in tasks
  /\ Len(queue) < Capacity
  /\ tasks' = tasks \ {n}
  /\ queue' = Append(queue, n)
  /\ upset' = (upset \/ \E m \in tasks : m < n)
  /\ UNCHANGED <<world, connected, link, outside>>

\* Mutation: the actor ends when its first connection breaks.
ConnectOnce ==
  /\ ~connected
  /\ received = <<>>
  /\ connected' = TRUE
  /\ UNCHANGED <<world, channel, link, outside, upset>>

\* connect_and_register succeeds; an attempt that fails is repeated after five seconds.
Connect ==
  /\ ~connected
  /\ connected' = TRUE
  /\ UNCHANGED <<world, channel, link, outside, upset>>

\* The actor takes the next request and writes it to the connection.
Send ==
  /\ connected
  /\ serving = 0
  /\ queue # <<>>
  /\ serving' = Head(queue)
  /\ queue' = Tail(queue)
  /\ arrived' = FALSE
  /\ UNCHANGED <<world, tasks, connected, received, outside, upset>>

\* The game controller's answer arrives, a refusal too.
Reply ==
  /\ serving # 0
  /\ arrived
  /\ serving' = 0
  /\ UNCHANGED <<world, channel, connected, arrived, received, outside, upset>>

\* Mutation: the request is kept for the next connection.
FailRetrying ==
  /\ serving # 0
  /\ serving' = 0
  /\ queue' = <<serving>> \o queue
  /\ connected' = FALSE
  /\ UNCHANGED <<world, tasks, arrived, received, outside, upset>>

\* Writing or reading fails: the request is answered with the error, and dropped.
Fail ==
  /\ serving # 0
  /\ serving' = 0
  /\ connected' = FALSE
  /\ upset' = (upset \/ ~arrived)
  /\ UNCHANGED <<world, channel, arrived, received, outside>>

-----------------------------------------------------------------------------
(* The game controller *)

\* The request arrives, and is granted or refused.
Receive(granted) ==
  /\ serving # 0
  /\ ~arrived
  /\ arrived' = TRUE
  /\ received' = Append(received, serving)
  /\ keeper' = IF granted THEN asked[serving] ELSE keeper
  /\ held' = held \cup {keeper'}
  /\ upset' = (upset \/ ~granted)
  /\ UNCHANGED <<world, channel, connected, serving, others>>

\* The referee crew sets the keeper.
OtherKeeper(k) ==
  /\ others < MaxOthers
  /\ k # keeper
  /\ keeper' = k
  /\ held' = held \cup {k}
  /\ others' = others + 1
  /\ upset' = TRUE
  /\ UNCHANGED <<world, channel, connected, link>>

Next ==
  \/ \E k \in Keepers : Select(k) \/ OtherKeeper(k)
  \/ \E g \in Named : GameTick(g) \/ IdleTick(g)
  \/ \E n \in tasks : Enqueue(n)
  \/ Connect
  \/ Send
  \/ \E granted \in BOOLEAN : Receive(granted)
  \/ Reply
  \/ Fail

Spec == Init /\ [][Next]_vars

\* The game runs and its loop ticks with a fresh referee packet again and again, spawned
\* tasks get their turn in the channel, and the game controller can be reached again and
\* answers or hangs up.
Fairness ==
  /\ WF_vars(GameTick(keeper))
  /\ \A n \in 1..MaxSelections : SF_vars(Enqueue(n))
  /\ WF_vars(Connect)
  /\ WF_vars(Send)
  /\ WF_vars(Receive(TRUE) \/ Receive(FALSE) \/ Fail)
  /\ WF_vars(Reply \/ Fail)

FairSpec == Spec /\ Fairness

-----------------------------------------------------------------------------
(* Properties *)

Requests == 1..MaxSelections

\* Types; the channel holds what it has room for, and only requests that were made.
TypeOK ==
  /\ {chosen, goalie, lastRequested} \subseteq Keepers \cup {NoKeeper}
  /\ held \subseteq Keepers
  /\ keeper \in held
  /\ selections \in 0..MaxSelections
  /\ others \in 0..MaxOthers
  /\ asked \in Seq(Keepers)
  /\ tasks \subseteq 1..Len(asked)
  /\ queue \in Seq(1..Len(asked))
  /\ Len(queue) <= Capacity
  /\ serving \in 0..Len(asked)
  /\ received \in Seq(1..Len(asked))
  /\ {connected, arrived, unasked, upset} \subseteq BOOLEAN

\* Every selection is requested at most once, although 250 ticks a second may see that the
\* referee does not name it yet, and whatever the referee's packets name in between.
NoFlood == Len(asked) <= selections

\* A request reaches the game controller once at most, whatever breaks when.
AtMostOnce ==
  \A i, j \in DOMAIN received : received[i] = received[j] => i = j

\* Unless a request is lost, refused or overtaken or somebody else sets the keeper, the
\* game controller ends up with the keeper it was asked for last.
LastRequestStands ==
  ~upset /\ Outstanding = {} /\ asked # <<>> => keeper = asked[Len(asked)]

\* Every request is answered or dropped in the end; none is stranded in a task, in the
\* channel or with the actor when a connection breaks.
Answered == \A n \in Requests : n \in Outstanding ~> n \notin Outstanding

\* A selection that lasts becomes the keeper, however often it changed before and however
\* late the referee's packets show it, as long as nothing is lost, refused or overtaken
\* and nobody else sets the keeper.
SelectionArrives ==
  \A k \in Keepers : <>[](chosen = k) => <>(upset \/ [](keeper = k))

\* "a changed goalkeeper selection causes CrashPilot to send a `desired_keeper` request"
\* (README.md), if the keeper is not selected yet and nothing has been asked that is still
\* to be answered.  Not so: the selection requested last is never requested again, even if
\* that request was lost and the selection was withdrawn and made anew.
ChangeIsRequested ==
  [][(\E g \in Named : GameTick(g)) /\ goalie' # chosen /\ Outstanding = {} => ~unasked']_vars
==============================================================================
