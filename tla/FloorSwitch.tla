---------------------------- MODULE FloorSwitch ----------------------------
\* Floor switches pressed for everybody in the room (floor_switch_sync.hpp,
\* floor_switch_bridge.cpp).  Each player samples which plates its own Link
\* stands on, tells the others the complete set when it changes, and presses
\* its own plates with what the others last said.  A pressed plate must not
\* start the other players' demos, must not be published by those who did not
\* press it, and must come up again when nobody stands on it.
\*
\* A pressure is active or not (the weight classes are left out), a room has at
\* most MaxSwitches plates, and a plate's own code is external: how many frames
\* it takes to move is open.
EXTENDS Naturals, Sequences, FiniteSets, SequencesExt

CONSTANTS Players, Scenes, None,
          Plates, Momentary, SceneOf,   \* SceneOf[k]: the room plate k is placed in
          MaxEvents

ASSUME FloorAssumption ==
  /\ IsFiniteSet(Plates) /\ Momentary \subseteq Plates
  /\ SceneOf \in [Plates -> Scenes] /\ None \notin Scenes
  /\ MaxEvents \in Nat

VARIABLES me,      \* the bridge of each player: its file-static variables
          world,   \* the player's game: room, feet, plates, saved output flags
          queue,   \* queue[p][q]: the reliable stream from p to q
          quiet,   \* frames since the feet of a player last changed, up to 2
          mine,    \* history: plates the player's own Link pressed last, or whose
                   \* guard a second retirement replaced
          acted,   \* plates whose demo or publication the last frame ordered
          events

vars == <<me, world, queue, quiet, mine, acted, events>>

Latches == Plates \ Momentary
Others(p) == Players \ {p}
More == events < MaxEvents /\ events' = events + 1

NoEntry == [seq |-> 0, scene |-> None, contacts |-> {}, fresh |-> FALSE]
NoFrame == [ran |-> {}, on |-> {}]

NewBridge == [scene |-> None, sampled |-> NoFrame, local |-> {}, sent |-> {}, origin |-> {},
              completed |-> {}, retScene |-> None, retOrigin |-> {}, seq |-> 0, need |-> TRUE,
              flags |-> TRUE, ledger |-> [q \in Players |-> NoEntry]]

\* Everybody joins while in the same room.
Init == /\ me = [p \in Players |-> NewBridge]
        /\ \E room \in Scenes :
             world = [p \in Players |-> [room |-> room, feet |-> {}, flag |-> {},
                                            pos |-> [k \in Plates |-> "up"]]]
        /\ queue = [p \in Players |-> [q \in Players |-> <<>>]]
        /\ quiet = [p \in Players |-> 2] /\ mine = [p \in Players |-> {}]
        /\ acted = {} /\ events = 0

-----------------------------------------------------------------------------
\* Operators on one player's step: its bridge x, its game w, what it sends.

\* current_scene
CurrentScene(s) == IF s.x.flags THEN s.w.room ELSE None

Send(s, scene, contacts) ==
  [s EXCEPT !.x.seq = @ + 1, !.x.sent = contacts, !.x.need = FALSE,
            !.out = Append(@, [type |-> "state", seq |-> s.x.seq + 1,
                               scene |-> scene, contacts |-> contacts])]

\* retire_remote_origin: only the guard against demos outlives the scene, and it
\* replaces the guard that an earlier scene left behind.
Retire(s) ==
  IF s.x.scene = None \/ s.x.origin = {} THEN s
  ELSE [s EXCEPT !.x.retScene = s.x.scene, !.x.retOrigin = s.x.origin,
                 !.mine = @ \cup s.x.retOrigin]

\* Ledger::clear_pressure keeps the sequence numbers.
ClearPressure(ledger) == [q \in Players |-> [ledger[q] EXCEPT !.contacts = {}]]

Cleared(x, scene) ==
  [x EXCEPT !.scene = scene, !.sampled = NoFrame, !.local = {}, !.sent = {}, !.origin = {},
            !.completed = {}, !.need = TRUE, !.ledger = ClearPressure(@)]

\* The contacts of the scene that is left are taken back.
TakeBackNothing(s) == s

TakeBack(s) == IF s.x.scene # None /\ s.x.sent # {} THEN Send(s, s.x.scene, {}) ELSE s

UpdateScene(s) ==
  IF CurrentScene(s) = s.x.scene THEN s
  ELSE [Retire(TakeBack(s)) EXCEPT !.x = Cleared(@, CurrentScene(s))]

\* reset_floor_switch_state
Reset(s, newSession) ==
  LET t == Retire(IF newSession THEN s ELSE TakeBack(s))
      x == Cleared(t.x, None)
  IN [t EXCEPT !.x = IF newSession
                     THEN [x EXCEPT !.seq = 0, !.ledger = [q \in Players |-> NoEntry]] ELSE x]

\* finish_frame: a plate that did not run while the game is paused keeps what
\* was last observed.
FinishFrame(previous, sampled, paused) ==
  (IF paused THEN previous \ sampled.ran ELSE {}) \cup sampled.on

\* flush_floor_switch_state; beat: the last packet is 250 ms old.
Flush(s, paused, beat) ==
  LET t == UpdateScene(s)
      local == FinishFrame(t.x.local, t.x.sampled, paused)
      u == [t EXCEPT !.x.local = local, !.x.sampled = NoFrame]
  IN IF t.x.scene = None THEN t
     ELSE IF u.x.need \/ local # u.x.sent \/ (local # {} /\ beat) THEN Send(u, u.x.scene, local)
     ELSE u

\* Ledger::receive
ReceiveState(x, q, m) ==
  IF m.seq <= x.ledger[q].seq THEN x
  ELSE [x EXCEPT !.ledger[q] = [seq |-> m.seq, scene |-> m.scene, contacts |-> m.contacts,
                                fresh |-> TRUE]]

\* apply_switch_bit and repair_floor_switch_completion
ReceiveBit(s, k) ==
  LET t == [UpdateScene(s) EXCEPT !.w.flag = @ \cup {k}]
  IN IF t.x.scene = SceneOf[k]
     THEN [t EXCEPT !.x.completed = @ \cup {k}, !.x.origin = @ \cup {k}] ELSE t

\* forget_floor_switch_peer
ForgetKeeps(x, q) == [x EXCEPT !.ledger[q].contacts = {}]

Forget(x, q) == [x EXCEPT !.ledger[q] = NoEntry]

Receive(s, q, m) ==
  CASE m.type = "left" -> [s EXCEPT !.x = Forget(@, q)]
    [] m.type = "state" /\ s.x.flags -> [UpdateScene(s) EXCEPT !.x = ReceiveState(@, q, m)]
    [] m.type = "bit" /\ s.x.flags -> ReceiveBit(s, m.plate)
    [] OTHER -> s

\* Ledger::pressure
Pressure(x, scene, now) ==
  UNION {x.ledger[q].contacts : q \in {r \in Players : x.ledger[r].scene = scene /\ now[r]}}

Fresh(x) == [q \in Players |-> x.ledger[q].fresh]

-----------------------------------------------------------------------------
\* The plates of the room run once (process_pre, the native step, process_post).

Idle(w, k) == w.pos[k] = "up"

\* complete_native: only a latch is held down, until it has reached its end.
Finishing(x, w) == {k \in x.completed : k \in w.flag /\ w.pos[k] # "down"}

\* The native plate, external: pressed plates go down, released ones come up,
\* a latch that is down stays there and sets its output flag.
Move(k, pos, pressed) ==
  CASE k \in Momentary -> IF pressed THEN "down" ELSE "up"
    [] k \in Latches /\ pos = "down" -> "down"
    [] OTHER -> IF ~pressed THEN "up" ELSE IF pos = "moving" THEN "down" ELSE "moving"

\* Where the plates of w are once those that move have: complete_native puts a
\* latch that it finishes on its way first.
Stepped(w, moving, pressed, finishing) ==
  LET started == [k \in Plates |-> IF k \in finishing /\ w.pos[k] = "up" THEN "moving" ELSE w.pos[k]]
  IN  [k \in Plates |-> IF k \in moving THEN Move(k, started[k], k \in pressed) ELSE started[k]]

\* is_floor_switch_momentary_output: what a momentary plate sets is not kept.
Durable(moved, pos) == {k \in moved \cap Latches : pos[k] = "down"}

\* process_pre_impl samples before it adds what the others say.
SampledInjected(here, feet, pressed) == [ran |-> here, on |-> pressed]

Sampled(here, feet, pressed) == [ran |-> here, on |-> feet]

Execute(s, p, moves) ==
  LET x == s.x
      w == s.w
      here == {k \in Plates : SceneOf[k] = w.room}
      synced == x.scene # None
      remote == IF synced THEN Pressure(x, x.scene, Fresh(x)) \cap here ELSE {}
      \* the guard kept from the scene before
      same == w.room = x.retScene
      retired == IF same THEN {k \in x.retOrigin : k \notin w.feet /\ ~Idle(w, k)} ELSE {}
      origin == IF ~synced THEN x.origin
                ELSE ((x.origin \cup remote \cup x.completed) \ w.feet)
                       \ {k \in here : Idle(w, k) /\ k \notin remote \cup x.completed}
      remoteOnly == (retired \cup (IF synced THEN origin ELSE {})) \ w.feet
      finishing == IF synced THEN Finishing(x, w) ELSE {}
      pressed == (w.feet \cup remote \cup finishing) \cap here
      pos == Stepped(w, here \cap moves, pressed, finishing)
      moved == {k \in here : pos[k] # w.pos[k]}
      set == Durable(moved, pos)
      published == IF synced THEN (set \ w.flag) \ remoteOnly ELSE {}
  IN [s EXCEPT !.x = [x EXCEPT !.retScene = IF same THEN @ ELSE None, !.retOrigin = retired,
                        !.sampled = IF synced THEN Sampled(here, w.feet, pressed) ELSE @,
                        !.origin = origin,
                        !.completed = IF synced THEN finishing ELSE @],
                !.w = [w EXCEPT !.pos = pos, !.flag = @ \cup set],
                !.mine = (s.mine \cup w.feet) \ ((remote \cup finishing) \ w.feet),
                !.acted = moved \ remoteOnly,
                !.out = @ \o SetToSeq({[type |-> "bit", plate |-> k] : k \in published})]

-----------------------------------------------------------------------------
\* What a player does.

State(p) == [x |-> me[p], w |-> world[p], out |-> <<>>, mine |-> mine[p], acted |-> {}]

\* A peer is sent to once its arrival is known.
Knows(p, q) == \A i \in DOMAIN queue[q][p] : queue[q][p][i].type # "left"

Finish(p, s, rest) ==
  /\ me' = [me EXCEPT ![p] = s.x] /\ world' = [world EXCEPT ![p] = s.w]
  /\ mine' = [mine EXCEPT ![p] = s.mine]
  /\ acted' = {<<p, k>> : k \in s.acted}
  /\ queue' = [a \in Players |-> [b \in Players |->
                 IF a = p /\ b # p /\ Knows(p, b) THEN queue[a][b] \o s.out
                 ELSE IF b = p THEN rest[a] ELSE queue[a][b]]]

\* One frame: OnlineApp::update captures the local contacts (or resets the
\* bridge when flags are not shared) and then may hear a message of peer q; the
\* plates run unless the game is paused.
Frame(p, q, hears, paused, runs, beat, moves) ==
  LET captured == IF me[p].flags THEN Flush(State(p), paused, beat) ELSE Reset(State(p), FALSE)
      heard == IF hears THEN Receive(captured, q, Head(queue[q][p])) ELSE captured
      done == IF runs THEN Execute(heard, p, moves) ELSE heard
      rest == [a \in Players |-> IF hears /\ a = q THEN Tail(queue[a][p]) ELSE queue[a][p]]
  IN /\ (hears => queue[q][p] # <<>>) /\ (paused \/ runs) /\ (moves = {} \/ runs)
     /\ \A k \in moves : SceneOf[k] = world[p].room
     /\ (~paused /\ ~beat /\ UNCHANGED events) \/ ((paused # beat) /\ More)
     /\ Finish(p, done, rest)
     /\ quiet' = [quiet EXCEPT ![p] = IF paused \/ @ = 2 THEN @ ELSE @ + 1]

\* Link steps on or off a plate of the room.
Step(p, k) ==
  /\ SceneOf[k] = world[p].room /\ More
  /\ world' = [world EXCEPT ![p].feet = IF k \in @ THEN @ \ {k} ELSE @ \cup {k}]
  /\ quiet' = [quiet EXCEPT ![p] = 0] /\ acted' = {}
  /\ UNCHANGED <<me, queue, mine>>

\* The game changes the room; plates are created from the saved flags.
Warp(p, room) ==
  /\ room # world[p].room /\ More
  /\ world' = [world EXCEPT ![p].room = room, ![p].feet = {},
                 ![p].pos = [k \in Plates |-> IF k \in world[p].flag THEN "down" ELSE "up"]]
  /\ quiet' = [quiet EXCEPT ![p] = 0] /\ mine' = [mine EXCEPT ![p] = {}] /\ acted' = {}
  /\ UNCHANGED <<me, queue>>

\* The room's setting for shared flags reaches this player.
ToggleFlags(p) ==
  /\ More
  /\ me' = [me EXCEPT ![p].flags = ~@]
  /\ quiet' = [quiet EXCEPT ![p] = 0] /\ acted' = {}
  /\ UNCHANGED <<world, queue, mine>>

\* The player's session ends and it joins again under a new identity; what was
\* under way is delivered or lost.
Rejoin(p, lost) ==
  /\ More
  /\ me' = [me EXCEPT ![p] = Reset(State(p), TRUE).x]
  /\ mine' = [mine EXCEPT ![p] = Reset(State(p), TRUE).mine]
  /\ queue' = [a \in Players |-> [b \in Players |->
                 IF b = p THEN <<>>
                 ELSE IF a = p THEN Append(IF lost THEN <<>> ELSE queue[a][b], [type |-> "left"])
                 ELSE queue[a][b]]]
  /\ quiet' = [quiet EXCEPT ![p] = 0] /\ acted' = {}
  /\ UNCHANGED world

\* Nothing was heard from q for two seconds.
Expire(p, q) ==
  /\ me[p].ledger[q].fresh /\ me[p].ledger[q].contacts # {} /\ More
  /\ me' = [me EXCEPT ![p].ledger[q].fresh = FALSE]
  /\ acted' = {}
  /\ UNCHANGED <<world, queue, quiet, mine>>

Next == \/ \E p \in Players, hears, paused, runs, beat \in BOOLEAN, moves \in SUBSET Plates :
             \E q \in Others(p) : Frame(p, q, hears, paused, runs, beat, moves)
        \/ \E p \in Players, k \in Plates : Step(p, k)
        \/ \E p \in Players, room \in Scenes \cup {None} : Warp(p, room)
        \/ \E p \in Players : ToggleFlags(p)
        \/ \E p \in Players, lost \in BOOLEAN : Rejoin(p, lost)
        \/ \E p \in Players : \E q \in Others(p) : Expire(p, q)

Spec == Init /\ [][Next]_vars

-----------------------------------------------------------------------------
\* The bridges and the games keep their types.
TypeOK ==
  /\ \A p \in Players :
       /\ me[p].scene \in Scenes \cup {None} /\ me[p].retScene \in Scenes \cup {None}
       /\ me[p].sampled.on \subseteq me[p].sampled.ran
       /\ UNION {me[p].sampled.ran, me[p].local, me[p].sent, me[p].origin, me[p].completed,
                 me[p].retOrigin} \subseteq Plates
       /\ me[p].completed \subseteq Latches /\ me[p].seq \in Nat
       /\ me[p].need \in BOOLEAN /\ me[p].flags \in BOOLEAN
       /\ world[p].room \in Scenes \cup {None} /\ world[p].flag \subseteq Latches
       /\ world[p].feet \subseteq {k \in Plates : SceneOf[k] = world[p].room}
       /\ \A k \in Plates : world[p].pos[k] \in {"up", "moving", "down"}
  /\ events \in 0 .. MaxEvents

Drained(p, q) == queue[p][q] = <<>>

\* What a player holds a plate down with is what the other last said: when the
\* stream is empty no contact is left of a scene or a session that the other
\* has gone from.
PressureIsCurrent ==
  \A p \in Players : \A q \in Others(p) :
    Drained(p, q) /\ me[q].ledger[p].contacts # {} =>
      /\ me[q].ledger[p].contacts \subseteq me[p].sent
      /\ me[q].ledger[p].scene = me[p].scene

\* Once nobody stands on a plate and everybody has run two frames and read all
\* messages, nobody is told of a pressed plate: two players never hold a plate
\* down for each other with pressure that each took for the other's.
NobodyHolds ==
  (\A p \in Players : world[p].feet = {} /\ quiet[p] = 2 /\ \A q \in Others(p) : Drained(p, q))
    => \A p, q \in Players : me[p].sent = {} /\ me[q].ledger[p].contacts = {}

\* A packet under way from a player is newer than what its receiver has of that
\* player: the numbers start again only together with the receiver's memory.
NeverStale ==
  \A p \in Players : \A q \in Others(p) : \A i \in DOMAIN queue[p][q] :
    (queue[p][q][i].type = "state" /\ \A j \in 1 .. i - 1 : queue[p][q][j].type # "left")
      => queue[p][q][i].seq > me[q].ledger[p].seq

\* A plate that others press, or that others pressed and is still coming up,
\* orders no demo here and is not published from here, also after sharing was
\* switched off, unless a second retirement replaced its guard.
OnlyTheRiderActs == \A a \in acted : a[2] \in mine[a[1]] \cup world[a[1]].feet

\* The players share a plate's pressure, and nothing else: it does not hold
\* itself, and only those who stand on the plate act.
PlatesAreShared == TypeOK /\ NobodyHolds /\ OnlyTheRiderActs
============================================================================
