------------------------------ MODULE RelayServer ------------------------------
(***************************************************************************)
(* The relay as a server of lobbies (relay.cpp): connections and their      *)
(* deadlines, the two steps of joining, lobbies that come and go with their *)
(* members, the queues of what is still to be sent, the routes between      *)
(* members and the realtime datagrams, together with the clients that join, *)
(* lose their connection, come back and recreate a lobby that is gone       *)
(* (transport.cpp).  A change of settings inside one lobby is               *)
(* SettingsBarrier; here nobody asks for one.                               *)
(*                                                                         *)
(* The relay is one thread that runs through ticks: it takes connections    *)
(* and datagrams in, visits every client once (reads, answers, flushes) and *)
(* removes those that are to go.  It visits them in the order of their       *)
(* identifiers, which are random: the model numbers connections as they     *)
(* come, and a scenario says in which direction the numbers are visited.    *)
(* What is between a flush and the client's reading counts as not flushed.  *)
(***************************************************************************)
EXTENDS Naturals, Sequences, FiniteSets, TLC, SequencesExt

CONSTANTS
  Players, Supporting,   \* players, and those that can use semantic poses
  Scenarios,             \* who goes where, and the bounds of a behaviour
  Nowhere,               \* no lobby
  MaxClients,            \* connections the relay keeps (FD_SETSIZE - 2)
  MaxRoomClients,        \* members of a lobby (8)
  QueueLimit,            \* what may wait for one client (kMaxQueuedBytes)
  SeenLimit              \* kMaxReliableSequences

\* A scenario gives every player a lobby and a code, names those that create
\* theirs, and bounds what may happen.
Bounds == {"connections", "losses", "restarts", "sends", "datagrams"}
RelayServerAssumption ==
  /\ \A s \in Scenarios :
       /\ DOMAIN s.lobby = Players /\ DOMAIN s.code = Players /\ s.creators \cup s.playing \subseteq Players
       /\ s.rising \in BOOLEAN /\ s.bound \in [Bounds -> Nat]
       /\ Nowhere \notin Range(s.lobby)
  /\ Supporting \subseteq Players
  /\ {MaxClients, MaxRoomClients, QueueLimit, SeenLimit} \subseteq Nat \ {0}

VARIABLES
  setup,                   \* the scenario
  visiting, todo, gone,    \* the tick: whether it is visiting, whom it has to visit, whom to remove
  client,                  \* mClients: connection -> Client
  room,                    \* mRooms: lobby -> Room
  salts,                   \* salts drawn so far
  player,                  \* the clients' ends
  heard,                   \* history: <<from, to>> of realtime datagrams, of live connections
  late,                    \* history: clients that got something after a message was dropped
  used                     \* how much of each bound is used

vars == <<setup, visiting, todo, gone, client, room, salts, player, heard, late, used>>
tickVars == <<setup, visiting, todo, gone>>

NoConn == 0
Conns == 1 .. setup.bound["connections"]
Stages == {"", "field", "castle"}
Spend(b) == used[b] < setup.bound[b] /\ used' = [used EXCEPT ![b] = @ + 1]
First(S) == CHOOSE c \in S : \A d \in S : IF setup.rising THEN c <= d ELSE c >= d

\* Room: the salt and code of its proof key, its members in the order they
\* came, its owner.
Members(l) == IF l \in DOMAIN room THEN Range(room[l].ids) ELSE {}
AllSupport(k, S) == S # {} /\ \A c \in S : k[c].by \in Supporting

\* Client, with the player behind it, and whether a message for it was dropped.
NewClient(p) ==
  [by |-> p, room |-> Nowhere, pending |-> Nowhere, create |-> FALSE, salt |-> 0, tx |-> <<>>,
   seen |-> <<>>, lost |-> FALSE, stage |-> "", wants |-> {"puppet"}, known |-> 0, closing |-> FALSE, dropped |-> FALSE]

\* A player: "off", "down" while it means to come back, "wait" for an answer, or
\* "in".  up is what it has sent and the relay not read, at its UDP port.
NewPlayer(p) ==
  [st |-> IF p \in setup.playing THEN "down" ELSE "off", conn |-> NoConn, up |-> "", salt |-> 0,
   create |-> p \in setup.creators, may |-> FALSE, established |-> FALSE,
   peers |-> {}, owner |-> NoConn, ready |-> FALSE, udp |-> FALSE, port |-> 1]

Linked(p) == player[p].st \in {"wait", "in"} /\ player[p].conn \in DOMAIN client
Reaches(c) == Linked(client[c].by) /\ player[client[c].by].conn = c

Init ==
  /\ setup \in Scenarios
  /\ visiting = FALSE /\ todo = {} /\ gone = {}
  /\ client = <<>> /\ room = <<>> /\ salts = 0
  /\ player = [p \in Players |-> NewPlayer(p)]
  /\ heard = {} /\ late = {} /\ used = [b \in Bounds |-> 0]

-----------------------------------------------------------------------------
\* Sending.

Size(m) == IF m.type = "large" THEN 2 ELSE 1
Load(tx) == FoldLeft(LAMBDA sum, m : sum + Size(m), 0, tx)

\* send_json: a message that does not fit is dropped, and its client with it.
Told(x, m) ==
  IF Load(x.tx) + Size(m) > QueueLimit THEN [x EXCEPT !.lost = TRUE, !.dropped = TRUE]
  ELSE [x EXCEPT !.tx = Append(@, [late |-> x.lost] @@ m)]

Error(x, why) == Told(x, [type |-> "error", why |-> why])

\* reject_and_close
Rejected(x, why) ==
  LET y == Error(x, why) IN [y EXCEPT !.closing = TRUE, !.dropped = @ \/ y.tx = <<>>]

\* broadcast to the members S, and send_to_client
Broadcast(k, S, m) ==
  [c \in DOMAIN k |-> IF c \in S /\ ~k[c].closing THEN Told(k[c], m) ELSE k[c]]
Reachable(c, t) == t \in Members(client[c].room) /\ ~client[t].closing
SendTo(t, m) == Broadcast(client, {t}, m)

-----------------------------------------------------------------------------
\* The client's end.

\* fail: a session that was established is taken up again, unless the answer
\* that ended it says no.
Failed(x, allowed) ==
  [x EXCEPT !.st = IF x.established /\ allowed THEN "down" ELSE "off", !.up = "",
            !.peers = {}, !.owner = NoConn, !.ready = FALSE, !.udp = FALSE]

\* handle_primary_message
Handle(x, m) ==
  LET recreate == m.type = "error" /\ m.why = "lobby_not_found" /\ x.may
  IN IF x.st \notin {"wait", "in"} THEN x
     ELSE CASE m.type = "auth_challenge" -> [x EXCEPT !.salt = m.salt, !.up = "hello"]
            [] m.type = "welcome" ->
                 [x EXCEPT !.st = "in", !.established = TRUE, !.may = @ \/ x.create, !.create = FALSE,
                           !.peers = m.peers, !.owner = m.owner, !.ready = m.ready]
            [] m.type = "peer_joined" -> [x EXCEPT !.peers = @ \cup {m.id}, !.ready = m.ready]
            [] m.type = "peer_left" -> [x EXCEPT !.peers = @ \ {m.id}, !.ready = m.ready]
            [] m.type = "owner_changed" -> [x EXCEPT !.owner = m.id]
            [] m.type = "udp_ready" -> [x EXCEPT !.udp = TRUE]
            [] m.type = "kicked" -> Failed(x, FALSE)
            [] m.type = "error" /\ x.st = "wait" -> [Failed(x, recreate) EXCEPT !.create = recreate]
            [] OTHER -> x

Hearing(p, tx) == FoldLeft(Handle, player[p], tx)

\* begin_connect and update_connecting at the client, accept_client at the relay.
Accept(p) ==
  LET c == used["connections"] + 1
      x == [player[p] EXCEPT !.st = "wait", !.conn = c, !.up = "auth_begin", !.salt = 0, !.port = 1]
  IN /\ ~visiting /\ player[p].st = "down" /\ Spend("connections")
     /\ \/ /\ Cardinality(DOMAIN client) < MaxClients
           /\ client' = (c :> NewClient(p)) @@ client
           /\ player' = [player EXCEPT ![p] = x]
        \/ /\ Cardinality(DOMAIN client) >= MaxClients
           /\ player' = [player EXCEPT ![p] = Failed(x, TRUE)]
           /\ UNCHANGED client
     /\ UNCHANGED <<tickVars, room, salts, heard, late>>

\* The connection breaks or its other end has closed it: pump_primary.
Loses(p) ==
  /\ player[p].st \in {"wait", "in"}
  /\ IF Linked(p) THEN Spend("losses") ELSE UNCHANGED used
  /\ player' = [player EXCEPT ![p] = Failed(@, TRUE)]
  /\ UNCHANGED <<tickVars, client, room, salts, heard, late>>

\* No challenge for 12 seconds.
TimesOut(p) ==
  /\ player[p].st = "wait" /\ player[p].salt = 0 /\ Spend("losses")
  /\ player' = [player EXCEPT ![p] = Failed(@, FALSE)]
  /\ UNCHANGED <<tickVars, client, room, salts, heard, late>>

-----------------------------------------------------------------------------
\* A tick.

\* A broken relay goes on flushing a client that has lost a message.
VisitsAll(k, left, going) == todo' = left /\ gone' = going

\* The visits begin, or go on with those that are left: a client that has lost a
\* message is not flushed again.
Visits(k, left, going) ==
  LET live == {c \in left : ~k[c].dropped}
      rest == {c \in left : live # {} /\ First({c, First(live)}) = First(live)}
  IN todo' = rest /\ gone' = going \cup (left \ rest)

BeginVisits ==
  /\ ~visiting /\ client # <<>> /\ visiting' = TRUE
  /\ Visits(client, DOMAIN client, {})
  /\ UNCHANGED <<setup, client, room, salts, player, heard, late, used>>

Turn == First(todo)

\* read_from_client finds the connection closed.
ReadFails ==
  /\ todo # {} /\ ~client[Turn].closing /\ ~client[Turn].dropped
  /\ IF Reaches(Turn) THEN Spend("losses") ELSE UNCHANGED used
  /\ Visits(client, todo \ {Turn}, gone \cup {Turn})
  /\ UNCHANGED <<setup, visiting, client, room, salts, player, heard, late>>

\* flush_client, and the end of the visit: a client that is being closed goes
\* once it has acknowledged everything (drained), one whose connection is gone
\* when that is noticed.
Flush ==
  /\ todo # {}
  /\ LET c == Turn  p == client[c].by  k == [client EXCEPT ![c].tx = <<>>]
     IN /\ client' = k
        /\ IF Reaches(c)
           THEN /\ player' = [player EXCEPT ![p] = Hearing(p, client[c].tx)]
                /\ late' = IF \E m \in Range(client[c].tx) : m.late THEN late \cup {p} ELSE late
           ELSE UNCHANGED <<player, late>>
        /\ \/ Visits(k, todo \ {c}, gone)
           \/ (client[c].closing \/ ~Reaches(c)) /\ Visits(k, todo \ {c}, gone \cup {c})
  /\ UNCHANGED <<setup, visiting, room, salts, heard, used>>

\* remove_client: the lobby goes with its last member, the owner's place to the
\* member that has been there longest.
RemoveClient(s, c) ==
  LET l == s.client[c].room
      k == Restrict(s.client, DOMAIN s.client \ {c})
      ids == SelectSeq(s.room[l].ids, LAMBDA d : d # c)
      owner == IF s.room[l].owner = c THEN Head(ids) ELSE s.room[l].owner
      told == Broadcast(k, Range(ids), [type |-> "peer_left", id |-> c,
                                        ready |-> AllSupport(k, Range(ids))])
  IN CASE l = Nowhere -> [s EXCEPT !.client = k]
       [] l # Nowhere /\ ids = <<>> -> [client |-> k, room |-> Restrict(s.room, DOMAIN s.room \ {l})]
       [] OTHER ->
            [client |-> IF owner = s.room[l].owner THEN told
                        ELSE Broadcast(told, Range(ids), [type |-> "owner_changed", id |-> owner]),
             room |-> [s.room EXCEPT ![l] = [@ EXCEPT !.ids = ids, !.owner = owner]]]

\* The end of a tick: the ten seconds for a hello, then the removals in order.
EndTick ==
  /\ visiting /\ todo = {}
  /\ \E idle \in {{}} \cup {{c} : c \in {c \in DOMAIN client : client[c].room = Nowhere
                                                             /\ ~client[c].closing}} :
       LET k == [c \in DOMAIN client |->
                   IF c \in idle THEN Rejected(client[c], "hello_timeout") ELSE client[c]]
           after == FoldLeft(RemoveClient, [client |-> k, room |-> room],
                             SetToSortSeq(gone, LAMBDA c, d : First({c, d}) = c))
       IN /\ IF idle = {} THEN UNCHANGED used ELSE Spend("losses")
          /\ client' = after.client /\ room' = after.room
  /\ heard' = {h \in heard : Range(h) \cap gone = {}}
  /\ visiting' = FALSE /\ gone' = {}
  /\ UNCHANGED <<setup, todo, salts, player, late>>

\* The relay stops and starts again.
Restart ==
  /\ Spend("restarts")
  /\ visiting' = FALSE /\ todo' = {} /\ gone' = {}
  /\ client' = <<>> /\ room' = <<>> /\ heard' = {}
  /\ UNCHANGED <<setup, salts, player, late>>

-----------------------------------------------------------------------------
\* route_message.  A message can be read of a client that is neither being
\* closed nor dropped; several in one visit.
Reads == todo # {} /\ Reaches(Turn) /\ ~client[Turn].closing /\ ~client[Turn].dropped
Sender == client[Turn].by
Answer(x) == client' = [client EXCEPT ![Turn] = x]
HasRead(p) == player' = [player EXCEPT ![p].up = ""]

\* The first step of joining: which lobby, and a challenge with the salt of the
\* lobby that is there or a new one.
AuthBegin ==
  LET x == client[Turn]  p == Sender  l == setup.lobby[p]
      known == l \in DOMAIN room
      salt == IF known THEN room[l].salt ELSE salts + 1
  IN /\ Reads /\ player[p].up = "auth_begin" /\ HasRead(p)
     /\ \/ /\ ~known /\ ~player[p].create
           /\ Answer(Rejected(x, "lobby_not_found")) /\ UNCHANGED salts
        \/ /\ known \/ player[p].create
           /\ salts' = (IF known THEN salts ELSE salt)
           /\ Answer(Told([x EXCEPT !.pending = l, !.create = player[p].create, !.salt = salt],
                          [type |-> "auth_challenge", salt |-> salt]))
     /\ UNCHANGED <<tickVars, room, heard, late, used>>

\* A proof is for a code and a salt.
Proves(p, salt, l) == player[p].salt = salt /\ setup.code[p] = room[l].code /\ salt = room[l].salt

\* The second step, for a lobby that may have come, gone or been replaced since
\* the first: why the client may not enter, or "".
Refusal(x, p) ==
  LET l == x.pending
  IN IF x.create /\ l \in DOMAIN room THEN "lobby_exists"
     ELSE IF ~x.create /\ l \notin DOMAIN room THEN "lobby_not_found"
     ELSE IF ~x.create /\ ~Proves(p, x.salt, l) THEN "bad_lobby_code"
     ELSE IF ~x.create /\ Len(room[l].ids) >= MaxRoomClients THEN "lobby_full"
     ELSE ""

Hello ==
  LET x == client[Turn]  p == Sender  l == x.pending  why == Refusal(x, p)
      old == Members(l)
      ids == IF l \in DOMAIN room THEN Append(room[l].ids, Turn) ELSE <<Turn>>
      made == [salt |-> x.salt, code |-> setup.code[p], ids |-> <<>>, owner |-> Turn]
      entered == [(IF l \in DOMAIN room THEN room[l] ELSE made) EXCEPT !.ids = ids]
      ready == AllSupport(client, Range(ids))
      welcomed == Told([x EXCEPT !.room = l], [type |-> "welcome", peers |-> old,
                                               owner |-> entered.owner, ready |-> ready])
  IN /\ Reads /\ player[p].up = "hello" /\ HasRead(p)
     /\ \/ why # "" /\ Answer(Error(x, why)) /\ UNCHANGED room
        \/ /\ why = ""
           /\ room' = (l :> entered) @@ room
           /\ client' = Broadcast([client EXCEPT ![Turn] = welcomed], old,
                                  [type |-> "peer_joined", id |-> Turn, ready |-> ready])
     /\ UNCHANGED <<tickVars, salts, heard, late, used>>

\* A member's messages.
Member == Reads /\ client[Turn].room # Nowhere /\ player[Sender].st = "in"
Others == Members(client[Turn].room) \ {Turn}

\* pose, and every gameplay message without a target
RouteToAll(size) ==
  /\ Member /\ Spend("sends")
  /\ client' = Broadcast(client, Others, [type |-> size])
  /\ UNCHANGED <<tickVars, room, salts, player, heard, late>>

\* reliable: a repeated number is dropped, within what is remembered.
RouteReliable(number) ==
  LET x == client[Turn]
      seen == Append(x.seen, number)
      kept == IF Len(seen) > SeenLimit THEN Tail(seen) ELSE seen
      routed == Broadcast(client, Others, [type |-> "reliable", from |-> Turn, number |-> number])
  IN /\ Member /\ Spend("sends")
     /\ \/ number \in Range(x.seen) /\ UNCHANGED client
        \/ /\ number \notin Range(x.seen)
           /\ client' = [routed EXCEPT ![Turn] = Told([x EXCEPT !.seen = kept], [type |-> "ack"])]
     /\ UNCHANGED <<tickVars, room, salts, player, heard, late>>

\* Messages for one member: what a request cannot reach is answered, what a
\* receipt or a signal cannot reach, or a signal beyond its budget, is not; a
\* delivery that names somebody who is no member costs its sender the connection.
RouteToOne(t, size, kind) ==
  LET reached == Reachable(Turn, t)
  IN /\ Member /\ Spend("sends") /\ t # Turn
     /\ \/ reached /\ client' = SendTo(t, [type |-> size])
        \/ ~reached /\ kind = "request" /\ Answer(Error(client[Turn], "unknown_target"))
        \/ /\ kind = "delivery" /\ t \notin Members(client[Turn].room)
           /\ Answer(Rejected(client[Turn], "invalid_peer_delivery"))
        \/ /\ kind = "delivery" /\ t \in Members(client[Turn].room) /\ client[t].closing
           /\ UNCHANGED client
        \/ kind = "signal" /\ UNCHANGED client
        \/ kind = "receipt" /\ ~reached /\ UNCHANGED client
     /\ UNCHANGED <<tickVars, room, salts, player, heard, late>>

\* What a member says of itself: where it is, with peer_stage or with presence,
\* which is repeated to the others, and which of their poses it wants.
RouteAsOneself(x, repeated) ==
  /\ Member /\ Spend("sends")
  /\ client' = Broadcast([client EXCEPT ![Turn] = x], IF repeated THEN Others ELSE {},
                         [type |-> "small"])
  /\ UNCHANGED <<tickVars, room, salts, player, heard, late>>

RouteStage(stage, repeated) == todo # {} /\ RouteAsOneself([client[Turn] EXCEPT !.stage = stage], repeated)
RoutePreference(wants) == todo # {} /\ RouteAsOneself([client[Turn] EXCEPT !.wants = wants], TRUE)

RouteKick(t) ==
  LET y == Told(client[t], [type |-> "kicked"])
  IN /\ Member /\ Spend("sends")
     /\ \/ /\ room[client[Turn].room].owner = Turn /\ t \in Others /\ ~client[t].closing
           /\ client' = [client EXCEPT ![t] = [y EXCEPT !.closing = ~y.dropped]]
        \/ /\ room[client[Turn].room].owner = Turn /\ ~(t \in Others /\ ~client[t].closing)
           /\ t # Turn /\ Answer(Error(client[Turn], "unknown_target"))
        \/ room[client[Turn].room].owner # Turn /\ Answer(Error(client[Turn], "owner_only"))
     /\ UNCHANGED <<tickVars, room, salts, player, heard, late>>

-----------------------------------------------------------------------------
\* Realtime datagrams, of a client that the relay knows under its connection.
Datagram(p) ==
  LET c == player[p].conn
  IN /\ ~visiting /\ player[p].st = "in" /\ Linked(p)
     /\ client[c].room # Nowhere /\ ~client[c].closing

\* kUdpPacketTypeRelayRegister, with the token of the welcome.
Register(p) ==
  LET c == player[p].conn
      x == [client[c] EXCEPT !.known = player[p].port]
  IN /\ Datagram(p) /\ client[c].known # player[p].port
     /\ client' = [client EXCEPT ![c] = IF client[c].known = 0 THEN Told(x, [type |-> "udp_ready"]) ELSE x]
     /\ UNCHANGED <<tickVars, room, salts, player, heard, late, used>>

\* The port a network translator shows of a client changes.
Rebind(p) ==
  /\ player[p].st = "in" /\ player[p].port = 1 /\ Spend("losses")
  /\ player' = [player EXCEPT ![p].port = 2]
  /\ UNCHANGED <<tickVars, client, room, salts, heard, late>>

Poses == {"pose", "semantic", "midna"}
Kinds == Poses \cup {"voice", "ack"}

\* What a member is spared: a pose it does not want, one of another stage, a
\* semantic pose it cannot use.
Wanted(from, to, kind) ==
  /\ kind \in Poses => "puppet" \in client[to].wants
  /\ kind = "midna" => "midna" \in client[to].wants
  /\ kind \in Poses /\ client[from].stage # "" /\ client[to].stage # ""
     => client[from].stage = client[to].stage
  /\ kind = "semantic" => client[to].by \in Supporting

Arrives(t) == Reaches(t) /\ client[t].known = player[client[t].by].port

\* To every member, or a pose's acknowledgement to its sender.
ForwardToAll(p, kind, t) ==
  LET c == player[p].conn
      to == {d \in Members(client[c].room) \ {c} : IF kind = "ack" THEN d = t ELSE Wanted(c, d, kind)}
  IN /\ Datagram(p) /\ client[c].known = player[p].port /\ Spend("datagrams")
     /\ kind # "ack" => t = NoConn
     /\ heard' = heard \cup {<<c, d>> : d \in {d \in to : Arrives(d)}}
     /\ UNCHANGED <<tickVars, client, room, salts, player, late>>

\* route_peer_datagram: one of the envelopes for a peer, or of a group of them.
ForwardToPeer(p, kind, t) ==
  LET c == player[p].conn
  IN /\ Datagram(p) /\ client[c].known = player[p].port /\ Spend("datagrams")
     /\ kind # "midna" /\ t \in DOMAIN client \ {c} /\ ~client[t].closing /\ client[t].room = client[c].room
     /\ Wanted(c, t, kind)
     /\ heard' = IF Arrives(t) THEN heard \cup {<<c, t>>} ELSE heard
     /\ UNCHANGED <<tickVars, client, room, salts, player, late>>

Next ==
  \/ \E p \in Players : Accept(p) \/ Loses(p) \/ TimesOut(p) \/ Register(p) \/ Rebind(p)
  \/ \E p \in Players : \E kind \in Kinds :
       \/ \E t \in Conns : ForwardToPeer(p, kind, t)
       \/ \E t \in Conns \cup {NoConn} : ForwardToAll(p, kind, t)
  \/ BeginVisits \/ ReadFails \/ Flush \/ EndTick
  \/ Restart
  \/ AuthBegin \/ Hello
  \/ \E size \in {"small", "large"} :
       \/ RouteToAll(size)
       \/ \E t \in Conns : \E kind \in {"request", "delivery", "receipt", "signal"} : RouteToOne(t, size, kind)
  \/ \E number \in 1 .. 2 : RouteReliable(number)
  \/ \E stage \in Stages \ {""} : \E repeated \in BOOLEAN : RouteStage(stage, repeated)
  \/ \E wants \in SUBSET {"puppet", "midna"} : RoutePreference(wants)
  \/ \E t \in Conns : RouteKick(t)

Spec == Init /\ [][Next]_vars

-----------------------------------------------------------------------------
\* The variables keep their shapes, and every bounded structure its bound.
TypeOK ==
  /\ todo \cup gone \subseteq DOMAIN client /\ DOMAIN client \subseteq Conns
  /\ todo # {} => visiting
  /\ Cardinality(DOMAIN client) <= MaxClients
  /\ \A c \in DOMAIN client : Load(client[c].tx) <= QueueLimit /\ Len(client[c].seen) <= SeenLimit
  /\ \A l \in DOMAIN room : Len(room[l].ids) <= MaxRoomClients

\* A lobby is the clients that say they are in it: it never outlives its last
\* member, nobody is in it twice, and its owner is one of them.
RoomsAreTheirMembers ==
  \A l \in Range(setup.lobby) :
    /\ Members(l) = {c \in DOMAIN client : client[c].room = l}
    /\ l \in DOMAIN room => /\ Cardinality(Members(l)) = Len(room[l].ids)
                            /\ room[l].ids # <<>> /\ room[l].owner \in Members(l)

\* Two groups that use the same name never meet: whatever lobbies came and went
\* between a client's challenge and its hello, the members of one lobby hold
\* the same code, which they proved for the lobby's own salt.
OneCode ==
  \A l \in DOMAIN room : \A c \in Members(l) :
    client[c].salt = room[l].salt /\ setup.code[client[c].by] = room[l].code

\* What reaches a client is everything that was addressed to it, up to a point:
\* after a message that did not fit nothing else gets out, although there is
\* room again in the queue.
NothingAfterAGap == late = {}

\* A member that reads what is queued for it knows who is in the lobby, who owns
\* it, whether all can use semantic poses, and whether the relay knows its port.
MembersAreTold ==
  \A c \in DOMAIN client :
    LET x == client[c]  l == x.room  after == Hearing(x.by, x.tx)
    IN Reaches(c) /\ l # Nowhere /\ ~x.closing /\ ~x.dropped =>
         /\ after.st = "in" /\ after.peers = Members(l) \ {c} /\ after.owner = room[l].owner
         /\ after.ready = AllSupport(client, Members(l))
         /\ after.udp = (x.known # 0)

\* Realtime datagrams stay among members of one lobby that have been welcomed.
HeardInTheLobby ==
  \A h \in heard : /\ client[h[1]].room = client[h[2]].room /\ client[h[1]].room # Nowhere
                   /\ client[h[1]].known # 0 /\ client[h[2]].known # 0
=============================================================================
