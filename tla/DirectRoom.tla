----------------------------- MODULE DirectRoom -----------------------------
(***************************************************************************)
(* A direct lobby: one host, guests that join it, lose it, are removed     *)
(* from it and reconnect, the settings and the roster the host spreads,    *)
(* and the speedrun start the host agrees with its guests on.              *)
(*                                                                         *)
(* A connection is one incarnation of a guest's UDP connection; the host   *)
(* numbers its peers in the order it accepts them, so the connection is    *)
(* also the peer id.  Reliable frames travel in order while both ends are  *)
(* open.  A close is a datagram of its own: it may overtake frames that    *)
(* the other end has not received, except that the host closes a removed   *)
(* guest only when every frame has been acknowledged ("drained").          *)
(*                                                                         *)
(* One action of a guest is a frame of OnlineApp::update: an optional chat *)
(* line, the transport's tick with every frame received so far, and the    *)
(* event loop.  The host handles one received frame in a frame of its own. *)
(***************************************************************************)
EXTENDS Naturals, Sequences, FiniteSets, SequencesExt

CONSTANTS Guests,      \* players that may join the host
          Supporting,  \* the guests whose build knows snapshot deltas
          MaxConns,    \* bound: connections opened in a behaviour
          MaxRuns,     \* bound: speedrun requests
          MaxEvents    \* bound: user actions and faults

DirectRoomAssumption ==
  /\ Supporting \subseteq Guests
  /\ MaxConns \in Nat /\ MaxRuns \in Nat /\ MaxEvents \in Nat

Conns == 1 .. MaxConns
NoConn == 0

VARIABLES host,     \* the host's transport and application
          link,     \* the connections
          guest,    \* each guest's transport
          app,      \* each guest's application
          consent,  \* <<request, connection>>: the player held the button
          vain,     \* guests with a send that failed outside the tick
          events    \* user actions and faults so far

vars == <<host, link, guest, app, consent, vain, events>>

NoRun == [id |-> 0, phase |-> "none", parts |-> {}, waiting |-> {}, readyPeers |-> {},
          saves |-> FALSE, player |-> FALSE, sent |-> FALSE]
NoGuestRun == [id |-> 0, phase |-> "none", saves |-> FALSE, player |-> FALSE]

Unused == [guest |-> NoConn, up |-> <<>>, down |-> <<>>,
           hostEnd |-> "none", guestEnd |-> "none"]

NewHost == [open |-> TRUE, peer |-> [c \in Conns |-> "none"],
            collision |-> TRUE, pvp |-> FALSE, ready |-> FALSE, run |-> NoRun]

NewGuest == [state |-> "off", auto |-> TRUE, established |-> FALSE, conn |-> NoConn,
             hello |-> FALSE, welcomed |-> FALSE, current |-> TRUE,
             collision |-> TRUE, pvp |-> FALSE, ready |-> FALSE, names |-> {}]

NewApp == [roster |-> {}, session |-> NoConn, run |-> NoGuestRun, started |-> {}]

Init == /\ host = [requests |-> 0, party |-> <<>>, started |-> {}, room |-> NewHost]
        /\ link = [c \in Conns |-> Unused]
        /\ guest = [g \in Guests |-> NewGuest]
        /\ app = [g \in Guests |-> NewApp]
        /\ consent = {} /\ vain = {} /\ events = 0

\* Frames that no end will read are dropped with the end that would read them.
Pruned(l) == [c \in Conns |->
  [l[c] EXCEPT !.up = IF l[c].hostEnd \in {"closed", "drained"} THEN <<>> ELSE @,
               !.down = IF l[c].guestEnd = "closed" THEN <<>> ELSE @]]

More == events < MaxEvents /\ events' = events + 1
Same == UNCHANGED events

-----------------------------------------------------------------------------
\* The host.  A state s is [room, link]; Finish writes it back.

Here == [room |-> host.room, link |-> link]
Welcomed(r) == {c \in Conns : r.peer[c] = "welcomed"}
Names(r) == {c \in Conns : r.peer[c] \in {"welcomed", "kicked"}}

SendTo(s, c, m) == [s EXCEPT !.link[c].down = Append(@, m)]

\* broadcast: to every welcomed peer that is not being removed.
Broadcast(s, m, except) ==
  [s EXCEPT !.link = [c \in Conns |->
     IF c \in Welcomed(s.room) \ except THEN [s.link[c] EXCEPT !.down = Append(@, m)]
     ELSE s.link[c]]]

\* direct_snapshot_deltas_ready, which is false in an empty lobby.
DeltasReady(s) == /\ Names(s.room) # {}
                  /\ \A c \in Welcomed(s.room) : s.link[c].guest \in Supporting

RunMessage(type, id) == [type |-> type, id |-> id]

CancelRun(s) ==
  [Broadcast(s, RunMessage("cancel", s.room.run.id), {}) EXCEPT !.room.run = NoRun]

\* remove_peer and the application's handling of the departure.
RemovePeer(s, c, end) ==
  LET gone == [s EXCEPT !.room.peer[c] = "removed", !.link[c].hostEnd = end]
      told == [gone EXCEPT !.room.ready = DeltasReady(gone)]
      left == Broadcast(told, [type |-> "left", peer |-> c, ready |-> told.room.ready], {})
  IN IF left.room.run.id # 0 /\ c \in left.room.run.parts THEN CancelRun(left) ELSE left

\* welcome_direct_peer, the announcement, and the application's PeerJoined.
WelcomePeer(s, c) ==
  LET in == [s EXCEPT !.room.peer[c] = "welcomed"]
      r == [in EXCEPT !.room.ready = DeltasReady(in)]
      welcome == [type |-> "welcome", collision |-> r.room.collision, pvp |-> r.room.pvp,
                  ready |-> r.room.ready, peers |-> Welcomed(s.room)]
      joined == Broadcast(SendTo(r, c, welcome),
                          [type |-> "joined", peer |-> c, ready |-> r.room.ready], {c})
  IN IF joined.room.run.id # 0 THEN CancelRun(joined) ELSE joined

OnHello(s, c, m) ==
  IF s.room.peer[c] # "accepted" \/ ~m.current
  THEN [SendTo(s, c, [type |-> "error"]) EXCEPT !.room.peer[c] = "rejected"]
  ELSE WelcomePeer(s, c)

TotalOfGuests(run) == Cardinality(run.parts)
Total(run) == Cardinality(run.parts) + 1
Count(run) == Cardinality(run.readyPeers) + (IF run.player THEN 1 ELSE 0)

\* begin_speedrun_ready.
BeginReady(s) ==
  IF s.room.run.phase = "checking" /\ s.room.run.saves /\ s.room.run.waiting = {}
  THEN [Broadcast(s, RunMessage("prompt", s.room.run.id), {}) EXCEPT !.room.run.phase = "waiting"]
  ELSE s

\* begin_speedrun_countdown.
BeginCountdown(s) ==
  IF s.room.run.phase = "waiting" /\ Count(s.room.run) = Total(s.room.run)
  THEN [Broadcast(s, RunMessage("countdown", s.room.run.id), {})
          EXCEPT !.room.run.phase = "countdown"]
  ELSE s

\* handle_speedrun_message at the host.
OnReady(s, c, m) ==
  IF m.id # s.room.run.id \/ c \notin s.room.run.waiting THEN s
  ELSE IF ~m.yes THEN CancelRun(s)
  ELSE BeginReady([s EXCEPT !.room.run.waiting = @ \ {c}])

OnPlayerReady(s, c, m) ==
  IF m.id # s.room.run.id \/ s.room.run.phase # "waiting" \/ c \notin s.room.run.parts THEN s
  ELSE IF ~m.yes THEN CancelRun(s)
  ELSE IF c \in s.room.run.readyPeers THEN s
  ELSE BeginCountdown([s EXCEPT !.room.run.readyPeers = @ \cup {c}])

\* handle_direct_message.  A chat line is kept by the host, then forwarded.
Handle(s, c, m) ==
  CASE m.type = "hello" -> OnHello(s, c, m)
    [] m.type # "hello" /\ s.room.peer[c] # "welcomed" -> s
    [] m.type = "chat" /\ s.room.peer[c] = "welcomed" ->
         Broadcast(s, [type |-> "chat", peer |-> c], {c})
    [] m.type = "ready" /\ s.room.peer[c] = "welcomed" -> OnReady(s, c, m)
    [] m.type = "playerReady" /\ s.room.peer[c] = "welcomed" -> OnPlayerReady(s, c, m)

Finish(s) == /\ host' = [host EXCEPT !.room = s.room]
             /\ link' = Pruned(s.link)
             /\ UNCHANGED <<guest, app, consent, vain>>

\* accept_peers: number the connection and challenge it.
HostAccept(c) ==
  /\ host.room.open /\ link[c].hostEnd = "new" /\ link[c].guestEnd = "open" /\ Same
  /\ Finish(SendTo([Here EXCEPT !.room.peer[c] = "accepted", !.link[c].hostEnd = "open"],
                   c, [type |-> "challenge"]))

\* pump_direct_peers reads one frame; a peer being removed is not read.
HostReceive(c) ==
  /\ link[c].hostEnd = "open" /\ link[c].up # <<>>
  /\ host.room.peer[c] \in {"accepted", "welcomed"}
  /\ Finish(Handle([Here EXCEPT !.link[c].up = Tail(@)], c, Head(link[c].up)))
  /\ Same

\* The guest's close arrives, perhaps before frames it sent.
HostLoses(c) ==
  /\ link[c].hostEnd = "open" /\ link[c].guestEnd = "closed" /\ Same
  /\ Finish(RemovePeer(Here, c, "closed"))

\* Silence for 15 seconds, or no valid hello within 10.
HostGivesUp(c) ==
  /\ link[c].hostEnd = "open" /\ link[c].guestEnd = "open" /\ More
  /\ Finish(RemovePeer(Here, c, "closed"))

\* kick_peer queues the notice; the peer is revoked at once.
HostKick(c) ==
  /\ host.room.peer[c] = "welcomed" /\ More
  /\ Finish([SendTo(Here, c, [type |-> "kicked"]) EXCEPT !.room.peer[c] = "kicked"])

\* Every frame of a peer being removed is acknowledged: close it.
HostDrains(c) ==
  /\ host.room.peer[c] \in {"kicked", "rejected"}
  /\ link[c].hostEnd = "open" /\ link[c].guestEnd = "open" /\ Same
  /\ Finish(RemovePeer(Here, c, "drained"))

\* publish_room_settings: one message for each flag that changed.
Publish(collision, pvp) ==
  LET both == pvp /\ collision
      changed == collision # host.room.collision
      s == [Here EXCEPT !.room.collision = collision, !.room.pvp = both]
      one == IF changed THEN Broadcast(s, [type |-> "collision", on |-> collision], {}) ELSE s
  IN /\ host.room.open /\ (changed \/ both # host.room.pvp) /\ More
     /\ Finish(IF changed \/ both # host.room.pvp
               THEN Broadcast(one, [type |-> "pvp", on |-> both], {}) ELSE one)

\* The host stops (for good), or its session fails and is opened again.
HostStop(again) ==
  /\ host.room.open /\ More
  /\ host' = [host EXCEPT !.room =
                [@ EXCEPT !.open = again, !.run = NoRun, !.ready = FALSE,
                          !.peer = [c \in Conns |-> IF @[c] = "none" THEN "none" ELSE "removed"]]]
  /\ link' = Pruned([c \in Conns |-> IF link[c].hostEnd = "open"
                                     THEN [link[c] EXCEPT !.hostEnd = "closed"] ELSE link[c]])
  /\ UNCHANGED <<guest, app, consent, vain>>

-----------------------------------------------------------------------------
\* The speedrun request at the host.

\* start_speedrun_pressed: every known peer must be reachable.
StartRun ==
  /\ host.room.open /\ host.room.run.id = 0 /\ host.requests < MaxRuns /\ More
  /\ Names(host.room) = Welcomed(host.room)
  /\ host' = [host EXCEPT !.requests = @ + 1, !.party = Append(@, Names(host.room)),
                !.room.run = [NoRun EXCEPT !.id = host.requests + 1, !.phase = "checking",
                                           !.parts = Names(host.room),
                                           !.waiting = Names(host.room)]]
  /\ UNCHANGED <<link, guest, app, consent, vain>>

\* tick_speedrun while checking: the save probe ends and the checks go out,
\* up to the first participant that can no longer be asked.
HostProbe(clear) ==
  LET run == host.room.run
      asked == {c \in run.parts : \A d \in run.parts : d <= c => d \in Welcomed(host.room)}
      sent == [Here EXCEPT !.room.run.saves = TRUE, !.room.run.sent = TRUE,
                 !.link = [c \in Conns |->
                    IF c \in asked
                    THEN [link[c] EXCEPT !.down = Append(@, RunMessage("check", run.id))]
                    ELSE link[c]]]
  IN /\ run.phase = "checking" /\ ~run.saves
     /\ Finish(IF ~clear THEN CancelRun(Here)
               ELSE IF asked # run.parts THEN CancelRun(sent) ELSE BeginReady(sent))
     /\ IF clear THEN Same ELSE More

\* The 10 second deadline, or a change of the game mode.
HostAbandon == /\ host.room.run.id # 0 /\ More
               /\ Finish(CancelRun(Here))

\* reset_speedrun_pressed.
HostReset ==
  /\ host.room.open /\ Names(host.room) = Welcomed(host.room) /\ More
  /\ Finish([Broadcast(Here, [type |-> "reset"], {}) EXCEPT !.room.run = NoRun])

\* The host's player holds the button.
HostReady ==
  /\ host.room.run.phase = "waiting" /\ ~host.room.run.player /\ Same
  /\ Finish(BeginCountdown([Here EXCEPT !.room.run.player = TRUE]))

\* commit_speedrun_start when the countdown has run out; can is whether the
\* host's game may start here.
CommitStart(can) ==
  LET run == host.room.run
  IN /\ run.phase = "countdown" /\ IF can THEN Same ELSE More
     /\ IF ~(/\ can /\ run.saves /\ run.player /\ run.waiting = {}
             /\ Count(run) = Total(run)
             /\ Cardinality(run.parts) = Cardinality(Names(host.room)))
        THEN Finish(CancelRun(Here))
        ELSE /\ link' = Broadcast(Here, RunMessage("start", run.id), {}).link
             /\ host' = [host EXCEPT !.started = @ \cup {run.id}, !.room.run = NoRun]
             /\ UNCHANGED <<guest, app, consent, vain>>

-----------------------------------------------------------------------------
\* A guest's transport.

\* fail: whether the session is tried again.
Failed(t, allow) ==
  LET again == t.established /\ t.auto /\ allow
  IN [t EXCEPT !.state = IF again THEN "waiting" ELSE "off", !.auto = again,
               !.hello = FALSE, !.welcomed = FALSE, !.ready = FALSE, !.names = {}]

\* reset_session and the rest of the Disconnected handler.
Disconnected(a) == [NewApp EXCEPT !.started = a.started]

\* handle_primary_message in DirectJoin mode.
OnKicked(t) == [t EXCEPT !.auto = FALSE]

Read(t, m) ==
  CASE m.type = "challenge" -> [t EXCEPT !.hello = TRUE]
    [] m.type = "welcome" -> [t EXCEPT !.welcomed = TRUE, !.established = TRUE,
                                !.collision = m.collision, !.pvp = m.pvp,
                                !.ready = m.ready, !.names = m.peers]
    [] m.type = "joined" -> [t EXCEPT !.names = @ \cup {m.peer}, !.ready = m.ready]
    [] m.type = "left" -> [t EXCEPT !.names = @ \ {m.peer}, !.ready = m.ready]
    [] m.type = "collision" -> [t EXCEPT !.collision = m.on, !.pvp = @ /\ m.on]
    [] m.type = "pvp" -> [t EXCEPT !.pvp = m.on /\ t.collision]
    [] m.type = "kicked" -> OnKicked(t)
    [] m.type = "error" -> [t EXCEPT !.auto = FALSE]
    [] OTHER -> t

\* handle_speedrun_message at a guest; can is whether its game may start here.
\* The result is the request it now follows.
RunAfter(run, m, can) ==
  CASE m.type = "check" -> [NoGuestRun EXCEPT !.id = m.id, !.phase = "checking"]
    [] m.type = "prompt" /\ m.id = run.id /\ run.phase = "checking" /\ run.saves ->
         IF can THEN [run EXCEPT !.phase = "waiting"] ELSE NoGuestRun
    [] m.type = "countdown" /\ m.id = run.id /\ run.phase = "waiting" /\ run.player ->
         [run EXCEPT !.phase = "countdown"]
    [] m.type = "cancel" /\ m.id = run.id -> NoGuestRun
    [] m.type = "start" /\ m.id = run.id /\ run.phase = "countdown" -> NoGuestRun
    [] m.type = "reset" -> NoGuestRun
    [] OTHER -> run

Starts(run, m) == m.type = "start" /\ m.id = run.id /\ run.phase = "countdown"
Declines(run, m, can) ==
  m.type = "prompt" /\ m.id = run.id /\ run.phase = "checking" /\ run.saves /\ ~can

\* The event loop's part of one message.
Applied(a, m, conn, can) ==
  [a EXCEPT !.roster = CASE m.type = "welcome" -> m.peers
                         [] m.type = "joined" -> @ \cup {m.peer}
                         [] m.type = "left" -> @ \ {m.peer}
                         [] OTHER -> @,
            !.session = IF m.type = "chat" /\ @ = NoConn THEN conn ELSE @,
            !.run = RunAfter(a.run, m, can),
            !.started = IF Starts(a.run, m) THEN @ \cup {m.id} ELSE @]

Answers(t, a, m, can) ==
  IF m.type = "challenge" THEN <<[type |-> "hello", current |-> t.current]>>
  ELSE IF Declines(a.run, m, can) THEN <<[type |-> "playerReady", id |-> m.id, yes |-> FALSE]>>
  ELSE <<>>

Step(x, m, can) == [t |-> Read(x.t, m),
                    a |-> Applied(x.a, m, x.t.conn, can),
                    up |-> x.up \o Answers(x.t, x.a, m, can)]

\* Join: start_direct_join by the user; the game holds nothing of a session.
Open(c, g) == [Unused EXCEPT !.guest = g, !.hostEnd = "new", !.guestEnd = "open"]
Free == {c \in Conns : link[c].guestEnd = "none"}
NextConn == CHOOSE c \in Free : \A d \in Free : c <= d

Join(g, current) ==
  /\ guest[g].state = "off" /\ Free # {} /\ IF current THEN Same ELSE More
  /\ guest' = [guest EXCEPT ![g] = [NewGuest EXCEPT !.state = "connecting",
                                      !.conn = NextConn, !.current = current]]
  /\ link' = [link EXCEPT ![NextConn] = Open(NextConn, g)]
  /\ app' = [app EXCEPT ![g] = Disconnected(@)]
  /\ vain' = vain \ {g}
  /\ UNCHANGED <<host, consent>>

\* begin_connect from the tick of a session that is to be tried again.  It
\* clears the event queue, a Disconnected that was not drained included.
Reconnect(g) ==
  /\ guest[g].state = "waiting" /\ Free # {} /\ Same
  /\ guest' = [guest EXCEPT ![g].state = "connecting", ![g].conn = NextConn]
  /\ link' = [link EXCEPT ![NextConn] = Open(NextConn, g)]
  /\ UNCHANGED <<host, app, consent, vain>>

\* update_connecting: the connection is up, or has failed.
Connecting(g) ==
  LET c == guest[g].conn
  IN /\ guest[g].state = "connecting"
     /\ \/ /\ link[c].hostEnd = "open" /\ Same
           /\ guest' = [guest EXCEPT ![g].state = "connected"]
           /\ UNCHANGED <<link, app>>
        \/ /\ link[c].hostEnd \in {"closed", "new"} /\ More
           /\ guest' = [guest EXCEPT ![g] = Failed(@, TRUE)]
           /\ link' = Pruned([link EXCEPT ![c].guestEnd = "closed"])
           /\ app' = [app EXCEPT ![g] = Disconnected(@)]
     /\ UNCHANGED <<host, consent, vain>>

\* A frame that reads n messages.  close: the connection is seen closed after
\* them.  A rejected session drops the events of the frame that rejects it.
Frame(g, n, close, can) ==
  LET c == guest[g].conn
      batch == SubSeq(link[c].down, 1, n)
      start == [t |-> guest[g], a |-> app[g], up |-> <<>>]
      end == FoldLeft(LAMBDA x, m : Step(x, m, can), start, batch)
      rejected == n > 0 /\ Last(batch).type \in {"kicked", "error"}
      over == close \/ rejected
  IN /\ guest[g].state = "connected" /\ n \in 0 .. Len(link[c].down) /\ (n > 0 \/ close)
     /\ (\E i \in 1 .. n : batch[i].type = "prompt") \/ can
     /\ close => link[c].hostEnd # "new"
     /\ close /\ link[c].hostEnd = "drained" => n = Len(link[c].down)
     /\ IF close /\ link[c].hostEnd = "open" THEN More ELSE Same
     /\ guest' = [guest EXCEPT ![g] = IF over THEN Failed(end.t, end.t.auto) ELSE end.t]
     /\ app' = [app EXCEPT ![g] = IF over THEN Disconnected(IF rejected THEN @ ELSE end.a)
                                  ELSE end.a]
     /\ link' = Pruned([link EXCEPT ![c].down = SubSeq(@, n + 1, Len(@)),
                                    ![c].up = IF over THEN @ ELSE @ \o end.up,
                                    ![c].guestEnd = IF over THEN "closed" ELSE @])
     /\ UNCHANGED <<host, consent, vain>>

\* A chat line, or any other send outside the tick.  When the connection's
\* worker has already seen the close, the send fails the session and leaves
\* the Disconnected event behind in the queue.
Chat(g) ==
  LET c == guest[g].conn
  IN /\ guest[g].welcomed /\ More
     /\ \/ /\ link' = [link EXCEPT ![c].up = Append(@, [type |-> "chat"])]
           /\ UNCHANGED <<guest, vain>>
        \/ /\ link[c].hostEnd \in {"closed", "drained"}
           /\ guest' = [guest EXCEPT ![g] = Failed(@, TRUE)]
           /\ link' = Pruned([link EXCEPT ![c].guestEnd = "closed"])
           /\ vain' = vain \cup {g}
     /\ UNCHANGED <<host, app, consent>>

\* OnlineApp::disconnect, and the 12 seconds without a challenge, which fail a
\* session for good.
Quit(g) ==
  LET c == guest[g].conn
  IN /\ guest[g].state # "off" /\ More
     /\ guest' = [guest EXCEPT ![g] = NewGuest]
     /\ link' = IF guest[g].state = "waiting" THEN link
                ELSE Pruned([link EXCEPT ![c].guestEnd = "closed"])
     /\ app' = [app EXCEPT ![g] = Disconnected(@)]
     /\ vain' = vain \ {g}
     /\ UNCHANGED <<host, consent>>

ChallengeTimeout(g) ==
  /\ guest[g].state = "connected" /\ ~guest[g].hello /\ More
  /\ guest' = [guest EXCEPT ![g] = Failed(@, FALSE)]
  /\ link' = Pruned([link EXCEPT ![guest[g].conn].guestEnd = "closed"])
  /\ app' = [app EXCEPT ![g] = Disconnected(@)]
  /\ UNCHANGED <<host, consent, vain>>

-----------------------------------------------------------------------------
\* tick_speedrun at a guest.

Answer(g, m, run) ==
  /\ guest[g].welcomed
  /\ link' = [link EXCEPT ![guest[g].conn].up = Append(@, m)]
  /\ app' = [app EXCEPT ![g].run = run]
  /\ UNCHANGED <<host, guest, vain>>

GuestProbe(g, clear) ==
  LET run == app[g].run
  IN /\ run.phase = "checking" /\ ~run.saves
     /\ Answer(g, [type |-> "ready", id |-> run.id, yes |-> clear],
               IF clear THEN [run EXCEPT !.saves = TRUE] ELSE NoGuestRun)
     /\ IF clear THEN Same ELSE More
     /\ UNCHANGED consent

GuestReady(g) ==
  LET run == app[g].run
  IN /\ run.phase = "waiting" /\ ~run.player /\ Same
     /\ Answer(g, [type |-> "playerReady", id |-> run.id, yes |-> TRUE],
               [run EXCEPT !.player = TRUE])
     /\ consent' = consent \cup {<<run.id, guest[g].conn>>}

\* The guest's own deadlines, or a change of its game mode: nobody is told.
GuestAbandon(g) ==
  /\ app[g].run.id # 0 /\ More
  /\ app' = [app EXCEPT ![g].run = NoGuestRun]
  /\ UNCHANGED <<host, link, guest, consent, vain>>

Next == \/ \E c \in Conns : \/ HostAccept(c) \/ HostReceive(c) \/ HostLoses(c)
                            \/ HostGivesUp(c) \/ HostKick(c) \/ HostDrains(c)
        \/ \E collision, pvp \in BOOLEAN : Publish(collision, pvp)
        \/ \E b \in BOOLEAN : HostStop(b) \/ HostProbe(b) \/ CommitStart(b)
        \/ StartRun \/ HostReady \/ HostAbandon \/ HostReset
        \/ \E g \in Guests : \/ \E b \in BOOLEAN : Join(g, b) \/ GuestProbe(g, b)
                             \/ Reconnect(g) \/ Connecting(g) \/ Chat(g) \/ Quit(g)
                             \/ ChallengeTimeout(g) \/ GuestReady(g) \/ GuestAbandon(g)
                             \/ \E n \in 0 .. 8, close, can \in BOOLEAN : Frame(g, n, close, can)

Spec == Init /\ [][Next]_vars

-----------------------------------------------------------------------------
Phases == {"none", "checking", "waiting", "countdown"}

\* The variables keep their shapes; a session that has failed is in no lobby,
\* and only participants are awaited or counted as ready.
TypeOK ==
  /\ host.started \subseteq 1 .. host.requests /\ host.requests \in 0 .. MaxRuns
  /\ \A c \in Conns :
       /\ host.room.peer[c] \in {"none", "accepted", "welcomed", "kicked", "rejected", "removed"}
       /\ link[c].hostEnd \in {"none", "new", "open", "closed", "drained"}
       /\ link[c].guestEnd \in {"none", "open", "closed"}
       /\ host.room.peer[c] \in {"accepted", "welcomed", "kicked", "rejected"}
            <=> link[c].hostEnd = "open"
  /\ host.room.run.phase \in Phases
  /\ host.room.run.waiting \cup host.room.run.readyPeers \subseteq host.room.run.parts
  /\ \A g \in Guests :
       /\ guest[g].state \in {"off", "waiting", "connecting", "connected"}
       /\ guest[g].welcomed => guest[g].state = "connected" /\ link[guest[g].conn].guestEnd = "open"
       /\ app[g].run.phase \in Phases /\ app[g].started \subseteq 1 .. host.requests
  /\ vain \subseteq Guests /\ events \in 0 .. MaxEvents

\* g is in the lobby on both sides and has read everything the host sent it.
Settled(g) == LET c == guest[g].conn
              IN /\ guest[g].welcomed /\ host.room.peer[c] = "welcomed"
                 /\ link[c].hostEnd = "open" /\ link[c].down = <<>>

\* The settings travel as one message per flag, and pvp is clamped by remote
\* collision at both ends (publish_room_settings, handle_primary_message): a
\* guest that has read everything holds exactly the host's settings and its
\* view of the snapshot delta capability, however joins, departures and
\* removals interleaved with the changes.
SettingsAgree ==
  \A g \in Guests : Settled(g) =>
     /\ guest[g].collision = host.room.collision /\ guest[g].pvp = host.room.pvp
     /\ guest[g].ready = host.room.ready

\* remove_peer, welcome_direct_peer and the peer list: a guest that has read
\* everything knows every other guest in the lobby, and beyond them only ones
\* that are being removed; its game shows the same players.
RosterAgrees ==
  \A g \in Guests : Settled(g) =>
     LET others == Welcomed(host.room) \ {guest[g].conn}
     IN /\ others \subseteq guest[g].names
        /\ guest[g].names \subseteq Names(host.room)
        /\ app[g].roster = guest[g].names

\* "Do not let the normal established-session reconnect policy put a
\* deliberately removed player straight back into the lobby": a guest that the
\* host closed after its notice was acknowledged does not reconnect by itself.
\* A send outside the tick that fails first is excepted (see vain): it ends
\* the session before the notice is read.
RemovedStaysOut ==
  \A g \in Guests : guest[g].state = "waiting" /\ g \notin vain
                     => link[guest[g].conn].hostEnd # "drained"

\* The game keeps nothing of an earlier connection when it is in the lobby
\* again: the Disconnected event is drained before the next epoch begins, with
\* the same exception, where begin_connect clears it from the queue.
FreshSession ==
  \A g \in Guests : guest[g].welcomed /\ g \notin vain
                     => app[g].session \in {NoConn, guest[g].conn}

\* No run starts, at the host or at a guest, unless every player that was in
\* the lobby when it was requested has held the button for that request
\* (commit_speedrun_start, handle_speedrun_message).
StartIsAgreed ==
  /\ \A id \in host.started : \A c \in host.party[id] : <<id, c>> \in consent
  /\ \A g \in Guests : app[g].started \subseteq host.started

\* While the host has a request open, its participants are the lobby: a
\* departure or an arrival abandons it (the event loop of OnlineApp::update).
RunOfThisLobby == host.room.run.id # 0 => host.room.run.parts = Names(host.room)

\* A guest that has read everything shows no prompt of a request the host has
\* abandoned or started; the waiting phase has no deadline of its own.
PromptsEnd ==
  \A g \in Guests : Settled(g) /\ g \notin vain /\ app[g].run.id # 0
                     => app[g].run.id = host.room.run.id
=============================================================================
