---------------------------- MODULE RoomSession ----------------------------
(***************************************************************************)
(* Clients of a cloud room: the first connection, the recovery of a lost   *)
(* room socket while gameplay goes on over the mesh, the full reconnect    *)
(* when recovery is not possible, and the ends that are final.             *)
(*                                                                         *)
(* A socket carries messages both ways in order until it is cut.  Each end *)
(* learns of the cut by itself and when it likes, so the service may still *)
(* broadcast to a member that is gone, or hold a reservation for one that  *)
(* has already given up.  The 8 seconds of the client and the 12 of the    *)
(* service start at different moments and are not ordered here.            *)
(*                                                                         *)
(* The Room object is CloudRoom's; this module keeps of it what a client   *)
(* can observe.  The key exchange of a socket and the proofs of the lobby  *)
(* code succeed, and the markers of a settings change are SettingsBarrier's*)
(***************************************************************************)
EXTENDS Integers, Sequences, FiniteSets, FiniteSetsExt, SequencesExt

CONSTANTS
  Clients,        \* the players
  Creator,        \* the one that hosts the room; the others join it
  Sockets,        \* how many sockets are opened (bound)
  MaxGeneration,  \* how often the settings change (bound)
  MaxFaults       \* losses, kicks, timeouts and departures (bound)

SessionAssumption ==
  /\ Creator \in Clients
  /\ Sockets \in Nat \ {0}
  /\ MaxGeneration \in Nat
  /\ MaxFaults \in Nat

\* A membership and its resume token are named after the socket on which the
\* member was welcomed; a room's mesh key after the socket of its creator.
Socket == 1..Sockets
Nothing == 0

VARIABLES
  cl,       \* the transport of each client
  sk,       \* the sockets, as both ends see them
  room,     \* the stored room; key = Nothing when there is none
  links,    \* pairs of memberships with a direct route
  learned,  \* history: the memberships each client was told of in this run
  removed,  \* history: clients whose kick notice is on its way or was read
  faults

vars == <<cl, sk, room, links, learned, removed, faults>>

Idle == [phase |-> "off", sock |-> Nothing, welcomed |-> FALSE,
         recovering |-> FALSE, id |-> Nothing, key |-> Nothing, owner |-> Nothing,
         generation |-> 0, peers |-> {}, token |-> Nothing, retire |-> Nothing,
         asked |-> FALSE, barrier |-> "none", established |-> FALSE,
         create |-> FALSE, recreate |-> FALSE]

Unused == [state |-> "unused", cut |-> FALSE, member |-> Nothing,
           up |-> <<>>, down |-> <<>>]

NoRoom == [key |-> Nothing, owner |-> Nothing, generation |-> 0,
           pending |-> {}, ready |-> {}, suspended |-> {}]

\* start_cloud_room, after reset_runtime(false); begin_cloud comes next.
Started(c) == [Idle EXCEPT !.phase = "due", !.create = (c = Creator)]

Init ==
  /\ cl = [c \in Clients |-> Started(c)]
  /\ sk = [s \in Socket |-> Unused]
  /\ room = NoRoom
  /\ links = {}
  /\ learned = [c \in Clients |-> {}]
  /\ removed = {}
  /\ faults = 0

Now == [cl |-> cl, sk |-> sk, room |-> room, removed |-> removed]
Become(w) ==
  /\ cl' = w.cl
  /\ sk' = w.sk
  /\ room' = w.room
  /\ removed' = w.removed

Fault == faults < MaxFaults /\ faults' = faults + 1

NextSocket(w) == {s \in Socket : w.sk[s].state = "unused"
                                 /\ \A t \in 1..s - 1 : w.sk[t].state # "unused"}

-----------------------------------------------------------------------------
(***************************************************************************)
(* The client.                                                             *)
(***************************************************************************)

\* queue_primary: nothing leaves on a socket that is cut.
Say(w, c, msg) ==
  LET s == w.cl[c].sock IN
  IF w.sk[s].cut THEN w ELSE [w EXCEPT !.sk[s].up = Append(@, msg)]

\* close(): the service reads what was sent before it.  What the client had
\* not read is lost, a kick notice too.
HangUp(w, c) ==
  LET s == w.cl[c].sock IN
  IF s = Nothing THEN w
  ELSE [w EXCEPT !.sk[s].down = <<>>,
                 !.sk[s].up = IF w.sk[s].cut THEN <<>>
                              ELSE Append(@, [type |-> "close"]),
                 !.removed = IF \E i \in 1..Len(w.sk[s].down) :
                                  w.sk[s].down[i].type = "kicked"
                             THEN @ \ {c} ELSE @]

\* reset_runtime(true): the token of the session that ends is the one the
\* next hello retires.
Reset(t) ==
  [Idle EXCEPT !.retire = IF t.token # Nothing THEN t.token ELSE t.retire,
               !.established = t.established,
               !.create = t.create, !.recreate = t.recreate]

\* fail(reason, allowReconnect)
Fail(w, c, allow) ==
  LET reconnect == w.cl[c].established /\ allow IN
  [HangUp(w, c) EXCEPT
     !.cl[c] = [Reset(w.cl[c]) EXCEPT !.phase = IF reconnect THEN "due" ELSE "off"]]

\* begin_cloud and the reopening in pump_cloud_recovery: the service accepts
\* the socket and, after the key exchange, sends its challenge.
Dial(w, c, s) ==
  [w EXCEPT !.sk[s] = [Unused EXCEPT !.state = "open",
                                     !.down = <<[type |-> "auth_challenge"]>>],
            !.cl[c].sock = s]

\* host_relay or join_relay, by the player
Start(c) ==
  /\ cl[c].phase = "off"
  /\ Become([Now EXCEPT !.cl[c] = Started(c), !.removed = @ \ {c}])
  /\ learned' = [learned EXCEPT ![c] = {}]
  /\ Fault
  /\ UNCHANGED links

\* begin_cloud, when the session starts and every 30 ticks after a failure
BeginCloud(c) ==
  /\ cl[c].phase = "due"
  /\ \E s \in NextSocket(Now) :
       Become(Dial([Now EXCEPT !.cl[c].phase = "on"], c, s))
  /\ UNCHANGED <<links, learned, faults>>

Direct(c, p) == {cl[c].id, p} \in links
Healthy(c) ==
  /\ ~cl[c].asked
  /\ cl[c].barrier = "none"
  /\ \A p \in cl[c].peers : Direct(c, p)

HelloWithoutRetire(t) ==
  [type |-> "hello", create |-> t.create /\ ~t.recovering,
   resume |-> IF t.recovering THEN t.token ELSE Nothing, retire |-> Nothing]

\* send_hello
HelloOf(t) ==
  [type |-> "hello",
   create |-> t.create /\ ~t.recovering,
   resume |-> IF t.recovering THEN t.token ELSE Nothing,
   retire |-> IF t.recovering THEN Nothing ELSE t.retire]

\* accept_cloud_resume: only the very session that was lost is taken up again.
SameSession(c, msg) ==
  /\ cl[c].recovering
  /\ msg.id = cl[c].id
  /\ msg.key = cl[c].key
  /\ msg.owner = cl[c].owner
  /\ msg.generation = cl[c].generation
  /\ msg.peers = cl[c].peers
  /\ Healthy(c)

\* welcome
Welcomed(t, msg) ==
  [t EXCEPT !.welcomed = TRUE, !.id = msg.id, !.key = msg.key,
            !.owner = msg.owner, !.generation = msg.generation,
            !.peers = msg.peers, !.token = msg.id, !.retire = Nothing,
            !.barrier = IF msg.pending THEN "observer" ELSE "none",
            !.established = TRUE,
            !.recreate = @ \/ t.create, !.create = FALSE]

\* The messages of the room to a member: membership, owner and settings.
Heard(t, msg) ==
  CASE msg.type = "peer_joined" -> [t EXCEPT !.peers = @ \cup {msg.id}]
    [] msg.type = "peer_left" -> [t EXCEPT !.peers = @ \ {msg.id}]
    [] msg.type = "owner_changed" -> [t EXCEPT !.owner = msg.id]
    [] msg.type = "settings_prepare" -> [t EXCEPT !.barrier = "prepared"]
    [] msg.type = "room_settings" ->
         [t EXCEPT !.owner = msg.id, !.generation = msg.generation,
                   !.asked = FALSE, !.barrier = "none"]
    [] OTHER -> t

RoomMessages == {"peer_joined", "peer_left", "owner_changed",
                 "settings_prepare", "room_settings"}

\* deliveryFailure of receive_primary
BreaksProtocol(t, msg) ==
  \/ msg.type = "settings_prepare"
     /\ (t.barrier # "none" \/ msg.generation # t.generation + 1
         \/ ~(msg.members \ {t.id} \subseteq t.peers))
  \/ msg.type = "room_settings"
     /\ (t.barrier \notin {"ready", "observer"} \/ msg.generation # t.generation + 1)

\* error: before the welcome it rejects the hello, and only two rejections
\* are tried again; afterwards it answers a request.
OnError(w, c, msg) ==
  LET t == w.cl[c]
      recreate == msg.error = "lobby_not_found" /\ t.recreate
  IN  IF t.welcomed THEN [w EXCEPT !.cl[c].asked = @ /\ t.barrier # "none"]
      ELSE Fail([w EXCEPT !.cl[c].create = recreate], c,
                recreate \/ (msg.error = "room_recovering" /\ t.established))

\* kicked: automaticReconnect is off.
OnKicked(w, c) == Fail(w, c, FALSE)

\* recover_cloud_socket: the close codes that may be a passing loss
Recoverable(c, code) ==
  /\ cl[c].token # Nothing
  /\ cl[c].welcomed
  /\ code \in {0, 1001, 1006, 1011}
  /\ Healthy(c)

OnClosed(w, c, code) ==
  IF Recoverable(c, code)
  THEN [w EXCEPT !.cl[c].recovering = TRUE, !.cl[c].sock = Nothing]
  ELSE Fail(w, c, TRUE)

\* receive_primary and pump_cloud
Receive(c) ==
  LET s == cl[c].sock IN
  /\ s # Nothing
  /\ ~sk[s].cut
  /\ sk[s].down # <<>>
  /\ LET msg == Head(sk[s].down)
         w == [Now EXCEPT !.sk[s].down = Tail(@)]
     IN  /\ Become(
              CASE msg.type = "closed" -> OnClosed(w, c, msg.code)
                [] msg.type = "auth_challenge" -> Say(w, c, HelloOf(cl[c]))
                [] msg.type = "room_resumed" ->
                     IF SameSession(c, msg)
                     THEN [w EXCEPT !.cl[c].recovering = FALSE]
                     ELSE Fail(w, c, TRUE)
                [] msg.type \notin {"closed", "auth_challenge", "room_resumed"}
                   /\ cl[c].recovering -> Fail(w, c, TRUE)
                [] msg.type = "welcome" /\ ~cl[c].recovering ->
                     [w EXCEPT !.cl[c] = Welcomed(@, msg)]
                [] msg.type = "kicked" /\ ~cl[c].recovering -> OnKicked(w, c)
                [] msg.type = "error" /\ ~cl[c].recovering -> OnError(w, c, msg)
                [] msg.type \in RoomMessages /\ ~cl[c].recovering ->
                     IF BreaksProtocol(cl[c], msg) THEN Fail(w, c, TRUE)
                     ELSE [w EXCEPT !.cl[c] = Heard(@, msg)])
         /\ learned' = [learned EXCEPT ![c] =
                          @ \cup (IF msg.type = "welcome" /\ ~cl[c].recovering
                                  THEN {msg.id} ELSE {})]
  /\ UNCHANGED <<links, faults>>

\* The room channel reports the loss of its connection.
NoticeLoss(c) ==
  /\ cl[c].sock # Nothing
  /\ sk[cl[c].sock].cut
  /\ Become(OnClosed(Now, c, 1006))
  /\ UNCHANGED <<links, learned, faults>>

\* pump_cloud_recovery: another attempt, or the end of the 8 seconds, or of
\* the health that recovery relies on.
RetryRecovery(c) ==
  /\ cl[c].recovering
  /\ cl[c].sock = Nothing
  /\ Healthy(c)
  /\ \E s \in NextSocket(Now) : Become(Dial(Now, c, s))
  /\ UNCHANGED <<links, learned, faults>>

GiveUp(c) ==
  /\ cl[c].recovering
  /\ Become(Fail(Now, c, TRUE))
  /\ UNCHANGED <<links, learned, faults>>

Playing(c) == cl[c].welcomed /\ ~cl[c].recovering
Owns(c) == cl[c].owner = cl[c].id

\* publish_settings: refused while the room socket recovers.
AskSettings(c) ==
  /\ Playing(c)
  /\ Owns(c)
  /\ ~cl[c].asked
  /\ cl[c].barrier = "none"
  /\ cl[c].generation < MaxGeneration
  /\ Become(Say([Now EXCEPT !.cl[c].asked = TRUE], c, [type |-> "room_settings"]))
  /\ Fault
  /\ UNCHANGED <<links, learned>>

\* pump_deliveries, when every marker is there
SettingsReady(c) ==
  /\ Playing(c)
  /\ cl[c].barrier = "prepared"
  /\ Become(Say([Now EXCEPT !.cl[c].barrier = "ready"], c,
                [type |-> "settings_ready"]))
  /\ UNCHANGED <<links, learned, faults>>

\* The 30 seconds of a settings change at the client are over.
BarrierTimeout(c) ==
  /\ cl[c].welcomed
  /\ cl[c].asked \/ cl[c].barrier # "none"
  /\ Become(Fail(Now, c, TRUE))
  /\ Fault
  /\ UNCHANGED <<links, learned>>

\* A player is removed by the host, or asked out because its route to the
\* host never came up (tick(), the 15 seconds of a newcomer).
Kick(c) ==
  /\ Playing(c)
  /\ Owns(c)
  /\ \E p \in cl[c].peers : Become(Say(Now, c, [type |-> "kick", id |-> p]))
  /\ Fault
  /\ UNCHANGED <<links, learned>>

\* tick(): 15 seconds without a route to a peer end the session for good.
RouteTimeout(c) ==
  /\ Playing(c)
  /\ \E p \in cl[c].peers : ~Direct(c, p)
  /\ Become(Fail(Now, c, FALSE))
  /\ Fault
  /\ UNCHANGED <<links, learned>>

\* disconnect() by the player
Disconnect(c) ==
  /\ cl[c].phase # "off"
  /\ Become([HangUp(Now, c) EXCEPT !.cl[c] = Idle])
  /\ learned' = [learned EXCEPT ![c] = {}]
  /\ Fault
  /\ UNCHANGED links

-----------------------------------------------------------------------------
(***************************************************************************)
(* The service.                                                            *)
(***************************************************************************)

Joined(w) == {s \in Socket : w.sk[s].state = "open" /\ w.sk[s].member # Nothing}
Members(w) == {w.sk[s].member : s \in Joined(w)}
Roster(w) == Members(w) \cup w.room.suspended

\* send: a member that is gone hears nothing.
Tell(w, set, msg) ==
  [w EXCEPT !.sk = [s \in Socket |->
     IF s \in set /\ w.sk[s].state = "open" /\ ~w.sk[s].cut
     THEN [w.sk[s] EXCEPT !.down = Append(@, msg)] ELSE w.sk[s]]]

\* close: the client hears of it after what was sent before.
Close(w, set, code) ==
  LET told == Tell(w, set, [type |-> "closed", code |-> code]) IN
  [told EXCEPT !.sk = [s \in Socket |->
     IF s \in set /\ w.sk[s].state = "open"
     THEN [told.sk[s] EXCEPT !.state = "closing"] ELSE told.sk[s]]]

\* error(ws, reason, true); blocked by names the reservations in the way.
Reject(w, s, reason) ==
  Close(Tell(w, {s}, [type |-> "error", error |-> reason,
                      blocked |-> w.room.suspended]), {s}, 4000)

Deleted(w) == [w EXCEPT !.room = NoRoom]

\* removeMember: the owner passes on to the first of the roster.
RemoveMember(w, id, keepRoom) ==
  LET v == [w EXCEPT !.room.suspended = @ \ {id}]
      first == IF Joined(v) # {} THEN v.sk[Min(Joined(v))].member
               ELSE IF v.room.suspended # {} THEN Min(v.room.suspended) ELSE Nothing
      left == Tell([v EXCEPT !.room.owner = IF @ = id THEN first ELSE @],
                   Joined(v), [type |-> "peer_left", id |-> id])
  IN  IF w.room.key = Nothing THEN w
      ELSE IF Roster(v) = {} /\ ~keepRoom THEN Deleted(v)
      ELSE IF id \in v.room.pending
      THEN Close([v EXCEPT !.room.pending = {}], Joined(v), 4002)
      ELSE IF left.room.owner # v.room.owner
      THEN Tell(left, Joined(v), [type |-> "owner_changed", id |-> first])
      ELSE left

\* leave: a passing loss outside a settings change reserves the membership.
Leave(w, s, transient) ==
  LET id == w.sk[s].member
      v == [w EXCEPT !.sk[s].state = "gone", !.sk[s].member = Nothing,
                     !.sk[s].up = <<>>]
  IN  IF id = Nothing \/ w.room.key = Nothing THEN v
      ELSE IF transient /\ w.room.pending = {}
      THEN [v EXCEPT !.room.suspended = @ \cup {id}]
      ELSE RemoveMember(v, id, FALSE)

\* resume
Resume(w, s, token) ==
  LET active == {t \in Joined(w) : w.sk[t].member = token}
      fenced == Close([w EXCEPT !.sk = [t \in Socket |->
                         IF t \in active THEN [w.sk[t] EXCEPT !.member = Nothing]
                         ELSE w.sk[t]]], active, 4003)
      v == [fenced EXCEPT !.sk[s].member = token, !.room.suspended = @ \ {token}]
  IN  IF w.room.pending # {} \/ token \notin Roster(w)
      THEN Reject(w, s, "resume_rejected")
      ELSE Tell(v, {s},
                [type |-> "room_resumed", id |-> token, key |-> v.room.key,
                 owner |-> v.room.owner, generation |-> v.room.generation,
                 peers |-> Roster(v) \ {token}])

\* The retire token of a full reconnect
Retire(w, token) ==
  LET active == {t \in Joined(w) : w.sk[t].member = token}
      v == Close([w EXCEPT !.sk = [t \in Socket |->
                    IF t \in active THEN [w.sk[t] EXCEPT !.member = Nothing]
                    ELSE w.sk[t]]], active, 4003)
  IN  IF token \in Roster(w) THEN RemoveMember(v, token, TRUE) ELSE w

\* The rest of hello: a new membership
Admit(w, s) ==
  LET peers == Members(w)
      v == [w EXCEPT !.sk[s].member = s,
                     !.room.owner = IF @ \in peers THEN @ ELSE s]
  IN  IF w.room.suspended # {} THEN Reject(w, s, "room_recovering")
      ELSE Tell(Tell(v, {s},
                     [type |-> "welcome", id |-> s, key |-> v.room.key,
                      owner |-> v.room.owner, generation |-> v.room.generation,
                      peers |-> peers, pending |-> v.room.pending # {}]),
                Joined(w), [type |-> "peer_joined", id |-> s])

\* hello; an empty room is deleted, and only a host makes a new one.
Hello(w, s, msg) ==
  LET v == IF w.room.key # Nothing /\ Roster(w) = {} THEN Deleted(w) ELSE w
      made == [v EXCEPT !.room.key = s]
  IN  IF v.room.key = Nothing
      THEN IF msg.resume # Nothing THEN Reject(v, s, "resume_rejected")
           ELSE IF msg.create THEN Admit(made, s)
           ELSE Reject(v, s, "lobby_not_found")
      ELSE IF msg.create /\ v.room.owner \in Roster(v) THEN Reject(v, s, "lobby_exists")
      ELSE IF msg.resume # Nothing THEN Resume(v, s, msg.resume)
      ELSE Admit(IF msg.retire # Nothing THEN Retire(v, msg.retire) ELSE v, s)

\* kick: a reservation is dropped without a notice.
OnKick(w, s, id) ==
  LET target == {t \in Joined(w) : w.sk[t].member = id}
      heard == {c \in Clients : \E t \in target : w.cl[c].sock = t /\ ~w.sk[t].cut}
  IN  IF w.sk[s].member # w.room.owner THEN w
      ELSE IF target = {} /\ id \in w.room.suspended THEN RemoveMember(w, id, FALSE)
      ELSE [Close(Tell(w, target, [type |-> "kicked"]), target, 4001) EXCEPT
              !.removed = @ \cup heard]

\* changeSettings
OnSettings(w, s) ==
  IF w.room.pending # {} \/ w.room.suspended # {} \/ w.sk[s].member # w.room.owner
  THEN Tell(w, {s}, [type |-> "error", error |-> "settings", blocked |-> {}])
  ELSE Tell([w EXCEPT !.room.pending = Members(w), !.room.ready = {}],
            Joined(w), [type |-> "settings_prepare", members |-> Members(w),
                        generation |-> w.room.generation + 1])

\* settingsReady
OnReady(w, s) ==
  LET id == w.sk[s].member
      ready == w.room.ready \cup {id}
  IN  IF id \notin w.room.pending
      THEN Tell(w, {s}, [type |-> "error", error |-> "settings", blocked |-> {}])
      ELSE IF ready # w.room.pending THEN [w EXCEPT !.room.ready = ready]
      ELSE Tell([w EXCEPT !.room.pending = {}, !.room.ready = {},
                          !.room.generation = @ + 1],
                Joined(w), [type |-> "room_settings", id |-> w.room.owner,
                            generation |-> w.room.generation + 1])

\* handleSocketMessage and webSocketClose with the code of a client that left
ServiceReceive(s) ==
  /\ sk[s].up # <<>>
  /\ sk[s].state \in {"open", "closing"}
  /\ LET msg == Head(sk[s].up)
         w == [Now EXCEPT !.sk[s].up = Tail(@)]
     IN  Become(
           IF msg.type = "close" THEN Leave(w, s, FALSE)
           ELSE IF sk[s].state = "closing" THEN w
           ELSE CASE msg.type = "hello" -> Hello(w, s, msg)
                  [] msg.type = "kick" -> OnKick(w, s, msg.id)
                  [] msg.type = "room_settings" -> OnSettings(w, s)
                  [] msg.type = "settings_ready" -> OnReady(w, s))
  /\ UNCHANGED <<links, learned, faults>>

\* webSocketClose or webSocketError after a loss; a close the service had
\* asked for is no passing loss.
ServiceNotices(s) ==
  /\ sk[s].state \in {"open", "closing"}
  /\ sk[s].cut
  /\ Become(Leave(Now, s, sk[s].state = "open"))
  /\ UNCHANGED <<links, learned, faults>>

\* webSocketClose after a close the service asked for
ServiceCloses(s) ==
  /\ sk[s].state = "closing"
  /\ ~sk[s].cut
  /\ Become(Leave(Now, s, FALSE))
  /\ UNCHANGED <<links, learned, faults>>

\* expire: the end of a reservation, and of a settings change
Expire ==
  /\ \E id \in room.suspended : Become(RemoveMember(Now, id, FALSE))
  /\ UNCHANGED <<links, learned, faults>>

SettingsTimeout ==
  /\ room.pending # {}
  /\ Become(Close([Now EXCEPT !.room.pending = {}], Joined(Now), 4002))
  /\ Fault
  /\ UNCHANGED <<links, learned>>

-----------------------------------------------------------------------------
(***************************************************************************)
(* The network: sockets are cut, direct routes come up and go.             *)
(***************************************************************************)

Cut(s) ==
  /\ sk[s].state = "open"
  /\ ~sk[s].cut
  /\ sk' = [sk EXCEPT ![s].cut = TRUE, ![s].up = <<>>, ![s].down = <<>>]
  /\ removed' = removed \ {c \in Clients : cl[c].sock = s}
  /\ Fault
  /\ UNCHANGED <<cl, room, links, learned>>

Lives(id) == \E c \in Clients : cl[c].id = id

RouteUp ==
  /\ \E c, d \in Clients :
       /\ cl[d].id \in cl[c].peers
       /\ cl[c].id \in cl[d].peers
       /\ {cl[c].id, cl[d].id} \notin links
       /\ links' = links \cup {{cl[c].id, cl[d].id}}
  /\ UNCHANGED <<cl, sk, room, learned, removed, faults>>

\* A route ends soon after one of its ends, or by itself.
RouteDown ==
  /\ \E l \in links :
       /\ links' = links \ {l}
       /\ IF \A id \in l : Lives(id) THEN Fault ELSE UNCHANGED faults
  /\ UNCHANGED <<cl, sk, room, learned, removed>>

Next ==
  \/ \E c \in Clients :
       \/ Start(c) \/ BeginCloud(c) \/ Receive(c) \/ NoticeLoss(c)
       \/ RetryRecovery(c) \/ GiveUp(c) \/ AskSettings(c) \/ SettingsReady(c)
       \/ BarrierTimeout(c) \/ Kick(c) \/ RouteTimeout(c) \/ Disconnect(c)
  \/ \E s \in Socket :
       \/ ServiceReceive(s) \/ ServiceNotices(s) \/ ServiceCloses(s) \/ Cut(s)
  \/ Expire \/ SettingsTimeout \/ RouteUp \/ RouteDown

Spec == Init /\ [][Next]_vars

-----------------------------------------------------------------------------
(***************************************************************************)
(* What must hold.                                                         *)
(***************************************************************************)

\* The states are well formed: a client without a socket is off, due to
\* connect or recovering, one that recovers was welcomed and is healthy as
\* far as its settings go, and a socket it holds is one the service opened.
TypeOK ==
  /\ \A c \in Clients :
       /\ cl[c].phase \in {"off", "due", "on"}
       /\ cl[c].sock \in Socket \cup {Nothing}
       /\ (cl[c].phase = "on" /\ cl[c].sock = Nothing => cl[c].recovering)
       /\ (cl[c].phase # "on" => cl[c].sock = Nothing /\ ~cl[c].welcomed)
       /\ (cl[c].recovering => /\ cl[c].welcomed /\ cl[c].token = cl[c].id
                               /\ ~cl[c].asked /\ cl[c].barrier = "none")
       /\ (cl[c].sock # Nothing => sk[cl[c].sock].state # "unused")
       /\ cl[c].peers \subseteq Socket
       /\ learned[c] \subseteq Socket
  /\ \A s \in Socket : sk[s].state \in {"unused", "open", "closing", "gone"}
  /\ room.pending \subseteq Socket /\ room.suspended \subseteq Socket
  /\ faults \in 0..MaxFaults

\* Members whose socket the service has closed but not yet seen end
Leaving == {sk[s].member : s \in {t \in Socket : sk[t].state = "closing"}} \ {Nothing}

Live(c) == /\ Playing(c)
           /\ cl[c].sock # Nothing
           /\ ~sk[cl[c].sock].cut
           /\ sk[cl[c].sock].state = "open"

\* A client that plays on after recovering its room socket missed every
\* broadcast to the socket it lost.  Once it has read what is under way, its
\* owner, mesh key, settings generation and peers are the service's: the
\* comparison in accept_cloud_resume lets no stale session through.
ViewsAgree ==
  \A c \in Clients : Live(c) =>
    LET t == FoldLeft(Heard, cl[c], sk[cl[c].sock].down) IN
    /\ sk[cl[c].sock].member = t.id
    /\ t.key = room.key
    /\ t.owner = room.owner
    /\ t.generation = room.generation
    /\ t.peers \ Leaving = Roster(Now) \ {t.id}

\* However often a reconnect fails, the memberships a client was told of
\* never stand beside each other in the room: the last token it held is
\* retired by the hello that makes the next membership.
OneMembership ==
  \A c \in Clients : Cardinality(learned[c] \cap Roster(Now)) <= 1

\* A client that gave recovery up after 8 seconds is not kept out by the
\* reservation the service still holds for it: when the service answers that
\* the room is recovering, it waits for a member the client does not know to
\* be its own.
OwnReservationFreed ==
  \A c \in Clients : cl[c].sock # Nothing =>
    \A i \in 1..Len(sk[cl[c].sock].down) :
      LET msg == sk[cl[c].sock].down[i] IN
      (msg.type = "error" /\ msg.error = "room_recovering") => msg.blocked \cap learned[c] = {}

\* A player whose kick notice was read, or is still to be read, is in no
\* membership but the one that is ending, until the player starts again.
KickedStaysOut ==
  \A c \in removed :
    /\ cl[c].phase # "due"
    /\ cl[c].sock # Nothing => sk[cl[c].sock].state # "open"

\* A client that waits for the answer to its challenge, hello or resume will
\* see one: a message is under way on its socket, or the end of the socket is.
NeverStranded ==
  \A c \in Clients :
    cl[c].sock # Nothing /\ (~cl[c].welcomed \/ cl[c].recovering) =>
      LET k == sk[cl[c].sock] IN
      k.cut \/ k.down # <<>> \/ (k.up # <<>> /\ k.state = "open")
=============================================================================
