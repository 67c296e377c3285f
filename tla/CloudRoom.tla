----------------------------- MODULE CloudRoom -----------------------------
(***************************************************************************)
(* The Room object of the cloud service: admission, ownership, kicks, the  *)
(* settings transaction, and the 12 second reservation that lets a member  *)
(* whose socket was lost resume on another one.                            *)
(*                                                                         *)
(* The object serialises its callbacks, so each is one action.  What they  *)
(* share is the sockets and the stored room, and a socket outlives its     *)
(* membership: after the object asked for a close, and after the peer is   *)
(* gone, the close and error callbacks are still to come, and callbacks of *)
(* other sockets run before them.                                          *)
(*                                                                         *)
(* The object stores every change it makes, so waking from hibernation     *)
(* restores the same state and is no step here.  Proofs of the lobby code  *)
(* and the ciphers are abstracted: a hello fails them or not.              *)
(***************************************************************************)
EXTENDS Integers, Sequences, FiniteSets, FiniteSetsExt, SequencesExt

CONSTANTS
  Sockets,        \* how many sockets are opened (bound)
  MaxPlayers,     \* MAX_PLAYERS
  MaxPending,     \* MAX_PENDING: sockets that have not said hello
  MaxGeneration,  \* how often the settings change (bound)
  Setups,         \* what a behaviour starts with, see Setup
  None

\* "send": a peer is gone before its close callback runs, so sending fails.
\* "late": the error callback comes after the object asked for a close.
\* "reject": a member breaks the protocol and the object ends its socket.
Fault == {"send", "late", "reject"}

\* How many sockets are opened and how often the settings change in a behaviour,
\* which sockets are those of clients without room_resume_v1, which faults happen.
Setup == [sockets : 1..Sockets, changes : 0..MaxGeneration,
          legacy : SUBSET (1..Sockets), faults : SUBSET Fault]

ASSUME CloudAssumption ==
  /\ Sockets \in Nat \ {0}
  /\ MaxPlayers \in Nat \ {0}
  /\ MaxPending \in Nat \ {0}
  /\ MaxGeneration \in Nat
  /\ Setups \subseteq Setup

Socket == 1..Sockets

\* A member is named after the socket on which it was welcomed.
Member == Socket
NoMember == 0

\* The request recorded by the first close(): none, one that webSocketClose
\* takes for a transient loss ("send failed", "socket error"), or another.
CloseRequest == {"none", "transient", "final"}

Attachment ==
  [phase : {"unused", "open", "gone"}, joined : BOOLEAN, closing : BOOLEAN,
   request : CloseRequest, id : Member \cup {NoMember}, deadline : BOOLEAN,
   broken : BOOLEAN]

VARIABLES
  setup,   \* what the behaviour started with
  sock,    \* the attachment of each socket
  room,    \* the stored room, or None
  told,    \* what each member's socket has been told of the room
  alarm,   \* is an alarm set
  kicked   \* history: the members a host removed

vars == <<setup, sock, room, told, alarm, kicked>>

Unused == [phase |-> "unused", joined |-> FALSE, closing |-> FALSE,
           request |-> "none", id |-> NoMember, deadline |-> FALSE,
           broken |-> FALSE]

Gone == [Unused EXCEPT !.phase = "gone"]

NoView == [owner |-> NoMember, peers |-> {}, generation |-> 0]

NewRoom == [owner |-> NoMember, generation |-> 0, pending |-> None,
            suspended |-> <<>>]

Init ==
  /\ setup \in Setups
  /\ sock = [s \in Socket |-> Unused]
  /\ room = None
  /\ told = [s \in Socket |-> NoView]
  /\ alarm = FALSE
  /\ kicked = {}

-----------------------------------------------------------------------------
(***************************************************************************)
(* The steps of the callbacks, as functions from a state of the object to  *)
(* the next.                                                               *)
(***************************************************************************)

Open(w) == {s \in Socket : w.sock[s].phase = "open"}
Joined(w) == {s \in Open(w) : w.sock[s].joined /\ ~w.sock[s].closing}

Now == [sock |-> sock, room |-> room, told |-> told, alarm |-> alarm]

\* A socket without a membership knows nothing of the room.
Become(w) ==
  LET joined == Joined(w)
  IN  /\ sock' = w.sock
      /\ room' = w.room
      /\ told' = [s \in Socket |-> IF s \in joined THEN w.told[s] ELSE NoView]
      /\ alarm' = w.alarm

Suspended(w) == IF w.room = None THEN <<>> ELSE w.room.suspended
Roster(w) == {w.sock[s].id : s \in Joined(w)} \cup ToSet(Suspended(w))
Pending(w) == w.room # None /\ w.room.pending # None

\* The first member of the roster: sockets in the order of their opening,
\* then reservations in the order in which they were made.
FirstOfRoster(w) ==
  IF Joined(w) # {} THEN w.sock[Min(Joined(w))].id
  ELSE IF Suspended(w) # <<>> THEN Head(Suspended(w)) ELSE NoMember

Remembers(id) == id \notin setup.legacy

\* Only the first request of the object is recorded.
Close(w, s, request) ==
  IF w.sock[s].closing THEN w
  ELSE [w EXCEPT !.sock[s].closing = TRUE, !.sock[s].request = request]

CloseAll(w, set, request) ==
  [w EXCEPT !.sock = [s \in Socket |->
     IF s \in set THEN Close(w, s, request).sock[s] ELSE w.sock[s]]]

\* How a message changes what its reader knows of the room.
Heard(view, msg) ==
  CASE msg.type = "roster" -> msg.view
    [] msg.type = "peer_joined" -> [view EXCEPT !.peers = @ \cup {msg.id}]
    [] msg.type = "peer_left" -> [view EXCEPT !.peers = @ \ {msg.id}]
    [] msg.type = "owner_changed" -> [view EXCEPT !.owner = msg.id]
    [] msg.type = "room_settings" ->
         [view EXCEPT !.owner = msg.id, !.generation = msg.generation]
    [] OTHER -> view

\* A socket that is closing gets nothing; a failed send closes the socket.
Broadcast(w, set, msg) ==
  LET live == {s \in set : ~w.sock[s].closing}
      failing == {s \in live : w.sock[s].broken}
  IN  [CloseAll(w, failing, "transient") EXCEPT
         !.told = [s \in Socket |-> IF s \in live \ failing
                                    THEN Heard(w.told[s], msg) ELSE w.told[s]]]

Send(w, s, msg) == Broadcast(w, {s}, msg)

\* error(ws, ..., true)
Refuse(w, s) == Close(Send(w, s, [type |-> "error"]), s, "final")

\* What has a deadline: sockets that owe a hello, reservations, a pending
\* settings change.
HelloDue(w) == {s \in Open(w) : ~w.sock[s].joined /\ w.sock[s].deadline}

\* Mutant: a settings change has no deadline.
HasDeadlineBesideChange(w) == HelloDue(w) # {} \/ Suspended(w) # <<>>

HasDeadline(w) == HelloDue(w) # {} \/ Pending(w) \/ Suspended(w) # <<>>

ArmAlarm(w) == [w EXCEPT !.alarm = HasDeadline(w)]

\* Mutant: the room names a successor without telling anybody.
RemoveMemberSilently(w, id, keepRoom) ==
  IF w.room = None THEN w
  ELSE LET w1 == [w EXCEPT !.room.suspended = SelectSeq(@, LAMBDA i : i # id)]
           owner == IF w1.room.owner = id THEN FirstOfRoster(w1) ELSE w1.room.owner
       IN  IF Roster(w1) = {} /\ ~keepRoom
           THEN ArmAlarm([w1 EXCEPT !.room = None])
           ELSE ArmAlarm(Broadcast([w1 EXCEPT !.room.owner = owner], Joined(w1),
                                   [type |-> "peer_left", id |-> id]))

\* The departure of a participant of a pending settings change ends every
\* socket; otherwise the others learn of it, and of a new owner.
RemoveMember(w, id, keepRoom) ==
  IF w.room = None THEN w
  ELSE
    LET w1 == [w EXCEPT !.room.suspended = SelectSeq(@, LAMBDA i : i # id)]
        members == Joined(w1)
        owner == IF w1.room.owner = id THEN FirstOfRoster(w1) ELSE w1.room.owner
        left == Broadcast([w1 EXCEPT !.room.owner = owner], members,
                          [type |-> "peer_left", id |-> id])
    IN  IF Roster(w1) = {} /\ ~keepRoom
        THEN ArmAlarm([w1 EXCEPT !.room = None])
        ELSE IF Pending(w1) /\ id \in w1.room.pending.participants
        THEN CloseAll([w1 EXCEPT !.room.pending = None], members, "final")
        ELSE ArmAlarm(IF owner = w1.room.owner THEN left
                      ELSE Broadcast(left, members,
                                     [type |-> "owner_changed", id |-> owner]))

\* Mutant: the reservation is made without an alarm.
LeaveWithoutAlarm(w, s, transient) ==
  LET own == w.sock[s]
      w1 == [w EXCEPT !.sock[s].joined = FALSE]
  IN  IF ~own.joined \/ w.room = None THEN ArmAlarm(w)
      ELSE IF transient /\ Remembers(own.id) /\ ~Pending(w)
      THEN [w1 EXCEPT !.room.suspended = Append(@, own.id)]
      ELSE RemoveMember(w1, own.id, FALSE)

\* A transient loss keeps the membership of a client that can resume.
Leave(w, s, transient) ==
  LET own == w.sock[s]
      w1 == [w EXCEPT !.sock[s].joined = FALSE]
  IN  IF ~own.joined \/ w.room = None THEN ArmAlarm(w)
      ELSE IF transient /\ Remembers(own.id) /\ ~Pending(w)
      THEN ArmAlarm([w1 EXCEPT !.room.suspended = Append(@, own.id)])
      ELSE RemoveMember(w1, own.id, FALSE)

\* What may have passed its deadline: some reservations, some sockets that
\* owe a hello, the pending change.
Due(w) == [members : SUBSET ToSet(Suspended(w)), hellos : SUBSET HelloDue(w),
           change : {FALSE} \cup (IF Pending(w) THEN {TRUE} ELSE {})]

Nothing == [members |-> {}, hellos |-> {}, change |-> FALSE]

\* Every due reservation in turn, then every due socket, then the change.
Expire(w, due) ==
  LET late == SelectSeq(Suspended(w), LAMBDA i : i \in due.members)
      w1 == FoldLeft(LAMBDA v, id : RemoveMember(v, id, FALSE), w, late)
      w2 == CloseAll([w1 EXCEPT !.sock = [s \in Socket |->
                        IF s \in due.hellos THEN [w1.sock[s] EXCEPT !.deadline = FALSE]
                        ELSE w1.sock[s]]],
                     due.hellos, "final")
      w3 == IF due.change /\ Pending(w2)
            THEN CloseAll([w2 EXCEPT !.room.pending = None], Joined(w2), "final")
            ELSE w2
  IN  ArmAlarm(w3)

-----------------------------------------------------------------------------
(***************************************************************************)
(* The callbacks.                                                          *)
(***************************************************************************)

\* A new socket, unless too many are open or too many owe a hello.
Fetch(s) ==
  /\ s <= setup.sockets /\ sock[s] = Unused
  /\ \A r \in Socket : r < s => sock[r] # Unused
  /\ \E due \in Due(Now) :
       LET w == Expire(Now, due)
           counted == {r \in Open(w) : ~w.sock[r].closing}
       IN  IF \/ Cardinality(counted) >= MaxPlayers + MaxPending
              \/ Cardinality({r \in counted : ~w.sock[r].joined}) >= MaxPending
           THEN Become(w)
           ELSE Become(ArmAlarm([w EXCEPT !.sock[s].phase = "open",
                                          !.sock[s].deadline = TRUE]))
  /\ UNCHANGED kicked

\* Sockets whose messages are handled.
Speaks(s) == s \in Open(Now) /\ ~sock[s].closing
IsMember(s) == Speaks(s) /\ sock[s].joined

\* A hello before admission is decided: an empty room is forgotten, and the
\* first hello makes a new one.
RoomForHello(w, create) ==
  LET empty == w.room # None /\ Roster(w) = {}
  IN  IF (w.room = None \/ empty) /\ create THEN [w EXCEPT !.room = NewRoom]
      ELSE IF empty THEN [w EXCEPT !.room = None]
      ELSE w

\* Mutant: the old socket is closed but keeps its membership.
FenceByClosing(w, id) == CloseAll(w, {s \in Joined(w) : w.sock[s].id = id}, "transient")

\* The previous socket of a member loses the membership before another takes
\* it over, so that its late callbacks remove nobody.
Fence(w, id) ==
  LET old == {s \in Joined(w) : w.sock[s].id = id}
  IN  CloseAll([w EXCEPT !.sock = [s \in Socket |->
                  IF s \in old THEN [w.sock[s] EXCEPT !.joined = FALSE]
                  ELSE w.sock[s]]],
               old, "final")

\* A full reconnect retires the membership its token names.
Retire(w, id) ==
  IF id \in Roster(w) /\ Remembers(id) THEN RemoveMember(Fence(w, id), id, TRUE)
  ELSE w

\* New members wait until nobody's membership is reserved.
Admissible(w) == Suspended(w) = <<>> /\ Cardinality(Joined(w)) < MaxPlayers

\* The newcomer takes the room over if the owner is not there.
Admit(w, s) ==
  LET members == Joined(w)
      w1 == [w EXCEPT !.sock[s].joined = TRUE, !.sock[s].id = s,
                      !.sock[s].deadline = FALSE]
      owned == \E r \in Joined(w1) : w1.sock[r].id = w.room.owner
      w2 == [w1 EXCEPT !.room.owner = IF owned THEN @ ELSE s]
      welcome == [type |-> "roster",
                  view |-> [owner |-> w2.room.owner,
                            peers |-> {w.sock[r].id : r \in members},
                            generation |-> w.room.generation]]
  IN  ArmAlarm(Broadcast(Send(w2, s, welcome), members,
                         [type |-> "peer_joined", id |-> s]))

\* An ordinary hello, with the token of a former membership or without.
Hello(s, create, retired) ==
  /\ Speaks(s)
  /\ ~sock[s].joined
  /\ retired < s
  /\ \E due \in Due(Now) :
       LET w == Expire(Now, due)
           w1 == RoomForHello(w, create)
           exists == create /\ w.room # None /\ w1.room = w.room
                     /\ w1.room.owner \in Roster(w1)
           w2 == Retire(w1, retired)
       IN  Become(IF w.sock[s].closing THEN w
                  ELSE IF w1.room = None \/ exists THEN Refuse(w1, s)
                  ELSE IF Admissible(w2) THEN Admit(w2, s)
                  ELSE Refuse(w2, s))
  /\ UNCHANGED kicked

\* The membership moves to socket s.
Transfer(w, s, id) ==
  [Fence(w, id) EXCEPT !.sock[s].joined = TRUE, !.sock[s].id = id,
                       !.sock[s].deadline = FALSE,
                       !.room.suspended = SelectSeq(@, LAMBDA i : i # id)]

\* A hello that resumes the membership of id, never during a change.
Resume(s, id) ==
  /\ Speaks(s)
  /\ ~sock[s].joined
  /\ id < s
  /\ Remembers(id)
  /\ \E due \in Due(Now) :
       LET w == Expire(Now, due)
           w1 == RoomForHello(w, FALSE)
           w2 == Transfer(w1, s, id)
           resumed == [type |-> "roster",
                       view |-> [owner |-> w1.room.owner,
                                 peers |-> Roster(w2) \ {id},
                                 generation |-> w1.room.generation]]
       IN  Become(IF w.sock[s].closing THEN w
                  ELSE IF w1.room = None \/ Pending(w1) \/ id \notin Roster(w1)
                  THEN Refuse(w1, s)
                  ELSE ArmAlarm(Send(w2, s, resumed)))
  /\ UNCHANGED kicked

\* A hello that is malformed, late, or whose proof is wrong, and anything else
\* sent in its place.
BadHello(s) ==
  /\ Speaks(s)
  /\ ~sock[s].joined
  /\ Become(Refuse(Now, s))
  /\ UNCHANGED kicked

\* A member's message that the service never accepts.
BadMessage(s) ==
  /\ "reject" \in setup.faults
  /\ IsMember(s)
  /\ Become(Refuse(Now, s))
  /\ UNCHANGED kicked

\* The owner removes a member, present or reserved.
Kick(s, id) ==
  LET target == {r \in Joined(Now) : sock[r].id = id}
      tell == Broadcast(Now, target, [type |-> "kicked"])
  IN  /\ IsMember(s)
      /\ room # None
      /\ sock[s].id = room.owner
      /\ id # sock[s].id
      /\ id \in Roster(Now)
      /\ Become(IF target = {} THEN RemoveMember(Now, id, FALSE)
                ELSE CloseAll(tell, target, "final"))
      /\ kicked' = kicked \cup {id}

\* An ICE signal or an error for a peer that is gone: sending it fails.
SendFails(s) ==
  /\ IsMember(s)
  /\ sock[s].broken
  /\ Become(Send(Now, s, [type |-> "ice_signal"]))
  /\ UNCHANGED kicked

\* The owner starts a settings change among the members that are present.
ChangeSettings(s) ==
  /\ IsMember(s)
  /\ room # None
  /\ sock[s].id = room.owner
  /\ ~Pending(Now)
  /\ Suspended(Now) = <<>>
  /\ room.generation < setup.changes
  /\ LET change == [participants |-> {sock[r].id : r \in Joined(Now)},
                    ready |-> {}]
     IN  Become(ArmAlarm(Broadcast([Now EXCEPT !.room.pending = change],
                                   Joined(Now), [type |-> "settings_prepare"])))
  /\ UNCHANGED kicked

AllReady(change, ready) == ready = change.participants

\* A participant is ready; the last one commits the change.
SettingsReady(s) ==
  /\ IsMember(s)
  /\ Pending(Now)
  /\ sock[s].id \in room.pending.participants \ room.pending.ready
  /\ LET ready == room.pending.ready \cup {sock[s].id}
         committed == [Now EXCEPT !.room.pending = None,
                                  !.room.generation = @ + 1]
     IN  Become(IF AllReady(room.pending, ready)
                THEN ArmAlarm(Broadcast(committed, Joined(Now),
                       [type |-> "room_settings", id |-> room.owner,
                        generation |-> room.generation + 1]))
                ELSE [Now EXCEPT !.room.pending.ready = ready])
  /\ UNCHANGED kicked

\* Was the membership lost rather than given up?  A request of the object's
\* own decides, if there was one, and otherwise the code of the close.
Transient(own, lost) ==
  \/ own.request = "none" /\ lost
  \/ own.request = "transient"

\* The close callback, for a clean close or for a lost connection.
WebSocketClose(s, lost) ==
  /\ s \in Open(Now)
  /\ sock[s].broken => lost
  /\ LET closed == [Now EXCEPT !.sock[s].closing = TRUE,
                               !.sock[s].deadline = FALSE]
         left == Leave(closed, s, Transient(sock[s], lost))
     IN  Become([left EXCEPT !.sock[s] = Gone])
  /\ UNCHANGED kicked

\* The error callback; the close callback may still follow.
WebSocketError(s) ==
  /\ s \in Open(Now)
  /\ sock[s].closing => "late" \in setup.faults
  /\ Become(Leave(Close(Now, s, "transient"), s, TRUE))
  /\ UNCHANGED kicked

\* A peer disappears; the callback that reports it is still queued.
PeerVanishes(s) ==
  /\ "send" \in setup.faults
  /\ s \in Open(Now)
  /\ ~sock[s].broken
  /\ sock' = [sock EXCEPT ![s].broken = TRUE]
  /\ UNCHANGED <<room, told, alarm, kicked>>

\* The alarm fires when something is due; it may be left over from something
\* that has ended meanwhile.
Alarm ==
  /\ alarm
  /\ \E due \in Due(Now) : /\ HasDeadline(Now) => due # Nothing
                           /\ Become(Expire(Now, due))
  /\ UNCHANGED kicked

Next ==
  /\ UNCHANGED setup
  /\ \/ Alarm
     \/ \E s \in Socket :
          \/ Fetch(s)
          \/ \E create \in BOOLEAN, id \in Member \cup {NoMember} : Hello(s, create, id)
          \/ \E id \in Member : Resume(s, id) \/ Kick(s, id)
          \/ BadHello(s) \/ BadMessage(s)
          \/ SendFails(s)
          \/ ChangeSettings(s) \/ SettingsReady(s)
          \/ \E lost \in BOOLEAN : WebSocketClose(s, lost)
          \/ WebSocketError(s)
          \/ PeerVanishes(s)

Spec == Init /\ [][Next]_vars

\* The platform fires an alarm that is set: weak fairness of Alarm, which is
\* enabled exactly while alarm is TRUE.
FairSpec == Spec /\ ([]<>~alarm \/ []<><<Alarm>>_vars)

-----------------------------------------------------------------------------
(***************************************************************************)
(* Properties.                                                             *)
(***************************************************************************)

\* Every variable stays in its type, the stored room included.
TypeOK ==
  /\ setup \in Setups
  /\ sock \in [Socket -> Attachment]
  /\ room = None \/
       /\ room.owner \in Member \cup {NoMember}
       /\ room.generation \in 0..MaxGeneration
       /\ room.suspended \in Seq(Member)
       /\ room.pending = None \/
            /\ room.pending.participants \subseteq Member
            /\ room.pending.ready \subseteq room.pending.participants
            /\ room.pending.ready # room.pending.participants
  /\ told \in [Socket -> [owner : Member \cup {NoMember}, peers : SUBSET Member,
                          generation : 0..MaxGeneration]]
  /\ alarm \in BOOLEAN
  /\ kicked \subseteq Member

\* A member is on one socket or reserved, never both and never twice: fencing
\* in resume() and the joined flag that leave() clears keep late callbacks
\* from giving one identity to two connections.
OneSocketPerMember ==
  /\ \A s, r \in Joined(Now) : sock[s].id = sock[r].id => s = r
  /\ \A s \in Joined(Now) : sock[s].id \notin ToSet(Suspended(Now))
  /\ \A i, j \in DOMAIN Suspended(Now) : Suspended(Now)[i] = Suspended(Now)[j] => i = j

\* A reservation keeps its slot: members and reservations together never
\* exceed the size of the lobby.
RoomNotFull == Cardinality(Roster(Now)) <= MaxPlayers

\* resume() and leave() assume that no membership is reserved while a settings
\* change waits: a participant that could come back in the middle would have
\* missed settings_prepare.
NoReservationInChange == Pending(Now) => Suspended(Now) = <<>>

\* What a member was told is what the room is: its owner, its settings and its
\* roster, except for members whose departure is about to be announced.
ViewsAgree ==
  \A s \in Joined(Now) :
    LET known == told[s].peers \cup {sock[s].id}
        leaving == {sock[r].id : r \in {q \in Open(Now) : sock[q].joined /\ sock[q].closing}}
    IN  ~sock[s].broken =>
          /\ room # None
          /\ told[s].owner = room.owner
          /\ told[s].generation = room.generation
          /\ Roster(Now) \subseteq known
          /\ known \subseteq Roster(Now) \cup leaving

\* A member that the host removed never has a membership again.
KickedStayOut == kicked \cap Roster(Now) = {}

\* Nothing that has a deadline is left without an alarm.
AlarmArmed == HasDeadline(Now) => alarm

\* Every reservation ends, by a resume, a kick or the alarm, and with it the
\* time in which the room admits nobody.
ReservationEnds ==
  \A id \in Member : id \in ToSet(Suspended(Now)) ~> id \notin ToSet(Suspended(Now))

\* Every settings change commits or is given up.
ChangeEnds == Pending(Now) ~> ~Pending(Now)

\* What holds of the room and its sockets in every state, whatever fails: a
\* membership is on one socket, every deadline has its alarm, and nobody is
\* reserved in the middle of a settings change.
RoomSafety == TypeOK /\ OneSocketPerMember /\ AlarmArmed /\ NoReservationInChange
=============================================================================
