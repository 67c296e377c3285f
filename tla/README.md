# Dusklight Online: TLA+ models

Dusklight Online is a multiplayer mod: each player runs the game with the mod,
the mods form a room, and gameplay and progress travel between them. This
directory holds models of how rooms, links and the sharing of progress work,
the TLC runs that check them, and the TLAPS proofs of what matters most about
seven of the models. Line numbers refer to the sources in `src/`; `PROJECT.json`
maps every definition to its lines.

## The system

Players meet in a *room*, of which there are three kinds:

* a **relay room**, kept by `tools/multiplayer_relay/relay.cpp`, a
  single-threaded server that also forwards gameplay for pairs of players that
  cannot reach each other directly;
* a **cloud room**, kept by the `Room` object of
  `tools/cloud_rooms/src/index.js`, which carries membership, settings and ICE
  signals only; gameplay has no path but the direct links;
* a **direct lobby**, in which one player hosts the others.

Above the room, the game adapter shares what the players do with their save
memories: flags, keys, quests, counters, story events, whole saves.

| Component | State it keeps | Operations | What makes it correct |
|---|---|---|---|
| Reliable peer delivery (`transport.cpp` 1625-1701, 1883-1896, 2502-2513) | per peer: next number to send and to apply, journal, frames behind a gap, pending receipt | send, replay on a carrier change, receive, acknowledge | every frame applied once and in order whatever carrier its copies took; nothing released before it was applied; conforming members never accuse each other |
| Settings barrier and membership, client (`transport.cpp` 1620-2280) | generation, settings, requested/barrier/observer/ready flags, markers, deferred and future gameplay, peers, owner | submit, flush, prepare, mark, ready, commit, deadline, welcome, joined, left, kicked | gameplay is applied under the settings it was sent under; pauses end; the picture of the room is the room |
| Relay (`relay.cpp`) | clients, rooms, owner, pending change and who is awaited, queues, datagram addresses | accept, auth_begin, hello, route, kick, change settings, register, forward, remove, tick | one owner, a member; a lobby is its members, and they hold one code; a slow client sees no gap; a change commits only when its participants are ready, and survives departures |
| Cloud room (`index.js`) | sockets with attachments, stored room, reservations, one alarm | fetch, hello, resume, retire, kick, settings, close and error callbacks, alarm | one connection per identity; reservations keep slot and ownership and end; removed players stay out |
| Cloud recovery, client (`transport.cpp` 916-1022) | recovering flag, tokens, deadlines, links | lose, retry, compare, resume or restart, retire | a session continues only in the room it left; it has one membership |
| Direct lobby and speedrun start (`transport.cpp`, `online_app.cpp`) | host's guests, roster, settings; probe, consents, countdown | join, reconnect, accept, kick, drain, probe, ready, commit | guests know the lobby as it is; nothing of a former lobby stays; a run starts with everybody's consent |
| Owner's settings (`online_app.cpp`) | who owns, the setting, its readiness | advertise, request, succession | a member that is ready uses a value its owner said |
| UDP connection (`udp_connection.cpp`) | peers by address and identity, handshake state | challenge, confirm, accept, retry, close, disconnect | sessions handed over once, both ends ready under loss |
| Secure datagrams (`secure_datagram.cpp`) | handshake state, counters, replay window | begin, handshake, seal, open | nothing opened twice; a lost last packet is repeated |
| Mesh links and ICE agents (`udp_connection.cpp`, `ice_agent.cpp`) | agent and generation, signals not yet sent, key exchange, echo clock | admit, signal, refuse, retry, probe, close | agents hold descriptions made for each other; direct only after a round trip |
| Pose stream (`remote_pose.cpp`, `pose_ack_history.hpp`, `udp_codec.cpp`) | snapshots and acknowledgements per peer, pacer, reassembly, event queue | sample, choose a baseline, pace, expand, acknowledge, reset | a delta starts from a snapshot every recipient holds and gives the exact state |
| Voice (`voice_chat.cpp`) | microphone backlog, jitter buffer, concealment | capture, receive, play, drop | frames once and in order, a silent stream starts |
| Protocol router (`protocol_router.cpp`) | messages that wait for a ready stage | route, defer, flush | order kept, its bound, nothing applied on a stage that is not ready |
| Progression sync (`game_adapter.cpp`) | observed memory, guard, prompts | publish, apply | nothing is echoed, saves converge, quests only advance |
| Shared counters (`game_adapter.cpp`, `poe_sync.hpp`, ...) | totals, pickups seen, named rewards | pick up, merge, reload | each soul, fish, tear and reward counts once |
| Story fences (`game_adapter.cpp`) | pending sequences, holds, queues per kind of fact | defer, flush, hold, release | no fact crosses a fence or is lost behind one |
| Save recovery (`save_recovery.hpp`) | facts since the save, window, inbox | begin, observe, apply | a reload loses no received fact and overwrites no newer one |
| Manual synchronisation (`game_adapter.cpp`) | request, cue, queued answers, image to install | ask, answer, accept, time out, install | only the awaited answer replaces a save, and once |
| Ooccoo (`ooccoo_sync.hpp`, `ooccoo_wire.hpp`) | receipts, pending deliveries, anchors | merge, project, reconcile, save, load | receipts converge, are delivered once, and nothing is resurrected |
| Floor switches (`floor_switch_sync.hpp`, `floor_switch_bridge.cpp`) | contacts, leases, numbers, retirement guards | sample, flush, receive, execute, reset | remote feet press exactly what they stand on, and only the rider acts |

The parts talk as follows. The game adapter hands messages to `Transport`; its
tick, on the game thread, pumps the room connection, the direct links and the
journals, and the app's loop then routes what arrived into the adapter, whose
hooks fire inside the game's own setters. `UdpConnection` runs a worker thread
that probes the links, so whether a peer is *direct* can change between any two
steps of the tick. The relay and the cloud object are single-threaded event
loops; a client sees them through reliable ordered streams. What is hard is
therefore the interleaving of ticks with the worker thread and with the game's
frames, of several clients' streams in the relay, of callbacks in the cloud
object, messages of different streams that cross (a room's notices against the
members' own messages), datagrams lost, repeated or overtaken, and departures,
reloads and scene changes at any point of all that. `PROJECT.json` lists the
hazards at their lines and the property that watches each.

## The modules

Each component's module has its state as variables, one action per operation,
and the bounds of its environment as constants. Streams between two ends are
sequences; a clock is the condition it decides. Where a handler does several
things in a row it is a composition of functions from a state record to the
next, named as in the code, and the action is the whole handler.

**PeerDelivery**, **FifoChannel.** One ordered pair of members with two
carriers. Each carrier is a reliable ordered stream, which KCP provides; nothing
orders frames *between* carriers. `SendDelivery` numbers a frame, journals it
and puts it on the carrier usable now; `ResendDelivery` is the tick that notices
that the route differs from what the previous tick saw and replays the journal;
`ReceiveDelivery` drops, holds or applies a frame; `SendReceipt` and
`ReceiveReceipt` acknowledge. `FlipRoute` is the worker thread changing its mind
at either side, `CarrierFails` a stream that dies. In a relay room
(`RelayFallback`) a frame always has a carrier; in a cloud room there may be
none, and the frame is only journaled. `FifoChannel` is the abstract promise:
what was submitted is applied, in order, once. `Window` stands for 4096 and
`MaxSequence` for `UINT64_MAX`; bodies are opaque.

**SettingsBarrier.** One relay room with its clients. Relay state carries the
names of `Room` in `relay.cpp`, client state is indexed by client. `Route...`
are the branches of `route_message`, `RemoveClient` is `remove_client` with
succession, notices and the change it may complete, `Receive...` are the
client's handlers, `BecomeReady` and `ClientDeadline` the end of
`pump_deliveries`, `FlushDeferred` is `flush_deferred_gameplay`. A client that
is gone comes back only under another identity, as in the code. A pair's route
is fixed: that frames of one pair stay in order while it changes is what
`PeerDelivery` shows. A body carries its generation and, as history, the
settings change its sender submitted before it.

**RelayServer.** The relay as a server of several lobbies, with clients that
join, lose their connection, come back and recreate a lobby that is gone; nobody
asks for a change of settings, which is `SettingsBarrier`. A tick is modelled as
it runs: connections and datagrams come in between ticks (`Accept`, `Register`,
`ForwardToAll`, `ForwardToPeer`), `BeginVisits` starts the visits, during which
the client whose turn it is says any number of things (`AuthBegin`, `Hello`,
`Route...`) until `Flush` or `ReadFails` ends its visit, and `EndTick` times a
hello out and runs `remove_client` for those that are to go. `Told` is
`send_json`: a message that does not fit is dropped and its client marked, and
whether anything later still gets out depends on when a tick finds the mark. The
identifiers that order the visits are random in the code; here connections are
numbered as they come and a scenario says in which direction they are visited.
A datagram over its budget is one that is not sent. A proof of the lobby code is
the salt it was made for and the code of who made it.

**CloudRoom.** The `Room` object. It serialises its callbacks, so each is one
action, written as a composition of functions (`RemoveMember`, `Leave`,
`Expire`, `Admit`, ...), one per method. `exclusive` keeps other callbacks out
while a callback awaits storage. `sock` holds the attachments, `told` what each
member's client knows. Time appears as *due*: `expire()` may find any deadlines
passed, at an alarm and at the beginning of `fetch` and `hello`. `setup` says
what a behaviour starts with: how many sockets, how many settings changes, which
clients cannot resume, which faults (a send that fails because the peer is gone
before its callback, an error callback that comes late, a member that breaks the
protocol). Hibernation is no action: every change is in an attachment or in
storage before a callback ends.

**RoomSession.** Clients of a cloud room: the first connection, the recovery of
a lost room socket while gameplay goes on over the mesh, the full reconnect, the
ends that are final. The room object is reduced to what a client can tell; each
end of a socket learns of a cut by itself, and the client's 8 seconds and the
service's 12 start at different moments and are not ordered.

**DirectRoom.** A direct lobby: one action of a guest is a frame of
`OnlineApp::update`, with the transport's tick and the event loop; the host
handles one received frame in a frame of its own. A close may overtake frames
still under way, except that a removed guest's connection is drained first. The
speedrun start is the host's probe, the guests' answers, the countdown and the
commit, with the changes of the lobby that cancel it.

**OwnerSettings.** The settings the owner sends to the players itself. The
server's notices and the players' messages travel on different connections, so
a player can hear the new owner before it hears of it.

**UdpSession.** A server and its clients over a network in which a packet stays
receivable any number of times until it is lost: hello, challenge, confirm,
accept, the key exchange of an invited room, sealed datagrams with the replay
window, closes, timeouts, the accept queue. **MeshLink** is the link between two
players of a room: agents and their generations, signals that a cloud room may
lose, the key exchange over a path that appears and disappears, the probes.
**PoseStream** is the stream of snapshots from one player to others, in a room
or from a direct host. **VoiceChat** is one talker's frames at one listener.

**SaveRecovery** follows one player's received facts from the router to the save
memory and through reloads. **StoryFence** has two players whose facts must not
reach each other in the middle of a cutscene; each runs `update()` per tick.
**ManualSync** has requests, answers, cues and the installation of an image.
**OoccooShare** is the join of receipts and its projection onto the inventory.
**ProgressSync** is a change of save memory at one player and its way to the
others: the setters' hooks publish, the same setters apply under a guard.
**SharedLedgers** are the counters and rewards, one kind per behaviour.
**FloorSwitch** has, for every player, its bridge (`me`), its game (`world`) and
the streams between them; an action `Frame` is a frame of the mod, from the
capture to the execution.

**SequenceLemmas** holds facts about sequences that the proofs share, and
`PeerDeliveryProofs`, `SettingsBarrierProofs`, `OwnerSettingsProofs`,
`ProgressProofs`, `UdpSessionProofs`, `FloorSwitchProofs` and `MeshLinkProofs`
hold the theorems.

An `MC` module gives a component its instances. Components that share no state
are put side by side in one module with a variable `part`: each behaviour
exercises one of them while the variables of the others rest (`MCLinks`,
`MCRooms`, `MCProgressSync`, and `MCOoccooShare`, which holds the relay's lobbies
as well because it has room for them), or the same component at two bounds
(`MCSettingsBarrier`, `MCBarrierLiveness`, `MCOoccooShare`).

## The runs

| Run | Instance | Shows |
|---|---|---|
| `delivery_relay` | 2 bodies, window 2, 4 numbers, 2 route changes, relay fallback | no false accusation, no frame lost, refinement of `FifoChannel`; every frame is applied and the journal drains |
| `delivery_cloud_stall` | cloud room, 1 body, 4 route changes | **violated**, see findings |
| `barrier` | 3 clients; *direct*: 3 submissions, direct links; *relayed*: 2 submissions, a departure at any moment | gameplay is applied under the settings it was sent under, in the order of submission; the old generation has drained at a commit; the clients' pictures of the room are the room |
| `barrier_pauses` | *lost*: 3 clients, a departure, no deadline; *kick*: 2 clients, a kick, deadlines | every pause ends; what was deferred is sent or its session is over |
| `cloud_room` | room of 2; 4 sockets without a change; 3 sockets with a change, with failing sends and a client that cannot resume, with late callbacks and protocol errors; 2 sockets with every fault | lobby size, every member's view, removed members stay out; one connection per identity, no deadline without an alarm, no reservation in a change; reservations and changes end |
| `save_recovery` | 2 files, an event, a switch, a counter; router bound 1, inbox 2, 2 received facts, 2 saves, 4 scenes, 1 local change | what a reload loses comes back, nothing reaches another file, nothing stays behind, nothing newer is overwritten |
| `story_fence` | 2 players, all 8 facts and 4 stages, hold 1, safe 2, 2 local facts, 1 move, 1 fault | facts converge, fences hold and fall, boundaries keep their order |
| `manual_sync` | 2 players, 1 fact, 2 requests, 2 scenes, timeouts of 2 ticks, 1 fault | only the awaited answer is applied; an image and its transition belong together; answers do not pile up |
| `ooccoo_share` | *Ooccoo*, 2 players; *wide*: dungeons 16 and 22 (City), 2 events; *deep*: City, 3 events; 2 return marks. *relay*: 3 players, at most 3 connections at a time, lobbies of 2, queues of 3 units, 1 number remembered; five scenarios: a group and a stranger with the same lobby name, two lobbies with datagrams, 5 connections with a loss and a restart, and two of 2 messages | receipts converge, are delivered once, nothing is lost or resurrected; a lobby is its members with one code and one owner, its members are told, nothing follows a gap, datagrams stay inside |
| `progress` | 3 players; *progress*: 2 stages, an item, a flag, 2 facts of which one needs the other, 2 trade quests, 3 local acts, 1 move; *ledger*: 7 kinds, cap 3, 4 pickups, 1 reset, through the relay or directly | nothing echoes, memories agree when quiet, quests only advance, counters are exact |
| `links` | *session*: 2 clients, 1 invited, capacity 1, 2 peers, window 2, 3 seals, 1 loss, 1 timeout; *mesh*: 2 generations, 2 drops; *pose*: 2 peers, 4 numbers, three scenarios; *voice*: 6 frames | sessions handed over once, exact windows, ends that can finish; agents that match; exact deltas; frames in order |
| `rooms` | *floor*: 2 players, 2 rooms, a plate and a latch, 2 events; *setting*: 3 members, 1 change; *session*: 2 clients, 4 sockets, 2 faults; *lobby*: 2 guests, 3 connections, 1 run, 2 user actions | reports are new, pressure is current, plates are shared; ready means told; a recovered session is the room's; lobbies agree and runs need consent |

Bounds. They are the smallest at which the interesting cases meet. A window of
two is the smallest in which a gap, a held frame and a full journal exist
together; two route changes let a frame be sent on one carrier, replayed on the
other and replayed again. Three clients let a third lag behind two that have
moved on; three submissions allow gameplay between two changes. Three or four
sockets in a room of two give every pair of a stale socket and its replacement
with a newcomer and a full lobby. A replay window of two with three counters has
a datagram inside, at the edge of and behind the window; two peers at capacity
one make a second connection wait for the first to end. Two generations of an
agent are an old and a new one whose signals cross. In the relay two messages of two units are one
more than a queue of three holds, and a message of one unit still fits behind the
dropped one; the stranger's three connections let a lobby go, and another of its
name come, between a challenge and its hello. Four pose numbers against a
history of three let a baseline fall out. Two files are the one that is loaded
and the one that must not be touched. Where a module is proved, the bounds do
not matter for what is proved: the theorems hold for every value.

Symmetry over clients, players, stages or files is used only where nothing in
the model orders them and only in runs without liveness. Deadlock is not checked
in any run: the environment's inputs are bounded and run out, and a room may be
idle or empty for good.

Fairness. `PeerDelivery`: the tick resends and acknowledges and the streams
deliver, since the tick runs every frame and KCP retransmits; submissions, route
changes and failures are never fair. `SettingsBarrier`: the relay's tick and
each client's tick take some step they can take; deadlines are never fair, so
they cannot be what ends a pause. `CloudRoom`: the platform fires an alarm that
is set, written `[]<>~alarm \/ []<><<Alarm>>`, which is weak fairness of `Alarm`
because that action is enabled exactly while `alarm` holds. The other modules
state what holds at rest, when every stream is empty and no tick changes
anything, as invariants, and need no fairness.

## Findings

`delivery_cloud_stall`: in a cloud room, a route gap that opens and closes
between two ticks leaves a journaled frame that nobody transmits; the frames
behind it wait for ever. `PROJECT.json` quotes the line that says otherwise.

Disagreements met while modelling which no run stands for. The models do what
the code does, so these also say where a property had to be stated with a
condition:

* `relay.cpp` 657: the relay ends the session of a member whose fallback upload
  crosses a recipient's departure (against the relay's README, line 30).
* `transport.cpp` 1706 and 1756: a message deferred for a peer that leaves during
  the pause ends the session of the member that deferred it (PROTOCOL.md 66, 91).
* `transport.cpp` 1827: any error message lets the owner's gameplay overtake the
  settings change it asked for (PROTOCOL.md 77).
* `index.js` 370: a kick of a player whose connection is already dead records
  "send failed", so the player gets a reservation and can resume (the cloud
  PROTOCOL.md 74). For the same reason `RoomNotFull` and `ViewsAgree` are stated
  for rooms without faults: between a failed send and its callback a member is
  neither present nor reserved, and a hello can take its slot.
* `udp_connection.cpp` 760: the higher side follows one generation at a time, so
  after a description was lost or refused nothing brings a pair past the gap (the
  relay's README 70); `CanMeet` is stated until such a miss.
* `game_adapter.cpp` 6867: a manual answer does not keep its place among the
  donor's other messages (PROTOCOL.md 160-161).
* Poe souls and bottles can be counted twice when messages travel directly from
  peer to peer; the exact counts are stated for the relay.
* A link of a newcomer that closes while a snapshot is under way: deltas are
  exact only while no link closed (`DeltaExact`).
* `floor_switch_bridge.cpp` 81-86: a second retirement replaces the guard of the
  first, so switching sharing off, on and off, or rejoining twice, while a
  remotely pressed plate is coming up lets its demo count as the local player's.
  `OnlyTheRiderActs` excludes that case.

## The proofs

Every theorem holds for all values of the constants that satisfy the named
assumption, which says only that the constants have their types, that sets that
the code makes non-empty are, and that model values are distinct from what they
must not be confused with.

**PeerDeliveryProofs** (`DeliveryAssumption`). `DeliveryInvariant`:
`Spec => [](TypeOK /\ DeliveryInv)`; `NeverProtocolFailure`;
`JournalNeverLosesFrames`; `ImplementsFifo`: `Spec => FifoSpec`. None of the
last three is inductive. That no receipt is for a future frame needs that every
receipt in flight is for applied frames (`ReceiptsCovered`); that a frame is
never too far ahead needs that the journal is contiguous, reaches down at least
to what the receiver has applied and is no longer than the window
(`JournalContiguous`), with every copy in flight carrying a number that was given
out (`FramesGenuine`); that replays on another carrier are harmless needs that
every copy of a number has the body submitted under it (`FramesGenuine`,
`HeldGenuine`). The refinement adds `AppliedPrefix`.

**SettingsBarrierProofs** (`BarrierAssumption`). `RoomInvariant`: `Spec =>
[]RoomInv`, and `RoomAgreement`: `Spec => []RoomAgrees`, through every join, loss,
kick, error and deadline. `RoomAgrees` compares a client with the relay although
notices are on their way, so the invariant has to say what is on the way. A
member is at most one commit behind, and that commit is the only one on its way
(`MemberStanding`): the relay can start the next change only after everybody it
waits for has said ready, which a client never says for more than the generation
after its own (`ReadyInTime`); and a newcomer, whom the change under way does not
wait for, reads its welcome first (`ClientStanding`). The relay waits for members only, and
for somebody exactly while a change is pending (`RoomTypes`), which is what
makes a departure that completes the change commit it. For the owner,
`OwnerStanding` says that whoever believes to be the owner, or is being told so,
is. Each action is shown to be one of a few kinds of step on a stream (something
is put behind it, its head is read, it is dropped), and each kind to keep the
invariant.

**OwnerSettingsProofs** (`OwnerAssumption`, a hypothesis of each theorem).
`TypeCorrect`, and `ReadyIsTold`: `Spec => []ReadyMeansTold`. `Inv` adds to the
types that the roster lists the members once and the owner is one of them
(`Listed`), that who owns by its own account is ready (`OwnerReady`), that a
member always takes somebody for the owner (`OwnerNamed`), and the fact that
carries the proof: no message under way carries a value its sender never had as
owner (`OnlySaid`), however late it arrives and whoever owns the room by then.
`OwnerValueArrives`: `Spec => []OwnerValueReaches`, the convergence of the
protocol. Its invariant has two parts. `NoticesInv` says what the notices a player
has not read yet will make of it: they never say of a member that it left
(`Truthful`), admit every other member (`AllAdmitted`), name the owners in their
order with the present one last (`OwnersInOrder`, `OwnerKnown`), each after it was
admitted (`OwnerAdmitted`). `WireInv` says that for every member the owner's value
is due (`Due`): arrived, on the wire, asked for, or a notice will make the member
ask or the owner tell, and that what is last on the wire is the value of now
(`ToldLatest`). Both were checked with TLC for three players before the proof.

**ProgressProofs** (`ProgressAssumption`). `TypeCorrect`; `NothingEchoes`:
`Spec => []NoEcho`, every message belongs to an act of a player; and
`QuestOnlyAdvances`: `Spec => QuestAdvances`, an action property. The setters of
the game are followed one by one: each tells at most one message, none under the
guard, and only the quest's own setters touch what its phase is read from. The
difficult part is the quest: that a slot has been emptied is news only together
with the milestone that says how far the quest is, so `SlotsBacked` says of every
stream that the milestone comes before the empty slot it backs or has been
received. `EverythingConverges`: `Spec => []ProgressConverges`, what is shared agrees
once everything is delivered. Its invariant, `Converging`, says of every moment
before that what is still on the way to a player will make up for what it lacks:
a fact or pick-up it does not have (`FactsComing`, `PickupsComing`); for every topic
that no two changes crossed there is one value, and each player has it or is told
nothing else (`OneValue`); the furthest phase of the quest is had by each or on its
way to it (`OneQuest`), and the slot is that of the phase or a message which will
change it is coming (`SlotStands`). The last needs that a milestone is followed by
the change of the slot it backs (`Followed`), and that what was had after the
item in the slot is behind the quest (`FirstsBehind`). What outlives a stage needs that
a table has the memory of the stage that was left and a repaired memory what was
observed (`Tabled`, `Sound`). Each act of a player is shown to be of one kind
(`Speaks`: it knows what it tells, and tells what is new), each message to have one
effect (`Listens`), the rest to concern nobody (`Rests`); `Converging` was checked with
TLC on two configurations before it was proved.

**UdpSessionProofs** (`InvitedAssumption`, `BoundsAssumption`). `TypeCorrect`;
`JoinsOnce`: a session is handed to the room once at most; `WindowIsExact`: the
replay window is the set of recent counters already opened, so nothing is opened
twice, for every width; `ConnectionsAreSafe`: only invited clients become
players, an admitted peer and its client hold each other's keys and session, and
the two live ends of an unfinished session can still finish it. The invariant
says what a packet under way proves of its sender (`PacketOk`), what each end
proves of the other (`ClientOk`, `PeerOk`), that slots and queues hold each peer
once (`Slots`, `Queued`) and that windows match the history of opened counters
(`History`). A fact about an end has to survive the end's closing, since its
packets do.

**FloorSwitchProofs** (`FloorAssumption`). `TypeCorrect`; `ReportsAreNew`:
`Spec => []NeverStale`, a report under way, up to the next departure, is newer
than what its receiver has, so none is ignored as old; `ContactsAreCurrent`:
`Spec => []PressureIsCurrent`, once a stream is read its receiver holds plates
down with no contact of a scene or a session that the sender has gone from. A step of a
player sends several messages through several operators, so the proof follows a
record of a step (`Steps`) through them with one relation to where it began
(`Good`). The invariant's core is `Stream`, a property of one ordered pair: the
reports under way ascend from the number the receiver has to the number the
sender has, beginning again only behind a departure, and the last of them says no
more than the sender remembers to have sent. `Returned` makes that survive a
rejoin: who has not heard that the other came back has nothing under way to it.
`PlatesNeverHoldThemselves`: `Spec => []PlatesAreShared`, once nobody stands on a
plate, all have run two frames and all is read nobody is told of one, and only
those who pressed a plate act on it. It has an invariant of its own, `Shares`, of
each player by itself: `Settled` says what a bridge has come down to in the
frames since its feet were last moved, `Guarded` that a plate which still moves
was pressed here or has the guard of the scene or of the scene that was retired.

**MeshLinkProofs** (`BoundsAssumption`, a hypothesis of each theorem).
`SignalsMatch`: `Spec => [](TypeOK /\ SignalsMatchAgents)`; `TheyCanMeet`:
`Spec => []CanMeet`; `DirectIsTried`: `Spec => [](DirectHasRoundTrip /\
CanStillFinish)`. Each action is shown to have one of six effects on an agent and
a queue, or none, and each effect to keep the invariant. Its heart is the order
of what is under way to the higher side: nothing is said of a generation its
sender has not begun (`Lead`) and nothing that waits to be sent has been said
(`Unspoken`), so descriptions climb (`Climbs`), and the side that follows never
reads one too far ahead while the one it needs is behind it (`Reach`). `Keys`
says which states of the two ends go together and what a packet under way tells.

Only model-checked: `RelayServer`, `CloudRoom`, `RoomSession`, `DirectRoom`,
`PoseStream`, `VoiceChat`, `SaveRecovery`, `StoryFence`, `ManualSync`,
`OoccooShare`, `SharedLedgers`, and of the proved modules `NoProtocolFailure`,
`OldGenerationDrained` and `AppliedAsAsked` of `SettingsBarrier`. The first two
need an invariant on top of the one proved, which says for every pair of members
where the bodies and the marker of each generation can be; `AppliedAsAsked` depends on the disagreement at `transport.cpp` 1827 and is stated without kicks.

Out of the prover's reach are liveness under fairness and
`ENABLED`, and what a recursive definition or a fold computes for every input:
the handlers of `RelayServer`, `CloudRoom`, `RoomSession`, `DirectRoom`,
`StoryFence`, `SaveRecovery`, `ManualSync` and `OoccooShare` fold over sequences of sockets,
members or messages, and their invariants would need an induction over those
folds.

## Plan

What is left, in the order of its worth:

1. `OldGenerationDrained` and `NoProtocolFailure` of `SettingsBarrier` for every
   number of clients, on top of `RoomInv`.
2. `OneSocketPerMember` and `AlarmArmed` of `CloudRoom` and `RoomsAreTheirMembers`
   of `RelayServer`, once their folds are stated as set expressions;
   `BaselineHeld` of `PoseStream`.
3. Not yet modelled: the worker's budgets (`DatagramScheduler`), the shared byte
   budget of the deliveries, the overflow of reliable events, chat history.

## Not modelled

Cryptography, byte layouts, text, logging, the menu and the host game's actors;
the vendored KCP, of which only its promise of an ordered reliable stream is
used; the cloud's lobby-code proofs, reduced to a hello that fails or not, and
the relay's, to a code and a salt; a relay upload for several recipients at
once, modelled as one for each; prediction and playback of poses, numeric code on one thread; audio mixing and
devices; launchers. `PROJECT.json` gives the reason for each component.
