------------------------------- MODULE MCRooms -------------------------------
(***************************************************************************)
(* What the players of a room agree on: the floor switches they stand on,   *)
(* the setting that belongs to the owner, the membership across a lost      *)
(* socket of a cloud room, and the lobby of a direct host with its speedrun *)
(* requests.  The four share no state; a behaviour exercises the one its    *)
(* initial state names, and the variables of the others rest.               *)
(***************************************************************************)
EXTENDS FloorSwitch

CONSTANTS
  f1, f2, inside, outside, plate, latch,
  p1, p2, p3, MaxChanges,                                 \* OwnerSettings
  creator, joiner, Sockets, MaxGeneration, MaxFaults,     \* RoomSession
  g1, g2, MaxConns, MaxRuns, MaxUserActions               \* DirectRoom

VARIABLES
  part,                                                   \* the protocol exercised
  tr, roster, owner, feed, wire, said, changes,           \* OwnerSettings
  cl, sk, room, links, learned, removed, faults,          \* RoomSession
  host, link, guest, app, consent, vain, userActions      \* DirectRoom

\* A plate that comes up again in one place, one that stays down in the other.
MCSceneOf == [k \in Plates |-> IF k \in Momentary THEN inside ELSE outside]

\* Three players that come and go, two values of the setting.
MCPlayers == {p1, p2, p3}
MCValues == {0, 1}
Setting == INSTANCE OwnerSettings
             WITH Players <- MCPlayers, Values <- MCValues, Nobody <- None, me <- tr

\* Enough sockets for both to connect and for one of them to lose a socket, fail
\* to recover and connect again.
MCClients == {creator, joiner}
Session == INSTANCE RoomSession WITH Clients <- MCClients, Creator <- creator

\* Two guests, one of them without snapshot deltas.
MCGuests == {g1, g2}
MCSupporting == {g1}
Lobby == INSTANCE DirectRoom
           WITH Guests <- MCGuests, Supporting <- MCSupporting, MaxEvents <- MaxUserActions,
                events <- userActions

ASSUME Setting!OwnerAssumption /\ Session!SessionAssumption /\ Lobby!DirectRoomAssumption

settingVars == <<tr, roster, owner, feed, wire, said, changes>>
sessionVars == <<cl, sk, room, links, learned, removed, faults>>
lobbyVars == <<host, link, guest, app, consent, vain, userActions>>

AtRest == "at rest"
SettingRests == tr = AtRest /\ roster = AtRest /\ owner = AtRest /\ feed = AtRest
                /\ wire = AtRest /\ said = AtRest /\ changes = AtRest
SessionRests == cl = AtRest /\ sk = AtRest /\ room = AtRest /\ links = AtRest
                /\ learned = AtRest /\ removed = AtRest /\ faults = AtRest
LobbyRests == host = AtRest /\ link = AtRest /\ guest = AtRest /\ app = AtRest
              /\ consent = AtRest /\ vain = AtRest /\ userActions = AtRest

RoomsInit ==
  /\ Init
  /\ \/ part = "floor" /\ SettingRests /\ SessionRests /\ LobbyRests
     \/ /\ \A p \in Players : world[p].room = inside
        /\ \/ part = "setting" /\ Setting!Init /\ SessionRests /\ LobbyRests
           \/ part = "session" /\ SettingRests /\ Session!Init /\ LobbyRests
           \/ part = "lobby" /\ SettingRests /\ SessionRests /\ Lobby!Init

RoomsNext ==
  /\ UNCHANGED part
  /\ \/ part = "floor" /\ Next /\ UNCHANGED <<settingVars, sessionVars, lobbyVars>>
     \/ part = "setting" /\ Setting!Next /\ UNCHANGED <<vars, sessionVars, lobbyVars>>
     \/ part = "session" /\ Session!Next /\ UNCHANGED <<vars, settingVars, lobbyVars>>
     \/ part = "lobby" /\ Lobby!Next /\ UNCHANGED <<vars, settingVars, sessionVars>>

RoomsSpec == RoomsInit /\ [][RoomsNext]_<<part, vars, settingVars, sessionVars, lobbyVars>>

-----------------------------------------------------------------------------
(* The properties of the instances, where their protocol is the one that runs. *)

\* A player that is ready uses a value its owner has said, and once every message
\* is read every player is ready and has the owner's value.
SettingSafety ==
  part = "setting" => Setting!TypeOK /\ Setting!ReadyMeansTold /\ Setting!OwnerValueReaches

\* A client that recovers its room missed no change of it and never has two
\* memberships; one that may come back can, and one that was removed does not.
SessionSafety ==
  part = "session" =>
    /\ Session!TypeOK /\ Session!ViewsAgree /\ Session!OneMembership
    /\ Session!OwnReservationFreed /\ Session!KickedStaysOut /\ Session!NeverStranded

\* Guests that have read everything know the lobby as it is, nothing of a former
\* lobby stays, and a run starts only with everybody's consent and ends for all.
LobbySafety ==
  part = "lobby" =>
    /\ Lobby!TypeOK /\ Lobby!SettingsAgree /\ Lobby!RosterAgrees
    /\ Lobby!RemovedStaysOut /\ Lobby!FreshSession
    /\ Lobby!StartIsAgreed /\ Lobby!RunOfThisLobby /\ Lobby!PromptsEnd
=============================================================================
