---------------------------- MODULE MCOoccooShare ----------------------------
(***************************************************************************)
(* What players share of Ooccoo, and the lobbies of the relay they share it *)
(* through, which are checked on their own: a behaviour exercises one, and  *)
(* the variables of the other rest.                                         *)
(* Ooccoo has two players, in two settings.  "wide": two dungeons, one of   *)
(* them the City with its special item and its shop, and two events.        *)
(* "deep": the City alone, with three events, enough to find Ooccoo, warp   *)
(* out with her and lose her again at either player.                        *)
(***************************************************************************)
EXTENDS OoccooShare

CONSTANTS
  p1, p2,
  r1, r2, r3, here, there, Nowhere,                       \* RelayServer
  MaxClients, MaxRoomClients, QueueLimit, SeenLimit

VARIABLES
  part,
  setup, visiting, todo, gone, client, room, salts,       \* RelayServer
  member, heard, late, used

PlayerSymmetry == Permutations(Players)

Wide == INSTANCE OoccooShare WITH MaxEvents <- 2
Deep == INSTANCE OoccooShare WITH Dungeons <- {City}

\* Five situations of a relay: a group of two and a stranger that use one lobby
\* name with two codes; players of two lobbies that send datagrams; a pair that
\* loses connections and its relay and comes back; one that fills queues; and one
\* that says where it is and what it wants.
Bound(connections, losses, restarts, sends, datagrams) ==
  [connections |-> connections, losses |-> losses, restarts |-> restarts,
   sends |-> sends, datagrams |-> datagrams]
MCMembers == {r1, r2, r3}
Strangers ==
  [playing |-> MCMembers, lobby |-> [p \in MCMembers |-> here],
   code |-> [p \in MCMembers |-> IF p = r3 THEN 2 ELSE 1],
   creators |-> {r1, r3}, bound |-> Bound(3, 1, 0, 0, 0), rising |-> FALSE]
Lobbies ==
  [Strangers EXCEPT !.lobby = [p \in MCMembers |-> IF p = r3 THEN there ELSE here],
                    !.bound = Bound(2, 1, 0, 0, 2)]
Pair(bound, rising) ==
  [Strangers EXCEPT !.playing = {r1, r2}, !.bound = bound, !.rising = rising]
MCScenarios ==
  {Strangers, Lobbies, Pair(Bound(5, 1, 1, 0, 0), TRUE), Pair(Bound(2, 0, 0, 2, 0), TRUE),
   Pair(Bound(2, 0, 0, 2, 1), FALSE)}
Relay == INSTANCE RelayServer
           WITH Players <- MCMembers, Supporting <- {r1}, Scenarios <- MCScenarios,
                player <- member

ASSUME Relay!RelayServerAssumption

relayVars == <<setup, visiting, todo, gone, client, room, salts, member, heard, late, used>>

AtRest == "at rest"
SharingRests == player = AtRest /\ disk = AtRest /\ link = AtRest /\ events = AtRest
                /\ credit = AtRest
RelayRests == setup = AtRest /\ visiting = AtRest /\ todo = AtRest /\ gone = AtRest
              /\ client = AtRest /\ room = AtRest /\ salts = AtRest
              /\ member = AtRest /\ heard = AtRest /\ late = AtRest /\ used = AtRest

ShareInit == \/ part = "wide" /\ Wide!Init /\ RelayRests
             \/ part = "deep" /\ Deep!Init /\ RelayRests
             \/ part = "relay" /\ SharingRests /\ Relay!Init

ShareNext == /\ UNCHANGED part
             /\ \/ part = "wide" /\ Wide!Next /\ UNCHANGED relayVars
                \/ part = "deep" /\ Deep!Next /\ UNCHANGED relayVars
                \/ part = "relay" /\ Relay!Next /\ UNCHANGED vars

ShareSpec == ShareInit /\ [][ShareNext]_<<part, vars, relayVars>>

-----------------------------------------------------------------------------
\* In either setting receipts spread to everybody, are delivered once each and
\* never lost, and what is delivered can be used.
SharedForAll ==
  /\ part = "wide" => Wide!SharingSafety
  /\ part = "deep" => Deep!SharingSafety

\* A tick puts a form into an empty slot only for a receipt this player has not
\* had: what was taken away does not come back by itself.
NotResurrected == [][part # "relay" => \A p \in Players : ~Resurrected(p)]_<<part, vars>>

\* A lobby is its members and holds one code; what reaches a client has no gap,
\* tells it who is there, and its datagrams come from there.
RelaySafety ==
  part = "relay" =>
    /\ Relay!TypeOK /\ Relay!RoomsAreTheirMembers /\ Relay!OneCode /\ Relay!NothingAfterAGap
    /\ Relay!MembersAreTold /\ Relay!HeardInTheLobby
=============================================================================
