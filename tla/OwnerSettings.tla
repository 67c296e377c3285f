--------------------------- MODULE OwnerSettings ---------------------------
(***************************************************************************)
(* The settings a room's owner sends to the players itself: save recovery  *)
(* and voice proximity.  The room server does not know them.  It only says *)
(* who owns the room, on the server's connection, while the settings and   *)
(* the requests for them travel between the players: a player can hear the *)
(* new owner before it hears of the new owner, and an owner can be asked   *)
(* before it knows that it is one.                                         *)
(*                                                                         *)
(* The two settings go through the same steps; one stands for both, with   *)
(* the fallback to a preference that only save recovery has.               *)
(***************************************************************************)
EXTENDS Naturals, Sequences, FiniteSets, SequencesExt

CONSTANTS
  Players,     \* the memberships of the room's life
  Values,      \* the values of the setting
  MaxChanges,  \* how often an owner changes the setting (bound)
  Nobody

OwnerAssumption ==
  /\ Nobody \notin Players
  /\ MaxChanges \in Nat

VARIABLES
  me,      \* each player's transport
  roster,  \* the members in the order of their joining
  owner,   \* the owner the server has recorded
  feed,    \* what the server has sent to each player
  wire,    \* what the players have sent each other
  said,    \* history: the values each player sent as owner
  changes

vars == <<me, roster, owner, feed, wire, said, changes>>

Outside(p, value) ==
  [in |-> FALSE, owner |-> Nobody, peers |-> {}, value |-> value,
   preferred |-> value, ready |-> FALSE]

Init ==
  /\ \E preferred \in [Players -> Values] :
       me = [p \in Players |-> Outside(p, preferred[p])]
  /\ roster = <<>>
  /\ owner = Nobody
  /\ feed = [p \in Players |-> <<>>]
  /\ wire = [p \in Players |-> [q \in Players |-> <<>>]]
  /\ said = [p \in Players |-> {}]
  /\ changes = 0

Members == ToSet(roster)
IsOwner(t, p) == t.in /\ t.owner = p

-----------------------------------------------------------------------------

\* send_mesh_message, to the target or to everyone admitted
Send(w, p, targets, msg) ==
  [w EXCEPT ![p] = [q \in Players |->
     IF q \in targets THEN Append(w[p][q], msg) ELSE w[p][q]]]

Setting(t) == [type |-> "setting", value |-> t.value]
Request == [type |-> "request", value |-> Nobody]

\* send_save_recovery_setting_to, send_voice_settings_to
Advertise(w, p, t, targets) == Send(w, p, targets, Setting(t))

\* The request of one that is not owner to the owner it has admitted
Ask(w, p, t) ==
  IF t.owner # p /\ t.owner \in t.peers THEN Send(w, p, {t.owner}, Request) ELSE w

Record(p, t) == said' = [said EXCEPT ![p] = @ \cup {t.value}]

\* The welcome: the owner is ready at once, anyone else asks.
Join(p) ==
  LET t == [me[p] EXCEPT !.in = TRUE, !.peers = Members,
                         !.owner = IF roster = <<>> THEN p ELSE owner,
                         !.ready = (roster = <<>>)]
  IN  /\ ~me[p].in
      /\ me[p].owner = Nobody
      /\ me' = [me EXCEPT ![p] = t]
      /\ roster' = Append(roster, p)
      /\ owner' = t.owner
      /\ feed' = [q \in Players |-> IF q \in Members
                    THEN Append(feed[q], [type |-> "peer_joined", id |-> p])
                    ELSE feed[q]]
      /\ wire' = Ask(wire, p, t)
      /\ IF roster = <<>> THEN Record(p, t) ELSE UNCHANGED said
      /\ UNCHANGED changes

\* A member is gone: what it sent and nobody has read may be lost.
Depart(p) ==
  LET at == CHOOSE i \in DOMAIN roster : roster[i] = p
      rest == RemoveAt(roster, at)
      next == IF owner # p THEN owner ELSE IF rest = <<>> THEN Nobody ELSE Head(rest)
      left == <<[type |-> "peer_left", id |-> p]>> \o
              IF next # owner THEN <<[type |-> "owner_changed", id |-> next]>> ELSE <<>>
  IN  /\ me[p].in
      /\ me' = [me EXCEPT ![p].in = FALSE]
      /\ roster' = rest
      /\ owner' = next
      /\ feed' = [q \in Players |-> IF q = p THEN <<>>
                    ELSE IF q \in ToSet(rest) THEN feed[q] \o left ELSE feed[q]]
      /\ \E lost \in SUBSET Players :
           wire' = [q \in Players |-> [r \in Players |->
                      IF r = p \/ (q = p /\ r \in lost) THEN <<>> ELSE wire[q][r]]]
      /\ UNCHANGED <<said, changes>>

OnOwnerChangedKeeps(t, p, id) ==
  [t EXCEPT !.owner = id, !.ready = (id = p \/ @)]

\* owner_changed: the new owner keeps the value it was given, and falls back
\* to its own preference when it was given none.
OnOwnerChanged(t, p, id) ==
  [t EXCEPT !.owner = id, !.ready = (id = p),
            !.value = IF id = p /\ ~t.ready THEN t.preferred ELSE @]

\* peer_joined, peer_left and owner_changed
ServerMessage(p) ==
  /\ me[p].in
  /\ feed[p] # <<>>
  /\ LET msg == Head(feed[p])
         t == CASE msg.type = "peer_joined" -> [me[p] EXCEPT !.peers = @ \cup {msg.id}]
                [] msg.type = "peer_left" -> [me[p] EXCEPT !.peers = @ \ {msg.id}]
                [] msg.type = "owner_changed" -> OnOwnerChanged(me[p], p, msg.id)
         w == [wire EXCEPT ![msg.id][p] = IF msg.type = "peer_left" THEN <<>> ELSE @]
     IN  /\ me' = [me EXCEPT ![p] = t]
         /\ wire' = IF msg.type # "owner_changed" THEN w
                    ELSE IF msg.id = p THEN Advertise(wire, p, t, t.peers)
                    ELSE Ask(wire, p, t)
         /\ IF msg.type = "owner_changed" /\ msg.id = p THEN Record(p, t)
            ELSE UNCHANGED said
  /\ feed' = [feed EXCEPT ![p] = Tail(@)]
  /\ UNCHANGED <<roster, owner, changes>>

\* voice_settings_request, save_recovery_setting_request
OnRequest(w, p, q) ==
  IF IsOwner(me[p], p) THEN Advertise(w, p, me[p], {q}) ELSE w

\* voice_settings, save_recovery_setting: only the owner's is taken.
OnSetting(t, q, value) ==
  IF q # t.owner THEN t ELSE [t EXCEPT !.value = value, !.ready = TRUE]

\* A message of another player; a route exists once both have admitted it.
PeerMessage(q, p) ==
  /\ me[p].in
  /\ q \in me[p].peers
  /\ wire[q][p] # <<>>
  /\ LET msg == Head(wire[q][p])
         w == [wire EXCEPT ![q][p] = Tail(@)]
     IN  IF msg.type = "request"
         THEN wire' = OnRequest(w, p, q) /\ UNCHANGED me
         ELSE wire' = w /\ me' = [me EXCEPT ![p] = OnSetting(@, q, msg.value)]
  /\ UNCHANGED <<roster, owner, feed, said, changes>>

\* The menu's controls are locked for everyone but the owner, and report only
\* what changes.
Chosen(p, value) == IsOwner(me[p], p) /\ value # me[p].value

\* publish_save_recovery_setting, publish_voice_settings
Publish(p, value) ==
  LET t == [me[p] EXCEPT !.value = value, !.preferred = value, !.ready = TRUE] IN
  /\ Chosen(p, value)
  /\ changes < MaxChanges
  /\ changes' = changes + 1
  /\ me' = [me EXCEPT ![p] = t]
  /\ wire' = Advertise(wire, p, t, t.peers)
  /\ Record(p, t)
  /\ UNCHANGED <<roster, owner, feed>>

Next ==
  \/ \E p \in Players : Join(p) \/ Depart(p) \/ ServerMessage(p)
  \/ \E p, q \in Players : PeerMessage(q, p)
  \/ \E p \in Players, value \in Values : Publish(p, value)

Spec == Init /\ [][Next]_vars

-----------------------------------------------------------------------------

\* The states are well formed, and who owns the room is ready.
TypeOK ==
  /\ me \in [Players -> [in : BOOLEAN, owner : Players \cup {Nobody},
                         peers : SUBSET Players, value : Values,
                         preferred : Values, ready : BOOLEAN]]
  /\ \A p \in Players : IsOwner(me[p], p) => me[p].ready
  /\ owner \in Players \cup {Nobody}
  /\ changes \in 0..MaxChanges

Quiet == /\ \A p \in Players : feed[p] = <<>>
         /\ \A p, q \in Members : wire[p][q] = <<>>

\* Whatever order the server's and the players' messages arrive in, once all
\* of them are read every player is ready and has the owner's value.
OwnerValueReaches ==
  Quiet => \A p \in Members : me[p].ready /\ me[p].value = me[owner].value

\* A player that is ready uses a value its owner has said, never one left over
\* from an earlier owner or taken from a player that does not own the room.
ReadyMeansTold ==
  \A p \in Players : (me[p].in /\ me[p].ready) => me[p].value \in said[me[p].owner]
=============================================================================
