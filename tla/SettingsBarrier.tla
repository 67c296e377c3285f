--------------------------- MODULE SettingsBarrier ---------------------------
(***************************************************************************)
(* One relay room: membership, ownership and the barrier that changes the  *)
(* room's settings between two pieces of reliable gameplay.                *)
(*                                                                         *)
(* The relay is a single-threaded loop, each client a single-threaded tick.*)
(* They talk over reliable ordered streams: up[c] and down[c] between a    *)
(* client and the relay, link[s][r] between two clients that have a direct *)
(* route.  Gameplay between two clients without one goes through the relay *)
(* ("peer_reliable").  Either way one pair's bodies stay in order, which   *)
(* is what PeerDelivery establishes; here the route of a pair is fixed.    *)
(*                                                                         *)
(* A client that fails, leaves or is thrown out is never the same client   *)
(* again: it reconnects under a new identity.                              *)
(***************************************************************************)
EXTENDS Integers, Sequences, FiniteSets

CONSTANTS
  Client,         \* client identities
  Setting,        \* room settings values
  FirstSetting,   \* the settings the creator of the room sends with its hello
  None,           \* no settings, no target
  Direct,         \* the pairs {s, r} of clients with a direct route
  MaxRoomClients, \* kMaxRoomClients, 8 in the code
  MaxDeferred,    \* the bound of deferredSends, 4096 in the code
  MaxSubmissions, \* bound: gameplay messages and settings changes submitted
  MaxDepartures,  \* bound: connections lost although nothing went wrong
  MaxKicks,       \* bound: kicks by an owner
  Deadlines       \* TRUE if the 30 second deadlines may pass

ASSUME BarrierAssumption ==
  /\ None \notin Client \cup Setting
  /\ FirstSetting \in Setting
  /\ Direct \subseteq {{s, r} : s \in Client, r \in Client}
  /\ MaxRoomClients \in Nat \ {0}
  /\ {MaxDeferred, MaxSubmissions, MaxDepartures, MaxKicks} \subseteq Nat
  /\ Deadlines \in BOOLEAN

VARIABLES
  \* The relay's Room.
  members,      \* clientIds: in order of arrival
  owner,        \* ownerClientId
  generation,   \* settingsGeneration
  settings,     \* the settings in force
  pending,      \* pendingSettings
  waiting,      \* settingsWaiting
  closing,      \* members with closeAfterFlush: no longer read from
  \* The streams.
  up, down, link,
  \* The clients.
  phase,        \* "out", "joining", "in" or "gone"
  why,          \* what ended the client's session
  peers,        \* meshLinks
  isOwner,      \* status.isOwner
  cgen,         \* settingsGeneration
  cset,         \* status.settings
  requested,    \* settingsRequested
  barrier,      \* settingsBarrier
  observer,     \* barrierObserver
  ready,        \* barrierReady
  expected,     \* barrierExpected
  seen,         \* barrierSeen
  futureSeen,   \* futureBarrierSeen
  deferred,     \* deferredSends
  future,       \* futureGameplay, per peer
  \* History and bounds.
  agreed,       \* the settings the relay committed for each generation
  asked,        \* the settings each client last asked for
  applied,      \* how gameplay was applied
  spent         \* how much of each bound has been used

relayVars == <<members, owner, generation, settings, pending, waiting, closing, agreed>>
netVars == <<up, down, link>>
barrierVars == <<cgen, cset, requested, barrier, observer, ready, expected, seen, futureSeen>>
sessionVars == <<phase, why, peers, isOwner>>
queueVars == <<deferred, future>>
historyVars == <<asked, applied, spent>>
vars == <<relayVars, netVars, barrierVars, sessionVars, queueVars, historyVars>>

Members == {members[i] : i \in DOMAIN members}

\* Gameplay of one settings generation, or the marker that ends it.
Gameplay(g, after) == [kind |-> "gameplay", generation |-> g, after |-> after]
Marker(g) == [kind |-> "barrier", generation |-> g, after |-> None]

Init ==
  /\ members = <<>>
  /\ owner = None
  /\ generation = 0
  /\ settings = None
  /\ pending = None
  /\ waiting = {}
  /\ closing = {}
  /\ up = [c \in Client |-> <<>>]
  /\ down = [c \in Client |-> <<>>]
  /\ link = [s \in Client |-> [r \in Client |-> <<>>]]
  /\ phase = [c \in Client |-> "out"]
  /\ why = [c \in Client |-> "none"]
  /\ peers = [c \in Client |-> {}]
  /\ isOwner = [c \in Client |-> FALSE]
  /\ cgen = [c \in Client |-> 0]
  /\ cset = [c \in Client |-> None]
  /\ requested = [c \in Client |-> FALSE]
  /\ barrier = [c \in Client |-> FALSE]
  /\ observer = [c \in Client |-> FALSE]
  /\ ready = [c \in Client |-> FALSE]
  /\ expected = [c \in Client |-> {}]
  /\ seen = [c \in Client |-> {}]
  /\ futureSeen = [c \in Client |-> {}]
  /\ deferred = [c \in Client |-> <<>>]
  /\ future = [c \in Client |-> [s \in Client |-> <<>>]]
  /\ agreed = <<>>
  /\ asked = [c \in Client |-> None]
  /\ applied = {}
  /\ spent = [submissions |-> 0, departures |-> 0, kicks |-> 0]

Spend(what, limit) ==
  /\ spent[what] < limit
  /\ spent' = [spent EXCEPT ![what] = @ + 1]

-----------------------------------------------------------------------------
(***************************************************************************)
(* Sending, at a client.                                                   *)
(***************************************************************************)

\* The peers a gameplay message is for.
Recipients(c, item) ==
  IF item.target = None THEN peers[c] ELSE {item.target}

\* The elements of q at the positions in K, in their order.
Pick(q, K) ==
  LET f[n \in 0 .. Len(q)] ==
        IF n = 0 THEN <<>>
        ELSE IF n \in K THEN Append(f[n - 1], q[n]) ELSE f[n - 1]
  IN f[Len(q)]

\* The bodies among items that go to r over the direct link.
DirectBodies(c, items, r) ==
  LET mine == Pick(items, {i \in DOMAIN items :
                /\ items[i].kind = "gameplay"
                /\ r \in Recipients(c, items[i])
                /\ {c, r} \in Direct})
  IN [i \in DOMAIN mine |-> Gameplay(cgen[c], mine[i].after)]

\* What items make the client upload: one copy of a body for all recipients
\* without a direct route, and the settings change.
Upload(c, item) ==
  IF item.kind = "settings"
  THEN [type |-> "room_settings", settings |-> item.settings]
  ELSE [type |-> "peer_reliable",
        recipients |-> {r \in Recipients(c, item) : {c, r} \notin Direct},
        body |-> Gameplay(cgen[c], item.after)]

Uploads(c, items) ==
  LET all == [i \in DOMAIN items |-> Upload(c, items[i])]
  IN Pick(all, {i \in DOMAIN all : \/ all[i].type = "room_settings"
                                   \/ all[i].recipients # {}})

\* send_mesh_message for items of which only the last may change settings.
SendItems(c, items) ==
  /\ link' = [link EXCEPT ![c] = [r \in Client |-> @[r] \o DirectBodies(c, items, r)]]
  /\ up' = [up EXCEPT ![c] = @ \o Uploads(c, items)]
  /\ requested' = [requested EXCEPT ![c] =
                     \E i \in DOMAIN items : items[i].kind = "settings"]

\* The session ends; the connection is closed and the identity is not reused.
Fail(c, reason) ==
  /\ phase' = [phase EXCEPT ![c] = "gone"]
  /\ why' = [why EXCEPT ![c] = reason]

\* Mutant: a requested change does not hold back what follows it.
PausingInBarrier(c) == barrier[c]

Pausing(c) == requested[c] \/ barrier[c]

\* Mutant: the last message held back is forgotten.
FlushableButLast(c) == ~Pausing(c) /\ Len(deferred[c]) > 1

\* What the tick that ended the pause still has to send: the application gets
\* no chance to submit before that tick's pump has flushed it.
Flushable(c) == ~Pausing(c) /\ deferred[c] # <<>>

SubmitItem(c, item) ==
  /\ phase[c] = "in"
  /\ ~Flushable(c)
  /\ Spend("submissions", MaxSubmissions)
  /\ IF ~Pausing(c)
     THEN SendItems(c, <<item>>) /\ UNCHANGED <<deferred, phase, why>>
     ELSE /\ IF Len(deferred[c]) >= MaxDeferred
             THEN Fail(c, "limit") /\ UNCHANGED deferred
             ELSE /\ deferred' = [deferred EXCEPT ![c] = Append(@, item)]
                  /\ UNCHANGED <<phase, why>>
          /\ UNCHANGED <<link, up, requested>>
  /\ UNCHANGED <<relayVars, down, cgen, cset, barrier, observer, ready, expected,
                 seen, futureSeen, peers, isOwner, future, applied>>

\* Gameplay for every peer, or for one of them.
SubmitGameplay(c, target) ==
  /\ target \in peers[c] \cup {None}
  /\ SubmitItem(c, [kind |-> "gameplay", target |-> target, after |-> asked[c]])
  /\ UNCHANGED asked

\* The owner changes the room's settings.
SubmitSettings(c, v) ==
  /\ isOwner[c]
  /\ SubmitItem(c, [kind |-> "settings", settings |-> v])
  /\ asked' = [asked EXCEPT ![c] = v]

\* The pump sends what the pause held back, up to and including the next
\* settings change; a message for a peer that has left meanwhile fails.
FlushDeferred(c) ==
  /\ phase[c] = "in"
  /\ Flushable(c)
  /\ LET changes == {i \in DOMAIN deferred[c] : deferred[c][i].kind = "settings"}
         n == IF changes = {} THEN Len(deferred[c])
              ELSE CHOOSE i \in changes : \A j \in changes : i <= j
         items == SubSeq(deferred[c], 1, n)
         lost == \E i \in 1 .. n : /\ items[i].kind = "gameplay"
                                   /\ items[i].target \notin peers[c] \cup {None}
     IN IF lost
        THEN Fail(c, "send") /\ UNCHANGED <<deferred, link, up, requested>>
        ELSE /\ SendItems(c, items)
             /\ deferred' = [deferred EXCEPT ![c] = SubSeq(@, n + 1, Len(@))]
             /\ UNCHANGED <<phase, why>>
  /\ UNCHANGED <<relayVars, down, cgen, cset, barrier, observer, ready, expected,
                 seen, futureSeen, peers, isOwner, future, historyVars>>

\* The owner removes a member it sees in its roster.
SubmitKick(c, target) ==
  /\ phase[c] = "in"
  /\ isOwner[c]
  /\ target \in peers[c]
  /\ Spend("kicks", MaxKicks)
  /\ up' = [up EXCEPT ![c] = Append(@, [type |-> "kick", target |-> target])]
  /\ UNCHANGED <<relayVars, down, link, barrierVars, sessionVars, queueVars, asked, applied>>

-----------------------------------------------------------------------------
(***************************************************************************)
(* The relay.                                                              *)
(***************************************************************************)

\* Members a broadcast reaches.
Open == Members \ closing

\* The messages tell(c) are sent to every client c; nobody reads the stream of
\* a client that has closed it.
Tell(tell(_)) ==
  down' = [c \in Client |-> IF phase[c] = "gone" THEN <<>> ELSE down[c] \o tell(c)]

When(condition, message) == IF condition THEN <<message>> ELSE <<>>

\* finish_settings with w the participants still awaited: nobody is.
Commits(w) == pending # None /\ w = {}

Commit(o) == [type |-> "room_settings", generation |-> generation + 1,
              settings |-> pending, owner |-> o]

FinishSettings(w) ==
  /\ waiting' = w
  /\ IF Commits(w)
     THEN /\ settings' = pending
          /\ pending' = None
          /\ generation' = generation + 1
          /\ agreed' = Append(agreed, pending)
     ELSE UNCHANGED <<settings, pending, generation, agreed>>

\* The next message of a client the relay still reads from.
Incoming(c, type) ==
  /\ c \in Open
  /\ up[c] # <<>>
  /\ Head(up[c]).type = type
  /\ up' = [up EXCEPT ![c] = Tail(@)]

\* Mutant: a newcomer is given the settings that are not yet committed.
WelcomePending(o, s) ==
  [type |-> "welcome", generation |-> generation, pending |-> pending # None,
   settings |-> IF pending # None THEN pending ELSE s, owner |-> o, peers |-> Members]

Welcome(o, s) ==
  [type |-> "welcome", generation |-> generation, pending |-> pending # None,
   settings |-> s, owner |-> o, peers |-> Members]

\* The first client creates the room, with the first settings as its own; the
\* next ones join it, in the middle of a settings change if there is one.
RouteHello(c) ==
  /\ c \notin Members
  /\ up[c] # <<>>
  /\ Head(up[c]).type = "hello"
  /\ up' = [up EXCEPT ![c] = Tail(@)]
  /\ IF Len(members) >= MaxRoomClients
     THEN /\ Tell(LAMBDA r : When(r = c, [type |-> "error"]))
          /\ UNCHANGED <<members, owner, settings, agreed>>
     ELSE /\ members' = Append(members, c)
          /\ owner' = IF members = <<>> THEN c ELSE owner
          /\ settings' = IF members = <<>> THEN FirstSetting ELSE settings
          /\ agreed' = IF members = <<>> THEN <<FirstSetting>> ELSE agreed
          /\ Tell(LAMBDA r :
               IF r = c THEN <<Welcome(owner', settings')>>
               ELSE When(r \in Open, [type |-> "peer_joined", id |-> c]))
  /\ UNCHANGED <<generation, pending, waiting, closing, link, barrierVars,
                 sessionVars, queueVars, historyVars>>

\* A fallback upload is relayed to each recipient, but an upload that names
\* somebody who is not a member costs its sender the session.
RoutePeerReliable(c) ==
  /\ Incoming(c, "peer_reliable")
  /\ LET m == Head(up[c])
     IN IF m.recipients \subseteq Members
        THEN /\ Tell(LAMBDA r : When(r \in m.recipients \ closing,
                       [type |-> "peer_reliable", from |-> c, body |-> m.body]))
             /\ UNCHANGED closing
        ELSE /\ Tell(LAMBDA r : When(r = c, [type |-> "error"]))
             /\ closing' = closing \cup {c}
  /\ UNCHANGED <<members, owner, generation, settings, pending, waiting, agreed, link,
                 barrierVars, sessionVars, queueVars, historyVars>>

\* The owner's change starts the barrier among the present members.
RouteRoomSettings(c) ==
  /\ Incoming(c, "room_settings")
  /\ IF owner = c /\ pending = None
     THEN /\ pending' = Head(up[c]).settings
          /\ waiting' = Members
          /\ Tell(LAMBDA r : When(r \in Open,
                    [type |-> "settings_prepare", generation |-> generation + 1,
                     participants |-> Members]))
     ELSE /\ Tell(LAMBDA r : When(r = c, [type |-> "error"]))
          /\ UNCHANGED <<pending, waiting>>
  /\ UNCHANGED <<members, owner, generation, settings, closing, agreed, link,
                 barrierVars, sessionVars, queueVars, historyVars>>

\* The last participant to be ready commits the change.
RouteSettingsReady(c) ==
  /\ Incoming(c, "settings_ready")
  /\ IF pending # None /\ Head(up[c]).generation = generation + 1
     THEN /\ FinishSettings(waiting \ {c})
          /\ Tell(LAMBDA r : When(r \in Members /\ Commits(waiting \ {c}), Commit(owner)))
     ELSE UNCHANGED <<waiting, settings, pending, generation, agreed, down>>
  /\ UNCHANGED <<members, owner, closing, link, barrierVars, sessionVars, queueVars,
                 historyVars>>

RouteKick(c) ==
  /\ Incoming(c, "kick")
  /\ LET target == Head(up[c]).target
     IN IF owner = c /\ target \in Open \ {c}
        THEN /\ closing' = closing \cup {target}
             /\ Tell(LAMBDA r : When(r = target, [type |-> "kicked"]))
        ELSE /\ Tell(LAMBDA r : When(r = c, [type |-> "error"]))
             /\ UNCHANGED closing
  /\ UNCHANGED <<members, owner, generation, settings, pending, waiting, agreed, link,
                 barrierVars, sessionVars, queueVars, historyVars>>

\* The next in order of arrival becomes the owner.
Successor(c, left) == IF owner = c /\ left # <<>> THEN Head(left) ELSE owner

AwaitedWithout(c) == waiting \ {c}

\* remove_client: the others learn of the departure, then of the new owner,
\* and a settings change that waited only for this member is committed.
RemoveClient(c) ==
  LET left == Pick(members, {i \in DOMAIN members : members[i] # c})
      next == Successor(c, left)
      awaited == AwaitedWithout(c)
      told(r) == r \in Open \ {c}
  IN /\ c \in Members
     /\ members' = left
     /\ closing' = closing \ {c}
     /\ IF left = <<>>
        THEN /\ owner' = None
             /\ generation' = 0
             /\ settings' = None
             /\ pending' = None
             /\ waiting' = {}
             /\ agreed' = <<>>
             /\ UNCHANGED down
        ELSE /\ owner' = next
             /\ FinishSettings(awaited)
             /\ Tell(LAMBDA r :
                  When(told(r), [type |-> "peer_left", id |-> c]) \o
                  When(told(r) /\ next # owner, [type |-> "owner_changed", owner |-> next]) \o
                  When(r \in Members \ {c} /\ Commits(awaited), Commit(next)))
     /\ UNCHANGED <<up, link, barrierVars, sessionVars, queueVars, asked, applied>>

\* The connection of a client that is done, or is being closed, goes down.
Close(c) ==
  /\ c \in closing \/ phase[c] = "gone"
  /\ RemoveClient(c)
  /\ UNCHANGED spent

\* A connection is lost; the client does not know yet.
LoseConnection(c) ==
  /\ phase[c] # "gone"
  /\ c \notin closing
  /\ Spend("departures", MaxDepartures)
  /\ RemoveClient(c)

\* A settings change that takes longer than 30 seconds ends the room.
RoomDeadline ==
  /\ Deadlines
  /\ pending # None
  /\ members' = <<>>
  /\ owner' = None
  /\ generation' = 0
  /\ settings' = None
  /\ pending' = None
  /\ waiting' = {}
  /\ closing' = {}
  /\ agreed' = <<>>
  /\ UNCHANGED <<netVars, barrierVars, sessionVars, queueVars, historyVars>>

-----------------------------------------------------------------------------
(***************************************************************************)
(* Receiving, at a client.                                                 *)
(***************************************************************************)

Join(c) ==
  /\ phase[c] = "out"
  /\ phase' = [phase EXCEPT ![c] = "joining"]
  /\ up' = [up EXCEPT ![c] = Append(@, [type |-> "hello"])]
  /\ UNCHANGED <<relayVars, down, link, barrierVars, why, peers, isOwner, queueVars,
                 historyVars>>

\* The next message of the relay's stream.
Primary(c, type) ==
  /\ phase[c] = "in"
  /\ down[c] # <<>>
  /\ Head(down[c]).type = type
  /\ down' = [down EXCEPT ![c] = Tail(@)]

ReceiveWelcome(c) ==
  /\ phase[c] = "joining"
  /\ down[c] # <<>>
  /\ down' = [down EXCEPT ![c] = Tail(@)]
  /\ LET m == Head(down[c])
     IN IF m.type = "welcome"
        THEN /\ phase' = [phase EXCEPT ![c] = "in"]
             /\ peers' = [peers EXCEPT ![c] = m.peers]
             /\ isOwner' = [isOwner EXCEPT ![c] = m.owner = c]
             /\ cgen' = [cgen EXCEPT ![c] = m.generation]
             /\ cset' = [cset EXCEPT ![c] = m.settings]
             /\ barrier' = [barrier EXCEPT ![c] = m.pending]
             /\ observer' = [observer EXCEPT ![c] = m.pending]
             /\ UNCHANGED why
        ELSE /\ Fail(c, "refused")
             /\ UNCHANGED <<peers, isOwner, cgen, cset, barrier, observer>>
  /\ UNCHANGED <<relayVars, up, link, requested, ready, expected, seen, futureSeen,
                 queueVars, historyVars>>

ReceivePeerJoined(c) ==
  /\ Primary(c, "peer_joined")
  /\ peers' = [peers EXCEPT ![c] = @ \cup {Head(down[c]).id}]
  /\ UNCHANGED <<relayVars, up, link, barrierVars, phase, why, isOwner, queueVars,
                 historyVars>>

\* Mutant: the barrier still expects the marker of a departed peer.
PeerLeftStillExpected(c) ==
  /\ Primary(c, "peer_left")
  /\ LET id == Head(down[c]).id
     IN /\ peers' = [peers EXCEPT ![c] = @ \ {id}]
        /\ seen' = [seen EXCEPT ![c] = @ \ {id}]
        /\ futureSeen' = [futureSeen EXCEPT ![c] = @ \ {id}]
        /\ future' = [future EXCEPT ![c][id] = <<>>]
        /\ link' = [link EXCEPT ![id][c] = <<>>, ![c][id] = <<>>]
  /\ UNCHANGED <<relayVars, up, cgen, cset, requested, barrier, observer, ready,
                 expected, phase, why, isOwner, deferred, historyVars>>

\* Everything kept for the departed peer goes, its part in the barrier too.
ReceivePeerLeft(c) ==
  /\ Primary(c, "peer_left")
  /\ LET id == Head(down[c]).id
     IN /\ peers' = [peers EXCEPT ![c] = @ \ {id}]
        /\ expected' = [expected EXCEPT ![c] = @ \ {id}]
        /\ seen' = [seen EXCEPT ![c] = @ \ {id}]
        /\ futureSeen' = [futureSeen EXCEPT ![c] = @ \ {id}]
        /\ future' = [future EXCEPT ![c][id] = <<>>]
        /\ link' = [link EXCEPT ![id][c] = <<>>, ![c][id] = <<>>]
  /\ UNCHANGED <<relayVars, up, cgen, cset, requested, barrier, observer, ready,
                 phase, why, isOwner, deferred, historyVars>>

ReceiveOwnerChanged(c) ==
  /\ Primary(c, "owner_changed")
  /\ isOwner' = [isOwner EXCEPT ![c] = Head(down[c]).owner = c]
  /\ UNCHANGED <<relayVars, up, link, barrierVars, phase, why, peers, queueVars,
                 historyVars>>

\* The barrier begins: a marker closes the old generation toward every other
\* participant, on the route that gameplay takes.
ReceiveSettingsPrepare(c) ==
  /\ Primary(c, "settings_prepare")
  /\ LET m == Head(down[c])
         others == m.participants \ {c}
         mark == Marker(cgen[c] + 1)
     IN IF barrier[c] \/ m.generation # cgen[c] + 1 \/ ~(others \subseteq peers[c])
        THEN Fail(c, "protocol") /\ UNCHANGED <<barrier, ready, observer, expected, link, up>>
        ELSE /\ barrier' = [barrier EXCEPT ![c] = TRUE]
             /\ ready' = [ready EXCEPT ![c] = FALSE]
             /\ observer' = [observer EXCEPT ![c] = FALSE]
             /\ expected' = [expected EXCEPT ![c] = others]
             /\ link' = [link EXCEPT ![c] = [r \in Client |->
                           @[r] \o When(r \in others /\ {c, r} \in Direct, mark)]]
             /\ LET relayed == {r \in others : {c, r} \notin Direct}
                IN up' = [up EXCEPT ![c] = @ \o When(relayed # {},
                            [type |-> "peer_reliable", recipients |-> relayed,
                             body |-> mark])]
             /\ UNCHANGED <<phase, why>>
  /\ UNCHANGED <<relayVars, cgen, cset, requested, seen, futureSeen, peers, isOwner,
                 queueVars, historyVars>>

\* The commit: markers that came early now count for the next transition.
ReceiveRoomSettings(c) ==
  /\ Primary(c, "room_settings")
  /\ LET m == Head(down[c])
     IN IF ~barrier[c] \/ m.generation # cgen[c] + 1 \/ (~observer[c] /\ ~ready[c])
        THEN Fail(c, "protocol") /\ UNCHANGED <<barrierVars, isOwner>>
        ELSE /\ cgen' = [cgen EXCEPT ![c] = m.generation]
             /\ cset' = [cset EXCEPT ![c] = m.settings]
             /\ isOwner' = [isOwner EXCEPT ![c] = m.owner = c]
             /\ requested' = [requested EXCEPT ![c] = FALSE]
             /\ barrier' = [barrier EXCEPT ![c] = FALSE]
             /\ observer' = [observer EXCEPT ![c] = FALSE]
             /\ ready' = [ready EXCEPT ![c] = FALSE]
             /\ expected' = [expected EXCEPT ![c] = {}]
             /\ seen' = [seen EXCEPT ![c] = futureSeen[c]]
             /\ futureSeen' = [futureSeen EXCEPT ![c] = {}]
             /\ UNCHANGED <<phase, why>>
  /\ UNCHANGED <<relayVars, up, link, peers, queueVars, historyVars>>

\* Any error outside a barrier ends the wait for a requested change.
ReceiveError(c) ==
  /\ Primary(c, "error")
  /\ requested' = [requested EXCEPT ![c] = @ /\ barrier[c]]
  /\ UNCHANGED <<relayVars, up, link, cgen, cset, barrier, observer, ready, expected,
                 seen, futureSeen, sessionVars, queueVars, historyVars>>

ReceiveKicked(c) ==
  /\ Primary(c, "kicked")
  /\ Fail(c, "kicked")
  /\ UNCHANGED <<relayVars, up, link, barrierVars, peers, isOwner, queueVars, historyVars>>

\* Gameplay of the next generation that the local commit has now caught up with.
Caught(c, s) ==
  LET ok == {n \in 0 .. Len(future[c][s]) :
               \A i \in 1 .. n : future[c][s][i].generation = cgen[c]}
  IN CHOOSE n \in ok : \A k \in ok : k <= n

\* A record of gameplay applied under the settings now in force at c.
Applications(c, bodies) ==
  {[after |-> bodies[i].after, settings |-> cset[c]] : i \in DOMAIN bodies}

\* Mutant: nothing may come from a peer that has seen the commit first.
ImpossibleAhead(c, s, body) ==
  ~ \/ body.kind = "barrier" /\ body.generation = cgen[c] + 1 /\ s \notin seen[c]
    \/ body.kind = "gameplay" /\ body.generation = cgen[c] /\ s \notin seen[c]

\* A body cannot be right here: its sender had already closed the generation,
\* or it runs further ahead than a commit this client has yet to see.
Impossible(c, s, body) ==
  LET early == barrier[c] /\ (ready[c] \/ observer[c])
  IN IF body.kind = "barrier"
     THEN ~ \/ body.generation = cgen[c] + 1 /\ s \notin seen[c]
            \/ body.generation = cgen[c] + 2 /\ early /\ s \notin futureSeen[c]
     ELSE ~ \/ body.generation = cgen[c] /\ s \notin seen[c]
            \/ body.generation = cgen[c] + 1 /\ early

\* apply_delivery_body: what is held and has become current goes first.
ApplyDeliveryBody(c, s, body) ==
  LET n == Caught(c, s)
      held == SubSeq(future[c][s], n + 1, Len(future[c][s]))
      released == SubSeq(future[c][s], 1, n)
      now == body.kind = "gameplay" /\ body.generation = cgen[c]
      later == body.kind = "gameplay" /\ body.generation # cgen[c]
      marks(g) == body.kind = "barrier" /\ body.generation = g
  IN IF s \notin peers[c]
     THEN UNCHANGED <<phase, why, seen, futureSeen, future, applied>>
     ELSE IF Impossible(c, s, body)
     THEN /\ Fail(c, "protocol")
          /\ applied' = applied \cup Applications(c, released)
          /\ UNCHANGED <<seen, futureSeen, future>>
     ELSE /\ seen' = [seen EXCEPT ![c] =
                        IF marks(cgen[c] + 1) THEN @ \cup {s} ELSE @]
          /\ futureSeen' = [futureSeen EXCEPT ![c] =
                              IF marks(cgen[c] + 2) THEN @ \cup {s} ELSE @]
          /\ future' = [future EXCEPT ![c][s] = held \o When(later, body)]
          /\ applied' = applied \cup Applications(c, released)
                                \cup Applications(c, When(now, body))
          /\ UNCHANGED <<phase, why>>

ReceiveRelayed(c) ==
  /\ Primary(c, "peer_reliable")
  /\ ApplyDeliveryBody(c, Head(down[c]).from, Head(down[c]).body)
  /\ UNCHANGED <<relayVars, up, link, cgen, cset, requested, barrier, observer, ready,
                 expected, peers, isOwner, deferred, asked, spent>>

\* The direct link is read once both ends know each other.
ReceiveDirect(c, s) ==
  /\ phase[c] = "in"
  /\ s \in peers[c]
  /\ link[s][c] # <<>>
  /\ link' = [link EXCEPT ![s][c] = Tail(@)]
  /\ ApplyDeliveryBody(c, s, Head(link[s][c]))
  /\ UNCHANGED <<relayVars, up, down, cgen, cset, requested, barrier, observer, ready,
                 expected, peers, isOwner, deferred, asked, spent>>

\* The pump applies held gameplay without waiting for another body.
DrainFuture(c, s) ==
  /\ phase[c] = "in"
  /\ s \in peers[c]
  /\ Caught(c, s) > 0
  /\ LET n == Caught(c, s)
     IN /\ applied' = applied \cup Applications(c, SubSeq(future[c][s], 1, n))
        /\ future' = [future EXCEPT ![c][s] = SubSeq(@, n + 1, Len(@))]
  /\ UNCHANGED <<relayVars, netVars, barrierVars, sessionVars, deferred, asked, spent>>

\* Mutant: a client is ready before the others' markers have arrived.
MarkedAtOnce(c) == TRUE

\* Every participant that is still here has closed the old generation.
AllMarked(c) == expected[c] \subseteq seen[c]

BecomeReady(c) ==
  /\ phase[c] = "in"
  /\ barrier[c] /\ ~observer[c] /\ ~ready[c]
  /\ AllMarked(c)
  /\ ready' = [ready EXCEPT ![c] = TRUE]
  /\ up' = [up EXCEPT ![c] = Append(@,
              [type |-> "settings_ready", generation |-> cgen[c] + 1])]
  /\ UNCHANGED <<relayVars, down, link, cgen, cset, requested, barrier, observer,
                 expected, seen, futureSeen, sessionVars, queueVars, historyVars>>

\* 30 seconds without an answer to a request or an end of the barrier.
ClientDeadline(c) ==
  /\ Deadlines
  /\ phase[c] = "in"
  /\ Pausing(c)
  /\ Fail(c, "deadline")
  /\ UNCHANGED <<relayVars, netVars, barrierVars, peers, isOwner, queueVars, historyVars>>

\* The client notices that the relay has dropped it.
NoticeClosed(c) ==
  /\ phase[c] \in {"joining", "in"}
  /\ c \notin Members
  /\ ~ (up[c] # <<>> /\ Head(up[c]).type = "hello")
  /\ down[c] = <<>>
  /\ Fail(c, "closed")
  /\ UNCHANGED <<relayVars, netVars, barrierVars, peers, isOwner, queueVars, historyVars>>

-----------------------------------------------------------------------------
\* The relay reads a client's stream, or is done with the client.
RelayTick(c) ==
  \/ RouteHello(c)
  \/ RoutePeerReliable(c)
  \/ RouteRoomSettings(c)
  \/ RouteSettingsReady(c)
  \/ RouteKick(c)
  \/ Close(c)

ReceivePrimary(c) ==
  \/ ReceiveWelcome(c)
  \/ ReceivePeerJoined(c)
  \/ ReceivePeerLeft(c)
  \/ ReceiveOwnerChanged(c)
  \/ ReceiveSettingsPrepare(c)
  \/ ReceiveRoomSettings(c)
  \/ ReceiveError(c)
  \/ ReceiveKicked(c)
  \/ ReceiveRelayed(c)

PumpDeliveries(c) ==
  \/ \E s \in Client : ReceiveDirect(c, s) \/ DrainFuture(c, s)
  \/ BecomeReady(c)
  \/ FlushDeferred(c)

Environment(c) ==
  \/ Join(c)
  \/ \E target \in Client \cup {None} : SubmitGameplay(c, target)
  \/ \E v \in Setting : SubmitSettings(c, v)
  \/ \E target \in Client : SubmitKick(c, target)
  \/ LoseConnection(c)
  \/ ClientDeadline(c)

ClientTick(c) == ReceivePrimary(c) \/ PumpDeliveries(c) \/ NoticeClosed(c)

Next ==
  \/ \E c \in Client : RelayTick(c) \/ ClientTick(c) \/ Environment(c)
  \/ RoomDeadline

Spec == Init /\ [][Next]_vars

\* The relay and the clients tick forever, and a closed connection is noticed.
\* Nothing is assumed of players, connections or deadlines.
Fairness == \A c \in Client : WF_vars(RelayTick(c)) /\ WF_vars(ClientTick(c))

FairSpec == Spec /\ Fairness

-----------------------------------------------------------------------------
(***************************************************************************)
(* Properties.                                                             *)
(***************************************************************************)

\* A client is ended by its own refusal ("limit", "send"), by what it received
\* ("protocol"), by the relay ("refused", "kicked", "closed") or by a deadline.
Reason == {"none", "limit", "send", "protocol", "refused", "kicked", "closed", "deadline"}

\* Types, and that the relay awaits and ends only members of the room.
TypeOK ==
  /\ Members \subseteq Client
  /\ owner \in Client \cup {None}
  /\ generation \in Nat
  /\ {settings, pending} \subseteq Setting \cup {None}
  /\ waiting \subseteq Members /\ closing \subseteq Members
  /\ phase \in [Client -> {"out", "joining", "in", "gone"}]
  /\ why \in [Client -> Reason]
  /\ peers \in [Client -> SUBSET Client]
  /\ isOwner \in [Client -> BOOLEAN]
  /\ cgen \in [Client -> Nat]
  /\ cset \in [Client -> Setting \cup {None}]
  /\ {requested, barrier, observer, ready} \subseteq [Client -> BOOLEAN]
  /\ {expected, seen, futureSeen} \subseteq [Client -> SUBSET Client]
  /\ \A c \in Client : Len(deferred[c]) <= MaxDeferred

\* No client of a conforming room ever fails for what it received: not for a
\* prepare or a commit at the wrong moment, nor for gameplay or a marker on
\* the wrong side of the barrier.
NoProtocolFailure == \A c \in Client : why[c] # "protocol"

\* The bodies on their way from s to r, on either route.
InTransit(s, r) ==
  {link[s][r][i] : i \in DOMAIN link[s][r]} \cup
  {up[s][i].body : i \in {j \in DOMAIN up[s] : /\ up[s][j].type = "peer_reliable"
                                                /\ r \in up[s][j].recipients}} \cup
  {down[r][i].body : i \in {j \in DOMAIN down[r] : /\ down[r][j].type = "peer_reliable"
                                                   /\ down[r][j].from = s}}

\* When the relay commits a change, everything the old generation sent between
\* two members has been received, and no marker of it is left behind.
OldGenerationDrained ==
  \A s, r \in Members : phase[r] = "in" =>
    \A body \in InTransit(s, r) :
      IF body.kind = "gameplay" THEN body.generation >= generation
                                ELSE body.generation > generation

\* Members that are in the same generation have the same settings, the ones
\* the relay committed for it, and are at most one change behind.
SettingsAgree ==
  \A c \in Members : phase[c] = "in" =>
    /\ cgen[c] \in {generation - 1, generation}
    /\ cset[c] = agreed[cgen[c] + 1]

\* What the owner submits after a settings change is applied by every member
\* under exactly those settings, however long the change takes.
AppliedAsAsked == \A a \in applied : a.after \in {None, a.settings}

\* The owner the relay knows is a member, and the only one to believe it.
OneOwner ==
  /\ members # <<>> => owner \in Members
  /\ \A c \in Members : isOwner[c] /\ phase[c] = "in" => owner = c

\* A client never waits forever for a requested change or for a barrier: the
\* change is committed or refused without any help from the 30 s deadlines,
\* whoever joins or leaves meanwhile.
PauseEnds ==
  \A c \in Client :
    (phase[c] = "in" /\ Pausing(c)) ~> (phase[c] = "gone" \/ ~Pausing(c))

\* What a pause held back is sent once it is over.
DeferredSent ==
  \A c \in Client : (deferred[c] # <<>>) ~> (phase[c] = "gone" \/ deferred[c] = <<>>)

\* The relay's room and what its members believe of it: one owner, and the
\* settings of the last commit at everybody that has read it.
RoomAgrees == TypeOK /\ SettingsAgree /\ OneOwner
=============================================================================
