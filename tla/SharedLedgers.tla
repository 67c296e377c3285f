---------------------------- MODULE SharedLedgers ----------------------------
(***************************************************************************)
(* Counts and rewards that players share (game_adapter.cpp, poe_sync.hpp,  *)
(* bottle_sync.hpp, pickup_sync.hpp).  Every kind has a merge of its own:  *)
(*   "poe", "fish", "tear"  a pickup adds to what the others have          *)
(*   "life"                 the same, but the meter applies it later, and  *)
(*                          a message that matches the meter is taken for  *)
(*                          the same pickup                                *)
(*   "rupee"                totals replace each other                      *)
(*   "bottle", "check"      named rewards: each counts once                *)
(*                                                                         *)
(* Messages go through the relay, which repeats each to everybody else in  *)
(* one order, or directly from peer to peer (mesh); either way a player's  *)
(* own messages keep their order.                                          *)
(***************************************************************************)
EXTENDS Integers, Sequences, FiniteSets, SequencesExt, FiniteSetsExt

CONSTANTS
    Players,
    Kinds,        \* the kinds exercised, one per behaviour
    Direct,       \* whether players are linked directly: a set of booleans
    Sources,      \* the named rewards
    Cap,          \* the highest count a kind can have
    MaxPickups,   \* bound on local pickups
    MaxResets     \* bound on reloaded files and left rooms together

Additive == {"poe", "fish", "tear"}
Sequenced == {"poe", "fish", "life", "bottle"}
AllKinds == Additive \cup {"life", "rupee", "bottle", "check"}

LedgerAssumption ==
    /\ Kinds \subseteq AllKinds /\ Direct \subseteq BOOLEAN
    /\ IsFiniteSet(Players) /\ IsFiniteSet(Sources)
    /\ {Cap, MaxPickups, MaxResets} \subseteq Nat

VARIABLES
    kind,      \* the kind this behaviour is about
    direct,    \* whether its messages go from peer to peer
    player,    \* a player's save memory and adapter
    up,        \* messages from a player to the relay
    inbox,     \* messages from the relay to a player, in the relay's order
    mesh,      \* messages from a player directly to another
    taken,     \* history: what was picked up, by anybody
    published, \* history: number of messages
    reloaded,  \* history: players who went back to an older file
    rejoined   \* history: players whose session started over

vars == <<kind, direct, player, up, inbox, mesh, taken, published, reloaded, rejoined>>

NoNumber == -1   \* std::nullopt

NewPlayer ==
    [count |-> 0, pending |-> 0, suppress |-> NoNumber, observed |-> 0,
     named |-> {}, sequence |-> 0, last |-> [q \in Players |-> 0]]

Init ==
    /\ kind \in Kinds /\ direct \in Direct
    /\ player = [p \in Players |-> NewPlayer]
    /\ up = [p \in Players |-> <<>>]
    /\ inbox = [p \in Players |-> <<>>]
    /\ mesh = [p \in Players |-> [q \in Players |-> <<>>]]
    /\ taken = [count |-> 0, named |-> {}]
    /\ published = 0 /\ reloaded = {} /\ rejoined = {}

UpTo(n) == Min({n, Cap})

-----------------------------------------------------------------------------
(* Sending.  *)

Publish(p, m) ==
    /\ published' = published + 1
    /\ IF direct
       THEN /\ mesh' = [mesh EXCEPT ![p] = [q \in Players |->
                            IF q = p THEN @[q] ELSE Append(@[q], m)]]
            /\ UNCHANGED up
       ELSE /\ up' = [up EXCEPT ![p] = Append(@, m)]
            /\ UNCHANGED mesh

Silent == UNCHANGED <<up, mesh, published>>

\* The relay repeats the next message of p to everybody else.
Relay(p) ==
    /\ up[p] # <<>>
    /\ up' = [up EXCEPT ![p] = Tail(@)]
    /\ inbox' = [q \in Players |->
            IF q = p THEN inbox[q] ELSE Append(inbox[q], [from |-> p, m |-> Head(up[p])])]
    /\ UNCHANGED <<kind, direct, player, mesh, taken, published, reloaded, rejoined>>

Message(r, previous, value, name) ==
    [kind |-> kind, previous |-> previous, value |-> value, name |-> name,
     sequence |-> r.sequence]

(***************************************************************************)
(* notify_local_poe_pickup, notify_local_fish_caught and                   *)
(* notify_local_light_drop_num, after the game has counted the pickup.     *)
(***************************************************************************)
PickUp(p) ==
    LET r == player[p]
        t == [r EXCEPT !.count = @ + 1, !.sequence = @ + 1]
    IN  /\ kind \in Additive /\ taken.count < MaxPickups
        /\ r.count < Cap
        /\ player' = [player EXCEPT ![p] = t]
        /\ taken' = [taken EXCEPT !.count = @ + 1]
        /\ Publish(p, Message(t, r.count, t.count, NoNumber))
        /\ UNCHANGED <<kind, direct, inbox, reloaded, rejoined>>

\* A heart or a rupee goes to the meter first, which moves it in the same frame or
\* the next, before anything else is picked up; rupees are also spent.
ToMeter(p, n) ==
    /\ kind \in {"life", "rupee"} /\ taken.count < MaxPickups
    /\ player[p].pending = 0 /\ (kind = "life" => n > 0)
    /\ player' = [player EXCEPT ![p].pending = @ + n]
    /\ taken' = [taken EXCEPT !.count = @ + 1]
    /\ Silent
    /\ UNCHANGED <<kind, direct, inbox, reloaded, rejoined>>

\* The game writes the wallet itself, without the meter.
Write(p, n) ==
    /\ kind = "rupee" /\ taken.count < MaxPickups
    /\ player[p].count + n \in 0..Cap /\ player[p].observed = player[p].count
    /\ player' = [player EXCEPT ![p].count = @ + n]
    /\ taken' = [taken EXCEPT !.count = @ + 1]
    /\ Silent
    /\ UNCHANGED <<kind, direct, inbox, reloaded, rejoined>>

Clamped(n) == Max({0, UpTo(n)})

(***************************************************************************)
(* notify_local_max_life and notify_local_rupees: the first change after a *)
(* coalesced message is not published when it reaches the same total.      *)
(***************************************************************************)
Notify(p, r, previous) ==
    LET matches == r.suppress # NoNumber /\ r.suppress = r.count
        announce == ~matches /\ (kind = "life" => r.count > previous)
        t == [r EXCEPT !.suppress = NoNumber, !.observed = r.count,
                       !.sequence = IF announce /\ kind = "life" THEN @ + 1 ELSE @]
    IN  /\ player' = [player EXCEPT ![p] = t]
        /\ IF announce THEN Publish(p, Message(t, previous, t.count, NoNumber)) ELSE Silent

\* meter_move_life, meter_move_rupee
Meter(p) ==
    LET r == player[p]
    IN  /\ r.pending # 0
        /\ Notify(p, [r EXCEPT !.count = Clamped(@ + r.pending), !.pending = 0], r.count)
        /\ UNCHANGED <<kind, direct, inbox, taken, reloaded, rejoined>>

\* The tick looks at the wallet before it takes messages in.
Capture(p) ==
    /\ player[p].observed # player[p].count /\ kind = "rupee"
    /\ Notify(p, player[p], player[p].observed)
    /\ UNCHANGED <<kind, direct, inbox, taken, reloaded, rejoined>>

(***************************************************************************)
(* A named reward.  The game gives a bottle unless its source is already   *)
(* known (should_suppress_local_bottle_source, notify_local_bottle_slots); *)
(* a randomizer check is announced once (notify_local_item_grant).         *)
(***************************************************************************)
GetNamed(p, s) ==
    LET r == player[p]
        t == [r EXCEPT !.named = @ \cup {s},
                       !.count = @ + 1,
                       !.sequence = IF kind = "bottle" THEN @ + 1 ELSE @]
    IN  /\ kind \in {"bottle", "check"} /\ s \notin r.named
        /\ kind = "bottle" => r.count < Cap   \* no slot is free: nothing changes
        /\ taken.count < MaxPickups
        /\ player' = [player EXCEPT ![p] = t]
        /\ taken' = [taken EXCEPT !.named = @ \cup {s}, !.count = @ + 1]
        /\ Publish(p, Message(t, r.count, t.count, s))
        /\ UNCHANGED <<kind, direct, inbox, reloaded, rejoined>>

-----------------------------------------------------------------------------
(* Receiving: consume_progression and consume_randomizer.  *)

\* A sequence number that is not above the last one of its sender is old.
New(r, q, m) == kind \in Sequenced => m.sequence > r.last[q]

MergeCountMaximum(count, m) == Max({count, m.value})

MergeCount(count, m) ==
    CASE m.kind = "poe" ->
            IF count > m.previous THEN UpTo(count + (m.value - m.previous))
            ELSE Max({count, m.value})
      [] m.kind = "fish" -> Max({count, m.value, UpTo(count + 1)})
      [] m.kind = "tear" ->
            IF count > m.previous /\ count < Cap THEN count + 1 ELSE Max({count, m.value})

MergeLife(r, m) ==
    IF r.pending # 0 /\ m.value = UpTo(r.count + r.pending)
    THEN [r EXCEPT !.suppress = m.value]
    ELSE [r EXCEPT !.count = IF r.count > m.previous THEN UpTo(r.count + (m.value - m.previous))
                             ELSE Max({r.count, m.value})]

\* wallet_total_action; the applied total counts as seen.
MergeRupees(r, m) ==
    IF r.pending # 0 /\ m.value = Clamped(r.count + r.pending)
    THEN [r EXCEPT !.suppress = m.value]
    ELSE [r EXCEPT !.count = m.value, !.observed = m.value]

\* merged_bottle_count: named rewards form a set.
MergeBottle(r, m) ==
    LET named == r.named \cup {m.name}
    IN  [r EXCEPT !.named = named, !.count = UpTo(Max({@, m.value, Cardinality(named)}))]

\* A remote check is granted unless this player already has it.
MergeCheck(r, m) ==
    IF m.name \in r.named THEN r
    ELSE [r EXCEPT !.named = @ \cup {m.name}, !.count = @ + 1]

Merge(r, m) ==
    CASE m.kind \in Additive -> [r EXCEPT !.count = MergeCount(@, m)]
      [] m.kind = "life" -> MergeLife(r, m)
      [] m.kind = "rupee" -> MergeRupees(r, m)
      [] m.kind = "bottle" -> MergeBottle(r, m)
      [] m.kind = "check" -> MergeCheck(r, m)

\* peer_left: the next session of q counts from one again.
Left(r, q) == [r EXCEPT !.last[q] = 0]

Consume(r, q, m) ==
    IF m.kind = "left" THEN Left(r, q)
    ELSE IF ~New(r, q, m) THEN r
    ELSE [Merge(r, m) EXCEPT !.last[q] = IF kind \in Sequenced THEN m.sequence ELSE @]

\* The wallet has been looked at first.
Receive(p) ==
    /\ kind = "rupee" => player[p].observed = player[p].count
    /\ \/ /\ inbox[p] # <<>>
          /\ player' = [player EXCEPT ![p] = Consume(@, Head(inbox[p]).from, Head(inbox[p]).m)]
          /\ inbox' = [inbox EXCEPT ![p] = Tail(@)]
          /\ UNCHANGED mesh
       \/ \E q \in Players :
          /\ mesh[q][p] # <<>>
          /\ player' = [player EXCEPT ![p] = Consume(@, q, Head(mesh[q][p]))]
          /\ mesh' = [mesh EXCEPT ![q][p] = Tail(@)]
          /\ UNCHANGED inbox
    /\ UNCHANGED <<kind, direct, up, taken, published, reloaded, rejoined>>

-----------------------------------------------------------------------------
(* A file from before the rewards, and a session that starts over.  *)

More == Cardinality(reloaded) + Cardinality(rejoined) < MaxResets

\* The last file of p has none of the bottles (load_bottle_source_state).
Reload(p) ==
    /\ kind = "bottle" /\ player[p].count > 0 /\ More
    /\ reloaded' = reloaded \cup {p}
    /\ player' = [player EXCEPT ![p].count = 0, ![p].named = {}]
    /\ UNCHANGED <<kind, direct, up, inbox, mesh, taken, published, rejoined>>

\* reset_session at p, which joins again at once; the others hear of it in order.
Rejoin(p) ==
    /\ kind \in Sequenced /\ ~direct /\ player[p].sequence > 0 /\ More
    /\ rejoined' = rejoined \cup {p}
    /\ player' = [player EXCEPT ![p].sequence = 0, ![p].last = NewPlayer.last,
                                ![p].suppress = NoNumber]
    /\ up' = [up EXCEPT ![p] = <<>>]
    /\ inbox' = [q \in Players |-> IF q = p THEN <<>>
                    ELSE Append(inbox[q], [from |-> p, m |-> [kind |-> "left"]])]
    /\ UNCHANGED <<kind, direct, mesh, taken, published, reloaded>>

Next ==
    \E p \in Players :
        \/ PickUp(p) \/ Meter(p) \/ Capture(p) \/ Relay(p) \/ Receive(p)
        \/ Reload(p) \/ Rejoin(p)
        \/ \E n \in {1, -1} : ToMeter(p, n) \/ Write(p, n)
        \/ \E s \in Sources : GetNamed(p, s)

Spec == Init /\ [][Next]_vars

-----------------------------------------------------------------------------
(* Properties.  *)

\* Counts stay within what the game can store, numbers and names within their types.
TypeOK ==
    /\ kind \in Kinds
    /\ \A p \in Players :
        /\ player[p].count \in 0..Cap /\ player[p].observed \in 0..Cap
        /\ player[p].suppress \in 0..Cap \cup {NoNumber}
        /\ player[p].named \subseteq Sources
        /\ player[p].last \in [Players -> Nat]

Quiet ==
    /\ \A p \in Players : /\ up[p] = <<>> /\ inbox[p] = <<>> /\ player[p].pending = 0
                          /\ \A q \in Players : mesh[p][q] = <<>>
    /\ reloaded \cup rejoined = {}

\* Through the relay every soul, fish and tear is counted exactly once at every
\* player, whoever picked them up and however the pickups crossed on the way.  A
\* heart is never counted twice (it may be lost to the one on the meter).
CountsExact ==
    /\ ~direct /\ kind \in Additive \cup {"life"} =>
            \A p \in Players : player[p].count <= taken.count
    /\ Quiet /\ ~direct /\ kind \in Additive =>
            \A p \in Players : player[p].count = UpTo(taken.count)

\* A named reward gives one slot or item to every player, also when several players
\* take it at the same time.  (A bottle message carries a total, so this needs the order
\* of the relay; a check carries its name alone.)
NamedOnce ==
    (kind = "check" \/ (kind = "bottle" /\ ~direct)) /\ reloaded \cup rejoined = {} => \A p \in Players :
        /\ player[p].count <= Cardinality(taken.named)
        /\ Quiet => player[p].count = Cardinality(taken.named)

\* A total that came from another player is never sent on: no more wallet messages
\* than changes of the players themselves (applyingRemote_, observedRupees_).
EchoFree == kind = "rupee" => published <= taken.count

\* No pickup is mistaken for an old one, across sessions of its sender that number
\* their pickups from one again (permanentPickupSequence_, fishCatchSequence_): the
\* message a player reads next is new to it, unless it is a departure.
PickupsCounted ==
    \A p \in Players :
        inbox[p] # <<>> /\ Head(inbox[p]).m.kind # "left"
        => New(player[p], Head(inbox[p]).from, Head(inbox[p]).m)
=============================================================================
