---------------------------- MODULE ProgressSync ----------------------------
\* How a change of the save memory at one player reaches the others
\* (game_adapter.cpp): hooks behind the game's own setters publish what the
\* player did, and a received change is made with the same setters while a
\* guard silences the hooks.
\*
\* The game keeps the memory of the stage it is in and a table with the memory
\* of every stage, exchanged when the player changes stage; a change for
\* another stage goes to the table.  The table of scope None holds the flags
\* that belong to no stage.  The game itself is external: which change happens
\* when is open.  Messages that need a stage wait while none is ready; the
\* router's deferral queue is in SaveRecovery, the story events in StoryFence.
EXTENDS Integers, Sequences, FiniteSets, SequencesExt, FiniteSetsExt

CONSTANTS Players, Stages, None,
          Items, Flags,       \* bits of a stage: pick-ups, and switches that go on and off
          Facts, StageFacts,  \* bits that only go on, those among them a stage must be ready for
          Needs,              \* Needs[f]: the fact f waits for, or None
          Trades,             \* number of items that share the trade slot
          MaxKeys, MaxOffering, MaxLocals, MaxMoves

ASSUME ProgressAssumption ==
  /\ None \notin Stages /\ None \notin 0..(Trades - 1) /\ StageFacts \subseteq Facts /\ Needs \in [Facts -> Facts \cup {None}]
  /\ {Trades, MaxKeys, MaxOffering, MaxLocals, MaxMoves} \subseteq Nat

VARIABLES game,       \* the save memory of each player, with the adapter's observations
          queue,      \* queue[p][q]: the reliable stream from p to q
          published,  \* facts and pick-ups that players have made
          crossed,    \* topics of which two changes were under way at once, or one was undone
          early,      \* <<p, f>>: p received f before what f waits for
          sent, locals, moves

vars == <<game, queue, published, crossed, early, sent, locals, moves>>

TradeItems == 0..(Trades - 1)
Phases == 0..(2 * Trades - 1)
NoBits == [items |-> {}, flags |-> {}, keys |-> 0]
Scopes == Stages \cup {None}
Empty == \A p, q \in Players : queue[p][q] = <<>>

NewGame(stage) ==
  [stage |-> stage, ready |-> TRUE, memory |-> NoBits, table |-> [st \in Scopes |-> NoBits],
   facts |-> {}, slot |-> None, first |-> {}, marks |-> {}, offering |-> 0, zone |-> {},
   observed |-> [st \in Stages |-> {}], repaired |-> TRUE]

Init == /\ \E stage \in Stages : game = [p \in Players |-> NewGame(stage)]
        /\ queue = [p \in Players |-> [q \in Players |-> <<>>]]
        /\ published = {} /\ crossed = {} /\ early = {}
        /\ sent = 0 /\ locals = 0 /\ moves = 0

-----------------------------------------------------------------------------
\* The setters, on one player's step s: its game g, the guard, what it sends.

Step(p, applying) == [g |-> game[p], applying |-> applying, out |-> <<>>]

\* publish_local
Publish(s, m) == IF s.applying THEN s ELSE [s EXCEPT !.out = Append(@, m)]

\* The game of a step changes.
With(s, g) == [s EXCEPT !.g = g]

Message(type, st, id, value) == [type |-> type, stage |-> st, id |-> id, value |-> value]

\* stage_bits
Bits(g, st) == IF st = g.stage THEN g.memory ELSE g.table[st]

Write(g, st, bits) == IF st = g.stage THEN [g EXCEPT !.memory = bits]
                      ELSE [g EXCEPT !.table = [g.table EXCEPT ![st] = bits]]

\* remember_memory_item: apart from the game, for snapshots and repairs
Remember(s, st, i) ==
  With(s, [s.g EXCEPT !.observed = [s.g.observed EXCEPT ![st] = @ \cup {i}]])

\* onItem with memory_item_on_post: the pick-up is remembered as well.
OnItem(s, st, i) ==
  LET t == With(s, Write(s.g, st, [Bits(s.g, st) EXCEPT !.items = @ \cup {i}]))
  IN IF s.applying \/ st # s.g.stage THEN t
     ELSE Publish(Remember(t, st, i), Message("item", st, i, 1))

\* onSwitch and offSwitch, the first-item bits likewise: only an edge is told.
SetFlag(s, st, w, on) ==
  LET old == Bits(s.g, st)
      new == [old EXCEPT !.flags = IF on = 1 THEN @ \cup {w} ELSE @ \ {w}]
      t == With(s, Write(s.g, st, new))
  IN IF old # new /\ st \in {s.g.stage, None} THEN Publish(t, Message("flag", st, w, on)) ELSE t

\* Switches of the rooms in play (doors, webs, torches), which no table keeps
SetZone(s, st, w, on) ==
  LET new == IF on = 1 THEN s.g.zone \cup {w} ELSE s.g.zone \ {w}
      t == With(s, [s.g EXCEPT !.zone = new])
  IN IF new # s.g.zone THEN Publish(t, Message("zone", st, w, on)) ELSE t

\* setKeyNum: the total, of the current stage only.
SetKeys(s, st, n) ==
  LET t == With(s, Write(s.g, st, [Bits(s.g, st) EXCEPT !.keys = n]))
  IN IF st = s.g.stage THEN Publish(t, Message("keys", st, None, n)) ELSE t

\* Letters, crystals, mirrors, regions, rooms, dungeon items, transform levels.
Allowed(g, f) == Needs[f] = None \/ Needs[f] \in g.facts

OnFact(s, f) ==
  LET t == With(s, [s.g EXCEPT !.facts = @ \cup {f}])
  IN IF Allowed(t.g, f) THEN Publish(t, Message("fact", None, f, 1)) ELSE t

SetOffering(s, n) == Publish(With(s, [s.g EXCEPT !.offering = n]), Message("offering", None, None, n))

\* trade_item: an item has an even phase, the empty slot after it the next one.
ItemPhase(k) == 2 * k
ItemForPhase(n) == IF n % 2 = 0 THEN n \div 2 ELSE None

PhaseForChange(previous, current) ==
  IF current # None THEN ItemPhase(current) ELSE IF previous # None THEN ItemPhase(previous) + 1 ELSE -1

\* setItem of the trade slot, and the bit of an item's first acquisition
SetSlot(s, item) ==
  LET n == PhaseForChange(s.g.slot, item)
      t == With(s, [s.g EXCEPT !.slot = item])
  IN IF item = s.g.slot \/ n < 0 THEN t ELSE Publish(t, Message("trade", None, None, n))

OnFirst(s, k) ==
  LET t == With(s, [s.g EXCEPT !.first = @ \cup {k}])
  IN IF k \in s.g.first THEN t ELSE Publish(t, Message("get", None, k, 1))

OnMark(s, n) == Publish(With(s, [s.g EXCEPT !.marks = @ \cup {n}]), Message("mark", None, None, n))

\* observed_trade_phase: the slot, the items ever had, the story's milestones
ObservedPhase(g) ==
  Max({-1} \cup g.marks \cup (IF g.slot = None THEN {} ELSE {ItemPhase(g.slot)})
      \cup {ItemPhase(k) + (IF g.slot = None THEN 1 ELSE 0) : k \in g.first})

ExecItemGet(s, k) == OnFirst(SetSlot(s, k), k)

-----------------------------------------------------------------------------
\* consume_progression

\* An item already traded on is recorded without returning to the slot.
ApplyGet(s, k) ==
  IF k \in s.g.first THEN s
  ELSE IF ObservedPhase(s.g) > ItemPhase(k) THEN OnFirst(s, k)
  ELSE ExecItemGet(s, k)

ApplyTradeLast(s, n) == SetSlot(s, ItemForPhase(n))

ApplyTrade(s, n) == IF n >= ObservedPhase(s.g) THEN SetSlot(s, ItemForPhase(n)) ELSE s

ApplyItem(s, st, i) == Remember(OnItem(s, st, i), st, i)

\* room_switch_bit, web_timer and room_actor_action: for players in the same room
ApplyZoneAnywhere(s, st, w, on) == SetZone(s, st, w, on)

ApplyZone(s, st, w, on) == IF st = s.g.stage THEN SetZone(s, st, w, on) ELSE s

ApplyFact(s, f) == IF Allowed(s.g, f) THEN OnFact(s, f) ELSE s

ApplyOffering(s, n) == IF n > s.g.offering THEN SetOffering(s, n) ELSE s

Apply(s, m) ==
  CASE m.type = "item" -> ApplyItem(s, m.stage, m.id)
    [] m.type = "flag" -> SetFlag(s, m.stage, m.id, m.value)
    [] m.type = "zone" -> ApplyZone(s, m.stage, m.id, m.value)
    [] m.type = "keys" -> SetKeys(s, m.stage, m.value)
    [] m.type = "fact" -> ApplyFact(s, m.id)
    [] m.type = "offering" -> ApplyOffering(s, m.value)
    [] m.type = "trade" -> ApplyTrade(s, m.value)
    [] m.type = "get" -> ApplyGet(s, m.id)
    [] m.type = "mark" -> OnMark(s, m.value)

-----------------------------------------------------------------------------
\* Changes of which two at once cannot both survive
Topic(m) == IF m.type \in {"flag", "zone", "keys"} THEN <<m.type, m.stage, m.id>> ELSE <<>>

InFlight == UNION {ToSet(queue[p][q]) : p, q \in Players}

Commit(p, s) ==
  /\ game' = [game EXCEPT ![p] = s.g]
  /\ queue' = [queue EXCEPT ![p] = [q \in Players |-> IF q = p THEN @[q] ELSE @[q] \o s.out]]
  /\ sent' = sent + Len(s.out)

Local(p, s, facts) ==
  /\ game[p].ready /\ locals < MaxLocals /\ locals' = locals + 1
  /\ Commit(p, s)
  /\ published' = published \cup facts
  /\ crossed' = crossed \cup ({Topic(m) : m \in ToSet(s.out)} \cap {Topic(m) : m \in InFlight})
  /\ UNCHANGED <<early, moves>>

PickUp(p) == \E i \in Items : LET g == game[p]
  IN i \notin g.memory.items /\ Local(p, OnItem(Step(p, FALSE), g.stage, i), {<<g.stage, i>>})

Toggle(p) == \E st \in {game[p].stage, None}, w \in Flags :
  Local(p, SetFlag(Step(p, FALSE), st, w, IF w \in Bits(game[p], st).flags THEN 0 ELSE 1), {})

Operate(p) == \E w \in Flags : LET g == game[p]
  IN Local(p, SetZone(Step(p, FALSE), g.stage, w, IF w \in g.zone THEN 0 ELSE 1), {})

GainKey(p) == LET g == game[p]
  IN g.memory.keys < MaxKeys /\ Local(p, SetKeys(Step(p, FALSE), g.stage, g.memory.keys + 1), {})

SpendKey(p) == LET g == game[p]
  IN g.memory.keys > 0 /\ Local(p, SetKeys(Step(p, FALSE), g.stage, g.memory.keys - 1), {})

Achieve(p) == \E f \in Facts \ game[p].facts :
  Local(p, OnFact(Step(p, FALSE), f), IF Allowed(game[p], f) THEN {<<None, f>>} ELSE {})

Donate(p) == LET n == game[p].offering
  IN n < MaxOffering /\ Local(p, SetOffering(Step(p, FALSE), n + 1), {})

\* The quest: the slot's item is handed in, and the next one is obtained.
HandIn(p) == LET k == game[p].slot
  IN k # None /\ Local(p, SetSlot(OnMark(Step(p, FALSE), ItemPhase(k) + 1), None), {})

Obtain(p) == \E k \in TradeItems :
  /\ game[p].slot = None /\ ObservedPhase(game[p]) = ItemPhase(k) - 1
  /\ Local(p, ExecItemGet(Step(p, FALSE), k), {})

-----------------------------------------------------------------------------
StageDependent(m) ==
  CASE m.type = "flag" -> m.stage # None
    [] m.type = "fact" -> m.id \in StageFacts
    [] OTHER -> m.type \in {"item", "zone", "keys", "trade"}

GuardLost(p) == Step(p, FALSE)

\* RemoteApplicationGuard
Guarded(p) == Step(p, TRUE)

Receive(p, q) ==
  /\ queue[q][p] # <<>>
  /\ LET m == Head(queue[q][p])
         s == Apply(Guarded(p), m)
         told == [queue EXCEPT ![q][p] = Tail(@)]
     IN /\ StageDependent(m) => game[p].ready
        /\ game' = [game EXCEPT ![p] = s.g]
        /\ queue' = [told EXCEPT ![p] = [r \in Players |-> IF r = p THEN @[r] ELSE @[r] \o s.out]]
        /\ sent' = sent + Len(s.out)
        /\ early' = IF m.type = "fact" /\ ~Allowed(game[p], m.id)
                    THEN early \cup {<<p, m.id>>} ELSE early
        /\ UNCHANGED <<published, crossed, locals, moves>>

Move(p, g, lost) ==
  /\ moves < MaxMoves /\ moves' = moves + 1
  /\ game' = [game EXCEPT ![p] = g]
  /\ crossed' = crossed \cup lost
  /\ UNCHANGED <<queue, published, early, sent, locals>>

\* The stage is left: its memory goes to the table.
Leave(p) == LET g == game[p]
  IN g.ready /\ Move(p, [g EXCEPT !.ready = FALSE, !.table = [g.table EXCEPT ![g.stage] = g.memory]], {})

Enter(p) ==
  /\ ~game[p].ready
  /\ \E st \in Stages :
       /\ game' = [game EXCEPT ![p] = [game[p] EXCEPT !.stage = st, !.ready = TRUE, !.repaired = FALSE,
                                                !.memory = game[p].table[st], !.zone = {}]]
       /\ crossed' = crossed \cup {<<"zone", st, w>> : w \in Flags}
  /\ UNCHANGED <<queue, published, early, sent, locals, moves>>

\* The stage starts again from its table, what was new in its memory is gone.
Restart(p) == LET g == game[p]
  IN /\ g.ready /\ g.memory # g.table[g.stage]
     /\ Move(p, [g EXCEPT !.memory = g.table[g.stage], !.repaired = FALSE],
             {<<"keys", g.stage, None>>} \cup {<<"flag", g.stage, w>> : w \in Flags})

\* reapply_observed_memory_items_for_current_stage, every 60 ticks
Repair(p) == LET g == game[p]
         bits == [g.memory EXCEPT !.items = @ \cup g.observed[g.stage]]
  IN /\ g.ready /\ ~g.repaired
     /\ game' = [game EXCEPT ![p] = [g EXCEPT !.repaired = TRUE, !.memory = bits]]
     /\ UNCHANGED <<queue, published, crossed, early, sent, locals, moves>>

Next == \E p \in Players :
  \/ PickUp(p) \/ Toggle(p) \/ Operate(p) \/ GainKey(p) \/ SpendKey(p) \/ Achieve(p) \/ Donate(p)
  \/ HandIn(p) \/ Obtain(p)
  \/ \E q \in Players : Receive(p, q)
  \/ Leave(p) \/ Enter(p) \/ Restart(p) \/ Repair(p)

Spec == Init /\ [][Next]_vars

-----------------------------------------------------------------------------
BitsType == [items : SUBSET Items, flags : SUBSET Flags, keys : 0..MaxKeys]

\* The save memories, the streams and the histories have their types.
TypeOK ==
  /\ \A p \in Players : LET g == game[p] IN
       /\ g.stage \in Stages /\ g.ready \in BOOLEAN /\ g.repaired \in BOOLEAN
       /\ g.memory \in BitsType /\ g.table \in [Scopes -> BitsType]
       /\ g.zone \subseteq Flags /\ g.facts \subseteq Facts /\ g.slot \in TradeItems \cup {None}
       /\ g.first \subseteq TradeItems /\ g.marks \subseteq Phases
       /\ g.offering \in 0..MaxOffering /\ g.observed \in [Stages -> SUBSET Items]
  /\ \A p, q \in Players : \A m \in ToSet(queue[p][q]) :
       /\ p # q /\ m.stage \in Scopes
       /\ m.type \in {"item", "flag", "zone", "keys", "fact", "offering", "trade", "get", "mark"}
  /\ sent \in Nat /\ locals \in 0..MaxLocals /\ moves \in 0..MaxMoves

\* What a hook publishes under the guard would be published again by whoever
\* receives it: every message belongs to something a player did (at most two
\* for one act).
NoEcho == sent <= 2 * locals

\* Once everything is delivered, everybody has every fact anybody achieved,
\* except a fact that overtook the one it waits for on the way from another
\* player: such a fact is dropped (transform_lv) and not sent again.
FactsConverge ==
  Empty => \A p \in Players, f \in Facts :
             <<None, f>> \in published => f \in game[p].facts \/ <<p, f>> \in early

\* A pick-up reaches everybody and outlives a stage that starts again from its
\* table: the observations still have it, and so has the memory after the
\* periodic repair.
PickupsKept ==
  Empty => \A p \in Players, st \in Stages, i \in Items :
             <<st, i>> \in published =>
               /\ i \in game[p].observed[st]
               /\ game[p].stage = st /\ game[p].repaired => i \in game[p].memory.items

Value(g, t) == CASE t[1] = "keys" -> Bits(g, t[2]).keys
                 [] t[1] = "flag" -> t[3] \in Bits(g, t[2]).flags
                 [] t[1] = "zone" -> t[3] \in g.zone

Topics == ({"keys"} \X Stages \X {None}) \cup ({"flag"} \X Scopes \X Flags)
          \cup ({"zone"} \X Stages \X Flags)

\* Key totals and switches are told as values, last writer wins.  As long as no
\* two changes of the same one were under way at once and no restart undid one,
\* everybody has the same value when everything is delivered, whichever stage
\* each player is in.  The switches of a room in play agree among the players
\* who are in it, until somebody comes in (who starts without them).
ValuesAgree ==
  Empty => \A p, q \in Players : \A t \in Topics \ crossed :
             (t[1] = "zone" => game[p].stage = t[2] /\ game[q].stage = t[2])
               => Value(game[p], t) = Value(game[q], t)

\* The trade quest only advances, and all players end in the same place, with
\* the same item in the slot, in whatever order the news of several players
\* arrive.
QuestConverges ==
  Empty => \A p, q \in Players : /\ game[p].slot = game[q].slot
                                 /\ ObservedPhase(game[p]) = ObservedPhase(game[q])

\* No message takes a player back in the trade quest.
QuestAdvances ==
  [][\A p \in Players : ObservedPhase(game'[p]) >= ObservedPhase(game[p])]_vars

\* Everything that is shared agrees once the messages are delivered.
ProgressConverges ==
  TypeOK /\ FactsConverge /\ PickupsKept /\ ValuesAgree /\ QuestConverges
=============================================================================
