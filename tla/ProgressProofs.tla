--------------------------- MODULE ProgressProofs ---------------------------
(***************************************************************************)
(* What the shared progress promises whatever the players, the stages and  *)
(* the flags are: nothing that was received is told again (NoEcho), the    *)
(* trade quest goes on only (QuestAdvances), and what is shared agrees     *)
(* once everything has arrived (ProgressConverges, in the second half).    *)
(*                                                                         *)
(* The argument.  Every setter tells at most one message, none under the   *)
(* guard; only the quest's own setters touch the slot, the first items and *)
(* the milestones, from which the observed phase is taken.  That the slot  *)
(* is empty is news only together with the milestone which says how far    *)
(* the quest is, so the inductive invariant says of every stream that a    *)
(* milestone comes before the empty slot it backs, or has been received.   *)
(***************************************************************************)
EXTENDS ProgressSync, SequenceLemmas, WellFoundedInduction, TLAPS

\* The types of a game, of what is told and of a step.
Games == [stage : Stages, ready : BOOLEAN, memory : BitsType, table : [Scopes -> BitsType],
          facts : SUBSET Facts, slot : TradeItems \cup {None}, first : SUBSET TradeItems,
          marks : SUBSET Phases, offering : 0..MaxOffering, zone : SUBSET Flags,
          observed : [Stages -> SUBSET Items], repaired : BOOLEAN]

Kind(type, stages, ids, values) == [type : {type}, stage : stages, id : ids, value : values]

Messages == UNION {Kind("item", Stages, Items, {1}), Kind("flag", Scopes, Flags, {0, 1}),
                   Kind("zone", Stages, Flags, {0, 1}), Kind("keys", Stages, {None}, 0..MaxKeys),
                   Kind("fact", {None}, Facts, {1}), Kind("offering", {None}, {None}, 0..MaxOffering),
                   Kind("trade", {None}, {None}, Phases), Kind("get", {None}, TradeItems, {1}),
                   Kind("mark", {None}, {None}, Phases)}

Steps == [g : Games, applying : BOOLEAN, out : Seq(Messages)]

-----------------------------------------------------------------------------
\* A bounded set of integers has a greatest element, and Max is it.
LEMMA GreatestOf ==
  ASSUME NEW lo \in Int, NEW hi \in Int, NEW T \in SUBSET (lo .. hi), T # {}
  PROVE  Max(T) \in T /\ \A y \in T : Max(T) >= y
<1> DEFINE D == {hi - x : x \in T}
           R == OpToRel(<, Nat)
<1>1. D \subseteq Nat /\ D # {}
  OBVIOUS
<1>2. \E x \in D : \A y \in D : ~ (<<y, x>> \in R)
  BY <1>1, WFMin, NatLessThanWellFounded
<1>3. PICK d \in D : \A y \in D : ~ (<<y, d>> \in R)
  BY <1>2
<1>4. \A y \in D : ~ (y < d)
  BY <1>1, <1>3 DEF OpToRel
<1>5. PICK x \in T : d = hi - x
  BY <1>3
<1>6. \A y \in T : x >= y
  BY <1>4, <1>5
<1> QED BY <1>6 DEF Max

\* The phases a game has observed.
Observations(g) ==
  {-1} \cup g.marks \cup (IF g.slot = None THEN {} ELSE {ItemPhase(g.slot)})
       \cup {ItemPhase(k) + (IF g.slot = None THEN 1 ELSE 0) : k \in g.first}

\* The observed phase is the greatest of what was observed, which are integers.
LEMMA ObservedIsGreatest ==
  ASSUME ProgressAssumption, NEW g \in Games
  PROVE  /\ ObservedPhase(g) \in Observations(g)
         /\ \A n \in Observations(g) : n \in Int /\ ObservedPhase(g) >= n
<1>1. Trades \in Nat
  BY DEF ProgressAssumption
<1>2. Observations(g) \in SUBSET ((-1) .. (2 * Trades - 1))
  <2>1. /\ g.marks \subseteq 0..(2 * Trades - 1) /\ g.first \subseteq 0..(Trades - 1)
        /\ g.slot \in 0..(Trades - 1) \/ g.slot = None
    BY DEF Games, Phases, TradeItems
  <2> QED BY <1>1, <2>1 DEF Observations, ItemPhase
<1>3. -1 \in Observations(g)
  BY DEF Observations
<1>4. ObservedPhase(g) = Max(Observations(g))
  BY DEF ObservedPhase, Observations
<1>5. 2 * Trades - 1 \in Int
  BY <1>1
<1>6. Observations(g) # {}
  BY <1>3
<1>7. /\ Max(Observations(g)) \in Observations(g)
      /\ \A n \in Observations(g) : Max(Observations(g)) >= n
  <2> DEFINE T == Observations(g)
             lo == -1
             hi == 2 * Trades - 1
  <2>1. lo \in Int /\ hi \in Int /\ T \in SUBSET (lo .. hi) /\ T # {}
    BY <1>2, <1>5, <1>6
  <2> HIDE DEF T, lo, hi
  <2>2. Max(T) \in T /\ \A n \in T : Max(T) >= n
    BY <2>1, GreatestOf
  <2> QED BY <2>2 DEF T
<1>8. \A n \in Observations(g) : n \in Int
  BY <1>2, <1>5
<1> QED BY <1>4, <1>7, <1>8

\* A game that has observed as much of the quest, or more, is not behind.
LEMMA Advanced ==
  ASSUME ProgressAssumption, NEW g \in Games, NEW h \in Games,
         \A n \in Observations(g) : \E m \in Observations(h) : m >= n
  PROVE  ObservedPhase(h) >= ObservedPhase(g)
<1>1. PICK m \in Observations(h) : m >= ObservedPhase(g)
  BY ObservedIsGreatest
<1>2. ObservedPhase(h) >= m /\ m \in Int /\ ObservedPhase(h) \in Int /\ ObservedPhase(g) \in Int
  BY ObservedIsGreatest
<1> QED BY <1>1, <1>2

-----------------------------------------------------------------------------
\* A step with another game tells the same.
LEMMA WithGame ==
  ASSUME NEW s \in Steps, NEW g \in Games
  PROVE  /\ With(s, g) \in Steps /\ With(s, g).g = g
         /\ With(s, g).applying = s.applying /\ With(s, g).out = s.out
BY DEF With, Steps

\* publish_local: a message is told unless the guard is set.
LEMMA Published ==
  ASSUME NEW s \in Steps, NEW m \in Messages
  PROVE  /\ Publish(s, m) \in Steps /\ Publish(s, m).g = s.g
         /\ Publish(s, m).applying = s.applying
         /\ Publish(s, m).out = IF s.applying THEN s.out ELSE Append(s.out, m)
<1>1. Append(s.out, m) \in Seq(Messages)
  BY DEF Steps
<1> QED BY <1>1 DEF Publish, Steps

\* A change of the bits of a stage touches nothing else.
LEMMA Written ==
  ASSUME NEW g \in Games, NEW st \in Scopes, NEW bits \in BitsType
  PROVE  LET h == Write(g, st, bits) IN
         /\ h \in Games /\ Bits(g, st) \in BitsType
         /\ h.stage = g.stage /\ h.observed = g.observed
         /\ h.slot = g.slot /\ h.first = g.first /\ h.marks = g.marks
<1>1. [g.table EXCEPT ![st] = bits] \in [Scopes -> BitsType]
  BY DEF Games
<1>2. Bits(g, st) \in BitsType
  BY DEF Bits, Games
<1> QED BY <1>1, <1>2, ZenonT(30) DEF Write, Games

-----------------------------------------------------------------------------
\* A setter that is not the quest's leaves the quest alone and tells at most one
\* message, none under the guard.
Tells(s, t) ==
  /\ t \in Steps /\ t.applying = s.applying
  /\ \/ t.out = s.out
     \/ ~s.applying /\ \E m \in Messages : m.type # "trade" /\ t.out = Append(s.out, m)

SameQuest(g, h) == h.slot = g.slot /\ h.first = g.first /\ h.marks = g.marks

\* memory_item_on_post: a pick-up is remembered and told.
LEMMA ItemTold ==
  ASSUME NEW s \in Steps, NEW st \in Stages, NEW i \in Items
  PROVE  Tells(s, OnItem(s, st, i)) /\ SameQuest(s.g, OnItem(s, st, i).g)
<1> DEFINE bits == [Bits(s.g, st) EXCEPT !.items = @ \cup {i}]
           g == Write(s.g, st, bits)
           t == With(s, g)
           h == [t.g EXCEPT !.observed = [t.g.observed EXCEPT ![st] = @ \cup {i}]]
           m == Message("item", st, i, 1)
<1>1. s.g \in Games /\ st \in Scopes
  BY DEF Steps, Scopes
<1>2. Bits(s.g, st) \in BitsType
  BY <1>1 DEF Bits, Games
<1>3. bits \in BitsType
  BY <1>2 DEF BitsType
<1> HIDE DEF bits
<1>4. g \in Games /\ SameQuest(s.g, g)
  BY <1>1, <1>3, Written DEF SameQuest
<1> HIDE DEF g
<1>5. t \in Steps /\ t.g = g /\ t.applying = s.applying /\ t.out = s.out
  BY <1>4, WithGame
<1> HIDE DEF t
<1>6. h \in Games /\ SameQuest(g, h)
  <2>1. [g.observed EXCEPT ![st] = @ \cup {i}] \in [Stages -> SUBSET Items]
    BY <1>4 DEF Games
  <2>2. h = [g EXCEPT !.observed = [g.observed EXCEPT ![st] = @ \cup {i}]]
    BY <1>5
  <2> QED BY <1>4, <2>1, <2>2 DEF Games, SameQuest
<1> HIDE DEF h
<1>7. Remember(t, st, i) = With(t, h)
  BY DEF Remember, h
<1>8. /\ With(t, h) \in Steps /\ With(t, h).g = h
      /\ With(t, h).applying = s.applying /\ With(t, h).out = s.out
  BY <1>5, <1>6, WithGame
<1>9. m \in Messages /\ m.type # "trade"
  BY DEF m, Message, Messages, Kind
<1> HIDE DEF m
<1>10. CASE s.applying \/ st # s.g.stage
  <2>1. OnItem(s, st, i) = t
    BY <1>10 DEF OnItem, t, g, bits
  <2> QED BY <1>4, <1>5, <2>1 DEF Tells
<1>11. CASE ~(s.applying \/ st # s.g.stage)
  <2> DEFINE u == With(t, h)
  <2>1. OnItem(s, st, i) = Publish(u, m)
    BY <1>7, <1>11 DEF OnItem, t, g, bits, m
  <2> HIDE DEF u
  <2>2. Publish(u, m) \in Steps /\ Publish(u, m).g = h /\ Publish(u, m).applying = s.applying
        /\ Publish(u, m).out = Append(s.out, m)
    BY <1>8, <1>9, <1>11, Published, ZenonT(30) DEF u
  <2>3. Tells(s, Publish(u, m))
    BY <1>9, <1>11, <2>2 DEF Tells
  <2>4. SameQuest(s.g, Publish(u, m).g)
    BY <1>4, <1>6, <2>2 DEF SameQuest
  <2> QED BY <2>1, <2>3, <2>4
<1> QED BY <1>10, <1>11

\* remember_memory_item tells nothing.
LEMMA Remembered ==
  ASSUME NEW s \in Steps, NEW st \in Stages, NEW i \in Items
  PROVE  LET t == Remember(s, st, i) IN
         /\ t \in Steps /\ t.applying = s.applying /\ t.out = s.out /\ SameQuest(s.g, t.g)
<1> DEFINE h == [s.g EXCEPT !.observed = [s.g.observed EXCEPT ![st] = @ \cup {i}]]
<1>1. s.g \in Games
  BY DEF Steps
<1>2. h \in Games /\ SameQuest(s.g, h)
  <2>1. [s.g.observed EXCEPT ![st] = @ \cup {i}] \in [Stages -> SUBSET Items]
    BY <1>1 DEF Games
  <2> QED BY <1>1, <2>1 DEF Games, SameQuest
<1>3. Remember(s, st, i) = With(s, h)
  BY DEF Remember
<1> HIDE DEF h
<1> QED BY <1>2, <1>3, WithGame

\* A change of the game that is not the quest's, and what is told of it.
LEMMA ChangeTold ==
  ASSUME NEW s \in Steps, NEW g \in Games, SameQuest(s.g, g),
         NEW m \in Messages, m.type # "trade"
  PROVE  /\ Tells(s, With(s, g)) /\ SameQuest(s.g, With(s, g).g)
         /\ Tells(s, Publish(With(s, g), m)) /\ SameQuest(s.g, Publish(With(s, g), m).g)
<1> DEFINE t == With(s, g)
<1>1. t \in Steps /\ t.g = g /\ t.applying = s.applying /\ t.out = s.out
  BY WithGame
<1> HIDE DEF t
<1>2. /\ Publish(t, m) \in Steps /\ Publish(t, m).g = g /\ Publish(t, m).applying = s.applying
      /\ Publish(t, m).out = IF s.applying THEN s.out ELSE Append(s.out, m)
  BY <1>1, Published
<1>3. s.applying \in BOOLEAN
  BY DEF Steps
<1>4. Tells(s, t) /\ SameQuest(s.g, t.g)
  BY <1>1 DEF Tells, SameQuest
<1>5. Tells(s, Publish(t, m)) /\ SameQuest(s.g, Publish(t, m).g)
  BY <1>2, <1>3 DEF Tells, SameQuest
<1> QED BY <1>4, <1>5 DEF t

\* A switch tells of its edge only.
LEMMA FlagTold ==
  ASSUME NEW s \in Steps, NEW st \in Scopes, NEW w \in Flags, NEW on \in {0, 1}
  PROVE  Tells(s, SetFlag(s, st, w, on)) /\ SameQuest(s.g, SetFlag(s, st, w, on).g)
<1> DEFINE old == Bits(s.g, st)
           new == [old EXCEPT !.flags = IF on = 1 THEN @ \cup {w} ELSE @ \ {w}]
           g == Write(s.g, st, new)
           m == Message("flag", st, w, on)
<1>1. s.g \in Games
  BY DEF Steps
<1>2. old \in BitsType
  BY <1>1 DEF Bits, Games
<1>3. new \in BitsType
  BY <1>2 DEF BitsType
<1>4. m \in Messages /\ m.type # "trade"
  BY DEF Message, Messages, Kind
<1>5. SetFlag(s, st, w, on) \in {With(s, g), Publish(With(s, g), m)}
  BY DEF SetFlag
<1> HIDE DEF new, m
<1>6. g \in Games /\ SameQuest(s.g, g)
  BY <1>1, <1>3, Written DEF SameQuest
<1> HIDE DEF g
<1> QED BY <1>4, <1>5, <1>6, ChangeTold

\* A switch of a room in play likewise.
LEMMA ZoneTold ==
  ASSUME NEW s \in Steps, NEW st \in Stages, NEW w \in Flags, NEW on \in {0, 1}
  PROVE  Tells(s, SetZone(s, st, w, on)) /\ SameQuest(s.g, SetZone(s, st, w, on).g)
<1> DEFINE new == IF on = 1 THEN s.g.zone \cup {w} ELSE s.g.zone \ {w}
           g == [s.g EXCEPT !.zone = new]
           m == Message("zone", st, w, on)
<1>1. s.g \in Games
  BY DEF Steps
<1>2. new \in SUBSET Flags
  BY <1>1 DEF Games
<1>3. m \in Messages /\ m.type # "trade"
  BY DEF Message, Messages, Kind
<1>4. SetZone(s, st, w, on) \in {With(s, g), Publish(With(s, g), m)}
  BY DEF SetZone
<1> HIDE DEF new, m
<1>5. g \in Games /\ SameQuest(s.g, g)
  BY <1>1, <1>2 DEF SameQuest, Games
<1> HIDE DEF g
<1> QED BY <1>3, <1>4, <1>5, ChangeTold

\* The total of the keys.
LEMMA KeysTold ==
  ASSUME NEW s \in Steps, NEW st \in Stages, NEW n \in 0..MaxKeys
  PROVE  Tells(s, SetKeys(s, st, n)) /\ SameQuest(s.g, SetKeys(s, st, n).g)
<1> DEFINE new == [Bits(s.g, st) EXCEPT !.keys = n]
           g == Write(s.g, st, new)
           m == Message("keys", st, None, n)
<1>1. s.g \in Games /\ st \in Scopes
  BY DEF Steps, Scopes
<1>2. Bits(s.g, st) \in BitsType
  BY <1>1 DEF Bits, Games
<1>3. new \in BitsType
  BY <1>2 DEF BitsType
<1>4. m \in Messages /\ m.type # "trade"
  BY DEF Message, Messages, Kind
<1>5. SetKeys(s, st, n) \in {With(s, g), Publish(With(s, g), m)}
  BY DEF SetKeys
<1> HIDE DEF new, m
<1>6. g \in Games /\ SameQuest(s.g, g)
  BY <1>1, <1>3, Written DEF SameQuest
<1> HIDE DEF g
<1> QED BY <1>4, <1>5, <1>6, ChangeTold

\* A fact that is allowed.
LEMMA FactTold ==
  ASSUME NEW s \in Steps, NEW f \in Facts
  PROVE  Tells(s, OnFact(s, f)) /\ SameQuest(s.g, OnFact(s, f).g)
<1> DEFINE g == [s.g EXCEPT !.facts = @ \cup {f}]
           m == Message("fact", None, f, 1)
<1>1. s.g \in Games
  BY DEF Steps
<1>2. g \in Games /\ SameQuest(s.g, g)
  BY <1>1 DEF SameQuest, Games
<1>3. m \in Messages /\ m.type # "trade"
  BY DEF Message, Messages, Kind
<1>4. OnFact(s, f) \in {With(s, g), Publish(With(s, g), m)}
  BY DEF OnFact
<1> HIDE DEF g, m
<1> QED BY <1>2, <1>3, <1>4, ChangeTold

\* The offering.
LEMMA OfferingTold ==
  ASSUME NEW s \in Steps, NEW n \in 0..MaxOffering
  PROVE  Tells(s, SetOffering(s, n)) /\ SameQuest(s.g, SetOffering(s, n).g)
<1> DEFINE g == [s.g EXCEPT !.offering = n]
           m == Message("offering", None, None, n)
<1>1. s.g \in Games
  BY DEF Steps
<1>2. g \in Games /\ SameQuest(s.g, g)
  BY <1>1 DEF SameQuest, Games
<1>3. m \in Messages /\ m.type # "trade"
  BY DEF Message, Messages, Kind
<1>4. SetOffering(s, n) = Publish(With(s, g), m)
  BY DEF SetOffering
<1> HIDE DEF g, m
<1> QED BY <1>2, <1>3, <1>4, ChangeTold

-----------------------------------------------------------------------------
\* The quest's own setters.
Odd(n) == \E k \in TradeItems : n = ItemPhase(k) + 1

\* ItemForPhase: an odd phase is the empty slot, an even one an item.
LEMMA Halves ==
  ASSUME ProgressAssumption, NEW n \in Phases
  PROVE  \/ Odd(n) /\ ItemForPhase(n) = None
         \/ ItemForPhase(n) \in TradeItems /\ ItemPhase(ItemForPhase(n)) = n
<1>1. Trades \in Nat
  BY DEF ProgressAssumption
<1>2. n \in 0..(2 * Trades - 1)
  BY DEF Phases
<1>3. CASE n % 2 = 0
  <2>1. n \div 2 \in 0..(Trades - 1) /\ 2 * (n \div 2) = n
    BY <1>1, <1>2, <1>3
  <2> QED BY <1>3, <2>1 DEF ItemForPhase, ItemPhase, TradeItems
<1>4. CASE n % 2 # 0
  <2>1. (n - 1) \div 2 \in 0..(Trades - 1) /\ n = 2 * ((n - 1) \div 2) + 1
    BY <1>1, <1>2, <1>4
  <2> QED BY <1>4, <2>1 DEF ItemForPhase, ItemPhase, TradeItems, Odd
<1> QED BY <1>3, <1>4

\* ItemPhase: what the phases of an item are.
LEMMA Doubles ==
  ASSUME ProgressAssumption, NEW k \in TradeItems
  PROVE  /\ ItemPhase(k) \in Phases /\ ItemPhase(k) + 1 \in Phases
         /\ ItemPhase(k) \in Nat /\ ~Odd(ItemPhase(k)) /\ k # None
<1>1. Trades \in Nat /\ None \notin 0..(Trades - 1)
  BY DEF ProgressAssumption
<1>2. k \in 0..(Trades - 1)
  BY DEF TradeItems
<1>3. ASSUME NEW j \in 0..(Trades - 1) PROVE 2 * k # 2 * j + 1
  BY <1>1, <1>2
<1>4. ~Odd(2 * k)
  BY <1>3 DEF Odd, ItemPhase, TradeItems
<1> QED BY <1>1, <1>2, <1>4 DEF ItemPhase, Phases, TradeItems

\* What is told of a change of the slot: the item's phase, or that it is empty.
SlotSays(s, item, t) ==
  \/ t.out = s.out
  \/ /\ ~s.applying
     /\ \E n \in Phases :
          /\ t.out = Append(s.out, Message("trade", None, None, n))
          /\ n = IF item # None THEN ItemPhase(item) ELSE ItemPhase(s.g.slot) + 1

\* setItem of the trade slot.
LEMMA SlotTold ==
  ASSUME ProgressAssumption, NEW s \in Steps, NEW item \in TradeItems \cup {None}
  PROVE  LET t == SetSlot(s, item) IN
         /\ t \in Steps /\ t.applying = s.applying
         /\ t.g.slot = item /\ t.g.first = s.g.first /\ t.g.marks = s.g.marks
         /\ SlotSays(s, item, t)
<1> DEFINE g == [s.g EXCEPT !.slot = item]
           t == With(s, g)
           n == PhaseForChange(s.g.slot, item)
           m == Message("trade", None, None, n)
<1>1. s.g \in Games /\ s.g.slot \in TradeItems \cup {None} /\ s.applying \in BOOLEAN
  BY DEF Steps, Games
<1>2. g \in Games /\ g.slot = item /\ g.first = s.g.first /\ g.marks = s.g.marks
  BY <1>1 DEF Games
<1> HIDE DEF g
<1>3. t \in Steps /\ t.g = g /\ t.applying = s.applying /\ t.out = s.out
  BY <1>2, WithGame
<1>4. SetSlot(s, item) = IF item = s.g.slot \/ n < 0 THEN t ELSE Publish(t, m)
  BY DEF SetSlot, g
<1> HIDE DEF t
<1>5. CASE item = s.g.slot \/ n < 0
  BY <1>2, <1>3, <1>4, <1>5 DEF SlotSays
<1>6. CASE ~(item = s.g.slot \/ n < 0)
  <2>1. n = IF item # None THEN ItemPhase(item) ELSE ItemPhase(s.g.slot) + 1
    BY <1>6 DEF PhaseForChange
  <2>2. n \in Phases
    BY <1>1, <1>6, <2>1, Doubles
  <2> HIDE DEF n
  <2>3. m \in Messages
    BY <2>2 DEF Message, Messages, Kind
  <2>4. /\ Publish(t, m) \in Steps /\ Publish(t, m).g = g /\ Publish(t, m).applying = s.applying
        /\ Publish(t, m).out = IF s.applying THEN s.out ELSE Append(s.out, m)
    BY <1>3, <2>3, Published
  <2>5. SetSlot(s, item) = Publish(t, m)
    BY <1>4, <1>6 DEF n
  <2> QED BY <1>1, <1>2, <2>1, <2>2, <2>4, <2>5 DEF SlotSays
<1> QED BY <1>5, <1>6

\* The bit of an item's first acquisition.
LEMMA FirstTold ==
  ASSUME NEW s \in Steps, NEW k \in TradeItems
  PROVE  LET t == OnFirst(s, k) IN
         /\ Tells(s, t)
         /\ t.g.first = s.g.first \cup {k} /\ t.g.slot = s.g.slot /\ t.g.marks = s.g.marks
<1> DEFINE g == [s.g EXCEPT !.first = @ \cup {k}]
           t == With(s, g)
           m == Message("get", None, k, 1)
<1>1. s.g \in Games /\ s.applying \in BOOLEAN
  BY DEF Steps
<1>2. g \in Games /\ g.first = s.g.first \cup {k} /\ g.slot = s.g.slot /\ g.marks = s.g.marks
  BY <1>1 DEF Games
<1>3. m \in Messages /\ m.type # "trade"
  BY DEF Message, Messages, Kind
<1>4. OnFirst(s, k) \in {t, Publish(t, m)}
  BY DEF OnFirst
<1> HIDE DEF g, m
<1>5. t \in Steps /\ t.g = g /\ t.applying = s.applying /\ t.out = s.out
  BY <1>2, WithGame
<1> HIDE DEF t
<1>6. /\ Publish(t, m) \in Steps /\ Publish(t, m).g = g /\ Publish(t, m).applying = s.applying
      /\ Publish(t, m).out = IF s.applying THEN s.out ELSE Append(s.out, m)
  BY <1>3, <1>5, Published
<1>7. Tells(s, t) /\ Tells(s, Publish(t, m))
  BY <1>1, <1>3, <1>5, <1>6 DEF Tells
<1> QED BY <1>2, <1>4, <1>5, <1>6, <1>7

\* A milestone of the story.
LEMMA MarkTold ==
  ASSUME NEW s \in Steps, NEW n \in Phases
  PROVE  LET t == OnMark(s, n)
             m == Message("mark", None, None, n) IN
         /\ t \in Steps /\ t.applying = s.applying /\ m \in Messages
         /\ t.out = IF s.applying THEN s.out ELSE Append(s.out, m)
         /\ t.g.marks = s.g.marks \cup {n} /\ t.g.slot = s.g.slot /\ t.g.first = s.g.first
<1> DEFINE g == [s.g EXCEPT !.marks = @ \cup {n}]
           t == With(s, g)
           m == Message("mark", None, None, n)
<1>1. s.g \in Games
  BY DEF Steps
<1>2. g \in Games /\ g.marks = s.g.marks \cup {n} /\ g.slot = s.g.slot /\ g.first = s.g.first
  BY <1>1 DEF Games
<1>3. m \in Messages
  BY DEF Message, Messages, Kind
<1>4. OnMark(s, n) = Publish(t, m)
  BY DEF OnMark
<1> HIDE DEF g
<1>5. t \in Steps /\ t.g = g /\ t.applying = s.applying /\ t.out = s.out
  BY <1>2, WithGame
<1> HIDE DEF t
<1>6. /\ Publish(t, m) \in Steps /\ Publish(t, m).g = g /\ Publish(t, m).applying = s.applying
      /\ Publish(t, m).out = IF s.applying THEN s.out ELSE Append(s.out, m)
  BY <1>3, <1>5, Published
<1> QED BY <1>2, <1>3, <1>4, <1>6

-----------------------------------------------------------------------------
\* What a received message does: nothing is told, and the quest does not go back.
Silent(s, t) ==
  /\ t \in Steps /\ t.applying /\ t.out = s.out
  /\ s.g.marks \subseteq t.g.marks
  /\ ObservedPhase(t.g) >= ObservedPhase(s.g)

\* The observed phase depends on the quest only.
LEMMA SameObserved ==
  ASSUME ProgressAssumption, NEW g \in Games, NEW h \in Games, SameQuest(g, h)
  PROVE  ObservedPhase(h) >= ObservedPhase(g)
<1>1. Observations(h) = Observations(g)
  BY DEF SameQuest, Observations
<1>2. ObservedPhase(h) = ObservedPhase(g)
  BY <1>1 DEF ObservedPhase, Observations
<1>3. ObservedPhase(g) \in Int
  BY ObservedIsGreatest
<1> QED BY <1>2, <1>3

\* Under the guard a setter that is not the quest's is silent.
LEMMA ToldIsSilent ==
  ASSUME ProgressAssumption, NEW s \in Steps, s.applying, NEW t, Tells(s, t), SameQuest(s.g, t.g)
  PROVE  Silent(s, t)
<1>1. t \in Steps /\ t.applying /\ t.out = s.out
  BY DEF Tells
<1>2. s.g \in Games /\ t.g \in Games
  BY <1>1 DEF Steps
<1>3. t.g.marks = s.g.marks
  BY DEF SameQuest
<1>4. ObservedPhase(t.g) >= ObservedPhase(s.g)
  BY <1>2, SameObserved
<1> QED BY <1>1, <1>3, <1>4 DEF Silent

\* The news of an item, and then the item in the slot, when the slot has not
\* passed it.
LEMMA ItemGot ==
  ASSUME ProgressAssumption, NEW s \in Steps, NEW k \in TradeItems,
         ~(ObservedPhase(s.g) > ItemPhase(k))
  PROVE  LET t == SetSlot(s, k)
             u == ExecItemGet(s, k) IN
         /\ u = OnFirst(t, k) /\ t \in Steps /\ Tells(t, u)
         /\ u.g.marks = s.g.marks
         /\ ObservedPhase(u.g) >= ObservedPhase(s.g)
<1> DEFINE t == SetSlot(s, k)
           u == ExecItemGet(s, k)
<1>1. t \in Steps /\ t.g.slot = k /\ t.g.marks = s.g.marks /\ t.g.first = s.g.first
  BY SlotTold
<1>2. u = OnFirst(t, k)
  BY DEF ExecItemGet
<1> HIDE DEF t, u
<1>3. Tells(t, u) /\ u.g.slot = k /\ u.g.marks = s.g.marks
  BY <1>1, <1>2, FirstTold
<1>4. u.g \in Games /\ s.g \in Games
  BY <1>3 DEF Tells, Steps
<1>5. ItemPhase(k) \in Observations(u.g)
  BY <1>3, Doubles DEF Observations
<1>6. /\ ObservedPhase(u.g) \in Int /\ ObservedPhase(u.g) >= ItemPhase(k) /\ ItemPhase(k) \in Int
      /\ ObservedPhase(s.g) \in Int
  BY <1>4, <1>5, ObservedIsGreatest
<1>7. ObservedPhase(u.g) >= ObservedPhase(s.g)
  BY <1>6
<1> QED BY <1>1, <1>2, <1>3, <1>7 DEF t, u

\* An item that is recorded does not take the quest back.
LEMMA FirstAdvances ==
  ASSUME ProgressAssumption, NEW s \in Steps, NEW k \in TradeItems
  PROVE  ObservedPhase(OnFirst(s, k).g) >= ObservedPhase(s.g)
<1> DEFINE u == OnFirst(s, k)
<1>1. Tells(s, u) /\ u.g.first = s.g.first \cup {k} /\ u.g.slot = s.g.slot /\ u.g.marks = s.g.marks
  BY FirstTold
<1> HIDE DEF u
<1>2. u.g \in Games /\ s.g \in Games
  BY <1>1 DEF Tells, Steps
<1>3. Observations(s.g) \subseteq Observations(u.g)
  BY <1>1 DEF Observations
<1>4. \A n \in Observations(s.g) : n \in Int
  BY <1>2, ObservedIsGreatest
<1>5. \A n \in Observations(s.g) : \E m \in Observations(u.g) : m >= n
  BY <1>3, <1>4
<1> QED BY <1>2, <1>5, Advanced DEF u

\* Nor does a milestone.
LEMMA MarkAdvances ==
  ASSUME ProgressAssumption, NEW s \in Steps, NEW n \in Phases
  PROVE  ObservedPhase(OnMark(s, n).g) >= ObservedPhase(s.g)
<1> DEFINE u == OnMark(s, n)
<1>1. u \in Steps /\ u.g.marks = s.g.marks \cup {n} /\ u.g.slot = s.g.slot /\ u.g.first = s.g.first
  BY MarkTold
<1> HIDE DEF u
<1>2. u.g \in Games /\ s.g \in Games
  BY <1>1 DEF Steps
<1>3. Observations(s.g) \subseteq Observations(u.g)
  BY <1>1 DEF Observations
<1>4. \A m \in Observations(s.g) : m \in Int
  BY <1>2, ObservedIsGreatest
<1>5. \A m \in Observations(s.g) : \E j \in Observations(u.g) : j >= m
  BY <1>3, <1>4
<1> QED BY <1>2, <1>5, Advanced DEF u

\* The slot follows a message that is not behind what was observed; that the
\* slot is empty now is backed by the milestone the same player announced.
LEMMA SlotFollows ==
  ASSUME ProgressAssumption, NEW s \in Steps, NEW n \in Phases, n >= ObservedPhase(s.g),
         Odd(n) => n \in s.g.marks
  PROVE  ObservedPhase(SetSlot(s, ItemForPhase(n)).g) >= ObservedPhase(s.g)
<1> DEFINE item == ItemForPhase(n)
           t == SetSlot(s, item)
<1>1. /\ item \in TradeItems \cup {None}
      /\ Odd(n) \/ (item \in TradeItems /\ ItemPhase(item) = n)
  BY Halves
<1> HIDE DEF item
<1>2. t \in Steps /\ t.g.slot = item /\ t.g.marks = s.g.marks
  BY <1>1, SlotTold
<1> HIDE DEF t
<1>3. t.g \in Games /\ s.g \in Games
  BY <1>2 DEF Steps
<1>4. n \in Observations(t.g)
  <2>1. CASE Odd(n)
    BY <1>2, <2>1 DEF Observations
  <2>2. CASE item \in TradeItems /\ ItemPhase(item) = n
    BY <1>2, <2>2, Doubles DEF Observations
  <2> QED BY <1>1, <2>1, <2>2
<1>5. ObservedPhase(t.g) \in Int /\ ObservedPhase(t.g) >= n /\ n \in Int /\ ObservedPhase(s.g) \in Int
  BY <1>3, <1>4, ObservedIsGreatest
<1>6. ObservedPhase(t.g) >= ObservedPhase(s.g)
  BY <1>5
<1> QED BY <1>6 DEF t, item

\* consume_progression is silent, whatever the message is.
LEMMA Applied ==
  ASSUME ProgressAssumption, NEW s \in Steps, s.applying, NEW m \in Messages,
         m.type = "trade" /\ Odd(m.value) => m.value \in s.g.marks
  PROVE  /\ Silent(s, Apply(s, m))
         /\ m.type = "mark" => m.value \in Apply(s, m).g.marks
<1>0. Silent(s, s)
  <2>1. s.g \in Games
    BY DEF Steps
  <2>2. ObservedPhase(s.g) \in Int
    BY <2>1, ObservedIsGreatest
  <2> QED BY <2>2 DEF Silent
<1>1. CASE m \in Kind("item", Stages, Items, {1})
  <2>1. m.type = "item" /\ m.stage \in Stages /\ m.id \in Items
    BY <1>1 DEF Kind
  <2> DEFINE t == OnItem(s, m.stage, m.id)
  <2>2. Apply(s, m) = Remember(t, m.stage, m.id)
    BY <2>1 DEF Apply, ApplyItem
  <2>3. Tells(s, t) /\ SameQuest(s.g, t.g)
    BY <2>1, ItemTold
  <2> HIDE DEF t
  <2>4. /\ Remember(t, m.stage, m.id) \in Steps /\ Remember(t, m.stage, m.id).applying = t.applying
        /\ Remember(t, m.stage, m.id).out = t.out /\ SameQuest(t.g, Remember(t, m.stage, m.id).g)
    BY <2>1, <2>3, Remembered DEF Tells
  <2>5. Tells(s, Apply(s, m)) /\ SameQuest(s.g, Apply(s, m).g)
    BY <2>2, <2>3, <2>4 DEF Tells, SameQuest
  <2> QED BY <2>1, <2>5, ToldIsSilent
<1>2. CASE m \in Kind("flag", Scopes, Flags, {0, 1})
  <2>1. m.type = "flag" /\ m.stage \in Scopes /\ m.id \in Flags /\ m.value \in {0, 1}
    BY <1>2 DEF Kind
  <2>2. Apply(s, m) = SetFlag(s, m.stage, m.id, m.value)
    BY <2>1 DEF Apply
  <2> QED BY <2>1, <2>2, FlagTold, ToldIsSilent
<1>3. CASE m \in Kind("zone", Stages, Flags, {0, 1})
  <2>1. m.type = "zone" /\ m.stage \in Stages /\ m.id \in Flags /\ m.value \in {0, 1}
    BY <1>3 DEF Kind
  <2>2. Apply(s, m) \in {s, SetZone(s, m.stage, m.id, m.value)}
    BY <2>1 DEF Apply, ApplyZone
  <2> QED BY <1>0, <2>1, <2>2, ZoneTold, ToldIsSilent
<1>4. CASE m \in Kind("keys", Stages, {None}, 0..MaxKeys)
  <2>1. m.type = "keys" /\ m.stage \in Stages /\ m.value \in 0..MaxKeys
    BY <1>4 DEF Kind
  <2>2. Apply(s, m) = SetKeys(s, m.stage, m.value)
    BY <2>1 DEF Apply
  <2> QED BY <2>1, <2>2, KeysTold, ToldIsSilent
<1>5. CASE m \in Kind("fact", {None}, Facts, {1})
  <2>1. m.type = "fact" /\ m.id \in Facts
    BY <1>5 DEF Kind
  <2>2. Apply(s, m) \in {s, OnFact(s, m.id)}
    BY <2>1 DEF Apply, ApplyFact
  <2> QED BY <1>0, <2>1, <2>2, FactTold, ToldIsSilent
<1>6. CASE m \in Kind("offering", {None}, {None}, 0..MaxOffering)
  <2>1. m.type = "offering" /\ m.value \in 0..MaxOffering
    BY <1>6 DEF Kind
  <2>2. Apply(s, m) \in {s, SetOffering(s, m.value)}
    BY <2>1 DEF Apply, ApplyOffering
  <2> QED BY <1>0, <2>1, <2>2, OfferingTold, ToldIsSilent
<1>7. CASE m \in Kind("trade", {None}, {None}, Phases)
  <2>1. m.type = "trade" /\ m.value \in Phases
    BY <1>7 DEF Kind
  <2>2. Apply(s, m) = IF m.value >= ObservedPhase(s.g) THEN SetSlot(s, ItemForPhase(m.value)) ELSE s
    BY <2>1 DEF Apply, ApplyTrade
  <2>3. ItemForPhase(m.value) \in TradeItems \cup {None}
    BY <2>1, Halves
  <2> DEFINE t == SetSlot(s, ItemForPhase(m.value))
  <2>4. t \in Steps /\ t.applying /\ t.g.marks = s.g.marks /\ t.out = s.out
    BY <2>3, SlotTold DEF SlotSays
  <2>5. m.value >= ObservedPhase(s.g) => ObservedPhase(t.g) >= ObservedPhase(s.g)
    BY <2>1, SlotFollows
  <2> HIDE DEF t
  <2>6. m.value >= ObservedPhase(s.g) => Silent(s, t)
    BY <2>4, <2>5 DEF Silent
  <2> QED BY <1>0, <2>1, <2>2, <2>6 DEF t
<1>8. CASE m \in Kind("get", {None}, TradeItems, {1})
  <2>1. m.type = "get" /\ m.id \in TradeItems
    BY <1>8 DEF Kind
  <2>2. Apply(s, m) = IF m.id \in s.g.first THEN s
                      ELSE IF ObservedPhase(s.g) > ItemPhase(m.id) THEN OnFirst(s, m.id)
                      ELSE ExecItemGet(s, m.id)
    BY <2>1 DEF Apply, ApplyGet
  <2>3. Silent(s, OnFirst(s, m.id))
    BY <2>1, FirstTold, FirstAdvances DEF Tells, Silent
  <2>4. ASSUME ~(ObservedPhase(s.g) > ItemPhase(m.id)) PROVE Silent(s, ExecItemGet(s, m.id))
    <3> DEFINE t == SetSlot(s, m.id)
               u == ExecItemGet(s, m.id)
    <3>1. t \in Steps /\ t.applying /\ t.out = s.out
      BY <2>1, SlotTold DEF SlotSays
    <3>2. Tells(t, u) /\ u.g.marks = s.g.marks /\ ObservedPhase(u.g) >= ObservedPhase(s.g)
      BY <2>1, <2>4, ItemGot
    <3> HIDE DEF t, u
    <3>3. u \in Steps /\ u.applying /\ u.out = s.out
      BY <3>1, <3>2 DEF Tells
    <3> QED BY <3>2, <3>3 DEF Silent, u
  <2> QED BY <1>0, <2>1, <2>2, <2>3, <2>4
<1>9. CASE m \in Kind("mark", {None}, {None}, Phases)
  <2>1. m.type = "mark" /\ m.value \in Phases
    BY <1>9 DEF Kind
  <2>2. Apply(s, m) = OnMark(s, m.value)
    BY <2>1 DEF Apply
  <2> DEFINE t == OnMark(s, m.value)
  <2>3. t \in Steps /\ t.applying /\ t.out = s.out /\ t.g.marks = s.g.marks \cup {m.value}
    BY <2>1, MarkTold
  <2>4. ObservedPhase(t.g) >= ObservedPhase(s.g)
    BY <2>1, MarkAdvances
  <2> HIDE DEF t
  <2>5. Silent(s, t) /\ m.value \in t.g.marks
    BY <2>3, <2>4 DEF Silent
  <2> QED BY <2>2, <2>5 DEF t
<1> QED BY <1>1, <1>2, <1>3, <1>4, <1>5, <1>6, <1>7, <1>8, <1>9 DEF Messages

-----------------------------------------------------------------------------
\* In a stream an emptied slot is told after the milestone that backs it, or the
\* milestone has been received already.
Backed(marks, s) ==
  \A i \in 1 .. Len(s) : s[i].type = "trade" /\ Odd(s[i].value) =>
    \/ s[i].value \in marks
    \/ \E j \in 1 .. i - 1 : s[j].type = "mark" /\ s[j].value = s[i].value

\* A stream stays backed when what is sent is backed by itself.
LEMMA BackedConcat ==
  ASSUME NEW marks, NEW s \in Seq(Messages), NEW t \in Seq(Messages),
         Backed(marks, s), Backed({}, t)
  PROVE  s \o t \in Seq(Messages) /\ Backed(marks, s \o t)
<1> DEFINE u == s \o t
<1>1. /\ u \in Seq(Messages) /\ Len(u) = Len(s) + Len(t)
      /\ \A i \in 1 .. Len(s) : u[i] = s[i]
      /\ \A i \in 1 .. Len(t) : u[Len(s) + i] = t[i]
      /\ Len(s) \in Nat /\ Len(t) \in Nat
  OBVIOUS
<1> HIDE DEF u
<1>2. ASSUME NEW i \in 1 .. Len(u), u[i].type = "trade", Odd(u[i].value), u[i].value \notin marks
      PROVE  \E j \in 1 .. i - 1 : u[j].type = "mark" /\ u[j].value = u[i].value
  <2>1. CASE i <= Len(s)
    <3>1. i \in 1 .. Len(s) /\ u[i] = s[i]
      BY <1>1, <2>1
    <3>2. PICK j \in 1 .. i - 1 : s[j].type = "mark" /\ s[j].value = s[i].value
      BY <1>2, <3>1 DEF Backed
    <3>3. u[j] = s[j]
      BY <1>1, <3>1, <3>2
    <3> QED BY <3>1, <3>2, <3>3
  <2>2. CASE ~(i <= Len(s))
    <3> DEFINE k == i - Len(s)
    <3>1. k \in 1 .. Len(t) /\ u[i] = t[k] /\ Len(s) + k = i
      <4>1. i \in Nat /\ i > Len(s) /\ i <= Len(s) + Len(t)
        BY <1>1, <2>2
      <4>2. k \in 1 .. Len(t) /\ Len(s) + k = i
        BY <1>1, <4>1
      <4>3. u[Len(s) + k] = t[k]
        BY <1>1, <4>2
      <4> QED BY <4>2, <4>3
    <3> HIDE DEF k
    <3>2. PICK j \in 1 .. k - 1 : t[j].type = "mark" /\ t[j].value = t[k].value
      BY <1>2, <3>1 DEF Backed
    <3>3. Len(s) + j \in 1 .. i - 1 /\ u[Len(s) + j] = t[j]
      BY <1>1, <3>1, <3>2, SMTT(30)
    <3> QED BY <3>1, <3>2, <3>3
  <2> QED BY <2>1, <2>2
<1>3. Backed(marks, u)
  BY <1>2 DEF Backed
<1> QED BY <1>1, <1>3 DEF u

\* It stays backed when its head is received and a milestone is kept.
LEMMA BackedTail ==
  ASSUME NEW marks, NEW more, marks \subseteq more, NEW s \in Seq(Messages), s # <<>>,
         Backed(marks, s), Head(s).type = "mark" => Head(s).value \in more
  PROVE  /\ Tail(s) \in Seq(Messages) /\ Backed(more, Tail(s)) /\ Head(s) \in Messages
         /\ Head(s).type = "trade" /\ Odd(Head(s).value) => Head(s).value \in marks
<1>1. /\ Tail(s) \in Seq(Messages) /\ Head(s) \in Messages /\ Head(s) = s[1] /\ 1 \in 1 .. Len(s)
      /\ \A i \in 1 .. Len(Tail(s)) : i + 1 \in 1 .. Len(s) /\ Tail(s)[i] = s[i + 1]
      /\ Len(Tail(s)) = Len(s) - 1 /\ Len(s) \in Nat
  BY TailElements
<1>2. ASSUME NEW i \in 1 .. Len(Tail(s)), Tail(s)[i].type = "trade", Odd(Tail(s)[i].value),
             Tail(s)[i].value \notin more
      PROVE  \E j \in 1 .. i - 1 : Tail(s)[j].type = "mark" /\ Tail(s)[j].value = Tail(s)[i].value
  <2>1. i + 1 \in 1 .. Len(s) /\ Tail(s)[i] = s[i + 1]
    BY <1>1
  <2>2. PICK j \in 1 .. (i + 1) - 1 : s[j].type = "mark" /\ s[j].value = s[i + 1].value
    BY <1>2, <2>1 DEF Backed
  <2>3. j # 1
    BY <1>1, <1>2, <2>1, <2>2
  <2>4. j - 1 \in 1 .. i - 1 /\ j - 1 \in 1 .. Len(Tail(s)) /\ (j - 1) + 1 = j
    BY <1>1, <2>2, <2>3
  <2>5. Tail(s)[j - 1] = s[j]
    BY <1>1, <2>4
  <2> QED BY <2>1, <2>2, <2>4, <2>5
<1>3. Backed(more, Tail(s))
  BY <1>2 DEF Backed
<1>4. Head(s).type = "trade" /\ Odd(Head(s).value) => Head(s).value \in marks
  BY <1>1 DEF Backed
<1> QED BY <1>1, <1>3, <1>4

\* It stays backed when more milestones are reached.
LEMMA BackedMore ==
  ASSUME NEW marks, NEW more, marks \subseteq more, NEW s, Backed(marks, s)
  PROVE  Backed(more, s)
BY DEF Backed

-----------------------------------------------------------------------------
\* What a player does: at most two messages, an emptied slot after its milestone.
Does(p, s) ==
  /\ s \in Steps /\ Len(s.out) <= 2 /\ Backed({}, s.out)
  /\ game[p].marks \subseteq s.g.marks
  /\ ObservedPhase(s.g) >= ObservedPhase(game[p])

\* How a step begins.
LEMMA FirstStep ==
  ASSUME NEW p \in Players, game[p] \in Games, NEW applying \in BOOLEAN
  PROVE  /\ Step(p, applying) \in Steps /\ Step(p, applying).g = game[p]
         /\ Step(p, applying).applying = applying /\ Step(p, applying).out = <<>>
BY DEF Step, Steps

\* One message that empties no slot is backed.
LEMMA OneMessage ==
  ASSUME NEW t \in Steps, NEW m \in Messages, ~(m.type = "trade" /\ Odd(m.value)),
         t.out \in {<<>>, Append(<<>>, m)}
  PROVE  Len(t.out) <= 1 /\ Backed({}, t.out)
<1>1. CASE t.out = <<>>
  BY <1>1 DEF Backed
<1>2. CASE t.out = <<m>>
  BY <1>2 DEF Backed
<1>3. Append(<<>>, m) = <<m>>
  OBVIOUS
<1> QED BY <1>1, <1>2, <1>3

\* The setters that are not the quest's.
LEMMA DoesOne ==
  ASSUME ProgressAssumption, NEW p \in Players, game[p] \in Games,
         NEW t, Tells(Step(p, FALSE), t), SameQuest(game[p], t.g)
  PROVE  Does(p, t)
<1>1. t \in Steps /\ (t.out = <<>> \/ \E m \in Messages : m.type # "trade" /\ t.out = Append(<<>>, m))
  BY FirstStep DEF Tells
<1>2. Len(t.out) <= 1 /\ Backed({}, t.out)
  <2>1. CASE t.out = <<>>
    BY <2>1 DEF Backed
  <2>2. CASE \E m \in Messages : m.type # "trade" /\ t.out = Append(<<>>, m)
    BY <1>1, <2>2, OneMessage
  <2> QED BY <1>1, <2>1, <2>2
<1>3. Len(t.out) \in Nat
  BY <1>1 DEF Steps
<1>4. t.g \in Games
  BY <1>1 DEF Steps
<1>5. ObservedPhase(t.g) >= ObservedPhase(game[p])
  BY <1>4, SameObserved
<1>6. Len(t.out) <= 2
  BY SMTT(30), <1>2, <1>3
<1> QED BY <1>1, <1>2, <1>5, <1>6 DEF Does, SameQuest

\* The slot's item is handed in.
LEMMA DoesHandIn ==
  ASSUME ProgressAssumption, NEW p \in Players, game[p] \in Games,
         NEW k, k = game[p].slot, k # None
  PROVE  Does(p, SetSlot(OnMark(Step(p, FALSE), ItemPhase(k) + 1), None))
<1> DEFINE n == ItemPhase(k) + 1
           s == Step(p, FALSE)
           t == OnMark(s, n)
           u == SetSlot(t, None)
           m == Message("mark", None, None, n)
<1>1. k \in TradeItems
  BY DEF Games
<1>2. n \in Phases /\ Odd(n) /\ ItemPhase(k) \in Nat
  BY <1>1, Doubles DEF Odd
<1>3. s \in Steps /\ s.g = game[p] /\ s.applying = FALSE /\ s.out = <<>>
  BY FirstStep
<1> HIDE DEF n, s
<1>4. /\ t \in Steps /\ t.applying = FALSE /\ m \in Messages /\ t.out = Append(<<>>, m)
      /\ t.g.marks = game[p].marks \cup {n} /\ t.g.slot = k /\ t.g.first = game[p].first
  <2>1. /\ t \in Steps /\ t.applying = s.applying /\ m \in Messages
        /\ t.out = IF s.applying THEN s.out ELSE Append(s.out, m)
        /\ t.g.marks = s.g.marks \cup {n} /\ t.g.slot = s.g.slot /\ t.g.first = s.g.first
    BY <1>2, <1>3, MarkTold
  <2> HIDE DEF t, m
  <2> QED BY <1>3, <2>1
<1>5. m.type = "mark" /\ m.value = n
  BY DEF Message
<1> HIDE DEF t, m
<1>6. /\ u \in Steps
      /\ u.g.slot = None /\ u.g.first = t.g.first /\ u.g.marks = t.g.marks
      /\ u.out = t.out \/ \E v \in Phases :
           u.out = Append(t.out, Message("trade", None, None, v)) /\ v = ItemPhase(t.g.slot) + 1
  <2> DEFINE none == None
  <2>1. none \in TradeItems \cup {None}
    OBVIOUS
  <2> HIDE DEF none
  <2>2. /\ SetSlot(t, none) \in Steps /\ SetSlot(t, none).g.slot = none
        /\ SetSlot(t, none).g.first = t.g.first /\ SetSlot(t, none).g.marks = t.g.marks
        /\ SlotSays(t, none, SetSlot(t, none))
    BY <1>4, <2>1, SlotTold
  <2> QED BY <2>2 DEF none, SlotSays
<1> HIDE DEF u
<1>7. Len(u.out) <= 2 /\ Backed({}, u.out)
  <2>1. t.out = <<m>>
    BY <1>4
  <2>2. CASE u.out = t.out
    BY <1>5, <2>1, <2>2 DEF Backed
  <2>3. CASE u.out = Append(t.out, Message("trade", None, None, n))
    <3> DEFINE v == Message("trade", None, None, n)
    <3>1. v.type = "trade" /\ v.value = n
      BY DEF Message
    <3> HIDE DEF v
    <3>2. v \in Messages
      BY <1>2 DEF v, Message, Messages, Kind
    <3>3. <<m>> \in Seq(Messages) /\ Len(<<m>>) = 1 /\ <<m>>[1] = m
      BY <1>4
    <3>4. u.out = Append(<<m>>, v)
      BY <2>1, <2>3 DEF v
    <3>5. Len(u.out) = 2 /\ u.out[1] = m /\ u.out[2] = v
      BY <3>2, <3>3, <3>4
    <3> QED BY <1>5, <3>1, <3>5 DEF Backed
  <2> QED BY <1>4, <1>6, <2>2, <2>3 DEF n
<1>8. u.g \in Games
  BY <1>6 DEF Steps
<1>9. ASSUME NEW x \in Observations(game[p]) PROVE \E y \in Observations(u.g) : y >= x
  <2>1. x \in Int
    BY ObservedIsGreatest
  <2>2. CASE x \in {-1} \cup game[p].marks
    BY <1>4, <1>6, <2>1, <2>2 DEF Observations
  <2>3. CASE x = ItemPhase(k)
    <3>1. n \in Observations(u.g)
      BY <1>4, <1>6 DEF Observations
    <3> QED BY <1>2, <2>3, <3>1 DEF n
  <2>4. CASE \E j \in game[p].first : x = ItemPhase(j)
    <3>1. PICK j \in game[p].first : x = ItemPhase(j)
      BY <2>4
    <3>2. ItemPhase(j) + 1 \in Observations(u.g)
      BY <1>4, <1>6 DEF Observations
    <3> QED BY <2>1, <3>1, <3>2
  <2>5. ItemPhase(k) + 0 = ItemPhase(k) /\ \A j \in game[p].first : ItemPhase(j) + 0 = ItemPhase(j)
    <3>1. game[p].first \subseteq TradeItems
      BY DEF Games
    <3> QED BY <1>1, <3>1, Doubles
  <2> QED BY <2>2, <2>3, <2>4, <2>5 DEF Observations
<1>10. ObservedPhase(u.g) >= ObservedPhase(game[p])
  BY <1>8, <1>9, Advanced
<1> QED BY <1>4, <1>6, <1>7, <1>10 DEF Does, u, t, s, n

\* The next item is obtained.
LEMMA DoesObtain ==
  ASSUME ProgressAssumption, NEW p \in Players, game[p] \in Games,
         NEW k \in TradeItems, ObservedPhase(game[p]) = ItemPhase(k) - 1
  PROVE  Does(p, ExecItemGet(Step(p, FALSE), k))
<1> DEFINE s == Step(p, FALSE)
           t == SetSlot(s, k)
           u == ExecItemGet(s, k)
<1>1. s \in Steps /\ s.g = game[p] /\ s.applying = FALSE /\ s.out = <<>>
  BY FirstStep
<1> HIDE DEF s
<1>2. ItemPhase(k) \in Nat /\ ~Odd(ItemPhase(k)) /\ k # None
  BY Doubles
<1>3. ~(ObservedPhase(s.g) > ItemPhase(k))
  BY <1>1, <1>2
<1>4. /\ t \in Steps /\ Tells(t, u) /\ u.g.marks = s.g.marks
      /\ ObservedPhase(u.g) >= ObservedPhase(s.g)
  BY <1>1, <1>3, ItemGot
<1>5. t.out = <<>> \/ \E n \in Phases : n = ItemPhase(k)
                       /\ t.out = Append(<<>>, Message("trade", None, None, n))
  <2>1. SlotSays(s, k, t)
    BY <1>1, SlotTold
  <2> QED BY <1>1, <1>2, <2>1 DEF SlotSays
<1> HIDE DEF t, u
<1>6. Len(t.out) <= 1 /\ Backed({}, t.out)
  <2>1. CASE t.out = <<>>
    BY <2>1 DEF Backed
  <2>2. CASE t.out = Append(<<>>, Message("trade", None, None, ItemPhase(k)))
    <3> DEFINE m == Message("trade", None, None, ItemPhase(k))
    <3>1. m \in Messages /\ m.value = ItemPhase(k)
      BY Doubles DEF Message, Messages, Kind
    <3> HIDE DEF m
    <3> QED BY <1>2, <1>4, <2>2, <3>1, OneMessage DEF m
  <2> QED BY <1>5, <2>1, <2>2
<1>7. u \in Steps /\ t.out \in Seq(Messages) /\ u.out \in Seq(Messages)
  BY <1>4 DEF Tells, Steps
<1>8. Len(u.out) <= 2 /\ Backed({}, u.out)
  <2>1. CASE u.out = t.out
    BY <1>6, <1>7, <2>1
  <2>2. ASSUME NEW m \in Messages, m.type # "trade", u.out = Append(t.out, m)
        PROVE  Len(u.out) <= 2 /\ Backed({}, u.out)
    <3>1. u.out = t.out \o <<m>> /\ <<m>> \in Seq(Messages) /\ Len(u.out) = Len(t.out) + 1
      <4> DEFINE o == t.out
      <4>1. o \in Seq(Messages)
        BY <1>7
      <4> HIDE DEF o
      <4>2. Append(o, m) = o \o <<m>> /\ <<m>> \in Seq(Messages) /\ Len(Append(o, m)) = Len(o) + 1
        BY <4>1
      <4> QED BY <2>2, <4>2 DEF o
    <3>2. Backed({}, <<m>>)
      BY <2>2 DEF Backed
    <3>3. Backed({}, u.out)
      <4> DEFINE o == t.out
                 one == <<m>>
      <4>1. o \in Seq(Messages) /\ one \in Seq(Messages) /\ Backed({}, o) /\ Backed({}, one)
        BY <1>6, <1>7, <3>1, <3>2
      <4>2. u.out = o \o one
        BY <3>1
      <4> HIDE DEF o, one
      <4>3. Backed({}, o \o one)
        BY <4>1, BackedConcat
      <4> QED BY <4>2, <4>3
    <3>4. Len(t.out) \in Nat
      BY <1>7
    <3> QED BY <1>6, <3>1, <3>3, <3>4
  <2> QED BY <1>4, <2>1, <2>2 DEF Tells
<1> QED BY <1>1, <1>4, <1>7, <1>8 DEF Does, u, s

-----------------------------------------------------------------------------
\* The inductive invariant.
Types ==
  /\ game \in [Players -> Games] /\ queue \in [Players -> [Players -> Seq(Messages)]]
  /\ sent \in Nat /\ locals \in 0..MaxLocals /\ moves \in 0..MaxMoves

\* Nobody sends to itself.
NoLoop == \A p \in Players : queue[p][p] = <<>>

SlotsBacked == \A p, q \in Players : Backed(game[p].marks, queue[q][p])

Inv == Types /\ NoLoop /\ SlotsBacked /\ NoEcho

Advances == \A p \in Players : ObservedPhase(game'[p]) >= ObservedPhase(game[p])

\* The games one player leaves alone.
LEMMA OneGame ==
  ASSUME ProgressAssumption, Inv, NEW p \in Players, NEW g \in Games,
         game' = [game EXCEPT ![p] = g], ObservedPhase(g) >= ObservedPhase(game[p])
  PROVE  /\ game' \in [Players -> Games] /\ game'[p] = g
         /\ \A q \in Players : q # p => game'[q] = game[q]
         /\ Advances
<1>1. /\ game' \in [Players -> Games] /\ game'[p] = g
      /\ \A q \in Players : q # p => game'[q] = game[q]
  BY DEF Inv, Types
<1>2. \A q \in Players : ObservedPhase(game[q]) \in Int
  BY ObservedIsGreatest DEF Inv, Types
<1>3. ASSUME NEW q \in Players PROVE ObservedPhase(game'[q]) >= ObservedPhase(game[q])
  BY <1>1, <1>2
<1> QED BY <1>1, <1>3 DEF Advances

\* What a player does keeps the invariant.
LEMMA LocalKeeps ==
  ASSUME ProgressAssumption, Inv, NEW p \in Players, NEW s, NEW facts,
         Does(p, s), Local(p, s, facts)
  PROVE  Inv' /\ Advances
<1>1. /\ locals < MaxLocals /\ locals' = locals + 1 /\ moves' = moves
      /\ game' = [game EXCEPT ![p] = s.g]
      /\ queue' = [queue EXCEPT ![p] =
                      [q \in Players |-> IF q = p THEN queue[p][q] ELSE queue[p][q] \o s.out]]
      /\ sent' = sent + Len(s.out)
  BY DEF Local, Commit
<1>2. /\ s.g \in Games /\ s.out \in Seq(Messages) /\ Len(s.out) <= 2 /\ Backed({}, s.out)
      /\ game[p].marks \subseteq s.g.marks /\ Len(s.out) \in Nat
      /\ ObservedPhase(s.g) >= ObservedPhase(game[p])
  BY DEF Does, Steps
<1>3. /\ game' \in [Players -> Games] /\ game'[p] = s.g
      /\ \A q \in Players : q # p => game'[q] = game[q]
      /\ Advances
  BY <1>1, <1>2, OneGame
<1>4. \A r, q \in Players : queue[r][q] \in Seq(Messages) /\ Backed(game[q].marks, queue[r][q])
  BY DEF Inv, Types, SlotsBacked
<1>5. ASSUME NEW q \in Players
      PROVE  queue[p][q] \o s.out \in Seq(Messages) /\ Backed(game[q].marks, queue[p][q] \o s.out)
  BY <1>2, <1>4, BackedConcat
<1>6. \A r, q \in Players :
        queue'[r][q] = IF r = p /\ q # p THEN queue[r][q] \o s.out ELSE queue[r][q]
  BY <1>1 DEF Inv, Types
<1>7. queue' \in [Players -> [Players -> Seq(Messages)]]
  <2> DEFINE row == [q \in Players |-> IF q = p THEN queue[p][q] ELSE queue[p][q] \o s.out]
  <2>1. row \in [Players -> Seq(Messages)]
    BY <1>4, <1>5
  <2> HIDE DEF row
  <2> QED BY <1>1, <2>1 DEF row, Inv, Types
<1>8. SlotsBacked'
  <2> SUFFICES ASSUME NEW q \in Players, NEW r \in Players
               PROVE  Backed(game'[q].marks, queue'[r][q])
    BY DEF SlotsBacked
  <2>1. game[q].marks \subseteq game'[q].marks
    BY <1>2, <1>3
  <2>2. Backed(game[q].marks, queue'[r][q])
    BY <1>4, <1>5, <1>6
  <2> QED BY <2>1, <2>2, BackedMore
<1>9. NoLoop'
  BY <1>6 DEF NoLoop, Inv
<1>10. MaxLocals \in Nat
  BY DEF ProgressAssumption
<1>11. sent' \in Nat /\ sent' <= 2 * locals' /\ locals' \in 0..MaxLocals /\ moves' \in 0..MaxMoves
  <2>1. sent \in Nat /\ locals \in Nat /\ sent <= 2 * locals /\ moves \in 0..MaxMoves
    BY DEF Inv, Types, NoEcho
  <2> DEFINE length == Len(s.out)
  <2>2. length \in Nat /\ length <= 2 /\ sent' = sent + length
    BY <1>1, <1>2
  <2> HIDE DEF length
  <2>3. sent' \in Nat /\ sent' <= 2 * locals'
    <3>1. locals' = locals + 1
      BY <1>1
    <3> QED BY <2>1, <2>2, <3>1
  <2>4. locals' \in 0..MaxLocals /\ moves' \in 0..MaxMoves
    BY <1>1, <1>10, <2>1, SMTT(30) DEF ProgressAssumption
  <2> QED BY <2>3, <2>4
<1> QED BY <1>3, <1>7, <1>8, <1>9, <1>11 DEF Inv, Types, NoEcho

\* A change of the game that is none of the quest's, and sends nothing.
LEMMA QuietKeeps ==
  ASSUME ProgressAssumption, Inv, NEW p \in Players, NEW g \in Games, SameQuest(game[p], g),
         game' = [game EXCEPT ![p] = g], queue' = queue, sent' = sent, locals' = locals,
         moves' \in 0..MaxMoves
  PROVE  Inv' /\ Advances
<1>1. game[p] \in Games
  BY DEF Inv, Types
<1>2. ObservedPhase(g) >= ObservedPhase(game[p])
  BY <1>1, SameObserved
<1>3. /\ game' \in [Players -> Games] /\ game'[p] = g
      /\ \A q \in Players : q # p => game'[q] = game[q]
      /\ Advances
  BY <1>2, OneGame
<1>4. \A q \in Players : game'[q].marks = game[q].marks
  BY <1>3 DEF SameQuest
<1>5. SlotsBacked'
  BY <1>4 DEF SlotsBacked, Inv
<1> QED BY <1>3, <1>5 DEF Inv, Types, NoEcho, NoLoop

\* What a player receives keeps the invariant: it comes from the head of a stream, and
\* nothing is told of it.
LEMMA ReceiveKeeps ==
  ASSUME ProgressAssumption, Inv, NEW p \in Players, NEW q \in Players, Receive(p, q)
  PROVE  Inv' /\ Advances
<1> DEFINE m == Head(queue[q][p])
           t == Step(p, TRUE)
           s == Apply(t, m)
           told == [queue EXCEPT ![q][p] = Tail(@)]
<1>1. /\ queue[q][p] # <<>> /\ game' = [game EXCEPT ![p] = s.g]
      /\ queue' = [told EXCEPT ![p] =
                      [r \in Players |-> IF r = p THEN told[p][r] ELSE told[p][r] \o s.out]]
      /\ sent' = sent + Len(s.out) /\ locals' = locals /\ moves' = moves
  BY DEF Receive, Guarded
<1>2. p # q
  BY <1>1 DEF Inv, NoLoop
<1>3. /\ game[p] \in Games
      /\ \A r, a \in Players : queue[r][a] \in Seq(Messages) /\ Backed(game[a].marks, queue[r][a])
  BY DEF Inv, Types, SlotsBacked
<1>4. t \in Steps /\ t.g = game[p] /\ t.applying = TRUE /\ t.out = <<>>
  BY <1>3, FirstStep
<1>5. m \in Messages /\ (m.type = "trade" /\ Odd(m.value) => m.value \in game[p].marks)
  <2> DEFINE more == game[p].marks \cup {m.value}
  <2>1. game[p].marks \subseteq more /\ m.value \in more
    OBVIOUS
  <2> HIDE DEF more
  <2> QED BY <1>1, <1>3, <2>1, BackedTail
<1> HIDE DEF m, t
<1>6. Silent(t, s) /\ (m.type = "mark" => m.value \in s.g.marks)
  BY <1>4, <1>5, Applied
<1> HIDE DEF s
<1>7. /\ s.g \in Games /\ s.out = <<>> /\ game[p].marks \subseteq s.g.marks
      /\ ObservedPhase(s.g) >= ObservedPhase(game[p])
  BY <1>4, <1>6 DEF Silent, Steps
<1>8. /\ game' \in [Players -> Games] /\ game'[p] = s.g
      /\ \A r \in Players : r # p => game'[r] = game[r]
      /\ Advances
  BY <1>1, <1>7, OneGame
<1>9. Tail(queue[q][p]) \in Seq(Messages) /\ Backed(s.g.marks, Tail(queue[q][p]))
  BY <1>1, <1>3, <1>6, <1>7, BackedTail, SMTT(30) DEF m
<1>10. told \in [Players -> [Players -> Seq(Messages)]]
  BY <1>9 DEF Inv, Types
<1>11. \A r, a \in Players : told[r][a] = IF r = q /\ a = p THEN Tail(queue[q][p]) ELSE queue[r][a]
  BY DEF Inv, Types
<1> HIDE DEF told
<1>12. \A r \in Players : told[p][r] \o <<>> = told[p][r]
  BY <1>10
<1>13. queue' \in [Players -> [Players -> Seq(Messages)]]
       /\ \A r, a \in Players : queue'[r][a] = told[r][a]
  BY <1>1, <1>7, <1>10, <1>12
<1>14. SlotsBacked'
  <2> SUFFICES ASSUME NEW a \in Players, NEW r \in Players
               PROVE  Backed(game'[a].marks, queue'[r][a])
    BY DEF SlotsBacked
  <2>1. CASE r = q /\ a = p
    <3>1. queue'[r][a] = Tail(queue[q][p])
      BY <1>11, <1>13, <2>1
    <3>2. game'[a].marks = s.g.marks
      BY <1>8, <2>1
    <3> QED BY <1>9, <3>1, <3>2
  <2>2. CASE ~(r = q /\ a = p)
    <3>1. queue'[r][a] = queue[r][a]
      BY <1>11, <1>13, <2>2
    <3>2. game[a].marks \subseteq game'[a].marks
      BY <1>7, <1>8
    <3>3. Backed(game[a].marks, queue'[r][a])
      BY <1>3, <3>1
    <3> QED BY <3>2, <3>3, BackedMore
  <2> QED BY <2>1, <2>2
<1>15. NoLoop'
  <2>1. \A r \in Players : queue[r][r] = <<>>
    BY DEF NoLoop, Inv
  <2>2. \A r \in Players : queue'[r][r] = queue[r][r]
    BY <1>2, <1>11, <1>13
  <2> QED BY <2>1, <2>2 DEF NoLoop
<1>16. sent' = sent
  BY <1>1, <1>7 DEF Inv, Types
<1> QED BY <1>1, <1>8, <1>13, <1>14, <1>15, <1>16 DEF Inv, Types, NoEcho

\* Every step keeps the invariant, and no step takes a player back in the quest.
LEMMA StepKeeps ==
  ASSUME ProgressAssumption, Inv, Next
  PROVE  Inv' /\ Advances
<1> PICK p \in Players :
      \/ PickUp(p) \/ Toggle(p) \/ Operate(p) \/ GainKey(p) \/ SpendKey(p) \/ Achieve(p) \/ Donate(p)
      \/ HandIn(p) \/ Obtain(p)
      \/ \E q \in Players : Receive(p, q)
      \/ Leave(p) \/ Enter(p) \/ Restart(p) \/ Repair(p)
  BY DEF Next
<1> DEFINE g == game[p]
           s == Step(p, FALSE)
<1>1. g \in Games /\ g.stage \in Stages /\ g.stage \in Scopes /\ None \in Scopes
  BY DEF Inv, Types, Games, Scopes
<1>2. s \in Steps /\ s.g = g
  BY <1>1, FirstStep
<1>3. g.memory \in BitsType /\ g.memory.keys \in 0..MaxKeys /\ g.offering \in 0..MaxOffering
      /\ g.table \in [Scopes -> BitsType] /\ g.observed \in [Stages -> SUBSET Items]
      /\ MaxKeys \in Nat /\ MaxOffering \in Nat
  BY <1>1 DEF Games, BitsType, ProgressAssumption
<1>4. ASSUME NEW t, Tells(s, t), SameQuest(s.g, t.g) PROVE Does(p, t)
  BY <1>1, <1>2, <1>4, DoesOne
<1> HIDE DEF s
<1>10. ASSUME PickUp(p) PROVE Inv' /\ Advances
  <2> PICK i \in Items : Local(p, OnItem(s, g.stage, i), {<<g.stage, i>>})
    BY <1>10 DEF PickUp, s
  <2>1. Does(p, OnItem(s, g.stage, i))
    BY <1>1, <1>2, <1>4, ItemTold
  <2> QED BY <2>1, LocalKeeps
<1>11. ASSUME Toggle(p) PROVE Inv' /\ Advances
  <2> PICK st \in {g.stage, None}, w \in Flags :
             Local(p, SetFlag(s, st, w, IF w \in Bits(g, st).flags THEN 0 ELSE 1), {})
    BY <1>11 DEF Toggle, s
  <2> DEFINE on == IF w \in Bits(g, st).flags THEN 0 ELSE 1
  <2>1. on \in {0, 1} /\ st \in Scopes
    BY <1>1
  <2> HIDE DEF on
  <2>2. Does(p, SetFlag(s, st, w, on))
    BY <1>2, <1>4, <2>1, FlagTold
  <2>3. Local(p, SetFlag(s, st, w, on), {})
    BY DEF on
  <2> QED BY <2>2, <2>3, LocalKeeps
<1>12. ASSUME Operate(p) PROVE Inv' /\ Advances
  <2> PICK w \in Flags : Local(p, SetZone(s, g.stage, w, IF w \in g.zone THEN 0 ELSE 1), {})
    BY <1>12 DEF Operate, s
  <2> DEFINE on == IF w \in g.zone THEN 0 ELSE 1
  <2>1. on \in {0, 1}
    OBVIOUS
  <2> HIDE DEF on
  <2>2. Does(p, SetZone(s, g.stage, w, on))
    BY <1>1, <1>2, <1>4, <2>1, ZoneTold
  <2>3. Local(p, SetZone(s, g.stage, w, on), {})
    BY DEF on
  <2> QED BY <2>2, <2>3, LocalKeeps
<1>13. ASSUME GainKey(p) PROVE Inv' /\ Advances
  <2> DEFINE n == g.memory.keys + 1
  <2>0. g.memory.keys < MaxKeys /\ Local(p, SetKeys(s, g.stage, n), {})
    BY <1>13 DEF GainKey, s
  <2>1. n \in 0..MaxKeys /\ Local(p, SetKeys(s, g.stage, n), {})
    BY <1>3, <2>0
  <2> HIDE DEF n
  <2>2. Does(p, SetKeys(s, g.stage, n))
    BY <1>1, <1>2, <1>4, <2>1, KeysTold
  <2> QED BY <2>1, <2>2, LocalKeeps
<1>14. ASSUME SpendKey(p) PROVE Inv' /\ Advances
  <2> DEFINE n == g.memory.keys - 1
  <2>0. g.memory.keys > 0 /\ Local(p, SetKeys(s, g.stage, n), {})
    BY <1>14 DEF SpendKey, s
  <2>1. n \in 0..MaxKeys /\ Local(p, SetKeys(s, g.stage, n), {})
    BY <1>3, <2>0
  <2> HIDE DEF n
  <2>2. Does(p, SetKeys(s, g.stage, n))
    BY <1>1, <1>2, <1>4, <2>1, KeysTold
  <2> QED BY <2>1, <2>2, LocalKeeps
<1>15. ASSUME Achieve(p) PROVE Inv' /\ Advances
  <2> PICK f \in Facts, facts \in SUBSET ({None} \X Facts) : Local(p, OnFact(s, f), facts)
    <3>1. PICK f \in Facts : Local(p, OnFact(s, f), IF Allowed(game[p], f) THEN {<<None, f>>} ELSE {})
      BY <1>15 DEF Achieve, s
    <3>2. (IF Allowed(game[p], f) THEN {<<None, f>>} ELSE {}) \in SUBSET ({None} \X Facts)
      OBVIOUS
    <3> QED BY <3>1, <3>2
  <2>1. Does(p, OnFact(s, f))
    BY <1>2, <1>4, FactTold
  <2> QED BY <2>1, LocalKeeps
<1>16. ASSUME Donate(p) PROVE Inv' /\ Advances
  <2> DEFINE n == g.offering + 1
  <2>0. g.offering < MaxOffering /\ Local(p, SetOffering(s, n), {})
    BY <1>16 DEF Donate, s
  <2>1. n \in 0..MaxOffering /\ Local(p, SetOffering(s, n), {})
    BY <1>3, <2>0
  <2> HIDE DEF n
  <2>2. Does(p, SetOffering(s, n))
    BY <1>2, <1>4, <2>1, OfferingTold
  <2> QED BY <2>1, <2>2, LocalKeeps
<1>17. ASSUME HandIn(p) PROVE Inv' /\ Advances
  <2> DEFINE k == g.slot
  <2>1. k # None /\ Local(p, SetSlot(OnMark(s, ItemPhase(k) + 1), None), {})
    BY <1>17 DEF HandIn, s
  <2>2. Does(p, SetSlot(OnMark(s, ItemPhase(k) + 1), None))
    BY <1>1, <2>1, DoesHandIn DEF s
  <2> QED BY <2>1, <2>2, LocalKeeps
<1>18. ASSUME Obtain(p) PROVE Inv' /\ Advances
  <2> PICK k \in TradeItems : /\ ObservedPhase(game[p]) = ItemPhase(k) - 1
                              /\ Local(p, ExecItemGet(s, k), {})
    BY <1>18 DEF Obtain, s
  <2>1. Does(p, ExecItemGet(s, k))
    BY <1>1, DoesObtain DEF s
  <2> QED BY <2>1, LocalKeeps
<1>19. ASSUME NEW q \in Players, Receive(p, q) PROVE Inv' /\ Advances
  BY <1>19, ReceiveKeeps
<1>20. ASSUME Leave(p) PROVE Inv' /\ Advances
  <2> DEFINE table == [g.table EXCEPT ![g.stage] = g.memory]
             h == [g EXCEPT !.ready = FALSE, !.table = table]
  <2>1. table \in [Scopes -> BitsType]
    BY <1>1, <1>3
  <2>2. /\ moves < MaxMoves /\ moves' = moves + 1
        /\ game' = [game EXCEPT ![p] = h]
        /\ queue' = queue /\ sent' = sent /\ locals' = locals
    BY <1>20 DEF Leave, Move
  <2> HIDE DEF table
  <2>3. h \in Games /\ SameQuest(g, h)
    BY <1>1, <2>1 DEF Games, SameQuest
  <2> HIDE DEF h
  <2>4. moves' \in 0..MaxMoves
    BY <2>2 DEF Inv, Types, ProgressAssumption
  <2> QED BY <2>2, <2>3, <2>4, QuietKeeps
<1>21. ASSUME Enter(p) PROVE Inv' /\ Advances
  <2> PICK st \in Stages :
        game' = [game EXCEPT ![p] = [game[p] EXCEPT !.stage = st, !.ready = TRUE, !.repaired = FALSE,
                                                    !.memory = game[p].table[st], !.zone = {}]]
    BY <1>21 DEF Enter
  <2> DEFINE h == [game[p] EXCEPT !.stage = st, !.ready = TRUE, !.repaired = FALSE,
                                  !.memory = game[p].table[st], !.zone = {}]
  <2>1. game[p].table[st] \in BitsType
    BY <1>3 DEF Scopes
  <2>2. h \in Games /\ SameQuest(g, h)
    BY <1>1, <2>1 DEF Games, SameQuest
  <2>3. game' = [game EXCEPT ![p] = h]
    OBVIOUS
  <2>4. queue' = queue /\ sent' = sent /\ locals' = locals /\ moves' \in 0..MaxMoves
    BY <1>21 DEF Enter, Inv, Types
  <2> HIDE DEF h
  <2> QED BY <2>2, <2>3, <2>4, QuietKeeps
<1>22. ASSUME Restart(p) PROVE Inv' /\ Advances
  <2> DEFINE h == [g EXCEPT !.memory = g.table[g.stage], !.repaired = FALSE]
  <2>1. g.table[g.stage] \in BitsType
    BY <1>1, <1>3
  <2>2. /\ moves < MaxMoves /\ moves' = moves + 1
        /\ game' = [game EXCEPT ![p] = h]
        /\ queue' = queue /\ sent' = sent /\ locals' = locals
    BY <1>22 DEF Restart, Move
  <2>3. h \in Games /\ SameQuest(g, h)
    BY <1>1, <2>1 DEF Games, SameQuest
  <2> HIDE DEF h
  <2>4. moves' \in 0..MaxMoves
    BY <2>2 DEF Inv, Types, ProgressAssumption
  <2> QED BY <2>2, <2>3, <2>4, QuietKeeps
<1>23. ASSUME Repair(p) PROVE Inv' /\ Advances
  <2> DEFINE bits == [g.memory EXCEPT !.items = @ \cup g.observed[g.stage]]
             h == [g EXCEPT !.repaired = TRUE, !.memory = bits]
  <2>1. bits \in BitsType
    BY <1>1, <1>3 DEF BitsType
  <2>2. /\ game' = [game EXCEPT ![p] = h]
        /\ queue' = queue /\ sent' = sent /\ locals' = locals /\ moves' = moves
    BY <1>23 DEF Repair
  <2> HIDE DEF bits
  <2>3. h \in Games /\ SameQuest(g, h)
    BY <1>1, <2>1 DEF Games, SameQuest
  <2> HIDE DEF h
  <2>4. moves' \in 0..MaxMoves
    BY <2>2 DEF Inv, Types
  <2> QED BY <2>2, <2>3, <2>4, QuietKeeps
<1> QED BY <1>10, <1>11, <1>12, <1>13, <1>14, <1>15, <1>16, <1>17, <1>18, <1>19, <1>20,
           <1>21, <1>22, <1>23

\* The invariant holds when everybody joins.
LEMMA InitInv == ASSUME ProgressAssumption, Init PROVE Inv
<1> PICK stage \in Stages : game = [p \in Players |-> NewGame(stage)]
  BY DEF Init
<1>1. NoBits \in BitsType /\ {MaxLocals, MaxMoves} \subseteq Nat
  BY DEF NoBits, BitsType, ProgressAssumption
<1>2. NewGame(stage) \in Games
  <2> DEFINE table == [st \in Scopes |-> NoBits]
             observed == [st \in Stages |-> {}]
  <2>1. table \in [Scopes -> BitsType] /\ observed \in [Stages -> SUBSET Items]
    BY <1>1
  <2>2. NewGame(stage) = [stage |-> stage, ready |-> TRUE, memory |-> NoBits, table |-> table,
           facts |-> {}, slot |-> None, first |-> {}, marks |-> {}, offering |-> 0, zone |-> {},
           observed |-> observed, repaired |-> TRUE]
    BY DEF NewGame
  <2> HIDE DEF table, observed
  <2>3. 0 \in 0..MaxOffering
    BY DEF ProgressAssumption
  <2> QED BY <1>1, <2>1, <2>2, <2>3 DEF Games
<1>3. queue = [p \in Players |-> [q \in Players |-> <<>>]] /\ <<>> \in Seq(Messages)
  BY DEF Init
<1>4. \A p, q \in Players : queue[q][p] = <<>>
  BY <1>3
<1>5. Len(<<>>) = 0 /\ SlotsBacked
  BY <1>4 DEF SlotsBacked, Backed
<1> QED BY <1>1, <1>2, <1>3, <1>4, <1>5 DEF Init, Inv, Types, NoLoop, NoEcho

\* The invariant holds in every state.
LEMMA InvHolds == Spec => []Inv
<1>1. Init => Inv
  BY InitInv, ProgressAssumption
<1>2. Inv /\ [Next]_vars => Inv'
  <2> SUFFICES ASSUME Inv, [Next]_vars PROVE Inv'
    OBVIOUS
  <2>1. CASE Next
    BY <2>1, StepKeeps, ProgressAssumption
  <2>2. CASE UNCHANGED vars
    BY <2>2 DEF vars, Inv, Types, NoLoop, SlotsBacked, NoEcho
  <2> QED BY <2>1, <2>2
<1> QED BY <1>1, <1>2, PTL DEF Spec

\* The save memories and the streams keep their types.
THEOREM TypeCorrect == Spec => []TypeOK
<1>1. Inv => TypeOK
  <2> SUFFICES ASSUME Inv PROVE TypeOK
    OBVIOUS
  <2>1. ASSUME NEW p \in Players
        PROVE  LET g == game[p] IN
               /\ g.stage \in Stages /\ g.ready \in BOOLEAN /\ g.repaired \in BOOLEAN
               /\ g.memory \in BitsType /\ g.table \in [Scopes -> BitsType]
               /\ g.zone \subseteq Flags /\ g.facts \subseteq Facts /\ g.slot \in TradeItems \cup {None}
               /\ g.first \subseteq TradeItems /\ g.marks \subseteq Phases
               /\ g.offering \in 0..MaxOffering /\ g.observed \in [Stages -> SUBSET Items]
    BY DEF Inv, Types, Games
  <2>2. ASSUME NEW p \in Players, NEW q \in Players, NEW m \in ToSet(queue[p][q])
        PROVE  /\ p # q /\ m.stage \in Scopes
               /\ m.type \in {"item", "flag", "zone", "keys", "fact", "offering", "trade", "get", "mark"}
    <3>1. queue[p][q] \in Seq(Messages)
      BY DEF Inv, Types
    <3>2. m \in Messages /\ queue[p][q] # <<>>
      BY <3>1 DEF ToSet
    <3>3. p # q
      BY <3>2 DEF Inv, NoLoop
    <3> QED BY <3>2, <3>3 DEF Messages, Kind, Scopes
  <2>3. sent \in Nat /\ locals \in 0..MaxLocals /\ moves \in 0..MaxMoves
    BY DEF Inv, Types
  <2> QED BY <2>1, <2>2, <2>3 DEF TypeOK
<1> QED BY <1>1, InvHolds, PTL

\* RemoteApplicationGuard: what the hooks see while a received change is made is
\* not published, so that every message on the way belongs to something a player did.
THEOREM NothingEchoes == Spec => []NoEcho
<1>1. Inv => NoEcho
  BY DEF Inv
<1> QED BY <1>1, InvHolds, PTL

\* trade_item.hpp: a message that is behind what the game has observed does not
\* bring an older item back, nor empty the slot of a newer one.
THEOREM QuestOnlyAdvances == Spec => QuestAdvances
<1>1. Inv /\ [Next]_vars => [Advances]_vars
  BY StepKeeps, ProgressAssumption
<1>2. [][Advances]_vars => QuestAdvances
  BY PTL DEF QuestAdvances, Advances
<1> QED BY <1>1, <1>2, InvHolds, PTL DEF Spec
-----------------------------------------------------------------------------
(***************************************************************************)
(* What is shared agrees once everything has arrived (ProgressConverges).   *)
(*                                                                         *)
(* The argument.  While messages are under way, a player who does not yet  *)
(* have what the others have is about to hear of it: that is what the      *)
(* inductive invariant says of facts and pick-ups, of the value of every   *)
(* topic that was not crossed, and of the furthest phase of the quest.     *)
(***************************************************************************)

\* What is on its way to a player.
Coming(p) == UNION {ToSet(queue[q][p]) : q \in Players}

\* A fact that was achieved has arrived, has come too early, or is coming.
FactsComing == \A p \in Players, f \in Facts :
  <<None, f>> \in published =>
    f \in game[p].facts \/ <<p, f>> \in early \/ Message("fact", None, f, 1) \in Coming(p)

\* A pick-up has been observed or is coming.
PickupsComing == \A p \in Players, st \in Stages, i \in Items :
  <<st, i>> \in published =>
    i \in game[p].observed[st] \/ Message("item", st, i, 1) \in Coming(p)

\* What was observed is in the memory that was repaired.
Sound(g) == g.repaired => g.observed[g.stage] \subseteq g.memory.items

\* Between two stages the table has the memory of the one that was left.
Tabled(g) == ~g.ready => g.table[g.stage] = g.memory

\* The value a player has of a topic, as it would be told.
Held(g, t) ==
  IF t[1] = "keys" THEN Bits(g, t[2]).keys
  ELSE IF \/ t[1] = "flag" /\ t[3] \in Bits(g, t[2]).flags
          \/ t[1] = "zone" /\ t[3] \in g.zone
       THEN 1 ELSE 0

\* A room's switches are those of the stage the player is in.
Here(g, t) == t[1] = "zone" => g.stage = t[2]

\* A player has the value v of a topic, or only v is on its way.
Gets(p, t, v) ==
  /\ \A m \in Coming(p) : Topic(m) = t => m.value = v
  /\ (\A m \in Coming(p) : Topic(m) # t) /\ Here(game[p], t) => Held(game[p], t) = v

OneValue == \A t \in Topics \ crossed : \E v \in Int : \A p \in Players : Gets(p, t, v)

\* The phase of the quest that a message is about.
PhaseOf(m) == IF m.type \in {"trade", "mark"} THEN m.value
              ELSE IF m.type = "get" THEN ItemPhase(m.id) ELSE -1

\* A player is at the phase n, the furthest of all, or is about to hear of it.
Reaches(p, n) ==
  /\ ObservedPhase(game[p]) <= n
  /\ \A m \in Coming(p) : PhaseOf(m) <= n
  /\ ObservedPhase(game[p]) = n \/ \E m \in Coming(p) : PhaseOf(m) = n

OneQuest == \E n \in Int : \A p \in Players : Reaches(p, n)

\* The slot is that of the phase observed, or it is about to change.
SlotStands(p) ==
  \/ game[p].slot = ItemForPhase(ObservedPhase(game[p]))
  \/ \E m \in Coming(p) : m.type = "trade" /\ m.value >= ObservedPhase(game[p])

\* An item that was had after the one in the slot is behind the quest.
FirstsBehind(g) ==
  g.slot # None => \A k \in g.first : k <= g.slot \/ ItemPhase(k) < ObservedPhase(g)

\* In a stream a milestone is followed by the change of the slot it backs.
Followed(s) ==
  \A i \in 1 .. Len(s) : s[i].type = "mark" =>
    \E j \in i + 1 .. Len(s) : s[j].type = "trade" /\ s[j].value = s[i].value

Converging ==
  /\ FactsComing /\ PickupsComing /\ OneValue /\ OneQuest
  /\ \A p \in Players :
       /\ Sound(game[p]) /\ Tabled(game[p]) /\ SlotStands(p) /\ FirstsBehind(game[p])
       /\ \A q \in Players : Followed(queue[q][p])
-----------------------------------------------------------------------------
\* What a step becomes: its game, and the messages told unless the guard is set.
Makes(s, t, g, told) ==
  /\ t \in Steps /\ t.g = g /\ t.applying = s.applying /\ told \in Seq(Messages)
  /\ t.out = IF s.applying THEN s.out ELSE s.out \o told

\* A change that is not told, and one that is.
LEMMA Made ==
  ASSUME NEW s \in Steps, NEW g \in Games, NEW m \in Messages
  PROVE  /\ Makes(s, With(s, g), g, <<>>)
         /\ Makes(s, Publish(With(s, g), m), g, <<m>>)
<1> DEFINE t == With(s, g)
<1>1. t \in Steps /\ t.g = g /\ t.applying = s.applying /\ t.out = s.out
  BY WithGame
<1> HIDE DEF t
<1>2. /\ Publish(t, m) \in Steps /\ Publish(t, m).g = g /\ Publish(t, m).applying = s.applying
      /\ Publish(t, m).out = IF s.applying THEN s.out ELSE Append(s.out, m)
  BY <1>1, Published
<1>3. s.out \in Seq(Messages)
  BY DEF Steps
<1>4. s.out \o <<>> = s.out /\ s.out \o <<m>> = Append(s.out, m) /\ <<>> \in Seq(Messages)
      /\ <<m>> \in Seq(Messages)
  BY <1>3
<1> QED BY <1>1, <1>2, <1>4 DEF Makes, t

ItemGame(g, st, i) ==
  [Write(g, st, [Bits(g, st) EXCEPT !.items = @ \cup {i}]) EXCEPT
     !.observed = [g.observed EXCEPT ![st] = @ \cup {i}]]

FlagGame(g, st, w, on) ==
  Write(g, st, [Bits(g, st) EXCEPT !.flags = IF on = 1 THEN @ \cup {w} ELSE @ \ {w}])

ZoneGame(g, w, on) ==
  [g EXCEPT !.zone = IF on = 1 THEN g.zone \cup {w} ELSE g.zone \ {w}]

KeysGame(g, st, n) == Write(g, st, [Bits(g, st) EXCEPT !.keys = n])

\* The bits of a stage are bits.
LEMMA BitsTyped ==
  ASSUME NEW g \in Games, NEW st \in Scopes
  PROVE  Bits(g, st) \in BitsType
BY DEF Bits, Games

\* The games these changes make.
LEMMA GamesMade ==
  ASSUME NEW g \in Games
  PROVE  /\ \A st \in Stages, i \in Items : ItemGame(g, st, i) \in Games
         /\ \A st \in Scopes, w \in Flags, on \in {0, 1} : FlagGame(g, st, w, on) \in Games
         /\ \A w \in Flags, on \in {0, 1} : ZoneGame(g, w, on) \in Games
         /\ \A st \in Stages, n \in 0..MaxKeys : KeysGame(g, st, n) \in Games
<1>1. ASSUME NEW st \in Stages, NEW i \in Items PROVE ItemGame(g, st, i) \in Games
  <2> DEFINE bits == [Bits(g, st) EXCEPT !.items = @ \cup {i}]
             observed == [g.observed EXCEPT ![st] = @ \cup {i}]
  <2>1. st \in Scopes
    BY DEF Scopes
  <2>2. bits \in BitsType
    BY <2>1, BitsTyped DEF BitsType
  <2>3. observed \in [Stages -> SUBSET Items]
    BY DEF Games
  <2> HIDE DEF bits, observed
  <2>4. Write(g, st, bits) \in Games
    BY <2>1, <2>2, Written
  <2> DEFINE h == Write(g, st, bits)
  <2> HIDE DEF h
  <2>5. [h EXCEPT !.observed = observed] \in Games
    BY <2>3, <2>4 DEF Games, h
  <2> QED BY <2>5 DEF ItemGame, bits, observed, h
<1>2. ASSUME NEW st \in Scopes, NEW w \in Flags, NEW on \in {0, 1} PROVE FlagGame(g, st, w, on) \in Games
  <2> DEFINE bits == [Bits(g, st) EXCEPT !.flags = IF on = 1 THEN @ \cup {w} ELSE @ \ {w}]
  <2>1. bits \in BitsType
    BY BitsTyped DEF BitsType
  <2> HIDE DEF bits
  <2>2. Write(g, st, bits) \in Games
    BY <2>1, Written
  <2> QED BY <2>2 DEF FlagGame, bits
<1>3. ASSUME NEW w \in Flags, NEW on \in {0, 1} PROVE ZoneGame(g, w, on) \in Games
  BY DEF ZoneGame, Games
<1>4. ASSUME NEW st \in Stages, NEW n \in 0..MaxKeys PROVE KeysGame(g, st, n) \in Games
  <2> DEFINE bits == [Bits(g, st) EXCEPT !.keys = n]
  <2>0. st \in Scopes
    BY DEF Scopes
  <2>1. bits \in BitsType
    BY <2>0, BitsTyped DEF BitsType
  <2> HIDE DEF bits
  <2>2. Write(g, st, bits) \in Games
    BY <2>0, <2>1, Written
  <2> QED BY <2>2 DEF KeysGame, bits
<1> QED BY <1>1, <1>2, <1>3, <1>4

\* A pick-up: what the game does by itself tells of it, a received one is only
\* remembered.
LEMMA ItemMade ==
  ASSUME NEW s \in Steps, NEW st \in Stages, NEW i \in Items
  PROVE  /\ st = s.g.stage /\ ~s.applying =>
              Makes(s, OnItem(s, st, i), ItemGame(s.g, st, i), <<Message("item", st, i, 1)>>)
         /\ s.applying => Makes(s, ApplyItem(s, st, i), ItemGame(s.g, st, i), <<>>)
<1> DEFINE bits == [Bits(s.g, st) EXCEPT !.items = @ \cup {i}]
           g == Write(s.g, st, bits)
           t == With(s, g)
           h == ItemGame(s.g, st, i)
           m == Message("item", st, i, 1)
<1>1. s.g \in Games /\ st \in Scopes
  BY DEF Steps, Scopes
<1>2. bits \in BitsType
  BY <1>1, BitsTyped DEF BitsType
<1>3. m \in Messages
  BY DEF m, Message, Messages, Kind
<1> HIDE DEF m
<1>4. g \in Games /\ g.observed = s.g.observed /\ h = [g EXCEPT !.observed = [g.observed EXCEPT ![st] = @ \cup {i}]]
  <2>1. g \in Games /\ g.observed = s.g.observed
    BY <1>1, <1>2, Written
  <2> QED BY <2>1 DEF ItemGame
<1>5. h \in Games
  BY <1>1, GamesMade
<1> HIDE DEF g, h
<1>6. t \in Steps /\ t.g = g /\ t.applying = s.applying /\ t.out = s.out
  BY <1>4, WithGame
<1>7. Remember(t, st, i) = With(t, h)
  BY <1>4, <1>6 DEF Remember
<1> HIDE DEF t
<1>8. Makes(t, With(t, h), h, <<>>) /\ Makes(t, Publish(With(t, h), m), h, <<m>>)
  BY <1>3, <1>5, <1>6, Made
<1>9. Makes(s, With(t, h), h, <<>>) /\ Makes(s, Publish(With(t, h), m), h, <<m>>)
  BY <1>6, <1>8 DEF Makes
<1>10. st = s.g.stage /\ ~s.applying => OnItem(s, st, i) = Publish(With(t, h), m)
  BY <1>7 DEF OnItem, t, g, m
<1>11. s.applying => ApplyItem(s, st, i) = With(t, h)
  BY <1>7 DEF ApplyItem, OnItem, t, g
<1> QED BY <1>9, <1>10, <1>11 DEF h, m

\* A switch: its edge is told in the stage, or when it belongs to none.
LEMMA FlagMade ==
  ASSUME NEW s \in Steps, NEW st \in Scopes, NEW w \in Flags, NEW on \in {0, 1}
  PROVE  LET t == SetFlag(s, st, w, on)
             h == FlagGame(s.g, st, w, on) IN
         \/ Makes(s, t, h, <<Message("flag", st, w, on)>>)
         \/ Makes(s, t, h, <<>>) /\ (h = s.g \/ st \notin {s.g.stage, None})
<1> DEFINE old == Bits(s.g, st)
           new == [old EXCEPT !.flags = IF on = 1 THEN @ \cup {w} ELSE @ \ {w}]
           h == FlagGame(s.g, st, w, on)
           m == Message("flag", st, w, on)
<1>1. s.g \in Games
  BY DEF Steps
<1>2. h \in Games /\ h = Write(s.g, st, new)
  BY <1>1, GamesMade DEF FlagGame
<1>3. m \in Messages
  BY DEF Message, Messages, Kind
<1>4. Makes(s, With(s, h), h, <<>>) /\ Makes(s, Publish(With(s, h), m), h, <<m>>)
  BY <1>2, <1>3, Made
<1>5. SetFlag(s, st, w, on) = IF old # new /\ st \in {s.g.stage, None}
                              THEN Publish(With(s, h), m) ELSE With(s, h)
  BY <1>2 DEF SetFlag
<1>6. old = new => h = s.g
  <2> SUFFICES ASSUME old = new PROVE Write(s.g, st, old) = s.g
    BY <1>2
  <2>1. [s.g.table EXCEPT ![st] = s.g.table[st]] = s.g.table
    BY <1>1 DEF Games
  <2>2. [s.g EXCEPT !.memory = s.g.memory] = s.g /\ [s.g EXCEPT !.table = s.g.table] = s.g
    BY <1>1 DEF Games
  <2> QED BY <2>1, <2>2 DEF Write, Bits
<1> HIDE DEF h, m, old, new
<1> QED BY <1>4, <1>5, <1>6 DEF h, m

\* A switch of a room.
LEMMA ZoneMade ==
  ASSUME NEW s \in Steps, NEW st \in Stages, NEW w \in Flags, NEW on \in {0, 1}
  PROVE  LET t == SetZone(s, st, w, on)
             h == ZoneGame(s.g, w, on) IN
         \/ Makes(s, t, h, <<Message("zone", st, w, on)>>)
         \/ Makes(s, t, h, <<>>) /\ h = s.g
<1> DEFINE new == IF on = 1 THEN s.g.zone \cup {w} ELSE s.g.zone \ {w}
           h == ZoneGame(s.g, w, on)
           m == Message("zone", st, w, on)
<1>1. s.g \in Games
  BY DEF Steps
<1>2. h \in Games /\ h = [s.g EXCEPT !.zone = new]
  BY <1>1, GamesMade DEF ZoneGame
<1>3. m \in Messages
  BY DEF Message, Messages, Kind
<1>4. Makes(s, With(s, h), h, <<>>) /\ Makes(s, Publish(With(s, h), m), h, <<m>>)
  BY <1>2, <1>3, Made
<1>5. SetZone(s, st, w, on) = IF new # s.g.zone THEN Publish(With(s, h), m) ELSE With(s, h)
  BY <1>2 DEF SetZone
<1>6. new = s.g.zone => h = s.g
  <2> HIDE DEF new, h
  <2>1. [s.g EXCEPT !.zone = s.g.zone] = s.g
    BY <1>1 DEF Games
  <2> QED BY <1>2, <2>1
<1> HIDE DEF h, m, new
<1> QED BY <1>4, <1>5, <1>6 DEF h, m

\* The keys of a stage: those of the stage the player is in are told.
LEMMA KeysMade ==
  ASSUME NEW s \in Steps, NEW st \in Stages, NEW n \in 0..MaxKeys
  PROVE  LET t == SetKeys(s, st, n)
             h == KeysGame(s.g, st, n) IN
         \/ Makes(s, t, h, <<Message("keys", st, None, n)>>)
         \/ Makes(s, t, h, <<>>) /\ st # s.g.stage
<1> DEFINE h == KeysGame(s.g, st, n)
           m == Message("keys", st, None, n)
<1>1. s.g \in Games
  BY DEF Steps
<1>2. h \in Games
  BY <1>1, GamesMade
<1>3. m \in Messages
  BY DEF Message, Messages, Kind
<1>4. Makes(s, With(s, h), h, <<>>) /\ Makes(s, Publish(With(s, h), m), h, <<m>>)
  BY <1>2, <1>3, Made
<1>5. SetKeys(s, st, n) = IF st = s.g.stage THEN Publish(With(s, h), m) ELSE With(s, h)
  BY DEF SetKeys, KeysGame
<1> HIDE DEF h, m
<1> QED BY <1>4, <1>5 DEF h, m

\* A fact is told when what it waits for is there.
LEMMA FactMade ==
  ASSUME NEW s \in Steps, NEW f \in Facts
  PROVE  LET t == OnFact(s, f)
             h == [s.g EXCEPT !.facts = @ \cup {f}] IN
         /\ h \in Games
         /\ \/ Makes(s, t, h, <<Message("fact", None, f, 1)>>)
            \/ Makes(s, t, h, <<>>) /\ ~Allowed(s.g, f)
<1> DEFINE h == [s.g EXCEPT !.facts = @ \cup {f}]
           m == Message("fact", None, f, 1)
<1>1. s.g \in Games
  BY DEF Steps
<1>2. h \in Games /\ s.g.facts \subseteq h.facts
  BY <1>1 DEF Games
<1>3. m \in Messages
  BY DEF Message, Messages, Kind
<1>4. Makes(s, With(s, h), h, <<>>) /\ Makes(s, Publish(With(s, h), m), h, <<m>>)
  BY <1>2, <1>3, Made
<1>5. With(s, h).g = h
  BY <1>2, WithGame
<1>6. OnFact(s, f) = IF Allowed(With(s, h).g, f) THEN Publish(With(s, h), m) ELSE With(s, h)
  BY DEF OnFact
<1>7. Allowed(s.g, f) => Allowed(h, f)
  BY <1>2 DEF Allowed
<1> HIDE DEF h, m
<1> QED BY <1>2, <1>4, <1>5, <1>6, <1>7 DEF h, m

\* The offering.
LEMMA OfferingMade ==
  ASSUME NEW s \in Steps, NEW n \in 0..MaxOffering
  PROVE  LET h == [s.g EXCEPT !.offering = n] IN
         /\ h \in Games
         /\ Makes(s, SetOffering(s, n), h, <<Message("offering", None, None, n)>>)
<1> DEFINE h == [s.g EXCEPT !.offering = n]
           m == Message("offering", None, None, n)
<1>1. h \in Games
  BY DEF Games, Steps
<1>2. m \in Messages
  BY DEF Message, Messages, Kind
<1>3. Makes(s, Publish(With(s, h), m), h, <<m>>)
  BY <1>1, <1>2, Made
<1>4. SetOffering(s, n) = Publish(With(s, h), m)
  BY DEF SetOffering
<1> HIDE DEF h, m
<1> QED BY <1>1, <1>3, <1>4 DEF h, m

\* The slot of the quest: every change is told.
LEMMA SlotMade ==
  ASSUME ProgressAssumption, NEW s \in Steps, NEW item \in TradeItems \cup {None}
  PROVE  LET t == SetSlot(s, item)
             h == [s.g EXCEPT !.slot = item]
             n == IF item # None THEN ItemPhase(item) ELSE ItemPhase(s.g.slot) + 1 IN
         /\ h \in Games
         /\ item = s.g.slot => Makes(s, t, h, <<>>)
         /\ item # s.g.slot => Makes(s, t, h, <<Message("trade", None, None, n)>>)
<1> DEFINE h == [s.g EXCEPT !.slot = item]
           n == IF item # None THEN ItemPhase(item) ELSE ItemPhase(s.g.slot) + 1
           v == PhaseForChange(s.g.slot, item)
           m == Message("trade", None, None, n)
           m0 == Message("mark", None, None, 0)
<1>1. s.g \in Games /\ s.g.slot \in TradeItems \cup {None}
  BY DEF Steps, Games
<1>2. h \in Games
  BY <1>1 DEF Games
<1>3. ASSUME item # s.g.slot
      PROVE  n \in Phases /\ v = n /\ ~(v < 0)
  <2>1. item = None => s.g.slot \in TradeItems
    BY <1>1, <1>3
  <2>2. CASE item # None
    <3>1. item \in TradeItems
      BY <2>2
    <3>2. ItemPhase(item) \in Phases /\ ItemPhase(item) \in Nat
      BY <3>1, Doubles
    <3>3. n = ItemPhase(item) /\ v = ItemPhase(item)
      BY <2>2 DEF PhaseForChange
    <3> HIDE DEF n, v
    <3> QED BY <3>2, <3>3
  <2>3. CASE item = None
    <3>1. s.g.slot \in TradeItems
      BY <1>1, <1>3, <2>3
    <3>2. ItemPhase(s.g.slot) + 1 \in Phases /\ ItemPhase(s.g.slot) \in Nat /\ s.g.slot # None
      BY <3>1, Doubles
    <3>3. n = ItemPhase(s.g.slot) + 1 /\ v = ItemPhase(s.g.slot) + 1
      BY <2>3, <3>2 DEF PhaseForChange
    <3> HIDE DEF n, v
    <3> QED BY <3>2, <3>3
  <2> QED BY <2>2, <2>3
<1>4. SetSlot(s, item) = IF item = s.g.slot \/ v < 0 THEN With(s, h)
                         ELSE Publish(With(s, h), Message("trade", None, None, v))
  BY DEF SetSlot
<1> HIDE DEF v, n
<1>5. ASSUME item = s.g.slot PROVE Makes(s, SetSlot(s, item), h, <<>>)
  <2> DEFINE t == With(s, h)
  <2>1. t \in Steps /\ t.g = h /\ t.applying = s.applying /\ t.out = s.out
    BY <1>2, WithGame
  <2>2. SetSlot(s, item) = t
    BY <1>4, <1>5
  <2>3. s.out \in Seq(Messages) /\ <<>> \in Seq(Messages) /\ s.out \o <<>> = s.out
    BY DEF Steps
  <2> HIDE DEF t, h
  <2> QED BY <2>1, <2>2, <2>3 DEF Makes
<1>6. ASSUME item # s.g.slot PROVE Makes(s, SetSlot(s, item), h, <<m>>)
  <2>1. SetSlot(s, item) = Publish(With(s, h), m)
    BY <1>3, <1>4, <1>6
  <2>2. m \in Messages
    BY <1>3, <1>6 DEF Message, Messages, Kind
  <2> HIDE DEF h, m
  <2> QED BY <1>2, <2>1, <2>2, Made
<1> QED BY <1>2, <1>5, <1>6 DEF n

\* An item's first acquisition is told once.
LEMMA FirstMade ==
  ASSUME NEW s \in Steps, NEW k \in TradeItems
  PROVE  LET h == [s.g EXCEPT !.first = @ \cup {k}] IN
         /\ h \in Games
         /\ \/ Makes(s, OnFirst(s, k), h, <<Message("get", None, k, 1)>>)
            \/ Makes(s, OnFirst(s, k), h, <<>>)
<1> DEFINE h == [s.g EXCEPT !.first = @ \cup {k}]
           m == Message("get", None, k, 1)
<1>1. h \in Games
  BY DEF Games, Steps
<1>2. m \in Messages
  BY DEF Message, Messages, Kind
<1>3. Makes(s, With(s, h), h, <<>>) /\ Makes(s, Publish(With(s, h), m), h, <<m>>)
  BY <1>1, <1>2, Made
<1>4. OnFirst(s, k) \in {With(s, h), Publish(With(s, h), m)}
  BY DEF OnFirst
<1> HIDE DEF h, m
<1> QED BY <1>1, <1>3, <1>4 DEF h, m

\* A milestone.
LEMMA MarkMade ==
  ASSUME NEW s \in Steps, NEW n \in Phases
  PROVE  LET h == [s.g EXCEPT !.marks = @ \cup {n}] IN
         h \in Games /\ Makes(s, OnMark(s, n), h, <<Message("mark", None, None, n)>>)
<1> DEFINE h == [s.g EXCEPT !.marks = @ \cup {n}]
           m == Message("mark", None, None, n)
<1>1. h \in Games
  BY DEF Games, Steps
<1>2. m \in Messages
  BY DEF Message, Messages, Kind
<1>3. Makes(s, Publish(With(s, h), m), h, <<m>>)
  BY <1>1, <1>2, Made
<1>4. OnMark(s, n) = Publish(With(s, h), m)
  BY DEF OnMark
<1> HIDE DEF h, m
<1> QED BY <1>1, <1>3, <1>4 DEF h, m
-----------------------------------------------------------------------------
\* What is on its way is in one of the streams to the player.
LEMMA ComingElements ==
  ASSUME Types, NEW p \in Players
  PROVE  /\ Coming(p) \subseteq Messages
         /\ \A q \in Players : ToSet(queue[q][p]) \subseteq Coming(p)
<1>1. \A q \in Players : queue[q][p] \in Seq(Messages)
  BY DEF Types
<1>2. \A q \in Players : ToSet(queue[q][p]) \subseteq Messages
  BY <1>1 DEF ToSet
<1> QED BY <1>2 DEF Coming

\* The elements of a stream that grows.
LEMMA ConcatSet ==
  ASSUME NEW s \in Seq(Messages), NEW t \in Seq(Messages)
  PROVE  ToSet(s \o t) = ToSet(s) \cup ToSet(t)
<1>1. /\ Len(s) \in Nat /\ Len(t) \in Nat /\ Len(s \o t) = Len(s) + Len(t)
      /\ \A i \in 1 .. Len(s) : (s \o t)[i] = s[i]
      /\ \A i \in 1 .. Len(t) : (s \o t)[Len(s) + i] = t[i]
      /\ s \o t \in Seq(Messages)
  OBVIOUS
<1>2. \A i \in 1 .. Len(s \o t) :
        \/ i \in 1 .. Len(s) /\ (s \o t)[i] = s[i]
        \/ i - Len(s) \in 1 .. Len(t) /\ (s \o t)[i] = t[i - Len(s)]
  BY ConcatElements
<1>3. /\ DOMAIN s = 1 .. Len(s) /\ DOMAIN t = 1 .. Len(t)
      /\ DOMAIN (s \o t) = 1 .. Len(s \o t)
  BY <1>1
<1> DEFINE u == s \o t
<1>4. ToSet(u) \subseteq ToSet(s) \cup ToSet(t)
  BY <1>2, <1>3 DEF ToSet
<1>5. ToSet(s) \subseteq ToSet(u)
  <2>1. \A i \in 1 .. Len(s) : i \in 1 .. Len(u)
    BY <1>1
  <2> QED BY <1>1, <1>3, <2>1 DEF ToSet
<1>6. ToSet(t) \subseteq ToSet(u)
  <2>1. \A i \in 1 .. Len(t) : Len(s) + i \in 1 .. Len(u)
    BY <1>1
  <2> QED BY <1>1, <1>3, <2>1, ZenonT(30) DEF ToSet
<1> QED BY <1>4, <1>5, <1>6

\* The elements of a stream that is read.
LEMMA TailSet ==
  ASSUME NEW s \in Seq(Messages), s # <<>>
  PROVE  /\ ToSet(Tail(s)) \subseteq ToSet(s) /\ ToSet(s) \subseteq ToSet(Tail(s)) \cup {Head(s)}
         /\ Head(s) \in ToSet(s)
<1>1. /\ Tail(s) \in Seq(Messages) /\ Head(s) = s[1] /\ 1 \in 1 .. Len(s)
      /\ Len(Tail(s)) = Len(s) - 1 /\ Len(s) \in Nat
      /\ \A i \in 1 .. Len(Tail(s)) : i + 1 \in 1 .. Len(s) /\ Tail(s)[i] = s[i + 1]
  BY TailElements
<1>2. DOMAIN s = 1 .. Len(s) /\ DOMAIN Tail(s) = 1 .. Len(Tail(s))
  BY <1>1
<1>3. \A i \in 1 .. Len(s) : i = 1 \/ (i - 1 \in 1 .. Len(Tail(s)) /\ Tail(s)[i - 1] = s[i])
  BY <1>1
<1> DEFINE u == Tail(s)
<1>4. /\ DOMAIN u = 1 .. Len(u)
      /\ \A i \in 1 .. Len(u) : i + 1 \in 1 .. Len(s) /\ u[i] = s[i + 1]
      /\ \A i \in 1 .. Len(s) : i = 1 \/ (i - 1 \in 1 .. Len(u) /\ u[i - 1] = s[i])
  BY <1>1, <1>2, <1>3
<1> HIDE DEF u
<1>5. ToSet(u) \subseteq ToSet(s)
  BY <1>2, <1>4 DEF ToSet
<1>6. ToSet(s) \subseteq ToSet(u) \cup {s[1]}
  BY <1>2, <1>4, SMTT(30) DEF ToSet
<1>7. s[1] \in ToSet(s)
  BY <1>1, <1>2 DEF ToSet
<1> QED BY <1>1, <1>5, <1>6, <1>7 DEF u

\* What a player sends is on its way to the others.
LEMMA SentComing ==
  ASSUME Inv, NEW p \in Players, NEW s \in Steps, NEW facts, Local(p, s, facts)
  PROVE  /\ Coming(p)' = Coming(p)
         /\ \A q \in Players : q # p => Coming(q)' = Coming(q) \cup ToSet(s.out)
<1>1. /\ queue' = [queue EXCEPT ![p] =
                      [q \in Players |-> IF q = p THEN queue[p][q] ELSE queue[p][q] \o s.out]]
  BY DEF Local, Commit
<1>2. \A r, q \in Players : queue[r][q] \in Seq(Messages)
  BY DEF Inv, Types
<1>3. \A r, q \in Players :
        queue'[r][q] = IF r = p /\ q # p THEN queue[r][q] \o s.out ELSE queue[r][q]
  BY <1>1 DEF Inv, Types
<1>4. s.out \in Seq(Messages)
  BY DEF Steps
<1>5. \A q \in Players : ToSet(queue[p][q] \o s.out) = ToSet(queue[p][q]) \cup ToSet(s.out)
  BY <1>2, <1>4, ConcatSet
<1>6. Coming(p)' = Coming(p)
  BY <1>3 DEF Coming
<1>7. ASSUME NEW q \in Players, q # p PROVE Coming(q)' = Coming(q) \cup ToSet(s.out)
  <2>1. \A r \in Players : ToSet(queue'[r][q]) = IF r = p THEN ToSet(queue[r][q]) \cup ToSet(s.out)
                                                 ELSE ToSet(queue[r][q])
    BY <1>3, <1>5, <1>7
  <2> QED BY <2>1 DEF Coming
<1> QED BY <1>6, <1>7

\* What a player reads: the head m of a stream, which makes its game h.
Hears(p, q, m, h) ==
  /\ p # q /\ queue[q][p] \in Seq(Messages) /\ queue[q][p] # <<>> /\ m = Head(queue[q][p])
  /\ m \in Messages /\ m \in Coming(p)
  /\ h = Apply(Step(p, TRUE), m).g /\ h \in Games
  /\ StageDependent(m) => game[p].ready
  /\ m.type = "trade" /\ Odd(m.value) => m.value \in game[p].marks
  /\ game' \in [Players -> Games] /\ game'[p] = h
  /\ \A r \in Players : r # p => game'[r] = game[r]
  /\ queue' \in [Players -> [Players -> Seq(Messages)]]
  /\ \A r, a \in Players :
       queue'[r][a] = IF r = q /\ a = p THEN Tail(queue[q][p]) ELSE queue[r][a]
  /\ Coming(p)' \subseteq Coming(p) /\ Coming(p) \subseteq Coming(p)' \cup {m}
  /\ \A r \in Players : r # p => Coming(r)' = Coming(r)
  /\ ToSet(Tail(queue[q][p])) \subseteq Coming(p)'
  /\ early' = IF m.type = "fact" /\ ~Allowed(game[p], m.id) THEN early \cup {<<p, m.id>>} ELSE early
  /\ published' = published /\ crossed' = crossed

\* That is what receiving does.
LEMMA Heard ==
  ASSUME ProgressAssumption, Inv, NEW p \in Players, NEW q \in Players, Receive(p, q)
  PROVE  \E m, h : Hears(p, q, m, h)
<1> DEFINE m == Head(queue[q][p])
           t == Step(p, TRUE)
           s == Apply(t, m)
           told == [queue EXCEPT ![q][p] = Tail(@)]
<1>1. /\ queue[q][p] # <<>> /\ game' = [game EXCEPT ![p] = s.g]
      /\ queue' = [told EXCEPT ![p] =
                      [r \in Players |-> IF r = p THEN told[p][r] ELSE told[p][r] \o s.out]]
      /\ StageDependent(m) => game[p].ready
      /\ early' = IF m.type = "fact" /\ ~Allowed(game[p], m.id) THEN early \cup {<<p, m.id>>} ELSE early
      /\ published' = published /\ crossed' = crossed
  BY DEF Receive, Guarded
<1>2. p # q
  BY <1>1 DEF Inv, NoLoop
<1>3. /\ game[p] \in Games
      /\ \A r, a \in Players : queue[r][a] \in Seq(Messages) /\ Backed(game[a].marks, queue[r][a])
  BY DEF Inv, Types, SlotsBacked
<1>4. t \in Steps /\ t.g = game[p] /\ t.applying = TRUE /\ t.out = <<>>
  BY <1>3, FirstStep
<1>5. m \in Messages /\ (m.type = "trade" /\ Odd(m.value) => m.value \in game[p].marks)
  <2> DEFINE more == game[p].marks \cup {m.value}
  <2>1. game[p].marks \subseteq more /\ m.value \in more
    OBVIOUS
  <2> HIDE DEF more
  <2> QED BY <1>1, <1>3, <2>1, BackedTail
<1> HIDE DEF m, t
<1>6. Silent(t, s)
  BY <1>4, <1>5, Applied
<1> HIDE DEF s
<1>7. s.g \in Games /\ s.out = <<>>
  BY <1>4, <1>6 DEF Silent, Steps
<1>8. /\ game' \in [Players -> Games] /\ game'[p] = s.g
      /\ \A r \in Players : r # p => game'[r] = game[r]
  BY <1>1, <1>7 DEF Inv, Types
<1>9. Tail(queue[q][p]) \in Seq(Messages)
  BY <1>1, <1>3
<1>10. told \in [Players -> [Players -> Seq(Messages)]]
  BY <1>9 DEF Inv, Types
<1>11. \A r, a \in Players : told[r][a] = IF r = q /\ a = p THEN Tail(queue[q][p]) ELSE queue[r][a]
  BY DEF Inv, Types
<1> HIDE DEF told
<1>12. \A r \in Players : told[p][r] \o <<>> = told[p][r]
  BY <1>10
<1>13. queue' \in [Players -> [Players -> Seq(Messages)]]
       /\ \A r, a \in Players : queue'[r][a] = told[r][a]
  BY <1>1, <1>7, <1>10, <1>12
<1>14. \A r, a \in Players :
         queue'[r][a] = IF r = q /\ a = p THEN Tail(queue[q][p]) ELSE queue[r][a]
  BY <1>11, <1>13
<1>15. /\ ToSet(Tail(queue[q][p])) \subseteq ToSet(queue[q][p])
       /\ ToSet(queue[q][p]) \subseteq ToSet(Tail(queue[q][p])) \cup {m}
       /\ m \in ToSet(queue[q][p])
  BY <1>1, <1>3, TailSet DEF m
<1>16. \A r \in Players : r # p => Coming(r)' = Coming(r)
  BY <1>14 DEF Coming
<1>17. Coming(p)' \subseteq Coming(p)
  <2>1. \A r \in Players : ToSet(queue'[r][p]) \subseteq ToSet(queue[r][p])
    BY <1>14, <1>15
  <2> QED BY <2>1 DEF Coming
<1>18. Coming(p) \subseteq Coming(p)' \cup {m}
  <2>1. \A r \in Players : ToSet(queue[r][p]) \subseteq ToSet(queue'[r][p]) \cup {m}
    BY <1>14, <1>15
  <2> QED BY <2>1 DEF Coming
<1>19. ToSet(Tail(queue[q][p])) \subseteq Coming(p)' /\ m \in Coming(p)
  <2>1. queue'[q][p] = Tail(queue[q][p])
    BY SMTT(30), <1>14
  <2> QED BY <1>15, <2>1, SMTT(30) DEF Coming
<1>20. Hears(p, q, m, s.g)
  BY <1>1, <1>2, <1>3, <1>5, <1>7, <1>8, <1>13, <1>14, <1>16, <1>17, <1>18, <1>19
     DEF Hears, m, s, t
<1> QED BY <1>20

\* A player alone changes, and nothing is sent.
LEMMA QuietComing ==
  ASSUME queue' = queue
  PROVE  \A q \in Players : Coming(q)' = Coming(q)
BY DEF Coming
-----------------------------------------------------------------------------
\* How far the quest can have come after a message about the phase n.
Follows(m, g, h) ==
  /\ ObservedPhase(g) <= ObservedPhase(h) /\ PhaseOf(m) <= ObservedPhase(h)
  /\ ObservedPhase(h) \in {ObservedPhase(g), PhaseOf(m)}

\* What a player does for the others: it knows itself what it tells them, tells
\* them what it knows that is new, and the furthest phase it has come to.
Speaks(p, s, facts) ==
  LET g == game[p]
      h == s.g
      told == ToSet(s.out)
  IN /\ s \in Steps /\ g.facts \subseteq h.facts
     /\ \A f \in Facts : <<None, f>> \in facts =>
          f \in h.facts /\ Message("fact", None, f, 1) \in told
     /\ \A st \in Stages : g.observed[st] \subseteq h.observed[st]
     /\ \A st \in Stages, i \in Items : <<st, i>> \in facts =>
          i \in h.observed[st] /\ Message("item", st, i, 1) \in told
     /\ Sound(h) /\ Tabled(h)
     /\ \A t \in Topics :
          /\ \A m \in told : Topic(m) = t => m.value = Held(h, t) /\ m.value \in Int
          /\ \/ \E m \in told : Topic(m) = t
             \/ Here(h, t) => Here(g, t) /\ Held(h, t) = Held(g, t)
     /\ ObservedPhase(g) <= ObservedPhase(h)
     /\ \A m \in told : PhaseOf(m) <= ObservedPhase(h)
     /\ \/ ObservedPhase(h) = ObservedPhase(g)
        \/ \E m \in told : PhaseOf(m) = ObservedPhase(h)
     /\ \/ h.slot = ItemForPhase(ObservedPhase(h))
        \/ ObservedPhase(h) = ObservedPhase(g) /\ g.slot # ItemForPhase(ObservedPhase(g))
     /\ FirstsBehind(h) /\ Followed(s.out)

\* What a message does at a player: it has what it was told, and nothing else
\* that others would have to hear of.
Listens(g, m, h) ==
  /\ g.facts \subseteq h.facts
  /\ m.type = "fact" /\ Allowed(g, m.id) => m.id \in h.facts
  /\ \A st \in Stages : g.observed[st] \subseteq h.observed[st]
  /\ m.type = "item" => m.id \in h.observed[m.stage]
  /\ Sound(h) /\ Tabled(h)
  /\ \A t \in Topics :
       IF Topic(m) = t THEN Here(h, t) => Held(h, t) = m.value
       ELSE Here(h, t) => Here(g, t) /\ Held(h, t) = Held(g, t)
  /\ Follows(m, g, h)
  /\ \/ h.slot = ItemForPhase(ObservedPhase(h))
     \/ /\ ObservedPhase(h) = ObservedPhase(g) /\ h.slot = g.slot
        /\ ~(m.type = "trade" /\ m.value >= ObservedPhase(g))
     \/ m.type = "mark" /\ ObservedPhase(h) = m.value
  /\ FirstsBehind(h)

\* What a player does that concerns nobody else.
Rests(g, h, lost) ==
  /\ h.facts = g.facts /\ h.observed = g.observed /\ SameQuest(g, h)
  /\ Sound(h) /\ Tabled(h)
  /\ \A t \in Topics \ lost : Here(h, t) => Here(g, t) /\ Held(h, t) = Held(g, t)

\* The observed phase is an integer.
LEMMA PhaseInt ==
  ASSUME ProgressAssumption, Inv, NEW p \in Players
  PROVE  game[p] \in Games /\ ObservedPhase(game[p]) \in Int
<1>1. game[p] \in Games
  BY DEF Inv, Types
<1> QED BY <1>1, ObservedIsGreatest

\* Messages are about integers.
LEMMA MessageInt ==
  ASSUME ProgressAssumption, NEW m \in Messages
  PROVE  PhaseOf(m) \in Int /\ (m.type \in {"trade", "mark"} => m.value \in Int /\ PhaseOf(m) = m.value)
<1>1. Trades \in Nat
  BY DEF ProgressAssumption
<1>2. Phases \subseteq Int /\ TradeItems \subseteq Int
  BY <1>1 DEF Phases, TradeItems
<1>3. m.type \in {"trade", "mark"} => m.value \in Phases
  BY DEF Messages, Kind
<1>4. m.type = "get" => m.id \in TradeItems
  BY DEF Messages, Kind
<1>5. m.type \in {"trade", "mark"} => m.value \in Int /\ PhaseOf(m) = m.value
  BY <1>2, <1>3 DEF PhaseOf
<1>6. m.type = "get" => PhaseOf(m) \in Int
  <2> SUFFICES ASSUME m.type = "get" PROVE PhaseOf(m) \in Int
    OBVIOUS
  <2>1. PhaseOf(m) = 2 * m.id
    BY DEF PhaseOf, ItemPhase
  <2>2. m.id \in Int
    BY <1>2, <1>4
  <2> QED BY <2>1, <2>2
<1>7. m.type \notin {"trade", "mark", "get"} => PhaseOf(m) = -1
  BY DEF PhaseOf
<1> QED BY <1>5, <1>6, <1>7

\* A milestone stays followed when a stream grows by one where it is.
LEMMA FollowedConcat ==
  ASSUME NEW s \in Seq(Messages), NEW t \in Seq(Messages), Followed(s), Followed(t)
  PROVE  Followed(s \o t)
<1> DEFINE u == s \o t
<1>1. /\ u \in Seq(Messages) /\ Len(u) = Len(s) + Len(t)
      /\ \A i \in 1 .. Len(s) : u[i] = s[i]
      /\ \A i \in 1 .. Len(t) : u[Len(s) + i] = t[i]
      /\ Len(s) \in Nat /\ Len(t) \in Nat
  OBVIOUS
<1>2. \A i \in 1 .. Len(u) :
        \/ i \in 1 .. Len(s) /\ u[i] = s[i]
        \/ i - Len(s) \in 1 .. Len(t) /\ u[i] = t[i - Len(s)]
  BY ConcatElements
<1> HIDE DEF u
<1>3. ASSUME NEW i \in 1 .. Len(u), u[i].type = "mark"
      PROVE  \E j \in i + 1 .. Len(u) : u[j].type = "trade" /\ u[j].value = u[i].value
  <2>1. CASE i \in 1 .. Len(s) /\ u[i] = s[i]
    <3>1. PICK j \in i + 1 .. Len(s) : s[j].type = "trade" /\ s[j].value = s[i].value
      BY <1>3, <2>1 DEF Followed
    <3>2. j \in 1 .. Len(s) /\ j \in i + 1 .. Len(u)
      BY <1>1, <2>1
    <3> QED BY <1>1, <2>1, <3>1, <3>2
  <2>2. CASE i - Len(s) \in 1 .. Len(t) /\ u[i] = t[i - Len(s)]
    <3> DEFINE k == i - Len(s)
    <3>0. k \in 1 .. Len(t) /\ i = Len(s) + k
      BY <1>1, <2>2
    <3>1. PICK j \in k + 1 .. Len(t) : t[j].type = "trade" /\ t[j].value = t[k].value
      BY <1>3, <2>2 DEF Followed
    <3> HIDE DEF k
    <3>2. j \in 1 .. Len(t) /\ Len(s) + j \in i + 1 .. Len(u)
      BY SMTT(30), <1>1, <3>0, <3>1
    <3>3. u[Len(s) + j] = t[j]
      BY <1>1, <3>2
    <3> QED BY <2>2, <3>1, <3>2, <3>3 DEF k
  <2> QED BY <1>2, <2>1, <2>2
<1> QED BY <1>3 DEF Followed, u

\* It stays followed when a stream is read, and when it is read itself what
\* follows is still there.
LEMMA FollowedTail ==
  ASSUME NEW s \in Seq(Messages), s # <<>>, Followed(s)
  PROVE  /\ Followed(Tail(s))
         /\ Head(s).type = "mark" =>
              \E m \in ToSet(Tail(s)) : m.type = "trade" /\ m.value = Head(s).value
<1> DEFINE u == Tail(s)
<1>1. /\ u \in Seq(Messages) /\ Head(s) = s[1] /\ 1 \in 1 .. Len(s)
      /\ Len(u) = Len(s) - 1 /\ Len(s) \in Nat
      /\ \A i \in 1 .. Len(u) : i + 1 \in 1 .. Len(s) /\ u[i] = s[i + 1]
  BY TailElements
<1>2. DOMAIN u = 1 .. Len(u)
  BY <1>1
<1> HIDE DEF u
<1>3. ASSUME NEW i \in 1 .. Len(s), s[i].type = "mark"
      PROVE  \E j \in 1 .. Len(u) : j >= i /\ u[j].type = "trade" /\ u[j].value = s[i].value
  <2>1. PICK j \in i + 1 .. Len(s) : s[j].type = "trade" /\ s[j].value = s[i].value
    BY <1>3 DEF Followed
  <2>2. j - 1 \in 1 .. Len(u) /\ j - 1 >= i /\ u[j - 1] = s[j]
    <3>1. j - 1 \in 1 .. Len(u) /\ j - 1 >= i /\ (j - 1) + 1 = j
      BY <1>1, <2>1
    <3> QED BY <1>1, <3>1
  <2> QED BY <2>1, <2>2
<1>4. Followed(u)
  <2> SUFFICES ASSUME NEW i \in 1 .. Len(u), u[i].type = "mark"
               PROVE  \E j \in i + 1 .. Len(u) : u[j].type = "trade" /\ u[j].value = u[i].value
    BY DEF Followed
  <2>1. i + 1 \in 1 .. Len(s) /\ u[i] = s[i + 1]
    BY <1>1
  <2>2. PICK j \in 1 .. Len(u) : j >= i + 1 /\ u[j].type = "trade" /\ u[j].value = s[i + 1].value
    BY <1>3, <2>1
  <2> QED BY <2>1, <2>2
<1>5. Head(s).type = "mark" => \E m \in ToSet(u) : m.type = "trade" /\ m.value = Head(s).value
  <2> SUFFICES ASSUME s[1].type = "mark"
               PROVE  \E m \in ToSet(u) : m.type = "trade" /\ m.value = s[1].value
    BY <1>1
  <2>1. PICK j \in 1 .. Len(u) : u[j].type = "trade" /\ u[j].value = s[1].value
    BY <1>1, <1>3
  <2>2. u[j] \in ToSet(u)
    BY <1>2, <2>1 DEF ToSet
  <2> QED BY <2>1, <2>2
<1> QED BY <1>4, <1>5 DEF u
-----------------------------------------------------------------------------
\* What a player does keeps everybody about to agree.
LEMMA LocalConverges ==
  ASSUME ProgressAssumption, Inv, Converging, NEW p \in Players, NEW s, NEW facts,
         Local(p, s, facts), Speaks(p, s, facts)
  PROVE  Converging'
<1> DEFINE told == ToSet(s.out)
           h == s.g
           g == game[p]
<1>1. /\ game' = [game EXCEPT ![p] = s.g] /\ published' = published \cup facts
      /\ crossed' = crossed \cup ({Topic(m) : m \in told} \cap {Topic(m) : m \in InFlight})
      /\ queue' = [queue EXCEPT ![p] =
                      [q \in Players |-> IF q = p THEN queue[p][q] ELSE queue[p][q] \o s.out]]
      /\ early' = early
  BY DEF Local, Commit
<1>2. s \in Steps /\ s.out \in Seq(Messages) /\ h \in Games /\ g \in Games
  BY PhaseInt DEF Speaks, Steps
<1>3. game'[p] = h /\ \A q \in Players : q # p => game'[q] = game[q]
  BY <1>1 DEF Inv, Types
<1>4. Coming(p)' = Coming(p) /\ \A q \in Players : q # p => Coming(q)' = Coming(q) \cup told
  BY <1>2, SentComing
<1>5. told \subseteq Messages
  BY <1>2 DEF ToSet
<1>6. ObservedPhase(h) \in Int /\ \A q \in Players : ObservedPhase(game[q]) \in Int
  BY <1>2, PhaseInt, ObservedIsGreatest
<1>7. FactsComing'
  <2> SUFFICES ASSUME NEW q \in Players, NEW f \in Facts, <<None, f>> \in published'
               PROVE  f \in game'[q].facts \/ <<q, f>> \in early' \/ Message("fact", None, f, 1) \in Coming(q)'
    BY DEF FactsComing
  <2>1. CASE <<None, f>> \in facts
    <3>1. f \in h.facts /\ Message("fact", None, f, 1) \in told
      BY <2>1 DEF Speaks
    <3> QED BY <1>3, <1>4, <3>1
  <2>2. CASE <<None, f>> \in published
    <3>1. f \in game[q].facts \/ <<q, f>> \in early \/ Message("fact", None, f, 1) \in Coming(q)
      BY <2>2 DEF Converging, FactsComing
    <3>2. game[q].facts \subseteq game'[q].facts
      BY <1>3 DEF Speaks
    <3>3. Coming(q) \subseteq Coming(q)'
      BY <1>4
    <3> QED BY <1>1, <3>1, <3>2, <3>3
  <2> QED BY <1>1, <2>1, <2>2
<1>8. PickupsComing'
  <2> SUFFICES ASSUME NEW q \in Players, NEW st \in Stages, NEW i \in Items, <<st, i>> \in published'
               PROVE  i \in game'[q].observed[st] \/ Message("item", st, i, 1) \in Coming(q)'
    BY DEF PickupsComing
  <2>1. CASE <<st, i>> \in facts
    <3>1. i \in h.observed[st] /\ Message("item", st, i, 1) \in told
      BY <2>1 DEF Speaks
    <3> QED BY <1>3, <1>4, <3>1
  <2>2. CASE <<st, i>> \in published
    <3>1. i \in game[q].observed[st] \/ Message("item", st, i, 1) \in Coming(q)
      BY <2>2 DEF Converging, PickupsComing
    <3>2. game[q].observed[st] \subseteq game'[q].observed[st]
      BY <1>3 DEF Speaks
    <3>3. Coming(q) \subseteq Coming(q)'
      BY <1>4
    <3> QED BY <3>1, <3>2, <3>3
  <2> QED BY <1>1, <2>1, <2>2
<1>9. OneValue'
  <2> SUFFICES ASSUME NEW t \in Topics, t \notin crossed'
               PROVE  \E v \in Int : \A q \in Players : Gets(q, t, v)'
    BY DEF OneValue
  <2>1. PICK v \in Int : \A q \in Players : Gets(q, t, v)
    BY <1>1 DEF Converging, OneValue
  <2>2. CASE \E m \in told : Topic(m) = t
    <3>1. PICK m \in told : Topic(m) = t
      BY <2>2
    <3>2. \A n \in InFlight : Topic(n) # t
      BY <1>1, <3>1
    <3>3. \A q \in Players : \A n \in Coming(q) : Topic(n) # t
      BY <3>2 DEF InFlight, Coming
    <3>4. \A n \in told : Topic(n) = t => n.value = Held(h, t) /\ n.value \in Int
      BY DEF Speaks
    <3>5. Held(h, t) \in Int
      BY <3>1, <3>4
    <3>6. ASSUME NEW q \in Players PROVE Gets(q, t, Held(h, t))'
      <4>1. CASE q = p
        <5>1. \A n \in Coming(p)' : Topic(n) # t
          BY <1>4, <3>3
        <5>2. game'[p] = h
          BY <1>3
        <5> QED BY <4>1, <5>1, <5>2 DEF Gets
      <4>2. CASE q # p
        <5>1. \A n \in Coming(q)' : Topic(n) = t => n.value = Held(h, t)
          BY <1>4, <3>3, <3>4, <4>2
        <5>2. m \in Coming(q)'
          BY <1>4, <3>1, <4>2
        <5> QED BY <3>1, <5>1, <5>2 DEF Gets
      <4> QED BY <4>1, <4>2
    <3> QED BY <3>5, <3>6
  <2>3. CASE ~ \E m \in told : Topic(m) = t
    <3>1. Here(h, t) => Here(g, t) /\ Held(h, t) = Held(g, t)
      BY <2>3 DEF Speaks
    <3>2. ASSUME NEW q \in Players PROVE Gets(q, t, v)'
      <4>1. \A m \in Coming(q)' : Topic(m) = t => m \in Coming(q)
        BY <1>4, <2>3
      <4>2. Coming(q) \subseteq Coming(q)'
        BY <1>4
      <4>3. /\ \A m \in Coming(q) : Topic(m) = t => m.value = v
            /\ (\A m \in Coming(q) : Topic(m) # t) /\ Here(game[q], t) => Held(game[q], t) = v
        BY <2>1 DEF Gets
      <4>4. Here(game'[q], t) => Here(game[q], t) /\ Held(game'[q], t) = Held(game[q], t)
        BY <1>3, <3>1
      <4>5. \A m \in Coming(q)' : Topic(m) = t => m.value = v
        BY <4>1, <4>3
      <4>6. (\A m \in Coming(q)' : Topic(m) # t) /\ Here(game'[q], t) => Held(game'[q], t) = v
        BY <4>2, <4>3, <4>4
      <4> QED BY <4>5, <4>6 DEF Gets
    <3> QED BY <2>1, <3>2
  <2> QED BY <2>2, <2>3
<1>10. OneQuest'
  <2>1. PICK n \in Int : \A q \in Players : Reaches(q, n)
    BY DEF Converging, OneQuest
  <2>2. /\ ObservedPhase(g) <= ObservedPhase(h)
        /\ \A m \in told : PhaseOf(m) <= ObservedPhase(h) /\ PhaseOf(m) \in Int
        /\ \/ ObservedPhase(h) = ObservedPhase(g)
           \/ \E m \in told : PhaseOf(m) = ObservedPhase(h)
    BY <1>5, MessageInt DEF Speaks
  <2>3. \A q \in Players : \A m \in Coming(q) : PhaseOf(m) \in Int
    BY ComingElements, MessageInt DEF Inv
  <2>4. CASE ObservedPhase(h) <= n
    <3>1. ASSUME NEW q \in Players PROVE Reaches(q, n)'
      <4>1. /\ ObservedPhase(game[q]) <= n /\ \A m \in Coming(q) : PhaseOf(m) <= n
            /\ ObservedPhase(game[q]) = n \/ \E m \in Coming(q) : PhaseOf(m) = n
        BY <2>1 DEF Reaches
      <4>2. ObservedPhase(game[q]) <= ObservedPhase(game'[q]) /\ ObservedPhase(game'[q]) <= n
            /\ ObservedPhase(game'[q]) \in Int
        BY <1>3, <1>6, <2>2, <2>4, <4>1
      <4>3. \A m \in Coming(q)' : PhaseOf(m) <= n
        BY <1>4, <1>6, <2>2, <2>4, <4>1
      <4>4. ObservedPhase(game'[q]) = n \/ \E m \in Coming(q)' : PhaseOf(m) = n
        BY <1>4, <1>6, <4>1, <4>2
      <4> QED BY <4>2, <4>3, <4>4 DEF Reaches
    <3> QED BY <3>1 DEF OneQuest
  <2>5. CASE ~(ObservedPhase(h) <= n)
    <3> DEFINE k == ObservedPhase(h)
    <3>1. ObservedPhase(g) <= n /\ k > n /\ k \in Int
      BY <1>6, <2>1, <2>5 DEF Reaches
    <3>2. PICK m0 \in told : PhaseOf(m0) = k
      BY <1>6, <2>2, <3>1
    <3>3. ASSUME NEW q \in Players PROVE Reaches(q, k)'
      <4>1. /\ ObservedPhase(game[q]) <= n /\ \A m \in Coming(q) : PhaseOf(m) <= n
        BY <2>1 DEF Reaches
      <4>2. ObservedPhase(game'[q]) <= k
        BY <1>3, <1>6, <3>1, <4>1
      <4>3. \A m \in Coming(q)' : PhaseOf(m) <= k
        <5>1. \A m \in Coming(q) : PhaseOf(m) <= k
          BY <2>3, <3>1, <4>1
        <5> QED BY <1>4, <2>2, <5>1
      <4>4. ObservedPhase(game'[q]) = k \/ \E m \in Coming(q)' : PhaseOf(m) = k
        BY <1>3, <1>4, <3>2
      <4> QED BY <4>2, <4>3, <4>4 DEF Reaches
    <3> QED BY <3>1, <3>3 DEF OneQuest
  <2> QED BY <2>4, <2>5
<1>11. ASSUME NEW q \in Players PROVE SlotStands(q)'
  <2>1. Coming(q) \subseteq Coming(q)'
    BY <1>4
  <2>2. SlotStands(q)
    BY DEF Converging
  <2>3. CASE q # p
    <3>1. game'[q] = game[q]
      BY <1>3, <2>3
    <3> QED BY <2>1, <2>2, <3>1 DEF SlotStands
  <2>4. CASE q = p
    <3>1. game'[q] = h
      BY <1>3, <2>4
    <3>2. \/ h.slot = ItemForPhase(ObservedPhase(h))
          \/ ObservedPhase(h) = ObservedPhase(g) /\ g.slot # ItemForPhase(ObservedPhase(g))
      BY DEF Speaks
    <3> QED BY <2>1, <2>2, <2>4, <3>1, <3>2 DEF SlotStands
  <2> QED BY <2>3, <2>4
<1>12. ASSUME NEW q \in Players PROVE (Sound(game[q]) /\ Tabled(game[q]) /\ FirstsBehind(game[q]))'
  <2>1. Sound(game[q]) /\ Tabled(game[q]) /\ FirstsBehind(game[q])
    BY DEF Converging
  <2>2. Sound(h) /\ Tabled(h) /\ FirstsBehind(h)
    BY DEF Speaks
  <2>3. Sound(game'[q]) /\ Tabled(game'[q]) /\ FirstsBehind(game'[q])
    BY <1>3, <2>1, <2>2
  <2> QED BY <2>3
<1>13. ASSUME NEW q \in Players, NEW r \in Players PROVE Followed(queue[r][q])'
  <2>1. queue'[r][q] \in {queue[r][q], queue[r][q] \o s.out}
    BY <1>1 DEF Inv, Types
  <2>2. Followed(queue[r][q]) /\ queue[r][q] \in Seq(Messages) /\ Followed(s.out)
    BY DEF Converging, Inv, Types, Speaks
  <2>3. Followed(queue[r][q] \o s.out)
    BY <1>2, <2>2, FollowedConcat
  <2>4. Followed(queue'[r][q])
    BY <2>1, <2>2, <2>3
  <2> QED BY <2>4
<1> QED BY <1>7, <1>8, <1>9, <1>10, <1>11, <1>12, <1>13 DEF Converging

\* What a player hears keeps everybody about to agree.
LEMMA HearingConverges ==
  ASSUME ProgressAssumption, Inv, Converging, NEW p \in Players, NEW q \in Players,
         NEW m, NEW h, Hears(p, q, m, h), Listens(game[p], m, h)
  PROVE  Converging'
<1> DEFINE g == game[p]
<1>1. /\ m \in Messages /\ m \in Coming(p) /\ h \in Games /\ g \in Games
      /\ game'[p] = h /\ \A r \in Players : r # p => game'[r] = game[r]
      /\ Coming(p)' \subseteq Coming(p) /\ Coming(p) \subseteq Coming(p)' \cup {m}
      /\ \A r \in Players : r # p => Coming(r)' = Coming(r)
      /\ early' = IF m.type = "fact" /\ ~Allowed(g, m.id) THEN early \cup {<<p, m.id>>} ELSE early
      /\ published' = published /\ crossed' = crossed
  BY PhaseInt DEF Hears
<1>2. \A r \in Players : Coming(r)' \subseteq Coming(r)
  BY <1>1
<1>3. ObservedPhase(h) \in Int /\ \A r \in Players : ObservedPhase(game[r]) \in Int
  BY <1>1, PhaseInt, ObservedIsGreatest
<1>4. PhaseOf(m) \in Int /\ (m.type \in {"trade", "mark"} => m.value \in Int /\ PhaseOf(m) = m.value)
  BY <1>1, MessageInt
<1>5. /\ ObservedPhase(g) <= ObservedPhase(h) /\ PhaseOf(m) <= ObservedPhase(h)
      /\ ObservedPhase(h) \in {ObservedPhase(g), PhaseOf(m)}
  BY DEF Listens, Follows
<1>7. FactsComing'
  <2> SUFFICES ASSUME NEW r \in Players, NEW f \in Facts, <<None, f>> \in published
               PROVE  f \in game'[r].facts \/ <<r, f>> \in early' \/ Message("fact", None, f, 1) \in Coming(r)'
    BY <1>1 DEF FactsComing
  <2>1. f \in game[r].facts \/ <<r, f>> \in early \/ Message("fact", None, f, 1) \in Coming(r)
    BY DEF Converging, FactsComing
  <2>2. early \subseteq early' /\ game[r].facts \subseteq game'[r].facts
    BY <1>1 DEF Listens
  <2>3. CASE r # p \/ Message("fact", None, f, 1) # m
    BY <1>1, <2>1, <2>2, <2>3
  <2>4. CASE r = p /\ Message("fact", None, f, 1) = m
    <3>1. m.type = "fact" /\ m.id = f
      BY <2>4 DEF Message
    <3>2. Allowed(g, f) => f \in h.facts
      BY <3>1 DEF Listens
    <3>3. ~Allowed(g, f) => <<p, f>> \in early'
      BY <1>1, <3>1
    <3> QED BY <1>1, <2>4, <3>2, <3>3
  <2> QED BY <2>3, <2>4
<1>8. PickupsComing'
  <2> SUFFICES ASSUME NEW r \in Players, NEW st \in Stages, NEW i \in Items, <<st, i>> \in published
               PROVE  i \in game'[r].observed[st] \/ Message("item", st, i, 1) \in Coming(r)'
    BY <1>1 DEF PickupsComing
  <2>1. i \in game[r].observed[st] \/ Message("item", st, i, 1) \in Coming(r)
    BY DEF Converging, PickupsComing
  <2>2. game[r].observed[st] \subseteq game'[r].observed[st]
    BY <1>1 DEF Listens
  <2>3. CASE r # p \/ Message("item", st, i, 1) # m
    BY <1>1, <2>1, <2>2, <2>3
  <2>4. CASE r = p /\ Message("item", st, i, 1) = m
    <3>1. m.type = "item" /\ m.id = i /\ m.stage = st
      BY <2>4 DEF Message
    <3>2. i \in h.observed[st]
      BY <3>1 DEF Listens
    <3> QED BY <1>1, <2>4, <3>2
  <2> QED BY <2>3, <2>4
<1>9. OneValue'
  <2> SUFFICES ASSUME NEW t \in Topics, t \notin crossed
               PROVE  \E v \in Int : \A r \in Players : Gets(r, t, v)'
    BY <1>1 DEF OneValue
  <2>1. PICK v \in Int : \A r \in Players : Gets(r, t, v)
    BY DEF Converging, OneValue
  <2>2. ASSUME NEW r \in Players PROVE Gets(r, t, v)'
    <3>1. /\ \A n \in Coming(r) : Topic(n) = t => n.value = v
          /\ (\A n \in Coming(r) : Topic(n) # t) /\ Here(game[r], t) => Held(game[r], t) = v
      BY <2>1 DEF Gets
    <3>2. \A n \in Coming(r)' : Topic(n) = t => n.value = v
      BY <1>2, <3>1
    <3>3. ASSUME \A n \in Coming(r)' : Topic(n) # t, Here(game'[r], t)
          PROVE  Held(game'[r], t) = v
      <4>1. CASE r # p
        BY <1>1, <3>1, <3>3, <4>1
      <4>2. CASE r = p /\ Topic(m) = t
        <5>1. Held(h, t) = m.value
          BY <1>1, <3>3, <4>2 DEF Listens
        <5>2. m.value = v
          BY <1>1, <3>1, <4>2
        <5> QED BY <1>1, <4>2, <5>1, <5>2
      <4>3. CASE r = p /\ Topic(m) # t
        <5>1. Here(g, t) /\ Held(h, t) = Held(g, t)
          BY <1>1, <3>3, <4>3 DEF Listens
        <5>2. \A n \in Coming(p) : Topic(n) # t
          BY <1>1, <3>3, <4>3
        <5> QED BY <1>1, <3>1, <4>3, <5>1, <5>2
      <4> QED BY <4>1, <4>2, <4>3
    <3> QED BY <3>2, <3>3 DEF Gets
  <2> QED BY <2>1, <2>2
<1>10. OneQuest'
  <2>1. PICK n \in Int : \A r \in Players : Reaches(r, n)
    BY DEF Converging, OneQuest
  <2>2. ASSUME NEW r \in Players PROVE Reaches(r, n)'
    <3>1. /\ ObservedPhase(game[r]) <= n /\ \A k \in Coming(r) : PhaseOf(k) <= n
          /\ ObservedPhase(game[r]) = n \/ \E k \in Coming(r) : PhaseOf(k) = n
      BY <2>1 DEF Reaches
    <3>2. CASE r # p
      BY <1>1, <3>1, <3>2 DEF Reaches
    <3>3. CASE r = p
      <4>1. PhaseOf(m) <= n
        BY <1>1, <3>1, <3>3
      <4>2. ObservedPhase(h) <= n
        BY <1>5, <3>1, <3>3, <4>1
      <4>3. \A k \in Coming(p)' : PhaseOf(k) <= n
        BY <1>2, <3>1, <3>3
      <4>4. ObservedPhase(h) = n \/ \E k \in Coming(p)' : PhaseOf(k) = n
        <5>1. CASE ObservedPhase(g) = n \/ PhaseOf(m) = n
          BY <1>3, <1>4, <1>5, <2>1, <4>2, <5>1
        <5>2. CASE ~(ObservedPhase(g) = n \/ PhaseOf(m) = n)
          BY <1>1, <3>1, <3>3, <5>2
        <5> QED BY <5>1, <5>2
      <4> QED BY <1>1, <3>3, <4>2, <4>3, <4>4 DEF Reaches
    <3> QED BY <3>2, <3>3
  <2> QED BY <2>1, <2>2 DEF OneQuest
<1>11. \A r, a \in Players : Followed(queue[r][a]) /\ queue[r][a] \in Seq(Messages)
  BY DEF Converging, Inv, Types
<1>12. /\ Followed(Tail(queue[q][p]))
       /\ m.type = "mark" => \E n \in Coming(p)' : n.type = "trade" /\ n.value = m.value
  <2> DEFINE s == queue[q][p]
  <2>1. s \in Seq(Messages) /\ s # <<>> /\ Followed(s) /\ m = Head(s) /\ ToSet(Tail(s)) \subseteq Coming(p)'
    BY <1>11 DEF Hears
  <2> HIDE DEF s
  <2>2. Followed(Tail(s)) /\ (m.type = "mark" => \E n \in ToSet(Tail(s)) : n.type = "trade" /\ n.value = m.value)
    BY <2>1, FollowedTail
  <2> QED BY <2>1, <2>2 DEF s
<1>13. ASSUME NEW r \in Players PROVE SlotStands(r)'
  <2>1. SlotStands(r)
    BY DEF Converging
  <2>2. CASE r # p
    BY <1>1, <2>1, <2>2 DEF SlotStands
  <2>3. CASE r = p
    <3>1. CASE h.slot = ItemForPhase(ObservedPhase(h))
      BY <1>1, <2>3, <3>1 DEF SlotStands
    <3>2. CASE /\ ObservedPhase(h) = ObservedPhase(g) /\ h.slot = g.slot
               /\ ~(m.type = "trade" /\ m.value >= ObservedPhase(g))
      <4>1. \/ g.slot = ItemForPhase(ObservedPhase(g))
            \/ \E k \in Coming(p) : k.type = "trade" /\ k.value >= ObservedPhase(g)
        BY <2>1, <2>3 DEF SlotStands
      <4>2. \/ h.slot = ItemForPhase(ObservedPhase(h))
            \/ \E k \in Coming(p)' : k.type = "trade" /\ k.value >= ObservedPhase(h)
        BY <1>1, <3>2, <4>1
      <4> QED BY <1>1, <2>3, <4>2 DEF SlotStands
    <3>3. CASE m.type = "mark" /\ ObservedPhase(h) = m.value
      <4>1. PICK n \in Coming(p)' : n.type = "trade" /\ n.value = m.value
        BY <1>12, <3>3
      <4>2. n.value >= ObservedPhase(h)
        BY <1>3, <3>3, <4>1
      <4> QED BY <1>1, <2>3, <4>1, <4>2 DEF SlotStands
    <3> QED BY <3>1, <3>2, <3>3 DEF Listens
  <2> QED BY <2>2, <2>3
<1>14. ASSUME NEW r \in Players PROVE (Sound(game[r]) /\ Tabled(game[r]) /\ FirstsBehind(game[r]))'
  <2>1. Sound(game[r]) /\ Tabled(game[r]) /\ FirstsBehind(game[r])
    BY DEF Converging
  <2>2. Sound(h) /\ Tabled(h) /\ FirstsBehind(h)
    BY DEF Listens
  <2>3. Sound(game'[r]) /\ Tabled(game'[r]) /\ FirstsBehind(game'[r])
    BY <1>1, <2>1, <2>2
  <2> QED BY <2>3
<1>15. ASSUME NEW a \in Players, NEW r \in Players PROVE Followed(queue[r][a])'
  <2>1. queue'[r][a] = IF r = q /\ a = p THEN Tail(queue[q][p]) ELSE queue[r][a]
    BY DEF Hears
  <2>2. Followed(queue'[r][a])
    BY <1>11, <1>12, <2>1
  <2> QED BY <2>2
<1> QED BY <1>7, <1>8, <1>9, <1>10, <1>13, <1>14, <1>15 DEF Converging

\* What a player does for itself keeps everybody about to agree.
LEMMA RestingConverges ==
  ASSUME ProgressAssumption, Inv, Converging, NEW p \in Players, NEW h \in Games, NEW lost,
         game' = [game EXCEPT ![p] = h], queue' = queue, published' = published, early' = early,
         crossed' = crossed \cup lost, Rests(game[p], h, lost)
  PROVE  Converging'
<1> DEFINE g == game[p]
<1>1. game'[p] = h /\ \A r \in Players : r # p => game'[r] = game[r]
  BY DEF Inv, Types
<1>2. \A r \in Players : Coming(r)' = Coming(r)
  BY QuietComing
<1>3. /\ h.facts = g.facts /\ h.observed = g.observed /\ SameQuest(g, h)
      /\ \A t \in Topics \ lost : Here(h, t) => Here(g, t) /\ Held(h, t) = Held(g, t)
  BY DEF Rests
<1>4. ObservedPhase(h) = ObservedPhase(g)
  <2>1. Observations(h) = Observations(g)
    BY <1>3 DEF SameQuest, Observations
  <2> QED BY <2>1 DEF ObservedPhase, Observations
<1>5. \A r \in Players : /\ game'[r].facts = game[r].facts /\ game'[r].observed = game[r].observed
                         /\ ObservedPhase(game'[r]) = ObservedPhase(game[r])
                         /\ game'[r].slot = game[r].slot /\ game'[r].first = game[r].first
  BY <1>1, <1>3, <1>4 DEF SameQuest
<1>6. FactsComing' /\ PickupsComing'
  BY <1>2, <1>5 DEF Converging, FactsComing, PickupsComing
<1>7. OneValue'
  <2> SUFFICES ASSUME NEW t \in Topics, t \notin crossed'
               PROVE  \E v \in Int : \A r \in Players : Gets(r, t, v)'
    BY DEF OneValue
  <2>1. PICK v \in Int : \A r \in Players : Gets(r, t, v)
    BY DEF Converging, OneValue
  <2>2. ASSUME NEW r \in Players PROVE Gets(r, t, v)'
    <3>1. Here(game'[r], t) => Here(game[r], t) /\ Held(game'[r], t) = Held(game[r], t)
      BY <1>1, <1>3
    <3> QED BY <1>2, <2>1, <3>1 DEF Gets
  <2> QED BY <2>1, <2>2
<1>8. OneQuest'
  <2>1. PICK n \in Int : \A r \in Players : Reaches(r, n)
    BY DEF Converging, OneQuest
  <2>2. \A r \in Players : Reaches(r, n)'
    BY <1>2, <1>5, <2>1 DEF Reaches
  <2> QED BY <2>1, <2>2 DEF OneQuest
<1>9. ASSUME NEW r \in Players
      PROVE  (Sound(game[r]) /\ Tabled(game[r]) /\ SlotStands(r) /\ FirstsBehind(game[r]))'
  <2>1. Sound(game[r]) /\ Tabled(game[r]) /\ SlotStands(r) /\ FirstsBehind(game[r])
    BY DEF Converging
  <2>2. Sound(game'[r]) /\ Tabled(game'[r])
    BY <1>1, <2>1 DEF Rests
  <2>3. SlotStands(r)' /\ FirstsBehind(game'[r])
    BY <1>2, <1>5, <2>1 DEF SlotStands, FirstsBehind
  <2> QED BY <2>2, <2>3
<1>10. \A r, a \in Players : Followed(queue[r][a])'
  BY DEF Converging
<1> QED BY <1>6, <1>7, <1>8, <1>9, <1>10 DEF Converging
-----------------------------------------------------------------------------
\* A change of the topic at which the value becomes v, and of no other that the
\* player is there to see.
Carries(g, h, at, v) ==
  \A t \in Topics : Here(h, t) => Here(g, t) /\ Held(h, t) = (IF t = at THEN v ELSE Held(g, t))

\* What the stages and their memories are made of.
SameStages(g, h) ==
  /\ h.stage = g.stage /\ h.ready = g.ready /\ h.memory = g.memory /\ h.table = g.table
  /\ h.zone = g.zone /\ h.observed = g.observed /\ h.repaired = g.repaired

\* A change of what is in a stage, not of the stage, the facts or the quest.
InPlace(g, h) == h.stage = g.stage /\ h.ready = g.ready /\ h.facts = g.facts /\ SameQuest(g, h)

\* Nor of what was observed.
NothingSeen(g, h) == h.observed = g.observed

\* The topics there are.
LEMMA TopicForms ==
  ASSUME NEW t \in Topics
  PROVE  \/ \E st \in Stages : t = <<"keys", st, None>>
         \/ \E st \in Scopes, w \in Flags : t = <<"flag", st, w>>
         \/ \E st \in Stages, w \in Flags : t = <<"zone", st, w>>
BY DEF Topics

\* What is held of a topic of each form.
LEMMA HeldKeys ==
  ASSUME NEW g, NEW st, NEW t, t = <<"keys", st, None>>
  PROVE  Held(g, t) = Bits(g, st).keys /\ Here(g, t)
BY DEF Held, Here

\* A switch is on or off.
LEMMA HeldFlag ==
  ASSUME NEW g, NEW st, NEW w, NEW t, t = <<"flag", st, w>>
  PROVE  (Held(g, t) = IF w \in Bits(g, st).flags THEN 1 ELSE 0) /\ Here(g, t)
BY DEF Held, Here

\* So is a switch of the rooms, which only who is in the stage can tell.
LEMMA HeldZone ==
  ASSUME NEW g, NEW st, NEW w, NEW t, t = <<"zone", st, w>>
  PROVE  (Held(g, t) = IF w \in g.zone THEN 1 ELSE 0) /\ (Here(g, t) <=> g.stage = st)
BY DEF Held, Here

\* The same memories and switches hold the same values.
LEMMA SameHeld ==
  ASSUME NEW g, NEW h, h.stage = g.stage, h.zone = g.zone,
         \A st \in Scopes : Bits(h, st).keys = Bits(g, st).keys /\ Bits(h, st).flags = Bits(g, st).flags
  PROVE  \A t \in Topics : (Here(h, t) <=> Here(g, t)) /\ Held(h, t) = Held(g, t)
<1> SUFFICES ASSUME NEW t \in Topics PROVE (Here(h, t) <=> Here(g, t)) /\ Held(h, t) = Held(g, t)
  OBVIOUS
<1>1. CASE \E st \in Stages : t = <<"keys", st, None>>
  BY <1>1, HeldKeys DEF Scopes
<1>2. CASE \E st \in Scopes, w \in Flags : t = <<"flag", st, w>>
  BY <1>2, HeldFlag
<1>3. CASE \E st \in Stages, w \in Flags : t = <<"zone", st, w>>
  BY <1>3, HeldZone
<1> QED BY <1>1, <1>2, <1>3, TopicForms

\* What does not touch the stages changes no topic, and keeps them sound.
LEMMA StagesKept ==
  ASSUME NEW g, NEW h, SameStages(g, h), Sound(g), Tabled(g), NEW v
  PROVE  Carries(g, h, <<>>, v) /\ Sound(h) /\ Tabled(h)
<1>1. \A st : Bits(h, st) = Bits(g, st)
  BY DEF SameStages, Bits
<1>2. \A t \in Topics : (Here(h, t) <=> Here(g, t)) /\ Held(h, t) = Held(g, t)
  BY <1>1, SameHeld DEF SameStages
<1>3. <<>> \notin Topics
  BY TopicForms
<1>4. Sound(h) /\ Tabled(h)
  BY DEF Sound, Tabled, SameStages
<1> QED BY <1>2, <1>3, <1>4 DEF Carries

\* The bits of the stages after one of them is written.
LEMMA BitsWritten ==
  ASSUME NEW g \in Games, NEW st \in Scopes, NEW bits \in BitsType
  PROVE  LET h == Write(g, st, bits) IN
         /\ \A x \in Scopes : Bits(h, x) = IF x = st THEN bits ELSE Bits(g, x)
         /\ h \in Games /\ h.stage = g.stage /\ h.ready = g.ready /\ h.zone = g.zone /\ h.facts = g.facts
         /\ h.observed = g.observed /\ h.repaired = g.repaired
         /\ h.memory = (IF st = g.stage THEN bits ELSE g.memory)
         /\ st # g.stage => h.table[g.stage] = g.table[g.stage]
         /\ SameQuest(g, h)
<1> DEFINE h == Write(g, st, bits)
<1>1. h \in Games /\ SameQuest(g, h) /\ h.stage = g.stage /\ h.observed = g.observed
  BY Written DEF SameQuest
<1>2. CASE st = g.stage
  <2>1. h = [g EXCEPT !.memory = bits]
    BY <1>2 DEF Write
  <2>2. /\ h.memory = bits /\ h.table = g.table /\ h.ready = g.ready /\ h.zone = g.zone
        /\ h.facts = g.facts /\ h.repaired = g.repaired
    BY <2>1 DEF Games
  <2> HIDE DEF h
  <2>3. \A x \in Scopes : Bits(h, x) = IF x = st THEN bits ELSE Bits(g, x)
    BY <1>1, <1>2, <2>2 DEF Bits
  <2> QED BY <1>1, <1>2, <2>2, <2>3 DEF h
<1>3. CASE st # g.stage
  <2> DEFINE table == [g.table EXCEPT ![st] = bits]
  <2>1. h = [g EXCEPT !.table = table]
    BY <1>3 DEF Write
  <2>2. \A x \in Scopes : table[x] = IF x = st THEN bits ELSE g.table[x]
    BY DEF Games
  <2> HIDE DEF table
  <2>3. /\ h.memory = g.memory /\ h.table = table /\ h.ready = g.ready /\ h.zone = g.zone
        /\ h.facts = g.facts /\ h.repaired = g.repaired
    BY <2>1 DEF Games
  <2> HIDE DEF h
  <2>4. \A x \in Scopes : Bits(h, x) = IF x = st THEN bits ELSE Bits(g, x)
    BY <1>1, <1>3, <2>2, <2>3 DEF Bits
  <2>5. g.stage \in Scopes
    BY DEF Games, Scopes
  <2>6. h.table[g.stage] = g.table[g.stage]
    BY <1>3, <2>2, <2>3, <2>5
  <2> QED BY <1>1, <1>3, <2>3, <2>4, <2>6 DEF h
<1> QED BY <1>2, <1>3

\* What a pick-up makes of a game.
PickedUp(g, h, st, i) ==
  /\ InPlace(g, h)
  /\ \A x \in Stages : g.observed[x] \subseteq h.observed[x]
  /\ i \in h.observed[st] /\ Sound(h) /\ \A v : Carries(g, h, <<>>, v)
  /\ \A x \in Stages : \A j : j \in h.observed[x] => j \in g.observed[x] \/ (x = st /\ j = i)

\* A pick-up is observed, in its memory, and no topic.
LEMMA ItemCarries ==
  ASSUME NEW g \in Games, NEW st \in Stages, NEW i \in Items, Sound(g), NEW h, h = ItemGame(g, st, i)
  PROVE  PickedUp(g, h, st, i)
<1> DEFINE bits == [Bits(g, st) EXCEPT !.items = @ \cup {i}]
           w == Write(g, st, bits)
           observed == [g.observed EXCEPT ![st] = @ \cup {i}]
<1>1. st \in Scopes /\ g.stage \in Stages
  BY DEF Scopes, Games
<1>2. Bits(g, st) \in BitsType
  BY <1>1, BitsTyped
<1>3. /\ bits \in BitsType /\ bits.keys = Bits(g, st).keys /\ bits.flags = Bits(g, st).flags
      /\ bits.items = Bits(g, st).items \cup {i}
  BY <1>2 DEF BitsType
<1> HIDE DEF bits
<1>4. /\ \A x \in Scopes : Bits(w, x) = IF x = st THEN bits ELSE Bits(g, x)
      /\ w \in Games /\ w.stage = g.stage /\ w.ready = g.ready /\ w.zone = g.zone /\ w.facts = g.facts
      /\ w.repaired = g.repaired /\ w.memory = (IF st = g.stage THEN bits ELSE g.memory)
      /\ SameQuest(g, w)
  BY <1>1, <1>3, BitsWritten
<1>5. h = [w EXCEPT !.observed = observed]
  BY DEF ItemGame, bits
<1> HIDE DEF w
<1>6. \A x \in Stages : observed[x] = IF x = st THEN g.observed[x] \cup {i} ELSE g.observed[x]
  BY DEF Games
<1> HIDE DEF observed
<1>7. /\ h.observed = observed /\ h.stage = g.stage /\ h.ready = g.ready /\ h.zone = g.zone
      /\ h.facts = g.facts /\ h.repaired = g.repaired /\ h.memory = w.memory /\ h.table = w.table
      /\ SameQuest(g, h)
  BY <1>4, <1>5 DEF Games, SameQuest
<1>8. \A x \in Scopes : Bits(h, x) = Bits(w, x)
  BY <1>4, <1>7 DEF Bits
<1>9. \A t \in Topics : (Here(h, t) <=> Here(g, t)) /\ Held(h, t) = Held(g, t)
  BY <1>3, <1>4, <1>7, <1>8, SameHeld
<1>10. \A v : Carries(g, h, <<>>, v)
  <2>1. <<>> \notin Topics
    BY TopicForms
  <2> QED BY <1>9, <2>1 DEF Carries
<1>11. Sound(h)
  <2>1. Bits(g, g.stage) = g.memory
    BY DEF Bits
  <2>2. g.repaired => g.observed[g.stage] \subseteq g.memory.items
    BY DEF Sound
  <2>3. ASSUME h.repaired
        PROVE  h.observed[g.stage] \subseteq h.memory.items
    <3>1. h.memory = IF st = g.stage THEN bits ELSE g.memory
      BY <1>4, <1>7
    <3>2. h.observed[g.stage] = IF g.stage = st THEN g.observed[g.stage] \cup {i}
                                ELSE g.observed[g.stage]
      BY <1>1, <1>6, <1>7
    <3>3. g.observed[g.stage] \subseteq g.memory.items
      BY <1>7, <2>2, <2>3
    <3> QED BY <1>3, <2>1, <3>1, <3>2, <3>3
  <2> QED BY <1>7, <2>3 DEF Sound
<1>12. /\ \A x \in Stages : g.observed[x] \subseteq h.observed[x]
       /\ i \in h.observed[st]
       /\ \A x \in Stages : \A j : j \in h.observed[x] => j \in g.observed[x] \/ (x = st /\ j = i)
  BY <1>6, <1>7
<1> QED BY <1>7, <1>10, <1>11, <1>12 DEF InPlace, PickedUp

\* What a switch makes of a game.
Turned(g, h, st, w, on) ==
  /\ InPlace(g, h) /\ NothingSeen(g, h) /\ Sound(h) /\ Carries(g, h, <<"flag", st, w>>, on)
  /\ st = None /\ Tabled(g) => Tabled(h)

\* A switch changes its own topic.
LEMMA FlagCarries ==
  ASSUME ProgressAssumption, NEW g \in Games, NEW st \in Scopes, NEW w \in Flags, NEW on \in {0, 1},
         Sound(g), NEW h, h = FlagGame(g, st, w, on)
  PROVE  Turned(g, h, st, w, on)
<1> DEFINE bits == [Bits(g, st) EXCEPT !.flags = IF on = 1 THEN @ \cup {w} ELSE @ \ {w}]
<1>1. Bits(g, st) \in BitsType
  BY BitsTyped
<1>2. /\ bits \in BitsType /\ bits.keys = Bits(g, st).keys /\ bits.items = Bits(g, st).items
      /\ bits.flags = IF on = 1 THEN Bits(g, st).flags \cup {w} ELSE Bits(g, st).flags \ {w}
  BY <1>1 DEF BitsType
<1>3. h = Write(g, st, bits)
  BY DEF FlagGame
<1> HIDE DEF bits
<1>4. /\ \A x \in Scopes : Bits(h, x) = IF x = st THEN bits ELSE Bits(g, x)
      /\ h \in Games /\ h.stage = g.stage /\ h.ready = g.ready /\ h.zone = g.zone /\ h.facts = g.facts
      /\ h.observed = g.observed /\ h.repaired = g.repaired
      /\ h.memory = (IF st = g.stage THEN bits ELSE g.memory)
      /\ st # g.stage => h.table[g.stage] = g.table[g.stage]
      /\ SameQuest(g, h)
  BY <1>2, <1>3, BitsWritten
<1>5. Carries(g, h, <<"flag", st, w>>, on)
  <2> SUFFICES ASSUME NEW t \in Topics, Here(h, t)
               PROVE  Here(g, t) /\ Held(h, t) = (IF t = <<"flag", st, w>> THEN on ELSE Held(g, t))
    BY DEF Carries
  <2>1. ASSUME NEW x \in Stages, t = <<"keys", x, None>>
        PROVE  Here(g, t) /\ Held(h, t) = (IF t = <<"flag", st, w>> THEN on ELSE Held(g, t))
    <3>1. x \in Scopes /\ t # <<"flag", st, w>>
      BY <2>1 DEF Scopes
    <3>2. Bits(h, x).keys = Bits(g, x).keys
      BY <1>2, <1>4, <3>1
    <3>3. Held(h, t) = Bits(h, x).keys /\ Held(g, t) = Bits(g, x).keys /\ Here(g, t)
      BY <2>1, HeldKeys
    <3> QED BY <3>1, <3>2, <3>3
  <2>2. ASSUME NEW x \in Scopes, NEW y \in Flags, t = <<"flag", x, y>>
        PROVE  Here(g, t) /\ Held(h, t) = (IF t = <<"flag", st, w>> THEN on ELSE Held(g, t))
    <3>1. /\ Held(h, t) = IF y \in Bits(h, x).flags THEN 1 ELSE 0
          /\ Held(g, t) = IF y \in Bits(g, x).flags THEN 1 ELSE 0
          /\ Here(g, t)
      BY <2>2, HeldFlag
    <3>2. t = <<"flag", st, w>> <=> x = st /\ y = w
      BY <2>2
    <3>3. x = st /\ y = w => (y \in Bits(h, x).flags <=> on = 1)
      BY <1>2, <1>4
    <3>4. ~(x = st /\ y = w) => (y \in Bits(h, x).flags <=> y \in Bits(g, x).flags)
      BY <1>2, <1>4
    <3> QED BY <3>1, <3>2, <3>3, <3>4
  <2>3. ASSUME NEW x \in Stages, NEW y \in Flags, t = <<"zone", x, y>>
        PROVE  Here(g, t) /\ Held(h, t) = (IF t = <<"flag", st, w>> THEN on ELSE Held(g, t))
    BY <1>4, <2>3, HeldZone
  <2> QED BY <2>1, <2>2, <2>3, TopicForms
<1>6. Sound(h)
  <2>1. Bits(g, g.stage) = g.memory
    BY DEF Bits
  <2> QED BY <1>2, <1>4, <2>1 DEF Sound
<1>7. st = None /\ Tabled(g) => Tabled(h)
  <2>1. None # g.stage
    BY DEF Games, ProgressAssumption
  <2> QED BY <1>4, <2>1 DEF Tabled
<1> QED BY <1>4, <1>5, <1>6, <1>7 DEF InPlace, NothingSeen, Turned

\* A room's switch changes its own topic in the stage the player is in.
LEMMA ZoneCarries ==
  ASSUME NEW g \in Games, NEW w \in Flags, NEW on \in {0, 1}, Sound(g), Tabled(g)
  PROVE  LET h == ZoneGame(g, w, on) IN
         /\ InPlace(g, h) /\ NothingSeen(g, h) /\ Sound(h) /\ Tabled(h)
         /\ Carries(g, h, <<"zone", g.stage, w>>, on)
<1> DEFINE new == IF on = 1 THEN g.zone \cup {w} ELSE g.zone \ {w}
           h == ZoneGame(g, w, on)
<1>1. h = [g EXCEPT !.zone = new]
  BY DEF ZoneGame
<1> HIDE DEF new
<1>2. /\ h.zone = new /\ h.stage = g.stage /\ h.ready = g.ready /\ h.facts = g.facts
      /\ h.observed = g.observed /\ h.memory = g.memory /\ h.table = g.table /\ h.repaired = g.repaired
      /\ SameQuest(g, h)
  BY <1>1 DEF Games, SameQuest
<1> HIDE DEF h
<1>3. Sound(h) /\ Tabled(h)
  BY <1>2 DEF Sound, Tabled
<1>4. \A x : Bits(h, x) = Bits(g, x)
  BY <1>2 DEF Bits
<1>5. Carries(g, h, <<"zone", g.stage, w>>, on)
  <2> SUFFICES ASSUME NEW t \in Topics, Here(h, t)
               PROVE  Here(g, t) /\ Held(h, t) = (IF t = <<"zone", g.stage, w>> THEN on ELSE Held(g, t))
    BY DEF Carries
  <2>1. ASSUME NEW x \in Stages, t = <<"keys", x, None>>
        PROVE  Here(g, t) /\ Held(h, t) = (IF t = <<"zone", g.stage, w>> THEN on ELSE Held(g, t))
    <3>1. Held(h, t) = Bits(h, x).keys /\ Held(g, t) = Bits(g, x).keys /\ Here(g, t)
      BY <2>1, HeldKeys
    <3>2. t # <<"zone", g.stage, w>>
      BY <2>1
    <3> QED BY <1>4, <3>1, <3>2
  <2>2. ASSUME NEW x \in Scopes, NEW y \in Flags, t = <<"flag", x, y>>
        PROVE  Here(g, t) /\ Held(h, t) = (IF t = <<"zone", g.stage, w>> THEN on ELSE Held(g, t))
    <3>1. /\ Held(h, t) = IF y \in Bits(h, x).flags THEN 1 ELSE 0
          /\ Held(g, t) = IF y \in Bits(g, x).flags THEN 1 ELSE 0
          /\ Here(g, t)
      BY <2>2, HeldFlag
    <3>2. t # <<"zone", g.stage, w>>
      BY <2>2
    <3> QED BY <1>4, <3>1, <3>2
  <2>3. ASSUME NEW x \in Stages, NEW y \in Flags, t = <<"zone", x, y>>
        PROVE  Here(g, t) /\ Held(h, t) = (IF t = <<"zone", g.stage, w>> THEN on ELSE Held(g, t))
    <3>1. x = g.stage
      BY <1>2, <2>3, HeldZone
    <3>2. y \in h.zone <=> IF y = w THEN on = 1 ELSE y \in g.zone
      BY <1>2 DEF new
    <3>3. t = <<"zone", g.stage, w>> <=> y = w
      BY <2>3, <3>1
    <3> QED BY <1>2, <2>3, <3>1, <3>2, <3>3, HeldZone
  <2> QED BY <2>1, <2>2, <2>3, TopicForms
<1> QED BY <1>2, <1>3, <1>5 DEF InPlace, NothingSeen, h

\* The keys of a stage change their own topic.
LEMMA KeysCarries ==
  ASSUME NEW g \in Games, NEW st \in Stages, NEW n \in 0..MaxKeys, Sound(g)
  PROVE  LET h == KeysGame(g, st, n) IN
         /\ InPlace(g, h) /\ NothingSeen(g, h) /\ Sound(h) /\ Carries(g, h, <<"keys", st, None>>, n)
<1> DEFINE bits == [Bits(g, st) EXCEPT !.keys = n]
           h == KeysGame(g, st, n)
<1>0. st \in Scopes
  BY DEF Scopes
<1>1. Bits(g, st) \in BitsType
  BY <1>0, BitsTyped
<1>2. /\ bits \in BitsType /\ bits.flags = Bits(g, st).flags /\ bits.items = Bits(g, st).items
      /\ bits.keys = n
  BY <1>1 DEF BitsType
<1>3. h = Write(g, st, bits)
  BY DEF KeysGame
<1> HIDE DEF bits, h
<1>4. /\ \A x \in Scopes : Bits(h, x) = IF x = st THEN bits ELSE Bits(g, x)
      /\ h \in Games /\ h.stage = g.stage /\ h.ready = g.ready /\ h.zone = g.zone /\ h.facts = g.facts
      /\ h.observed = g.observed /\ h.repaired = g.repaired
      /\ h.memory = (IF st = g.stage THEN bits ELSE g.memory)
      /\ SameQuest(g, h)
  BY <1>0, <1>2, <1>3, BitsWritten
<1>5. Carries(g, h, <<"keys", st, None>>, n)
  <2> SUFFICES ASSUME NEW t \in Topics, Here(h, t)
               PROVE  Here(g, t) /\ Held(h, t) = (IF t = <<"keys", st, None>> THEN n ELSE Held(g, t))
    BY DEF Carries
  <2>1. ASSUME NEW x \in Stages, t = <<"keys", x, None>>
        PROVE  Here(g, t) /\ Held(h, t) = (IF t = <<"keys", st, None>> THEN n ELSE Held(g, t))
    <3>1. x \in Scopes /\ (t = <<"keys", st, None>> <=> x = st)
      BY <2>1 DEF Scopes
    <3>2. Bits(h, x).keys = IF x = st THEN n ELSE Bits(g, x).keys
      BY <1>2, <1>4, <3>1
    <3>3. Held(h, t) = Bits(h, x).keys /\ Held(g, t) = Bits(g, x).keys /\ Here(g, t)
      BY <2>1, HeldKeys
    <3> QED BY <3>1, <3>2, <3>3
  <2>2. ASSUME NEW x \in Scopes, NEW y \in Flags, t = <<"flag", x, y>>
        PROVE  Here(g, t) /\ Held(h, t) = (IF t = <<"keys", st, None>> THEN n ELSE Held(g, t))
    <3>1. y \in Bits(h, x).flags <=> y \in Bits(g, x).flags
      BY <1>2, <1>4
    <3>2. /\ Held(h, t) = IF y \in Bits(h, x).flags THEN 1 ELSE 0
          /\ Held(g, t) = IF y \in Bits(g, x).flags THEN 1 ELSE 0
          /\ Here(g, t)
      BY <2>2, HeldFlag
    <3>3. t # <<"keys", st, None>>
      BY <2>2
    <3> QED BY <3>1, <3>2, <3>3
  <2>3. ASSUME NEW x \in Stages, NEW y \in Flags, t = <<"zone", x, y>>
        PROVE  Here(g, t) /\ Held(h, t) = (IF t = <<"keys", st, None>> THEN n ELSE Held(g, t))
    BY <1>4, <2>3, HeldZone
  <2> QED BY <2>1, <2>2, <2>3, TopicForms
<1>6. Sound(h)
  <2>1. Bits(g, g.stage) = g.memory
    BY DEF Bits
  <2> QED BY <1>2, <1>4, <2>1 DEF Sound
<1> QED BY <1>4, <1>5, <1>6 DEF InPlace, NothingSeen, h
-----------------------------------------------------------------------------
\* What does not touch the quest leaves it where it is.
LEMMA QuestKept ==
  ASSUME ProgressAssumption, NEW g \in Games, NEW h \in Games, SameQuest(g, h)
  PROVE  /\ ObservedPhase(h) = ObservedPhase(g) /\ h.slot = g.slot
         /\ ObservedPhase(h) \in Int /\ -1 <= ObservedPhase(h)
         /\ FirstsBehind(g) => FirstsBehind(h)
<1>1. Observations(h) = Observations(g)
  BY DEF SameQuest, Observations
<1>2. ObservedPhase(h) = ObservedPhase(g)
  BY <1>1 DEF ObservedPhase, Observations
<1>3. -1 \in Observations(h)
  BY DEF Observations
<1>4. ObservedPhase(h) \in Int /\ -1 <= ObservedPhase(h)
  BY <1>3, ObservedIsGreatest
<1> QED BY <1>2, <1>4 DEF SameQuest, FirstsBehind

\* The messages that are not the quest's.
Plain(m) == m.type \in {"item", "flag", "zone", "keys", "fact", "offering"}

\* A player who makes one change that is not the quest's, and tells it.
LEMMA OneSpeaks ==
  ASSUME ProgressAssumption, Inv, Converging, NEW p \in Players, NEW s, NEW h, NEW m \in Messages,
         NEW facts,
         Makes(Step(p, FALSE), s, h, <<m>>), Plain(m), SameQuest(game[p], h),
         game[p].facts \subseteq h.facts, Sound(h), Tabled(h),
         \A st \in Stages : game[p].observed[st] \subseteq h.observed[st],
         \A f \in Facts : <<None, f>> \in facts => f \in h.facts /\ m = Message("fact", None, f, 1),
         \A st \in Stages, i \in Items : <<st, i>> \in facts =>
            i \in h.observed[st] /\ m = Message("item", st, i, 1),
         Carries(game[p], h, Topic(m), m.value),
         Topic(m) \in Topics => Here(h, Topic(m)) /\ m.value \in Int
  PROVE  Speaks(p, s, facts)
<1> DEFINE g == game[p]
<1>1. g \in Games
  BY PhaseInt
<1>2. Step(p, FALSE).applying = FALSE /\ Step(p, FALSE).out = <<>>
  BY <1>1, FirstStep
<1>3. s \in Steps /\ s.g = h /\ s.out = <<m>>
  <2>1. <<>> \o <<m>> = <<m>>
    OBVIOUS
  <2> QED BY <1>2, <2>1 DEF Makes
<1>4. h \in Games
  BY <1>3 DEF Steps
<1>5. ToSet(s.out) = {m}
  BY <1>3 DEF ToSet
<1>6. /\ ObservedPhase(h) = ObservedPhase(g) /\ h.slot = g.slot
      /\ ObservedPhase(h) \in Int /\ -1 <= ObservedPhase(h) /\ FirstsBehind(h)
  BY <1>1, <1>4, QuestKept DEF Converging
<1>7. PhaseOf(m) = -1 /\ m.type # "mark"
  BY DEF Plain, PhaseOf
<1>8. Followed(s.out)
  BY <1>3, <1>7 DEF Followed
<1>9. ASSUME NEW t \in Topics
      PROVE  /\ Topic(m) = t => m.value = Held(h, t) /\ m.value \in Int
             /\ Topic(m) = t \/ (Here(h, t) => Here(g, t) /\ Held(h, t) = Held(g, t))
  BY DEF Carries
<1> HIDE DEF g
<1> QED BY <1>3, <1>5, <1>6, <1>7, <1>8, <1>9 DEF Speaks, g

\* A player who tells nothing, though it may know more.
LEMMA NoneSpeaks ==
  ASSUME ProgressAssumption, Inv, Converging, NEW p \in Players, NEW s, NEW h,
         Makes(Step(p, FALSE), s, h, <<>>), SameQuest(game[p], h),
         game[p].facts \subseteq h.facts, SameStages(game[p], h)
  PROVE  Speaks(p, s, {})
<1> DEFINE g == game[p]
<1>1. g \in Games
  BY PhaseInt
<1>2. Step(p, FALSE).applying = FALSE /\ Step(p, FALSE).out = <<>>
  BY <1>1, FirstStep
<1>3. s \in Steps /\ s.g = h /\ s.out = <<>>
  <2>1. <<>> \o <<>> = <<>>
    OBVIOUS
  <2> QED BY <1>2, <2>1 DEF Makes
<1>4. h \in Games
  BY <1>3 DEF Steps
<1>5. ToSet(s.out) = {}
  BY <1>3 DEF ToSet
<1>6. /\ ObservedPhase(h) = ObservedPhase(g) /\ h.slot = g.slot
      /\ ObservedPhase(h) \in Int /\ FirstsBehind(h)
  BY <1>1, <1>4, QuestKept DEF Converging
<1>7. Followed(s.out)
  BY <1>3 DEF Followed
<1>8. Carries(g, h, <<>>, 0) /\ Sound(h) /\ Tabled(h)
  BY StagesKept DEF Converging
<1>9. <<>> \notin Topics
  BY TopicForms
<1>10. \A t \in Topics : Here(h, t) => Here(g, t) /\ Held(h, t) = Held(g, t)
  BY <1>8, <1>9 DEF Carries
<1>11. \A st \in Stages : g.observed[st] \subseteq h.observed[st]
  BY DEF SameStages
<1> HIDE DEF g
<1> QED BY <1>3, <1>5, <1>6, <1>7, <1>8, <1>10, <1>11 DEF Speaks, g

\* What the messages are about.
LEMMA AboutTopic ==
  ASSUME ProgressAssumption
  PROVE  /\ \A st \in Stages, i \in Items : LET m == Message("item", st, i, 1) IN
              m \in Messages /\ Plain(m) /\ Topic(m) = <<>>
         /\ \A st \in Scopes, w \in Flags, on \in {0, 1} : LET m == Message("flag", st, w, on) IN
              m \in Messages /\ Plain(m) /\ Topic(m) = <<"flag", st, w>> /\ m.value = on /\ m.type = "flag"
         /\ \A st \in Stages, w \in Flags, on \in {0, 1} : LET m == Message("zone", st, w, on) IN
              m \in Messages /\ Plain(m) /\ Topic(m) = <<"zone", st, w>> /\ m.value = on /\ m.type = "zone"
         /\ \A st \in Stages, n \in 0..MaxKeys : LET m == Message("keys", st, None, n) IN
              m \in Messages /\ Plain(m) /\ Topic(m) = <<"keys", st, None>> /\ m.value = n /\ m.type = "keys"
         /\ \A f \in Facts : LET m == Message("fact", None, f, 1) IN
              m \in Messages /\ Plain(m) /\ Topic(m) = <<>> /\ m.type = "fact"
         /\ \A n \in 0..MaxOffering : LET m == Message("offering", None, None, n) IN
              m \in Messages /\ Plain(m) /\ Topic(m) = <<>> /\ m.type = "offering"
         /\ <<>> \notin Topics /\ MaxKeys \in Nat
<1>1. <<>> \notin Topics /\ MaxKeys \in Nat
  BY TopicForms DEF ProgressAssumption
<1>2. ASSUME NEW st \in Stages, NEW i \in Items
      PROVE  Message("item", st, i, 1) \in Messages /\ Plain(Message("item", st, i, 1))
             /\ Topic(Message("item", st, i, 1)) = <<>>
  BY DEF Message, Messages, Kind, Plain, Topic
<1>3. ASSUME NEW st \in Scopes, NEW w \in Flags, NEW on \in {0, 1}
      PROVE  LET m == Message("flag", st, w, on) IN
              m \in Messages /\ Plain(m) /\ Topic(m) = <<"flag", st, w>> /\ m.value = on /\ m.type = "flag"
  BY DEF Message, Messages, Kind, Plain, Topic
<1>4. ASSUME NEW st \in Stages, NEW w \in Flags, NEW on \in {0, 1}
      PROVE  LET m == Message("zone", st, w, on) IN
              m \in Messages /\ Plain(m) /\ Topic(m) = <<"zone", st, w>> /\ m.value = on /\ m.type = "zone"
  BY DEF Message, Messages, Kind, Plain, Topic
<1>5. ASSUME NEW st \in Stages, NEW n \in 0..MaxKeys
      PROVE  LET m == Message("keys", st, None, n) IN
              m \in Messages /\ Plain(m) /\ Topic(m) = <<"keys", st, None>> /\ m.value = n /\ m.type = "keys"
  BY DEF Message, Messages, Kind, Plain, Topic
<1>6. ASSUME NEW f \in Facts
      PROVE  LET m == Message("fact", None, f, 1) IN
              m \in Messages /\ Plain(m) /\ Topic(m) = <<>> /\ m.type = "fact"
  BY DEF Message, Messages, Kind, Plain, Topic
<1>7. ASSUME NEW n \in 0..MaxOffering
      PROVE  LET m == Message("offering", None, None, n) IN
              m \in Messages /\ Plain(m) /\ Topic(m) = <<>> /\ m.type = "offering"
  BY DEF Message, Messages, Kind, Plain, Topic
<1> QED BY <1>1, <1>2, <1>3, <1>4, <1>5, <1>6, <1>7
-----------------------------------------------------------------------------
\* What a player does besides the quest keeps everybody about to agree.
LEMMA PickUpConverges ==
  ASSUME ProgressAssumption, Inv, Converging, NEW p \in Players, PickUp(p)
  PROVE  Converging'
<1> DEFINE g == game[p]
           st == g.stage
           s == Step(p, FALSE)
<1>1. PICK i \in Items : Local(p, OnItem(s, st, i), {<<st, i>>})
  BY DEF PickUp
<1> DEFINE h == ItemGame(g, st, i)
           m == Message("item", st, i, 1)
           facts == {<<st, i>>}
<1>2. g \in Games /\ st \in Stages /\ g.ready
  BY <1>1, PhaseInt DEF Games, Local
<1>3. s \in Steps /\ s.g = g /\ s.applying = FALSE
  BY <1>2, FirstStep
<1>4. Makes(s, OnItem(s, st, i), h, <<m>>)
  BY <1>2, <1>3, ItemMade
<1>5. /\ h.stage = st /\ h.ready = g.ready /\ h.facts = g.facts /\ SameQuest(g, h)
      /\ \A x \in Stages : g.observed[x] \subseteq h.observed[x]
      /\ i \in h.observed[st] /\ Sound(h) /\ Carries(g, h, <<>>, m.value)
  <2>1. Sound(g) /\ h = ItemGame(g, st, i)
    BY DEF Converging
  <2> HIDE DEF m, g, h
  <2>2. PickedUp(g, h, st, i)
    BY <1>2, <2>1, ItemCarries
  <2> QED BY <1>2, <2>1, <2>2 DEF PickedUp, InPlace
<1>6. m \in Messages /\ Plain(m) /\ Topic(m) = <<>> /\ <<>> \notin Topics
  BY <1>2, AboutTopic
<1>7. Tabled(h)
  BY <1>2, <1>5 DEF Tabled
<1>8. \A f \in Facts : <<None, f>> \notin facts
  BY <1>2 DEF ProgressAssumption
<1>9. \A x \in Stages, j \in Items : <<x, j>> \in facts => x = st /\ j = i
  OBVIOUS
<1>10. \A x \in Stages, j \in Items : <<x, j>> \in facts =>
         j \in h.observed[x] /\ m = Message("item", x, j, 1)
  BY <1>5, <1>9
<1> HIDE DEF h, m, facts, g, s, st
<1>11. Speaks(p, OnItem(s, st, i), facts)
  BY <1>4, <1>5, <1>6, <1>7, <1>8, <1>10, OneSpeaks DEF g, s
<1> QED BY <1>1, <1>11, LocalConverges DEF facts

\* A switch is turned.
LEMMA ToggleConverges ==
  ASSUME ProgressAssumption, Inv, Converging, NEW p \in Players, Toggle(p)
  PROVE  Converging'
<1> DEFINE g == game[p]
           s == Step(p, FALSE)
<1>1. PICK st \in {g.stage, None}, w \in Flags :
        Local(p, SetFlag(s, st, w, IF w \in Bits(g, st).flags THEN 0 ELSE 1), {})
  BY DEF Toggle
<1> DEFINE on == IF w \in Bits(g, st).flags THEN 0 ELSE 1
           h == FlagGame(g, st, w, on)
           m == Message("flag", st, w, on)
           t == SetFlag(s, st, w, on)
<1>2. g \in Games /\ st \in Scopes /\ g.ready /\ on \in {0, 1}
  BY <1>1, PhaseInt DEF Games, Local, Scopes
<1>3. s \in Steps /\ s.g = g /\ s.applying = FALSE
  BY <1>2, FirstStep
<1>4. Makes(s, t, h, <<m>>) \/ (Makes(s, t, h, <<>>) /\ h = g)
  <2> HIDE DEF on, g, s
  <2>1. s \in Steps /\ st \in Scopes /\ on \in {0, 1} /\ s.g = g
    BY <1>2, <1>3
  <2>2. \/ Makes(s, SetFlag(s, st, w, on), FlagGame(s.g, st, w, on),
                 <<Message("flag", st, w, on)>>)
        \/ /\ Makes(s, SetFlag(s, st, w, on), FlagGame(s.g, st, w, on), <<>>)
           /\ FlagGame(s.g, st, w, on) = s.g \/ st \notin {s.g.stage, None}
    BY <2>1, FlagMade
  <2>3. st \in {g.stage, None}
    OBVIOUS
  <2> QED BY <2>1, <2>2, <2>3
<1>5. Local(p, t, {})
  BY <1>1
<1> HIDE DEF on
<1>6. /\ h.stage = g.stage /\ h.ready = g.ready /\ h.facts = g.facts /\ SameQuest(g, h)
      /\ h.observed = g.observed /\ Sound(h) /\ Carries(g, h, <<"flag", st, w>>, on)
  <2>1. Sound(g) /\ h = FlagGame(g, st, w, on)
    BY DEF Converging
  <2> HIDE DEF g, h
  <2>2. Turned(g, h, st, w, on)
    BY <1>2, <2>1, FlagCarries
  <2> QED BY <2>2 DEF Turned, InPlace, NothingSeen
<1>7. m \in Messages /\ Plain(m) /\ Topic(m) = <<"flag", st, w>> /\ m.value = on
  BY <1>2, AboutTopic
<1>8. Tabled(h)
  BY <1>2, <1>6 DEF Tabled
<1>9. Here(h, <<"flag", st, w>>)
  BY HeldFlag
<1> HIDE DEF h, m, t, g, s
<1>10. on \in Int
  BY <1>2
<1>11. CASE Makes(s, t, h, <<m>>)
  <2>1. Speaks(p, t, {})
    BY <1>6, <1>7, <1>8, <1>9, <1>10, <1>11, OneSpeaks DEF g, s
  <2> QED BY <1>5, <2>1, LocalConverges
<1>12. CASE Makes(s, t, h, <<>>) /\ h = g
  <2>1. SameStages(g, h)
    BY <1>12 DEF SameStages
  <2>2. Speaks(p, t, {})
    BY <1>6, <1>12, <2>1, NoneSpeaks DEF g, s
  <2> QED BY <1>5, <2>2, LocalConverges
<1> QED BY <1>4, <1>11, <1>12

\* So is one of the rooms in play.
LEMMA OperateConverges ==
  ASSUME ProgressAssumption, Inv, Converging, NEW p \in Players, Operate(p)
  PROVE  Converging'
<1> DEFINE g == game[p]
           s == Step(p, FALSE)
           st == g.stage
<1>1. PICK w \in Flags : Local(p, SetZone(s, st, w, IF w \in g.zone THEN 0 ELSE 1), {})
  BY DEF Operate
<1> DEFINE on == IF w \in g.zone THEN 0 ELSE 1
           h == ZoneGame(g, w, on)
           m == Message("zone", st, w, on)
           t == SetZone(s, st, w, on)
<1>2. g \in Games /\ st \in Stages /\ on \in {0, 1}
  BY <1>1, PhaseInt DEF Games
<1>3. s \in Steps /\ s.g = g /\ s.applying = FALSE
  BY <1>2, FirstStep
<1>4. Makes(s, t, h, <<m>>) \/ (Makes(s, t, h, <<>>) /\ h = g)
  <2> HIDE DEF on
  <2> QED BY <1>2, <1>3, ZoneMade
<1>5. Local(p, t, {})
  BY <1>1
<1> HIDE DEF on
<1>6. /\ h.stage = g.stage /\ h.ready = g.ready /\ h.facts = g.facts /\ SameQuest(g, h)
      /\ h.observed = g.observed /\ Sound(h) /\ Tabled(h)
      /\ Carries(g, h, <<"zone", st, w>>, on)
  BY <1>2, ZoneCarries DEF Converging, InPlace, NothingSeen
<1>7. m \in Messages /\ Plain(m) /\ Topic(m) = <<"zone", st, w>> /\ m.value = on
  BY <1>2, AboutTopic
<1>9. Here(h, <<"zone", st, w>>)
  BY <1>6, HeldZone
<1> HIDE DEF h, m, t, g, s
<1>10. on \in Int
  BY <1>2
<1>11. CASE Makes(s, t, h, <<m>>)
  <2>1. Speaks(p, t, {})
    BY <1>6, <1>7, <1>9, <1>10, <1>11, OneSpeaks DEF g, s
  <2> QED BY <1>5, <2>1, LocalConverges
<1>12. CASE Makes(s, t, h, <<>>) /\ h = g
  <2>1. SameStages(g, h)
    BY <1>12 DEF SameStages
  <2>2. Speaks(p, t, {})
    BY <1>6, <1>12, <2>1, NoneSpeaks DEF g, s
  <2> QED BY <1>5, <2>2, LocalConverges
<1> QED BY <1>4, <1>11, <1>12

\* Keys are found and used.
LEMMA KeyConverges ==
  ASSUME ProgressAssumption, Inv, Converging, NEW p \in Players, GainKey(p) \/ SpendKey(p)
  PROVE  Converging'
<1> DEFINE g == game[p]
           s == Step(p, FALSE)
           st == g.stage
<1>1. g \in Games /\ st \in Stages /\ g.memory.keys \in 0..MaxKeys /\ MaxKeys \in Nat
  BY PhaseInt DEF Games, BitsType, ProgressAssumption
<1>2. PICK n \in 0..MaxKeys : Local(p, SetKeys(s, st, n), {})
  <2>1. CASE GainKey(p)
    <3>1. g.memory.keys + 1 \in 0..MaxKeys
      BY <1>1, <2>1 DEF GainKey
    <3> QED BY <2>1, <3>1 DEF GainKey
  <2>2. CASE SpendKey(p)
    <3>1. g.memory.keys - 1 \in 0..MaxKeys
      BY <1>1, <2>2 DEF SpendKey
    <3> QED BY <2>2, <3>1 DEF SpendKey
  <2> QED BY <2>1, <2>2
<1> DEFINE h == KeysGame(g, st, n)
           m == Message("keys", st, None, n)
           t == SetKeys(s, st, n)
<1>3. s \in Steps /\ s.g = g /\ s.applying = FALSE
  BY <1>1, FirstStep
<1>4. Makes(s, t, h, <<m>>)
  BY <1>1, <1>3, KeysMade
<1>5. g.ready
  BY <1>2 DEF Local
<1>6. /\ h.stage = g.stage /\ h.ready = g.ready /\ h.facts = g.facts /\ SameQuest(g, h)
      /\ h.observed = g.observed /\ Sound(h) /\ Carries(g, h, <<"keys", st, None>>, n)
  BY <1>1, KeysCarries DEF Converging, InPlace, NothingSeen
<1>7. m \in Messages /\ Plain(m) /\ Topic(m) = <<"keys", st, None>> /\ m.value = n
  BY <1>1, AboutTopic
<1>8. Tabled(h)
  BY <1>5, <1>6 DEF Tabled
<1>9. Here(h, <<"keys", st, None>>)
  BY HeldKeys
<1> HIDE DEF h, m, t, g, s
<1>10. n \in Int
  BY <1>1
<1>11. Speaks(p, t, {})
  BY <1>4, <1>6, <1>7, <1>8, <1>9, <1>10, OneSpeaks DEF g, s
<1> QED BY <1>2, <1>11, LocalConverges DEF t, s, g

\* Something is achieved, or seen too early to be told.
LEMMA AchieveConverges ==
  ASSUME ProgressAssumption, Inv, Converging, NEW p \in Players, Achieve(p)
  PROVE  Converging'
<1> DEFINE g == game[p]
           s == Step(p, FALSE)
<1>1. PICK f \in Facts :
        Local(p, OnFact(s, f), IF Allowed(g, f) THEN {<<None, f>>} ELSE {})
  BY DEF Achieve
<1> DEFINE facts == IF Allowed(g, f) THEN {<<None, f>>} ELSE {}
           h == [g EXCEPT !.facts = @ \cup {f}]
           m == Message("fact", None, f, 1)
           t == OnFact(s, f)
<1>2. g \in Games
  BY PhaseInt
<1>3. s \in Steps /\ s.g = g /\ s.applying = FALSE
  BY <1>2, FirstStep
<1>4. Makes(s, t, h, <<m>>) \/ (Makes(s, t, h, <<>>) /\ ~Allowed(g, f))
  BY <1>3, FactMade
<1>5. Local(p, t, facts)
  BY <1>1
<1>6. h.facts = g.facts \cup {f} /\ SameQuest(g, h) /\ SameStages(g, h)
  BY <1>2 DEF Games, SameQuest, SameStages
<1>7. m \in Messages /\ Plain(m) /\ Topic(m) = <<>> /\ <<>> \notin Topics
  BY AboutTopic
<1> HIDE DEF h, t, s
<1>8. Sound(h) /\ Tabled(h) /\ Carries(g, h, <<>>, m.value)
  <2> HIDE DEF g, m
  <2> QED BY <1>6, StagesKept DEF Converging, g
<1>9. \A x \in Facts : <<None, x>> \in facts => x \in h.facts /\ m = Message("fact", None, x, 1)
  <2>1. \A x \in Facts : <<None, x>> \in facts => x = f
    OBVIOUS
  <2> QED BY <1>6, <2>1
<1>10. \A st \in Stages, i \in Items : <<st, i>> \notin facts
  BY DEF ProgressAssumption
<1>11. \A st \in Stages : g.observed[st] \subseteq h.observed[st]
  BY <1>6 DEF SameStages
<1>12. ~Allowed(g, f) => facts = {}
  OBVIOUS
<1> HIDE DEF facts, m, g
<1>13. CASE Makes(s, t, h, <<m>>)
  <2>1. game[p].facts \subseteq h.facts
    BY <1>6 DEF g
  <2>2. Speaks(p, t, facts)
    BY <1>6, <1>7, <1>8, <1>9, <1>10, <1>11, <1>13, <2>1, OneSpeaks DEF g, s
  <2> QED BY <1>5, <2>2, LocalConverges
<1>14. CASE Makes(s, t, h, <<>>) /\ ~Allowed(g, f)
  <2>1. Speaks(p, t, {})
    BY <1>6, <1>14, NoneSpeaks DEF g, s
  <2> QED BY <1>5, <1>12, <1>14, <2>1, LocalConverges
<1> QED BY <1>4, <1>13, <1>14

\* An offering is made.
LEMMA DonateConverges ==
  ASSUME ProgressAssumption, Inv, Converging, NEW p \in Players, Donate(p)
  PROVE  Converging'
<1> DEFINE g == game[p]
           s == Step(p, FALSE)
           n == g.offering + 1
           h == [g EXCEPT !.offering = n]
           m == Message("offering", None, None, n)
           t == SetOffering(s, n)
<1>1. Local(p, t, {}) /\ g.offering < MaxOffering
  BY DEF Donate
<1>2. g \in Games
  BY PhaseInt
<1>3. n \in 0..MaxOffering
  BY <1>1, <1>2 DEF Games, ProgressAssumption
<1>4. s \in Steps /\ s.g = g /\ s.applying = FALSE
  BY <1>2, FirstStep
<1> HIDE DEF n
<1>5. Makes(s, t, h, <<m>>)
  BY <1>3, <1>4, OfferingMade
<1>6. h.facts = g.facts /\ SameQuest(g, h) /\ SameStages(g, h)
  BY <1>2 DEF Games, SameQuest, SameStages
<1>7. m \in Messages /\ Plain(m) /\ Topic(m) = <<>> /\ <<>> \notin Topics
  BY <1>3, AboutTopic
<1> HIDE DEF h, t, s, m
<1>8. Sound(h) /\ Tabled(h) /\ Carries(g, h, <<>>, m.value)
  BY <1>6, StagesKept DEF Converging
<1>9. \A st \in Stages : g.observed[st] \subseteq h.observed[st]
  BY <1>6 DEF SameStages
<1> HIDE DEF g
<1>10. game[p].facts \subseteq h.facts
  BY <1>6 DEF g
<1>11. Speaks(p, t, {})
  BY <1>5, <1>6, <1>7, <1>8, <1>9, <1>10, OneSpeaks DEF g, s
<1> QED BY <1>1, <1>11, LocalConverges
-----------------------------------------------------------------------------
\* The phases of an item, and the item of a phase.
LEMMA ItemOf ==
  ASSUME ProgressAssumption, NEW k \in TradeItems
  PROVE  /\ k \in Int /\ k # None /\ ItemPhase(k) = 2 * k
         /\ ItemForPhase(ItemPhase(k)) = k /\ ItemForPhase(ItemPhase(k) + 1) = None
         /\ \A n \in Int : ItemForPhase(n) = k => n = ItemPhase(k)
<1>1. Trades \in Nat /\ None \notin 0..(Trades - 1)
  BY DEF ProgressAssumption
<1>2. k \in Int /\ k # None
  BY <1>1 DEF TradeItems
<1>3. (2 * k) % 2 = 0 /\ (2 * k) \div 2 = k /\ (2 * k + 1) % 2 # 0
  BY <1>2
<1>4. ASSUME NEW n \in Int, ItemForPhase(n) = k PROVE n = 2 * k
  <2>1. n % 2 = 0 /\ n \div 2 = k
    BY <1>2, <1>4 DEF ItemForPhase
  <2> QED BY <2>1
<1> QED BY <1>2, <1>3, <1>4 DEF ItemForPhase, ItemPhase

\* What the observed phase is made of.
LEMMA ObservationForms ==
  ASSUME ProgressAssumption, NEW g \in Games
  PROVE  /\ \A n \in Observations(g) :
              \/ n = -1 \/ n \in g.marks \/ (g.slot # None /\ n = ItemPhase(g.slot))
              \/ \E k \in g.first : n = ItemPhase(k) + (IF g.slot = None THEN 1 ELSE 0)
         /\ -1 \in Observations(g) /\ g.marks \subseteq Observations(g)
         /\ g.slot # None => ItemPhase(g.slot) \in Observations(g)
         /\ \A k \in g.first : ItemPhase(k) + (IF g.slot = None THEN 1 ELSE 0) \in Observations(g)
BY DEF Observations

\* What is at most a phase that was observed.
LEMMA PhaseIs ==
  ASSUME ProgressAssumption, NEW g \in Games, NEW n \in Observations(g),
         \A x \in Observations(g) : x <= n
  PROVE  ObservedPhase(g) = n
<1>1. /\ ObservedPhase(g) \in Observations(g) /\ ObservedPhase(g) >= n
      /\ ObservedPhase(g) \in Int /\ n \in Int
  BY ObservedIsGreatest
<1> QED BY <1>1

\* Two messages in a row.
LEMMA Joined ==
  ASSUME NEW a, NEW b
  PROVE  <<a>> \o <<b>> = <<a, b>> /\ <<a>> \o <<>> = <<a>>
<1> DEFINE M == {a, b}
<1>0. a \in M /\ b \in M
  OBVIOUS
<1> HIDE DEF M
<1>1. <<a>> \o <<>> = <<a>>
  OBVIOUS
<1>2. <<a>> \in Seq(M) /\ <<b>> \in Seq(M) /\ <<a, b>> \in Seq(M)
  BY <1>0
<1> DEFINE s == <<a>>
           t == <<b>>
           u == <<a, b>>
<1>3. /\ s \in Seq(M) /\ t \in Seq(M) /\ u \in Seq(M) /\ Len(s) = 1 /\ Len(t) = 1 /\ Len(u) = 2
      /\ s[1] = a /\ t[1] = b /\ u[1] = a /\ u[2] = b
  BY <1>2
<1> HIDE DEF s, t, u
<1>4. s \o t \in Seq(M) /\ Len(s \o t) = 2 /\ (s \o t)[1] = s[1] /\ (s \o t)[2] = t[1]
  <2>1. /\ s \o t \in Seq(M) /\ Len(s \o t) = Len(s) + Len(t)
        /\ \A i \in 1 .. Len(s) : (s \o t)[i] = s[i]
        /\ \A i \in 1 .. Len(t) : (s \o t)[Len(s) + i] = t[i]
    <3>1. s \in Seq(M) /\ t \in Seq(M)
      BY <1>3
    <3> QED BY <3>1
  <2>2. 1 \in 1 .. Len(s) /\ 1 \in 1 .. Len(t) /\ Len(s) + 1 = 2 /\ Len(s) + Len(t) = 2
    BY <1>3
  <2> QED BY <2>1, <2>2
<1>5. \A i \in 1 .. 2 : (s \o t)[i] = u[i]
  BY <1>3, <1>4
<1>6. s \o t = u
  BY <1>3, <1>4, <1>5
<1> QED BY <1>1, <1>6 DEF s, t, u

\* A change of the quest is told to everybody.
LEMMA QuestSpeaks ==
  ASSUME ProgressAssumption, Inv, Converging, NEW p \in Players, NEW s \in Steps, NEW h, s.g = h,
         SameStages(game[p], h), h.facts = game[p].facts,
         \A m \in ToSet(s.out) : Topic(m) = <<>> /\ PhaseOf(m) <= ObservedPhase(h),
         ObservedPhase(game[p]) <= ObservedPhase(h),
         \/ ObservedPhase(h) = ObservedPhase(game[p])
         \/ \E m \in ToSet(s.out) : PhaseOf(m) = ObservedPhase(h),
         \/ h.slot = ItemForPhase(ObservedPhase(h))
         \/ /\ ObservedPhase(h) = ObservedPhase(game[p])
            /\ game[p].slot # ItemForPhase(ObservedPhase(game[p])),
         FirstsBehind(h), Followed(s.out)
  PROVE  Speaks(p, s, {})
<1> DEFINE g == game[p]
           told == ToSet(s.out)
<1>1. Carries(g, h, <<>>, 0) /\ Sound(h) /\ Tabled(h)
  BY StagesKept DEF Converging
<1>2. <<>> \notin Topics
  BY TopicForms
<1>3. \A t \in Topics : Here(h, t) => Here(g, t) /\ Held(h, t) = Held(g, t)
  BY <1>1, <1>2 DEF Carries
<1>4. \A st \in Stages : g.observed[st] \subseteq h.observed[st]
  BY DEF SameStages
<1>5. \A t \in Topics, m \in told : Topic(m) # t
  BY <1>2
<1> HIDE DEF g, told
<1> QED BY <1>1, <1>3, <1>4, <1>5 DEF Speaks, g, told

\* The item in the slot is handed in.
LEMMA HandInConverges ==
  ASSUME ProgressAssumption, Inv, Converging, NEW p \in Players, HandIn(p)
  PROVE  Converging'
<1> DEFINE g == game[p]
           k == g.slot
           n == ItemPhase(k) + 1
           s == Step(p, FALSE)
           t == OnMark(s, n)
           u == SetSlot(t, None)
           m == Message("mark", None, None, n)
           v == Message("trade", None, None, n)
           h1 == [g EXCEPT !.marks = @ \cup {n}]
           h == [h1 EXCEPT !.slot = None]
<1>1. k # None /\ Local(p, u, {})
  BY DEF HandIn
<1>2. g \in Games /\ k \in TradeItems
  <2>1. g \in Games
    BY PhaseInt
  <2> QED BY <1>1, <2>1 DEF Games
<1>3. n \in Phases /\ n = 2 * k + 1 /\ k \in Int /\ n \in Int /\ ItemPhase(k) = 2 * k /\ ItemForPhase(n) = None
  BY <1>2, Doubles, ItemOf
<1>4. s \in Steps /\ s.g = g /\ s.applying = FALSE /\ s.out = <<>>
  BY <1>2, FirstStep
<1> HIDE DEF n, s
<1>5. h1 \in Games /\ Makes(s, t, h1, <<m>>)
  BY <1>3, <1>4, MarkMade
<1>6. h1.slot = k /\ h1.first = g.first /\ h1.marks = g.marks \cup {n} /\ h1.facts = g.facts /\ SameStages(g, h1)
  BY <1>2 DEF Games, SameStages
<1> HIDE DEF t, h1
<1>7. t \in Steps /\ t.g = h1 /\ t.applying = FALSE /\ t.out = <<m>>
  <2>1. <<>> \o <<m>> = <<m>>
    OBVIOUS
  <2> QED BY <1>4, <1>5, <2>1 DEF Makes
<1>8. h \in Games /\ Makes(t, u, h, <<v>>)
  <2> DEFINE none == None
             w == Message("trade", None, None, IF none # None THEN ItemPhase(none) ELSE ItemPhase(t.g.slot) + 1)
  <2>1. none \in TradeItems \cup {None} /\ none # t.g.slot
    BY <1>1, <1>6, <1>7
  <2>2. w = v
    BY <1>6, <1>7 DEF n
  <2> HIDE DEF none, v
  <2>3. [t.g EXCEPT !.slot = none] \in Games /\ Makes(t, SetSlot(t, none), [t.g EXCEPT !.slot = none], <<w>>)
    BY <1>7, <2>1, SlotMade
  <2> QED BY <1>7, <2>2, <2>3 DEF none
<1>9. h.slot = None /\ h.first = g.first /\ h.marks = g.marks \cup {n} /\ h.facts = g.facts /\ SameStages(g, h)
  BY <1>5, <1>6 DEF Games, SameStages
<1>10. ObservedPhase(g) <= ObservedPhase(u.g)
  <2>1. Does(p, u)
    BY <1>1, <1>2, DoesHandIn DEF u, t, s, n
  <2>2. ObservedPhase(g) \in Int
    BY PhaseInt
  <2>3. u \in Steps /\ ObservedPhase(u.g) >= ObservedPhase(g)
    BY <2>1 DEF Does
  <2>4. ObservedPhase(u.g) \in Int
    BY <2>3, ObservedIsGreatest DEF Steps
  <2> QED BY <2>2, <2>3, <2>4
<1> HIDE DEF h
<1>11. u \in Steps /\ u.g = h /\ u.out = <<m, v>>
  <2>1. <<m>> \o <<v>> = <<m, v>>
    BY Joined
  <2> QED BY <1>7, <1>8, <2>1 DEF Makes
<1>12. /\ m.type = "mark" /\ m.value = n /\ v.type = "trade" /\ v.value = n
       /\ PhaseOf(m) = n /\ PhaseOf(v) = n /\ Topic(m) = <<>> /\ Topic(v) = <<>>
  BY DEF Message, PhaseOf, Topic
<1> HIDE DEF u, m, v
<1>13. ToSet(u.out) = {m, v}
  <2>1. DOMAIN <<m, v>> = {1, 2} /\ <<m, v>>[1] = m /\ <<m, v>>[2] = v
    OBVIOUS
  <2> QED BY <1>11, <2>1 DEF ToSet
<1>14. Followed(u.out)
  <2>1. Len(<<m, v>>) = 2 /\ <<m, v>>[1] = m /\ <<m, v>>[2] = v
    OBVIOUS
  <2>2. 2 \in 1 + 1 .. Len(<<m, v>>) /\ \A i \in 1 .. Len(<<m, v>>) : i = 1 \/ i = 2
    BY <2>1
  <2> QED BY <1>11, <1>12, <2>1, <2>2 DEF Followed
<1> DEFINE M == ObservedPhase(g)
           N == ObservedPhase(h)
<1>15. M \in Int /\ N \in Int /\ M <= N /\ n <= N
  <2>1. n \in Observations(h)
    BY <1>8, <1>9, ObservationForms
  <2> QED BY <1>2, <1>3, <1>8, <1>10, <1>11, <2>1, ObservedIsGreatest
<1>16. N = M \/ N = n
  <2>1. N \in Observations(h)
    BY <1>8, ObservedIsGreatest
  <2>2. \/ N = -1 \/ N \in g.marks \/ N = n
        \/ \E j \in g.first : N = ItemPhase(j) + 1
    BY <1>8, <1>9, <2>1, ObservationForms
  <2>3. CASE N = -1 \/ N \in g.marks
    <3>1. N \in Observations(g)
      BY <1>2, <2>3, ObservationForms
    <3> QED BY <1>2, <1>15, <3>1, ObservedIsGreatest
  <2>4. ASSUME NEW j \in g.first, N = ItemPhase(j) + 1 PROVE N = M \/ N = n
    <3>1. j \in TradeItems
      BY <1>2 DEF Games
    <3>2. ItemPhase(j) = 2 * j /\ j \in Int
      BY <3>1, ItemOf
    <3>3. j <= k \/ ItemPhase(j) < M
      BY <1>1 DEF Converging, FirstsBehind
    <3> HIDE DEF M, N
    <3> QED BY <1>3, <1>15, <2>4, <3>2, <3>3
  <2> QED BY <2>2, <2>3, <2>4
<1>17. h.slot = ItemForPhase(N) \/ (N = M /\ k # ItemForPhase(M))
  <2>1. CASE N = n
    BY <1>3, <1>9, <2>1
  <2>2. CASE N = M /\ N # n
    <3>1. M # ItemPhase(k)
      BY <1>3, <1>15, <2>2
    <3>2. ItemForPhase(M) # k
      BY <1>2, <1>15, <3>1, ItemOf
    <3> QED BY <2>2, <3>2
  <2> QED BY <1>16, <2>1, <2>2
<1>18. FirstsBehind(h)
  BY <1>9 DEF FirstsBehind
<1>19. Speaks(p, u, {})
  <2>1. /\ u \in Steps /\ u.g = h /\ SameStages(game[p], h) /\ h.facts = game[p].facts
        /\ \A x \in ToSet(u.out) : Topic(x) = <<>> /\ PhaseOf(x) <= ObservedPhase(h)
    BY <1>9, <1>11, <1>12, <1>13, <1>15
  <2>2. /\ ObservedPhase(game[p]) <= ObservedPhase(h)
        /\ \/ ObservedPhase(h) = ObservedPhase(game[p])
           \/ \E x \in ToSet(u.out) : PhaseOf(x) = ObservedPhase(h)
    BY <1>12, <1>13, <1>15, <1>16
  <2>3. \/ h.slot = ItemForPhase(ObservedPhase(h))
        \/ /\ ObservedPhase(h) = ObservedPhase(game[p])
           /\ game[p].slot # ItemForPhase(ObservedPhase(game[p]))
    BY <1>17
  <2> QED BY <1>14, <1>18, <2>1, <2>2, <2>3, QuestSpeaks
<1> QED BY <1>1, <1>19, LocalConverges

\* The next item is obtained.
LEMMA ObtainConverges ==
  ASSUME ProgressAssumption, Inv, Converging, NEW p \in Players, Obtain(p)
  PROVE  Converging'
<1> DEFINE g == game[p]
           s == Step(p, FALSE)
<1>1. PICK k \in TradeItems : /\ g.slot = None /\ ObservedPhase(g) = ItemPhase(k) - 1
                              /\ Local(p, ExecItemGet(s, k), {})
  BY DEF Obtain
<1> DEFINE n == ItemPhase(k)
           t == SetSlot(s, k)
           u == OnFirst(t, k)
           m == Message("trade", None, None, n)
           v == Message("get", None, k, 1)
           h1 == [g EXCEPT !.slot = k]
           h == [h1 EXCEPT !.first = @ \cup {k}]
<1>2. g \in Games
  BY PhaseInt
<1>3. /\ n = 2 * k /\ k \in Int /\ n \in Int /\ k # None /\ ItemForPhase(n) = k
  BY Doubles, ItemOf
<1>4. s \in Steps /\ s.g = g /\ s.applying = FALSE /\ s.out = <<>>
  BY <1>2, FirstStep
<1>5. Local(p, u, {})
  BY <1>1 DEF ExecItemGet
<1> HIDE DEF s
<1>6. h1 \in Games /\ Makes(s, t, h1, <<m>>)
  BY <1>1, <1>3, <1>4, SlotMade
<1>7. h1.slot = k /\ h1.first = g.first /\ h1.marks = g.marks /\ h1.facts = g.facts /\ SameStages(g, h1)
  BY <1>2 DEF Games, SameStages
<1> HIDE DEF t, h1, n
<1>8. t \in Steps /\ t.g = h1 /\ t.applying = FALSE /\ t.out = <<m>>
  <2>1. <<>> \o <<m>> = <<m>>
    OBVIOUS
  <2> QED BY <1>4, <1>6, <2>1 DEF Makes
<1>9. h \in Games /\ (Makes(t, u, h, <<v>>) \/ Makes(t, u, h, <<>>))
  BY <1>8, FirstMade
<1>10. /\ h.slot = k /\ h.first = g.first \cup {k} /\ h.marks = g.marks /\ h.facts = g.facts
       /\ SameStages(g, h)
  BY <1>6, <1>7 DEF Games, SameStages
<1> HIDE DEF h
<1>11. u \in Steps /\ u.g = h /\ (u.out = <<m, v>> \/ u.out = <<m>>)
  <2>1. <<m>> \o <<v>> = <<m, v>> /\ <<m>> \o <<>> = <<m>>
    BY Joined
  <2> QED BY <1>8, <1>9, <2>1 DEF Makes
<1>12. /\ m.type = "trade" /\ v.type = "get" /\ PhaseOf(m) = n /\ PhaseOf(v) = n
       /\ Topic(m) = <<>> /\ Topic(v) = <<>>
  BY DEF Message, PhaseOf, Topic, n
<1> HIDE DEF u, m, v
<1>13. m \in ToSet(u.out) /\ ToSet(u.out) \subseteq {m, v}
  <2>1. /\ DOMAIN <<m, v>> = {1, 2} /\ <<m, v>>[1] = m /\ <<m, v>>[2] = v
        /\ DOMAIN <<m>> = {1} /\ <<m>>[1] = m
    OBVIOUS
  <2> QED BY <1>11, <2>1 DEF ToSet
<1>14. Followed(u.out)
  <2>1. /\ Len(<<m, v>>) = 2 /\ <<m, v>>[1] = m /\ <<m, v>>[2] = v
        /\ Len(<<m>>) = 1 /\ <<m>>[1] = m
    OBVIOUS
  <2>2. /\ \A i \in 1 .. Len(<<m, v>>) : i = 1 \/ i = 2
        /\ \A i \in 1 .. Len(<<m>>) : i = 1
    BY <2>1
  <2> QED BY <1>11, <1>12, <2>1, <2>2 DEF Followed
<1>15. \A j \in g.first : j \in Int /\ ItemPhase(j) = 2 * j /\ j < k
  <2> SUFFICES ASSUME NEW j \in g.first PROVE j \in Int /\ ItemPhase(j) = 2 * j /\ j < k
    OBVIOUS
  <2>1. j \in Int /\ ItemPhase(j) = 2 * j
    BY <1>2, ItemOf DEF Games
  <2>2. ItemPhase(j) + 1 \in Observations(g)
    BY <1>1, <1>2, ObservationForms
  <2>3. ObservedPhase(g) >= ItemPhase(j) + 1
    BY <1>2, <2>2, ObservedIsGreatest
  <2> QED BY <1>1, <1>3, <2>1, <2>3 DEF n
<1>16. ObservedPhase(h) = n
  <2>1. n \in Observations(h)
    BY <1>3, <1>9, <1>10, ObservationForms DEF n
  <2>2. ASSUME NEW x \in Observations(h) PROVE x <= n
    <3>1. \/ x \in Observations(g) \/ x = n \/ \E j \in g.first \cup {k} : x = ItemPhase(j) + 0
      BY <1>2, <1>3, <1>9, <1>10, ObservationForms DEF n
    <3>2. x \in Observations(g) => x \in Int /\ ObservedPhase(g) >= x /\ ObservedPhase(g) \in Int
      BY <1>2, ObservedIsGreatest
    <3>3. ASSUME NEW j \in g.first \cup {k}, x = ItemPhase(j) + 0 PROVE x <= n
      <4>1. j \in Int /\ ItemPhase(j) = 2 * j /\ j <= k
        BY <1>3, <1>15 DEF n
      <4> QED BY <1>3, <3>3, <4>1
    <3> QED BY <1>1, <1>3, <3>1, <3>2, <3>3 DEF n
  <2> QED BY <1>9, <2>1, <2>2, PhaseIs
<1>17. FirstsBehind(h)
  <2>1. \A j \in h.first : j <= k
    BY <1>3, <1>10, <1>15
  <2> QED BY <1>10, <2>1 DEF FirstsBehind
<1>18. Speaks(p, u, {})
  <2>1. /\ u \in Steps /\ u.g = h /\ SameStages(game[p], h) /\ h.facts = game[p].facts
        /\ \A x \in ToSet(u.out) : Topic(x) = <<>> /\ PhaseOf(x) <= ObservedPhase(h)
    BY <1>3, <1>10, <1>11, <1>12, <1>13, <1>16
  <2>2. /\ ObservedPhase(game[p]) <= ObservedPhase(h)
        /\ \E x \in ToSet(u.out) : PhaseOf(x) = ObservedPhase(h)
    BY <1>1, <1>3, <1>12, <1>13, <1>16 DEF n
  <2>3. h.slot = ItemForPhase(ObservedPhase(h))
    BY <1>3, <1>10, <1>16
  <2> QED BY <1>14, <1>17, <2>1, <2>2, <2>3, QuestSpeaks
<1> QED BY <1>5, <1>18, LocalConverges
-----------------------------------------------------------------------------
\* The messages of each type.
LEMMA MessageForms ==
  ASSUME NEW m \in Messages
  PROVE  /\ m.type = "item" => m.stage \in Stages /\ m.id \in Items
         /\ m.type = "flag" => m.stage \in Scopes /\ m.id \in Flags /\ m.value \in {0, 1}
         /\ m.type = "zone" => m.stage \in Stages /\ m.id \in Flags /\ m.value \in {0, 1}
         /\ m.type = "keys" => m.stage \in Stages /\ m.id = None /\ m.value \in 0..MaxKeys
         /\ m.type = "fact" => m.id \in Facts
         /\ m.type = "offering" => m.value \in 0..MaxOffering
         /\ m.type = "trade" => m.value \in Phases
         /\ m.type = "get" => m.id \in TradeItems
         /\ m.type = "mark" => m.value \in Phases
         /\ m.type \in {"item", "flag", "zone", "keys", "fact", "offering", "trade", "get", "mark"}
BY DEF Messages, Kind

\* A message that is not the quest's, heard by a player who has done what it says.
LEMMA PlainListens ==
  ASSUME ProgressAssumption, NEW g \in Games, NEW h \in Games, NEW m, Plain(m), SameQuest(g, h),
         FirstsBehind(g), g.facts \subseteq h.facts, Sound(h), Tabled(h),
         m.type = "fact" /\ Allowed(g, m.id) => m.id \in h.facts,
         \A st \in Stages : g.observed[st] \subseteq h.observed[st],
         m.type = "item" => m.id \in h.observed[m.stage],
         \A t \in Topics : IF Topic(m) = t THEN Here(h, t) => Held(h, t) = m.value
                           ELSE Here(h, t) => Here(g, t) /\ Held(h, t) = Held(g, t)
  PROVE  Listens(g, m, h)
<1>1. /\ ObservedPhase(h) = ObservedPhase(g) /\ h.slot = g.slot
      /\ ObservedPhase(h) \in Int /\ -1 <= ObservedPhase(h) /\ FirstsBehind(h)
  BY QuestKept
<1>2. PhaseOf(m) = -1 /\ m.type # "trade"
  BY DEF Plain, PhaseOf
<1>3. Follows(m, g, h)
  BY <1>1, <1>2 DEF Follows
<1> QED BY <1>1, <1>2, <1>3 DEF Listens

\* It is heard as a change of its topic.
LEMMA CarriedListens ==
  ASSUME ProgressAssumption, NEW g \in Games, NEW h \in Games, NEW m, Plain(m), SameQuest(g, h),
         FirstsBehind(g), g.facts \subseteq h.facts, Sound(h), Tabled(h),
         m.type = "fact" /\ Allowed(g, m.id) => m.id \in h.facts,
         \A st \in Stages : g.observed[st] \subseteq h.observed[st],
         m.type = "item" => m.id \in h.observed[m.stage],
         Carries(g, h, Topic(m), m.value)
  PROVE  Listens(g, m, h)
<1>1. \A t \in Topics : IF Topic(m) = t THEN Here(h, t) => Held(h, t) = m.value
                        ELSE Here(h, t) => Here(g, t) /\ Held(h, t) = Held(g, t)
  BY DEF Carries
<1> QED BY <1>1, PlainListens

\* A message that changes nothing at a player who is elsewhere, or knows it.
LEMMA IgnoredListens ==
  ASSUME ProgressAssumption, NEW g \in Games, NEW m, Plain(m), m.type # "item",
         FirstsBehind(g), Sound(g), Tabled(g),
         m.type = "fact" => ~Allowed(g, m.id),
         Topic(m) \in Topics => ~Here(g, Topic(m))
  PROVE  Listens(g, m, g)
<1>1. \A t \in Topics : IF Topic(m) = t THEN Here(g, t) => Held(g, t) = m.value
                        ELSE Here(g, t) => Here(g, t) /\ Held(g, t) = Held(g, t)
  OBVIOUS
<1>2. SameQuest(g, g)
  BY DEF SameQuest
<1> QED BY <1>1, <1>2, PlainListens

\* What is heard of a pick-up.
LEMMA ItemListens ==
  ASSUME ProgressAssumption, NEW s \in Steps, s.applying, NEW m \in Messages, m.type = "item",
         Sound(s.g), FirstsBehind(s.g), s.g.ready
  PROVE  Listens(s.g, m, Apply(s, m).g)
<1> DEFINE g == s.g
           h == ItemGame(g, m.stage, m.id)
<1>1. m.stage \in Stages /\ m.id \in Items /\ g \in Games
  BY MessageForms DEF Steps
<1>2. Apply(s, m) = ApplyItem(s, m.stage, m.id)
  BY DEF Apply
<1>3. Makes(s, ApplyItem(s, m.stage, m.id), h, <<>>)
  BY <1>1, ItemMade
<1>4. h = ItemGame(g, m.stage, m.id) /\ Apply(s, m).g = h /\ h \in Games
  BY <1>1, <1>2, <1>3, GamesMade DEF Makes
<1> HIDE DEF g, h
<1>11. Sound(g)
  BY DEF g
<1>12. PickedUp(g, h, m.stage, m.id)
  BY <1>1, <1>4, <1>11, ItemCarries
<1>5. InPlace(g, h)
  BY <1>12 DEF PickedUp
<1>6. /\ \A x \in Stages : g.observed[x] \subseteq h.observed[x]
      /\ m.id \in h.observed[m.stage] /\ Sound(h) /\ Carries(g, h, <<>>, m.value)
  BY <1>12 DEF PickedUp
<1>7. Topic(m) = <<>> /\ Plain(m)
  BY DEF Topic, Plain
<1>8. Tabled(h)
  BY <1>5 DEF InPlace, Tabled, g
<1>9. FirstsBehind(g)
  BY DEF g
<1>10. Listens(g, m, h)
  BY <1>1, <1>4, <1>5, <1>6, <1>7, <1>8, <1>9, CarriedListens DEF InPlace
<1> QED BY <1>4, <1>10 DEF g

\* Of a switch.
LEMMA FlagListens ==
  ASSUME ProgressAssumption, NEW s \in Steps, s.applying, NEW m \in Messages, m.type = "flag",
         Sound(s.g), Tabled(s.g), FirstsBehind(s.g), m.stage # None => s.g.ready
  PROVE  Listens(s.g, m, Apply(s, m).g)
<1> DEFINE g == s.g
           h == FlagGame(g, m.stage, m.id, m.value)
<1>1. m.stage \in Scopes /\ m.id \in Flags /\ m.value \in {0, 1} /\ g \in Games
  BY MessageForms DEF Steps
<1>2. Apply(s, m) = SetFlag(s, m.stage, m.id, m.value)
  BY DEF Apply
<1>3. Makes(s, SetFlag(s, m.stage, m.id, m.value), h, <<Message("flag", m.stage, m.id, m.value)>>)
      \/ Makes(s, SetFlag(s, m.stage, m.id, m.value), h, <<>>)
  BY <1>1, FlagMade
<1>4. h = FlagGame(g, m.stage, m.id, m.value) /\ Apply(s, m).g = h /\ h \in Games
  BY <1>1, <1>2, <1>3, GamesMade DEF Makes
<1> HIDE DEF g, h
<1>12. Sound(g)
  BY DEF g
<1>13. Turned(g, h, m.stage, m.id, m.value)
  BY <1>1, <1>4, <1>12, FlagCarries
<1>5. InPlace(g, h)
  BY <1>13 DEF Turned
<1>6. NothingSeen(g, h)
  BY <1>13 DEF Turned
<1>7. Sound(h) /\ Carries(g, h, <<"flag", m.stage, m.id>>, m.value) /\ (m.stage = None => Tabled(h))
  <2>1. m.stage = None => Tabled(g)
    BY DEF g
  <2> QED BY <1>13, <2>1 DEF Turned
<1>8. Topic(m) = <<"flag", m.stage, m.id>> /\ Plain(m)
  BY DEF Topic, Plain
<1>9. Tabled(h)
  BY <1>5, <1>7 DEF InPlace, Tabled, g
<1>10. FirstsBehind(g)
  BY DEF g
<1>11. Listens(g, m, h)
  BY <1>1, <1>4, <1>5, <1>6, <1>7, <1>8, <1>9, <1>10, CarriedListens DEF InPlace, NothingSeen
<1> QED BY <1>4, <1>11 DEF g

\* Of a switch of a room, in its stage and elsewhere.
LEMMA ZoneListens ==
  ASSUME ProgressAssumption, NEW s \in Steps, s.applying, NEW m \in Messages, m.type = "zone",
         Sound(s.g), Tabled(s.g), FirstsBehind(s.g)
  PROVE  Listens(s.g, m, Apply(s, m).g)
<1> DEFINE g == s.g
           h == ZoneGame(g, m.id, m.value)
<1>1. m.stage \in Stages /\ m.id \in Flags /\ m.value \in {0, 1} /\ g \in Games
  BY MessageForms DEF Steps
<1>2. Apply(s, m) = IF m.stage = g.stage THEN SetZone(s, m.stage, m.id, m.value) ELSE s
  BY DEF Apply, ApplyZone
<1>3. Makes(s, SetZone(s, m.stage, m.id, m.value), h, <<Message("zone", m.stage, m.id, m.value)>>)
      \/ Makes(s, SetZone(s, m.stage, m.id, m.value), h, <<>>)
  BY <1>1, ZoneMade
<1>4. Topic(m) = <<"zone", m.stage, m.id>> /\ Plain(m)
  BY DEF Topic, Plain
<1>5. CASE m.stage = g.stage
  <2>1. Apply(s, m).g = h /\ h \in Games
    BY <1>1, <1>2, <1>3, <1>5, GamesMade DEF Makes
  <2>2. /\ InPlace(g, h) /\ NothingSeen(g, h) /\ Sound(h) /\ Tabled(h)
        /\ Carries(g, h, <<"zone", g.stage, m.id>>, m.value)
    BY <1>1, ZoneCarries
  <2> HIDE DEF g, h
  <2>3. FirstsBehind(g)
    BY DEF g
  <2>4. Listens(g, m, h)
    BY <1>1, <1>4, <1>5, <2>1, <2>2, <2>3, CarriedListens DEF InPlace, NothingSeen
  <2> QED BY <2>1, <2>4 DEF g
<1>6. CASE m.stage # g.stage
  <2>1. ~Here(g, Topic(m))
    BY <1>4, <1>6, HeldZone
  <2>2. Apply(s, m).g = g
    BY <1>2, <1>6
  <2>3. Listens(g, m, g)
    BY <1>1, <1>4, <2>1, IgnoredListens
  <2> QED BY <2>2, <2>3
<1> QED BY <1>5, <1>6

\* Of the keys of a stage.
LEMMA KeysListens ==
  ASSUME ProgressAssumption, NEW s \in Steps, s.applying, NEW m \in Messages, m.type = "keys",
         Sound(s.g), FirstsBehind(s.g), s.g.ready
  PROVE  Listens(s.g, m, Apply(s, m).g)
<1> DEFINE g == s.g
           h == KeysGame(g, m.stage, m.value)
<1>1. m.stage \in Stages /\ m.id = None /\ m.value \in 0..MaxKeys /\ g \in Games
  BY MessageForms DEF Steps
<1>2. Apply(s, m) = SetKeys(s, m.stage, m.value)
  BY DEF Apply
<1>3. Makes(s, SetKeys(s, m.stage, m.value), h, <<Message("keys", m.stage, None, m.value)>>)
      \/ Makes(s, SetKeys(s, m.stage, m.value), h, <<>>)
  BY <1>1, KeysMade
<1>4. Apply(s, m).g = h /\ h \in Games
  BY <1>1, <1>2, <1>3, GamesMade DEF Makes
<1>5. /\ InPlace(g, h) /\ NothingSeen(g, h) /\ Sound(h)
      /\ Carries(g, h, <<"keys", m.stage, None>>, m.value)
  BY <1>1, KeysCarries
<1> HIDE DEF g, h
<1>6. Topic(m) = <<"keys", m.stage, None>> /\ Plain(m)
  BY <1>1 DEF Topic, Plain
<1>7. Tabled(h)
  BY <1>5 DEF InPlace, Tabled, g
<1>8. FirstsBehind(g)
  BY DEF g
<1>9. Listens(g, m, h)
  BY <1>1, <1>4, <1>5, <1>6, <1>7, <1>8, CarriedListens DEF InPlace, NothingSeen
<1> QED BY <1>4, <1>9 DEF g

\* Of a fact: one that came too early is dropped.
LEMMA FactListens ==
  ASSUME ProgressAssumption, NEW s \in Steps, s.applying, NEW m \in Messages, m.type = "fact",
         Sound(s.g), Tabled(s.g), FirstsBehind(s.g)
  PROVE  Listens(s.g, m, Apply(s, m).g)
<1> DEFINE g == s.g
           h == [g EXCEPT !.facts = @ \cup {m.id}]
<1>1. m.id \in Facts /\ g \in Games
  BY MessageForms DEF Steps
<1>2. Apply(s, m) = IF Allowed(g, m.id) THEN OnFact(s, m.id) ELSE s
  BY DEF Apply, ApplyFact
<1>3. Topic(m) = <<>> /\ Plain(m) /\ <<>> \notin Topics
  BY TopicForms DEF Topic, Plain
<1>4. CASE Allowed(g, m.id)
  <2>1. h \in Games /\ Apply(s, m).g = h
    BY <1>1, <1>2, <1>4, FactMade, ZenonT(30) DEF Makes
  <2>2. h.facts = g.facts \cup {m.id} /\ SameQuest(g, h) /\ SameStages(g, h)
    BY <1>1 DEF Games, SameQuest, SameStages
  <2> HIDE DEF h, g
  <2>3. Sound(g) /\ Tabled(g) /\ FirstsBehind(g)
    BY DEF g
  <2>4. Carries(g, h, <<>>, m.value) /\ Sound(h) /\ Tabled(h)
    BY <2>2, <2>3, StagesKept
  <2>5. Listens(g, m, h)
    BY <1>1, <1>3, <2>1, <2>2, <2>3, <2>4, CarriedListens DEF SameStages
  <2> QED BY <2>1, <2>5 DEF g
<1>5. CASE ~Allowed(g, m.id)
  <2>1. Apply(s, m).g = g
    BY <1>2, <1>5
  <2>2. Listens(g, m, g)
    BY <1>1, <1>3, <1>5, IgnoredListens
  <2> QED BY <2>1, <2>2
<1> QED BY <1>4, <1>5

\* Of an offering, which only grows.
LEMMA OfferingListens ==
  ASSUME ProgressAssumption, NEW s \in Steps, s.applying, NEW m \in Messages, m.type = "offering",
         Sound(s.g), Tabled(s.g), FirstsBehind(s.g)
  PROVE  Listens(s.g, m, Apply(s, m).g)
<1> DEFINE g == s.g
           h == [g EXCEPT !.offering = m.value]
<1>1. m.value \in 0..MaxOffering /\ g \in Games
  BY MessageForms DEF Steps
<1>2. Apply(s, m) \in {SetOffering(s, m.value), s}
  BY DEF Apply, ApplyOffering
<1>3. Topic(m) = <<>> /\ Plain(m) /\ <<>> \notin Topics
  BY TopicForms DEF Topic, Plain
<1>4. CASE Apply(s, m) = SetOffering(s, m.value)
  <2>1. h \in Games /\ Apply(s, m).g = h
    <3>1. h \in Games /\ Makes(s, SetOffering(s, m.value), h, <<Message("offering", None, None, m.value)>>)
      BY <1>1, OfferingMade
    <3> QED BY <1>4, <3>1 DEF Makes
  <2>2. h.facts = g.facts /\ SameQuest(g, h) /\ SameStages(g, h)
    BY <1>1 DEF Games, SameQuest, SameStages
  <2> HIDE DEF h, g
  <2>3. Sound(g) /\ Tabled(g) /\ FirstsBehind(g)
    BY DEF g
  <2>4. Carries(g, h, <<>>, m.value) /\ Sound(h) /\ Tabled(h)
    BY <2>2, <2>3, StagesKept
  <2>5. Listens(g, m, h)
    BY <1>1, <1>3, <2>1, <2>2, <2>3, <2>4, CarriedListens DEF SameStages
  <2> QED BY <2>1, <2>5 DEF g
<1>5. CASE Apply(s, m) = s
  <2>1. Listens(g, m, g)
    BY <1>1, <1>3, IgnoredListens
  <2> QED BY <1>5, <2>1
<1> QED BY <1>2, <1>4, <1>5
-----------------------------------------------------------------------------
\* The quest's messages change neither the stages nor the facts.
LEMMA QuestListens ==
  ASSUME ProgressAssumption, NEW g \in Games, NEW h \in Games, NEW m,
         m.type \in {"trade", "get", "mark"}, SameStages(g, h), h.facts = g.facts,
         Sound(g), Tabled(g), Follows(m, g, h), FirstsBehind(h),
         \/ h.slot = ItemForPhase(ObservedPhase(h))
         \/ /\ ObservedPhase(h) = ObservedPhase(g) /\ h.slot = g.slot
            /\ ~(m.type = "trade" /\ m.value >= ObservedPhase(g))
         \/ m.type = "mark" /\ ObservedPhase(h) = m.value
  PROVE  Listens(g, m, h)
<1>1. Carries(g, h, <<>>, 0) /\ Sound(h) /\ Tabled(h)
  BY StagesKept
<1>2. Topic(m) = <<>> /\ <<>> \notin Topics
  BY TopicForms DEF Topic
<1>3. \A t \in Topics : IF Topic(m) = t THEN Here(h, t) => Held(h, t) = m.value
                        ELSE Here(h, t) => Here(g, t) /\ Held(h, t) = Held(g, t)
  BY <1>1, <1>2 DEF Carries
<1>4. \A st \in Stages : g.observed[st] \subseteq h.observed[st]
  BY DEF SameStages
<1>5. (m.type = "fact" /\ Allowed(g, m.id) => m.id \in h.facts) /\ (m.type = "item" => m.id \in h.observed[m.stage])
  OBVIOUS
<1> QED BY <1>1, <1>3, <1>4, <1>5 DEF Listens

\* What a game has observed is at most its phase.
LEMMA Behind ==
  ASSUME ProgressAssumption, NEW g \in Games
  PROVE  /\ ObservedPhase(g) \in Int /\ -1 <= ObservedPhase(g)
         /\ \A n \in g.marks : n \in Int /\ n <= ObservedPhase(g)
         /\ g.slot # None => g.slot \in Int /\ 2 * g.slot <= ObservedPhase(g)
         /\ \A j \in g.first : /\ j \in TradeItems /\ j \in Int /\ ItemPhase(j) = 2 * j
                               /\ 2 * j <= ObservedPhase(g)
                               /\ g.slot = None => 2 * j + 1 <= ObservedPhase(g)
<1> DEFINE M == ObservedPhase(g)
<1>1. M \in Int /\ \A n \in Observations(g) : n \in Int /\ n <= M
  BY ObservedIsGreatest
<1> HIDE DEF M
<1>2. -1 <= M /\ \A n \in g.marks : n \in Int /\ n <= M
  BY <1>1, ObservationForms
<1>3. g.slot # None => g.slot \in Int /\ 2 * g.slot <= M
  <2>1. g.slot # None => g.slot \in TradeItems
    BY DEF Games
  <2> QED BY <1>1, <2>1, ItemOf, ObservationForms
<1>4. ASSUME NEW j \in g.first
      PROVE  j \in TradeItems /\ j \in Int /\ ItemPhase(j) = 2 * j /\ 2 * j <= M /\ (g.slot = None => 2 * j + 1 <= M)
  <2>1. j \in TradeItems
    BY DEF Games
  <2>2. j \in Int /\ ItemPhase(j) = 2 * j
    BY <2>1, ItemOf
  <2>3. ItemPhase(j) + (IF g.slot = None THEN 1 ELSE 0) <= M
    <3> DEFINE x == ItemPhase(j) + (IF g.slot = None THEN 1 ELSE 0)
    <3>1. x \in Observations(g)
      BY ObservationForms
    <3> HIDE DEF x
    <3>2. x <= M
      BY <1>1, <3>1
    <3> QED BY <3>2 DEF x
  <2>4. CASE g.slot = None
    <3>1. 2 * j + 1 <= M
      BY <2>2, <2>3, <2>4
    <3> QED BY <1>1, <2>1, <2>2, <3>1
  <2>5. CASE g.slot # None
    <3>1. 2 * j + 0 <= M
      BY <2>2, <2>3, <2>5
    <3> QED BY <2>1, <2>2, <2>5, <3>1
  <2> QED BY <2>4, <2>5
<1> QED BY <1>1, <1>2, <1>3, <1>4 DEF M

\* Of a change of the slot.
LEMMA TradeListens ==
  ASSUME ProgressAssumption, NEW s \in Steps, s.applying, NEW m \in Messages, m.type = "trade",
         Sound(s.g), Tabled(s.g), FirstsBehind(s.g), Odd(m.value) => m.value \in s.g.marks
  PROVE  Listens(s.g, m, Apply(s, m).g)
<1> DEFINE g == s.g
           n == m.value
           item == ItemForPhase(n)
           h == [g EXCEPT !.slot = item]
           M == ObservedPhase(g)
<1>1. n \in Phases /\ g \in Games
  BY MessageForms DEF Steps
<1>2. n \in Int /\ PhaseOf(m) = n
  BY MessageInt
<1>3. Apply(s, m) = IF n >= M THEN SetSlot(s, item) ELSE s
  BY DEF Apply, ApplyTrade
<1>4. M \in Int
  BY <1>1, ObservedIsGreatest
<1>5. CASE n >= M
  <2>1. item \in TradeItems \cup {None}
    BY <1>1, Halves
  <2>2. \/ Odd(n) /\ item = None
        \/ item \in TradeItems /\ item \in Int /\ item # None /\ n = 2 * item /\ ItemPhase(item) = n
    BY <1>1, Halves, ItemOf
  <2> HIDE DEF item
  <2>3. h \in Games /\ \E told : Makes(s, SetSlot(s, item), h, told)
    <3>1. h \in Games
      BY <2>1, SlotMade
    <3>2. CASE item = s.g.slot
      BY <2>1, <3>1, <3>2, SlotMade
    <3>3. CASE item # s.g.slot
      BY <2>1, <3>1, <3>3, SlotMade
    <3> QED BY <3>1, <3>2, <3>3
  <2>4. Apply(s, m).g = h
    BY <1>3, <1>5, <2>3 DEF Makes
  <2>5. /\ h.slot = item /\ h.first = g.first /\ h.marks = g.marks /\ h.facts = g.facts /\ SameStages(g, h)
    BY <1>1 DEF Games, SameStages
  <2> HIDE DEF h, g
  <2>6. ObservedPhase(h) = n
    <3>1. n \in Observations(h)
      <4>1. CASE Odd(n) /\ item = None
        <5>1. n \in h.marks
          BY <2>5, <4>1 DEF g
        <5> QED BY <2>3, <5>1, ObservationForms
      <4>2. CASE item # None /\ ItemPhase(item) = n
        BY <2>3, <2>5, <4>2, ObservationForms
      <4> QED BY <2>2, <4>1, <4>2
    <3>2. ASSUME NEW x \in Observations(h) PROVE x <= n
      <4>1. \/ x = -1 \/ x \in g.marks \/ x = n
            \/ \E j \in g.first : x = ItemPhase(j) + (IF item = None THEN 1 ELSE 0)
        BY <2>2, <2>3, <2>5, ObservationForms
      <4>2. CASE x = -1 \/ x \in g.marks
        <5>1. x \in Int /\ x <= M
          BY <1>1, <4>2, Behind
        <5> QED BY <1>2, <1>4, <1>5, <5>1
      <4>3. ASSUME NEW j \in g.first, x = ItemPhase(j) + (IF item = None THEN 1 ELSE 0)
            PROVE  x <= n
        <5>1. j \in Int /\ ItemPhase(j) = 2 * j /\ 2 * j <= M
          BY <1>1, Behind
        <5>2. CASE item # None
          BY <1>2, <1>4, <1>5, <4>3, <5>1, <5>2
        <5>3. CASE item = None
          <6>1. PICK i \in TradeItems : n = ItemPhase(i) + 1
            BY <2>2, <5>3 DEF Odd
          <6>2. i \in Int /\ n = 2 * i + 1
            BY <6>1, ItemOf
          <6> HIDE DEF n, M
          <6> QED BY <1>4, <1>5, <4>3, <5>1, <5>3, <6>2
        <5> QED BY <5>2, <5>3
      <4> QED BY <1>2, <4>1, <4>2, <4>3
    <3> QED BY <2>3, <3>1, <3>2, PhaseIs
  <2>7. Follows(m, g, h)
    BY <1>2, <1>4, <1>5, <2>6 DEF Follows
  <2>8. FirstsBehind(h)
    <3> SUFFICES ASSUME item # None, NEW j \in g.first PROVE j <= item
      BY <2>5 DEF FirstsBehind
    <3>1. j \in Int /\ 2 * j <= M
      BY <1>1, Behind
    <3>2. item \in Int /\ n = 2 * item
      BY <2>2
    <3> HIDE DEF n, M
    <3> QED BY <1>4, <1>5, <3>1, <3>2
  <2>9. h.slot = ItemForPhase(ObservedPhase(h))
    BY <2>5, <2>6 DEF item
  <2>10. Sound(g) /\ Tabled(g)
    BY DEF g
  <2>11. Listens(g, m, h)
    BY <1>1, <2>3, <2>5, <2>7, <2>8, <2>9, <2>10, QuestListens
  <2> QED BY <2>4, <2>11 DEF g
<1>6. CASE ~(n >= M)
  <2>1. Apply(s, m).g = g
    BY <1>3, <1>6
  <2>2. Follows(m, g, g)
    BY <1>2, <1>4, <1>6 DEF Follows
  <2>3. SameStages(g, g)
    BY DEF SameStages
  <2>4. Listens(g, m, g)
    BY <1>1, <1>6, <2>2, <2>3, QuestListens
  <2> QED BY <2>1, <2>4
<1> QED BY <1>5, <1>6

\* Of an item: one already traded on does not return to the slot.
LEMMA GetListens ==
  ASSUME ProgressAssumption, NEW s \in Steps, s.applying, NEW m \in Messages, m.type = "get",
         Sound(s.g), Tabled(s.g), FirstsBehind(s.g)
  PROVE  Listens(s.g, m, Apply(s, m).g)
<1> DEFINE g == s.g
           k == m.id
           n == ItemPhase(k)
           M == ObservedPhase(g)
<1>1. k \in TradeItems /\ g \in Games
  BY MessageForms DEF Steps
<1>2. /\ k \in Int /\ n = 2 * k /\ n \in Int /\ k # None /\ ItemForPhase(n) = k /\ PhaseOf(m) = n
  BY <1>1, ItemOf DEF PhaseOf
<1>3. Apply(s, m) = IF k \in g.first THEN s ELSE IF M > n THEN OnFirst(s, k)
                    ELSE OnFirst(SetSlot(s, k), k)
  BY DEF Apply, ApplyGet, ExecItemGet
<1>4. M \in Int
  BY <1>1, ObservedIsGreatest
<1>5. CASE k \in g.first
  <2>1. Apply(s, m).g = g
    BY <1>3, <1>5
  <2>2. n <= M
    BY <1>1, <1>2, <1>5, Behind
  <2>3. Follows(m, g, g) /\ SameStages(g, g)
    BY <1>2, <1>4, <2>2 DEF Follows, SameStages
  <2>4. Listens(g, m, g)
    BY <1>1, <2>3, QuestListens
  <2> QED BY <2>1, <2>4
<1>6. CASE k \notin g.first /\ M > n
  <2> DEFINE h == [g EXCEPT !.first = @ \cup {k}]
  <2>1. h \in Games /\ Apply(s, m).g = h
    <3>1. h \in Games /\ OnFirst(s, k).g = h
      BY <1>1, FirstMade DEF Makes
    <3> QED BY <1>3, <1>6, <3>1
  <2>2. /\ h.slot = g.slot /\ h.first = g.first \cup {k} /\ h.marks = g.marks /\ h.facts = g.facts
        /\ SameStages(g, h)
    BY <1>1 DEF Games, SameStages
  <2> HIDE DEF h, g
  <2>3. ObservedPhase(h) = M
    <3>1. M \in Observations(h)
      <4>1. M \in Observations(g)
        BY <1>1, ObservedIsGreatest
      <4> QED BY <2>2, <4>1 DEF Observations
    <3>2. ASSUME NEW x \in Observations(h) PROVE x <= M
      <4>1. x \in Observations(g) \/ x = n + (IF g.slot = None THEN 1 ELSE 0)
        BY <2>2 DEF Observations
      <4>2. x \in Observations(g) => x <= M
        BY <1>1, ObservedIsGreatest
      <4> HIDE DEF n, M
      <4> QED BY <1>2, <1>4, <1>6, <4>1, <4>2
    <3> QED BY <2>1, <3>1, <3>2, PhaseIs
  <2>4. Follows(m, g, h)
    BY <1>2, <1>4, <1>6, <2>3 DEF Follows
  <2>5. FirstsBehind(h)
    <3>1. FirstsBehind(g)
      BY DEF g
    <3> QED BY <1>6, <2>2, <2>3, <3>1 DEF FirstsBehind
  <2>6. Sound(g) /\ Tabled(g)
    BY DEF g
  <2>7. Listens(g, m, h)
    BY <1>1, <2>1, <2>2, <2>3, <2>4, <2>5, <2>6, QuestListens
  <2> QED BY <2>1, <2>7 DEF g
<1>7. CASE k \notin g.first /\ ~(M > n)
  <2> DEFINE h1 == [g EXCEPT !.slot = k]
             h == [h1 EXCEPT !.first = @ \cup {k}]
             t == SetSlot(s, k)
  <2>1. t \in Steps /\ t.g = h1 /\ h1 \in Games
    <3>1. h1 \in Games
      BY <1>1, SlotMade
    <3>2. CASE k = g.slot
      BY <1>1, <3>1, <3>2, SlotMade DEF Makes
    <3>3. CASE k # g.slot
      BY <1>1, <3>1, <3>3, SlotMade DEF Makes
    <3> QED BY <3>1, <3>2, <3>3
  <2>2. h1.slot = k /\ h1.first = g.first /\ h1.marks = g.marks /\ h1.facts = g.facts /\ SameStages(g, h1)
    BY <1>1 DEF Games, SameStages
  <2> HIDE DEF h1, t
  <2>3. h \in Games /\ OnFirst(t, k).g = h
    <3> DEFINE e == [t.g EXCEPT !.first = @ \cup {k}]
    <3>1. /\ e \in Games
          /\ Makes(t, OnFirst(t, k), e, <<Message("get", None, k, 1)>>) \/ Makes(t, OnFirst(t, k), e, <<>>)
      BY <1>1, <2>1, FirstMade
    <3>2. e = h
      BY <2>1
    <3> HIDE DEF e, h
    <3> QED BY <3>1, <3>2 DEF Makes
  <2>4. Apply(s, m).g = h
    BY <1>3, <1>7, <2>3 DEF t
  <2>5. /\ h.slot = k /\ h.first = g.first \cup {k} /\ h.marks = g.marks /\ h.facts = g.facts
        /\ SameStages(g, h)
    BY <2>1, <2>2 DEF Games, SameStages
  <2> HIDE DEF h, g
  <2>6. ObservedPhase(h) = n
    <3>1. n \in Observations(h)
      BY <1>2, <2>3, <2>5, ObservationForms
    <3>2. ASSUME NEW x \in Observations(h) PROVE x <= n
      <4>1. \/ x = -1 \/ x \in g.marks \/ x = n
            \/ \E j \in g.first \cup {k} : x = ItemPhase(j) + 0
        BY <1>2, <2>3, <2>5, ObservationForms
      <4>2. CASE x = -1 \/ x \in g.marks
        <5>1. x \in Int /\ x <= M
          BY <1>1, <4>2, Behind
        <5> QED BY <1>2, <1>4, <1>7, <5>1
      <4>3. ASSUME NEW j \in g.first, x = ItemPhase(j) + 0 PROVE x <= n
        <5>1. j \in Int /\ ItemPhase(j) = 2 * j /\ 2 * j <= M
          BY <1>1, Behind
        <5> QED BY <1>2, <1>4, <1>7, <4>3, <5>1
      <4>4. x = ItemPhase(k) + 0 => x <= n
        BY <1>2
      <4> QED BY <1>2, <4>1, <4>2, <4>3, <4>4
    <3> QED BY <2>3, <3>1, <3>2, PhaseIs
  <2>7. Follows(m, g, h)
    BY <1>2, <1>4, <1>7, <2>6 DEF Follows
  <2>8. FirstsBehind(h)
    <3> SUFFICES ASSUME NEW j \in g.first \cup {k} PROVE j <= k
      BY <2>5 DEF FirstsBehind
    <3>1. j \in g.first => j \in Int /\ 2 * j <= M
      BY <1>1, Behind
    <3> HIDE DEF M
    <3> QED BY <1>2, <1>4, <1>7, <3>1
  <2>9. h.slot = ItemForPhase(ObservedPhase(h))
    BY <1>2, <2>5, <2>6
  <2>10. Sound(g) /\ Tabled(g)
    BY DEF g
  <2>11. Listens(g, m, h)
    BY <1>1, <2>3, <2>5, <2>7, <2>8, <2>9, <2>10, QuestListens
  <2> QED BY <2>4, <2>11 DEF g
<1> QED BY <1>5, <1>6, <1>7

\* Of a milestone.
LEMMA MarkListens ==
  ASSUME ProgressAssumption, NEW s \in Steps, s.applying, NEW m \in Messages, m.type = "mark",
         Sound(s.g), Tabled(s.g), FirstsBehind(s.g)
  PROVE  Listens(s.g, m, Apply(s, m).g)
<1> DEFINE g == s.g
           n == m.value
           h == [g EXCEPT !.marks = @ \cup {n}]
           M == ObservedPhase(g)
<1>1. n \in Phases /\ g \in Games
  BY MessageForms DEF Steps
<1>2. n \in Int /\ PhaseOf(m) = n
  BY MessageInt
<1>3. h \in Games /\ Apply(s, m).g = h
  <2>1. Apply(s, m) = OnMark(s, n)
    BY DEF Apply
  <2>2. h \in Games /\ OnMark(s, n).g = h
    BY <1>1, MarkMade DEF Makes
  <2> QED BY <2>1, <2>2
<1>4. /\ h.slot = g.slot /\ h.first = g.first /\ h.marks = g.marks \cup {n} /\ h.facts = g.facts
      /\ SameStages(g, h)
  BY <1>1 DEF Games, SameStages
<1> HIDE DEF h, g
<1> DEFINE N == ObservedPhase(h)
<1>5. M \in Int /\ N \in Int /\ n <= N /\ M <= N /\ N \in {M, n}
  <2>1. \A x \in Observations(g) : x \in Int /\ x <= M
    BY <1>1, ObservedIsGreatest
  <2>2. \A x \in Observations(h) : x \in Int /\ x <= N
    BY <1>3, ObservedIsGreatest
  <2>3. M \in Observations(g) /\ N \in Observations(h)
    BY <1>1, <1>3, ObservedIsGreatest
  <2>4. \A x : x \in Observations(h) <=> x \in Observations(g) \/ x = n
    BY <1>4 DEF Observations
  <2> HIDE DEF M, N, n
  <2>5. M \in Int /\ N \in Int /\ n <= N /\ M <= N
    BY <2>1, <2>2, <2>3, <2>4
  <2>6. N = n \/ N <= M
    BY <2>1, <2>3, <2>4
  <2> QED BY <2>5, <2>6
<1>6. Follows(m, g, h)
  BY <1>2, <1>5 DEF Follows
<1>7. FirstsBehind(h)
  <2>1. FirstsBehind(g)
    BY DEF g
  <2>2. \A j \in g.first : ItemPhase(j) \in Int
    BY <1>1, Behind
  <2> QED BY <1>4, <1>5, <2>1, <2>2 DEF FirstsBehind
<1>8. Sound(g) /\ Tabled(g)
  BY DEF g
<1>9. N = M \/ N = n
  BY <1>5
<1>10. Listens(g, m, h)
  BY <1>1, <1>3, <1>4, <1>6, <1>7, <1>8, <1>9, QuestListens
<1> QED BY <1>3, <1>10 DEF g

\* Whatever a player hears keeps everybody about to agree.
LEMMA ReceiveConverges ==
  ASSUME ProgressAssumption, Inv, Converging, NEW p \in Players, NEW q \in Players, Receive(p, q)
  PROVE  Converging'
<1> DEFINE s == Step(p, TRUE)
<1>1. PICK m, h : Hears(p, q, m, h)
  BY Heard
<1>2. /\ m \in Messages /\ h = Apply(s, m).g /\ (StageDependent(m) => game[p].ready)
      /\ m.type = "trade" /\ Odd(m.value) => m.value \in game[p].marks
  BY <1>1 DEF Hears
<1>3. s \in Steps /\ s.g = game[p] /\ s.applying
  BY PhaseInt, FirstStep
<1>4. Sound(s.g) /\ Tabled(s.g) /\ FirstsBehind(s.g)
  BY <1>3 DEF Converging
<1> HIDE DEF s
<1>5. /\ m.type \in {"item", "keys"} => s.g.ready
      /\ m.type = "flag" /\ m.stage # None => s.g.ready
  BY <1>2, <1>3 DEF StageDependent
<1>6. m.type \in {"item", "flag", "zone", "keys", "fact", "offering", "trade", "get", "mark"}
  BY <1>2, MessageForms
<1>7. Listens(s.g, m, Apply(s, m).g)
  BY <1>2, <1>3, <1>4, <1>5, <1>6, ItemListens, FlagListens, ZoneListens, KeysListens, FactListens,
     OfferingListens, TradeListens, GetListens, MarkListens
<1> QED BY <1>1, <1>2, <1>3, <1>7, HearingConverges
-----------------------------------------------------------------------------
\* A change of the stage, or of its memory, that tells nobody anything.
LEMMA MovingConverges ==
  ASSUME ProgressAssumption, Inv, Converging, NEW p \in Players, NEW h \in Games, NEW lost,
         game' = [game EXCEPT ![p] = h], queue' = queue, published' = published, early' = early,
         crossed' = crossed \cup lost,
         h.facts = game[p].facts, h.observed = game[p].observed, SameQuest(game[p], h),
         Sound(h), Tabled(h),
         \A t \in Topics \ lost : Here(h, t) => Here(game[p], t) /\ Held(h, t) = Held(game[p], t)
  PROVE  Converging'
<1>1. Rests(game[p], h, lost)
  BY DEF Rests
<1> QED BY <1>1, RestingConverges

\* The stage is left.
LEMMA LeaveConverges ==
  ASSUME ProgressAssumption, Inv, Converging, NEW p \in Players, Leave(p)
  PROVE  Converging'
<1> DEFINE g == game[p]
           table == [g.table EXCEPT ![g.stage] = g.memory]
           h == [g EXCEPT !.ready = FALSE, !.table = table]
<1>1. g \in Games /\ g.stage \in Scopes
  BY PhaseInt DEF Games, Scopes
<1>2. /\ game' = [game EXCEPT ![p] = h] /\ queue' = queue /\ published' = published /\ early' = early
      /\ crossed' = crossed \cup {}
  BY DEF Leave, Move
<1>3. /\ table \in [Scopes -> BitsType] /\ table[g.stage] = g.memory
      /\ \A st \in Scopes : st # g.stage => table[st] = g.table[st]
  BY <1>1 DEF Games
<1> HIDE DEF table
<1>4. /\ h \in Games /\ h.stage = g.stage /\ h.memory = g.memory /\ h.table = table /\ h.zone = g.zone
      /\ h.facts = g.facts /\ h.observed = g.observed /\ h.repaired = g.repaired /\ SameQuest(g, h)
  BY <1>1, <1>3 DEF Games, SameQuest
<1> HIDE DEF h
<1>5. \A st \in Scopes : Bits(h, st) = Bits(g, st)
  BY <1>3, <1>4 DEF Bits
<1>6. \A t \in Topics : (Here(h, t) <=> Here(g, t)) /\ Held(h, t) = Held(g, t)
  BY <1>4, <1>5, SameHeld
<1>7. Sound(h) /\ Tabled(h)
  <2>1. Sound(g)
    BY DEF Converging
  <2> QED BY <1>3, <1>4, <2>1 DEF Sound, Tabled
<1> QED BY <1>2, <1>4, <1>6, <1>7, MovingConverges

\* A stage is entered, with the memory that its table has.
LEMMA EnterConverges ==
  ASSUME ProgressAssumption, Inv, Converging, NEW p \in Players, Enter(p)
  PROVE  Converging'
<1> DEFINE g == game[p]
<1>1. PICK st \in Stages :
        /\ game' = [game EXCEPT ![p] = [g EXCEPT !.stage = st, !.ready = TRUE, !.repaired = FALSE,
                                                 !.memory = g.table[st], !.zone = {}]]
        /\ crossed' = crossed \cup {<<"zone", st, w>> : w \in Flags}
  BY DEF Enter
<1> DEFINE h == [g EXCEPT !.stage = st, !.ready = TRUE, !.repaired = FALSE,
                          !.memory = g.table[st], !.zone = {}]
           lost == {<<"zone", st, w>> : w \in Flags}
<1>2. ~g.ready /\ queue' = queue /\ published' = published /\ early' = early
  BY DEF Enter
<1>3. g \in Games /\ st \in Scopes /\ g.table[st] \in BitsType
  BY PhaseInt DEF Games, Scopes
<1>4. /\ h \in Games /\ h.stage = st /\ h.memory = g.table[st] /\ h.table = g.table /\ h.zone = {}
      /\ h.facts = g.facts /\ h.observed = g.observed /\ ~h.repaired /\ h.ready /\ SameQuest(g, h)
  BY <1>3 DEF Games, SameQuest
<1>5. game' = [game EXCEPT ![p] = h] /\ crossed' = crossed \cup lost
  BY <1>1
<1> HIDE DEF h
<1>6. \A x \in Scopes : Bits(h, x) = Bits(g, x)
  <2>1. g.table[g.stage] = g.memory
    BY <1>2 DEF Converging, Tabled
  <2> QED BY <1>4, <2>1 DEF Bits
<1>7. ASSUME NEW t \in Topics \ lost, Here(h, t)
      PROVE  Here(g, t) /\ Held(h, t) = Held(g, t)
  <2>1. ASSUME NEW x \in Stages, t = <<"keys", x, None>> PROVE Here(g, t) /\ Held(h, t) = Held(g, t)
    <3>1. Held(h, t) = Bits(h, x).keys /\ Held(g, t) = Bits(g, x).keys /\ Here(g, t)
      BY <2>1, HeldKeys
    <3> QED BY <1>6, <3>1 DEF Scopes
  <2>2. ASSUME NEW x \in Scopes, NEW y \in Flags, t = <<"flag", x, y>>
        PROVE  Here(g, t) /\ Held(h, t) = Held(g, t)
    <3>1. /\ Held(h, t) = IF y \in Bits(h, x).flags THEN 1 ELSE 0
          /\ Held(g, t) = IF y \in Bits(g, x).flags THEN 1 ELSE 0
          /\ Here(g, t)
      BY <2>2, HeldFlag
    <3> QED BY <1>6, <3>1
  <2>3. ASSUME NEW x \in Stages, NEW y \in Flags, t = <<"zone", x, y>> PROVE FALSE
    <3>1. x = st
      BY <1>4, <1>7, <2>3, HeldZone
    <3> QED BY <1>7, <2>3, <3>1
  <2> QED BY <1>7, <2>1, <2>2, <2>3, TopicForms
<1>8. Sound(h) /\ Tabled(h)
  BY <1>4 DEF Sound, Tabled
<1> HIDE DEF lost
<1> QED BY <1>2, <1>4, <1>5, <1>7, <1>8, MovingConverges

\* The stage starts again from its table.
LEMMA RestartConverges ==
  ASSUME ProgressAssumption, Inv, Converging, NEW p \in Players, Restart(p)
  PROVE  Converging'
<1> DEFINE g == game[p]
           st == g.stage
           h == [g EXCEPT !.memory = g.table[st], !.repaired = FALSE]
           lost == {<<"keys", st, None>>} \cup {<<"flag", st, w>> : w \in Flags}
<1>1. /\ g.ready /\ game' = [game EXCEPT ![p] = h] /\ crossed' = crossed \cup lost
      /\ queue' = queue /\ published' = published /\ early' = early
  BY DEF Restart, Move
<1>2. g \in Games /\ st \in Scopes /\ g.table[st] \in BitsType
  BY PhaseInt DEF Games, Scopes
<1>3. /\ h \in Games /\ h.stage = st /\ h.table = g.table /\ h.zone = g.zone
      /\ h.facts = g.facts /\ h.observed = g.observed /\ ~h.repaired /\ h.ready = g.ready /\ SameQuest(g, h)
  BY <1>2 DEF Games, SameQuest
<1> HIDE DEF h
<1>4. \A x \in Scopes : x # st => Bits(h, x) = Bits(g, x)
  BY <1>3 DEF Bits
<1>5. ASSUME NEW t \in Topics \ lost, Here(h, t)
      PROVE  Here(g, t) /\ Held(h, t) = Held(g, t)
  <2>1. ASSUME NEW x \in Stages, t = <<"keys", x, None>> PROVE Here(g, t) /\ Held(h, t) = Held(g, t)
    <3>1. Held(h, t) = Bits(h, x).keys /\ Held(g, t) = Bits(g, x).keys /\ Here(g, t)
      BY <2>1, HeldKeys
    <3>2. x # st
      BY <1>5, <2>1
    <3> QED BY <1>4, <3>1, <3>2 DEF Scopes
  <2>2. ASSUME NEW x \in Scopes, NEW y \in Flags, t = <<"flag", x, y>>
        PROVE  Here(g, t) /\ Held(h, t) = Held(g, t)
    <3>1. /\ Held(h, t) = IF y \in Bits(h, x).flags THEN 1 ELSE 0
          /\ Held(g, t) = IF y \in Bits(g, x).flags THEN 1 ELSE 0
          /\ Here(g, t)
      BY <2>2, HeldFlag
    <3>2. x # st
      BY <1>5, <2>2
    <3> QED BY <1>4, <3>1, <3>2
  <2>3. ASSUME NEW x \in Stages, NEW y \in Flags, t = <<"zone", x, y>>
        PROVE  Here(g, t) /\ Held(h, t) = Held(g, t)
    <3>1. /\ Held(h, t) = IF y \in h.zone THEN 1 ELSE 0
          /\ Held(g, t) = IF y \in g.zone THEN 1 ELSE 0
      BY <2>3, HeldZone
    <3>2. (Here(h, t) <=> h.stage = x) /\ (Here(g, t) <=> g.stage = x)
      BY <2>3, HeldZone
    <3> QED BY <1>3, <1>5, <3>1, <3>2
  <2> QED BY <1>5, <2>1, <2>2, <2>3, TopicForms
<1>6. Sound(h) /\ Tabled(h)
  BY <1>1, <1>3 DEF Sound, Tabled
<1> HIDE DEF lost, st
<1> QED BY <1>1, <1>3, <1>5, <1>6, MovingConverges

\* The memory gets what was observed.
LEMMA RepairConverges ==
  ASSUME ProgressAssumption, Inv, Converging, NEW p \in Players, Repair(p)
  PROVE  Converging'
<1> DEFINE g == game[p]
           bits == [g.memory EXCEPT !.items = @ \cup g.observed[g.stage]]
           h == [g EXCEPT !.repaired = TRUE, !.memory = bits]
<1>1. /\ g.ready /\ game' = [game EXCEPT ![p] = h] /\ crossed' = crossed \cup {}
      /\ queue' = queue /\ published' = published /\ early' = early
  BY DEF Repair
<1>2. g \in Games /\ g.memory \in BitsType /\ g.observed[g.stage] \subseteq Items
  BY PhaseInt DEF Games
<1>3. /\ bits \in BitsType /\ bits.items = g.memory.items \cup g.observed[g.stage]
      /\ bits.flags = g.memory.flags /\ bits.keys = g.memory.keys
  BY <1>2 DEF BitsType
<1> HIDE DEF bits
<1>4. /\ h \in Games /\ h.stage = g.stage /\ h.table = g.table /\ h.zone = g.zone /\ h.memory = bits
      /\ h.facts = g.facts /\ h.observed = g.observed /\ h.ready = g.ready /\ SameQuest(g, h)
  BY <1>2, <1>3 DEF Games, SameQuest
<1> HIDE DEF h
<1>5. \A x \in Scopes : Bits(h, x).keys = Bits(g, x).keys /\ Bits(h, x).flags = Bits(g, x).flags
  BY <1>3, <1>4 DEF Bits
<1>6. \A t \in Topics : (Here(h, t) <=> Here(g, t)) /\ Held(h, t) = Held(g, t)
  BY <1>4, <1>5, SameHeld
<1>7. Sound(h) /\ Tabled(h)
  BY <1>1, <1>3, <1>4 DEF Sound, Tabled
<1> QED BY <1>1, <1>4, <1>6, <1>7, MovingConverges

-----------------------------------------------------------------------------
\* Everybody starts alike.
LEMMA ConvergingInit == ASSUME ProgressAssumption, Init PROVE Converging
<1> PICK stage \in Stages : game = [p \in Players |-> NewGame(stage)]
  BY DEF Init
<1> DEFINE g == NewGame(stage)
<1>1. queue = [p \in Players |-> [q \in Players |-> <<>>]] /\ published = {} /\ crossed = {}
  BY DEF Init
<1>2. \A p, q \in Players : queue[q][p] = <<>>
  BY <1>1
<1>3. \A p \in Players : game[p] = g
  OBVIOUS
<1>4. \A p \in Players : Coming(p) = {}
  BY <1>2 DEF Coming, ToSet
<1>5. /\ g.ready /\ g.stage = stage /\ g.memory = NoBits /\ \A x \in Scopes : g.table[x] = NoBits
      /\ g.slot = None /\ g.first = {} /\ g.marks = {} /\ g.zone = {}
      /\ \A x \in Stages : g.observed[x] = {}
  BY DEF NewGame
<1> HIDE DEF g
<1>6. ObservedPhase(g) = -1
  <2>1. ObservedPhase(g) = Max({-1})
    <3>1. {-1} \cup g.marks \cup (IF g.slot = None THEN {} ELSE {ItemPhase(g.slot)})
            \cup {ItemPhase(k) + (IF g.slot = None THEN 1 ELSE 0) : k \in g.first} = {-1}
      BY <1>5
    <3> QED BY <3>1 DEF ObservedPhase
  <2>2. Max({-1}) \in {-1}
    <3> DEFINE lo == -1
               hi == -1
               T == {-1}
    <3>1. lo \in Int /\ hi \in Int /\ T \in SUBSET (lo .. hi) /\ T # {}
      OBVIOUS
    <3> HIDE DEF lo, hi, T
    <3>2. Max(T) \in T
      BY <3>1, GreatestOf
    <3> QED BY <3>2 DEF T
  <2> QED BY <2>1, <2>2
<1>7. FactsComing /\ PickupsComing
  BY <1>1 DEF FactsComing, PickupsComing
<1>8. OneValue
  <2>1. \A x \in Scopes : Bits(g, x) = NoBits
    BY <1>5 DEF Bits
  <2>2. NoBits.keys = 0 /\ NoBits.flags = {}
    BY DEF NoBits
  <2>3. ASSUME NEW t \in Topics PROVE Held(g, t) = 0
    <3>1. ASSUME NEW x \in Stages, t = <<"keys", x, None>> PROVE Held(g, t) = 0
      BY <2>1, <2>2, <3>1, HeldKeys DEF Scopes
    <3>2. ASSUME NEW x \in Scopes, NEW y \in Flags, t = <<"flag", x, y>> PROVE Held(g, t) = 0
      <4>1. Held(g, t) = IF y \in Bits(g, x).flags THEN 1 ELSE 0
        BY <3>2, HeldFlag
      <4> QED BY <2>1, <2>2, <4>1
    <3>3. ASSUME NEW x \in Stages, NEW y \in Flags, t = <<"zone", x, y>> PROVE Held(g, t) = 0
      <4>1. Held(g, t) = IF y \in g.zone THEN 1 ELSE 0
        BY <3>3, HeldZone
      <4> QED BY <1>5, <4>1
    <3> QED BY <3>1, <3>2, <3>3, TopicForms
  <2>4. \A t \in Topics, p \in Players : Gets(p, t, 0)
    BY <1>3, <1>4, <2>3 DEF Gets
  <2> QED BY <2>4 DEF OneValue
<1>9. OneQuest
  <2>1. \A p \in Players : Reaches(p, -1)
    BY <1>3, <1>4, <1>6 DEF Reaches
  <2> QED BY <2>1 DEF OneQuest
<1>10. Sound(g) /\ Tabled(g) /\ FirstsBehind(g)
  BY <1>5 DEF Sound, Tabled, FirstsBehind
<1>11. \A p \in Players : SlotStands(p)
  <2>1. (-1) % 2 # 0
    OBVIOUS
  <2> QED BY <1>3, <1>5, <1>6, <2>1 DEF SlotStands, ItemForPhase
<1>12. \A p, q \in Players : Followed(queue[q][p])
  <2>1. Len(<<>>) = 0
    OBVIOUS
  <2> QED BY <1>2, <2>1 DEF Followed
<1> QED BY <1>3, <1>7, <1>8, <1>9, <1>10, <1>11, <1>12 DEF Converging

\* Every step keeps everybody about to agree.
LEMMA ConvergingNext ==
  ASSUME ProgressAssumption, Inv, Converging, [Next]_vars
  PROVE  Converging'
<1>1. CASE Next
  <2>1. PICK p \in Players :
          \/ PickUp(p) \/ Toggle(p) \/ Operate(p) \/ GainKey(p) \/ SpendKey(p) \/ Achieve(p) \/ Donate(p)
          \/ HandIn(p) \/ Obtain(p)
          \/ \E q \in Players : Receive(p, q)
          \/ Leave(p) \/ Enter(p) \/ Restart(p) \/ Repair(p)
    BY <1>1 DEF Next
  <2>2. CASE \E q \in Players : Receive(p, q)
    BY <2>2, ReceiveConverges
  <2>3. CASE PickUp(p)
    BY <2>3, PickUpConverges
  <2>4. CASE Toggle(p)
    BY <2>4, ToggleConverges
  <2>5. CASE Operate(p)
    BY <2>5, OperateConverges
  <2>6. CASE GainKey(p) \/ SpendKey(p)
    BY <2>6, KeyConverges
  <2>7. CASE Achieve(p)
    BY <2>7, AchieveConverges
  <2>8. CASE Donate(p)
    BY <2>8, DonateConverges
  <2>9. CASE HandIn(p)
    BY <2>9, HandInConverges
  <2>10. CASE Obtain(p)
    BY <2>10, ObtainConverges
  <2>11. CASE Leave(p)
    BY <2>11, LeaveConverges
  <2>12. CASE Enter(p)
    BY <2>12, EnterConverges
  <2>13. CASE Restart(p)
    BY <2>13, RestartConverges
  <2>14. CASE Repair(p)
    BY <2>14, RepairConverges
  <2> QED BY <2>1, <2>2, <2>3, <2>4, <2>5, <2>6, <2>7, <2>8, <2>9, <2>10, <2>11, <2>12, <2>13, <2>14
<1>2. CASE UNCHANGED vars
  <2>1. game' = game /\ queue' = queue /\ published' = published /\ crossed' = crossed /\ early' = early
    BY <1>2 DEF vars
  <2> QED BY <2>1 DEF Converging, FactsComing, PickupsComing, OneValue, OneQuest, SlotStands, Gets,
                      Reaches, Coming
<1> QED BY <1>1, <1>2

\* With nothing on its way, what is shared agrees.
LEMMA Converged ==
  ASSUME ProgressAssumption, Inv, Converging
  PROVE  FactsConverge /\ PickupsKept /\ ValuesAgree /\ QuestConverges
<1>1. Empty => \A p \in Players : Coming(p) = {}
  BY DEF Empty, Coming, ToSet
<1>2. FactsConverge
  BY <1>1 DEF FactsConverge, Converging, FactsComing
<1>3. PickupsKept
  BY <1>1 DEF PickupsKept, Converging, PickupsComing, Sound
<1>4. ValuesAgree
  <2> SUFFICES ASSUME Empty, NEW p \in Players, NEW q \in Players, NEW t \in Topics \ crossed,
                      t[1] = "zone" => game[p].stage = t[2] /\ game[q].stage = t[2]
               PROVE  Value(game[p], t) = Value(game[q], t)
    BY DEF ValuesAgree
  <2>1. PICK v \in Int : \A r \in Players : Gets(r, t, v)
    BY DEF Converging, OneValue
  <2>2. Here(game[p], t) /\ Here(game[q], t)
    BY DEF Here
  <2>3. Held(game[p], t) = v /\ Held(game[q], t) = v
    BY <1>1, <2>1, <2>2 DEF Gets
  <2>4. t[1] \in {"keys", "flag", "zone"}
    BY DEF Topics
  <2>5. CASE t[1] = "keys"
    BY <2>3, <2>5 DEF Value, Held
  <2>6. CASE t[1] = "flag"
    BY <2>3, <2>6 DEF Value, Held
  <2>7. CASE t[1] = "zone"
    BY <2>3, <2>7 DEF Value, Held
  <2> QED BY <2>4, <2>5, <2>6, <2>7
<1>5. QuestConverges
  <2> SUFFICES ASSUME Empty, NEW p \in Players, NEW q \in Players
               PROVE  game[p].slot = game[q].slot /\ ObservedPhase(game[p]) = ObservedPhase(game[q])
    BY DEF QuestConverges
  <2>1. PICK n \in Int : \A r \in Players : Reaches(r, n)
    BY DEF Converging, OneQuest
  <2>2. \A r \in Players : ObservedPhase(game[r]) = n
    BY <1>1, <2>1 DEF Reaches
  <2>3. \A r \in Players : game[r].slot = ItemForPhase(ObservedPhase(game[r]))
    BY <1>1 DEF Converging, SlotStands
  <2> QED BY <2>2, <2>3
<1> QED BY <1>2, <1>3, <1>4, <1>5

\* The invariants of the messages hold in every state.
LEMMA ConvergingHolds == Spec => [](Inv /\ Converging)
<1>1. Init => Inv /\ Converging
  BY InitInv, ConvergingInit, ProgressAssumption
<1>2. Inv /\ Converging /\ [Next]_vars => Inv' /\ Converging'
  <2> SUFFICES ASSUME Inv, Converging, [Next]_vars PROVE Inv' /\ Converging'
    OBVIOUS
  <2>1. Inv'
    <3>1. CASE Next
      BY <3>1, StepKeeps, ProgressAssumption
    <3>2. CASE UNCHANGED vars
      BY <3>2 DEF vars, Inv, Types, NoLoop, SlotsBacked, NoEcho
    <3> QED BY <3>1, <3>2
  <2>2. Converging'
    BY ConvergingNext, ProgressAssumption
  <2> QED BY <2>1, <2>2
<1> QED BY <1>1, <1>2, PTL DEF Spec

\* consume_progression, with the hooks that publish: once every message is
\* delivered, everybody has the facts and the pick-ups anybody achieved, the
\* same keys and switches where no two changes crossed, and the same place in
\* the trade quest, whatever the order in which the streams were read.
THEOREM EverythingConverges == Spec => []ProgressConverges
<1>1. Inv /\ Converging => FactsConverge /\ PickupsKept /\ ValuesAgree /\ QuestConverges
  BY Converged, ProgressAssumption
<1>2. TypeOK /\ Inv /\ Converging => ProgressConverges
  BY <1>1 DEF ProgressConverges
<1> QED BY <1>2, ConvergingHolds, TypeCorrect, PTL
=============================================================================
