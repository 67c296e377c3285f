----------------------------- MODULE StoryFence -----------------------------
(***************************************************************************)
(* Story progress shared between players (game_adapter.cpp): the facts     *)
(* that must not reach a player in the middle of the scene they belong to, *)
(* and the queues and fences that hold them back until it is safe.         *)
(*                                                                         *)
(* Each player runs update() once per tick and handles the messages of the *)
(* others in between.  Links are the ordered streams of the transport.     *)
(* Facts are only ever set here; each stands for the bits that are treated *)
(* alike:                                                                  *)
(*   "start", "end"  Faron switches 72 and 71, the warp sequence           *)
(*   "warp"          a Faron warp-sequence event bit                       *)
(*   "day2", "day3"  Ordon day boundaries; the second closes the triggers  *)
(*                   of the old day at once                                *)
(*   "wagon"         the end of the wagon escort, M_035                    *)
(*   "room"          a switch that waits until its room is initialised     *)
(*   "dark"          a twilight clear                                      *)
(***************************************************************************)
EXTENDS Integers, Sequences, FiniteSets, SequencesExt

CONSTANTS
    Players,
    Facts,        \* a subset of AllFacts
    Stages,       \* a subset of AllStages
    HoldTicks,    \* faronDayBroadcastHoldTicks_, 60
    SafeTicks,    \* ticks an Ordon reload has to be safe, 3
    MaxLocal, MaxMoves,   \* bounds on what players do
    MaxSequence,          \* the same for facts of the Faron sequence
    MaxFaults             \* bound on lost states and departures together

AllFacts == {"start", "warp", "end", "day2", "day3", "wagon", "room", "dark"}
AllStages == {"ordon", "F_SP108", "twilight", "R_SP107", "F_SP104", "field"}

ASSUME FenceAssumption ==
    /\ Facts \subseteq AllFacts /\ Stages \subseteq AllStages
    /\ {HoldTicks, SafeTicks, MaxLocal, MaxMoves, MaxSequence, MaxFaults} \subseteq Nat

VARIABLES
    player,      \* what a player's adapter and save memory hold
    link,        \* messages on the way from one player to another
    present,     \* members of the room
    published,   \* history: facts some player has set itself
    locals, moves, stales

vars == <<player, link, present, published, locals, moves, stales>>

FaronFacts == {"start", "warp", "end"}
DayFacts == {"day2", "day3"}
StageDependent(f) == f \in {"start", "end", "room", "dark"}
OrdonStages == {"ordon", "F_SP104"}

\* A peer's progression_state as this player last heard it.
NoState == [faron |-> FALSE, cage |-> FALSE, unsafe |-> FALSE, fresh |-> FALSE]
StateOf(r) == [faron |-> r.faron, cage |-> r.cage,
               unsafe |-> r.stage \in OrdonStages /\ ~r.ready, fresh |-> TRUE]
StateMessage(r) == [kind |-> "state", state |-> StateOf(r)]
FactMessage(f) == [kind |-> "fact", fact |-> f]

NewPlayer(stage) ==
    [has |-> {}, stage |-> stage, ready |-> TRUE, settled |-> FALSE,
     escort |-> stage = "field" /\ "wagon" \in Facts,
     faron |-> FALSE, cage |-> FALSE, hold |-> 0,
     states |-> [q \in Players |-> NoState],
     pending |-> <<>>, localQueue |-> <<>>, faronQueue |-> <<>>,
     storyQueue |-> {}, switchQueue |-> {}, dark |-> 0, ordon |-> {}, safe |-> 0,
     left |-> {}]   \* history: boundaries dropped by leaving Ordon

Init ==
    /\ \E stages \in [Players -> Stages] : player = [p \in Players |-> NewPlayer(stages[p])]
    /\ link = [p \in Players |-> [q \in Players |-> <<>>]]
    /\ present = Players
    /\ published = {}
    /\ locals = 0 /\ moves = 0 /\ stales = 0

-----------------------------------------------------------------------------
(***************************************************************************)
(* Handlers work on a pair of the player's record r and the messages out   *)
(* it broadcasts.                                                          *)
(***************************************************************************)
Send(s, m) == [s EXCEPT !.out = Append(@, m)]

DeferFaronOwn(r) == r.faron

\* should_defer_faron_warp_sequence
DeferFaron(r) ==
    r.faron \/ \E q \in Players : r.states[q].fresh /\ r.states[q].faron

\* localFaronCageSequenceActive_ or has_active_faron_cage_sequence_peer
CageActive(r) ==
    r.cage \/ \E q \in Players : r.states[q].fresh /\ r.states[q].cage

\* set_local_faron_warp_sequence_active
SetFaron(s, active) ==
    IF s.r.faron = active THEN s
    ELSE LET t == [s EXCEPT !.r.faron = active] IN Send(t, StateMessage(t.r))

Set(s, f) == [s EXCEPT !.r.has = @ \cup {f}]

(***************************************************************************)
(* publish_local: completion goes out at once, after the state that        *)
(* releases the fences; the rest of the sequence waits behind the fence,   *)
(* a day boundary behind the hold.                                         *)
(***************************************************************************)
Publish(s, f) ==
    LET begun == IF f = "start" THEN SetFaron(s, TRUE) ELSE s
    IN  IF f = "end" THEN Send(SetFaron(s, FALSE), FactMessage(f))
        ELSE IF f \in FaronFacts /\ DeferFaron(begun.r) THEN
                [begun EXCEPT !.r.localQueue = Append(@, f)]
        ELSE IF f \in DayFacts THEN [begun EXCEPT !.r.localQueue = Append(@, f),
                                             !.r.hold = HoldTicks]
        ELSE Send(begun, FactMessage(f))

\* apply_switch_bit
ApplySwitch(s, f) ==
    LET t == IF f = "end" THEN SetFaron(s, FALSE) ELSE s
    IN  CASE f \in FaronFacts /\ DeferFaron(t.r) ->
                [t EXCEPT !.r.faronQueue = Append(@, f)]
          [] f = "room" /\ ~(t.r.stage = "F_SP104" /\ t.r.settled) ->
                [t EXCEPT !.r.switchQueue = @ \cup {f}]
          [] OTHER -> Set(t, f)

\* apply_dark_clear: the region's own twilight waits for the local completion,
\* the castle for the player to leave it.
ApplyDark(s) ==
    IF "dark" \in s.r.has THEN [s EXCEPT !.r.dark = 0]
    ELSE IF s.r.stage = "R_SP107" THEN [s EXCEPT !.r.dark = 2]
    ELSE IF s.r.stage = "twilight" THEN [s EXCEPT !.r.dark = 1]
    ELSE Set([s EXCEPT !.r.dark = 0], "dark")

(***************************************************************************)
(* apply_event_bit: the escort, the fence, a day boundary in a cutscene of *)
(* F_SP108, a day boundary in Ordon (set with the reload of the room).     *)
(***************************************************************************)
ApplyEvent(s, f) ==
    IF f = "wagon" /\ s.r.escort /\ f \notin s.r.has THEN
            [s EXCEPT !.r.storyQueue = @ \cup {f}]
    ELSE IF f \in FaronFacts /\ DeferFaron(s.r) THEN
            [s EXCEPT !.r.faronQueue = Append(@, f)]
    ELSE IF f \in s.r.has THEN s
    ELSE IF f \in DayFacts /\ s.r.stage = "F_SP108" /\ ~s.r.ready THEN
            [s EXCEPT !.r.storyQueue = @ \cup {f}]
    ELSE IF f \in DayFacts /\ s.r.stage \in OrdonStages THEN
            [s EXCEPT !.r.has = IF f = "day3" THEN @ \cup {f} ELSE @,
                      !.r.ordon = @ \cup {f},
                      !.r.safe = IF f \in s.r.ordon THEN @ ELSE 0]
    ELSE Set(s, f)

ConsumeFact(s, f) ==
    CASE f = "dark" -> ApplyDark(s)
      [] f \in {"start", "end", "room"} -> ApplySwitch(s, f)
      [] OTHER -> ApplyEvent(s, f)

\* The router: what depends on the stage waits for it.
RouteFact(s, f) ==
    IF StageDependent(f) /\ ~s.r.ready
    THEN [s EXCEPT !.r.pending = Append(@, f)]
    ELSE ConsumeFact(s, f)

FlushRouter(s) ==
    FoldLeft(RouteFact, [s EXCEPT !.r.pending = <<>>], s.r.pending)

-----------------------------------------------------------------------------
\* update_local_faron_cage_sequence_state
UpdateCage(s) ==
    LET active == s.r.stage = "F_SP108" /\ ~s.r.ready
        t == [s EXCEPT !.r.cage = active]
    IN  IF s.r.cage = active THEN s ELSE Send(t, StateMessage(t.r))

Elapse(s) == [s EXCEPT !.r.hold = IF @ > 0 THEN @ - 1 ELSE 0]

(***************************************************************************)
(* flush_story_messages: retained day boundaries, then the fenced          *)
(* sequence, then this player's own broadcasts.                            *)
(***************************************************************************)
FlushRetainedClears(s) ==
    IF CageActive(s.r) \/ s.r.hold # 0 THEN s
    ELSE LET kept == {f \in s.r.storyQueue : f = "wagon" /\ s.r.escort /\ f \notin s.r.has}
             t == FoldLeft(ApplyEvent, s, SetToSeq(s.r.storyQueue \ kept))
         IN  [t EXCEPT !.r.storyQueue = {}]

FlushRetained(s) ==
    IF CageActive(s.r) \/ s.r.hold # 0 THEN s
    ELSE LET queued == s.r.storyQueue
             kept == {f \in queued : f = "wagon" /\ s.r.escort /\ f \notin s.r.has}
         IN  FoldLeft(ApplyEvent, [s EXCEPT !.r.storyQueue = kept],
                      SetToSeq(queued \ kept))

FlushFaron(s) ==
    IF DeferFaron(s.r) THEN s
    ELSE LET waits(f) == StageDependent(f) /\ ~s.r.ready
             Now(f) == ~waits(f)
         IN  FoldLeft(ConsumeFact, [s EXCEPT !.r.faronQueue = SelectSeq(@, waits)],
                      SelectSeq(s.r.faronQueue, Now))

FlushLocal(s) ==
    LET held(f) == \/ f \in DayFacts /\ (s.r.hold # 0 \/ CageActive(s.r))
                   \/ f \in FaronFacts /\ DeferFaron(s.r)
        free(f) == ~held(f)
        SendFact(t, f) == Send(t, FactMessage(f))
    IN  FoldLeft(SendFact, [s EXCEPT !.r.localQueue = SelectSeq(@, held)],
                 SelectSeq(s.r.localQueue, free))

FlushStoryMessages(s) == FlushLocal(FlushFaron(FlushRetained(s)))

\* The room counts as initialised after some ticks on the same ready stage.
Settle(s) == [s EXCEPT !.r.settled = s.r.ready]

\* flush_deferred_switches and flush_pending_dark_clears
FlushSwitches(s) ==
    LET t == IF s.r.stage = "F_SP104" /\ s.r.settled
             THEN [s EXCEPT !.r.has = @ \cup s.r.switchQueue, !.r.switchQueue = {}]
             ELSE s
    IN  IF "dark" \in t.r.has THEN [t EXCEPT !.r.dark = 0]
        ELSE IF t.r.dark = 2 /\ t.r.stage # "R_SP107" THEN ApplyDark(t)
        ELSE t

(***************************************************************************)
(* flush_story_events, the Ordon part: gone when the player has left       *)
(* Ordon; otherwise set, with a reload, after some ticks in which no peer  *)
(* was in a cutscene there.                                                *)
(***************************************************************************)
PeerUnsafe(r) == \E q \in Players : r.states[q].fresh /\ r.states[q].unsafe

FlushStoryEvents(s) ==
    IF s.r.ordon = {} THEN s
    ELSE IF s.r.stage \notin OrdonStages THEN [s EXCEPT !.r.ordon = {}, !.r.safe = 0,
                                                         !.r.left = @ \cup (s.r.ordon \ s.r.has)]
    ELSE IF PeerUnsafe(s.r) THEN [s EXCEPT !.r.safe = 0]
    ELSE IF s.r.safe + 1 < SafeTicks THEN [s EXCEPT !.r.safe = @ + 1]
    ELSE [s EXCEPT !.r.has = @ \cup s.r.ordon, !.r.ordon = {}, !.r.safe = 0,
                   !.r.ready = FALSE]

\* send_progression_state, every 15 ticks.
Advertise(s) == Send(s, StateMessage(s.r))

\* The part of update() that only runs on a ready stage.
OnReadyStage(s) ==
    IF s.r.ready THEN FlushStoryEvents(FlushSwitches(Settle(s)))
    ELSE [s EXCEPT !.r.settled = FALSE]

UpdatePlayer(s) == OnReadyStage(FlushStoryMessages(Elapse(UpdateCage(FlushRouter(s)))))

-----------------------------------------------------------------------------
\* What a handler of p broadcasts goes on the link to every other member.
Perform(p, s) ==
    /\ player' = [player EXCEPT ![p] = s.r]
    /\ link' = [link EXCEPT ![p] = [q \in Players |->
                    IF q \in present \ {p} THEN link[p][q] \o s.out ELSE link[p][q]]]

Quiet(p) == [r |-> player[p], out |-> <<>>]

Receive(p, q) ==
    /\ p \in present /\ link[q][p] # <<>>
    /\ LET m == Head(link[q][p])
           s == IF m.kind = "state"
                THEN [Quiet(p) EXCEPT !.r.states[q] = m.state]
                ELSE RouteFact(Quiet(p), m.fact)
       IN  /\ player' = [player EXCEPT ![p] = s.r]
           /\ link' = [a \in Players |-> [b \in Players |->
                        CASE a = q /\ b = p -> Tail(link[q][p])
                          [] a = p /\ b \in present \ {p} -> link[p][b] \o s.out
                          [] OTHER -> link[a][b]]]
    /\ UNCHANGED <<present, published, locals, moves, stales>>

\* One tick of p; the periodic state only goes out when the links are idle and
\* it would tell someone something.
Ticked(p) ==
    LET s == UpdatePlayer(Quiet(p))
        idle == \A q \in present : link[p][q] = <<>>
        stale == \E q \in present \ {p} : player[q].states[p] # StateOf(s.r)
    IN  IF idle /\ s.out = <<>> /\ stale THEN Advertise(s) ELSE s

Update(p) ==
    /\ p \in present
    /\ Perform(p, Ticked(p))
    /\ UNCHANGED <<present, published, locals, moves, stales>>

(***************************************************************************)
(* The game of p sets a fact; the hooks call notify_local_event_bit, which *)
(* cancels what has been reached anyway, and publish_local.                *)
(***************************************************************************)
LocalFact(p, f) ==
    /\ p \in present /\ f \notin player[p].has
    /\ locals < IF f \in FaronFacts THEN MaxSequence ELSE MaxLocal
    /\ f \in {"start", "warp", "end"} => player[p].stage = "F_SP108"
    /\ f \in DayFacts => player[p].stage \in OrdonStages \cup {"F_SP108"}
    /\ f = "wagon" => player[p].escort
    /\ f = "dark" => player[p].stage \in {"twilight", "R_SP107"}
    /\ f = "end" => "start" \in player[p].has
    /\ f = "room" => player[p].stage = "F_SP104"
    /\ locals' = locals + 1
    /\ published' = published \cup {f}
    /\ LET r == [player[p] EXCEPT !.has = @ \cup {f},
                     !.ordon = @ \ {f},
                     !.escort = @ /\ f # "wagon",
                     !.storyQueue = IF f = "wagon" THEN @ \ {f} ELSE @]
       IN  Perform(p, Publish([r |-> r, out |-> <<>>], f))
    /\ UNCHANGED <<present, moves, stales>>

\* The player travels, or a cutscene begins or ends; an escort may begin.
Move(p, stage, ready) ==
    /\ p \in present /\ <<stage, ready>> # <<player[p].stage, player[p].ready>>
    /\ ready \/ moves < MaxMoves
    /\ moves' = IF stage = player[p].stage /\ ready THEN moves ELSE moves + 1
    /\ moves' <= MaxMoves
    /\ player' = [player EXCEPT ![p].stage = stage, ![p].ready = ready,
                     ![p].settled = @ /\ stage = player[p].stage /\ ready,
                     ![p].escort = @ \/ (stage = "field" /\ "wagon" \in Facts \ player[p].has)]
    /\ UNCHANGED <<link, present, published, locals, stales>>

Faults == stales + Cardinality(Players \ present)

\* A state is not refreshed for 90 ticks.
GrowStale(p, q) ==
    /\ Faults < MaxFaults /\ player[p].states[q].fresh
    /\ player[p].states[q] # [NoState EXCEPT !.fresh = TRUE]   \* it matters
    /\ stales' = stales + 1
    /\ player' = [player EXCEPT ![p].states[q].fresh = FALSE]
    /\ UNCHANGED <<link, present, published, locals, moves>>

\* peer_left at every other member.
Depart(q) ==
    /\ q \in present /\ Faults < MaxFaults
    /\ present' = present \ {q}
    /\ player' = [p \in Players |-> [player[p] EXCEPT !.states[q] = NoState]]
    /\ link' = [a \in Players |-> [b \in Players |->
                    IF q \in {a, b} THEN <<>> ELSE link[a][b]]]
    /\ UNCHANGED <<published, locals, moves, stales>>

Next ==
    \/ \E p \in Players : Update(p) \/ Depart(p)
    \/ \E p, q \in Players : Receive(p, q) \/ GrowStale(p, q)
    \/ \E p \in Players, f \in Facts : LocalFact(p, f)
    \/ \E p \in Players, stage \in Stages, ready \in BOOLEAN : Move(p, stage, ready)

Spec == Init /\ [][Next]_vars

-----------------------------------------------------------------------------
TypeOK ==
    /\ present \subseteq Players /\ published \subseteq Facts
    /\ \A p \in Players :
          LET r == player[p]
          IN  /\ r.has \cup r.storyQueue \cup r.switchQueue \cup r.ordon \cup r.left
                    \subseteq Facts
              /\ Range(r.pending) \cup Range(r.localQueue) \cup Range(r.faronQueue)
                    \subseteq Facts
              /\ r.stage \in Stages /\ r.hold \in 0..HoldTicks /\ r.safe \in 0..SafeTicks
              /\ r.dark \in 0..2

Waiting(r) == Range(r.pending) \cup Range(r.localQueue) \cup Range(r.faronQueue)
              \cup r.storyQueue \cup r.switchQueue \cup r.ordon
              \cup (IF r.dark # 0 THEN {"dark"} ELSE {})

(***************************************************************************)
(* Through fences, holds, cutscenes and travel no fact goes missing: once  *)
(* every link and every queue is empty, every player has every fact that   *)
(* any player has set.  The one exception is a day boundary that waited    *)
(* for its reload when the player left Ordon (flush_story_events clears    *)
(* pendingOrdonEventBits_ without setting them).                           *)
(***************************************************************************)
StoryConverges ==
    (/\ present = Players
     /\ \A p, q \in Players : link[p][q] = <<>>
     /\ \A p \in Players : Waiting(player[p]) = {})
        => \A p \in Players : published \subseteq player[p].has \cup player[p].left

(***************************************************************************)
(* Nothing of the Faron warp sequence crosses a fence a player knows of:   *)
(* while it is in the sequence, or has heard that a peer is                *)
(* (should_defer_faron_warp_sequence), no switch or event bit of it is     *)
(* applied from the network, wherever it waited before, and none but the   *)
(* completion goes out.                                                    *)
(***************************************************************************)
Fenced(r) == \/ r.faron
             \/ \E q \in Players : r.states[q].fresh /\ r.states[q].faron
NewlySent(p, q) == Range(SubSeq(link'[p][q], Len(link[p][q]) + 1, Len(link'[p][q])))
FenceHolds ==
    [][\A p \in Players : Fenced(player'[p]) =>
          /\ locals' = locals =>
                player'[p].has \cap FaronFacts = player[p].has \cap FaronFacts
          /\ \A q \in Players :
                NewlySent(p, q) \cap {FactMessage("start"), FactMessage("warp")} = {}]_vars

(***************************************************************************)
(* A player's own day boundary goes out only when no boundary from a peer  *)
(* is still retained here: "Final applies retained inbound day-boundary    *)
(* events before releasing the corresponding outbound broadcasts".         *)
(***************************************************************************)
InboundFirst ==
    [][\A p \in Players :
          DayFacts \cap (Range(player[p].localQueue) \ Range(player'[p].localQueue)) # {}
             => player'[p].storyQueue \cap DayFacts = {}]_vars

(***************************************************************************)
(* Fences come down: when everyone present has left the sequence and       *)
(* stands on a ready stage, and no tick and no message changes anything    *)
(* any more, no fact still waits behind a fence or a hold, also after a    *)
(* participant left the room with its fence up.  What waits for the end of *)
(* an escort, for a room or for a twilight may stay.                       *)
(***************************************************************************)
Calm == \A p \in present : player[p].ready /\ ~player[p].faron
AtRest == /\ \A p, q \in Players : link[p][q] = <<>>
          /\ \A p \in present : Ticked(p) = Quiet(p)
FencesFall ==
    Calm /\ AtRest => \A p \in present :
                         Waiting(player[p]) \subseteq {"wagon", "room", "dark"}

\* No fact is lost between the players, and none waits for a fence that is down.
StorySafety == TypeOK /\ StoryConverges /\ FencesFall

\* What a step may not do: let the warp sequence through a fence, or a player's
\* own day boundary past one that waits here.
FenceSteps == FenceHolds /\ InboundFirst
=============================================================================
