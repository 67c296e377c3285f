---------------------------- MODULE SaveRecovery ----------------------------
(***************************************************************************)
(* Progress received from a peer, from the protocol router to the save     *)
(* memory of the game, and the journal that repairs a reloaded file        *)
(* (protocol_router.cpp, save_recovery.hpp and the save lifecycle of       *)
(* game_adapter.cpp).                                                      *)
(*                                                                         *)
(* One player.  The peer's messages are inputs.  A tick of the mod begins  *)
(* with the restoration of a reloaded file, then routes the events that    *)
(* have arrived, then flushes the router and the story queues; between     *)
(* ticks the game runs: the player acts, saves, quits to the title, loads. *)
(*                                                                         *)
(* A fact is an event bit, a stage switch (0 or 1 both) or a key count.    *)
(* StoryEvents are the event bits that wait for a reload of the room while *)
(* the player stands in the area they change.  The 60 seconds in which a   *)
(* journal accepts updates are a flag that closes at any time.             *)
(***************************************************************************)
EXTENDS Integers, Sequences, FiniteSets, SequencesExt

CONSTANTS
    Events,            \* event bits, routed at once
    StoryEvents,       \* those of Events that may wait for a room reload
    Switches,          \* stage switches, routed only on a ready stage
    Counters,          \* key counts, routed only on a ready stage
    Files,             \* save files (card name and slot)
    NoFile, None,      \* model values
    MaxCount,          \* bound on a key count
    MaxPending,        \* kMaxPendingMessages, 512
    MaxInbox,          \* kMaxTitleMessages, 32768
    MaxRecoveryFacts,  \* kMaxRecoveryFacts
    MaxReceived, MaxSaves, MaxScenes, MaxLocal   \* bounds on the environment

Facts == Events \cup Switches \cup Counters
Values == 0..MaxCount
ValuesOf(f) == IF f \in Counters THEN Values ELSE {0, 1}

ASSUME RecoveryAssumption ==
    /\ StoryEvents \subseteq Events
    /\ Events \cap Switches = {} /\ Events \cap Counters = {}
    /\ Switches \cap Counters = {}
    /\ NoFile \notin Files /\ None \notin Values
    /\ MaxCount \in Nat \ {0}
    /\ {MaxPending, MaxInbox, MaxRecoveryFacts, MaxReceived, MaxSaves,
        MaxScenes, MaxLocal} \subseteq Nat

VARIABLES
    scene,      \* "title", "loading", "busy" (cutscene, transition), "ready"
    area,       \* the player is where a story event needs a room reload
    phase,      \* "play" between ticks, "route" inside one
    disk,       \* the files on the memory card
    active,     \* activeSaveName_ and activeSaveSlot_
    policy,     \* saveRecoveryEnabled_ and saveRecoveryPolicyReady_
    syncFlags,  \* the room's setting at this point of the stream
    adapter,    \* what messages change: see AdapterType
    pending,    \* the router's deferral queue
    fatal,      \* the router's fatalError_
    saves, received, scenes, locals    \* bounds used up

vars == <<scene, area, phase, disk, active, policy, syncFlags, adapter, pending,
          fatal, saves, received, scenes, locals>>

Blank == [f \in Facts |-> 0]
NoFacts == [f \in Facts |-> None]
NotHeld == [z \in StoryEvents |-> NoFile]

\* The journal, SaveRecoveryJournal with its SaveRecoveryDelta.
NoJournal == [id |-> 0, file |-> NoFile, open |-> FALSE, restore |-> FALSE,
              base |-> Blank, changed |-> NoFacts, inbox |-> <<>>]
HasJournal(a) == a.journal.id # 0

(***************************************************************************)
(* The adapter.  native is the save memory, held the file for which a      *)
(* story event waits, replay recoveryReplayIntents_.  Two histories:       *)
(* accepted is the value last accepted from the peer for each fact since   *)
(* the journal's save, uncovered the facts changed since then by what the  *)
(* journal does not cover: the player, or a message received before the    *)
(* save or after the window.                                               *)
(***************************************************************************)
Drop(a) == [a EXCEPT !.journal = NoJournal, !.accepted = NoFacts, !.uncovered = {}]

InJournal(a, m) == HasJournal(a) /\ m.stamp = a.journal.id

\* The conditions shared by retention and recording.
Covered(a, m) == policy.enabled /\ policy.ready /\ InJournal(a, m)
                 /\ a.journal.file = active

\* SaveRecoveryDelta: a value that equals the saved one is no change.
ObserveIntent(a, f, v) ==
    LET changed == [a.journal.changed EXCEPT
                       ![f] = IF v = a.journal.base[f] THEN None ELSE v]
    IN  IF Cardinality({g \in Facts : changed[g] # None}) > MaxRecoveryFacts
        THEN Drop(a)
        ELSE [a EXCEPT !.journal.changed = changed]

\* make_recovery_snapshot: the save memory, event bits, switches and counts alike
Snapshot(a) == a.native

\* observe(): every fact that differs before and after.
Observe(a, before) ==
    LET after == Snapshot(a)
        changed == [f \in Facts |->
                      IF before[f] = after[f] THEN a.journal.changed[f]
                      ELSE IF after[f] = a.journal.base[f] THEN None
                      ELSE after[f]]
    IN  IF Cardinality({g \in Facts : changed[g] # None}) > MaxRecoveryFacts
        THEN Drop(a)
        ELSE [a EXCEPT !.journal.changed = changed]

ApplicableAlways(a) == {f \in Facts : a.journal.changed[f] # None}

\* The facts a reloaded file still has as they were saved.
Applicable(a) ==
    {f \in Facts : /\ a.journal.changed[f] # None
                   /\ a.native[f] = a.journal.base[f]
                   /\ a.native[f] # a.journal.changed[f]}

SetNative(a, f, v) == [a EXCEPT !.native[f] = v]

\* apply_event_bit, apply_switch_bit and the absolute counts.
Outcome(a, f, v) ==
    IF f \notin Events \/ v = 0 THEN "applied"
    ELSE IF a.native[f] = 1 THEN "ignored"
    ELSE IF f \in StoryEvents /\ area THEN "retained"
    ELSE "applied"

Apply(a, f, v) ==
    CASE Outcome(a, f, v) = "ignored" -> a
      [] Outcome(a, f, v) = "retained" -> [a EXCEPT !.held[f] = active]
      [] f \in StoryEvents /\ v = 0 ->
            [SetNative(a, f, 0) EXCEPT !.held[f] = NoFile]
      [] OTHER -> SetNative(a, f, v)

(***************************************************************************)
(* consume: apply, observe what changed, note the intent of a bit even     *)
(* when it has to wait.  During a replay the observation is made once, at  *)
(* its end, and intents are collected.                                     *)
(***************************************************************************)
Consume(a, m, replaying) ==
    LET outcome == Outcome(a, m.fact, m.value)
        applied == Apply(a, m.fact, m.value)
        record == Covered(a, m) /\ scene # "title"
        observed == IF record /\ ~replaying /\ outcome = "applied"
                    THEN Observe(applied, Snapshot(a)) ELSE applied
        intended == IF /\ record /\ outcome \in {"applied", "retained"}
                       /\ m.fact \notin Counters /\ HasJournal(observed)
                    THEN [ObserveIntent(observed, m.fact, m.value) EXCEPT
                             !.replay[m.fact] = IF replaying THEN m.value ELSE @]
                    ELSE observed
    IN  IF ~record THEN [intended EXCEPT !.uncovered = @ \cup {m.fact}]
        ELSE IF outcome = "ignored" \/ ~HasJournal(intended) THEN intended
        ELSE [intended EXCEPT !.accepted[m.fact] = m.value]

\* retain_for_save_recovery
Retains(a, m) == Covered(a, m) /\ syncFlags
                 /\ (scene = "title" \/ a.journal.restore)

Retain(a, m) ==
    IF Len(a.journal.inbox) >= MaxInbox
    THEN Drop(a)
    ELSE [a EXCEPT !.journal.inbox = Append(@, m),
                   !.accepted[m.fact] = m.value]

StageDependent(m) == m.fact \notin Events
StageReady == scene = "ready"

(***************************************************************************)
(* route_message, as a function of the adapter and the queue it fills:     *)
(* the settings of the message's place in the stream, retention, stage     *)
(* readiness, consumption.                                                 *)
(***************************************************************************)
RouteMessage(r, m) ==
    IF ~r.sync THEN r
    ELSE IF Retains(r.adapter, m) THEN [r EXCEPT !.adapter = Retain(@, m)]
    ELSE IF StageDependent(m) /\ ~StageReady THEN [r EXCEPT !.queue = Append(@, m)]
    ELSE [r EXCEPT !.adapter = Consume(@, m, FALSE)]

\* enqueue: one message too many is a fatal error, and is not queued.
Overflows(queue) == Len(queue) > MaxPending

(***************************************************************************)
(* restore_saved_progress_if_ready: the journal's facts that the file      *)
(* still has as saved, then the messages kept at the title, in order; what *)
(* they did is recorded, and a value still waiting wins over one applied.  *)
(***************************************************************************)
CanRestore == policy.enabled /\ HasJournal(adapter) /\ adapter.journal.restore
              /\ StageReady

\* apply_save_snapshot of a replay: every fact as if it had just been received.
ApplySnapshot(a, facts, value) ==
    LET Fact(b, f) == Apply(b, f, value[f])
    IN  FoldLeft(Fact, a, SetToSeq(facts))

RestoreChanges(a) == ApplySnapshot(a, Applicable(a), a.journal.changed)

Replay(a, inbox) ==
    LET start == [a EXCEPT !.replay = NoFacts]
        One(b, m) == Consume(b, m, TRUE)
        after == FoldLeft(One, start, inbox)
        observed == IF inbox # <<>> /\ HasJournal(after)
                    THEN Observe(after, Snapshot(a)) ELSE after
        Again(b, f) == IF HasJournal(b) THEN ObserveIntent(b, f, after.replay[f]) ELSE b
    IN  [FoldLeft(Again, observed, SetToSeq({f \in Facts : after.replay[f] # None}))
            EXCEPT !.replay = NoFacts]

Restored(a) ==
    LET ready == [a EXCEPT !.journal.restore = FALSE, !.journal.inbox = <<>>]
    IN  IF a.journal.file # active
        THEN [a EXCEPT !.journal.restore = FALSE]
        ELSE Replay(RestoreChanges(ready), a.journal.inbox)

-----------------------------------------------------------------------------
Init ==
    /\ scene = "title" /\ area = FALSE /\ phase = "play"
    /\ disk = [f \in Files |-> Blank]
    /\ active = NoFile
    /\ policy = [enabled |-> TRUE, ready |-> TRUE]
    /\ syncFlags = TRUE
    /\ adapter = [native |-> Blank, held |-> NotHeld, journal |-> NoJournal,
                  replay |-> NoFacts, accepted |-> NoFacts, uncovered |-> {}]
    /\ pending = <<>> /\ fatal = FALSE
    /\ saves = 0 /\ received = 0 /\ scenes = 0 /\ locals = 0

\* set_save_recovery_policy: the room's setting, when it is known.
SetPolicy(ready, enabled) ==
    /\ phase = "play" /\ scenes < MaxScenes
    /\ scenes' = scenes + 1
    /\ policy' = [ready |-> ready,
                  enabled |-> IF ready THEN enabled ELSE policy.enabled]
    /\ policy' # policy
    /\ adapter' = IF ready /\ ~enabled THEN Drop(adapter) ELSE adapter
    /\ UNCHANGED <<scene, area, phase, disk, active, syncFlags, pending, fatal,
                   saves, received, locals>>

\* The part of the tick before any event is routed.
BeginTick ==
    /\ phase = "play" /\ ~fatal
    /\ phase' = "route"
    /\ adapter' = IF CanRestore THEN Restored(adapter) ELSE adapter
    /\ UNCHANGED <<scene, area, disk, active, policy, syncFlags, pending, fatal,
                   saves, received, scenes, locals>>

(***************************************************************************)
(* route: a message of the peer, stamped on arrival.  A full queue is a    *)
(* fatal error, on which the application ends the session.                 *)
(***************************************************************************)
Route(f, v) ==
    /\ phase = "route" /\ received < MaxReceived
    /\ received' = received + 1
    /\ LET m == [fact |-> f, value |-> v,
                 stamp |-> IF adapter.journal.open THEN adapter.journal.id ELSE 0]
           r == RouteMessage([adapter |-> adapter, queue |-> pending,
                              sync |-> syncFlags], m)
       IN  /\ fatal' = Overflows(r.queue)
           /\ pending' = IF fatal' THEN pending ELSE r.queue
           /\ adapter' = r.adapter
    /\ UNCHANGED <<scene, area, phase, disk, active, policy, syncFlags, saves,
                   scenes, locals>>

\* clear_disabled_sync_flags_state
ClearDisabled(a) ==
    [a EXCEPT !.held = NotHeld,
              !.uncovered = @ \cup {z \in StoryEvents : a.held[z] # NoFile}]

(***************************************************************************)
(* room_settings in the stream.  Disabling clears the queues of the        *)
(* adapter at once, not the journal.                                       *)
(***************************************************************************)
RouteSettings ==
    /\ phase = "route" /\ received < MaxReceived
    /\ received' = received + 1
    /\ syncFlags' = ~syncFlags
    /\ adapter' = IF syncFlags THEN ClearDisabled(adapter) ELSE adapter
    /\ UNCHANGED <<scene, area, phase, disk, active, policy, pending, fatal, saves,
                   scenes, locals>>

\* flush: one pass over the queue; what is still not ready goes to its end.
Flushed ==
    FoldLeft(RouteMessage, [adapter |-> adapter, queue |-> <<>>,
                            sync |-> syncFlags], pending)

\* flush_story_events: on a ready stage the waiting events are set.
StoryFlushed(a) ==
    IF ~StageReady \/ ~syncFlags THEN a
    ELSE [a EXCEPT !.native = [f \in Facts |->
                        IF f \in StoryEvents /\ a.held[f] # NoFile THEN 1 ELSE @[f]],
                   !.held = NotHeld]

EndTick ==
    /\ phase = "route" /\ ~fatal
    /\ phase' = "play"
    /\ adapter' = StoryFlushed(Flushed.adapter)
    /\ pending' = Flushed.queue
    /\ UNCHANGED <<scene, area, disk, active, policy, syncFlags, fatal, saves,
                   received, scenes, locals>>

(***************************************************************************)
(* The application's answer to a fatal error, and any other end of the     *)
(* session: router_->clear() and reset_session().                          *)
(***************************************************************************)
ResetSession ==
    /\ fatal \/ scenes < MaxScenes
    /\ scenes' = IF fatal THEN scenes ELSE scenes + 1
    /\ fatal' = FALSE /\ phase' = "play" /\ pending' = <<>>
    /\ active' = NoFile
    /\ policy' = [enabled |-> FALSE, ready |-> FALSE]
    /\ adapter' = [Drop(adapter) EXCEPT !.held = NotHeld]
    /\ UNCHANGED <<scene, area, disk, syncFlags, saves, received, locals>>

-----------------------------------------------------------------------------
\* The game between ticks.

\* The player changes a fact; hooks publish it, the journal ignores it.
LocalMutation(f, v) ==
    /\ phase = "play" /\ scene \in {"ready", "busy"} /\ locals < MaxLocal
    /\ adapter.native[f] # v
    /\ locals' = locals + 1
    /\ adapter' = [SetNative(adapter, f, v) EXCEPT !.uncovered = @ \cup {f}]
    /\ UNCHANGED <<scene, area, phase, disk, active, policy, syncFlags, pending,
                   fatal, saves, received, scenes>>

\* The scene changes: cutscenes begin and end, a loaded file starts.
ChangeScene(to, there) ==
    /\ phase = "play" /\ scene # "title" /\ scenes < MaxScenes
    /\ to \in {"busy", "ready"} /\ <<to, there>> # <<scene, area>>
    /\ scene' = to /\ area' = there
    /\ scenes' = scenes + 1
    /\ UNCHANGED <<phase, disk, active, policy, syncFlags, adapter, pending, fatal,
                   saves, received, locals>>

\* Back to the title, whose scene has a save memory of its own.
QuitToTitle ==
    /\ phase = "play" /\ scene # "title" /\ scenes < MaxScenes
    /\ scene' = "title" /\ area' = FALSE
    /\ scenes' = scenes + 1
    /\ adapter' = [adapter EXCEPT !.native = Blank]
    /\ UNCHANGED <<phase, disk, active, policy, syncFlags, pending, fatal, saves,
                   received, locals>>

\* clear_replaced_save_progression_state and notify_local_save_reset
ClearReplaced(a) == [a EXCEPT !.held = NotHeld]

(***************************************************************************)
(* notify_local_save_loaded: the journal of another file is dropped, this  *)
(* file's waits for the first ready stage.                                 *)
(***************************************************************************)
LoadFile(file) ==
    /\ phase = "play" /\ scene = "title"
    /\ scene' = "loading" /\ active' = file
    /\ LET a == IF adapter.journal.file # file THEN Drop(adapter)
                ELSE [adapter EXCEPT !.journal.restore = TRUE]
       IN  adapter' = [ClearReplaced(a) EXCEPT !.native = disk[file]]
    /\ UNCHANGED <<area, phase, disk, policy, syncFlags, pending, fatal, saves,
                   received, scenes, locals>>

\* notify_local_save_new
NewFile(file) ==
    /\ phase = "play" /\ scene = "title"
    /\ scene' = "loading" /\ active' = file
    /\ adapter' = [ClearReplaced(Drop(adapter)) EXCEPT !.native = Blank]
    /\ UNCHANGED <<area, phase, disk, policy, syncFlags, pending, fatal, saves,
                   received, scenes, locals>>

\* The journal of a file just written: its baseline is make_recovery_snapshot.
ArmedJournal(file, id) ==
    [NoJournal EXCEPT !.id = id, !.file = file, !.open = TRUE,
                      !.base = Snapshot(adapter)]

NeverKeepsJournal(file) == FALSE

\* An autosave of a file whose repair is still pending keeps the journal.
KeepsJournal(file) == adapter.journal.restore /\ adapter.journal.file = file

(***************************************************************************)
(* notify_local_save_written: the game has written its save memory.        *)
(***************************************************************************)
SaveFile(file) ==
    /\ phase = "play" /\ scene # "title" /\ saves < MaxSaves
    /\ saves' = saves + 1
    /\ disk' = [disk EXCEPT ![file] = adapter.native]
    /\ active' = file
    /\ LET repairing == adapter.journal.restore /\ adapter.journal.file = file
           a == [adapter EXCEPT !.held = [z \in StoryEvents |->
                                   IF @[z] = NoFile THEN NoFile ELSE file]]
       IN  adapter' =
             IF KeepsJournal(file) THEN a
             ELSE IF policy.enabled /\ policy.ready /\ syncFlags THEN
                    [a EXCEPT !.journal = ArmedJournal(file, saves'),
                              !.accepted = IF repairing THEN @ ELSE NoFacts,
                              !.uncovered = IF repairing THEN @ ELSE {}]
             ELSE Drop(a)
    /\ UNCHANGED <<scene, area, phase, policy, syncFlags, pending, fatal, received,
                   scenes, locals>>

\* 60 seconds have passed since the save.
CloseWindow ==
    /\ adapter.journal.open
    /\ adapter' = [adapter EXCEPT !.journal.open = FALSE]
    /\ UNCHANGED <<scene, area, phase, disk, active, policy, syncFlags, pending,
                   fatal, saves, received, scenes, locals>>

Next ==
    \/ \E ready, enabled \in BOOLEAN : SetPolicy(ready, enabled)
    \/ BeginTick
    \/ \E f \in Facts : \E v \in ValuesOf(f) : Route(f, v) \/ LocalMutation(f, v)
    \/ RouteSettings
    \/ EndTick
    \/ ResetSession
    \/ \E to \in {"busy", "ready"}, there \in BOOLEAN : ChangeScene(to, there)
    \/ QuitToTitle
    \/ \E file \in Files : LoadFile(file) \/ NewFile(file) \/ SaveFile(file)
    \/ CloseWindow

Spec == Init /\ [][Next]_vars

-----------------------------------------------------------------------------
JournalType ==
    [id : 0..MaxSaves, file : Files \cup {NoFile}, open : BOOLEAN, restore : BOOLEAN,
     base : [Facts -> Values], changed : [Facts -> Values \cup {None}],
     inbox : Seq([fact : Facts, value : Values, stamp : 0..MaxSaves])]

AdapterType ==
    [native : [Facts -> Values], held : [StoryEvents -> Files \cup {NoFile}],
     journal : JournalType, replay : [Facts -> Values \cup {None}],
     accepted : [Facts -> Values \cup {None}], uncovered : SUBSET Facts]

(***************************************************************************)
(* The types, and the limits of the two queues (enqueue and                *)
(* retain_for_save_recovery).                                              *)
(***************************************************************************)
TypeOK ==
    /\ scene \in {"title", "loading", "busy", "ready"}
    /\ area \in BOOLEAN /\ phase \in {"play", "route"}
    /\ disk \in [Files -> [Facts -> Values]]
    /\ active \in Files \cup {NoFile}
    /\ policy \in [enabled : BOOLEAN, ready : BOOLEAN]
    /\ syncFlags \in BOOLEAN /\ fatal \in BOOLEAN
    /\ adapter \in AdapterType
    /\ pending \in Seq([fact : Switches \cup Counters, value : Values,
                        stamp : 0..MaxSaves])
    /\ Len(pending) <= MaxPending /\ Len(adapter.journal.inbox) <= MaxInbox
    /\ saves \in 0..MaxSaves /\ received \in 0..MaxReceived
    /\ scenes \in 0..MaxScenes /\ locals \in 0..MaxLocal

(***************************************************************************)
(* What the peer told this player since the save survives a reload: once   *)
(* the file runs again and its repair is done, every fact has the value    *)
(* last accepted for it, or waits for a room reload to get it, unless   *)
(* something the journal does not cover changed it.  A fact may have been applied before the reload,     *)
(* have waited in the router, or have been kept at the title.              *)
(***************************************************************************)
RecoveredProgress ==
    (HasJournal(adapter) /\ ~adapter.journal.restore /\ scene \in {"busy", "ready"})
    => \A f \in Facts \ adapter.uncovered :
          \/ adapter.accepted[f] = None
          \/ adapter.native[f] = adapter.accepted[f]
          \/ f \in StoryEvents /\ adapter.held[f] # NoFile /\ adapter.accepted[f] = 1

(***************************************************************************)
(* A story event that waits belongs to the save memory it was accepted     *)
(* for: loading a file never lets another file's event reach it            *)
(* (clear_replaced_save_progression_state).                                *)
(***************************************************************************)
HeldForThisFile ==
    scene # "title" => \A z \in StoryEvents : adapter.held[z] \in {NoFile, active}

(***************************************************************************)
(* Messages kept for a reload are not stranded: outside the title there    *)
(* is always a repair ahead that replays them.                             *)
(***************************************************************************)
InboxNotStranded ==
    (adapter.journal.inbox # <<>> /\ scene # "title") => adapter.journal.restore

(***************************************************************************)
(* The repair never overwrites a fact that has changed since the save,     *)
(* whoever changed it, unless a message kept for it says so                *)
(* (SaveRecoveryDelta::applicable).                                        *)
(***************************************************************************)
NewerFactsKept ==
    [][BeginTick =>
        \A f \in Facts :
            \/ adapter.native[f] = adapter.journal.base[f]
            \/ \E i \in DOMAIN adapter.journal.inbox : adapter.journal.inbox[i].fact = f
            \/ adapter'.native[f] = adapter.native[f]]_vars

\* What a reload must not lose, give to another file, or leave behind.
RecoverySafety == TypeOK /\ RecoveredProgress /\ HeldForThisFile /\ InboxNotStranded
=============================================================================
