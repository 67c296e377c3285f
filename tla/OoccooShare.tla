----------------------------- MODULE OoccooShare -----------------------------
(***************************************************************************)
(* Sharing Ooccoo between players (ooccoo_sync.hpp, ooccoo_wire.hpp and    *)
(* the Ooccoo parts of game_adapter.cpp).  What crosses the network is a   *)
(* set of receipts (a dungeon where she was found, the special City item,  *)
(* a Note without an owner) and, per dungeon, the return mark of a real    *)
(* warp out.  Each player projects them onto the one inventory slot, at a  *)
(* safe tick, from its own scene and its own boss flags.                   *)
(*                                                                         *)
(* Return marks are numbered: the lexicographic order of choose_anchor on  *)
(* their fields is the order of the numbers, 0 is no mark.                 *)
(***************************************************************************)
EXTENDS Integers, Sequences, FiniteSets, SequencesExt, FiniteSetsExt

CONSTANTS
    Players,
    Dungeons,      \* a set of numbers: the save tables, 16 to 22
    City,          \* the one of them that has a special item and a shop
    Marks,         \* the highest return mark
    Field, Shop,   \* scenes outside the dungeons, and room 16 of the City
    MaxEvents      \* bound on grants, warps, moves, boss fights, saves and quits

ASSUME OoccooAssumption ==
    /\ Dungeons \subseteq 0..127 /\ City \in Dungeons
    /\ Field \notin Dungeons /\ Shop \notin Dungeons /\ Field # Shop
    /\ {Marks, MaxEvents} \subseteq Nat

VARIABLES
    player,   \* a player's adapter, inventory and save memory
    disk,     \* the saved file of a player
    link,     \* messages on the way
    events,
    credit    \* history: catch-up messages that joins and loads still account for

vars == <<player, disk, link, events, credit>>

\* CityReceipt and NoteReceipt; a dungeon's receipt is the dungeon itself.
Special == 128
Loose == 256
Receipts == Dungeons \cup {Special, Loose}
Forms == {"parent", "junior", "note", "cityParent"}
Scenes == Dungeons \cup {Field, Shop}
NoMarks == [d \in Dungeons |-> 0]
NoReturn == [owner |-> -1, mark |-> 0]

\* Progress: have is acquired, citySpecial and unboundNote.
NoProgress == [have |-> {}, completed |-> {}, anchor |-> NoMarks]

\* The natural order of two marks decides, so that concurrent warps agree.
ChooseAnchor(a, b) == IF a = 0 THEN b ELSE IF b = 0 THEN a ELSE Min({a, b})

Join(a, b) ==
    LET have == a.have \cup b.have
    IN  [have |-> have, completed |-> a.completed \cup b.completed,
         anchor |-> [d \in Dungeons |->
            IF d \in have THEN ChooseAnchor(a.anchor[d], b.anchor[d]) ELSE 0]]

Active(g) == (g.have \cap Dungeons) \ g.completed

Entitlements(g) ==
    Active(g)
    \cup (IF Special \in g.have /\ City \notin g.completed \cup Active(g)
          THEN {Special} ELSE {})
    \cup (g.have \cap {Loose})

\* scene_dungeon, city_shop
SceneDungeon(s) == IF s = Shop THEN City ELSE IF s = Field THEN -1 ELSE s

(***************************************************************************)
(* What the game holds.  native is the save memory; live the flags of the  *)
(* current dungeon, copied to the save memory when the scene is left.      *)
(***************************************************************************)
NewFile == [native |-> [warp |-> {}, boss |-> {}, first |-> {}, item |-> "none",
                        return |-> NoReturn],
            blob |-> [progress |-> NoProgress, pending |-> {}, managed |-> FALSE],
            scene |-> Field, satisfied |-> {}]

\* Files from before the room: new in the City, or with Sr. found in another dungeon.
StartFiles ==
    {[NewFile EXCEPT !.scene = City]}
    \cup {[NewFile EXCEPT !.scene = d, !.native.warp = {d}, !.native.item = "parent",
                          !.satisfied = {d}] : d \in Dungeons \ {City}}

NewPlayer ==
    [joined |-> FALSE, title |-> TRUE, ready |-> FALSE, scene |-> Field,
     native |-> NewFile.native, live |-> [warp |-> FALSE, boss |-> FALSE],
     progress |-> NoProgress, pending |-> {}, managed |-> FALSE,
     bound |-> FALSE, catchup |-> TRUE, reply |-> FALSE,
     satisfied |-> {}]   \* history: receipts delivered to or found by this player

Here(r) == SceneDungeon(r.scene)
LiveHere(r, flag) == IF flag /\ Here(r) \in Dungeons THEN {Here(r)} ELSE {}
\* The flags of the scene go to the save memory.
Committed(r) == [r.native EXCEPT !.warp = @ \cup LiveHere(r, r.live.warp),
                                 !.boss = @ \cup LiveHere(r, r.live.boss)]
LiveOf(native, scene) == [warp |-> SceneDungeon(scene) \in native.warp,
                          boss |-> SceneDungeon(scene) \in native.boss]

SyncActive(r) == r.joined /\ ~r.title

-----------------------------------------------------------------------------
(* State: the receipts of one player.  *)

\* native_ooccoo_facts: live flags count only while the stage is ready.
NativeCompleted(r, ready) == r.native.boss \cup LiveHere(r, ready /\ r.live.boss)
NativeFacts(r, ready) ==
    LET completed == NativeCompleted(r, ready)
        acquired == (r.native.warp \cup LiveHere(r, ready /\ r.live.warp)) \ completed
        owner == r.native.return.owner
    IN  [have |-> acquired \cup r.native.first
                  \cup (IF r.native.item = "cityParent" THEN {Special} ELSE {}),
         completed |-> completed,
         anchor |-> [d \in Dungeons |->
            IF d = owner /\ r.native.item = "junior" /\ d \in acquired
            THEN r.native.return.mark ELSE 0]]

ObserveCompletion(r, completed) ==
    [r EXCEPT !.progress.completed = completed,
              !.pending = @ \cap Entitlements([r.progress EXCEPT !.completed = completed])]

Seed(r, facts) ==
    LET g == [Join(r.progress, facts) EXCEPT !.completed = r.progress.completed]
    IN  [r EXCEPT !.progress = g, !.pending = @ \cap Entitlements(g),
                  !.satisfied = @ \cup (facts.have \ r.pending)]

RecordLocal(r, facts) ==
    [Seed(r, facts) EXCEPT !.pending = @ \ Entitlements(facts),
                           !.managed = @ /\ Entitlements(facts) = {},
                           !.satisfied = @ \cup Entitlements(facts)]

MergeRemoteRepeats(r, facts) ==
    LET g == [Join(r.progress, facts) EXCEPT !.completed = r.progress.completed]
    IN  [r EXCEPT !.progress = g, !.pending = Entitlements(g)]

\* Only what becomes available with this message is to be delivered.
MergeRemote(r, facts) ==
    LET g == [Join(r.progress, facts) EXCEPT !.completed = r.progress.completed]
    IN  [r EXCEPT !.progress = g,
                  !.pending = (@ \cup (Entitlements(g) \ Entitlements(r.progress)))
                              \cap Entitlements(g)]

\* bind_ooccoo_to_save: the selected file's own facts, once.
Bind(r) ==
    IF r.bound \/ r.title THEN r
    ELSE LET facts == NativeFacts(r, r.ready)
         IN  [Seed(ObserveCompletion(r, facts.completed), facts) EXCEPT !.bound = TRUE]

\* ooccoo_snapshot_state and encode
Snapshot(r) == [Bind(r).progress EXCEPT !.completed = NativeCompleted(Bind(r), r.ready)]

(***************************************************************************)
(* reconcile: the form the slot should show here.                          *)
(***************************************************************************)
ValidReturn(r) == r.native.return.owner \in Dungeons \ r.progress.completed

Anchored(r) == {d \in Active(r.progress) : r.progress.anchor[d] # 0}

Desired(r) ==
    LET g == r.progress
        item == r.native.item
        completeHere == Here(r) \in g.completed
        regularHere == Here(r) \in Active(g)
        activeSpecial == Special \in g.have /\ City \notin g.completed
        remote == r.managed \/ r.pending # {}
    IN  IF item = "junior" /\ ValidReturn(r) /\ (~regularHere \/ r.scene = Shop) THEN "junior"
        ELSE IF regularHere THEN "parent"
        ELSE IF activeSpecial /\ (Here(r) = City \/ item = "cityParent") THEN "cityParent"
        ELSE IF remote /\ Anchored(r) # {} THEN "junior"
        ELSE IF \/ item \in {"parent", "cityParent"} /\ completeHere
                \/ item = "junior" /\ r.native.return.owner \in Dungeons /\ ~ValidReturn(r)
          THEN (IF r.pending # {} THEN "note" ELSE "none")
        ELSE IF Active(g) = {} /\ ~activeSpecial /\ Loose \notin g.have /\ r.managed THEN "none"
        ELSE "note"

\* A remote junior comes with a place to return to.
InstalledReturn(r, desired) ==
    IF desired = "junior" /\ ~ValidReturn(r)
    THEN [owner |-> Min(Anchored(r)), mark |-> r.progress.anchor[Min(Anchored(r))]]
    ELSE IF r.native.item = "junior" /\ desired # "junior" THEN NoReturn
    ELSE r.native.return

ReconcileResurrects(r) ==
    LET desired == Desired(r)
    IN  [r EXCEPT !.native.item = desired, !.native.return = InstalledReturn(r, desired),
                  !.managed = desired # "none" /\ (@ \/ r.pending # {}),
                  !.pending = {},
                  !.satisfied = @ \cup r.pending]

Reconcile(r) ==
    IF r.native.item = "none" /\ r.pending = {} THEN [r EXCEPT !.managed = FALSE]
    ELSE LET desired == Desired(r)
         IN  [r EXCEPT !.native.item = desired, !.native.return = InstalledReturn(r, desired),
                       !.managed = desired # "none" /\ (@ \/ r.pending # {}),
                       !.pending = {},
                       !.satisfied = @ \cup r.pending]

(***************************************************************************)
(* apply_shared_ooccoo_local_form, at a tick that is safe for it: first    *)
(* the flags, then the slot.  New completions are published unless a       *)
(* message is being applied.  s is the record r and the messages out.      *)
(***************************************************************************)
ApplyForm(s, applyingRemote) ==
    LET b == Bind(s.r)
        completed == NativeCompleted(b, TRUE)
        fresh == completed \ b.progress.completed # {}
        r == ObserveCompletion(b, completed)
        flags == [r EXCEPT !.native.warp = @ \cup Active(r.progress),
                           !.live.warp = @ \/ Here(r) \in Active(r.progress),
                           !.native.first = @ \cup (r.progress.have \cap {Special, Loose})]
    IN  [r |-> Reconcile(flags),
         out |-> IF fresh /\ ~applyingRemote
                 THEN Append(s.out, [state |-> Snapshot(r), request |-> FALSE])
                 ELSE s.out]

\* An unsafe moment (pause, warp menu, unstable room) leaves everything pending.
ApplyFormIf(s, safe, applyingRemote) ==
    IF safe /\ SyncActive(s.r) /\ s.r.ready THEN ApplyForm(s, applyingRemote) ELSE s

\* flush_ooccoo_catchup: an answer does not ask again.
Flush(s) ==
    IF SyncActive(s.r) /\ s.r.ready /\ (s.r.catchup \/ s.r.reply)
    THEN [r |-> [Bind(s.r) EXCEPT !.catchup = FALSE, !.reply = FALSE],
          out |-> Append(s.out, [state |-> Snapshot(s.r), request |-> s.r.catchup])]
    ELSE s

\* State.restore: what the file knew; completion is read again from its flags.
Restore(r, file) ==
    LET g == [file.blob.progress EXCEPT !.completed = {}]
    IN  [r EXCEPT !.progress = g, !.pending = file.blob.pending \cap Entitlements(g),
                  !.managed = file.blob.managed]

\* clear_replaced_save_progression_state, then the blob of the file.
Loaded(r, file) ==
    [Restore(r, file) EXCEPT !.native = file.native, !.live = LiveOf(file.native, file.scene),
        !.scene = file.scene, !.title = FALSE, !.ready = FALSE, !.bound = FALSE,
        !.catchup = TRUE, !.reply = FALSE, !.satisfied = file.satisfied]

\* One player has been playing alone in the room; the others are at the title screen.
Init ==
    /\ disk \in [Players -> StartFiles]
    /\ \E host \in Players : player = [p \in Players |->
            IF p = host
            THEN [Bind([Loaded(NewPlayer, disk[p]) EXCEPT !.ready = TRUE])
                    EXCEPT !.joined = TRUE, !.catchup = FALSE]
            ELSE NewPlayer]
    /\ link = [p \in Players |-> [q \in Players |-> <<>>]]
    /\ events = 0
    /\ credit = 0

-----------------------------------------------------------------------------
(* Actions.  *)

Room == Cardinality(Players)
More == events < MaxEvents /\ events' = events + 1

Members(q) == {p \in Players \ {q} : player[p].joined}

\* The record of p after a handler, and what it published to the room.
Finish(p, s) ==
    /\ player' = [player EXCEPT ![p] = s.r]
    /\ link' = [link EXCEPT ![p] = [q \in Players |->
                    IF q \in Members(p) THEN @[q] \o s.out ELSE @[q]]]

Publish(r) == <<[state |-> Snapshot(r), request |-> FALSE]>>

\* The welcome of p, and peer_joined at everybody else.
Enter(p) ==
    /\ ~player[p].joined
    /\ player' = [q \in Players |->
            IF q = p THEN [player[p] EXCEPT !.joined = TRUE]
            ELSE [player[q] EXCEPT !.catchup = @ \/ player[q].joined]]
    /\ credit' = credit + Room * (1 + Cardinality(Members(p)))
    /\ UNCHANGED <<disk, link, events>>

(***************************************************************************)
(* notify_local_item_grant: the game has already given the item.  Sr. in a *)
(* dungeon is that dungeon's; a randomized item elsewhere is a bare Note.  *)
(***************************************************************************)
ReceiptForGrant(r, item) ==
    IF item = "parent" /\ Here(r) \in Dungeons THEN {Here(r)}
    ELSE IF item = "cityParent" THEN {Special} ELSE {Loose}

Grant(p, item) ==
    LET r == player[p]
        receipt == ReceiptForGrant(r, item)
        given == [r EXCEPT !.native.item = item,
                           !.native.return = IF r.native.item = "junior" THEN NoReturn ELSE @,
                           !.live.warp = @ \/ receipt \subseteq Dungeons,
                           !.native.first = @ \cup (receipt \cap {Special, Loose})]
        known == RecordLocal(Bind(given), [NoProgress EXCEPT !.have = receipt])
    IN  /\ More
        /\ ~r.title /\ r.ready
        /\ \/ item = "parent" /\ r.scene \in Dungeons
           \/ item = "cityParent" /\ r.scene = City
           \/ item = "note" /\ r.scene = Field
        /\ Finish(p, [r |-> known, out |-> IF r.joined THEN Publish(known) ELSE <<>>])
        /\ UNCHANGED <<disk, credit>>

(***************************************************************************)
(* notify_local_ooccoo_warp_out: the game has already turned Sr. into Jr.  *)
(* and set the return mark; the scene changes next.                        *)
(***************************************************************************)
WarpOut(p, mark) ==
    LET r == player[p]
        out == [r EXCEPT !.native.item = "junior",
                         !.native.return = [owner |-> Here(r), mark |-> mark]]
        facts == NativeFacts(Bind(out), TRUE)
        known == RecordLocal(ObserveCompletion(Bind(out), facts.completed), facts)
        shared == SyncActive(r) /\ Here(r) \in facts.have
        left == IF shared THEN known ELSE out
    IN  /\ More
        /\ ~r.title /\ r.ready /\ r.native.item = "parent" /\ r.scene \in Dungeons
        /\ Finish(p, [r |-> [left EXCEPT !.native = Committed(left), !.scene = Field,
                                         !.live = LiveOf(Committed(left), Field),
                                         !.ready = FALSE],
                      out |-> IF shared THEN Publish(known) ELSE <<>>])
        /\ UNCHANGED <<disk, credit>>

\* The game leaves for another scene; outside the dungeons Sr. becomes a Note.
Travel(p, scene) ==
    LET r == player[p]
        native == [Committed(r) EXCEPT !.item =
                    IF @ = "parent" /\ scene = Field THEN "note" ELSE @]
    IN  /\ More
        /\ ~r.title /\ r.ready /\ scene # r.scene
        /\ Field \in {scene, r.scene} \/ {scene, r.scene} = {City, Shop}
        /\ player' = [player EXCEPT ![p].native = native, ![p].scene = scene,
                                    ![p].live = LiveOf(native, scene), ![p].ready = FALSE]
        /\ UNCHANGED <<disk, link, credit>>

\* The boss of the dungeon falls; its exit may take Ooccoo away.
Defeat(p, takes) ==
    LET r == player[p]
    IN  /\ More
        /\ ~r.title /\ r.ready /\ r.scene \in Dungeons /\ ~r.live.boss
        /\ player' = [player EXCEPT ![p].live.boss = TRUE, ![p].ready = FALSE,
                        ![p].native.item = IF takes THEN "none" ELSE @]
        /\ UNCHANGED <<disk, link, credit>>

\* The event, or the loading of the stage, is over.
BecomeReady(p) ==
    /\ ~player[p].ready /\ ~player[p].title
    /\ player' = [player EXCEPT ![p].ready = TRUE]
    /\ UNCHANGED <<disk, link, events, credit>>

\* The Ooccoo part of end_tick, on a ready stage.
Tick(p, safe) ==
    LET r == player[p]
        s == Flush(ApplyFormIf([r |-> r, out |-> <<>>], safe, FALSE))
    IN  /\ SyncActive(r) /\ r.ready
        /\ s.r # r \/ s.out # <<>>
        /\ Finish(p, s)
        /\ credit' = credit - (IF r.catchup \/ r.reply THEN 1 ELSE 0)
        /\ UNCHANGED <<disk, events>>

\* ooccoo_state from q: dropped at the title screen, where no file is selected.  It is
\* applied at once on a ready stage; a message at an unready one stands for every
\* moment that is unsafe.
Receive(p, q) ==
    LET r == player[p]
        m == Head(link[q][p])
        known == ObserveCompletion(Bind(r), NativeCompleted(Bind(r), r.ready))
        merged == [MergeRemote(known, m.state) EXCEPT !.reply = @ \/ m.request]
        s == ApplyFormIf([r |-> merged, out |-> <<>>], TRUE, TRUE)
    IN  /\ link[q][p] # <<>>
        /\ player' = [player EXCEPT ![p] = IF SyncActive(r) THEN s.r ELSE @]
        /\ link' = [link EXCEPT ![q][p] = Tail(@)]
        /\ UNCHANGED <<disk, events, credit>>

\* save_observer: the file and, beside it, the receipts and what is pending.
Save(p) ==
    LET r == Bind(player[p])
    IN  /\ More
        /\ ~r.title /\ r.ready
        /\ player' = [player EXCEPT ![p] = r]
        /\ disk' = [disk EXCEPT ![p] =
                [native |-> Committed(r),
                 blob |-> [progress |-> Snapshot(r), pending |-> r.pending,
                           managed |-> r.managed],
                 scene |-> IF r.scene = Shop THEN City ELSE r.scene,
                 satisfied |-> r.satisfied]]
        /\ UNCHANGED <<link, credit>>

Quit(p) ==
    /\ More
    /\ ~player[p].title
    /\ player' = [player EXCEPT ![p].title = TRUE, ![p].ready = FALSE]
    /\ UNCHANGED <<disk, link, credit>>

Load(p) ==
    /\ player[p].title
    /\ player' = [player EXCEPT ![p] = Loaded(@, disk[p])]
    /\ credit' = credit + Room
    /\ UNCHANGED <<disk, link, events>>

Next ==
    \E p \in Players :
        \/ Enter(p) \/ BecomeReady(p)
        \/ Save(p) \/ Quit(p) \/ Load(p)
        \/ \E item \in Forms \ {"junior"} : Grant(p, item)
        \/ \E mark \in 1..Marks : WarpOut(p, mark)
        \/ \E scene \in Scenes : Travel(p, scene)
        \/ \E takes \in BOOLEAN : Defeat(p, takes)
        \/ \E safe \in BOOLEAN : Tick(p, safe)
        \/ \E q \in Players : Receive(p, q)

Spec == Init /\ [][Next]_vars

-----------------------------------------------------------------------------
(* Properties.  *)

ProgressType == [have : SUBSET Receipts, completed : SUBSET Dungeons,
                 anchor : [Dungeons -> 0..Marks]]
NativeType == [warp : SUBSET Dungeons, boss : SUBSET Dungeons,
               first : SUBSET {Special, Loose}, item : Forms \cup {"none"},
               return : [owner : Dungeons \cup {-1}, mark : 0..Marks]]

\* Every field of the adapter, the game and the saved file keeps its type, and a
\* return mark belongs to an acquired dungeon (encode, decode).
TypeOK ==
    /\ \A p \in Players :
        /\ player[p].native \in NativeType /\ disk[p].native \in NativeType
        /\ player[p].progress \in ProgressType /\ disk[p].blob.progress \in ProgressType
        /\ player[p].pending \subseteq Receipts /\ player[p].scene \in Scenes
        /\ \A d \in Dungeons :
            player[p].progress.anchor[d] # 0 => d \in player[p].progress.have
    /\ \A p, q \in Players : \A i \in DOMAIN link[p][q] :
            link[p][q][i].state \in ProgressType

Quiet ==
    /\ \A p, q \in Players : link[p][q] = <<>>
    /\ \A p \in Players : /\ SyncActive(player[p]) /\ player[p].ready
                          /\ ~player[p].catchup /\ ~player[p].reply

\* Whoever was at the title screen, joined late or loaded an older file: once the
\* room is quiet all players know the same receipts and the same return marks.
ReceiptsAgree ==
    Quiet => \A p, q \in Players :
        /\ player[p].progress.have = player[q].progress.have
        /\ player[p].progress.anchor = player[q].progress.anchor

\* A receipt is delivered once per file: no repeated snapshot, catch-up or reload
\* brings Ooccoo back after the game took her away (reconcile's first return).
DeliveredOnce ==
    \A p \in Players : player[p].pending \cap player[p].satisfied = {}

\* No delivery is lost: what a player is entitled to is still pending, or it was
\* delivered to this file or found by its player, across unsafe ticks, saves and loads.
NothingLost ==
    \A p \in Players :
        ~player[p].title =>
            Entitlements([player[p].progress EXCEPT !.completed = NativeCompleted(player[p], TRUE)])
                \subseteq player[p].pending \cup player[p].satisfied

\* Jr. always has somewhere to return to, also when he came from another player's warp.
JuniorCanReturn ==
    \A p \in Players : player[p].native.item = "junior" => player[p].native.return # NoReturn

\* Catch-up cannot loop: a join or a load costs at most one request and one answer of
\* everybody else (flush_ooccoo_catchup: "Replies do not request another reply").
CatchupEnds == credit >= 0

\* A form comes into an empty slot in a tick without a receipt this player has not
\* had.
Resurrected(p) ==
    /\ player[p].native.item = "none" /\ player'[p].native.item # "none"
    /\ events' = events /\ ~player[p].title
    /\ player'[p].satisfied \subseteq player[p].satisfied

\* Receipts spread to everybody, are delivered once each and never lost, and
\* what is delivered can be used.
SharingSafety ==
    TypeOK /\ ReceiptsAgree /\ DeliveredOnce /\ NothingLost /\ JuniorCanReturn /\ CatchupEnds
=============================================================================
