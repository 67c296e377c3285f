----------------------------- MODULE ManualSync -----------------------------
(***************************************************************************)
(* Manual synchronisation (game_adapter.cpp): a player asks another for    *)
(* its whole save, by menu ("warp" or "flags") or by accepting a prompt    *)
(* about the other's progress (a cue); the other answers when it is safe;  *)
(* the answer replaces the save and reloads the stage, and the image is    *)
(* installed once more when the stage has come up.                         *)
(*                                                                         *)
(* A save is the set of the facts it holds.  Links are the ordered streams *)
(* of the transport.  A tick is the router's flush and update().  The      *)
(* readiness a player has heard of its peers, the controller and the place *)
(* a cue needs are inputs of a tick.                                       *)
(***************************************************************************)
EXTENDS Integers, Sequences, FiniteSets, SequencesExt

CONSTANTS
    Players,
    Facts,          \* event bits, applied at once when they arrive
    NoPeer, NoSave, \* model values
    RequestTicks,   \* kManualSyncRequestTimeoutTicks, 150
    ReplyTicks,     \* kPendingSyncReplyTimeoutTicks, 1800
    MaxRequests, MaxScenes, MaxFacts, MaxFaults   \* bounds on the environment

ASSUME ManualAssumption ==
    /\ NoPeer \notin Players /\ \A image \in SUBSET Facts : image # NoSave
    /\ {RequestTicks, ReplyTicks, MaxRequests, MaxScenes, MaxFacts, MaxFaults} \subseteq Nat

VARIABLES
    player,     \* per player: save, game and adapter
    link,       \* messages on the way
    present,    \* members of the room
    requests, scenes, facts, faults

vars == <<player, link, present, requests, scenes, facts, faults>>

Scenes == {"title", "busy", "gameover", "ready"}
NoWait == [state |-> "none", peer |-> NoPeer, id |-> 0, title |-> FALSE, ticks |-> 0]
NoCue == [peer |-> NoPeer, id |-> 0]
NoPrompt == [peer |-> NoPeer, waiting |-> FALSE]

NewPlayer(scene) ==
    [save |-> {}, scene |-> scene, enabled |-> TRUE, nextId |-> 0,
     manual |-> NoWait,             \* manualSync...: the request with a status
     cue |-> NoCue,                 \* awaitingManualSync...: the one from a prompt
     transition |-> FALSE,          \* manualTransitionActive_
     reload |-> FALSE,              \* manualReloadPending_
     info |-> NoSave,               \* pendingManualInfo_
     flags |-> NoSave,              \* pendingManualFlagsSave_
     pending |-> <<>>,              \* snapshots in the router's queue
     replies |-> {},                \* pendingSyncReplies_
     offers |-> {},                 \* pendingProgressionCues_, by peer
     prompt |-> NoPrompt,           \* progressionPrompt_
     accepted |-> NoPeer,           \* pendingProgressionPeerId_
     handled |-> {},                \* handledProgressionCues_, by peer
     applied |-> 0]                 \* history: id of the answer applied last

Init ==
    /\ \E scene \in [Players -> {"title", "ready"}] :
          player = [p \in Players |-> NewPlayer(scene[p])]
    /\ link = [p \in Players |-> [q \in Players |-> <<>>]]
    /\ present = Players
    /\ requests = 0 /\ scenes = 0 /\ facts = 0 /\ faults = 0

-----------------------------------------------------------------------------
(***************************************************************************)
(* Handlers work on the player's record r and the messages it sends, each  *)
(* with its receiver.                                                      *)
(***************************************************************************)
SendTo(s, q, m) == [s EXCEPT !.out = Append(@, [to |-> q, msg |-> m])]

StageReady(r) == r.scene = "ready" /\ ~r.transition
SafeNow(r) == StageReady(r)

\* expecting_manual_sync_reply
Expecting(r, q, id) ==
    \/ r.manual.state = "waiting" /\ r.manual.peer = q /\ r.manual.id = id
    \/ r.cue.peer = q /\ r.cue.id = id

\* request_manual_sync_impl; a request by menu also cancels the cue's.
RequestSync(s, q, mode) ==
    LET id == s.r.nextId + 1
        asked == SendTo([s EXCEPT !.r.nextId = id], q,
                        [kind |-> "request", id |-> id, mode |-> mode])
    IN  IF mode = "cue"
        THEN [asked EXCEPT !.r.cue = [peer |-> q, id |-> id]]
        ELSE [asked EXCEPT !.r.cue = NoCue,
                           !.r.manual = [state |-> "waiting", peer |-> q, id |-> id,
                                         title |-> s.r.scene = "title", ticks |-> 0]]

\* send_snapshot_to
Answer(s, reply) ==
    SendTo([s EXCEPT !.r.handled = IF reply.mode = "cue" THEN @ \cup {reply.peer} ELSE @],
           reply.peer,
           [kind |-> "snapshot", id |-> reply.id, mode |-> reply.mode, save |-> s.r.save])

\* sync_request: answered when safe, else queued; a repeated one is renewed.
OnRequest(s, q, m, atCue) ==
    LET reply == [peer |-> q, mode |-> m.mode, id |-> m.id, ticks |-> 0]
        others == {x \in s.r.replies : <<x.peer, x.mode>> # <<q, m.mode>>}
    IN  IF SafeNow(s.r) /\ (m.mode = "cue" => atCue) THEN Answer(s, reply)
        ELSE [s EXCEPT !.r.replies = others \cup {reply}]

(***************************************************************************)
(* apply_manual_full_state: refused while an earlier image is still to be  *)
(* installed.  A warp leaves the stage at once, flags wait for a reload of *)
(* the room.                                                               *)
(***************************************************************************)
Refused(r) == r.transition \/ r.reload \/ r.info # NoSave \/ r.flags # NoSave

ApplyFullState(s, q, m) ==
    LET r == [s.r EXCEPT
                !.cue = IF m.mode # "flags" /\ s.r.cue.peer = q THEN NoCue ELSE @,
                !.handled = IF m.mode # "flags" /\ s.r.cue.peer = q THEN @ \cup {q} ELSE @,
                !.save = m.save, !.applied = m.id]
    IN  IF m.mode = "flags"
        THEN [s EXCEPT !.r = [r EXCEPT !.flags = m.save, !.reload = TRUE]]
        ELSE [s EXCEPT !.r = [r EXCEPT !.info = m.save, !.transition = TRUE,
                                       !.scene = "busy"]]

\* The request with a status ends with its answer.
EndRequest(s, q, m, state) ==
    IF s.r.manual.state = "waiting" /\ s.r.manual.peer = q /\ s.r.manual.id = m.id
    THEN [s EXCEPT !.r.manual.state = state, !.r.manual.title = FALSE]
    ELSE s

\* allow_stage_unready, and titleWarp in apply_save_snapshot
AllowUnready(r, q, m) ==
    /\ r.scene = "title" /\ m.mode # "flags"
    /\ r.manual.title /\ r.manual.state = "waiting"
    /\ r.manual.peer = q /\ r.manual.id = m.id

OnSnapshotNoDiscard(s, q, m) ==
    IF ~StageReady(s.r) /\ ~AllowUnready(s.r, q, m) THEN
            [s EXCEPT !.r.pending = Append(@, [peer |-> q, msg |-> m])]
    ELSE IF Refused(s.r) THEN EndRequest(s, q, m, "failed")
    ELSE EndRequest(ApplyFullState(s, q, m), q, m, "succeeded")

(***************************************************************************)
(* The router on a snapshot, with discard_stage_message and                *)
(* apply_save_snapshot: thrown away, kept for later, refused or applied.   *)
(***************************************************************************)
OnSnapshot(s, q, m) ==
    IF ~Expecting(s.r, q, m.id) THEN s
    ELSE IF ~StageReady(s.r) /\ ~AllowUnready(s.r, q, m) THEN
            [s EXCEPT !.r.pending = Append(@, [peer |-> q, msg |-> m])]
    ELSE IF Refused(s.r) THEN EndRequest(s, q, m, "failed")
    ELSE EndRequest(ApplyFullState(s, q, m), q, m, "succeeded")

FlushRouter(s) ==
    LET Again(t, x) == OnSnapshot(t, x.peer, x.msg)
    IN  FoldLeft(Again, [s EXCEPT !.r.pending = <<>>], s.r.pending)

\* A live event bit, which may offer a prompt.
OnFact(s, q, m) ==
    [s EXCEPT !.r.save = @ \cup {m.fact},
              !.r.offers = IF q \in s.r.handled THEN @ ELSE @ \cup {q}]

-----------------------------------------------------------------------------
ExpireRequest(s) ==
    IF s.r.manual.state # "waiting" THEN s
    ELSE IF s.r.manual.ticks + 1 < RequestTicks THEN [s EXCEPT !.r.manual.ticks = @ + 1]
    ELSE [s EXCEPT !.r.manual.state = "failed", !.r.manual.title = FALSE,
                   !.r.manual.ticks = RequestTicks]

\* tick_manual_transition: the reload begins, or the image is installed again.
TickTransition(s) ==
    IF s.r.reload /\ s.r.scene = "ready" THEN
            [s EXCEPT !.r.reload = FALSE, !.r.transition = TRUE, !.r.scene = "busy"]
    ELSE IF s.r.info # NoSave /\ s.r.scene = "ready" THEN
            [s EXCEPT !.r.save = s.r.info, !.r.info = NoSave, !.r.transition = FALSE]
    ELSE IF s.r.info = NoSave /\ s.r.flags # NoSave /\ s.r.scene = "ready" THEN
            [s EXCEPT !.r.save = s.r.flags, !.r.flags = NoSave, !.r.transition = FALSE]
    ELSE s

\* update_pending_sync_replies
UpdateReplies(s, atCue) ==
    IF ~SafeNow(s.r) THEN s
    ELSE LET aged == {[x EXCEPT !.ticks = @ + 1] : x \in s.r.replies}
             due == {x \in aged : x.mode # "cue" \/ atCue \/ x.ticks >= ReplyTicks}
         IN  FoldLeft(Answer, [s EXCEPT !.r.replies = aged \ due], SetToSeq(due))

(***************************************************************************)
(* update_progression_prompts: an offer is shown when its peer is ready,   *)
(* held to accept, forgotten when it expires; an accepted one becomes a    *)
(* request when both sides are ready.                                      *)
(***************************************************************************)
ShowOffer(s, heard) ==
    LET shown == s.r.offers \cap heard
        fresh == shown \ s.r.handled
    IN  [s EXCEPT !.r.offers = @ \ shown,
                  !.r.prompt = IF fresh = {} \/ s.r.prompt.peer \in fresh THEN @
                               ELSE [peer |-> CHOOSE q \in fresh : TRUE, waiting |-> FALSE]]

Respond(s, input) ==
    IF s.r.prompt.peer = NoPeer \/ s.r.prompt.waiting THEN s
    ELSE IF input = "accept" THEN [s EXCEPT !.r.accepted = s.r.prompt.peer,
                                            !.r.prompt.waiting = TRUE]
    ELSE IF input = "expire" THEN [s EXCEPT !.r.prompt = NoPrompt]
    ELSE s

RequestAccepted(s, heard) ==
    IF s.r.accepted \in heard \cap present /\ StageReady(s.r)
    THEN [RequestSync(s, s.r.accepted, "cue") EXCEPT
             !.r.handled = @ \cup {s.r.accepted},
             !.r.accepted = NoPeer, !.r.prompt = NoPrompt]
    ELSE s

UpdatePrompts(s, heard, input) == RequestAccepted(Respond(ShowOffer(s, heard), input), heard)

UpdatePlayer(s, heard, input, atCue) ==
    UpdatePrompts(UpdateReplies(TickTransition(ExpireRequest(FlushRouter(s))), atCue),
                  heard, input)

-----------------------------------------------------------------------------
\* What p sends goes on its links to the members that are still there.
Deliver(p, s, base) ==
    LET MsgsTo(q) == [i \in 1..Len(SelectSeq(s.out, LAMBDA x : x.to = q)) |->
                        SelectSeq(s.out, LAMBDA x : x.to = q)[i].msg]
    IN  /\ player' = [player EXCEPT ![p] = s.r]
        /\ link' = [base EXCEPT ![p] = [q \in Players |->
                        IF q \in present THEN base[p][q] \o MsgsTo(q) ELSE <<>>]]

Quiet(p) == [r |-> player[p], out |-> <<>>]

Request(p, q, mode) ==
    /\ {p, q} \subseteq present /\ p # q /\ player[p].enabled
    /\ player[p].manual.state # "waiting" /\ requests < MaxRequests
    /\ requests' = requests + 1
    /\ Deliver(p, RequestSync(Quiet(p), q, mode), link)
    /\ UNCHANGED <<present, scenes, facts, faults>>

Receive(p, q, atCue) ==
    /\ p \in present /\ link[q][p] # <<>>
    /\ (atCue => Head(link[q][p]).kind = "request" /\ Head(link[q][p]).mode = "cue")
    /\ LET m == Head(link[q][p])
           s == Quiet(p)
       IN  Deliver(p, IF ~player[p].enabled THEN s
                      ELSE IF m.kind = "request" THEN OnRequest(s, q, m, atCue)
                      ELSE IF m.kind = "snapshot" THEN OnSnapshot(s, q, m)
                      ELSE OnFact(s, q, m),
                   [link EXCEPT ![q][p] = Tail(@)])
    /\ UNCHANGED <<present, requests, scenes, facts, faults>>

\* Ticks without the feature enabled do nothing here.
Tick(p, heard, input, atCue) ==
    /\ p \in present /\ player[p].enabled
    \* inputs that nothing reads are left at one value
    /\ (heard = {} \/ player[p].offers # {} \/ player[p].accepted # NoPeer
                   \/ player[p].prompt.peer # NoPeer)
    /\ (input = "none" \/ player[p].prompt.peer # NoPeer \/ player[p].offers \cap heard # {})
    /\ (atCue => \E x \in player[p].replies : x.mode = "cue")
    /\ Deliver(p, UpdatePlayer(Quiet(p), heard, input, atCue), link)
    /\ requests' = requests + Cardinality({q \in Players :
                      player'[p].cue # player[p].cue /\ player'[p].cue.peer = q})
    /\ requests' <= MaxRequests
    /\ UNCHANGED <<present, scenes, facts, faults>>

\* The player's game sets an event bit and publishes it.
LocalFact(p, f) ==
    /\ p \in present /\ StageReady(player[p]) /\ f \notin player[p].save
    /\ facts < MaxFacts /\ facts' = facts + 1
    /\ LET s == [Quiet(p) EXCEPT !.r.save = @ \cup {f}]
           Tell(t, q) == SendTo(t, q, [kind |-> "fact", fact |-> f])
       IN  Deliver(p, IF player[p].enabled THEN FoldLeft(Tell, s, SetToSeq(present \ {p}))
                      ELSE s, link)
    /\ UNCHANGED <<present, requests, scenes, faults>>

\* A cutscene, a stage change, a death; a load that is under way completes for free.
ChangeScene(p, scene) ==
    /\ scene # player[p].scene /\ "title" \notin {scene, player[p].scene}
    /\ scenes' = IF scene = "ready" THEN scenes ELSE scenes + 1
    /\ scenes' <= MaxScenes
    /\ player' = [player EXCEPT ![p].scene = scene]
    /\ UNCHANGED <<link, present, requests, facts, faults>>

ForgottenKeepsImage(r) ==
    [r EXCEPT !.manual = NoWait, !.cue = NoCue, !.transition = FALSE, !.reload = FALSE,
              !.offers = {}, !.prompt = NoPrompt, !.accepted = NoPeer, !.handled = {}]

Forgotten(r) ==
    [r EXCEPT !.manual = NoWait, !.cue = NoCue, !.transition = FALSE, !.reload = FALSE,
              !.info = NoSave, !.flags = NoSave, !.offers = {}, !.prompt = NoPrompt,
              !.accepted = NoPeer, !.handled = {}]

\* notify_local_save_loaded: a file replaces what the title or the game showed.
LoadFile(p) ==
    /\ player[p].scene \in {"title", "gameover"}
    /\ scenes < MaxScenes /\ scenes' = scenes + 1
    /\ player' = [player EXCEPT ![p] = [Forgotten(@) EXCEPT !.save = {}, !.scene = "busy"]]
    /\ UNCHANGED <<link, present, requests, facts, faults>>

QuitToTitle(p) ==
    /\ player[p].scene # "title" /\ scenes < MaxScenes /\ scenes' = scenes + 1
    /\ player' = [player EXCEPT ![p].scene = "title", ![p].save = {}]
    /\ UNCHANGED <<link, present, requests, facts, faults>>

\* clear_disabled_sync_flags_state and a flush of the router; the settings
\* barrier has drained the streams before anyone switches.
DisableSync ==
    /\ \A p, q \in Players : link[p][q] = <<>>
    /\ faults < MaxFaults /\ faults' = faults + 1
    /\ \A p \in present : player[p].enabled
    /\ player' = [p \in Players |->
          [Forgotten(player[p]) EXCEPT
             !.enabled = FALSE, !.replies = {}, !.pending = <<>>, !.handled = player[p].handled,
             !.manual.state = IF player[p].manual.state = "waiting" THEN "failed"
                              ELSE player[p].manual.state]]
    /\ UNCHANGED <<link, present, requests, scenes, facts>>

EnableSync ==
    /\ \A p \in present : ~player[p].enabled
    /\ player' = [p \in Players |-> [player[p] EXCEPT !.enabled = TRUE]]
    /\ UNCHANGED <<link, present, requests, scenes, facts, faults>>

\* peer_left at the others; reset_session and an empty router at q itself.
PeerLeft(r, q) ==
    [r EXCEPT !.offers = @ \ {q},
              !.prompt = IF @.peer = q THEN NoPrompt ELSE @,
              !.accepted = IF @ = q THEN NoPeer ELSE @,
              !.cue = IF @.peer = q THEN NoCue ELSE @,
              !.manual = IF @.peer = q /\ @.state = "waiting"
                         THEN [@ EXCEPT !.state = "failed", !.title = FALSE] ELSE @,
              !.replies = {x \in @ : x.peer # q},
              !.handled = @ \ {q}]

Leave(q) ==
    /\ q \in present /\ faults < MaxFaults /\ faults' = faults + 1
    /\ present' = present \ {q}
    /\ player' = [p \in Players |->
                    IF p = q THEN [Forgotten(player[q]) EXCEPT !.replies = {}, !.pending = <<>>]
                    ELSE PeerLeft(player[p], q)]
    /\ link' = [a \in Players |-> [b \in Players |->
                    IF q \in {a, b} THEN <<>> ELSE link[a][b]]]
    /\ UNCHANGED <<requests, scenes, facts>>

Next ==
    \/ \E p, q \in Players, mode \in {"warp", "flags"} : Request(p, q, mode)
    \/ \E p, q \in Players, atCue \in BOOLEAN : Receive(p, q, atCue)
    \/ \E p \in Players, input \in {"none", "accept", "expire"}, atCue \in BOOLEAN :
          \E heard \in SUBSET (present \ {p}) : Tick(p, heard, input, atCue)
    \/ \E p \in Players, f \in Facts : LocalFact(p, f)
    \/ \E p \in Players, scene \in Scenes : ChangeScene(p, scene)
    \/ \E p \in Players : LoadFile(p) \/ QuitToTitle(p) \/ Leave(p)
    \/ DisableSync \/ EnableSync

Spec == Init /\ [][Next]_vars

-----------------------------------------------------------------------------
TypeOK ==
    \A p \in Players :
        LET r == player[p]
        IN  /\ r.save \subseteq Facts /\ r.scene \in Scenes
            /\ r.manual.state \in {"none", "waiting", "succeeded", "failed"}
            /\ r.manual.ticks \in 0..RequestTicks
            /\ {r.cue.id, r.manual.id, r.applied} \subseteq 0..r.nextId
            /\ \A image \in {r.info, r.flags} : image = NoSave \/ image \subseteq Facts
            /\ r.offers \cup r.handled \subseteq Players \ {p}
            /\ \A x \in r.replies : x.ticks \in 0..ReplyTicks

(***************************************************************************)
(* stage_ready() is false during a transition, and only the installation   *)
(* of a pending image ends one: a transition without an image would keep   *)
(* every stage-dependent message waiting for ever, and an image without a  *)
(* transition would be installed into another file.  Whatever is cleared   *)
(* by a load, a departure or a settings change is cleared together.        *)
(***************************************************************************)
TransitionOwnsImage ==
    \A p \in Players :
        LET r == player[p]
        IN  /\ r.info = NoSave \/ r.flags = NoSave
            /\ r.reload => r.flags # NoSave /\ ~r.transition
            /\ (r.transition \/ r.reload) <=> (r.info # NoSave \/ r.flags # NoSave)

(***************************************************************************)
(* Only the answer to the request that is outstanding replaces a save: not *)
(* one that waited in the router or at the donor while the request timed   *)
(* out, failed or was replaced by a newer one, and none twice.             *)
(***************************************************************************)
OnlyAwaitedAnswers ==
    [][\A p \in Players :
          LET a == player'[p].applied
          IN  a # player[p].applied =>
                /\ a > player[p].applied \/ a = player[p].cue.id
                /\ \/ a = player[p].manual.id /\ player[p].manual.state = "waiting"
                   \/ a = player[p].cue.id]_vars

(***************************************************************************)
(* The permission to warp out of the title screen lasts as long as the     *)
(* request made there: when it has ended in any way, no later request      *)
(* inherits it (manualSyncRequestedFromTitle_).                            *)
(***************************************************************************)
TitleWarpEnds ==
    \A p \in Players : player[p].manual.title => player[p].manual.state = "waiting"

(***************************************************************************)
(* A donor that cannot answer keeps one entry per requester and mode, the  *)
(* newest, however often the requester times out and asks again.           *)
(***************************************************************************)
OneReplyEach ==
    \A p \in Players : \A x, y \in player[p].replies :
        <<x.peer, x.mode>> = <<y.peer, y.mode>> => x = y

\* The image, the title screen's permission and the queued answers each belong
\* to one request, and end with it.
SyncSafety == TypeOK /\ TransitionOwnsImage /\ TitleWarpEnds /\ OneReplyEach
=============================================================================
