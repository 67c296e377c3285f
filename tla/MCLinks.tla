------------------------------- MODULE MCLinks -------------------------------
(***************************************************************************)
(* The four protocols that run over datagrams: the direct connection, the   *)
(* link of two players of a room, the stream of poses and the voice.  They  *)
(* share no state; a behaviour exercises the one its initial state names,   *)
(* and the variables of the others rest.                                    *)
(***************************************************************************)
EXTENDS UdpSession

CONSTANTS
    MaxGen, MaxDrops,                      \* MeshLink
    p1, p2, HistoryLimit, FullInterval, MaxPosesQueued, MaxInflight,
    MaxPending, MaxSeq, MaxClosings,       \* PoseStream
    Prebuffer, MaxPrebuffer, MaxQueued, MaxConcealed, LongGap, DryGap,
    MaxBacklog, MaxFrames, MaxSequence, MaxTurns, MaxInFlight   \* VoiceChat

VARIABLES
    part,                                           \* the protocol exercised
    cloud, link, chan, air, drops, missed,          \* MeshLink
    setup, sender, poses, acks, recipient, taken,   \* PoseStream
    mic, muted, number, flight, member, events, enabled, stream, sent, heard,
    turns                                           \* VoiceChat

(* A room of two that a third player joins, with messages of one datagram,  *)
(* a host with one guest, with messages of two chunks and a parity, and a   *)
(* guest that still holds a snapshot of an earlier connection.              *)
MCPeers == {p1, p2}
MCStates == {[a |-> 0], [a |-> 0, b |-> 0]}
Room == [mode |-> "room", chunks |-> 1, names |-> {p1}, coming |-> {p2}, stale |-> {}, bound |-> 3]
Guest == [mode |-> "direct", chunks |-> 2, names |-> {p1}, coming |-> {}, stale |-> {}, bound |-> 3]
Stale == [mode |-> "direct", chunks |-> 1, names |-> {p2}, coming |-> {}, stale |-> {p2}, bound |-> 4]
MCScenarios == {Room, Guest, Stale}

Mesh == INSTANCE MeshLink
Pose == INSTANCE PoseStream
          WITH Peers <- MCPeers, States <- MCStates, Scenarios <- MCScenarios,
               MaxQueued <- MaxPosesQueued, net <- poses, peer <- recipient
Voice == INSTANCE VoiceChat WITH peer <- stream

ASSUME Mesh!BoundsAssumption /\ Pose!PoseStreamAssumption /\ Voice!VoiceAssumption

meshVars == <<cloud, link, chan, air, drops, missed>>
poseVars == <<setup, sender, poses, acks, recipient, taken>>
voiceVars == <<mic, muted, number, flight, member, events, enabled, stream, sent, heard, turns>>

AtRest == "at rest"
MeshRests == cloud = AtRest /\ link = AtRest /\ chan = AtRest /\ air = AtRest
             /\ drops = AtRest /\ missed = AtRest
PoseRests == setup = AtRest /\ sender = AtRest /\ poses = AtRest /\ acks = AtRest
             /\ recipient = AtRest /\ taken = AtRest
VoiceRests == mic = AtRest /\ muted = AtRest /\ number = AtRest /\ flight = AtRest
              /\ member = AtRest /\ events = AtRest /\ enabled = AtRest /\ stream = AtRest
              /\ sent = AtRest /\ heard = AtRest /\ turns = AtRest

LinksInit ==
    /\ Init
    /\ \/ part = "session" /\ MeshRests /\ PoseRests /\ VoiceRests
       \/ part = "mesh" /\ Mesh!Init /\ PoseRests /\ VoiceRests
       \/ part = "pose" /\ MeshRests /\ Pose!Init /\ VoiceRests
       \/ part = "voice" /\ MeshRests /\ PoseRests /\ Voice!Init

LinksNext ==
    /\ UNCHANGED part
    /\ \/ part = "session" /\ Next /\ UNCHANGED <<meshVars, poseVars, voiceVars>>
       \/ part = "mesh" /\ Mesh!Next /\ UNCHANGED <<vars, poseVars, voiceVars>>
       \/ part = "pose" /\ Pose!Next /\ UNCHANGED <<vars, meshVars, voiceVars>>
       \/ part = "voice" /\ Voice!Next /\ UNCHANGED <<vars, meshVars, poseVars>>

LinksSpec == LinksInit /\ [][LinksNext]_<<part, vars, meshVars, poseVars, voiceVars>>

-----------------------------------------------------------------------------
(* The properties of the instances, where their protocol is the one that runs. *)

\* Agents that hold each other's descriptions were made for each other, traffic
\* goes direct only after a round trip, and until a description is lost or
\* refused the two can meet and finish their handshake.
MeshSafety ==
    part = "mesh" => /\ Mesh!TypeOK /\ Mesh!SignalsMatchAgents /\ Mesh!DirectHasRoundTrip
                     /\ Mesh!CanMeet /\ Mesh!CanStillFinish

\* A recipient of a delta holds the snapshot it starts from and gets the very
\* state, poses reach the game in order, and the pacer holds only the newest.
PoseSafety ==
    part = "pose" => /\ Pose!TypeOK /\ Pose!BaselineHeld /\ Pose!DeltaExact
                     /\ Pose!PosesInOrder /\ Pose!PacerHoldsNewest

\* Frames are played once and in order, a silent stream waits for no more than
\* its queue may hold, and nothing is kept for one that left.
VoiceSafety ==
    part = "voice" => /\ Voice!TypeOK /\ Voice!SpokenOrder /\ Voice!SpeechStarts
                      /\ Voice!SpeechIsFresh /\ Voice!NoStreamOfAbsent
=============================================================================
