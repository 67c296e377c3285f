----------------------------- MODULE VoiceChat -----------------------------
(***************************************************************************)
(* Voice from one player to another: capture at the talker, datagrams that *)
(* are lost, late or out of order, and the playback stream the listener    *)
(* keeps for the talker, which waits for some frames before it plays and   *)
(* starts over when it runs dry or falls behind.                           *)
(*                                                                         *)
(* A tick is the length of a frame, 20 ms: the microphone makes one frame  *)
(* and a playing stream uses one.  The game polls capture() when it gets   *)
(* to it, so a stall leaves frames in the microphone's stream.  A frame is *)
(* its number; 0 is one the decoder made up for a frame that is missing.   *)
(***************************************************************************)
EXTENDS Integers, Sequences, FiniteSets, FiniteSetsExt, SequencesExt

CONSTANTS
  Prebuffer,     \* prebufferFrames: frames to wait for before playing
  MaxPrebuffer,  \* the most it grows to
  MaxQueued,     \* maxQueuedFrames
  MaxConcealed,  \* frames made up for one gap
  LongGap,       \* ticks without a frame after which the stream starts over
  DryGap,        \* ticks after which a stream that ran dry starts over
  MaxBacklog,    \* frames capture() leaves in the microphone's stream
  MaxFrames,     \* frames that one call of capture() sends
  MaxSequence,   \* numbers used (bound)
  MaxTurns,      \* how often voice is switched or the talker leaves (bound)
  MaxInFlight    \* datagrams under way (bound)

VoiceAssumption ==
  /\ {Prebuffer, MaxPrebuffer, MaxQueued, MaxConcealed, LongGap, DryGap,
      MaxBacklog, MaxFrames, MaxSequence, MaxTurns, MaxInFlight} \subseteq Nat
  /\ 0 < Prebuffer /\ Prebuffer <= MaxPrebuffer /\ MaxPrebuffer <= MaxQueued
  /\ DryGap <= LongGap

VARIABLES
  mic,      \* the ages, in ticks, of the frames in the microphone's stream
  muted,
  number,   \* nextSequence of the talker
  flight,   \* the datagrams under way
  member,   \* is the talker in the room, as the listener's transport knows
  events,   \* the listener's event queue
  enabled,  \* is the listener's voice chat on
  peer,     \* the listener's state for the talker, or NoPeer
  sent,     \* history: the greatest age a frame was sent at
  heard,    \* history: the frames played since the stream was opened
  turns

vars == <<mic, muted, number, flight, member, events, enabled, peer, sent,
          heard, turns>>

NoPeer == [open |-> FALSE, sequence |-> 0, playing |-> FALSE, idle |-> 0,
           prebuffer |-> Prebuffer, queue |-> <<>>]

Init ==
  /\ mic = <<>>
  /\ muted = FALSE
  /\ number = 0
  /\ flight = {}
  /\ member = TRUE
  /\ events = <<>>
  /\ enabled = TRUE
  /\ peer = NoPeer
  /\ sent = 0
  /\ heard = <<>>
  /\ turns = 0

Turn == turns < MaxTurns /\ turns' = turns + 1

-----------------------------------------------------------------------------
(***************************************************************************)
(* The talker.                                                             *)
(***************************************************************************)

\* 20 ms go by: the microphone, the playback device and the clock move.
Tick ==
  /\ mic' = IF muted \/ number = MaxSequence THEN <<>>
            ELSE Append([i \in 1..Len(mic) |-> mic[i] + 1], 0)
  /\ Len(mic') <= MaxBacklog + MaxFrames + 1
  /\ peer' = [peer EXCEPT
                !.idle = IF peer.open /\ @ <= LongGap THEN @ + 1 ELSE @,
                !.queue = IF peer.playing /\ @ # <<>> THEN Tail(@) ELSE @]
  /\ heard' = IF peer.playing /\ peer.queue # <<>>
              THEN Append(heard, Head(peer.queue)) ELSE heard
  /\ UNCHANGED <<muted, number, flight, member, events, enabled, sent, turns>>

\* capture(): after a stall the oldest frames are thrown away.
DropStale(stream) ==
  SubSeq(stream, Max({0, Len(stream) - MaxBacklog}) + 1, Len(stream))

Capture ==
  LET stream == DropStale(mic)
      count == Min({Len(stream), MaxFrames, MaxSequence - number})
  IN  /\ mic # <<>>
      /\ count > 0
      /\ Cardinality(flight) + count <= MaxInFlight
      /\ mic' = SubSeq(stream, count + 1, Len(stream))
      /\ number' = number + count
      /\ flight' = flight \cup (number + 1..number + count)
      /\ sent' = Max({sent} \cup {stream[i] : i \in 1..count})
      /\ UNCHANGED <<muted, member, events, enabled, peer, heard, turns>>

\* configure() with the microphone muted or not; closing it drops what it held.
Mute ==
  /\ Turn
  /\ muted' = ~muted
  /\ mic' = <<>>
  /\ UNCHANGED <<number, flight, member, events, enabled, peer, sent, heard>>

-----------------------------------------------------------------------------
(***************************************************************************)
(* The network and the listener's transport.                               *)
(***************************************************************************)

Lose(n) ==
  /\ n \in flight
  /\ flight' = flight \ {n}
  /\ UNCHANGED <<mic, muted, number, member, events, enabled, peer, sent, heard, turns>>

\* pump_udp: only datagrams of a player in the room become events.
Admit(n) == events' = IF member THEN Append(events, n) ELSE events

Arrive(n) ==
  /\ n \in flight
  /\ Len(events) < 2
  /\ flight' = flight \ {n}
  /\ Admit(n)
  /\ UNCHANGED <<mic, muted, number, member, enabled, peer, sent, heard, turns>>

\* peer_left reaches the transport; the event for the game is 0.
TalkerLeaves ==
  /\ member
  /\ Len(events) < 2
  /\ Turn
  /\ member' = FALSE
  /\ events' = Append(events, 0)
  /\ UNCHANGED <<mic, muted, number, flight, enabled, peer, sent, heard>>

-----------------------------------------------------------------------------
(***************************************************************************)
(* The listener's playback.                                                *)
(***************************************************************************)

\* clearStream, pauseStream
StartOver(p) == [p EXCEPT !.queue = <<>>, !.playing = FALSE]

PatientForever(p) == [p EXCEPT !.prebuffer = @ + 1]

\* Each time the stream runs out, it waits for one frame more.
Patient(p) == [p EXCEPT !.prebuffer = Min({@ + 1, MaxPrebuffer})]

\* A stream that has fallen too far behind is emptied.
Overrun(p) == IF Len(p.queue) > MaxQueued THEN StartOver(p) ELSE p

\* The decisions of receive() before the frame is decoded: a long silence, a
\* stream that ran dry, and one that overflows.
Prepared(p) ==
  LET quiet == IF p.idle >= LongGap THEN Patient(StartOver(p)) ELSE p
      dry == quiet.playing /\ quiet.queue = <<>> /\ p.idle >= DryGap
      ready == IF dry THEN Patient(StartOver(quiet)) ELSE quiet
  IN  Overrun(ready)

Concealed(p, n) ==
  IF p.sequence = 0 THEN <<>>
  ELSE [i \in 1..Min({n - p.sequence - 1, MaxConcealed}) |-> 0]

Accepts(p, n) == n > p.sequence

\* receive()
Receive(p, n) ==
  IF ~Accepts(p, n) THEN [p EXCEPT !.open = TRUE]
  ELSE LET ready == Prepared(p)
           q == [ready EXCEPT !.open = TRUE, !.idle = 0, !.sequence = n,
                              !.queue = @ \o Concealed(p, n) \o <<n>>]
       IN  [q EXCEPT !.playing = @ \/ Len(q.queue) >= q.prebuffer]

\* The next event: speech, or the departure of the talker (peer_left)
PopEvent ==
  /\ events # <<>>
  /\ events' = Tail(events)
  /\ peer' = IF Head(events) = 0 THEN NoPeer
             ELSE IF enabled THEN Receive(peer, Head(events)) ELSE peer
  /\ heard' = IF peer'.open /\ peer.open THEN heard ELSE <<>>
  /\ UNCHANGED <<mic, muted, number, flight, member, enabled, sent, turns>>

\* configure(enabled) and stop()
Toggle ==
  /\ Turn
  /\ enabled' = ~enabled
  /\ peer' = IF enabled THEN NoPeer ELSE peer
  /\ heard' = IF enabled THEN <<>> ELSE heard
  /\ UNCHANGED <<mic, muted, number, flight, member, events, sent>>

Next ==
  \/ Tick \/ Capture \/ Mute \/ TalkerLeaves \/ PopEvent \/ Toggle
  \/ \E n \in flight : Lose(n) \/ Arrive(n)

Spec == Init /\ [][Next]_vars

-----------------------------------------------------------------------------

\* The states are well formed, and a queue is never longer than a full one,
\* what is made up for one gap and one frame: speech is not played ever later.
TypeOK ==
  /\ number \in 0..MaxSequence
  /\ flight \subseteq 1..MaxSequence
  /\ peer.sequence \in 0..MaxSequence
  /\ peer.prebuffer \in Nat
  /\ Len(peer.queue) <= MaxQueued + MaxConcealed + 1
  /\ turns \in 0..MaxTurns

\* Frames that arrive late or out of order are not played after newer ones,
\* and none is played twice, while the stream is open.
SpokenOrder ==
  LET real == SelectSeq(heard \o peer.queue, LAMBDA n : n # 0) IN
  \A i, j \in 1..Len(real) : i < j => real[i] < real[j]

\* A stream that is silent although it has frames is waiting for more, and for
\* no more than it may hold: however often it ran dry, further speech starts it.
SpeechStarts ==
  (peer.open /\ ~peer.playing) =>
    /\ Len(peer.queue) < peer.prebuffer
    /\ peer.prebuffer <= MaxQueued

\* A frame is sent soon after it was spoken, however long the game stalled.
SpeechIsFresh == sent <= MaxBacklog

\* Once the listener has handled the talker's departure it keeps no stream
\* for it, whatever datagrams were under way.
NoStreamOfAbsent == (~member /\ events = <<>>) => ~peer.open
=============================================================================
