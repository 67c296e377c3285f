---------------------------- MODULE PeerDelivery ----------------------------
(***************************************************************************)
(* Reliable delivery from one room member (the sender) to another (the     *)
(* receiver) across two carriers: the direct peer link and the relay.      *)
(*                                                                         *)
(* Each carrier is a reliable ordered stream (KCP), but they do not order  *)
(* frames between them.  The sender numbers its frames from one, keeps a   *)
(* journal of the frames that no receipt covers, sends a new frame on the  *)
(* carrier that is usable now, and replays the journal when its tick       *)
(* notices that the usable carrier has changed.  The receiver holds frames *)
(* that arrive ahead of a gap and applies only contiguous ones.            *)
(*                                                                         *)
(* Whether the direct route is usable is decided by the connection worker  *)
(* thread (echo probes and a clock), so it can change between any two      *)
(* steps of the game thread, on either side independently.                 *)
(***************************************************************************)
EXTENDS Integers, Sequences, FiniteSets

CONSTANTS
  Body,          \* gameplay bodies
  Window,        \* the journal and gap bound, 4096 in the code
  MaxSequence,   \* UINT64_MAX in the code: a number no frame may carry
  RelayFallback, \* TRUE in a relay room; a cloud room has only the direct link
  MaxFlips       \* how often the direct route appears or disappears

ASSUME DeliveryAssumption ==
  /\ Window \in Nat \ {0}
  /\ MaxSequence \in Nat \ {0}
  /\ RelayFallback \in BOOLEAN
  /\ MaxFlips \in Nat

Carrier == {"direct", "relay"}
Side == {"sender", "receiver"}

\* Why a member gave the session up: what it received was impossible
\* ("protocol"), its journal was full ("limit"), or a carrier's own stream
\* died or its queue overflowed ("carrier").
Failure == {"none", "protocol", "limit", "carrier"}

Frame == [sequence : Nat, body : Body]

VARIABLES
  nextSend,     \* sender: number of the next frame
  sent,         \* sender: journal of unacknowledged frames, number -> body
  route,        \* sender: the direct route's state as the last tick saw it
  nextReceive,  \* receiver: number of the next frame to apply
  received,     \* receiver: frames held behind a gap, number -> body
  ackPending,   \* receiver: receipt still to be sent, 0 if none
  direct,       \* each side: is the direct route usable right now
  data,         \* frames in flight, per carrier
  acks,         \* receipts in flight, per carrier
  failure,      \* each side
  flips,        \* number of route changes so far (bound)
  submitted,    \* history: every body that was given a number
  applied       \* history: every body the receiver applied

senderVars == <<nextSend, sent, submitted>>
receiverVars == <<nextReceive, received, ackPending, applied>>
vars == <<nextSend, sent, route, nextReceive, received, ackPending, direct,
          data, acks, failure, flips, submitted, applied>>

Running(side) == failure[side] = "none"

Fail(side, why) == failure' = [failure EXCEPT ![side] = why]

Init ==
  /\ nextSend = 1
  /\ sent = [s \in {} |-> CHOOSE b \in Body : TRUE]
  /\ route = FALSE
  /\ nextReceive = 1
  /\ received = [s \in {} |-> CHOOSE b \in Body : TRUE]
  /\ ackPending = 0
  /\ direct = [side \in Side |-> FALSE]
  /\ data = [c \in Carrier |-> <<>>]
  /\ acks = [c \in Carrier |-> <<>>]
  /\ failure = [side \in Side |-> "none"]
  /\ flips = 0
  /\ submitted = <<>>
  /\ applied = <<>>

-----------------------------------------------------------------------------
(***************************************************************************)
(* The sender.                                                             *)
(***************************************************************************)

\* Mutant: nothing falls back to the relay.
UsableDirectOnly(side) == IF direct[side] THEN {"direct"} ELSE {}

\* The carriers a side may put something on now.  A cloud room has no second
\* carrier: without a direct route there is none.
UsableCarrier(side) ==
  IF direct[side] THEN {"direct"}
  ELSE IF RelayFallback THEN {"relay"} ELSE {}

\* Mutant: the journal is not bounded.
JournalUnbounded == nextSend = MaxSequence

JournalFull == Cardinality(DOMAIN sent) >= Window \/ nextSend = MaxSequence

\* A new frame enters the journal and goes out on the usable carrier, if any.
SendDelivery(b) ==
  /\ Running("sender")
  /\ ~JournalFull
  /\ nextSend' = nextSend + 1
  /\ sent' = [s \in DOMAIN sent \cup {nextSend} |->
                IF s = nextSend THEN b ELSE sent[s]]
  /\ submitted' = Append(submitted, b)
  /\ data' = [c \in Carrier |->
                IF c \in UsableCarrier("sender")
                THEN Append(data[c], [sequence |-> nextSend, body |-> b])
                ELSE data[c]]
  /\ UNCHANGED <<route, receiverVars, direct, acks, failure, flips>>

\* A body the journal cannot take: the caller tears the session down.
RefuseDelivery ==
  /\ Running("sender")
  /\ JournalFull
  /\ Fail("sender", "limit")
  /\ UNCHANGED <<senderVars, route, receiverVars, direct, data, acks, flips>>

\* The journal as the frames a replay puts on a carrier, oldest first.
JournalFrames ==
  LET first == nextSend - Cardinality(DOMAIN sent)
  IN [i \in 1..Cardinality(DOMAIN sent) |->
        [sequence |-> first + i - 1, body |-> sent[first + i - 1]]]

\* The tick compares the route with what it saw last and, when it differs,
\* replays the journal on the carrier that is usable now.
ResendDelivery ==
  /\ Running("sender")
  /\ route # direct["sender"]
  /\ route' = direct["sender"]
  /\ data' = [c \in Carrier |->
                IF c \in UsableCarrier("sender")
                THEN data[c] \o JournalFrames ELSE data[c]]
  /\ UNCHANGED <<senderVars, receiverVars, direct, acks, failure, flips>>

\* Mutant: a receipt releases one entry too many.
ReleaseTooMany(c) ==
  /\ Running("sender")
  /\ acks[c] # <<>>
  /\ acks' = [acks EXCEPT ![c] = Tail(@)]
  /\ sent' = [s \in {n \in DOMAIN sent : n > Head(acks[c]) + 1} |-> sent[s]]
  /\ UNCHANGED <<failure, nextSend, submitted, route, receiverVars, direct, data, flips>>

\* A receipt releases every journal entry it covers; a receipt for a frame
\* that was never sent is a protocol failure.
ReceiveReceipt(c) ==
  /\ Running("sender")
  /\ acks[c] # <<>>
  /\ acks' = [acks EXCEPT ![c] = Tail(@)]
  /\ LET ack == Head(acks[c])
     IN IF ack >= nextSend
        THEN Fail("sender", "protocol") /\ UNCHANGED sent
        ELSE /\ sent' = [s \in {n \in DOMAIN sent : n > ack} |-> sent[s]]
             /\ UNCHANGED failure
  /\ UNCHANGED <<nextSend, submitted, route, receiverVars, direct, data, flips>>

-----------------------------------------------------------------------------
(***************************************************************************)
(* The receiver.                                                           *)
(***************************************************************************)

\* A frame that cannot come from a conforming sender.
InvalidFrame(frame) ==
  \/ frame.sequence \in {0, MaxSequence}
  \/ frame.sequence - nextReceive >= Window
  \/ /\ frame.sequence \in DOMAIN received
     /\ received[frame.sequence] # frame.body

\* Mutant: a frame is applied as it arrives, gap or not.
ApplyAcrossGap(frame) ==
  /\ nextReceive' = frame.sequence + 1
  /\ applied' = Append(applied, frame.body)
  /\ ackPending' = frame.sequence
  /\ UNCHANGED received

\* Everything from nextReceive up to the first gap is applied in order.
ApplyContiguous(frame) ==
  LET held == [s \in DOMAIN received \cup {frame.sequence} |->
                 IF s = frame.sequence THEN frame.body ELSE received[s]]
  IN \E gap \in nextReceive .. nextReceive + Window :
       /\ gap \notin DOMAIN held
       /\ \A s \in nextReceive .. gap - 1 : s \in DOMAIN held
       /\ nextReceive' = gap
       /\ received' = [s \in {n \in DOMAIN held : n > gap} |-> held[s]]
       /\ applied' = applied \o [i \in 1 .. gap - nextReceive |->
                                   held[nextReceive + i - 1]]
       /\ ackPending' = gap - 1

ReceiveDelivery(c) ==
  /\ Running("receiver")
  /\ data[c] # <<>>
  /\ data' = [data EXCEPT ![c] = Tail(@)]
  /\ LET frame == Head(data[c])
     IN IF frame.sequence \in 1 .. nextReceive - 1
        THEN /\ ackPending' = nextReceive - 1
             /\ UNCHANGED <<nextReceive, received, applied, failure>>
        ELSE IF InvalidFrame(frame)
        THEN Fail("receiver", "protocol") /\ UNCHANGED receiverVars
        ELSE /\ \/ frame.sequence \in DOMAIN received /\ UNCHANGED receiverVars
                \/ frame.sequence \notin DOMAIN received /\ ApplyContiguous(frame)
             /\ UNCHANGED failure
  /\ UNCHANGED <<senderVars, route, direct, acks, flips>>

\* Mutant: a receipt that finds no direct route is dropped.
DropReceipt ==
  /\ Running("receiver")
  /\ ackPending # 0
  /\ acks' = [c \in Carrier |-> IF c = "direct" /\ direct["receiver"]
                                THEN Append(acks[c], ackPending) ELSE acks[c]]
  /\ ackPending' = 0
  /\ UNCHANGED <<senderVars, route, nextReceive, received, applied, direct,
                 data, failure, flips>>

\* The pump sends the pending receipt on the usable carrier; a cloud room
\* keeps it pending until the direct route is back.
SendReceipt ==
  /\ Running("receiver")
  /\ ackPending # 0
  /\ \E c \in UsableCarrier("receiver") :
       acks' = [acks EXCEPT ![c] = Append(@, ackPending)]
  /\ ackPending' = 0
  /\ UNCHANGED <<senderVars, route, nextReceive, received, applied, direct,
                 data, failure, flips>>

-----------------------------------------------------------------------------
(***************************************************************************)
(* The environment.                                                        *)
(***************************************************************************)

\* The worker thread gains or loses the echo that makes the route usable.
FlipRoute(side) ==
  /\ flips < MaxFlips
  /\ flips' = flips + 1
  /\ direct' = [direct EXCEPT ![side] = ~@]
  /\ UNCHANGED <<senderVars, route, receiverVars, data, acks, failure>>

\* A stream makes no progress for 30 seconds or its bounded queue overflows.
CarrierFails(side) ==
  /\ Running(side)
  /\ Fail(side, "carrier")
  /\ UNCHANGED <<senderVars, route, receiverVars, direct, data, acks, flips>>

-----------------------------------------------------------------------------
Next ==
  \/ \E b \in Body : SendDelivery(b)
  \/ RefuseDelivery
  \/ ResendDelivery
  \/ \E c \in Carrier : ReceiveReceipt(c)
  \/ \E c \in Carrier : ReceiveDelivery(c)
  \/ SendReceipt
  \/ \E side \in Side : FlipRoute(side)
  \/ \E side \in Side : CarrierFails(side)

Spec == Init /\ [][Next]_vars

\* Both members tick every frame and the carriers are reliable streams.
\* Nobody is obliged to submit, and the route need not ever change.
Fairness ==
  /\ WF_vars(ResendDelivery)
  /\ WF_vars(SendReceipt)
  /\ \A c \in Carrier : WF_vars(ReceiveReceipt(c)) /\ WF_vars(ReceiveDelivery(c))

FairSpec == Spec /\ Fairness

-----------------------------------------------------------------------------
(***************************************************************************)
(* Properties.                                                             *)
(***************************************************************************)

\* Every variable of the two members and the carriers stays in its type.
TypeOK ==
  /\ nextSend \in Nat \ {0}
  /\ DOMAIN sent \in SUBSET (1 .. nextSend - 1)
  /\ sent \in [DOMAIN sent -> Body]
  /\ route \in BOOLEAN
  /\ nextReceive \in Nat \ {0}
  /\ DOMAIN received \in SUBSET Nat
  /\ received \in [DOMAIN received -> Body]
  /\ ackPending \in Nat
  /\ direct \in [Side -> BOOLEAN]
  /\ data \in [Carrier -> Seq(Frame)]
  /\ acks \in [Carrier -> Seq(Nat)]
  /\ failure \in [Side -> Failure]
  /\ flips \in 0 .. MaxFlips
  /\ submitted \in Seq(Body)
  /\ applied \in Seq(Body)

\* Between conforming members no combination of route changes, replays and
\* late duplicates makes receive_delivery report an impossible frame or
\* receipt: neither the gap bound nor "acknowledges unsent" ever trips.
NoProtocolFailure == \A side \in Side : failure[side] # "protocol"

\* The journal can still replay everything the receiver has not applied.
JournalCoversUnapplied == nextReceive .. nextSend - 1 \subseteq DOMAIN sent

\* The inductive invariant behind the two properties above and the FIFO
\* refinement: how the numbers, the journal, both carriers, the gap buffer and
\* the receipts relate, whatever the interleaving of replays and route changes.
Numbering ==
  /\ nextSend = Len(submitted) + 1
  /\ nextSend <= MaxSequence
  /\ nextReceive <= nextSend

Genuine(number, body) ==
  /\ number \in 1 .. nextSend - 1
  /\ body = submitted[number]

JournalContiguous ==
  /\ \E first \in 1 .. nextReceive : DOMAIN sent = first .. nextSend - 1
  /\ \A s \in DOMAIN sent : Genuine(s, sent[s])
  /\ Cardinality(DOMAIN sent) <= Window

FramesGenuine ==
  \A c \in Carrier : \A i \in 1 .. Len(data[c]) :
    Genuine(data[c][i].sequence, data[c][i].body)

HeldGenuine ==
  \A s \in DOMAIN received : s > nextReceive /\ Genuine(s, received[s])

ReceiptsCovered ==
  /\ ackPending < nextReceive
  /\ \A c \in Carrier : \A i \in 1 .. Len(acks[c]) : acks[c][i] < nextReceive

AppliedPrefix ==
  /\ Len(applied) = nextReceive - 1
  /\ \A i \in 1 .. Len(applied) : applied[i] = submitted[i]

DeliveryInv ==
  /\ Numbering
  /\ JournalContiguous
  /\ FramesGenuine
  /\ HeldGenuine
  /\ ReceiptsCovered
  /\ AppliedPrefix
  /\ NoProtocolFailure

\* Delivery is a FIFO channel: in order, without loss or duplication.
Fifo == INSTANCE FifoChannel WITH Body <- Body, submitted <- submitted, applied <- applied
FifoSpec == Fifo!Spec

Failed == \E side \in Side : ~Running(side)

\* Every frame that was given a number is applied, unless the session fails.
EventuallyApplied ==
  \A n \in 1 .. MaxSequence - 1 :
    (nextSend > n) ~> (nextReceive > n \/ Failed)

\* The receipts drain the journal once nothing new is sent.
JournalDrains == (DOMAIN sent # {}) ~> (DOMAIN sent = {} \/ Failed)

\* The same promise for a cloud room, which has no other carrier: it is owed
\* only if the direct route is in the end usable at both members.
AppliedOnceDirect ==
  <>[](\A side \in Side : direct[side]) => EventuallyApplied
=============================================================================
