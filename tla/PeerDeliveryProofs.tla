------------------------- MODULE PeerDeliveryProofs -------------------------
(***************************************************************************)
(* For every set of bodies, every window, every number bound and every     *)
(* number of route changes, and with or without the relay as a second      *)
(* carrier: reliable peer delivery keeps DeliveryInv, so no conforming     *)
(* member ever reports a protocol failure, and it implements FifoChannel.  *)
(***************************************************************************)
EXTENDS PeerDelivery, SequenceLemmas, TLAPS, FiniteSetTheorems

Inv == TypeOK /\ DeliveryInv

-----------------------------------------------------------------------------
(***************************************************************************)
(* Facts about the pieces of the state.                                    *)
(***************************************************************************)

\* The journal holds exactly the numbers first .. nextSend - 1, and first is
\* what JournalFrames computes from its size.
LEMMA JournalShape ==
  ASSUME Inv
  PROVE  /\ IsFiniteSet(DOMAIN sent)
         /\ Cardinality(DOMAIN sent) \in Nat
         /\ nextSend - Cardinality(DOMAIN sent) >= 1
         /\ nextSend - Cardinality(DOMAIN sent) <= nextReceive
         /\ DOMAIN sent = nextSend - Cardinality(DOMAIN sent) .. nextSend - 1
<1>1. nextSend \in Nat \ {0} /\ nextReceive \in Nat \ {0} /\ nextReceive <= nextSend
  BY DEF Inv, TypeOK, DeliveryInv, Numbering
<1>2. PICK first \in 1 .. nextReceive : DOMAIN sent = first .. nextSend - 1
  BY DEF Inv, DeliveryInv, JournalContiguous
<1>3. first \in Int /\ nextSend - 1 \in Int /\ first <= nextSend
  BY <1>1, <1>2
<1>4. IsFiniteSet(first .. nextSend - 1)
      /\ Cardinality(first .. nextSend - 1) =
           IF first > nextSend - 1 THEN 0 ELSE nextSend - 1 - first + 1
  BY <1>3, FS_Interval
<1>5. Cardinality(DOMAIN sent) = nextSend - first
  BY <1>1, <1>2, <1>3, <1>4
<1> QED BY <1>1, <1>2, <1>3, <1>4, <1>5

\* Nothing in flight is more than a window ahead of the receiver: this is
\* why the gap bound never trips.
LEMMA WithinWindow ==
  ASSUME Inv
  PROVE  nextSend - nextReceive <= Window
BY JournalShape, DeliveryAssumption, SMTT(30)
   DEF Inv, TypeOK, DeliveryInv, JournalContiguous

\* A replay puts genuine frames on the carrier.
LEMMA JournalFramesGenuine ==
  ASSUME Inv
  PROVE  /\ JournalFrames \in Seq(Frame)
         /\ \A i \in 1 .. Len(JournalFrames) :
              Genuine(JournalFrames[i].sequence, JournalFrames[i].body)
<1> DEFINE n == Cardinality(DOMAIN sent)
           first == nextSend - n
<1>1. /\ n \in Nat /\ first >= 1 /\ DOMAIN sent = first .. nextSend - 1
      /\ nextSend \in Nat \ {0} /\ first \in Int
  BY JournalShape DEF Inv, TypeOK
<1>2. \A i \in 1 .. n : /\ first + i - 1 \in DOMAIN sent
                        /\ first + i - 1 \in Nat
                        /\ sent[first + i - 1] \in Body
                        /\ Genuine(first + i - 1, sent[first + i - 1])
  <2>1. \A i \in 1 .. n : first + i - 1 \in DOMAIN sent /\ first + i - 1 \in Nat
    BY <1>1
  <2> QED BY <2>1 DEF Inv, TypeOK, DeliveryInv, JournalContiguous
<1>3. JournalFrames = [i \in 1 .. n |->
                         [sequence |-> first + i - 1, body |-> sent[first + i - 1]]]
  BY DEF JournalFrames
<1> HIDE DEF n, first
<1>4. JournalFrames \in [1 .. n -> Frame]
  BY <1>1, <1>2, <1>3 DEF Frame
<1>5. JournalFrames \in Seq(Frame) /\ Len(JournalFrames) = n
  BY <1>1, <1>4
<1> QED BY <1>2, <1>3, <1>5

-----------------------------------------------------------------------------
(***************************************************************************)
(* The invariant holds initially and every action keeps it.                *)
(***************************************************************************)

\* The invariant holds at the start.
LEMMA InitInv == Init => Inv
<1> SUFFICES ASSUME Init PROVE Inv
  OBVIOUS
<1>1. DOMAIN sent = {} /\ DOMAIN received = {} /\ sent \in [{} -> Body]
      /\ received \in [{} -> Body]
  BY DEF Init
<1>2. TypeOK
  <2>1. DOMAIN sent \in SUBSET (1 .. nextSend - 1) /\ DOMAIN received \in SUBSET Nat
    BY <1>1
  <2>2. failure \in [Side -> Failure] /\ direct \in [Side -> BOOLEAN]
    BY DEF Init, Side, Failure
  <2>3. data \in [Carrier -> Seq(Frame)] /\ acks \in [Carrier -> Seq(Nat)]
    BY DEF Init
  <2>4. sent \in [DOMAIN sent -> Body] /\ received \in [DOMAIN received -> Body]
    BY <1>1
  <2>5. /\ nextSend \in Nat \ {0} /\ nextReceive \in Nat \ {0} /\ ackPending \in Nat
        /\ flips \in 0 .. MaxFlips
        /\ submitted \in Seq(Body) /\ applied \in Seq(Body)
    BY DeliveryAssumption DEF Init
  <2>6. route \in BOOLEAN
    BY DEF Init
  <2> QED BY <2>1, <2>2, <2>3, <2>4, <2>5, <2>6 DEF TypeOK
<1>3. Numbering /\ FramesGenuine /\ HeldGenuine /\ ReceiptsCovered
      /\ AppliedPrefix /\ NoProtocolFailure
  BY <1>1, DeliveryAssumption
     DEF Init, Numbering, FramesGenuine, HeldGenuine, ReceiptsCovered,
         AppliedPrefix, NoProtocolFailure, Side, Carrier
<1>4. JournalContiguous
  <2>1. 1 \in 1 .. nextReceive /\ DOMAIN sent = 1 .. nextSend - 1
    BY <1>1 DEF Init
  <2>2. Cardinality(DOMAIN sent) = 0
    BY <1>1, FS_EmptySet
  <2> QED BY <1>1, <2>1, <2>2, DeliveryAssumption DEF JournalContiguous
<1> QED BY <1>2, <1>3, <1>4 DEF Inv, DeliveryInv

\* Steps that touch neither the numbers, the journal, the gap buffer nor what
\* is in flight: they can only disturb the failure flags and the routes.
LEMMA QuietStep ==
  ASSUME Inv,
         UNCHANGED <<senderVars, receiverVars, data, acks>>,
         route' \in BOOLEAN, direct' \in [Side -> BOOLEAN],
         flips' \in 0 .. MaxFlips, failure' \in [Side -> Failure],
         NoProtocolFailure'
  PROVE  Inv'
BY DEF Inv, TypeOK, DeliveryInv, Numbering, JournalContiguous, FramesGenuine,
       HeldGenuine, ReceiptsCovered, AppliedPrefix, Genuine, senderVars,
       receiverVars

\* A full journal or window refuses a delivery: that is no protocol failure.
LEMMA RefuseInv == ASSUME Inv, RefuseDelivery PROVE Inv'
<1>1. failure' \in [Side -> Failure] /\ NoProtocolFailure'
  BY DEF Inv, TypeOK, DeliveryInv, NoProtocolFailure, RefuseDelivery, Fail,
         Side, Failure
<1> QED BY <1>1, QuietStep DEF RefuseDelivery, Inv, TypeOK, senderVars, receiverVars

\* The carrier is chosen anew.
LEMMA FlipInv ==
  ASSUME Inv, NEW side \in Side, FlipRoute(side) PROVE Inv'
<1>1. direct' \in [Side -> BOOLEAN] /\ flips' \in 0 .. MaxFlips
  BY DeliveryAssumption DEF Inv, TypeOK, FlipRoute
<1>2. NoProtocolFailure'
  BY DEF Inv, DeliveryInv, NoProtocolFailure, FlipRoute
<1> QED BY <1>1, <1>2, QuietStep DEF FlipRoute, Inv, TypeOK

\* A carrier that fails ends the side: that is no protocol failure either.
LEMMA CarrierFailsInv ==
  ASSUME Inv, NEW side \in Side, CarrierFails(side) PROVE Inv'
<1>1. failure' \in [Side -> Failure] /\ NoProtocolFailure'
  BY DEF Inv, TypeOK, DeliveryInv, NoProtocolFailure, CarrierFails, Fail,
         Side, Failure
<1> QED BY <1>1, QuietStep DEF CarrierFails, Inv, TypeOK

\* A new frame extends the journal and the log by the same body.
LEMMA SendInv ==
  ASSUME Inv, NEW b \in Body, SendDelivery(b) PROVE Inv'
<1>1. /\ nextSend \in Nat \ {0} /\ nextSend' = nextSend + 1
      /\ nextReceive \in Nat \ {0} /\ nextReceive' = nextReceive
      /\ nextSend = Len(submitted) + 1 /\ nextSend <= MaxSequence
      /\ nextReceive <= nextSend /\ nextSend # MaxSequence
      /\ MaxSequence \in Nat /\ Window \in Nat
  BY DeliveryAssumption
     DEF Inv, TypeOK, DeliveryInv, Numbering, SendDelivery, receiverVars, JournalFull
<1>2. /\ submitted \in Seq(Body) /\ submitted' \in Seq(Body)
      /\ Len(submitted') = nextSend
      /\ \A i \in 1 .. nextSend - 1 : submitted'[i] = submitted[i]
      /\ submitted'[nextSend] = b
  BY <1>1 DEF Inv, TypeOK, SendDelivery
<1>3. Numbering'
  BY <1>1, <1>2 DEF Numbering
<1>4. /\ DOMAIN sent' = DOMAIN sent \cup {nextSend}
      /\ \A s \in DOMAIN sent : s \in 1 .. nextSend - 1 /\ sent'[s] = sent[s]
      /\ sent'[nextSend] = b
      /\ sent' \in [DOMAIN sent' -> Body]
  BY <1>1 DEF SendDelivery, Inv, TypeOK
<1>5. JournalContiguous'
  <2>1. PICK first \in 1 .. nextReceive : DOMAIN sent = first .. nextSend - 1
    BY DEF Inv, DeliveryInv, JournalContiguous
  <2>2. DOMAIN sent' = first .. nextSend' - 1 /\ first \in 1 .. nextReceive'
    BY <1>1, <1>4, <2>1
  <2>3. (\A s \in DOMAIN sent : Genuine(s, sent[s]))'
    <3>1. \A s \in DOMAIN sent : s \in 1 .. nextSend - 1 /\ sent[s] = submitted[s]
      BY DEF Inv, DeliveryInv, JournalContiguous, Genuine
    <3>2. \A s \in DOMAIN sent' : s \in 1 .. nextSend /\ sent'[s] = submitted'[s]
      <4> SUFFICES ASSUME NEW s \in DOMAIN sent'
                   PROVE  s \in 1 .. nextSend /\ sent'[s] = submitted'[s]
        OBVIOUS
      <4>1. CASE s = nextSend
        BY <1>1, <1>2, <1>4, <4>1
      <4>2. CASE s \in DOMAIN sent
        <5>1. s \in 1 .. nextSend - 1 /\ sent'[s] = submitted[s]
          BY <1>4, <3>1, <4>2
        <5> QED BY <1>1, <1>2, <5>1
      <4> QED BY <1>4, <4>1, <4>2
    <3> QED BY <1>1, <3>2 DEF Genuine
  <2>4. Cardinality(DOMAIN sent') = Cardinality(DOMAIN sent) + 1
    <3>1. nextSend \notin DOMAIN sent
      BY <1>1, <1>4
    <3> QED BY <1>4, <3>1, JournalShape, FS_AddElement
  <2>5. Cardinality(DOMAIN sent) < Window
    BY <1>1, JournalShape DEF SendDelivery, JournalFull
  <2> QED BY <1>1, <2>2, <2>3, <2>4, <2>5, JournalShape DEF JournalContiguous
<1>6. data' \in [Carrier -> Seq(Frame)] /\ FramesGenuine'
  <2> DEFINE new == [sequence |-> nextSend, body |-> b]
  <2>1. new \in Frame /\ new.sequence = nextSend /\ new.body = b
    BY <1>1 DEF Frame
  <2> HIDE DEF new
  <2>2. \A c \in Carrier : data'[c] = Append(data[c], new) \/ data'[c] = data[c]
    BY DEF SendDelivery, new
  <2>3. \A c \in Carrier : data[c] \in Seq(Frame)
    BY DEF Inv, TypeOK
  <2>4. \A c \in Carrier : data'[c] \in Seq(Frame)
    BY SMTT(30), <2>1, <2>2, <2>3
  <2>5. ASSUME NEW c \in Carrier, NEW i \in 1 .. Len(data'[c])
        PROVE  Genuine(data[c][i].sequence, data[c][i].body)'
    <3>1. \/ i \in 1 .. Len(data[c]) /\ data'[c][i] = data[c][i]
          \/ data'[c][i] = new
      BY SMTT(30), <2>1, <2>2, <2>3
    <3>2. \A j \in 1 .. Len(data[c]) : Genuine(data[c][j].sequence, data[c][j].body)
      BY DEF Inv, DeliveryInv, FramesGenuine
    <3>3. CASE i \in 1 .. Len(data[c]) /\ data'[c][i] = data[c][i]
      <4>1. Genuine(data[c][i].sequence, data[c][i].body)
        BY <3>2, <3>3
      <4> QED BY <1>1, <1>2, <3>3, <4>1, SMTT(30) DEF Genuine
    <3>4. CASE data'[c][i] = new
      <4>1. nextSend \in 1 .. nextSend' - 1 /\ submitted'[nextSend] = b
        BY <1>1, <1>2
      <4> QED BY <2>1, <3>4, <4>1 DEF Genuine
    <3> QED BY <3>1, <3>3, <3>4
  <2>6. data' \in [Carrier -> Seq(Frame)]
    BY <2>4 DEF SendDelivery
  <2> QED BY <2>5, <2>6 DEF FramesGenuine
<1>7. HeldGenuine' /\ AppliedPrefix'
  <2>1. received' = received /\ applied' = applied
    BY DEF SendDelivery, receiverVars
  <2>2. HeldGenuine'
    BY <1>1, <1>2, <2>1 DEF Inv, DeliveryInv, HeldGenuine, Genuine
  <2>3. \A i \in 1 .. Len(applied) : i \in 1 .. nextSend - 1 /\ applied[i] = submitted[i]
    BY <1>1 DEF Inv, DeliveryInv, AppliedPrefix
  <2>4. AppliedPrefix'
    BY <1>1, <1>2, <2>1, <2>3 DEF Inv, DeliveryInv, AppliedPrefix
  <2> QED BY <2>2, <2>4
<1>8. ReceiptsCovered' /\ NoProtocolFailure'
  BY DEF Inv, DeliveryInv, ReceiptsCovered, NoProtocolFailure, SendDelivery, receiverVars
<1>9. TypeOK'
  BY <1>1, <1>2, <1>4, <1>6 DEF Inv, TypeOK, SendDelivery, receiverVars
<1> QED BY <1>3, <1>5, <1>6, <1>7, <1>8, <1>9 DEF Inv, DeliveryInv

\* A replay only adds genuine frames to one carrier.
LEMMA ResendInv == ASSUME Inv, ResendDelivery PROVE Inv'
<1>1. UNCHANGED <<senderVars, receiverVars, direct, acks, failure, flips>>
      /\ route' \in BOOLEAN
  BY DEF ResendDelivery, Inv, TypeOK, Side
<1>2. \A c \in Carrier : data'[c] = data[c] \o JournalFrames \/ data'[c] = data[c]
  BY DEF ResendDelivery
<1>3. \A c \in Carrier : data[c] \in Seq(Frame)
  BY DEF Inv, TypeOK
<1>4. JournalFrames \in Seq(Frame)
      /\ \A i \in 1 .. Len(JournalFrames) :
           Genuine(JournalFrames[i].sequence, JournalFrames[i].body)
  BY JournalFramesGenuine
<1>5. data' \in [Carrier -> Seq(Frame)]
  <2>1. \A c \in Carrier : data'[c] \in Seq(Frame)
    BY <1>2, <1>3, <1>4, ConcatElements
  <2> QED BY <2>1 DEF ResendDelivery
<1>6. FramesGenuine'
  <2> SUFFICES ASSUME NEW c \in Carrier, NEW i \in 1 .. Len(data'[c])
               PROVE  Genuine(data[c][i].sequence, data[c][i].body)'
    BY DEF FramesGenuine
  <2>1. \/ i \in 1 .. Len(data[c]) /\ data'[c][i] = data[c][i]
        \/ \E j \in 1 .. Len(JournalFrames) : data'[c][i] = JournalFrames[j]
    <3>1. CASE data'[c] = data[c]
      BY <3>1
    <3>2. CASE data'[c] = data[c] \o JournalFrames
      BY <1>3, <1>4, <3>2, ConcatElements
    <3> QED BY <1>2, <3>1, <3>2
  <2>2. Genuine(data'[c][i].sequence, data'[c][i].body)
    BY <1>4, <2>1 DEF Inv, DeliveryInv, FramesGenuine
  <2> QED BY <1>1, <2>2 DEF Genuine, senderVars
<1>7. TypeOK'
  BY <1>1, <1>5 DEF Inv, TypeOK, senderVars, receiverVars
<1>8. Numbering' /\ JournalContiguous' /\ HeldGenuine' /\ ReceiptsCovered'
      /\ AppliedPrefix' /\ NoProtocolFailure'
  BY <1>1 DEF Inv, DeliveryInv, Numbering, JournalContiguous, HeldGenuine,
              ReceiptsCovered, AppliedPrefix, NoProtocolFailure, Genuine,
              senderVars, receiverVars
<1> QED BY <1>6, <1>7, <1>8 DEF Inv, DeliveryInv

\* A receipt covers only applied frames, so what it releases is a prefix of
\* the journal and the rest still reaches from at most nextReceive upward.
LEMMA ReceiptInv ==
  ASSUME Inv, NEW c \in Carrier, ReceiveReceipt(c) PROVE Inv'
<1> DEFINE ack == Head(acks[c])
<1>1. /\ nextSend \in Nat \ {0} /\ nextReceive \in Nat \ {0} /\ nextReceive <= nextSend
      /\ acks[c] \in Seq(Nat) /\ acks[c] # <<>>
  BY DEF Inv, TypeOK, DeliveryInv, Numbering, ReceiveReceipt
<1>2. ack \in Nat /\ ack < nextReceive
  <2>1. ack = acks[c][1] /\ 1 \in 1 .. Len(acks[c]) /\ ack \in Nat
    BY <1>1
  <2> QED BY <2>1 DEF Inv, DeliveryInv, ReceiptsCovered
<1> HIDE DEF ack
<1>3. /\ failure' = failure
      /\ sent' = [s \in {n \in DOMAIN sent : n > ack} |-> sent[s]]
      /\ UNCHANGED <<nextSend, submitted, route, receiverVars, direct, data, flips>>
  BY <1>1, <1>2 DEF ReceiveReceipt, ack
<1>4. DOMAIN sent' = {n \in DOMAIN sent : n > ack}
      /\ \A s \in DOMAIN sent' : s \in DOMAIN sent /\ sent'[s] = sent[s]
  BY <1>3
<1>5. JournalContiguous'
  <2>1. PICK first \in 1 .. nextReceive : DOMAIN sent = first .. nextSend - 1
    BY DEF Inv, DeliveryInv, JournalContiguous
  <2>2. \E rest \in 1 .. nextReceive : DOMAIN sent' = rest .. nextSend - 1
    <3>1. CASE ack < first
      BY SMTT(30), <1>1, <1>2, <1>4, <2>1, <3>1
    <3>2. CASE ack >= first
      <4>1. ack + 1 \in 1 .. nextReceive /\ DOMAIN sent' = ack + 1 .. nextSend - 1
        BY <1>1, <1>2, <1>4, <2>1, <3>2
      <4> QED BY <4>1
    <3> QED BY <1>2, <2>1, <3>1, <3>2
  <2>3. (\A s \in DOMAIN sent : Genuine(s, sent[s]))'
    BY <1>3, <1>4 DEF Inv, DeliveryInv, JournalContiguous, Genuine
  <2>4. Cardinality(DOMAIN sent') <= Window
    <3>1. DOMAIN sent' \in SUBSET DOMAIN sent
      BY <1>4
    <3>2. /\ Cardinality(DOMAIN sent') <= Cardinality(DOMAIN sent)
          /\ IsFiniteSet(DOMAIN sent')
      BY <3>1, JournalShape, FS_Subset
    <3>3. Cardinality(DOMAIN sent') \in Nat /\ Cardinality(DOMAIN sent) \in Nat
      BY <3>2, JournalShape, FS_CardinalityType
    <3>4. Cardinality(DOMAIN sent) <= Window /\ Window \in Nat
      BY DeliveryAssumption DEF Inv, DeliveryInv, JournalContiguous
    <3> QED BY <3>2, <3>3, <3>4
  <2> QED BY <1>3, <2>2, <2>3, <2>4 DEF JournalContiguous, receiverVars
<1>6. acks' \in [Carrier -> Seq(Nat)] /\ ReceiptsCovered'
  <2>1. \A d \in Carrier : acks[d] \in Seq(Nat)
    BY DEF Inv, TypeOK
  <2>2. \A d \in Carrier : acks'[d] = IF d = c THEN Tail(acks[c]) ELSE acks[d]
    BY DEF ReceiveReceipt, Inv, TypeOK
  <2>3. acks' \in [Carrier -> Seq(Nat)]
    BY <1>1, <2>1, <2>2 DEF ReceiveReceipt, Inv, TypeOK
  <2>4. ASSUME NEW d \in Carrier, NEW i \in 1 .. Len(acks'[d])
        PROVE  acks'[d][i] < nextReceive
    <3>1. \E j \in 1 .. Len(acks[d]) : acks'[d][i] = acks[d][j]
      <4>1. CASE d = c
        <5>1. acks'[d] = Tail(acks[c])
          BY <2>2, <4>1
        <5>2. i + 1 \in 1 .. Len(acks[c]) /\ acks'[d][i] = acks[c][i + 1]
          BY <1>1, <5>1, TailElements
        <5> QED BY <4>1, <5>2
      <4>2. CASE d # c
        BY <2>2, <4>2
      <4> QED BY <4>1, <4>2
    <3> QED BY <3>1 DEF Inv, DeliveryInv, ReceiptsCovered
  <2> QED BY <1>3, <2>3, <2>4 DEF Inv, DeliveryInv, ReceiptsCovered, receiverVars
<1>7. TypeOK'
  <2>1. sent' \in [DOMAIN sent' -> Body] /\ DOMAIN sent' \in SUBSET (1 .. nextSend' - 1)
    BY <1>3, <1>4 DEF Inv, TypeOK
  <2> QED BY <1>3, <1>6, <2>1 DEF Inv, TypeOK, receiverVars
<1>8. Numbering' /\ FramesGenuine' /\ HeldGenuine' /\ AppliedPrefix' /\ NoProtocolFailure'
  BY <1>3 DEF Inv, DeliveryInv, Numbering, FramesGenuine, HeldGenuine,
              AppliedPrefix, NoProtocolFailure, Genuine, receiverVars
<1> QED BY <1>5, <1>6, <1>7, <1>8 DEF Inv, DeliveryInv

\* The receipt the pump sends covers applied frames only.
LEMMA SendReceiptInv == ASSUME Inv, SendReceipt PROVE Inv'
<1>1. /\ UNCHANGED <<senderVars, route, nextReceive, received, applied, direct,
                     data, failure, flips>>
      /\ ackPending' = 0 /\ ackPending \in Nat /\ ackPending < nextReceive
      /\ nextReceive \in Nat \ {0}
  BY DEF SendReceipt, Inv, TypeOK, DeliveryInv, ReceiptsCovered
<1>2. PICK c \in Carrier : acks' = [acks EXCEPT ![c] = Append(@, ackPending)]
  BY DEF SendReceipt, UsableCarrier, Carrier
<1>3. /\ acks \in [Carrier -> Seq(Nat)]
      /\ \A d \in Carrier : acks'[d] = IF d = c THEN Append(acks[c], ackPending)
                                                ELSE acks[d]
  BY <1>2 DEF Inv, TypeOK
<1>4. acks' \in [Carrier -> Seq(Nat)]
  BY <1>1, <1>2, <1>3
<1>5. ASSUME NEW d \in Carrier, NEW i \in 1 .. Len(acks'[d])
      PROVE  acks'[d][i] < nextReceive
  <2>1. \/ i \in 1 .. Len(acks[d]) /\ acks'[d][i] = acks[d][i]
        \/ acks'[d][i] = ackPending
    <3>1. CASE d = c
      <4>1. acks'[d] = Append(acks[d], ackPending) /\ acks[d] \in Seq(Nat)
        BY <1>3, <3>1
      <4> QED BY <1>1, <4>1
    <3>2. CASE d # c
      BY <1>3, <3>2
    <3> QED BY <3>1, <3>2
  <2> QED BY <1>1, <2>1 DEF Inv, DeliveryInv, ReceiptsCovered
<1>6. ReceiptsCovered'
  BY <1>1, <1>5 DEF ReceiptsCovered
<1>7. TypeOK'
  BY <1>1, <1>4 DEF Inv, TypeOK, senderVars
<1>8. Numbering' /\ JournalContiguous' /\ FramesGenuine' /\ HeldGenuine'
      /\ AppliedPrefix' /\ NoProtocolFailure'
  BY <1>1 DEF Inv, DeliveryInv, Numbering, JournalContiguous, FramesGenuine,
              HeldGenuine, AppliedPrefix, NoProtocolFailure, Genuine, senderVars
<1> QED BY <1>6, <1>7, <1>8 DEF Inv, DeliveryInv

\* Applying the frames up to the first gap extends the applied prefix, and
\* what stays behind the gap is still ahead of the new nextReceive.
LEMMA ApplyInv ==
  ASSUME Inv, NEW frame \in Frame, Genuine(frame.sequence, frame.body),
         frame.sequence >= nextReceive, ApplyContiguous(frame),
         UNCHANGED <<senderVars, acks>>
  PROVE  /\ nextReceive' \in Nat /\ nextReceive' >= nextReceive
         /\ nextReceive' <= nextSend
         /\ received' \in [DOMAIN received' -> Body] /\ DOMAIN received' \in SUBSET Nat
         /\ ackPending' = nextReceive' - 1
         /\ applied' \in Seq(Body)
         /\ HeldGenuine' /\ AppliedPrefix'
<1> DEFINE held == [s \in DOMAIN received \cup {frame.sequence} |->
                      IF s = frame.sequence THEN frame.body ELSE received[s]]
<1>1. /\ nextSend \in Nat \ {0} /\ nextReceive \in Nat \ {0} /\ nextReceive <= nextSend
      /\ Len(applied) = nextReceive - 1 /\ applied \in Seq(Body)
      /\ nextSend' = nextSend /\ submitted' = submitted /\ Window \in Nat
      /\ submitted \in Seq(Body) /\ Len(submitted) = nextSend - 1
  BY DeliveryAssumption
     DEF Inv, TypeOK, DeliveryInv, Numbering, AppliedPrefix, senderVars
<1>2. \A s \in DOMAIN held : /\ s \in nextReceive .. nextSend - 1
                             /\ held[s] = submitted[s] /\ held[s] \in Body
  <2>1. \A s \in DOMAIN received : /\ s > nextReceive /\ s \in 1 .. nextSend - 1
                                   /\ received[s] = submitted[s] /\ received[s] \in Body
    BY DEF Inv, TypeOK, DeliveryInv, HeldGenuine, Genuine
  <2>2. /\ frame.sequence \in nextReceive .. nextSend - 1
        /\ frame.body = submitted[frame.sequence] /\ frame.body \in Body
    BY <1>1 DEF Genuine, Frame
  <2> QED BY <1>1, <2>1, <2>2
<1>3. PICK gap \in nextReceive .. nextReceive + Window :
        /\ gap \notin DOMAIN held
        /\ \A s \in nextReceive .. gap - 1 : s \in DOMAIN held
        /\ nextReceive' = gap
        /\ received' = [s \in {n \in DOMAIN held : n > gap} |-> held[s]]
        /\ applied' = applied \o [i \in 1 .. gap - nextReceive |->
                                    held[nextReceive + i - 1]]
        /\ ackPending' = gap - 1
  BY DEF ApplyContiguous
<1> HIDE DEF held
<1>4. gap \in Nat /\ gap >= nextReceive /\ gap <= nextSend
  <2>1. gap \in Nat /\ gap >= nextReceive
    BY <1>1, <1>3
  <2>2. CASE gap = nextReceive
    BY <1>1, <2>2
  <2>3. CASE gap > nextReceive
    <3>1. gap - 1 \in DOMAIN held
      BY <1>1, <1>3, <2>1, <2>3
    <3> QED BY <1>1, <1>2, <2>1, <3>1
  <2> QED BY <1>1, <2>1, <2>2, <2>3
<1>5. /\ DOMAIN received' = {n \in DOMAIN held : n > gap}
      /\ \A s \in DOMAIN received' : received'[s] = held[s] /\ s \in DOMAIN held
  BY <1>3
<1>6. received' \in [DOMAIN received' -> Body] /\ DOMAIN received' \in SUBSET Nat
  BY <1>1, <1>2, <1>3, <1>5
<1>7. HeldGenuine'
  BY <1>1, <1>2, <1>3, <1>5 DEF HeldGenuine, Genuine
<1> DEFINE run == [i \in 1 .. gap - nextReceive |-> held[nextReceive + i - 1]]
<1>8. /\ run \in Seq(Body) /\ Len(run) = gap - nextReceive
      /\ \A i \in 1 .. Len(run) : run[i] = submitted[nextReceive + i - 1]
  <2>1. \A i \in 1 .. gap - nextReceive :
          /\ nextReceive + i - 1 \in DOMAIN held
          /\ held[nextReceive + i - 1] \in Body
          /\ held[nextReceive + i - 1] = submitted[nextReceive + i - 1]
    <3> SUFFICES ASSUME NEW i \in 1 .. gap - nextReceive, NEW n, n = nextReceive + i - 1
                 PROVE  n \in DOMAIN held /\ held[n] \in Body /\ held[n] = submitted[n]
      OBVIOUS
    <3>1. n \in nextReceive .. gap - 1
      BY <1>1, <1>4
    <3>2. n \in DOMAIN held
      BY <1>3, <3>1
    <3> QED BY <1>2, <3>2
  <2>2. run \in [1 .. gap - nextReceive -> Body] /\ gap - nextReceive \in Nat
    <3>1. gap - nextReceive \in Nat
      BY <1>1, <1>4
    <3>2. run \in [1 .. gap - nextReceive -> Body]
      BY <2>1
    <3> QED BY <3>1, <3>2
  <2> QED BY <2>1, <2>2
<1>9. applied' = applied \o run
  BY <1>3
<1> HIDE DEF run
<1>10. /\ applied' \in Seq(Body) /\ Len(applied') = gap - 1
       /\ \A i \in 1 .. Len(applied') : applied'[i] = submitted[i]
  <2>1. applied' \in Seq(Body) /\ Len(applied') = gap - 1
    <3>1. applied' \in Seq(Body) /\ Len(applied') = Len(applied) + Len(run)
      <4>1. applied \in Seq(Body) /\ run \in Seq(Body)
        BY <1>1, <1>8
      <4>2. applied \o run \in Seq(Body) /\ Len(applied \o run) = Len(applied) + Len(run)
        BY <4>1, ConcatElements
      <4> QED BY <1>9, <4>2
    <3> QED BY SMTT(30), <1>1, <1>4, <1>8, <3>1
  <2>2. ASSUME NEW i \in 1 .. Len(applied') PROVE applied'[i] = submitted[i]
    <3>1. CASE i <= Len(applied)
      <4>1. applied'[i] = applied[i]
        BY <1>1, <1>8, <1>9, <3>1
      <4> QED BY <3>1, <4>1 DEF Inv, DeliveryInv, AppliedPrefix
    <3>2. CASE i > Len(applied)
      <4>1. i - Len(applied) \in 1 .. Len(run) /\ applied'[i] = run[i - Len(applied)]
        BY <1>1, <1>4, <1>8, <1>9, <2>1, <3>2, SMTT(30)
      <4> QED BY <1>1, <1>8, <4>1
    <3> QED BY <1>1, <2>1, <3>1, <3>2
  <2> QED BY <2>1, <2>2
<1>11. AppliedPrefix'
  BY <1>1, <1>3, <1>10 DEF AppliedPrefix
<1> QED BY <1>3, <1>4, <1>6, <1>7, <1>10, <1>11

\* A frame from a carrier is genuine and within the window, so it is never
\* rejected: it is a duplicate, or it is held, or it closes the gap.
LEMMA ReceiveInv ==
  ASSUME Inv, NEW c \in Carrier, ReceiveDelivery(c) PROVE Inv'
<1> DEFINE frame == Head(data[c])
<1>1. /\ nextSend \in Nat \ {0} /\ nextReceive \in Nat \ {0} /\ nextReceive <= nextSend
      /\ nextSend <= MaxSequence /\ MaxSequence \in Nat /\ Window \in Nat
      /\ data[c] \in Seq(Frame) /\ data[c] # <<>>
      /\ UNCHANGED <<senderVars, route, direct, acks, flips>>
  BY DeliveryAssumption
     DEF Inv, TypeOK, DeliveryInv, Numbering, ReceiveDelivery
<1>2. frame \in Frame /\ Genuine(frame.sequence, frame.body)
  <2>1. 1 \in 1 .. Len(data[c]) /\ frame = data[c][1] /\ frame \in Frame
    BY <1>1, TailElements
  <2> QED BY <2>1 DEF Inv, DeliveryInv, FramesGenuine
<1> HIDE DEF frame
<1>3. frame.sequence \in 1 .. nextSend - 1 /\ frame.body = submitted[frame.sequence]
  BY <1>2 DEF Genuine
<1>4. frame.sequence \in 1 .. nextReceive - 1 \/ ~InvalidFrame(frame)
  <2> SUFFICES ASSUME frame.sequence \notin 1 .. nextReceive - 1
               PROVE  ~InvalidFrame(frame)
    OBVIOUS
  <2>1. frame.sequence \notin {0, MaxSequence}
    BY <1>1, <1>3
  <2>2. ~(frame.sequence - nextReceive >= Window)
    BY <1>1, <1>3, WithinWindow
  <2>3. frame.sequence \in DOMAIN received => received[frame.sequence] = frame.body
    BY <1>3 DEF Inv, DeliveryInv, HeldGenuine, Genuine
  <2> QED BY <2>1, <2>2, <2>3 DEF InvalidFrame
<1>5. data' \in [Carrier -> Seq(Frame)] /\ FramesGenuine'
  <2>1. \A d \in Carrier : data[d] \in Seq(Frame)
    BY DEF Inv, TypeOK
  <2>2. \A d \in Carrier : data'[d] = IF d = c THEN Tail(data[c]) ELSE data[d]
    BY DEF ReceiveDelivery, Inv, TypeOK
  <2>3. data' \in [Carrier -> Seq(Frame)]
    BY <1>1, <2>1, <2>2, TailElements DEF ReceiveDelivery, Inv, TypeOK
  <2>4. ASSUME NEW d \in Carrier, NEW i \in 1 .. Len(data'[d])
        PROVE  Genuine(data[d][i].sequence, data[d][i].body)'
    <3>1. \E j \in 1 .. Len(data[d]) : data'[d][i] = data[d][j]
      <4>1. CASE d = c
        <5>1. data'[d] = Tail(data[c])
          BY <2>2, <4>1
        <5>2. i + 1 \in 1 .. Len(data[c]) /\ data'[d][i] = data[c][i + 1]
          BY <1>1, <5>1, TailElements
        <5> QED BY <4>1, <5>2
      <4>2. CASE d # c
        BY <2>2, <4>2
      <4> QED BY <4>1, <4>2
    <3>2. Genuine(data'[d][i].sequence, data'[d][i].body)
      BY <3>1 DEF Inv, DeliveryInv, FramesGenuine
    <3> QED BY <1>1, <3>2 DEF Genuine, senderVars
  <2> QED BY <2>3, <2>4 DEF FramesGenuine
<1>6. failure' = failure
  BY <1>4 DEF ReceiveDelivery, frame
<1>7. /\ nextReceive' \in Nat /\ nextReceive' >= nextReceive /\ nextReceive' <= nextSend
      /\ received' \in [DOMAIN received' -> Body] /\ DOMAIN received' \in SUBSET Nat
      /\ ackPending' \in Nat /\ ackPending' < nextReceive'
      /\ applied' \in Seq(Body) /\ HeldGenuine' /\ AppliedPrefix'
  <2>1. CASE frame.sequence \in 1 .. nextReceive - 1
    <3>1. ackPending' = nextReceive - 1 /\ UNCHANGED <<nextReceive, received, applied>>
      BY <2>1 DEF ReceiveDelivery, frame
    <3>2. HeldGenuine' /\ AppliedPrefix'
      BY <1>1, <3>1 DEF Inv, DeliveryInv, HeldGenuine, AppliedPrefix, Genuine, senderVars
    <3> QED BY <1>1, <3>1, <3>2, SMTT(30) DEF Inv, TypeOK
  <2>2. CASE frame.sequence \notin 1 .. nextReceive - 1 /\ UNCHANGED receiverVars
    <3>1. HeldGenuine' /\ AppliedPrefix'
      BY <1>1, <2>2 DEF Inv, DeliveryInv, HeldGenuine, AppliedPrefix, Genuine,
                        senderVars, receiverVars
    <3> QED BY <1>1, <2>2, <3>1
            DEF Inv, TypeOK, DeliveryInv, ReceiptsCovered, receiverVars
  <2>3. CASE frame.sequence \notin 1 .. nextReceive - 1 /\ ApplyContiguous(frame)
    <3>1. frame.sequence >= nextReceive
      BY <1>1, <1>3, <2>3
    <3> QED BY <1>1, <1>2, <2>3, <3>1, ApplyInv
  <2> QED BY <1>4, <2>1, <2>2, <2>3 DEF ReceiveDelivery, frame
<1>8. Numbering' /\ NoProtocolFailure'
  BY <1>1, <1>6, <1>7 DEF Inv, DeliveryInv, Numbering, NoProtocolFailure, senderVars
<1>9. JournalContiguous'
  <2>1. PICK first \in 1 .. nextReceive : DOMAIN sent = first .. nextSend - 1
    BY DEF Inv, DeliveryInv, JournalContiguous
  <2>2. first \in 1 .. nextReceive'
    BY <1>1, <1>7, <2>1
  <2> QED BY <1>1, <2>1, <2>2
          DEF Inv, DeliveryInv, JournalContiguous, Genuine, senderVars
<1>10. ReceiptsCovered'
  <2>1. \A d \in Carrier : \A i \in 1 .. Len(acks[d]) :
          acks[d][i] \in Nat /\ acks[d][i] < nextReceive
    BY SMTT(30) DEF Inv, TypeOK, DeliveryInv, ReceiptsCovered
  <2> QED BY <1>1, <1>7, <2>1, SMTT(30) DEF ReceiptsCovered
<1>11. TypeOK'
  <2>1. /\ nextSend' \in Nat \ {0}
        /\ DOMAIN sent' \in SUBSET (1 .. nextSend' - 1)
        /\ sent' \in [DOMAIN sent' -> Body]
        /\ submitted' \in Seq(Body)
    BY <1>1 DEF Inv, TypeOK, senderVars
  <2>2. /\ route' \in BOOLEAN /\ direct' \in [Side -> BOOLEAN]
        /\ acks' \in [Carrier -> Seq(Nat)] /\ flips' \in 0 .. MaxFlips
    BY <1>1 DEF Inv, TypeOK
  <2>3. nextReceive' \in Nat \ {0}
    BY <1>1, <1>7
  <2>4. /\ received' \in [DOMAIN received' -> Body] /\ DOMAIN received' \in SUBSET Nat
        /\ ackPending' \in Nat /\ applied' \in Seq(Body)
    BY <1>7
  <2>5. failure' \in [Side -> Failure]
    BY <1>6 DEF Inv, TypeOK
  <2>6. data' \in [Carrier -> Seq(Frame)]
    BY <1>5
  <2> QED BY <2>1, <2>2, <2>3, <2>4, <2>5, <2>6 DEF TypeOK
<1> QED BY <1>5, <1>7, <1>8, <1>9, <1>10, <1>11 DEF Inv, DeliveryInv

\* Every step keeps the invariant.
LEMMA StepInv == Inv /\ [Next]_vars => Inv'
<1> SUFFICES ASSUME Inv, [Next]_vars PROVE Inv'
  OBVIOUS
<1>1. CASE \E b \in Body : SendDelivery(b)
  BY <1>1, SendInv
<1>2. CASE RefuseDelivery
  BY <1>2, RefuseInv
<1>3. CASE ResendDelivery
  BY <1>3, ResendInv
<1>4. CASE \E c \in Carrier : ReceiveReceipt(c)
  BY <1>4, ReceiptInv
<1>5. CASE \E c \in Carrier : ReceiveDelivery(c)
  BY <1>5, ReceiveInv
<1>6. CASE SendReceipt
  BY <1>6, SendReceiptInv
<1>7. CASE \E side \in Side : FlipRoute(side)
  BY <1>7, FlipInv
<1>8. CASE \E side \in Side : CarrierFails(side)
  BY <1>8, CarrierFailsInv
<1>9. CASE UNCHANGED vars
  <2>1. NoProtocolFailure'
    BY <1>9 DEF vars, Inv, DeliveryInv, NoProtocolFailure
  <2> QED BY <1>9, <2>1, QuietStep DEF vars, senderVars, receiverVars, Inv, TypeOK
<1> QED BY <1>1, <1>2, <1>3, <1>4, <1>5, <1>6, <1>7, <1>8, <1>9 DEF Next

-----------------------------------------------------------------------------
(***************************************************************************)
(* The theorems.                                                           *)
(***************************************************************************)

\* Every variable of transport.cpp's PeerDelivery keeps its type, and the
\* relations between the two ends and the carriers that DeliveryInv lists
\* always hold.
THEOREM DeliveryInvariant == Spec => [](TypeOK /\ DeliveryInv)
<1>1. Spec => []Inv
  BY InitInv, StepInv, PTL DEF Spec
<1> QED BY <1>1, PTL DEF Inv

\* receive_delivery never rejects what a conforming peer sends, in whatever
\* order the carriers deliver first copies, replays and receipts.
THEOREM NeverProtocolFailure == Spec => []NoProtocolFailure
<1>1. Inv => NoProtocolFailure
  BY DEF Inv, DeliveryInv
<1>2. Spec => []Inv
  BY InitInv, StepInv, PTL DEF Spec
<1> QED BY <1>1, <1>2, PTL

\* A receipt never releases a frame that the receiver has not applied.
THEOREM JournalNeverLosesFrames == Spec => []JournalCoversUnapplied
<1>1. Inv => JournalCoversUnapplied
  <2> SUFFICES ASSUME Inv PROVE nextReceive .. nextSend - 1 \subseteq DOMAIN sent
    BY DEF JournalCoversUnapplied
  <2> QED BY JournalShape DEF Inv, TypeOK
<1>2. Spec => []Inv
  BY InitInv, StepInv, PTL DEF Spec
<1> QED BY <1>1, <1>2, PTL

\* Positive numbers and the lengths one below them are ordered alike.
LEMMA OneLess ==
  ASSUME NEW a \in Nat \ {0}, NEW b \in Nat \ {0}, NEW k, NEW m,
         k = a - 1, m = b - 1, a <= b
  PROVE k \in Nat /\ m \in Nat /\ k <= m
OBVIOUS

\* Applying a frame, and whatever it releases, is one delivery of the channel
\* or, when the frame is held or is a duplicate, no step of it.
LEMMA ReceiveRefines ==
  ASSUME Inv, Inv', NEW c \in Carrier, ReceiveDelivery(c)
  PROVE [Fifo!Next]_(Fifo!vars)
<1>1. submitted' = submitted
  BY DEF ReceiveDelivery, senderVars
<1>2. /\ applied \in Seq(Body) /\ applied' \in Seq(Body) /\ submitted \in Seq(Body)
      /\ nextReceive \in Nat \ {0} /\ nextReceive' \in Nat \ {0}
      /\ nextSend' \in Nat \ {0} /\ nextReceive' <= nextSend'
  BY DEF Inv, TypeOK, DeliveryInv, Numbering
<1>7. /\ Len(applied) = nextReceive - 1 /\ Len(applied') = nextReceive' - 1
      /\ Len(submitted) = nextSend' - 1
  BY <1>1, <1>2 DEF Inv, DeliveryInv, AppliedPrefix, Numbering
<1>8. /\ \A i \in 1 .. Len(applied) : applied[i] = submitted[i]
      /\ \A i \in 1 .. Len(applied') : applied'[i] = submitted[i]
  BY <1>1 DEF Inv, DeliveryInv, AppliedPrefix
<1> DEFINE k == Len(applied)
           m == Len(applied')
           n == Len(submitted)
<1>9. m \in Nat /\ n \in Nat /\ m <= n
  BY <1>2, <1>7, OneLess
<1>3. k \in Nat /\ k <= m
  <2>1. CASE nextReceive' = nextReceive
    BY <1>2, <1>7, <2>1, <1>9
  <2>2. CASE nextReceive' # nextReceive
    <3>2. ApplyContiguous(Head(data[c]))
      BY <2>2 DEF ReceiveDelivery, receiverVars
    <3>3. nextReceive <= nextReceive'
      BY <1>2, <3>2, DeliveryAssumption DEF ApplyContiguous
    <3> QED BY <1>2, <1>7, <3>3, OneLess
  <2> QED BY <2>1, <2>2
<1>4. applied' = [i \in 1 .. Len(applied') |-> submitted[i]]
  <2>1. applied' = [i \in 1 .. Len(applied') |-> applied'[i]]
    BY <1>2
  <2> QED BY <1>8, <2>1
<1>5. CASE Len(applied') = Len(applied)
  <2>1. applied = [i \in 1 .. Len(applied) |-> applied[i]]
    BY <1>2
  <2>2. applied = [i \in 1 .. Len(applied) |-> submitted[i]]
    BY <1>8, <2>1
  <2>3. applied' = applied
    BY <1>4, <1>5, <2>2
  <2> QED BY <1>1, <2>3 DEF Fifo!vars
<1>6. CASE Len(applied') > Len(applied)
  <2>1. m > k
    BY <1>6
  <2>2. m \in k + 1 .. n
    <3> HIDE DEF k, m, n
    <3> QED BY <1>3, <1>9, <2>1
  <2>3. applied' = [i \in 1 .. m |-> submitted[i]]
    BY <1>4
  <2>4. \E j \in k + 1 .. n : applied' = [i \in 1 .. j |-> submitted[i]]
    <3> HIDE DEF k, m, n
    <3> QED BY <2>2, <2>3
  <2>5. Fifo!Deliver
    BY <1>1, <2>4 DEF Fifo!Deliver
  <2> QED BY <2>5 DEF Fifo!Next
<1>10. m = k \/ m > k
  <2> HIDE DEF k, m, n
  <2> QED BY <1>9, <1>3
<1> QED BY <1>5, <1>6, <1>10

\* Reliable peer delivery implements the FIFO channel: whatever the carriers
\* do, bodies are applied in submission order, each exactly once.
THEOREM ImplementsFifo == Spec => FifoSpec
<1>1. Init => Fifo!Init
  BY DEF Init, Fifo!Init
<1>2. Inv /\ Inv' /\ [Next]_vars => [Fifo!Next]_(Fifo!vars)
  <2> SUFFICES ASSUME Inv, Inv', [Next]_vars PROVE [Fifo!Next]_(Fifo!vars)
    OBVIOUS
  <2>1. CASE \E b \in Body : SendDelivery(b)
    BY <2>1 DEF SendDelivery, receiverVars, Fifo!Next, Fifo!Submit
  <2>2. CASE \E c \in Carrier : ReceiveDelivery(c)
    BY <2>2, ReceiveRefines
  <2>3. CASE \/ RefuseDelivery \/ ResendDelivery \/ SendReceipt
             \/ \E c \in Carrier : ReceiveReceipt(c)
             \/ \E side \in Side : FlipRoute(side) \/ CarrierFails(side)
             \/ UNCHANGED vars
    <3>1. submitted' = submitted /\ applied' = applied
      BY <2>3 DEF RefuseDelivery, ResendDelivery, SendReceipt, ReceiveReceipt,
                  FlipRoute, CarrierFails, senderVars, receiverVars, vars
    <3> QED BY <3>1 DEF Fifo!vars
  <2> QED BY <2>1, <2>2, <2>3 DEF Next
<1>3. Spec => []Inv
  BY InitInv, StepInv, PTL DEF Spec
<1> QED BY <1>1, <1>2, <1>3, PTL DEF Spec, FifoSpec, Fifo!Spec
=============================================================================
