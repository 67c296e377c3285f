----------------------------- MODULE PoseStream -----------------------------
(***************************************************************************)
(* The stream of semantic pose snapshots from one player to the others:    *)
(* sampling and numbering, deltas against an acknowledged snapshot, the    *)
(* transmit pacer, reassembly with parity, expansion, acknowledgements and *)
(* their reset, and the bounded queue in front of the game.                *)
(*                                                                         *)
(* In a "room" one message goes to every peer and its baseline is the      *)
(* newest snapshot that all of them acknowledged; a "direct" host prepares *)
(* one message for each guest against that guest's latest acknowledgement. *)
(* Datagrams are lost and reordered; one that is never delivered is lost,  *)
(* and so is one that a stage, a preference or the byte budget withholds.  *)
(* A snapshot is a function from some of the state's keys to values.       *)
(***************************************************************************)
EXTENDS Naturals, Sequences, FiniteSets, SequencesExt, FiniteSetsExt, TLC

CONSTANTS Peers,         \* the recipients
          States,        \* the snapshots the player may be in
          Scenarios,     \* what a behaviour starts with, see Init
          HistoryLimit,  \* kMatrixHistoryLimit, and the acknowledgements kept
          FullInterval,  \* kSnapshotFullInterval
          MaxQueued,     \* kUdpTxPacerMaxQueuedDatagrams
          MaxInflight,   \* kMaxInflightSequences
          MaxPending,    \* maxPendingPosesPerPeer
          MaxSeq,        \* bound: the largest number of a snapshot
          MaxClosings    \* bound: links of newcomers that close

PoseStreamAssumption ==
  /\ HistoryLimit \in Nat \ {0} /\ FullInterval \in Nat \ {0}
  /\ MaxQueued \in Nat /\ MaxInflight \in Nat \ {0} /\ MaxPending \in Nat \ {0}
  /\ MaxSeq \in Nat /\ MaxClosings \in Nat

VARIABLES setup,    \* the scenario: mode, chunks, names, coming, stale, bound
          sender,   \* seq, hist, names, known, closed, acked, ackHist, floor, queue
          net,      \* pose datagrams under way
          acks,     \* acknowledgements under way
          peer,     \* each recipient's decoder, history and game
          taken     \* history: the snapshots sampled under each number

vars == <<setup, sender, net, acks, peer, taken>>

Seqs == 1 .. MaxSeq
Empty == <<>>

NewPeer(stale) == [last |-> 0, parts |-> Empty, pending |-> <<>>,
                   hist |-> IF stale THEN [s \in {MaxSeq} |-> CHOOSE x \in States : TRUE] ELSE Empty,
                   shown |-> IF stale THEN MaxSeq ELSE 0]

\* A stale peer still holds snapshots of an earlier session of the same sender.
Init == /\ setup \in Scenarios
        /\ sender = [seq |-> 0, hist |-> Empty, names |-> setup.names, known |-> {}, closed |-> {},
                     acked |-> [p \in Peers |-> 0], ackHist |-> [p \in Peers |-> {}],
                     floor |-> [p \in Peers |-> 0], queue |-> <<>>]
        /\ net = {} /\ acks = {}
        /\ peer = [p \in Peers |-> NewPeer(p \in setup.stale)]
        /\ taken = [s \in Seqs |-> {}]

-----------------------------------------------------------------------------
\* Histories are bounded maps: the smallest numbers are dropped first.

Newest(S, n) == {x \in S : Cardinality({y \in S : y > x}) < n}
Keep(f, D) == [x \in D |-> f[x]]

\* store_semantic_snapshot
Store(hist, s, state) ==
  LET all == (s :> state) @@ hist IN Keep(all, Newest(DOMAIN all, HistoryLimit))

\* remember_pose_ack
Remember(S, s) == Newest(S \cup {s}, HistoryLimit)

-----------------------------------------------------------------------------
\* The sender.

\* relay_common_ack_sequence, common_pose_ack: exact, not cumulative.
CommonAckCumulative(x) ==
  IF x.names = {} \/ \E p \in x.names : x.ackHist[p] = {} THEN 0
  ELSE Min({Max(x.ackHist[p]) : p \in x.names})

CommonAck(x) ==
  LET shared == {s \in Seqs : \A p \in x.names : s \in x.ackHist[p]}
  IN IF x.names = {} \/ shared = {} THEN 0 ELSE Max(shared)

Full(state) == [base |-> 0, state |-> state, removed |-> {}]

Delta(base, old, state) ==
  [base |-> base,
   state |-> Keep(state, {k \in DOMAIN state : k \notin DOMAIN old \/ old[k] # state[k]}),
   removed |-> DOMAIN old \ DOMAIN state]

\* prepare_remote_pose_delta, after the snapshot has been stored.  A delta is
\* used when it is the smaller message.
Prepare(hist, n, state, base) ==
  IF /\ base # 0 /\ base < n /\ n - base < HistoryLimit /\ n % FullInterval # 0
     /\ base \in DOMAIN hist
     /\ Cardinality(DOMAIN Delta(base, hist[base], state).state) < Cardinality(DOMAIN state)
  THEN Delta(base, hist[base], state) ELSE Full(state)

\* encode_message: the chunks of a message, and a parity chunk when there are
\* several.  A full snapshot is as long as the scenario says, a delta is short.
Encode(p, n, msg) ==
  LET count == IF msg.base = 0 THEN setup.chunks ELSE 1
      last == IF count > 1 THEN count ELSE count - 1
  IN [i \in 1 .. last + 1 |-> [to |-> p, seq |-> n, chunk |-> i - 1, count |-> count, msg |-> msg]]

\* enqueue_udp_tx_datagrams: a flow is one receiver's.  Over the limit, the
\* snapshot with the oldest first chunk leaves as a whole.
OverLimit(queue) == Len(queue) > MaxQueued /\ \E i \in DOMAIN queue : queue[i].chunk = 0

DropSnapshot(queue) ==
  LET out == queue[Min({i \in DOMAIN queue : queue[i].chunk = 0})]
  IN SelectSeq(queue, LAMBDA d : d.to # out.to \/ d.seq # out.seq)

Enqueue(queue, ds) ==
  LET all == SelectSeq(queue, LAMBDA d : d.to # ds[1].to \/ d.seq >= ds[1].seq) \o ds
  IN FoldLeft(LAMBDA q, d : IF OverLimit(q) THEN DropSnapshot(q) ELSE q, all, all)

\* send_visual to a room.  The number is used again when any link refused the
\* datagram, although the others have it.
SendToRoom(state) ==
  LET n == sender.seq + 1
      hist == Store(sender.hist, n, state)
      msg == Prepare(hist, n, state, CommonAck(sender))
      open == sender.names \ sender.closed
  IN /\ setup.mode = "room" /\ n <= setup.bound
     /\ sender' = [sender EXCEPT !.hist = hist, !.seq = IF open = sender.names THEN n ELSE @]
     /\ net' = net \cup UNION {Range(Encode(p, n, msg)) : p \in open}
     /\ taken' = [taken EXCEPT ![n] = @ \cup {state}]
     /\ UNCHANGED <<setup, acks, peer>>

\* send_visual_to_direct_peers.  When nobody shares the stage the number is
\* not used up.
SendToGuests(state, shared) ==
  LET n == sender.seq + 1
      hist == Store(sender.hist, n, state)
      message(p) == Prepare(hist, n, state, sender.acked[p])
  IN /\ setup.mode = "direct" /\ n <= setup.bound /\ shared \subseteq sender.names
     /\ sender' = [sender EXCEPT !.hist = hist, !.seq = IF shared = {} THEN @ ELSE n,
                     !.queue = FoldSet(LAMBDA p, q : Enqueue(q, Encode(p, n, message(p))), @, shared)]
     /\ taken' = [taken EXCEPT ![n] = @ \cup {state}]
     /\ UNCHANGED <<setup, net, acks, peer>>

\* udp_tx_thread_main: the first datagram whose destination may send again.
PacerSend(p) ==
  LET mine == {i \in DOMAIN sender.queue : sender.queue[i].to = p}
  IN /\ mine # {}
     /\ net' = net \cup {sender.queue[Min(mine)]}
     /\ sender' = [sender EXCEPT !.queue = RemoveAt(@, Min(mine))]
     /\ UNCHANGED <<setup, acks, peer, taken>>

\* The acknowledgement branch of handle_udp_result.
OnAck(x, a) ==
  IF a.reset
  THEN [x EXCEPT !.floor[a.from] = Max({@, a.seq}), !.acked[a.from] = 0, !.ackHist[a.from] = {}]
  ELSE IF a.seq <= x.floor[a.from] THEN x
  ELSE LET open == [x EXCEPT !.floor[a.from] = 0]
       IN IF a.seq <= x.acked[a.from] THEN open
          ELSE [open EXCEPT !.acked[a.from] = a.seq, !.ackHist[a.from] = Remember(@, a.seq)]

\* Acknowledgements that are no news any more are forgotten at once.
ReceiveAck(a) ==
  /\ sender' = OnAck(sender, a)
  /\ acks' = {b \in acks \ {a} : b.reset \/ b.seq > OnAck(sender, a).acked[b.from]}
  /\ UNCHANGED <<setup, net, peer, taken>>

\* peer_joined and peer_left; the identity of a peer is never used again.
Join(p) == /\ p \in setup.coming \ sender.known
           /\ sender' = [sender EXCEPT !.names = @ \cup {p}, !.known = @ \cup {p}]
           /\ UNCHANGED <<setup, net, acks, peer, taken>>

Leave(p) == /\ p \in sender.names
            /\ sender' = [sender EXCEPT !.names = @ \ {p}, !.ackHist[p] = {},
                            !.queue = SelectSeq(@, LAMBDA d : d.to # p)]
            /\ net' = {d \in net : d.to # p} /\ acks' = {a \in acks : a.from # p}
            /\ peer' = [peer EXCEPT ![p] = NewPeer(FALSE)]
            /\ UNCHANGED <<setup, taken>>

\* The link of a room member closes when its reliable stream fails, and the
\* room goes on without it while the member counts as a newcomer.
CloseLink(p) == /\ p \in (sender.names \cap sender.known) \ sender.closed
                /\ Cardinality(sender.closed) < MaxClosings
                /\ sender' = [sender EXCEPT !.closed = @ \cup {p}]
                /\ UNCHANGED <<setup, net, acks, peer, taken>>

-----------------------------------------------------------------------------
\* A recipient.

\* Decoder::accept: the parts of each number, and whether they make a message:
\* all chunks, or all but one and the parity.
AddPart(parts, d) ==
  LET room == IF d.seq \in DOMAIN parts THEN parts
              ELSE Keep(parts, Newest(DOMAIN parts, MaxInflight - 1))
      old == IF d.seq \in DOMAIN room THEN room[d.seq] ELSE {}
  IN (d.seq :> (old \cup {d.chunk})) @@ room

Complete(got, count) == Cardinality(got) >= count

\* expand_semantic_snapshot_delta
Expandable(hist, msg, n) == msg.base = 0 \/ (msg.base < n /\ msg.base \in DOMAIN hist)

Expand(hist, msg) ==
  IF msg.base = 0 THEN msg.state
  ELSE LET all == msg.state @@ hist[msg.base] IN Keep(all, DOMAIN all \ msg.removed)

\* push_event for a pose: the oldest of this peer's poses makes way.
Push(pending, n) == Append(IF Len(pending) >= MaxPending THEN Tail(pending) ELSE pending, n)

\* commit_message
Commit(x, n) == [x EXCEPT !.last = Max({@, n}), !.parts = Keep(@, {s \in DOMAIN @ : s > n})]

\* The message branch of handle_udp_result.
Deliver(x, d) ==
  Commit([x EXCEPT !.hist = Store(@, d.seq, Expand(x.hist, d.msg)), !.pending = Push(@, d.seq)],
         d.seq)

Receive(d) ==
  LET p == d.to
      x == peer[p]
      parts == AddPart(x.parts, d)
      done == [x EXCEPT !.parts = Keep(parts, DOMAIN parts \ {d.seq})]
      rest == net \ {d}
      answer(reset) == acks \cup {[from |-> p, seq |-> d.seq, reset |-> reset]}
  IN /\ d.seq > x.last
     /\ \/ /\ ~Complete(parts[d.seq], d.count)
           /\ peer' = [peer EXCEPT ![p].parts = parts] /\ net' = rest /\ UNCHANGED acks
        \/ /\ Complete(parts[d.seq], d.count) /\ ~Expandable(x.hist, d.msg, d.seq)
           /\ peer' = [peer EXCEPT ![p] = done] /\ net' = rest /\ acks' = answer(TRUE)
        \/ /\ Complete(parts[d.seq], d.count) /\ Expandable(x.hist, d.msg, d.seq)
           /\ peer' = [peer EXCEPT ![p] = Deliver(done, d)]
           /\ net' = {e \in rest : e.to # p \/ e.seq > Deliver(done, d).last}
           /\ acks' = answer(FALSE)
     /\ UNCHANGED <<setup, sender, taken>>

\* The router hands every queued pose to consume_udp, which refuses one that
\* is not newer than the pose it has.
Consume(p) ==
  /\ peer[p].pending # <<>>
  /\ peer' = [peer EXCEPT ![p].pending = <<>>,
                ![p].shown = FoldLeft(LAMBDA m, n : IF n > m THEN n ELSE m, @, peer[p].pending)]
  /\ UNCHANGED <<setup, sender, net, acks, taken>>

Next == \/ \E state \in States :
             \/ SendToRoom(state)
             \/ \E shared \in SUBSET Peers : SendToGuests(state, shared)
        \/ \E p \in Peers : PacerSend(p) \/ Join(p) \/ Leave(p) \/ CloseLink(p) \/ Consume(p)
        \/ \E d \in net : Receive(d)
        \/ \E a \in acks : ReceiveAck(a)

Spec == Init /\ [][Next]_vars

-----------------------------------------------------------------------------
Ascending(s) == \A i \in 1 .. Len(s) - 1 : s[i] < s[i + 1]

\* The variables keep their shapes, and every bounded structure its bound.
TypeOK ==
  /\ sender.seq \in 0 .. MaxSeq /\ sender.names \subseteq Peers /\ sender.closed \subseteq Peers
  /\ DOMAIN sender.hist \subseteq Seqs /\ Cardinality(DOMAIN sender.hist) <= HistoryLimit
  /\ \A p \in Peers :
       /\ sender.acked[p] \in 0 .. MaxSeq /\ sender.floor[p] \in 0 .. MaxSeq
       /\ Cardinality(sender.ackHist[p]) <= HistoryLimit
       /\ peer[p].last \in 0 .. MaxSeq /\ peer[p].shown \in 0 .. MaxSeq
       /\ Cardinality(DOMAIN peer[p].hist) <= HistoryLimit
       /\ Cardinality(DOMAIN peer[p].parts) <= MaxInflight
       /\ Len(peer[p].pending) <= MaxPending

Fresh == Peers \ setup.stale

\* "A broadcast delta must reference an exact snapshot held by every
\* recipient": whatever was lost or reordered, a recipient that still wants a
\* delta holds its baseline, so it can expand it (common_pose_ack, the
\* histories of both ends and their limit).
BaselineHeld ==
  \A d \in net \cup Range(sender.queue) :
     d.to \in Fresh /\ d.msg.base # 0 /\ d.seq > peer[d.to].last
       => d.msg.base \in DOMAIN peer[d.to].hist

\* What a recipient makes of a full snapshot or a delta is the snapshot that
\* the player was in under that number (prepare_remote_pose_delta and
\* expand_remote_pose_delta against each other).
SnapshotExact ==
  \A p \in Peers : \A s \in DOMAIN peer[p].hist :
     s <= peer[p].last => peer[p].hist[s] \in taken[s]

\* The same as long as no link of a room member has closed under a send: every
\* number then stands for one snapshot at both ends, through losses, resets,
\* and leftovers of an earlier session.
DeltaExact == sender.closed = {} => SnapshotExact

\* A recipient's poses reach the game in the order they were sampled and none
\* is refused as stale: decoder, parity recovery and the bounded queue never
\* let an older pose overtake.
PosesInOrder ==
  \A p \in Fresh : Ascending(<<peer[p].shown>> \o peer[p].pending)

\* The pacer holds at most one snapshot of a flow, the newest, and of it the
\* chunks that are still to be sent, in order.
PacerHoldsNewest ==
  \A p \in Peers : LET mine == SelectSeq(sender.queue, LAMBDA d : d.to = p)
                   IN \A i \in 1 .. Len(mine) :
                        /\ mine[i].seq = mine[1].seq
                        /\ mine[i].chunk = mine[1].chunk + i - 1
=============================================================================
