------------------------- MODULE FloorSwitchProofs -------------------------
(***************************************************************************)
(* What the floor switches of one player say to another, for every number  *)
(* of players, rooms and plates.                                           *)
(*                                                                         *)
(* A player's step is followed through its operators as a record of Steps: *)
(* Good relates what it has sent so far to the bridge it began with, Heard *)
(* and Cool what it made of the entries.  Inv is inductive; its core is    *)
(* Stream, a property of one ordered pair of players: the reports under    *)
(* way ascend, from the number the receiver has to the number the sender   *)
(* has, starting again only behind a departure, and the last of them says  *)
(* no more than the sender's bridge remembers to have sent.  Returned is   *)
(* what makes that survive a rejoin: who has not heard that the other came *)
(* back has nothing under way to it.                                       *)
(*                                                                         *)
(* Shares is a second invariant, of each player by itself: what its bridge *)
(* has come down to in the frames since its feet were last moved, and who  *)
(* keeps the guard of every plate that still moves.                        *)
(***************************************************************************)
EXTENDS FloorSwitch, SequenceLemmas, FiniteSetTheorems, TLAPS

\* The types of the bridges, the games, the messages and a step.
Rooms == Scenes \cup {None}
Entries == [seq : Nat, scene : Rooms, contacts : SUBSET Plates, fresh : BOOLEAN]
Frames == {f \in [ran : SUBSET Plates, on : SUBSET Plates] : f.on \subseteq f.ran}
Bridges == [scene : Rooms, sampled : Frames, local : SUBSET Plates, sent : SUBSET Plates,
            origin : SUBSET Plates, completed : SUBSET Latches, retScene : Rooms,
            retOrigin : SUBSET Plates, seq : Nat, need : BOOLEAN, flags : BOOLEAN,
            ledger : [Players -> Entries]]
Positions == {"up", "moving", "down"}
Worlds ==
  {w \in [room : Rooms, feet : SUBSET Plates, flag : SUBSET Latches, pos : [Plates -> Positions]] :
     w.feet \subseteq {k \in Plates : SceneOf[k] = w.room}}
States == [type : {"state"}, seq : Nat, scene : Rooms, contacts : SUBSET Plates]
Bits == [type : {"bit"}, plate : Latches]
Lefts == [type : {"left"}]
Messages == UNION {States, Bits, Lefts}
Steps == [x : Bridges, w : Worlds, out : Seq(Messages), mine : SUBSET Plates,
          acted : SUBSET Plates]

\* What was said last of a player's plates is no more than its bridge remembers to
\* have sent, of the scene it is in.
Kept(m, x) == m.contacts # {} => m.contacts \subseteq x.sent /\ m.scene = x.scene

\* What a step that began with the bridge x0 has sent so far.
Good(x0, x, out) ==
  /\ x0.seq <= x.seq
  /\ \A i \in 1 .. Len(out) : out[i].type # "left"
  /\ \A i \in 1 .. Len(out) : out[i].type = "state" => x0.seq < out[i].seq /\ out[i].seq <= x.seq
  /\ \A i, j \in 1 .. Len(out) :
       i < j /\ out[i].type = "state" /\ out[j].type = "state" => out[i].seq < out[j].seq
  /\ \A i \in 1 .. Len(out) :
       out[i].type = "state" /\ (\A j \in 1 .. Len(out) : j > i => out[j].type # "state")
         => Kept(out[i], x)
  /\ (\A i \in 1 .. Len(out) : out[i].type # "state") =>
       (x.sent = x0.sent /\ x.scene = x0.scene) \/ x0.sent = {}
  /\ x.scene = None => x.sent = {}

\* An entry that kept its number and lost its contacts at most.
Cool(e, e0) == e.seq = e0.seq /\ e.scene = e0.scene /\ e.contacts \in {e0.contacts, {}}
Cools(l, l0) == \A r \in Players : Cool(l[r], l0[r])

\* What a message makes of its sender's entry.
Heard(e, e0, m, flags) ==
  /\ m.type = "left" => e = NoEntry
  /\ m.type = "state" /\ flags /\ m.seq > e0.seq =>
       e.seq = m.seq /\ e.scene = m.scene /\ e.contacts = m.contacts
  /\ m.type = "bit" \/ (m.type = "state" /\ (~flags \/ m.seq <= e0.seq)) => Cool(e, e0)

-----------------------------------------------------------------------------
\* The operators of a step.
LEMMA SendFacts ==
  ASSUME NEW s \in Steps, NEW scene \in Rooms, NEW contacts \in SUBSET Plates,
         NEW t, t = Send(s, scene, contacts)
  PROVE  /\ t \in Steps
         /\ t.x.seq = s.x.seq + 1 /\ t.x.sent = contacts
         /\ t.out = Append(s.out, [type |-> "state", seq |-> s.x.seq + 1,
                                   scene |-> scene, contacts |-> contacts])
         /\ t.w = s.w /\ t.mine = s.mine
         /\ t.x.scene = s.x.scene /\ t.x.flags = s.x.flags /\ t.x.ledger = s.x.ledger
<1> DEFINE m == [type |-> "state", seq |-> s.x.seq + 1, scene |-> scene, contacts |-> contacts]
<1>1. s.x \in Bridges /\ s.x.seq \in Nat /\ s.out \in Seq(Messages)
  BY DEF Steps, Bridges
<1>2. m \in Messages
  BY <1>1 DEF Messages, States
<1>3. Append(s.out, m) \in Seq(Messages)
  BY <1>1, <1>2
<1> DEFINE y == [s.x EXCEPT !.seq = s.x.seq + 1, !.sent = contacts, !.need = FALSE]
<1>4. t = [s EXCEPT !.x = y, !.out = Append(s.out, m)]
  BY DEF Send
<1> HIDE DEF m
<1>5. y \in Bridges
  <2>1. s.x.seq + 1 \in Nat /\ FALSE \in BOOLEAN
    BY <1>1
  <2> QED BY <1>1, <2>1 DEF Bridges
<1>6. y.seq = s.x.seq + 1 /\ y.sent = contacts
  BY <1>1 DEF Bridges
<1>7. y.scene = s.x.scene /\ y.flags = s.x.flags /\ y.ledger = s.x.ledger
  BY <1>1 DEF Bridges
<1> HIDE DEF y
<1>8. t \in Steps
  BY <1>3, <1>4, <1>5 DEF Steps
<1>9. t.x = y /\ t.out = Append(s.out, m)
  BY <1>4 DEF Steps
<1>10. t.w = s.w /\ t.mine = s.mine
  BY <1>4 DEF Steps
<1> QED BY <1>6, <1>7, <1>8, <1>9, <1>10 DEF m

\* The guard that outlives a scene is nothing the others are told of.
LEMMA RetireFacts ==
  ASSUME NEW s \in Steps, NEW t, t = Retire(s)
  PROVE  /\ t \in Steps /\ t.out = s.out /\ t.w = s.w
         /\ t.x.seq = s.x.seq /\ t.x.sent = s.x.sent /\ t.x.scene = s.x.scene
         /\ t.x.flags = s.x.flags /\ t.x.ledger = s.x.ledger
<1>1. s.x \in Bridges /\ s.mine \in SUBSET Plates /\ s.x.scene \in Rooms
      /\ s.x.origin \in SUBSET Plates /\ s.x.retOrigin \in SUBSET Plates
  BY DEF Steps, Bridges
<1>2. CASE s.x.scene = None \/ s.x.origin = {}
  BY <1>2 DEF Retire
<1>3. CASE ~(s.x.scene = None \/ s.x.origin = {})
  <2> DEFINE y == [s.x EXCEPT !.retScene = s.x.scene, !.retOrigin = s.x.origin]
             kept == s.mine \cup s.x.retOrigin
  <2>1. t = [s EXCEPT !.x = y, !.mine = kept]
    BY <1>3 DEF Retire
  <2>2. y \in Bridges /\ kept \in SUBSET Plates
    BY <1>1 DEF Bridges
  <2>3. /\ y.seq = s.x.seq /\ y.sent = s.x.sent /\ y.scene = s.x.scene
        /\ y.flags = s.x.flags /\ y.ledger = s.x.ledger
    BY <1>1 DEF Bridges
  <2> HIDE DEF y, kept
  <2>4. t \in Steps
    BY <2>1, <2>2 DEF Steps
  <2>5. t.x = y /\ t.out = s.out /\ t.w = s.w
    BY <2>1 DEF Steps
  <2> QED BY <2>3, <2>4, <2>5
<1> QED BY <1>2, <1>3

\* A cleared bridge keeps its numbers and the numbers it heard.
LEMMA ClearedFacts ==
  ASSUME NEW x \in Bridges, NEW scene \in Rooms, NEW y, y = Cleared(x, scene)
  PROVE  /\ y \in Bridges /\ y.seq = x.seq /\ y.sent = {} /\ y.scene = scene
         /\ y.flags = x.flags /\ Cools(y.ledger, x.ledger)
         /\ \A r \in Players : y.ledger[r].contacts = {}
<1> DEFINE l == ClearPressure(x.ledger)
<1>1. x.ledger \in [Players -> Entries]
  BY DEF Bridges
<1>2. \A r \in Players : /\ l[r] = [x.ledger[r] EXCEPT !.contacts = {}] /\ x.ledger[r] \in Entries
  BY <1>1 DEF ClearPressure
<1>3. \A r \in Players : /\ l[r] \in Entries /\ l[r].contacts = {}
                         /\ l[r].seq = x.ledger[r].seq /\ l[r].scene = x.ledger[r].scene
  BY <1>2, ZenonT(30) DEF Entries
<1>4. l \in [Players -> Entries]
  BY <1>3 DEF ClearPressure
<1>5. Cools(l, x.ledger)
  BY <1>3 DEF Cools, Cool
<1>6. NoFrame \in Frames
  BY DEF NoFrame, Frames
<1>7. y = [x EXCEPT !.scene = scene, !.sampled = NoFrame, !.local = {}, !.sent = {}, !.origin = {},
            !.completed = {}, !.need = TRUE, !.ledger = l]
  BY DEF Cleared
<1> HIDE DEF l
<1>8. y \in Bridges
  <2> DEFINE z == [x EXCEPT !.scene = scene, !.sampled = NoFrame, !.local = {}, !.sent = {}]
  <2>1. z \in Bridges
    BY <1>6 DEF Bridges
  <2>2. y = [z EXCEPT !.origin = {}, !.completed = {}, !.need = TRUE, !.ledger = l]
    BY <1>7 DEF Bridges
  <2> HIDE DEF z
  <2> QED BY <1>4, <2>1, <2>2, ZenonT(30) DEF Bridges
<1>9. y.seq = x.seq /\ y.sent = {} /\ y.scene = scene /\ y.flags = x.flags /\ y.ledger = l
  BY <1>7 DEF Bridges
<1> QED BY <1>3, <1>5, <1>8, <1>9

\* One more report, of what the bridge has been told to send.
LEMMA GoodSend ==
  ASSUME NEW x0 \in Bridges, NEW s \in Steps, Good(x0, s.x, s.out), s.x.scene # None,
         NEW contacts \in SUBSET Plates, NEW t, t = Send(s, s.x.scene, contacts)
  PROVE  /\ t \in Steps /\ Good(x0, t.x, t.out) /\ t.x.sent = contacts
         /\ t.w = s.w /\ t.x.scene = s.x.scene /\ t.x.flags = s.x.flags /\ t.x.ledger = s.x.ledger
<1> DEFINE m == [type |-> "state", seq |-> s.x.seq + 1, scene |-> s.x.scene, contacts |-> contacts]
<1>1. /\ s.x.scene \in Rooms /\ s.x.seq \in Nat /\ s.out \in Seq(Messages) /\ x0.seq \in Nat
  BY DEF Steps, Bridges
<1>2. /\ t \in Steps /\ t.x.seq = s.x.seq + 1 /\ t.x.sent = contacts /\ t.x.scene = s.x.scene
      /\ t.out = Append(s.out, m)
      /\ t.w = s.w /\ t.x.flags = s.x.flags /\ t.x.ledger = s.x.ledger
  BY <1>1, SendFacts
<1>3. m \in Messages
  BY <1>1 DEF Messages, States
<1>4. /\ Len(t.out) = Len(s.out) + 1 /\ Len(s.out) \in Nat
      /\ \A i \in 1 .. Len(s.out) + 1 : t.out[i] = IF i = Len(s.out) + 1 THEN m ELSE s.out[i]
  BY <1>1, <1>2, <1>3, AppendElements
<1> DEFINE n == Len(s.out)
<1>5. m.type = "state" /\ m.seq = s.x.seq + 1 /\ m.scene = s.x.scene /\ m.contacts = contacts
  OBVIOUS
<1> HIDE DEF m
<1>6. \A i \in 1 .. n + 1 : i = n + 1 \/ i \in 1 .. n
  BY <1>4
<1>7. \A i \in 1 .. n : s.out[i].type = "state" =>
         x0.seq < s.out[i].seq /\ s.out[i].seq <= s.x.seq /\ s.out[i].seq \in Nat
  <2>1. \A i \in 1 .. n : s.out[i] \in Messages
    BY <1>1
  <2> QED BY <2>1 DEF Good, Messages, States, Bits, Lefts
<1>8. x0.seq <= t.x.seq /\ \A i \in 1 .. Len(t.out) : t.out[i].type # "left"
  BY <1>1, <1>2, <1>4, <1>5, <1>6 DEF Good
<1>9. \A i \in 1 .. Len(t.out) : t.out[i].type = "state" => x0.seq < t.out[i].seq /\ t.out[i].seq <= t.x.seq
  <2>1. x0.seq <= s.x.seq
    BY DEF Good
  <2> QED BY SMTT(30), <1>1, <1>2, <1>4, <1>5, <1>6, <1>7, <2>1
<1>10. \A i, j \in 1 .. Len(t.out) :
       i < j /\ t.out[i].type = "state" /\ t.out[j].type = "state" => t.out[i].seq < t.out[j].seq
  <2> SUFFICES ASSUME NEW i \in 1 .. n + 1, NEW j \in 1 .. n + 1, i < j,
                      t.out[i].type = "state", t.out[j].type = "state"
               PROVE  t.out[i].seq < t.out[j].seq
    BY <1>4
  <2>1. i \in 1 .. n /\ t.out[i] = s.out[i]
    BY <1>4
  <2>2. CASE j = n + 1
    <3>1. t.out[j].seq = s.x.seq + 1
      BY SMTT(30), <1>4, <1>5, <2>2
    <3>2. t.out[i].seq \in Nat /\ t.out[i].seq <= s.x.seq
      BY <1>7, <2>1
    <3> QED BY <1>1, <3>1, <3>2
  <2>3. CASE j \in 1 .. n
    BY <1>4, <2>1, <2>3 DEF Good
  <2> QED BY <1>6, <2>2, <2>3
<1>11. Kept(m, t.x)
  BY <1>2, <1>5 DEF Kept
<1>12. \A i \in 1 .. Len(t.out) :
       t.out[i].type = "state" /\ (\A j \in 1 .. Len(t.out) : j > i => t.out[j].type # "state")
         => Kept(t.out[i], t.x)
  <2> SUFFICES ASSUME NEW i \in 1 .. n + 1,
                      \A j \in 1 .. n + 1 : j > i => t.out[j].type # "state"
               PROVE  Kept(t.out[i], t.x)
    BY <1>4
  <2>1. i = n + 1
    BY <1>4, <1>5, <1>6
  <2> QED BY <1>4, <1>11, <2>1
<1>13. t.out[n + 1].type = "state" /\ n + 1 \in 1 .. Len(t.out)
  BY <1>4, <1>5
<1>14. t.x.scene # None
  BY <1>2
<1> HIDE DEF n
<1> QED BY <1>2, <1>8, <1>9, <1>10, <1>12, <1>13, <1>14 DEF Good

\* Whatever was sent of a scene is taken back when it is left.
LEMMA TakeBackGood ==
  ASSUME NEW x0 \in Bridges, NEW s \in Steps, Good(x0, s.x, s.out), NEW t, t = TakeBack(s)
  PROVE  /\ t \in Steps /\ Good(x0, t.x, t.out) /\ t.x.sent = {}
         /\ t.w = s.w /\ t.x.scene = s.x.scene /\ t.x.flags = s.x.flags /\ t.x.ledger = s.x.ledger
<1>1. CASE s.x.scene # None /\ s.x.sent # {}
  <2>1. t = Send(s, s.x.scene, {}) /\ s.x.scene \in Rooms
    BY <1>1, SMTT(30) DEF TakeBack, Steps, Bridges
  <2> QED BY SMTT(30), <1>1, <2>1, GoodSend
<1>2. CASE ~(s.x.scene # None /\ s.x.sent # {})
  BY <1>2 DEF TakeBack, Good
<1> QED BY <1>1, <1>2, SMTT(30)

\* A bridge that is cleared after it took its contacts back.
LEMMA GoodCleared ==
  ASSUME NEW x0 \in Bridges, NEW x, NEW out, Good(x0, x, out), x.sent = {},
         NEW y, y.seq = x.seq, y.sent = {}
  PROVE  Good(x0, y, out)
<1>1. \A i \in 1 .. Len(out) : Kept(out[i], x) => Kept(out[i], y)
  BY DEF Kept
<1> QED BY <1>1 DEF Good

\* A change of the scene sends at most the report that takes the old one back.
LEMMA UpdateSceneFacts ==
  ASSUME NEW x0 \in Bridges, NEW s \in Steps, Good(x0, s.x, s.out), NEW t, t = UpdateScene(s)
  PROVE  /\ t \in Steps /\ Good(x0, t.x, t.out) /\ t.w = s.w /\ t.x.flags = s.x.flags
         /\ Cools(t.x.ledger, s.x.ledger)
<1>1. CASE CurrentScene(s) = s.x.scene
  BY <1>1 DEF UpdateScene, Cools, Cool
<1>2. CASE CurrentScene(s) # s.x.scene
  <2> DEFINE a == TakeBack(s)
             b == Retire(a)
             y == Cleared(b.x, CurrentScene(s))
  <2>1. /\ a \in Steps /\ Good(x0, a.x, a.out) /\ a.x.sent = {}
        /\ a.w = s.w /\ a.x.flags = s.x.flags /\ a.x.ledger = s.x.ledger
    BY TakeBackGood
  <2> HIDE DEF a
  <2>2. /\ b \in Steps /\ b.out = a.out /\ b.w = a.w
        /\ b.x.seq = a.x.seq /\ b.x.sent = a.x.sent /\ b.x.scene = a.x.scene
        /\ b.x.flags = a.x.flags /\ b.x.ledger = a.x.ledger
    BY <2>1, RetireFacts
  <2> HIDE DEF b
  <2>3. CurrentScene(s) \in Rooms /\ b.x \in Bridges
    BY <2>2 DEF CurrentScene, Steps, Worlds, Rooms
  <2>4. /\ y \in Bridges /\ y.seq = b.x.seq /\ y.sent = {}
        /\ y.flags = b.x.flags /\ Cools(y.ledger, b.x.ledger)
    BY <2>3, ClearedFacts
  <2>5. t = [b EXCEPT !.x = y]
    BY <1>2 DEF UpdateScene, a, b
  <2> HIDE DEF y
  <2>6. t \in Steps /\ t.x = y /\ t.out = b.out /\ t.w = b.w
    BY <2>2, <2>4, <2>5 DEF Steps
  <2>7. Good(x0, y, a.out)
    BY <2>1, <2>2, <2>4, GoodCleared
  <2> QED BY <2>1, <2>2, <2>4, <2>6, <2>7
<1> QED BY <1>1, <1>2

\* A step that only files what it heard, and one that sends no report.
LEMMA GoodSame ==
  ASSUME NEW x0, NEW x, NEW out, Good(x0, x, out),
         NEW y, y.seq = x.seq, y.sent = x.sent, y.scene = x.scene
  PROVE  Good(x0, y, out)
<1>1. \A i \in 1 .. Len(out) : Kept(out[i], x) => Kept(out[i], y)
  BY DEF Kept
<1> QED BY <1>1 DEF Good

\* What is sent by a flush is what the bridge has captured.
LEMMA FlushFacts ==
  ASSUME NEW x0 \in Bridges, NEW s \in Steps, Good(x0, s.x, s.out),
         NEW paused, NEW beat, NEW t, t = Flush(s, paused, beat)
  PROVE  /\ t \in Steps /\ Good(x0, t.x, t.out) /\ t.w = s.w /\ t.x.flags = s.x.flags
         /\ Cools(t.x.ledger, s.x.ledger)
<1> DEFINE a == UpdateScene(s)
           local == FinishFrame(a.x.local, a.x.sampled, paused)
           y == [a.x EXCEPT !.local = local, !.sampled = NoFrame]
           u == [a EXCEPT !.x.local = local, !.x.sampled = NoFrame]
<1>1. /\ a \in Steps /\ Good(x0, a.x, a.out) /\ a.w = s.w /\ a.x.flags = s.x.flags
      /\ Cools(a.x.ledger, s.x.ledger)
  BY UpdateSceneFacts
<1>2. t = IF a.x.scene = None THEN a
          ELSE IF u.x.need \/ local # u.x.sent \/ (local # {} /\ beat) THEN Send(u, u.x.scene, local)
          ELSE u
  BY DEF Flush
<1> HIDE DEF a
<1>3. a.x \in Bridges /\ a.x.sampled \in Frames /\ a.x.local \in SUBSET Plates
  BY <1>1 DEF Steps, Bridges
<1>4. local \in SUBSET Plates
  BY <1>3 DEF FinishFrame, Frames
<1> HIDE DEF local
<1>5. NoFrame \in Frames
  BY DEF NoFrame, Frames
<1>6. y \in Bridges /\ u = [a EXCEPT !.x = y]
  <2>1. y \in Bridges
    BY <1>3, <1>4, <1>5 DEF Bridges
  <2>2. u = [a EXCEPT !.x = y]
    BY <1>1 DEF Steps
  <2> QED BY <2>1, <2>2
<1> HIDE DEF u
<1>7. /\ y.seq = a.x.seq /\ y.sent = a.x.sent /\ y.scene = a.x.scene
      /\ y.flags = a.x.flags /\ y.ledger = a.x.ledger
  BY <1>3 DEF Bridges
<1> HIDE DEF y
<1>8. u \in Steps /\ u.x = y /\ u.out = a.out /\ u.w = a.w
  BY <1>1, <1>6 DEF Steps
<1>9. Good(x0, u.x, u.out)
  BY <1>1, <1>7, <1>8, GoodSame
<1>10. CASE t = a
  BY <1>1, <1>10
<1>11. CASE t = u
  BY <1>1, <1>7, <1>8, <1>9, <1>11
<1>12. CASE a.x.scene # None /\ t = Send(u, u.x.scene, local)
  <2>1. u.x.scene # None
    BY <1>7, <1>8, <1>12
  <2>2. /\ t \in Steps /\ Good(x0, t.x, t.out)
        /\ t.w = u.w /\ t.x.flags = u.x.flags /\ t.x.ledger = u.x.ledger
    BY <1>4, <1>8, <1>9, <1>12, <2>1, GoodSend, SMTT(30)
  <2> QED BY <1>1, <1>7, <1>8, <2>2
<1> QED BY <1>2, <1>10, <1>11, <1>12

\* reset_floor_switch_state, with and without a new session.
Off(s) == Reset(s, FALSE)
Restarted(s) == Reset(s, TRUE)

\* A bridge that no longer shares flags has nobody's contacts.
LEMMA ResetFacts ==
  ASSUME NEW x0 \in Bridges, NEW s \in Steps, Good(x0, s.x, s.out), NEW t, t = Off(s)
  PROVE  /\ t \in Steps /\ Good(x0, t.x, t.out) /\ t.w = s.w /\ t.x.flags = s.x.flags
         /\ Cools(t.x.ledger, s.x.ledger)
         /\ \A r \in Players : t.x.ledger[r].contacts = {}
<1> DEFINE a == TakeBack(s)
           b == Retire(a)
           y == Cleared(b.x, None)
<1>1. /\ a \in Steps /\ Good(x0, a.x, a.out) /\ a.x.sent = {}
      /\ a.w = s.w /\ a.x.flags = s.x.flags /\ a.x.ledger = s.x.ledger
  BY TakeBackGood
<1>2. t = [b EXCEPT !.x = y]
  BY DEF Reset, Off, Restarted
<1> HIDE DEF a
<1>3. /\ b \in Steps /\ b.out = a.out /\ b.w = a.w
      /\ b.x.seq = a.x.seq /\ b.x.sent = a.x.sent /\ b.x.scene = a.x.scene
      /\ b.x.flags = a.x.flags /\ b.x.ledger = a.x.ledger
  BY <1>1, RetireFacts
<1> HIDE DEF b
<1>4. b.x \in Bridges /\ None \in Rooms
  BY <1>3 DEF Steps, Rooms
<1>5. /\ y \in Bridges /\ y.seq = b.x.seq /\ y.sent = {}
      /\ y.flags = b.x.flags /\ Cools(y.ledger, b.x.ledger)
      /\ \A r \in Players : y.ledger[r].contacts = {}
  BY <1>4, ClearedFacts
<1> HIDE DEF y
<1>6. t \in Steps /\ t.x = y /\ t.out = b.out /\ t.w = b.w
  BY <1>2, <1>3, <1>5 DEF Steps
<1>7. Good(x0, y, a.out)
  BY <1>1, <1>3, <1>5, GoodCleared
<1> QED BY <1>1, <1>3, <1>5, <1>6, <1>7

\* A session that starts anew remembers nobody and counts from zero.
LEMMA RestartFacts ==
  ASSUME NEW s \in Steps, NEW t, t = Restarted(s)
  PROVE  /\ t \in Steps /\ t.x.seq = 0 /\ t.x.sent = {} /\ t.x.scene = None
         /\ \A r \in Players : t.x.ledger[r] = NoEntry
<1> DEFINE b == Retire(s)
           c == Cleared(b.x, None)
           y == [c EXCEPT !.seq = 0, !.ledger = [q \in Players |-> NoEntry]]
<1>1. t = [b EXCEPT !.x = y]
  BY DEF Reset, Off, Restarted
<1>2. b \in Steps
  BY RetireFacts
<1> HIDE DEF b
<1>3. b.x \in Bridges /\ None \in Rooms
  BY <1>2 DEF Steps, Rooms
<1>4. c \in Bridges /\ c.sent = {} /\ c.scene = None
  BY <1>3, ClearedFacts
<1> HIDE DEF c
<1>5. NoEntry \in Entries
  BY DEF NoEntry, Entries, Rooms
<1>6. y \in Bridges
  BY <1>4, <1>5 DEF Bridges
<1>7. y.seq = 0 /\ y.sent = {} /\ y.scene = None /\ \A r \in Players : y.ledger[r] = NoEntry
  BY <1>4 DEF Bridges
<1> HIDE DEF y
<1>8. t \in Steps /\ t.x = y
  BY <1>1, <1>2, <1>6 DEF Steps
<1> QED BY <1>7, <1>8

\* A message changes the entry of its sender.
LEMMA ReceiveStateFacts ==
  ASSUME NEW x \in Bridges, NEW q \in Players, NEW m \in States, NEW y, y = ReceiveState(x, q, m)
  PROVE  /\ y \in Bridges /\ y.seq = x.seq /\ y.sent = x.sent /\ y.scene = x.scene /\ y.flags = x.flags
         /\ \A r \in Players : r # q => y.ledger[r] = x.ledger[r]
         /\ m.seq > x.ledger[q].seq =>
              /\ y.ledger[q].seq = m.seq /\ y.ledger[q].scene = m.scene
              /\ y.ledger[q].contacts = m.contacts
         /\ m.seq <= x.ledger[q].seq => y.ledger[q] = x.ledger[q]
<1>1. x.ledger \in [Players -> Entries] /\ m.seq \in Nat /\ x.ledger[q].seq \in Nat
      /\ m.scene \in Rooms /\ m.contacts \in SUBSET Plates
  BY DEF Bridges, Entries, States
<1>2. CASE m.seq <= x.ledger[q].seq
  BY <1>1, <1>2 DEF ReceiveState
<1>3. CASE m.seq > x.ledger[q].seq
  <2> DEFINE e == [seq |-> m.seq, scene |-> m.scene, contacts |-> m.contacts, fresh |-> TRUE]
             l == [x.ledger EXCEPT ![q] = e]
  <2>1. e \in Entries /\ e.seq = m.seq /\ e.scene = m.scene /\ e.contacts = m.contacts
    BY <1>1 DEF Entries
  <2>2. ~(m.seq <= x.ledger[q].seq)
    BY <1>1, <1>3
  <2>3. y = [x EXCEPT !.ledger = l]
    BY <2>2 DEF ReceiveState
  <2> HIDE DEF e
  <2>4. l \in [Players -> Entries] /\ l[q] = e /\ \A r \in Players : r # q => l[r] = x.ledger[r]
    BY <1>1, <2>1
  <2> HIDE DEF l
  <2>5. y \in Bridges
    BY <2>3, <2>4 DEF Bridges
  <2>6. /\ y.seq = x.seq /\ y.sent = x.sent /\ y.scene = x.scene /\ y.flags = x.flags /\ y.ledger = l
    BY <2>3 DEF Bridges
  <2> QED BY <2>1, <2>2, <2>4, <2>5, <2>6
<1> QED BY <1>1, <1>2, <1>3

\* The entry of a peer that left is that of one never heard.
LEMMA ForgetFacts ==
  ASSUME NEW x \in Bridges, NEW q \in Players, NEW y, y = Forget(x, q)
  PROVE  /\ y \in Bridges /\ y.seq = x.seq /\ y.sent = x.sent /\ y.scene = x.scene /\ y.flags = x.flags
         /\ \A r \in Players : r # q => y.ledger[r] = x.ledger[r]
         /\ y.ledger[q] = NoEntry
<1> DEFINE l == [x.ledger EXCEPT ![q] = NoEntry]
<1>1. x.ledger \in [Players -> Entries] /\ NoEntry \in Entries
  BY DEF Bridges, NoEntry, Entries, Rooms
<1>2. y = [x EXCEPT !.ledger = l]
  BY DEF Forget
<1>3. l \in [Players -> Entries] /\ l[q] = NoEntry /\ \A r \in Players : r # q => l[r] = x.ledger[r]
  BY <1>1
<1> HIDE DEF l
<1>4. y \in Bridges
  BY <1>2, <1>3 DEF Bridges
<1>5. y.seq = x.seq /\ y.sent = x.sent /\ y.scene = x.scene /\ y.flags = x.flags /\ y.ledger = l
  BY <1>2 DEF Bridges
<1> QED BY <1>3, <1>4, <1>5

\* A bit may change the scene and marks a latch; the entries keep what they had.
LEMMA ReceiveBitFacts ==
  ASSUME NEW x0 \in Bridges, NEW s \in Steps, Good(x0, s.x, s.out), NEW k \in Latches,
         NEW t, t = ReceiveBit(s, k)
  PROVE  /\ t \in Steps /\ Good(x0, t.x, t.out) /\ t.x.flags = s.x.flags
         /\ t.w.feet = s.w.feet /\ t.w.room = s.w.room /\ Cools(t.x.ledger, s.x.ledger)
<1> DEFINE a == UpdateScene(s)
           w == [a.w EXCEPT !.flag = a.w.flag \cup {k}]
           b == [a EXCEPT !.w = w]
           y == [b.x EXCEPT !.completed = b.x.completed \cup {k}, !.origin = b.x.origin \cup {k}]
           c == [b EXCEPT !.x.completed = b.x.completed \cup {k}, !.x.origin = b.x.origin \cup {k}]
<1>1. /\ a \in Steps /\ Good(x0, a.x, a.out) /\ a.w = s.w /\ a.x.flags = s.x.flags
      /\ Cools(a.x.ledger, s.x.ledger)
  BY UpdateSceneFacts
<1>2. t \in {b, c}
  BY DEF ReceiveBit
<1> HIDE DEF a
<1>3. k \in Plates /\ a.w \in Worlds /\ a.w.flag \in SUBSET Latches
  BY <1>1 DEF Steps, Worlds, Latches
<1>4. w \in Worlds
  BY <1>3 DEF Worlds
<1>5. w.feet = a.w.feet /\ w.room = a.w.room
  BY <1>3 DEF Worlds
<1> HIDE DEF w
<1>6. b \in Steps /\ b.x = a.x /\ b.out = a.out /\ b.w = w
  BY <1>1, <1>4 DEF Steps
<1> HIDE DEF b
<1>7. b.x \in Bridges /\ b.x.completed \in SUBSET Latches /\ b.x.origin \in SUBSET Plates
  BY <1>6 DEF Steps, Bridges
<1>8. y \in Bridges
  BY <1>3, <1>7 DEF Bridges
<1>9. y.seq = b.x.seq /\ y.sent = b.x.sent /\ y.scene = b.x.scene /\ y.flags = b.x.flags
      /\ y.ledger = b.x.ledger
  BY <1>7 DEF Bridges
<1>10. c = [b EXCEPT !.x = y]
  BY <1>6 DEF Steps
<1> HIDE DEF c, y
<1>11. c \in Steps /\ c.x = y /\ c.out = b.out /\ c.w = b.w
  BY <1>6, <1>8, <1>10 DEF Steps
<1>12. Good(x0, b.x, b.out)
  BY <1>1, <1>6
<1>13. Good(x0, c.x, c.out)
  BY <1>9, <1>11, <1>12, GoodSame
<1> QED BY <1>1, <1>2, <1>5, <1>6, <1>9, <1>11, <1>12, <1>13

\* A message changes the entry of its sender, the others lose contacts at most.
LEMMA ReceiveFacts ==
  ASSUME NEW x0 \in Bridges, NEW s \in Steps, Good(x0, s.x, s.out), NEW q \in Players,
         NEW m \in Messages, NEW t, t = Receive(s, q, m)
  PROVE  /\ t \in Steps /\ Good(x0, t.x, t.out) /\ t.x.flags = s.x.flags
         /\ t.w.feet = s.w.feet /\ t.w.room = s.w.room
         /\ \A r \in Players : r # q => Cool(t.x.ledger[r], s.x.ledger[r])
         /\ Heard(t.x.ledger[q], s.x.ledger[q], m, s.x.flags)
<1>1. s.x \in Bridges /\ \A e : Cool(e, e)
  BY DEF Steps, Cool
<1>2. CASE m.type = "left"
  <2> DEFINE y == Forget(s.x, q)
  <2>1. t = [s EXCEPT !.x = y]
    BY <1>2 DEF Receive
  <2>2. /\ y \in Bridges /\ y.seq = s.x.seq /\ y.sent = s.x.sent /\ y.scene = s.x.scene
        /\ y.flags = s.x.flags /\ y.ledger[q] = NoEntry
        /\ \A r \in Players : r # q => y.ledger[r] = s.x.ledger[r]
    BY <1>1, ForgetFacts
  <2> HIDE DEF y
  <2>3. t \in Steps /\ t.x = y /\ t.out = s.out /\ t.w = s.w
    BY <2>1, <2>2 DEF Steps
  <2>4. Good(x0, y, s.out)
    BY <2>2, GoodSame
  <2>5. Heard(y.ledger[q], s.x.ledger[q], m, s.x.flags)
    BY <1>2, <2>2 DEF Heard
  <2> QED BY <1>1, <2>2, <2>3, <2>4, <2>5
<1>3. CASE m.type = "state" /\ s.x.flags
  <2> DEFINE a == UpdateScene(s)
             y == ReceiveState(a.x, q, m)
  <2>1. m \in States
    BY <1>3 DEF Messages, Bits, Lefts
  <2>2. /\ a \in Steps /\ Good(x0, a.x, a.out) /\ a.w = s.w /\ a.x.flags = s.x.flags
        /\ Cools(a.x.ledger, s.x.ledger)
    BY UpdateSceneFacts
  <2>3. t = [a EXCEPT !.x = y]
    BY <1>3 DEF Receive
  <2> HIDE DEF a
  <2>4. a.x \in Bridges
    BY <2>2 DEF Steps
  <2>5. /\ y \in Bridges /\ y.seq = a.x.seq /\ y.sent = a.x.sent /\ y.scene = a.x.scene
        /\ y.flags = a.x.flags
        /\ \A r \in Players : r # q => y.ledger[r] = a.x.ledger[r]
        /\ m.seq > a.x.ledger[q].seq =>
             /\ y.ledger[q].seq = m.seq /\ y.ledger[q].scene = m.scene
             /\ y.ledger[q].contacts = m.contacts
        /\ m.seq <= a.x.ledger[q].seq => y.ledger[q] = a.x.ledger[q]
    BY <2>1, <2>4, ReceiveStateFacts
  <2> HIDE DEF y
  <2>6. t \in Steps /\ t.x = y /\ t.out = a.out /\ t.w = a.w
    BY <2>2, <2>3, <2>5 DEF Steps
  <2>7. Good(x0, y, a.out)
    BY <2>2, <2>5, GoodSame
  <2>8. a.x.ledger[q].seq = s.x.ledger[q].seq
    BY <2>2 DEF Cools, Cool
  <2>9. Heard(y.ledger[q], s.x.ledger[q], m, s.x.flags)
    BY <1>3, <2>2, <2>5, <2>8 DEF Heard, Cools
  <2> QED BY <2>2, <2>5, <2>6, <2>7, <2>9 DEF Cools
<1>4. CASE m.type = "bit" /\ s.x.flags
  <2>1. m.plate \in Latches /\ t = ReceiveBit(s, m.plate)
    BY <1>4 DEF Receive, Messages, States, Bits, Lefts
  <2>2. /\ t \in Steps /\ Good(x0, t.x, t.out) /\ t.x.flags = s.x.flags
        /\ t.w.feet = s.w.feet /\ t.w.room = s.w.room /\ Cools(t.x.ledger, s.x.ledger)
    BY <2>1, ReceiveBitFacts
  <2> QED BY <1>4, <2>2 DEF Cools, Heard
<1>5. CASE m.type # "left" /\ ~s.x.flags
  <2>1. t = s /\ m.type \in {"state", "bit"}
    BY <1>5 DEF Receive, Messages, States, Bits, Lefts
  <2> QED BY <1>1, <1>5, <2>1 DEF Heard
<1>6. m.type \in {"left", "state", "bit"}
  BY DEF Messages, States, Bits, Lefts
<1> QED BY <1>2, <1>3, <1>4, <1>5, <1>6

\* A finite set can be put in order.
LEMMA SetToSeqFacts ==
  ASSUME NEW S, IsFiniteSet(S)
  PROVE  SetToSeq(S) \in Seq(S)
<1>1. Cardinality(S) \in Nat /\ ExistsBijection(1 .. Cardinality(S), S)
  BY FS_CardinalityType
<1>2. PICK f \in [1 .. Cardinality(S) -> S] : IsInjective(f)
  BY <1>1 DEF ExistsBijection, Bijection, Injection
<1>3. SetToSeq(S) \in [1 .. Cardinality(S) -> S]
  BY <1>2 DEF SetToSeq
<1> QED BY <1>1, <1>3

\* A plate that ran sends no more than bits.
LEMMA GoodBits ==
  ASSUME NEW x0 \in Bridges, NEW x \in Bridges, NEW out \in Seq(Messages), Good(x0, x, out),
         NEW bits \in Seq(Bits)
  PROVE  out \o bits \in Seq(Messages) /\ Good(x0, x, out \o bits)
<1> DEFINE both == out \o bits
           n == Len(out)
<1>1. bits \in Seq(Messages) /\ \A i \in 1 .. Len(bits) : bits[i].type = "bit"
  <2>1. Bits \subseteq Messages /\ \A b \in Bits : b.type = "bit"
    BY DEF Messages, Bits
  <2> QED BY <2>1
<1>2. /\ both \in Seq(Messages) /\ Len(both) = n + Len(bits) /\ n \in Nat /\ Len(bits) \in Nat
      /\ \A i \in 1 .. Len(both) : \/ i \in 1 .. n /\ both[i] = out[i]
                                   \/ i - n \in 1 .. Len(bits) /\ both[i] = bits[i - n]
  BY <1>1, ConcatElements
<1>3. \A i \in 1 .. n : i \in 1 .. Len(both) /\ both[i] = out[i]
  <2>1. \A i \in 1 .. n : i \in 1 .. Len(both) /\ ~(i - n \in 1 .. Len(bits))
    BY <1>2
  <2> QED BY <1>2, <2>1
<1>4. \A i \in 1 .. Len(both) : both[i].type = "bit" \/ (i \in 1 .. n /\ both[i] = out[i])
  BY <1>1, <1>2
<1> HIDE DEF both, n
<1>5. \A i \in 1 .. Len(both) : both[i].type \in {"state", "left"} => i \in 1 .. n /\ both[i] = out[i]
  BY <1>4
<1>6. \A i \in 1 .. Len(both) : both[i].type # "left"
  BY <1>5 DEF Good, n
<1>7. \A i \in 1 .. Len(both) : both[i].type = "state" => x0.seq < both[i].seq /\ both[i].seq <= x.seq
  BY <1>5 DEF Good, n
<1>8. \A i, j \in 1 .. Len(both) :
       i < j /\ both[i].type = "state" /\ both[j].type = "state" => both[i].seq < both[j].seq
  <2>1. \A i, j \in 1 .. n :
          i < j /\ out[i].type = "state" /\ out[j].type = "state" => out[i].seq < out[j].seq
    BY DEF Good, n
  <2> SUFFICES ASSUME NEW i \in 1 .. Len(both), NEW j \in 1 .. Len(both),
                      i < j, both[i].type = "state", both[j].type = "state"
               PROVE  both[i].seq < both[j].seq
    OBVIOUS
  <2>2. i \in 1 .. n /\ both[i] = out[i] /\ j \in 1 .. n /\ both[j] = out[j]
    BY <1>5
  <2> QED BY <2>1, <2>2
<1>9. \A i \in 1 .. Len(both) :
       both[i].type = "state" /\ (\A j \in 1 .. Len(both) : j > i => both[j].type # "state")
         => Kept(both[i], x)
  BY <1>3, <1>5 DEF Good, n
<1>10. (\A i \in 1 .. Len(both) : both[i].type # "state") =>
         (x.sent = x0.sent /\ x.scene = x0.scene) \/ x0.sent = {}
  BY <1>3 DEF Good, n
<1> QED BY <1>2, <1>6, <1>7, <1>8, <1>9, <1>10 DEF Good, both

\* The plates run on what was heard, and change neither the entries nor the numbers.
LEMMA ExecuteFacts ==
  ASSUME NEW x0 \in Bridges, NEW s \in Steps, Good(x0, s.x, s.out), NEW p \in Players,
         NEW moves \in SUBSET Plates, NEW t, t = Execute(s, p, moves)
  PROVE  /\ t \in Steps /\ Good(x0, t.x, t.out) /\ t.x.flags = s.x.flags
         /\ t.w.feet = s.w.feet /\ t.w.room = s.w.room /\ t.x.ledger = s.x.ledger
<1> DEFINE x == s.x
           w == s.w
           here == {k \in Plates : SceneOf[k] = w.room}
           synced == x.scene # None
           remote == IF synced THEN Pressure(x, x.scene, Fresh(x)) \cap here ELSE {}
           same == w.room = x.retScene
           retired == IF same THEN {k \in x.retOrigin : k \notin w.feet /\ ~Idle(w, k)} ELSE {}
           origin == IF ~synced THEN x.origin
                     ELSE ((x.origin \cup remote \cup x.completed) \ w.feet)
                            \ {k \in here : Idle(w, k) /\ k \notin remote \cup x.completed}
           remoteOnly == (retired \cup (IF synced THEN origin ELSE {})) \ w.feet
           finishing == IF synced THEN Finishing(x, w) ELSE {}
           pressed == (w.feet \cup remote \cup finishing) \cap here
           started == [k \in Plates |-> IF k \in finishing /\ w.pos[k] = "up" THEN "moving" ELSE w.pos[k]]
           pos == Stepped(w, here \cap moves, pressed, finishing)
           moved == {k \in here : pos[k] # w.pos[k]}
           set == Durable(moved, pos)
           published == IF synced THEN (set \ w.flag) \ remoteOnly ELSE {}
           sampled == IF synced THEN Sampled(here, w.feet, pressed) ELSE x.sampled
           retScene == IF same THEN x.retScene ELSE None
           completed == IF synced THEN finishing ELSE x.completed
           y == [x EXCEPT !.retScene = retScene, !.retOrigin = retired, !.sampled = sampled,
                          !.origin = origin, !.completed = completed]
           v == [w EXCEPT !.pos = pos, !.flag = w.flag \cup set]
           own == (s.mine \cup w.feet) \ ((remote \cup finishing) \ w.feet)
           bits == SetToSeq({[type |-> "bit", plate |-> k] : k \in published})
<1>1. t = [s EXCEPT !.x = y, !.w = v, !.mine = own, !.acted = moved \ remoteOnly,
                    !.out = s.out \o bits]
  BY DEF Execute
<1>2. /\ x \in Bridges /\ w \in Worlds /\ s.out \in Seq(Messages) /\ s.mine \in SUBSET Plates
      /\ x.origin \in SUBSET Plates /\ x.completed \in SUBSET Latches /\ Latches \subseteq Plates
      /\ x.retOrigin \in SUBSET Plates /\ x.retScene \in Rooms /\ x.sampled \in Frames
      /\ w.feet \in SUBSET Plates /\ w.flag \in SUBSET Latches /\ w.pos \in [Plates -> Positions]
  BY DEF Steps, Bridges, Worlds, Latches
<1> HIDE DEF x, w
<1>3. /\ here \in SUBSET Plates /\ remote \in SUBSET Plates /\ retired \in SUBSET Plates
      /\ w.feet \subseteq here
  <2>1. w.feet \subseteq here
    BY DEF Steps, Worlds, w
  <2> QED BY <1>2, <2>1
<1> HIDE DEF here, remote, retired
<1>4. origin \in SUBSET Plates
  BY <1>2, <1>3
<1>5. finishing \in SUBSET Latches
  BY <1>2 DEF Finishing
<1> HIDE DEF origin, remoteOnly, finishing
<1>6. started \in [Plates -> Positions]
  BY <1>2 DEF Positions
<1> HIDE DEF started, pressed
<1>7. pos \in [Plates -> Positions]
  <2>1. \A k \in Plates, b \in BOOLEAN : Move(k, started[k], b) \in Positions
    BY <1>6 DEF Move, Positions
  <2>2. \A k \in Plates : (k \in pressed) \in BOOLEAN
    OBVIOUS
  <2>3. ASSUME NEW k \in Plates
        PROVE  (IF k \in here \cap moves THEN Move(k, started[k], k \in pressed)
                ELSE started[k]) \in Positions
    BY <1>6, <2>1, <2>2
  <2>4. pos = [k \in Plates |-> IF k \in here \cap moves THEN Move(k, started[k], k \in pressed)
                                ELSE started[k]]
    BY DEF Stepped, started
  <2> HIDE DEF pos
  <2> QED BY <2>3, <2>4
<1> HIDE DEF pos
<1>8. moved \in SUBSET Plates /\ set \in SUBSET Latches /\ published \in SUBSET Latches
  BY <1>3 DEF Durable
<1> HIDE DEF moved, set, published
<1>9. sampled \in Frames
  <2>1. CASE ~synced
    BY <1>2, <2>1
  <2>2. CASE synced
    <3>1. sampled = [ran |-> here, on |-> w.feet]
      BY <2>2 DEF Sampled
    <3> HIDE DEF sampled
    <3> QED BY <1>2, <1>3, <3>1 DEF Frames
  <2> QED BY <2>1, <2>2
<1>10. retScene \in Rooms /\ completed \in SUBSET Latches
  BY <1>2, <1>5 DEF Rooms
<1> HIDE DEF sampled, retScene, completed
<1>11. y \in Bridges
  BY <1>2, <1>3, <1>4, <1>9, <1>10 DEF Bridges
<1>12. y.seq = x.seq /\ y.sent = x.sent /\ y.scene = x.scene /\ y.flags = x.flags /\ y.ledger = x.ledger
  BY <1>2 DEF Bridges
<1>13. v \in Worlds
  BY <1>2, <1>7, <1>8 DEF Worlds
<1>14. v.feet = w.feet /\ v.room = w.room
  BY <1>2 DEF Worlds
<1>15. own \in SUBSET Plates /\ moved \ remoteOnly \in SUBSET Plates
  BY <1>2, <1>8
<1> HIDE DEF y, v, own
<1>16. bits \in Seq(Bits)
  <2> DEFINE B == {[type |-> "bit", plate |-> k] : k \in published}
             f == [k \in published |-> [type |-> "bit", plate |-> k]]
  <2>1. IsFiniteSet(published)
    BY <1>2, <1>8, FloorAssumption, FS_Subset
  <2>2. f \in Bijection(published, B)
    <3>1. f \in [published -> B] /\ \A k, l \in published : f[k] = f[l] => k = l
      OBVIOUS
    <3>2. \A b \in B : \E k \in published : f[k] = b
      OBVIOUS
    <3> HIDE DEF f, B
    <3> QED BY <3>1, <3>2 DEF Bijection, Injection, Surjection, IsInjective
  <2>3. IsFiniteSet(B)
    <3> HIDE DEF f, B
    <3> QED BY <2>1, <2>2, FS_Bijection DEF ExistsBijection
  <2>4. B \subseteq Bits
    BY <1>8 DEF Bits
  <2>5. SetToSeq(B) \in Seq(B)
    BY <2>3, SetToSeqFacts
  <2> HIDE DEF B
  <2>6. Seq(B) \subseteq Seq(Bits)
    BY <2>4
  <2> QED BY <2>5, <2>6 DEF B
<1> HIDE DEF bits
<1>17. Good(x0, y, s.out)
  BY <1>12, GoodSame DEF x
<1>18. s.out \o bits \in Seq(Messages) /\ Good(x0, y, s.out \o bits)
  BY <1>2, <1>11, <1>16, <1>17, GoodBits
<1>19. t \in Steps
  BY <1>1, <1>11, <1>13, <1>15, <1>18 DEF Steps
<1>20. t.x = y /\ t.w = v /\ t.out = s.out \o bits
  BY <1>1 DEF Steps
<1> HIDE DEF here, synced, remote, same, retired, origin, remoteOnly, finishing, pressed, started, pos,
             moved, set, published, sampled, retScene, completed, own
<1> QED BY <1>12, <1>14, <1>18, <1>19, <1>20, SMTT(30) DEF x, w

-----------------------------------------------------------------------------
\* The streams.

\* A message that is a report; a stream on which a departure is under way.
Said(m) == m.type = "state"
Gone(qu) == \E i \in 1 .. Len(qu) : qu[i].type = "left"

\* The reports of the stream qu to a player that has the entry e.
Numbered(qu, e) ==
  /\ \A i \in 1 .. Len(qu) :
       Said(qu[i]) /\ (\A j \in 1 .. Len(qu) : j < i => qu[j].type # "left") => e.seq < qu[i].seq
  /\ \A i, j \in 1 .. Len(qu) :
       i < j /\ Said(qu[i]) /\ Said(qu[j])
             /\ (\A h \in 1 .. Len(qu) : i < h /\ h < j => qu[h].type # "left")
         => qu[i].seq < qu[j].seq
  /\ \A i \in 1 .. Len(qu) : Said(qu[i]) => 0 < qu[i].seq

\* The stream qu from a bridge x to a player that has the entry e of it.
Stream(qu, x, e) ==
  /\ Numbered(qu, e)
  /\ \A i \in 1 .. Len(qu) :
       Said(qu[i]) /\ (\A j \in 1 .. Len(qu) : i < j => qu[j].type # "left") => qu[i].seq <= x.seq
  /\ ~Gone(qu) => e.seq <= x.seq
  /\ \A i \in 1 .. Len(qu) :
       Said(qu[i]) /\ (\A j \in 1 .. Len(qu) : i < j => qu[j].type = "bit") => Kept(qu[i], x)
  /\ (\A j \in 1 .. Len(qu) : qu[j].type = "bit") => Kept(e, x)

\* What a step sends continues the stream.
LEMMA StreamGrows ==
  ASSUME NEW x0 \in Bridges, NEW x \in Bridges, NEW out \in Seq(Messages), Good(x0, x, out),
         NEW qu \in Seq(Messages), NEW e \in Entries, Stream(qu, x0, e)
  PROVE  qu \o out \in Seq(Messages) /\ Stream(qu \o out, x, e)
<1> DEFINE all == qu \o out
           n == Len(qu)
           l == Len(out)
<1>1. /\ all \in Seq(Messages) /\ Len(all) = n + l /\ n \in Nat /\ l \in Nat
      /\ \A i \in 1 .. Len(all) : \/ i \in 1 .. n /\ all[i] = qu[i]
                                  \/ i - n \in 1 .. l /\ all[i] = out[i - n]
  BY ConcatElements
<1>2. /\ \A i \in 1 .. n : i \in 1 .. Len(all) /\ all[i] = qu[i]
      /\ \A i \in 1 .. l : i + n \in 1 .. Len(all) /\ all[i + n] = out[i]
  <2>1. \A i \in 1 .. n : i \in 1 .. Len(all) /\ ~(i - n \in 1 .. l)
    BY <1>1
  <2>2. \A i \in 1 .. l : i + n \in 1 .. Len(all) /\ ~(i + n \in 1 .. n) /\ (i + n) - n = i
    BY <1>1
  <2> QED BY <1>1, <2>1, <2>2
<1>3. \A i \in 1 .. Len(all) : \/ i \in 1 .. n /\ all[i] = qu[i]
                               \/ \E k \in 1 .. l : i = k + n /\ all[i] = out[k]
  BY <1>1
<1>4. /\ \A i \in 1 .. n : qu[i] \in Messages
      /\ \A i \in 1 .. l : out[i] \in Messages
      /\ \A m \in Messages : Said(m) => m.seq \in Nat
      /\ \A m \in Messages : m.type \in {"state", "bit", "left"}
      /\ x0.seq \in Nat /\ x.seq \in Nat /\ e.seq \in Nat
  BY DEF Messages, States, Bits, Lefts, Bridges, Entries, Said
<1>5. /\ x0.seq <= x.seq
      /\ \A k \in 1 .. l : out[k].type # "left"
      /\ \A k \in 1 .. l : Said(out[k]) => x0.seq < out[k].seq /\ out[k].seq <= x.seq
      /\ \A h, k \in 1 .. l : h < k /\ Said(out[h]) /\ Said(out[k]) => out[h].seq < out[k].seq
      /\ \A k \in 1 .. l :
           Said(out[k]) /\ (\A j \in 1 .. l : j > k => ~Said(out[j])) => Kept(out[k], x)
      /\ (\A k \in 1 .. l : ~Said(out[k])) => \A m : Kept(m, x0) => Kept(m, x)
  BY DEF Good, Said, Kept
<1> HIDE DEF all, n, l
<1>6. ~Gone(qu) => e.seq <= x0.seq
  BY DEF Stream, Numbered
<1>7. ASSUME NEW i \in 1 .. Len(all), Said(all[i]),
             \A j \in 1 .. Len(all) : j < i => all[j].type # "left"
      PROVE  e.seq < all[i].seq
  <2>1. CASE i \in 1 .. n /\ all[i] = qu[i]
    BY <1>1, <1>2, <1>7, <2>1, SMTT(30) DEF Stream, Numbered, n
  <2>2. ASSUME NEW k \in 1 .. l, i = k + n, all[i] = out[k]
        PROVE  e.seq < all[i].seq
    <3>1. ~Gone(qu)
      BY <1>1, <1>2, <1>7, <2>2 DEF Gone, n
    <3> QED BY SMTT(30), <1>4, <1>5, <1>6, <1>7, <2>2, <3>1
  <2> QED BY <1>3, <2>1, <2>2
<1>8. ASSUME NEW i \in 1 .. Len(all), NEW j \in 1 .. Len(all), i < j, Said(all[i]), Said(all[j]),
             \A h \in 1 .. Len(all) : i < h /\ h < j => all[h].type # "left"
      PROVE  all[i].seq < all[j].seq
  <2>1. CASE j \in 1 .. n /\ all[j] = qu[j]
    <3>1. i \in 1 .. n /\ all[i] = qu[i]
      BY <1>1, <1>2, <1>8, <2>1
    <3>2. ASSUME NEW h \in 1 .. n, i < h, h < j
          PROVE  qu[h].type # "left"
      <4>1. h \in 1 .. Len(all) /\ all[h] = qu[h]
        BY <1>2
      <4> QED BY <1>8, <3>2, <4>1
    <3>3. Said(qu[i]) /\ Said(qu[j])
      BY <1>8, <2>1, <3>1
    <3>4. qu[i].seq < qu[j].seq
      BY <1>8, <2>1, <3>1, <3>2, <3>3 DEF Stream, Numbered, n
    <3> QED BY <2>1, <3>1, <3>4
  <2>2. ASSUME NEW k \in 1 .. l, j = k + n, all[j] = out[k]
        PROVE  all[i].seq < all[j].seq
    <3>1. CASE i \in 1 .. n /\ all[i] = qu[i]
      <4>1. ASSUME NEW h \in 1 .. n, i < h
            PROVE  qu[h].type # "left"
        <5>1. h \in 1 .. Len(all) /\ all[h] = qu[h] /\ h < j
          BY <1>1, <1>2, <2>2
        <5> QED BY <1>8, <4>1, <5>1
      <4>2. qu[i].seq <= x0.seq
        BY <1>8, <3>1, <4>1 DEF Stream, Numbered, n
      <4> QED BY <1>4, <1>5, <1>8, <2>2, <3>1, <4>2, SMTT(30)
    <3>2. ASSUME NEW h \in 1 .. l, i = h + n, all[i] = out[h]
          PROVE  all[i].seq < all[j].seq
      <4>1. h < k
        BY <1>1, <1>8, <2>2, <3>2
      <4>2. Said(out[h]) /\ Said(out[k])
        BY <1>8, <2>2, <3>2
      <4>3. out[h].seq < out[k].seq
        BY <1>5, <4>1, <4>2
      <4> QED BY <2>2, <3>2, <4>3
    <3> QED BY <1>3, <3>1, <3>2
  <2> QED BY <1>3, <2>1, <2>2
<1>9. ASSUME NEW i \in 1 .. Len(all), Said(all[i])
      PROVE  0 < all[i].seq
  <2>1. CASE i \in 1 .. n /\ all[i] = qu[i]
    BY <1>9, <2>1 DEF Stream, Numbered, n
  <2>2. ASSUME NEW k \in 1 .. l, i = k + n, all[i] = out[k]
        PROVE  0 < all[i].seq
    BY <1>4, <1>5, <1>9, <2>2
  <2> QED BY <1>3, <2>1, <2>2
<1>10. ASSUME NEW i \in 1 .. Len(all), Said(all[i]),
              \A j \in 1 .. Len(all) : i < j => all[j].type # "left"
       PROVE  all[i].seq <= x.seq
  <2>1. CASE i \in 1 .. n /\ all[i] = qu[i]
    <3>1. ASSUME NEW h \in 1 .. n, i < h
          PROVE  qu[h].type # "left"
      <4>1. h \in 1 .. Len(all) /\ all[h] = qu[h]
        BY <1>2
      <4> QED BY <1>10, <3>1, <4>1
    <3>2. qu[i].seq <= x0.seq
      BY <1>10, <2>1, <3>1 DEF Stream, Numbered, n
    <3> QED BY <1>4, <1>5, <1>10, <2>1, <3>2
  <2>2. ASSUME NEW k \in 1 .. l, i = k + n, all[i] = out[k]
        PROVE  all[i].seq <= x.seq
    BY <1>5, <1>10, <2>2
  <2> QED BY <1>3, <2>1, <2>2
<1>11. ASSUME ~Gone(all)
       PROVE  e.seq <= x.seq
  <2>1. ~Gone(qu)
    BY <1>2, <1>11 DEF Gone, n
  <2> QED BY <1>4, <1>5, <1>6, <2>1
<1>12. ASSUME NEW i \in 1 .. Len(all), Said(all[i]),
              \A j \in 1 .. Len(all) : i < j => all[j].type = "bit"
       PROVE  Kept(all[i], x)
  <2>1. CASE i \in 1 .. n /\ all[i] = qu[i]
    <3>1. \A h \in 1 .. n : i < h => qu[h].type = "bit"
      BY <1>2, <1>12
    <3>2. Kept(qu[i], x0)
      BY <1>12, <2>1, <3>1 DEF Stream, Numbered, n
    <3>3. \A k \in 1 .. l : ~Said(out[k])
      BY <1>1, <1>2, <1>12, <2>1 DEF Said
    <3> QED BY <1>5, <2>1, <3>2, <3>3
  <2>2. ASSUME NEW k \in 1 .. l, i = k + n, all[i] = out[k]
        PROVE  Kept(all[i], x)
    <3>1. ASSUME NEW h \in 1 .. l, h > k
          PROVE  ~Said(out[h])
      <4>1. h + n \in 1 .. Len(all) /\ all[h + n] = out[h] /\ i < h + n
        BY <1>1, <1>2, <2>2, <3>1
      <4> QED BY <1>12, <4>1 DEF Said
    <3> QED BY <1>5, <1>12, <2>2, <3>1
  <2> QED BY <1>3, <2>1, <2>2
<1>13. ASSUME \A j \in 1 .. Len(all) : all[j].type = "bit"
       PROVE  Kept(e, x)
  <2>1. Kept(e, x0)
    BY <1>2, <1>13 DEF Stream, Numbered, n
  <2>2. \A k \in 1 .. l : ~Said(out[k])
    BY <1>2, <1>13 DEF Said
  <2> QED BY <1>5, <2>1, <2>2
<1>14. Stream(all, x, e)
  BY <1>7, <1>8, <1>9, <1>10, <1>11, <1>12, <1>13 DEF Stream, Numbered
<1> QED BY <1>1, <1>14 DEF all

\* The stream to a player that hears its first message.
LEMMA StreamHeard ==
  ASSUME NEW x \in Bridges, NEW qu \in Seq(Messages), qu # <<>>, NEW e0 \in Entries, Stream(qu, x, e0),
         NEW e \in Entries, NEW flags \in BOOLEAN, Heard(e, e0, Head(qu), flags),
         ~flags => e.contacts = {}
  PROVE  Tail(qu) \in Seq(Messages) /\ Stream(Tail(qu), x, e)
<1> DEFINE rest == Tail(qu)
           m == Head(qu)
<1>1. /\ rest \in Seq(Messages) /\ Len(rest) = Len(qu) - 1 /\ Len(qu) \in Nat /\ Len(qu) >= 1
      /\ m = qu[1] /\ m \in Messages
      /\ \A i \in 1 .. Len(rest) : i + 1 \in 1 .. Len(qu) /\ rest[i] = qu[i + 1]
  BY TailElements
<1>2. \A i \in 1 .. Len(qu) : i = 1 \/ (i - 1 \in 1 .. Len(rest) /\ rest[i - 1] = qu[i])
  BY <1>1
<1>3. /\ \A i \in 1 .. Len(qu) : qu[i] \in Messages
      /\ \A k \in Messages : Said(k) => k.seq \in Nat
      /\ \A k \in Messages : k.type \in {"state", "bit", "left"}
      /\ x.seq \in Nat /\ e.seq \in Nat /\ e0.seq \in Nat
  BY DEF Messages, States, Bits, Lefts, Bridges, Entries, Said
<1> HIDE DEF rest, m
<1>4. /\ \A i, j \in 1 .. Len(rest) :
           i < j /\ Said(rest[i]) /\ Said(rest[j])
                 /\ (\A h \in 1 .. Len(rest) : i < h /\ h < j => rest[h].type # "left")
             => rest[i].seq < rest[j].seq
      /\ \A i \in 1 .. Len(rest) : Said(rest[i]) => 0 < rest[i].seq
      /\ \A i \in 1 .. Len(rest) :
           Said(rest[i]) /\ (\A j \in 1 .. Len(rest) : i < j => rest[j].type # "left")
             => rest[i].seq <= x.seq
      /\ \A i \in 1 .. Len(rest) :
           Said(rest[i]) /\ (\A j \in 1 .. Len(rest) : i < j => rest[j].type = "bit")
             => Kept(rest[i], x)
  <2>1. ASSUME NEW i \in 1 .. Len(rest), NEW j \in 1 .. Len(rest), i < j, Said(rest[i]), Said(rest[j]),
               \A h \in 1 .. Len(rest) : i < h /\ h < j => rest[h].type # "left"
        PROVE  rest[i].seq < rest[j].seq
    <3>1. ASSUME NEW h \in 1 .. Len(qu), i + 1 < h, h < j + 1
          PROVE  qu[h].type # "left"
      <4>1. h - 1 \in 1 .. Len(rest) /\ rest[h - 1] = qu[h] /\ i < h - 1 /\ h - 1 < j
        BY <1>1, <1>2, <3>1
      <4> QED BY <2>1, <4>1
    <3>2. i + 1 < j + 1
      BY <2>1
    <3> QED BY <1>1, <2>1, <3>1, <3>2 DEF Stream, Numbered
  <2>2. \A i \in 1 .. Len(rest) : Said(rest[i]) => 0 < rest[i].seq
    BY <1>1 DEF Stream, Numbered
  <2>3. ASSUME NEW i \in 1 .. Len(rest), Said(rest[i]),
               \A j \in 1 .. Len(rest) : i < j => rest[j].type # "left"
        PROVE  rest[i].seq <= x.seq
    <3>1. \A h \in 1 .. Len(qu) : i + 1 < h => qu[h].type # "left"
      BY SMTT(30), <1>1, <1>2, <2>3
    <3> QED BY <1>1, <2>3, <3>1 DEF Stream, Numbered
  <2>4. ASSUME NEW i \in 1 .. Len(rest), Said(rest[i]),
               \A j \in 1 .. Len(rest) : i < j => rest[j].type = "bit"
        PROVE  Kept(rest[i], x)
    <3>1. \A h \in 1 .. Len(qu) : i + 1 < h => qu[h].type = "bit"
      BY <1>1, <1>2, <2>4
    <3> QED BY <1>1, <2>4, <3>1 DEF Stream, Numbered
  <2> QED BY <2>1, <2>2, <2>3, <2>4
<1>5. Said(m) => e0.seq < m.seq
  BY <1>1 DEF Stream, Numbered
<1>6. CASE m.type = "left"
  <2>1. e.seq = 0 /\ e.contacts = {}
    BY <1>6 DEF Heard, NoEntry, m
  <2> QED BY <1>1, <1>3, <1>4, <2>1 DEF Stream, Numbered, Kept, rest
<1>7. CASE Said(m) /\ flags
  <2>1. e.seq = m.seq /\ e.scene = m.scene /\ e.contacts = m.contacts
    <3>1. m.seq > e0.seq
      BY <1>1, <1>3, <1>5, <1>7
    <3> QED BY <1>7, <3>1 DEF Heard, Said, m
  <2>2. ASSUME NEW i \in 1 .. Len(rest), Said(rest[i]),
               \A j \in 1 .. Len(rest) : j < i => rest[j].type # "left"
        PROVE  e.seq < rest[i].seq
    <3>1. \A h \in 1 .. Len(qu) : 1 < h /\ h < i + 1 => qu[h].type # "left"
      BY SMTT(30), <1>1, <1>2, <2>2
    <3>2. 1 < i + 1 /\ 1 \in 1 .. Len(qu)
      BY <1>1
    <3> QED BY <1>1, <1>7, <2>1, <2>2, <3>1, <3>2 DEF Stream, Numbered
  <2>3. ~Gone(rest) => e.seq <= x.seq
    <3>1. ASSUME ~Gone(rest), NEW h \in 1 .. Len(qu), 1 < h
          PROVE  qu[h].type # "left"
      <4>1. h - 1 \in 1 .. Len(rest) /\ rest[h - 1] = qu[h]
        BY <1>2, <3>1
      <4> QED BY <3>1, <4>1 DEF Gone
    <3> QED BY <1>1, <1>7, <2>1, <3>1 DEF Stream, Numbered
  <2>4. (\A j \in 1 .. Len(rest) : rest[j].type = "bit") => Kept(e, x)
    <3>1. (\A j \in 1 .. Len(rest) : rest[j].type = "bit")
            => \A h \in 1 .. Len(qu) : 1 < h => qu[h].type = "bit"
      BY <1>1, <1>2
    <3>2. (\A j \in 1 .. Len(rest) : rest[j].type = "bit") => Kept(m, x)
      BY <1>1, <1>7, <3>1 DEF Stream, Numbered
    <3> QED BY <2>1, <3>2 DEF Kept
  <2> QED BY <1>1, <1>4, <2>2, <2>3, <2>4 DEF Stream, Numbered, rest
<1>8. CASE m.type = "bit" \/ (Said(m) /\ ~flags)
  <2>1. Cool(e, e0)
    BY <1>8 DEF Heard, Said, m
  <2>2. m.type # "left"
    BY <1>8 DEF Said
  <2>3. ASSUME NEW i \in 1 .. Len(rest), Said(rest[i]),
               \A j \in 1 .. Len(rest) : j < i => rest[j].type # "left"
        PROVE  e.seq < rest[i].seq
    <3>1. ASSUME NEW h \in 1 .. Len(qu), h < i + 1
          PROVE  qu[h].type # "left"
      <4>1. CASE h = 1
        BY <1>1, <2>2, <4>1
      <4>2. CASE h - 1 \in 1 .. Len(rest) /\ rest[h - 1] = qu[h]
        <5>1. h - 1 < i
          BY <3>1
        <5> QED BY <2>3, <4>2, <5>1
      <4> QED BY <1>2, <4>1, <4>2
    <3> QED BY <1>1, <2>1, <2>3, <3>1 DEF Stream, Numbered, Cool
  <2>4. ~Gone(rest) => e.seq <= x.seq
    <3>1. ~Gone(rest) => ~Gone(qu)
      BY <1>1, <1>2, <2>2 DEF Gone
    <3> QED BY <2>1, <3>1 DEF Stream, Numbered, Cool
  <2>5. ASSUME \A j \in 1 .. Len(rest) : rest[j].type = "bit"
        PROVE  Kept(e, x)
    <3>1. CASE m.type = "bit"
      <4>1. \A j \in 1 .. Len(qu) : qu[j].type = "bit"
        BY <1>1, <1>2, <2>5, <3>1
      <4> QED BY <2>1, <4>1 DEF Stream, Numbered, Kept, Cool
    <3>2. CASE ~flags
      BY <3>2 DEF Kept
    <3> QED BY <1>8, <3>1, <3>2
  <2> QED BY <1>1, <1>4, <2>3, <2>4, <2>5 DEF Stream, Numbered, rest
<1>9. m.type \in {"state", "bit", "left"}
  BY <1>1, <1>3
<1> QED BY <1>6, <1>7, <1>8, <1>9 DEF Said

\* The stream to a player whose entry changed otherwise.
LEMMA StreamCools ==
  ASSUME NEW x, NEW qu, NEW e0, NEW e, Stream(qu, x, e0), Cool(e, e0)
  PROVE  Stream(qu, x, e)
<1>1. Kept(e0, x) => Kept(e, x)
  BY DEF Kept, Cool
<1>2. e.seq = e0.seq
  BY DEF Cool
<1> QED BY <1>1, <1>2 DEF Stream, Numbered

\* The stream of a player that comes back begins again after its departure.
LEMMA StreamLeaves ==
  ASSUME NEW qu \in Seq(Messages), NEW e, Numbered(qu, e), NEW x
  PROVE  LET all == Append(qu, [type |-> "left"])
         IN all \in Seq(Messages) /\ Stream(all, x, e)
<1> DEFINE left == [type |-> "left"]
           all == Append(qu, left)
           n == Len(qu)
<1>1. left \in Messages /\ left.type = "left"
  BY DEF Messages, Lefts
<1> HIDE DEF left
<1>2. /\ all \in Seq(Messages) /\ Len(all) = n + 1 /\ n \in Nat
      /\ \A i \in 1 .. n + 1 : all[i] = IF i = n + 1 THEN left ELSE qu[i]
  BY <1>1, AppendElements
<1> HIDE DEF all
<1>3. n + 1 \in 1 .. Len(all) /\ all[n + 1].type = "left" /\ ~Said(all[n + 1])
  BY <1>1, <1>2 DEF Said
<1>4. \A i \in 1 .. n : i \in 1 .. Len(all) /\ all[i] = qu[i] /\ i < n + 1
  BY <1>2
<1>5. \A i \in 1 .. Len(all) : i = n + 1 \/ i \in 1 .. n
  BY <1>2
<1> HIDE DEF n
<1>6. ASSUME NEW i \in 1 .. Len(all), Said(all[i])
      PROVE  i \in 1 .. n /\ all[i] = qu[i] /\ i < n + 1
  BY <1>3, <1>4, <1>5, <1>6
<1>7. ASSUME NEW i \in 1 .. Len(all), Said(all[i]),
             \A j \in 1 .. Len(all) : j < i => all[j].type # "left"
      PROVE  e.seq < all[i].seq
  BY <1>4, <1>6, <1>7 DEF Stream, Numbered, n
<1>8. ASSUME NEW i \in 1 .. Len(all), NEW j \in 1 .. Len(all), i < j, Said(all[i]), Said(all[j]),
             \A h \in 1 .. Len(all) : i < h /\ h < j => all[h].type # "left"
      PROVE  all[i].seq < all[j].seq
  <2>1. \A h \in 1 .. n : i < h /\ h < j => qu[h].type # "left"
    BY <1>4, <1>8
  <2>2. /\ i \in 1 .. n /\ all[i] = qu[i] /\ Said(qu[i])
        /\ j \in 1 .. n /\ all[j] = qu[j] /\ Said(qu[j])
    BY <1>6, <1>8
  <2>3. qu[i].seq < qu[j].seq
    BY <1>8, <2>1, <2>2 DEF Stream, Numbered, n
  <2> QED BY <2>2, <2>3
<1>9. ASSUME NEW i \in 1 .. Len(all), Said(all[i])
      PROVE  0 < all[i].seq
  BY <1>6, <1>9 DEF Stream, Numbered, n
<1>10. \A i \in 1 .. Len(all) : Said(all[i]) => ~\A j \in 1 .. Len(all) : i < j => all[j].type # "left"
  BY <1>3, <1>6
<1>11. Gone(all)
  BY <1>3 DEF Gone
<1>12. \A i \in 1 .. Len(all) : Said(all[i]) => ~\A j \in 1 .. Len(all) : i < j => all[j].type = "bit"
  BY <1>3, <1>6
<1>13. ~\A j \in 1 .. Len(all) : all[j].type = "bit"
  BY <1>3
<1>14. Stream(all, x, e)
  BY <1>7, <1>8, <1>9, <1>10, <1>11, <1>12, <1>13 DEF Stream, Numbered
<1> QED BY <1>2, <1>14 DEF all, left

\* Nothing was said yet.
LEMMA StreamBegins ==
  ASSUME NEW x, NEW e, e.seq = 0, e.contacts = {}, x.seq \in Nat
  PROVE  <<>> \in Seq(Messages) /\ Stream(<<>>, x, e)
<1>1. <<>> \in Seq(Messages) /\ Len(<<>>) = 0 /\ 1 .. 0 = {} /\ 0 <= x.seq
  OBVIOUS
<1>2. \A i \in 1 .. Len(<<>>) : FALSE
  BY <1>1
<1>3. Kept(e, x)
  BY DEF Kept
<1> QED BY <1>1, <1>2, <1>3 DEF Stream, Numbered

-----------------------------------------------------------------------------
\* The inductive invariant.

Types == /\ me \in [Players -> Bridges] /\ world \in [Players -> Worlds]
         /\ queue \in [Players -> [Players -> Seq(Messages)]]
         /\ mine \in [Players -> SUBSET Plates] /\ events \in 0 .. MaxEvents

Streams == \A p \in Players : \A q \in Others(p) : Stream(queue[p][q], me[p], me[q].ledger[p])

\* Who has not yet been heard to have come back has not been told anything, and
\* has nothing of those who have not heard it.
Returned == \A p \in Players : \A q \in Others(p) :
              Gone(queue[q][p]) => queue[p][q] = <<>> /\ me[q].ledger[p].contacts = {}

\* A bridge without a scene has sent nothing that it did not take back.
Silent == \A p \in Players : me[p].scene = None => me[p].sent = {}

Inv == Types /\ Streams /\ Returned /\ Silent

\* Nobody has said or heard anything.
LEMMA InitInv == Init => Inv
<1> SUFFICES ASSUME Init PROVE Inv
  OBVIOUS
<1> USE DEF Init
<1>1. NoFrame \in Frames /\ NoEntry \in Entries
  BY DEF NoFrame, Frames, NoEntry, Entries, Rooms
<1>2. NewBridge \in Bridges /\ NewBridge.sent = {} /\ NewBridge.seq = 0
      /\ \A r \in Players : NewBridge.ledger[r] = NoEntry
  BY <1>1 DEF NewBridge, Bridges, Rooms
<1>3. me \in [Players -> Bridges] /\ \A p \in Players : me[p] = NewBridge
  BY <1>2
<1>4. world \in [Players -> Worlds]
  <2>1. PICK room \in Scenes :
          world = [p \in Players |-> [room |-> room, feet |-> {}, flag |-> {},
                                      pos |-> [k \in Plates |-> "up"]]]
    OBVIOUS
  <2>2. [room |-> room, feet |-> {}, flag |-> {}, pos |-> [k \in Plates |-> "up"]] \in Worlds
    BY DEF Worlds, Rooms, Positions
  <2> QED BY <2>1, <2>2
<1>5. \A p, q \in Players : queue[p][q] = <<>>
  OBVIOUS
<1>6. queue \in [Players -> [Players -> Seq(Messages)]] /\ mine \in [Players -> SUBSET Plates]
  <2>1. <<>> \in Seq(Messages)
    OBVIOUS
  <2> QED BY <2>1
<1>7. events \in 0 .. MaxEvents
  BY FloorAssumption
<1>8. Streams
  <2> SUFFICES ASSUME NEW p \in Players, NEW q \in Others(p)
               PROVE  Stream(queue[p][q], me[p], me[q].ledger[p])
    BY DEF Streams
  <2>1. q \in Players
    BY DEF Others
  <2>2. me[q].ledger[p].seq = 0 /\ me[q].ledger[p].contacts = {} /\ me[p].seq \in Nat
    BY <1>2, <1>3, <2>1 DEF NoEntry
  <2> QED BY <1>5, <2>1, <2>2, StreamBegins
<1>9. Returned
  BY <1>5 DEF Returned, Gone, Others
<1>10. Silent
  BY <1>2, <1>3 DEF Silent
<1> QED BY <1>3, <1>4, <1>6, <1>7, <1>8, <1>9, <1>10 DEF Inv, Types

-----------------------------------------------------------------------------
\* A frame.

\* A step begins with what the bridge has sent.
LEMMA StateFacts ==
  ASSUME Inv, NEW p \in Players
  PROVE  /\ State(p) \in Steps /\ Good(me[p], State(p).x, State(p).out)
         /\ State(p).x = me[p] /\ State(p).mine = mine[p]
<1>1. me[p] \in Bridges /\ world[p] \in Worlds /\ mine[p] \in SUBSET Plates /\ me[p].seq \in Nat
  BY DEF Inv, Types, Bridges
<1>2. <<>> \in Seq(Messages) /\ Len(<<>>) = 0 /\ 1 .. 0 = {} /\ me[p].seq <= me[p].seq
  BY <1>1
<1>3. State(p) \in Steps
  BY <1>1, <1>2 DEF State, Steps
<1>4. \A i \in 1 .. Len(<<>>) : FALSE
  BY <1>2
<1>5. Good(me[p], me[p], <<>>)
  BY <1>1, <1>2, <1>4 DEF Good, Inv, Silent
<1> QED BY <1>3, <1>5 DEF State

\* What is left of the entries of a bridge x0 whose flags are not shared.
Deaf(x0, s) == ~x0.flags => \A r \in Players : s.x.ledger[r].contacts = {}

\* A capture c of the bridge x0.
Captured(x0, c) == /\ c \in Steps /\ Good(x0, c.x, c.out) /\ c.x.flags = x0.flags
                   /\ Cools(c.x.ledger, x0.ledger) /\ Deaf(x0, c)

\* The capture at the start of a frame: a flush, or a reset while flags are not
\* shared.
LEMMA CapturedFacts ==
  ASSUME Inv, NEW p \in Players, NEW paused, NEW beat,
         NEW c, me[p].flags => c = Flush(State(p), paused, beat),
         ~me[p].flags => c = Reset(State(p), FALSE)
  PROVE  Captured(me[p], c)
<1>1. me[p] \in Bridges
  BY DEF Inv, Types
<1>2. /\ State(p) \in Steps /\ Good(me[p], State(p).x, State(p).out) /\ State(p).x = me[p]
  BY StateFacts
<1>3. CASE me[p].flags
  <2>1. c = Flush(State(p), paused, beat)
    BY <1>3
  <2>2. /\ c \in Steps /\ Good(me[p], c.x, c.out) /\ c.w = State(p).w /\ c.x.flags = State(p).x.flags
        /\ Cools(c.x.ledger, State(p).x.ledger)
    BY <1>1, <1>2, <2>1, FlushFacts
  <2> QED BY <1>2, <1>3, <2>2 DEF Captured, Deaf
<1>4. CASE ~me[p].flags
  <2>1. c = Off(State(p))
    BY <1>4 DEF Off
  <2>2. /\ c \in Steps /\ Good(me[p], c.x, c.out) /\ c.w = State(p).w /\ c.x.flags = State(p).x.flags
        /\ Cools(c.x.ledger, State(p).x.ledger)
        /\ \A r \in Players : c.x.ledger[r].contacts = {}
    BY <1>1, <1>2, <2>1, ResetFacts
  <2> QED BY <1>2, <2>2 DEF Captured, Deaf
<1> QED BY <1>3, <1>4

\* A frame d of the bridge x0 in which m was heard of q, or nothing was.
Listened(x0, q, m, d) == /\ \A r \in Players : r # q => Cool(d.x.ledger[r], x0.ledger[r])
                         /\ Heard(d.x.ledger[q], x0.ledger[q], m, x0.flags)
Framed(x0, d) == d \in Steps /\ Good(x0, d.x, d.out) /\ Deaf(x0, d)

\* What is heard after it, and what the plates do after that.
LEMMA DoneFacts ==
  ASSUME NEW x0 \in Bridges, NEW q \in Players, NEW p \in Players, NEW m \in Messages,
         NEW moves \in SUBSET Plates, NEW c, Captured(x0, c),
         NEW h, h = Receive(c, q, m) \/ h = c,
         NEW d, d = Execute(h, p, moves) \/ d = h
  PROVE  /\ Framed(x0, d)
         /\ h = Receive(c, q, m) => Listened(x0, q, m, d)
         /\ h = c => Cools(d.x.ledger, x0.ledger)
<1>1. /\ c \in Steps /\ Good(x0, c.x, c.out) /\ c.x.flags = x0.flags
      /\ \A r \in Players : Cool(c.x.ledger[r], x0.ledger[r])
      /\ ~x0.flags => \A r \in Players : c.x.ledger[r].contacts = {}
  BY DEF Captured, Cools, Deaf
<1>2. h = Receive(c, q, m) =>
        /\ h \in Steps /\ Good(x0, h.x, h.out) /\ h.x.flags = c.x.flags
        /\ h.w.feet = c.w.feet /\ h.w.room = c.w.room
        /\ \A r \in Players : r # q => Cool(h.x.ledger[r], c.x.ledger[r])
        /\ Heard(h.x.ledger[q], c.x.ledger[q], m, c.x.flags)
  BY <1>1, ReceiveFacts
<1>3. h \in Steps /\ Good(x0, h.x, h.out)
  BY <1>1, <1>2
<1>4. /\ d \in Steps /\ Good(x0, d.x, d.out) /\ d.x.ledger = h.x.ledger
  <2>1. CASE d = Execute(h, p, moves)
    <3>1. /\ d \in Steps /\ Good(x0, d.x, d.out) /\ d.x.flags = h.x.flags
          /\ d.w.feet = h.w.feet /\ d.w.room = h.w.room /\ d.x.ledger = h.x.ledger
      BY <1>3, <2>1, ExecuteFacts
    <3> QED BY <3>1
  <2>2. CASE d = h
    BY <1>3, <2>2
  <2> QED BY <2>1, <2>2
<1>5. /\ \A e, e1, e0 : Cool(e, e1) /\ Cool(e1, e0) => Cool(e, e0)
      /\ \A e, e1, e0, f : Heard(e, e1, m, f) /\ Cool(e1, e0) => Heard(e, e0, m, f)
  BY DEF Cool, Heard
<1>6. ASSUME h = Receive(c, q, m)
      PROVE  Listened(x0, q, m, d)
  <2>1. \A r \in Players : r # q => Cool(d.x.ledger[r], x0.ledger[r])
    BY <1>1, <1>2, <1>4, <1>5, <1>6
  <2>2. Heard(d.x.ledger[q], x0.ledger[q], m, x0.flags)
    BY <1>1, <1>2, <1>4, <1>5, <1>6
  <2> QED BY <2>1, <2>2 DEF Listened
<1>7. h = c => Cools(d.x.ledger, x0.ledger)
  BY <1>1, <1>4 DEF Cools
<1>8. ASSUME ~x0.flags, NEW r \in Players
      PROVE  d.x.ledger[r].contacts = {}
  <2>1. c.x.ledger[r].contacts = {}
    BY <1>1, <1>8
  <2>2. CASE h = c
    BY <1>4, <2>1, <2>2
  <2>3. CASE h = Receive(c, q, m) /\ r # q
    BY <1>2, <1>4, <2>1, <2>3 DEF Cool
  <2>4. CASE h = Receive(c, q, m) /\ r = q
    <3>1. m.type \in {"state", "bit", "left"}
      BY DEF Messages, States, Bits, Lefts
    <3>2. Heard(h.x.ledger[q], c.x.ledger[q], m, x0.flags)
      BY <1>1, <1>2, <2>4
    <3> QED BY <1>4, <1>8, <2>1, <2>4, <3>1, <3>2 DEF Heard, Cool, NoEntry
  <2> QED BY SMTT(30), <2>2, <2>3, <2>4
<1>9. Framed(x0, d)
  BY <1>4, <1>8 DEF Framed, Deaf
<1> QED BY <1>6, <1>7, <1>9

\* A frame: the streams from the player grow by what it sends, the one it hears
\* of loses its head, and the others stay.
LEMMA FrameKeeps ==
  ASSUME Inv, NEW p \in Players, NEW q \in Others(p), NEW hears \in BOOLEAN, NEW paused \in BOOLEAN,
         NEW runs \in BOOLEAN, NEW beat \in BOOLEAN, NEW moves \in SUBSET Plates,
         Frame(p, q, hears, paused, runs, beat, moves)
  PROVE  Inv'
<1> DEFINE captured == IF me[p].flags THEN Flush(State(p), paused, beat) ELSE Reset(State(p), FALSE)
           heard == IF hears THEN Receive(captured, q, Head(queue[q][p])) ELSE captured
           done == IF runs THEN Execute(heard, p, moves) ELSE heard
           rest == [a \in Players |-> IF hears /\ a = q THEN Tail(queue[a][p]) ELSE queue[a][p]]
<1>1. hears => queue[q][p] # <<>>
  BY DEF Frame
<1>2. Finish(p, done, rest)
  BY DEF Frame
<1>3. /\ done \in Steps /\ Good(me[p], done.x, done.out)
      /\ \A r \in Players : r # q => Cool(done.x.ledger[r], me[p].ledger[r])
      /\ hears => Heard(done.x.ledger[q], me[p].ledger[q], Head(queue[q][p]), me[p].flags)
      /\ ~hears => Cool(done.x.ledger[q], me[p].ledger[q])
      /\ ~me[p].flags => \A r \in Players : done.x.ledger[r].contacts = {}
  <2> DEFINE m == IF hears THEN Head(queue[q][p]) ELSE [type |-> "left"]
  <2>1. /\ q \in Players /\ queue[q][p] \in Seq(Messages) /\ me[p] \in Bridges
        /\ [type |-> "left"] \in Messages
    BY DEF Inv, Types, Others, Messages, Lefts
  <2>2. m \in Messages /\ (hears => m = Head(queue[q][p]))
    BY <1>1, <2>1, TailElements
  <2> HIDE DEF m
  <2>3. /\ me[p].flags => captured = Flush(State(p), paused, beat)
        /\ ~me[p].flags => captured = Reset(State(p), FALSE)
    OBVIOUS
  <2>4. /\ hears => heard = Receive(captured, q, m)
        /\ ~hears => heard = captured
    BY <2>2
  <2>5. done = Execute(heard, p, moves) \/ done = heard
    OBVIOUS
  <2> HIDE DEF captured, heard, done
  <2>6. Captured(me[p], captured)
    BY <2>3, CapturedFacts
  <2>7. /\ Framed(me[p], done)
        /\ heard = Receive(captured, q, m) => Listened(me[p], q, m, done)
        /\ heard = captured => Cools(done.x.ledger, me[p].ledger)
    <3>1. heard = Receive(captured, q, m) \/ heard = captured
      BY <2>4
    <3>2. me[p] \in Bridges /\ q \in Players /\ m \in Messages
      BY <2>1, <2>2
    <3>3. PICK x0 : x0 = me[p]
      OBVIOUS
    <3>4. x0 \in Bridges /\ Captured(x0, captured)
      BY <2>6, <3>2, <3>3
    <3>5. /\ Framed(x0, done)
          /\ heard = Receive(captured, q, m) => Listened(x0, q, m, done)
          /\ heard = captured => Cools(done.x.ledger, x0.ledger)
      BY <2>5, <3>1, <3>2, <3>4, DoneFacts
    <3> QED BY <3>3, <3>5
  <2>8. hears => Listened(me[p], q, Head(queue[q][p]), done)
    BY <2>2, <2>4, <2>7
  <2>9. ~hears => Cools(done.x.ledger, me[p].ledger)
    BY <2>4, <2>7
  <2> QED BY <2>1, <2>7, <2>8, <2>9 DEF Framed, Listened, Cools, Deaf
<1>4. events' \in 0 .. MaxEvents
  BY FloorAssumption DEF Frame, More, Inv, Types
<1> HIDE DEF captured, heard, done
<1>5. q \in Players /\ q # p
  BY DEF Others
<1>6. /\ me \in [Players -> Bridges] /\ world \in [Players -> Worlds]
      /\ queue \in [Players -> [Players -> Seq(Messages)]]
      /\ mine \in [Players -> SUBSET Plates]
  BY DEF Inv, Types
<1>7. /\ done.x \in Bridges /\ done.w \in Worlds /\ done.out \in Seq(Messages)
      /\ done.mine \in SUBSET Plates
  BY <1>3 DEF Steps
<1>8. /\ me' \in [Players -> Bridges] /\ me'[p] = done.x /\ \A a \in Players : a # p => me'[a] = me[a]
      /\ world' \in [Players -> Worlds] /\ mine' \in [Players -> SUBSET Plates]
  BY <1>2, <1>6, <1>7 DEF Finish
<1>9. \A a, b \in Players :
        queue'[a][b] = IF a = p /\ b # p /\ Knows(p, b) THEN queue[a][b] \o done.out
                       ELSE IF b = p THEN rest[a] ELSE queue[a][b]
  BY <1>2 DEF Finish
<1>10. \A a, b \in Players : Knows(a, b) <=> ~Gone(queue[b][a])
  <2>1. \A a, b \in Players : queue[b][a] \in Seq(Messages)
    BY <1>6
  <2>2. \A a, b \in Players : DOMAIN queue[b][a] = 1 .. Len(queue[b][a])
    BY <2>1
  <2> QED BY <2>2 DEF Knows, Gone
<1>11. ASSUME NEW b \in Players, b # p, Knows(p, b)
       PROVE  /\ queue'[p][b] = queue[p][b] \o done.out
              /\ queue'[p][b] \in Seq(Messages) /\ Stream(queue'[p][b], me'[p], me[b].ledger[p])
  <2>1. queue'[p][b] = queue[p][b] \o done.out
    BY <1>9, <1>11
  <2>2. Stream(queue[p][b], me[p], me[b].ledger[p]) /\ queue[p][b] \in Seq(Messages)
    BY <1>6, <1>11 DEF Inv, Streams, Others
  <2>3. me[b].ledger[p] \in Entries /\ me[p] \in Bridges
    BY <1>6 DEF Bridges
  <2>4. queue[p][b] \o done.out \in Seq(Messages) /\ Stream(queue[p][b] \o done.out, done.x, me[b].ledger[p])
    BY <1>3, <1>7, <2>2, <2>3, StreamGrows
  <2> QED BY <1>8, <2>1, <2>4
<1>12. ASSUME NEW b \in Players, b # p, ~Knows(p, b)
       PROVE  /\ queue'[p][b] = <<>>
              /\ queue'[p][b] \in Seq(Messages) /\ Stream(queue'[p][b], me'[p], me[b].ledger[p])
  <2>1. queue[p][b] = <<>> /\ me[b].ledger[p].contacts = {}
    BY <1>10, <1>12 DEF Inv, Returned, Others
  <2>2. queue'[p][b] = <<>>
    BY <1>9, <1>12, <2>1
  <2>3. Stream(<<>>, me[p], me[b].ledger[p])
    BY <1>12, <2>1 DEF Inv, Streams, Others
  <2>4. /\ \A i \in 1 .. Len(<<>>) : FALSE
        /\ me[b].ledger[p].seq \in Nat /\ me[p].seq \in Nat /\ done.x.seq \in Nat
    BY <1>6, <1>7, SMTT(30) DEF Bridges, Entries
  <2>5. me[b].ledger[p].seq <= me[p].seq
    BY <2>3, <2>4 DEF Stream, Numbered, Gone
  <2>6. me[b].ledger[p].seq <= done.x.seq
    BY <1>3, <2>4, <2>5 DEF Good
  <2>7. Kept(me[b].ledger[p], done.x)
    BY <2>1 DEF Kept
  <2>8. Stream(<<>>, done.x, me[b].ledger[p])
    BY <2>4, <2>6, <2>7 DEF Stream, Numbered
  <2>9. <<>> \in Seq(Messages)
    OBVIOUS
  <2> QED BY <1>8, <2>2, <2>8, <2>9
<1>13. ASSUME NEW a \in Players, a # p
       PROVE  /\ queue'[a][p] = IF hears /\ a = q THEN Tail(queue[a][p]) ELSE queue[a][p]
              /\ queue'[a][p] \in Seq(Messages) /\ Stream(queue'[a][p], me[a], me'[p].ledger[a])
  <2>1. queue'[a][p] = IF hears /\ a = q THEN Tail(queue[a][p]) ELSE queue[a][p]
    BY <1>9, <1>13
  <2>2. Stream(queue[a][p], me[a], me[p].ledger[a]) /\ queue[a][p] \in Seq(Messages)
    BY <1>6, <1>13 DEF Inv, Streams, Others
  <2>3. /\ me[p].ledger[a] \in Entries /\ done.x.ledger[a] \in Entries /\ me[a] \in Bridges
        /\ me[p].flags \in BOOLEAN
    BY <1>6, <1>7 DEF Bridges
  <2>4. CASE hears /\ a = q
    <3>1. queue[a][p] # <<>> /\ Heard(done.x.ledger[a], me[p].ledger[a], Head(queue[a][p]), me[p].flags)
      BY <1>1, <1>3, <2>4
    <3>2. ~me[p].flags => done.x.ledger[a].contacts = {}
      BY <1>3
    <3>3. Tail(queue[a][p]) \in Seq(Messages) /\ Stream(Tail(queue[a][p]), me[a], done.x.ledger[a])
      BY <2>2, <2>3, <3>1, <3>2, StreamHeard
    <3> QED BY <1>8, <2>1, <2>4, <3>3
  <2>5. CASE ~(hears /\ a = q)
    <3>1. Cool(done.x.ledger[a], me[p].ledger[a])
      BY <1>3, <2>5
    <3>2. Stream(queue[a][p], me[a], done.x.ledger[a])
      BY <2>2, <3>1, StreamCools
    <3> QED BY <1>8, <2>1, <2>2, <2>5, <3>2
  <2> QED BY <2>4, <2>5
<1>14. \A a, b \in Players : (a # p /\ b # p) \/ (a = p /\ b = p) => queue'[a][b] = queue[a][b]
  BY <1>5, <1>9
<1> HIDE DEF rest
<1>15. queue' \in [Players -> [Players -> Seq(Messages)]]
  <2> DEFINE g == [a \in Players |-> [b \in Players |->
                     IF a = p /\ b # p /\ Knows(p, b) THEN queue[a][b] \o done.out
                     ELSE IF b = p THEN rest[a] ELSE queue[a][b]]]
  <2>1. \A a, b \in Players : queue'[a][b] \in Seq(Messages)
    BY <1>6, <1>11, <1>12, <1>13, <1>14
  <2>2. queue' = g
    BY <1>2 DEF Finish
  <2>3. ASSUME NEW a \in Players PROVE g[a] \in [Players -> Seq(Messages)]
    <3> DEFINE row == g[a]
    <3>1. \A b \in Players : row[b] \in Seq(Messages)
      BY <2>1, <2>2
    <3>2. row = [b \in Players |-> IF a = p /\ b # p /\ Knows(p, b) THEN queue[a][b] \o done.out
                                   ELSE IF b = p THEN rest[a] ELSE queue[a][b]]
      OBVIOUS
    <3> HIDE DEF row
    <3>3. row \in [Players -> Seq(Messages)]
      BY <3>1, <3>2
    <3> QED BY <3>3 DEF row
  <2>4. g \in [Players -> [Players -> Seq(Messages)]]
    BY <2>3
  <2> QED BY <2>2, <2>4
<1>16. Streams'
  <2> SUFFICES ASSUME NEW a \in Players, NEW b \in Players, a # b
               PROVE  Stream(queue'[a][b], me'[a], me'[b].ledger[a])
    BY DEF Streams, Others
  <2>1. CASE a = p
    BY <1>8, <1>11, <1>12, <2>1
  <2>2. CASE b = p
    BY <1>8, <1>13, <2>2
  <2>3. CASE a # p /\ b # p
    BY <1>8, <1>14, <2>3 DEF Inv, Streams, Others
  <2> QED BY <2>1, <2>2, <2>3
<1>17. Returned'
  <2> SUFFICES ASSUME NEW a \in Players, NEW b \in Players, a # b, Gone(queue'[b][a])
               PROVE  queue'[a][b] = <<>> /\ me'[b].ledger[a].contacts = {}
    BY DEF Returned, Others
  <2>1. Gone(queue[b][a])
    <3>1. CASE b = p
      <4>1. Knows(p, a)
        <5>1. \A i \in 1 .. Len(<<>>) : FALSE
          OBVIOUS
        <5> QED BY <1>12, <3>1, <5>1 DEF Gone
      <4>2. \A i \in 1 .. Len(done.out) : done.out[i].type # "left"
        BY <1>3 DEF Good
      <4>3. /\ queue[b][a] \in Seq(Messages) /\ queue'[b][a] = queue[b][a] \o done.out
        BY <1>6, <1>11, <3>1, <4>1
      <4> DEFINE old == queue[b][a]
                 new == queue'[b][a]
      <4>4. old \in Seq(Messages) /\ new = old \o done.out
        BY <4>3
      <4> HIDE DEF old, new
      <4>5. \A i \in 1 .. Len(new) :
              \/ i \in 1 .. Len(old) /\ new[i] = old[i]
              \/ i - Len(old) \in 1 .. Len(done.out) /\ new[i] = done.out[i - Len(old)]
        BY <1>7, <4>4, ConcatElements
      <4>6. Gone(new) => Gone(old)
        BY <4>2, <4>5 DEF Gone
      <4>7. Gone(new)
        BY DEF new
      <4> QED BY <4>6, <4>7 DEF old
    <3>2. CASE b # p /\ a = p
      <4>1. queue[b][a] \in Seq(Messages)
        BY <1>6
      <4>2. CASE hears /\ b = q
        <5>1. queue[b][a] # <<>> /\ queue'[b][a] = Tail(queue[b][a])
          BY <1>1, <1>13, <3>2, <4>2
        <5> QED BY <4>1, <5>1, TailElements DEF Gone
      <4>3. CASE ~(hears /\ b = q)
        BY <1>13, <3>2, <4>3
      <4> QED BY <4>2, <4>3
    <3>3. CASE b # p /\ a # p
      BY <1>14, <3>3
    <3> QED BY <3>1, <3>2, <3>3
  <2>2. queue[a][b] = <<>> /\ me[b].ledger[a].contacts = {}
    BY <2>1 DEF Inv, Returned, Others
  <2>3. CASE a = p
    BY <1>8, <1>10, <1>12, <2>1, <2>2, <2>3
  <2>4. CASE b = p
    <3>1. ~(hears /\ a = q)
      BY <1>1, <2>2, <2>4
    <3>2. Cool(done.x.ledger[a], me[p].ledger[a])
      BY <1>3, <3>1
    <3> QED BY <1>8, <1>13, <2>2, <2>4, <3>1, <3>2 DEF Cool
  <2>5. CASE a # p /\ b # p
    BY <1>8, <1>14, <2>2, <2>5
  <2> QED BY <2>3, <2>4, <2>5
<1>18. Silent'
  BY <1>3, <1>8 DEF Good, Inv, Silent
<1> QED BY <1>4, <1>8, <1>15, <1>16, <1>17, <1>18 DEF Inv, Types

-----------------------------------------------------------------------------
\* The other actions.

\* The feet are sampled by a later frame.
LEMMA StepKeeps ==
  ASSUME Inv, NEW p \in Players, NEW k \in Plates, Step(p, k)
  PROVE  Inv'
<1> DEFINE w == [world[p] EXCEPT !.feet = IF k \in world[p].feet THEN world[p].feet \ {k}
                                          ELSE world[p].feet \cup {k}]
<1>1. world' = [world EXCEPT ![p] = w]
  BY DEF Step, Inv, Types
<1>2. UNCHANGED <<me, queue, mine>> /\ SceneOf[k] = world[p].room /\ events' \in 0 .. MaxEvents
  BY FloorAssumption DEF Step, More, Inv, Types
<1>3. world \in [Players -> Worlds] /\ world[p] \in Worlds
  BY DEF Inv, Types
<1>4. w \in Worlds
  BY <1>2, <1>3 DEF Worlds
<1> HIDE DEF w
<1>5. world' \in [Players -> Worlds]
  BY <1>1, <1>3, <1>4
<1> QED BY <1>2, <1>5 DEF Inv, Types, Streams, Returned, Silent

\* The bridge sees the change of the room in a later frame.
LEMMA WarpKeeps ==
  ASSUME Inv, NEW p \in Players, NEW room \in Rooms, Warp(p, room)
  PROVE  Inv'
<1> DEFINE made == [k \in Plates |-> IF k \in world[p].flag THEN "down" ELSE "up"]
           w == [world[p] EXCEPT !.room = room, !.feet = {}, !.pos = made]
<1>1. world' = [world EXCEPT ![p] = w]
  BY DEF Warp, Inv, Types
<1>2. UNCHANGED <<me, queue>> /\ events' \in 0 .. MaxEvents /\ mine' \in [Players -> SUBSET Plates]
  BY FloorAssumption DEF Warp, More, Inv, Types
<1>3. world \in [Players -> Worlds] /\ world[p] \in Worlds /\ made \in [Plates -> Positions]
  BY DEF Inv, Types, Positions
<1> HIDE DEF made
<1>4. w \in Worlds
  BY <1>3 DEF Worlds
<1> HIDE DEF w
<1>5. world' \in [Players -> Worlds]
  BY <1>1, <1>3, <1>4
<1> QED BY <1>2, <1>5 DEF Inv, Types, Streams, Returned, Silent

\* A bridge that differs in what the streams do not tell apart.
LEMMA StreamSame ==
  ASSUME NEW x0, NEW qu, NEW e, Stream(qu, x0, e),
         NEW x, x.seq = x0.seq, x.sent = x0.sent, x.scene = x0.scene
  PROVE  Stream(qu, x, e)
<1>1. \A m : Kept(m, x0) => Kept(m, x)
  BY DEF Kept
<1> QED BY <1>1 DEF Stream, Numbered

\* A bridge whose entries lost their contacts at most.
LEMMA BridgeKeeps ==
  ASSUME Inv, NEW p \in Players, NEW x \in Bridges, me' = [me EXCEPT ![p] = x],
         x.seq = me[p].seq, x.sent = me[p].sent, x.scene = me[p].scene,
         Cools(x.ledger, me[p].ledger), UNCHANGED <<world, queue, mine>>, events' \in 0 .. MaxEvents
  PROVE  Inv'
<1>1. me \in [Players -> Bridges] /\ me'[p] = x /\ \A a \in Players : a # p => me'[a] = me[a]
  BY DEF Inv, Types
<1>2. \A a \in Players : /\ me'[a].seq = me[a].seq /\ me'[a].sent = me[a].sent
                         /\ me'[a].scene = me[a].scene
  BY <1>1
<1>3. \A a, b \in Players : Cool(me'[b].ledger[a], me[b].ledger[a])
  BY <1>1 DEF Cools, Cool
<1>4. Types'
  BY DEF Inv, Types
<1>5. Streams'
  <2> SUFFICES ASSUME NEW a \in Players, NEW b \in Others(a)
               PROVE  Stream(queue[a][b], me'[a], me'[b].ledger[a])
    BY DEF Streams
  <2>1. b \in Players /\ Stream(queue[a][b], me[a], me[b].ledger[a])
    BY DEF Others, Inv, Streams
  <2>2. Stream(queue[a][b], me[a], me'[b].ledger[a])
    BY <1>3, <2>1, StreamCools
  <2> QED BY <1>2, <2>2, StreamSame
<1>6. Returned'
  <2> SUFFICES ASSUME NEW a \in Players, NEW b \in Others(a), Gone(queue[b][a])
               PROVE  queue[a][b] = <<>> /\ me'[b].ledger[a].contacts = {}
    BY DEF Returned
  <2>1. b \in Players /\ queue[a][b] = <<>> /\ me[b].ledger[a].contacts = {}
    BY DEF Others, Inv, Returned
  <2> QED BY <1>3, <2>1 DEF Cool
<1>7. Silent'
  BY <1>2 DEF Inv, Silent
<1> QED BY <1>4, <1>5, <1>6, <1>7 DEF Inv

\* The bridge is reset by a later frame.
LEMMA ToggleFlagsKeeps ==
  ASSUME Inv, NEW p \in Players, ToggleFlags(p)
  PROVE  Inv'
<1> DEFINE x == [me[p] EXCEPT !.flags = ~me[p].flags]
<1>1. me' = [me EXCEPT ![p] = x] /\ UNCHANGED <<world, queue, mine>> /\ events' \in 0 .. MaxEvents
  BY FloorAssumption DEF ToggleFlags, More, Inv, Types
<1>2. me[p] \in Bridges
  BY DEF Inv, Types
<1>3. x \in Bridges
  BY <1>2 DEF Bridges
<1>4. x.seq = me[p].seq /\ x.sent = me[p].sent /\ x.scene = me[p].scene /\ x.ledger = me[p].ledger
  BY <1>2 DEF Bridges
<1> HIDE DEF x
<1>5. Cools(x.ledger, me[p].ledger)
  BY <1>4 DEF Cools, Cool
<1> QED BY <1>1, <1>3, <1>4, <1>5, BridgeKeeps

\* An expired entry keeps its number.
LEMMA ExpireKeeps ==
  ASSUME Inv, NEW p \in Players, NEW q \in Others(p), Expire(p, q)
  PROVE  Inv'
<1> DEFINE e == [me[p].ledger[q] EXCEPT !.fresh = FALSE]
           l == [me[p].ledger EXCEPT ![q] = e]
           x == [me[p] EXCEPT !.ledger = l]
<1>1. me' = [me EXCEPT ![p] = x] /\ UNCHANGED <<world, queue, mine>> /\ events' \in 0 .. MaxEvents
  BY FloorAssumption DEF Expire, More, Inv, Types
<1>2. me[p] \in Bridges /\ q \in Players /\ me[p].ledger \in [Players -> Entries]
      /\ me[p].ledger[q] \in Entries
  BY SMTT(30) DEF Inv, Types, Bridges, Others
<1>3. e \in Entries /\ Cool(e, me[p].ledger[q])
  BY <1>2 DEF Entries, Cool
<1> HIDE DEF e
<1>4. l \in [Players -> Entries] /\ Cools(l, me[p].ledger)
  BY <1>2, <1>3 DEF Cools, Cool
<1> HIDE DEF l
<1>5. x \in Bridges
  BY <1>2, <1>4 DEF Bridges
<1>6. x.seq = me[p].seq /\ x.sent = me[p].sent /\ x.scene = me[p].scene /\ x.ledger = l
  BY <1>2 DEF Bridges
<1> HIDE DEF x
<1> QED BY <1>1, <1>4, <1>5, <1>6, BridgeKeeps

\* A player that comes back is preceded by its departure in every stream it
\* begins, and hears nothing of what was under way to it.
LEMMA RejoinKeeps ==
  ASSUME Inv, NEW p \in Players, NEW lost \in BOOLEAN, Rejoin(p, lost)
  PROVE  Inv'
<1> DEFINE t == Restarted(State(p))
<1>1. State(p) \in Steps
  BY StateFacts
<1>2. /\ t \in Steps /\ t.x.seq = 0 /\ t.x.sent = {} /\ t.x.scene = None
      /\ \A r \in Players : t.x.ledger[r] = NoEntry
  BY <1>1, RestartFacts
<1>3. /\ me' = [me EXCEPT ![p] = t.x] /\ mine' = [mine EXCEPT ![p] = t.mine]
      /\ UNCHANGED world /\ events' \in 0 .. MaxEvents
  BY FloorAssumption DEF Rejoin, Restarted, More, Inv, Types
<1> HIDE DEF t
<1>4. /\ me \in [Players -> Bridges] /\ world \in [Players -> Worlds]
      /\ queue \in [Players -> [Players -> Seq(Messages)]] /\ mine \in [Players -> SUBSET Plates]
      /\ t.x \in Bridges /\ t.mine \in SUBSET Plates
  BY <1>2 DEF Inv, Types, Steps
<1>5. /\ me' \in [Players -> Bridges] /\ me'[p] = t.x /\ \A a \in Players : a # p => me'[a] = me[a]
      /\ mine' \in [Players -> SUBSET Plates]
  BY <1>3, <1>4
<1> DEFINE left == [type |-> "left"]
           before(a, b) == IF lost THEN <<>> ELSE queue[a][b]
<1>6. queue' = [a \in Players |-> [b \in Players |->
                  IF b = p THEN <<>>
                  ELSE IF a = p THEN Append(before(a, b), left)
                  ELSE queue[a][b]]]
  BY DEF Rejoin
<1>7. <<>> \in Seq(Messages) /\ left \in Messages /\ \A i \in 1 .. Len(<<>>) : FALSE
  BY DEF Messages, Lefts
<1> HIDE DEF left
<1>8. \A a, b \in Players : before(a, b) \in Seq(Messages)
  BY <1>4, <1>7
<1>9. \A a, b \in Players : b # p => Append(before(a, b), left) \in Seq(Messages)
  BY <1>7, <1>8
<1> HIDE DEF before
<1>10. queue' \in [Players -> [Players -> Seq(Messages)]]
  BY <1>4, <1>6, <1>7, <1>9
<1>11. /\ \A a \in Players : queue'[a][p] = <<>>
       /\ \A b \in Players : b # p => queue'[p][b] = Append(before(p, b), left)
       /\ \A a, b \in Players : a # p /\ b # p => queue'[a][b] = queue[a][b]
  BY <1>6
<1>12. Streams'
  <2> SUFFICES ASSUME NEW a \in Players, NEW b \in Players, a # b
               PROVE  Stream(queue'[a][b], me'[a], me'[b].ledger[a])
    BY DEF Streams, Others
  <2>1. CASE b = p
    <3>1. me'[b].ledger[a].seq = 0 /\ me'[b].ledger[a].contacts = {} /\ me'[a].seq \in Nat
      BY <1>2, <1>5, <2>1 DEF NoEntry, Bridges
    <3>2. Stream(<<>>, me'[a], me'[b].ledger[a])
      BY <3>1, StreamBegins
    <3> QED BY <1>11, <2>1, <3>2
  <2>2. CASE a = p
    <3>1. Stream(queue[a][b], me[a], me[b].ledger[a]) /\ me'[b] = me[b]
      BY <1>5, <2>2 DEF Inv, Streams, Others
    <3>2. Numbered(before(a, b), me'[b].ledger[a])
      <4>1. CASE lost
        BY <1>7, <4>1 DEF before, Numbered
      <4>2. CASE ~lost
        BY <3>1, <4>2 DEF before, Stream
      <4> QED BY <4>1, <4>2
    <3>3. before(a, b) \in Seq(Messages)
      BY <1>8
    <3>4. Stream(Append(before(a, b), left), me'[a], me'[b].ledger[a])
      BY <3>2, <3>3, StreamLeaves DEF left
    <3> QED BY <1>11, <2>2, <3>4
  <2>3. CASE a # p /\ b # p
    BY <1>5, <1>11, <2>3 DEF Inv, Streams, Others
  <2> QED BY <2>1, <2>2, <2>3
<1>13. Returned'
  <2> SUFFICES ASSUME NEW a \in Players, NEW b \in Players, a # b, Gone(queue'[b][a])
               PROVE  queue'[a][b] = <<>> /\ me'[b].ledger[a].contacts = {}
    BY DEF Returned, Others
  <2>1. a # p
    BY <1>7, <1>11 DEF Gone
  <2>2. CASE b = p
    BY <1>2, <1>5, <1>11, <2>2 DEF NoEntry
  <2>3. CASE b # p
    BY <1>5, <1>11, <2>1, <2>3 DEF Inv, Returned, Others
  <2> QED BY <2>2, <2>3
<1>14. Silent'
  BY <1>2, <1>5 DEF Inv, Silent
<1> QED BY <1>3, <1>4, <1>5, <1>10, <1>12, <1>13, <1>14 DEF Inv, Types

-----------------------------------------------------------------------------
\* Every step keeps the invariant.
LEMMA NextKeeps ==
  ASSUME Inv, [Next]_vars
  PROVE  Inv'
<1>1. ASSUME NEW p \in Players, NEW hears \in BOOLEAN, NEW paused \in BOOLEAN, NEW runs \in BOOLEAN,
             NEW beat \in BOOLEAN, NEW moves \in SUBSET Plates, NEW q \in Others(p),
             Frame(p, q, hears, paused, runs, beat, moves)
      PROVE  Inv'
  BY <1>1, FrameKeeps
<1>2. ASSUME NEW p \in Players, NEW k \in Plates, Step(p, k)
      PROVE  Inv'
  BY <1>2, StepKeeps
<1>3. ASSUME NEW p \in Players, NEW room \in Scenes \cup {None}, Warp(p, room)
      PROVE  Inv'
  BY <1>3, WarpKeeps DEF Rooms
<1>4. ASSUME NEW p \in Players, ToggleFlags(p)
      PROVE  Inv'
  BY <1>4, ToggleFlagsKeeps
<1>5. ASSUME NEW p \in Players, NEW lost \in BOOLEAN, Rejoin(p, lost)
      PROVE  Inv'
  BY <1>5, RejoinKeeps
<1>6. ASSUME NEW p \in Players, NEW q \in Others(p), Expire(p, q)
      PROVE  Inv'
  BY <1>6, ExpireKeeps
<1>7. ASSUME UNCHANGED vars
      PROVE  Inv'
  BY <1>7 DEF vars, Inv, Types, Streams, Returned, Silent
<1> QED BY <1>1, <1>2, <1>3, <1>4, <1>5, <1>6, <1>7 DEF Next

\* The invariant holds in every reachable state.
LEMMA Always == Spec => []Inv
<1>1. Init => Inv
  BY InitInv
<1>2. Inv /\ [Next]_vars => Inv'
  BY NextKeeps
<1> QED BY <1>1, <1>2, PTL DEF Spec

\* The file-static variables of the bridge and the game keep their types: what is
\* sampled was run, what is completed is a latch, and feet stand in their room.
THEOREM TypeCorrect == Spec => []TypeOK
<1>1. Inv => TypeOK
  <2> SUFFICES ASSUME Inv PROVE TypeOK
    OBVIOUS
  <2>1. ASSUME NEW p \in Players
        PROVE  /\ me[p].scene \in Rooms /\ me[p].retScene \in Rooms
               /\ me[p].sampled.on \subseteq me[p].sampled.ran
               /\ UNION {me[p].sampled.ran, me[p].local, me[p].sent, me[p].origin,
                         me[p].completed, me[p].retOrigin} \subseteq Plates
               /\ me[p].completed \subseteq Latches /\ me[p].seq \in Nat
               /\ me[p].need \in BOOLEAN /\ me[p].flags \in BOOLEAN
    BY DEF Inv, Types, Bridges, Frames, Latches
  <2>2. ASSUME NEW p \in Players
        PROVE  /\ world[p].room \in Rooms /\ world[p].flag \subseteq Latches
               /\ world[p].feet \subseteq {k \in Plates : SceneOf[k] = world[p].room}
               /\ \A k \in Plates : world[p].pos[k] \in Positions
    BY DEF Inv, Types, Worlds
  <2>3. events \in 0 .. MaxEvents
    BY DEF Inv, Types
  <2> QED BY <2>1, <2>2, <2>3 DEF TypeOK, Rooms, Positions
<1> QED BY <1>1, Always, PTL

\* A report under way is newer than what its receiver has of the sender
\* (Ledger::receive drops nothing of a live session), although numbers restart.
THEOREM ReportsAreNew == Spec => []NeverStale
<1>1. Inv => NeverStale
  <2> SUFFICES ASSUME Inv, NEW p \in Players, NEW q \in Others(p), NEW i \in DOMAIN queue[p][q],
                      queue[p][q][i].type = "state",
                      \A j \in 1 .. i - 1 : queue[p][q][j].type # "left"
               PROVE  queue[p][q][i].seq > me[q].ledger[p].seq
    BY DEF NeverStale
  <2>1. q \in Players /\ Stream(queue[p][q], me[p], me[q].ledger[p])
    BY DEF Others, Inv, Streams
  <2> DEFINE qu == queue[p][q]
  <2>2. qu \in Seq(Messages) /\ me[q] \in Bridges
    BY <2>1 DEF Inv, Types
  <2>3. i \in 1 .. Len(qu) /\ qu[i] \in States /\ Said(qu[i])
    BY <2>2 DEF Messages, States, Bits, Lefts, Said
  <2>4. \A j \in 1 .. Len(qu) : j < i => qu[j].type # "left"
    BY <2>3
  <2>5. me[q].ledger[p].seq < qu[i].seq
    BY <2>1, <2>3, <2>4 DEF Stream, Numbered
  <2>6. me[q].ledger[p].seq \in Nat /\ qu[i].seq \in Nat
    BY <2>2, <2>3 DEF Bridges, Entries, States
  <2> QED BY <2>5, <2>6
<1> QED BY <1>1, Always, PTL

\* What a player holds plates down with is, once all is read, no more than what
\* the other last said of the scene it is in (floor_switch_sync.hpp, Ledger).
THEOREM ContactsAreCurrent == Spec => []PressureIsCurrent
<1>1. Inv => PressureIsCurrent
  <2> SUFFICES ASSUME Inv, NEW p \in Players, NEW q \in Others(p), queue[p][q] = <<>>,
                      me[q].ledger[p].contacts # {}
               PROVE  /\ me[q].ledger[p].contacts \subseteq me[p].sent
                      /\ me[q].ledger[p].scene = me[p].scene
    BY DEF PressureIsCurrent, Drained
  <2>1. Stream(<<>>, me[p], me[q].ledger[p])
    BY DEF Others, Inv, Streams
  <2>2. \A j \in 1 .. Len(<<>>) : FALSE
    OBVIOUS
  <2> QED BY <2>1, <2>2 DEF Stream, Kept
<1> QED BY <1>1, Always, PTL
-----------------------------------------------------------------------------
\* A pressed plate comes up again when nobody stands on it, and only those act
\* who pressed it.  Both rest on what one player's step does to the frame it
\* sampled, to what it tells, and to the guard of its plates.

\* A bridge without a scene has sampled nothing and tells nothing.
Still(x) == x.scene = None => x.sampled.on = {} /\ x.local = {} /\ x.sent = {}

\* What a bridge x whose Link stands nowhere has come down to, n frames after the
\* feet were last moved: the frame before sampled nothing, the one before that
\* was told.
Settled(x, n) == /\ n >= 1 => x.sampled.on = {}
                 /\ n = 2 => x.local = {} /\ x.sent = {}

\* A plate of the room that is going to come up, or to move, on its own.
Live(w, k) == /\ SceneOf[k] = w.room /\ w.pos[k] # "up"
              /\ k \in Momentary \/ w.pos[k] = "moving"

\* Such a plate was pressed here, or it has the guard of the scene or of a scene
\* that was retired.
Guarded(x, w, own) ==
  \A k \in Plates : Live(w, k) => \/ k \in own
                                  \/ k \in x.origin /\ x.scene = w.room
                                  \/ k \in x.retOrigin /\ x.retScene = w.room

Sheltered(s) == Guarded(s.x, s.w, s.mine)

\* What is empty of a bridge stays empty.
Hush(x, y) == /\ x.sampled.on = {} => y.sampled.on = {}
              /\ x.local = {} => y.local = {}
              /\ x.sent = {} => y.sent = {}
              /\ Still(x) => Still(y)

\* The plates have not run between s and t, and no guard was lost.
Gentle(s, t) == /\ Hush(s.x, t.x)
                /\ Sheltered(s) => Sheltered(t)
                /\ t.acted = s.acted /\ t.w.room = s.w.room /\ t.w.feet = s.w.feet

\* A bridge that differs in its numbers, its entries and what it has to say.
Alike(x, y) == /\ y.sampled = x.sampled /\ y.local = x.local /\ y.origin = x.origin
               /\ y.scene = x.scene /\ y.retScene = x.retScene /\ y.retOrigin = x.retOrigin

LEMMA GentleTransitive ==
  ASSUME NEW s, NEW t, NEW u, Gentle(s, t), Gentle(t, u)
  PROVE  Gentle(s, u)
BY DEF Gentle, Hush

LEMMA GentleAlike ==
  ASSUME NEW s, NEW t, Alike(s.x, t.x), s.x.sent = {} => t.x.sent = {},
         t.w.room = s.w.room, t.w.feet = s.w.feet, t.w.pos = s.w.pos, t.mine = s.mine,
         t.acted = s.acted
  PROVE  Gentle(s, t)
<1>1. Hush(s.x, t.x)
  BY DEF Hush, Alike, Still
<1>2. \A k \in Plates : Live(t.w, k) => Live(s.w, k)
  BY DEF Live
<1>3. Sheltered(s) => Sheltered(t)
  BY <1>2 DEF Sheltered, Guarded, Alike
<1> QED BY <1>1, <1>3 DEF Gentle

LEMMA SendAlike ==
  ASSUME NEW s \in Steps, NEW scene \in Rooms, NEW contacts \in SUBSET Plates,
         NEW t, t = Send(s, scene, contacts)
  PROVE  /\ Alike(s.x, t.x) /\ t.acted = s.acted
         /\ t.x.sent = contacts /\ t.w = s.w /\ t.mine = s.mine
<1> DEFINE y == [s.x EXCEPT !.seq = s.x.seq + 1, !.sent = contacts, !.need = FALSE]
           out == Append(s.out, [type |-> "state", seq |-> s.x.seq + 1,
                                 scene |-> scene, contacts |-> contacts])
<1>1. t = [s EXCEPT !.x = y, !.out = out]
  BY DEF Send
<1>2. Alike(s.x, y) /\ y.sent = contacts
  BY DEF Alike, Steps, Bridges
<1> HIDE DEF y, out
<1>3. t.x = y /\ t.acted = s.acted /\ t.w = s.w /\ t.mine = s.mine
  BY <1>1 DEF Steps
<1> QED BY <1>2, <1>3

\* The contacts that are taken back leave nothing to tell.
LEMMA TakeBackGentle ==
  ASSUME NEW s \in Steps, NEW t, t = TakeBack(s)
  PROVE  Gentle(s, t)
<1>1. CASE s.x.scene # None /\ s.x.sent # {}
  <2>1. t = Send(s, s.x.scene, {}) /\ s.x.scene \in Rooms
    BY <1>1 DEF TakeBack, Steps, Bridges
  <2>2. {} \in SUBSET Plates
    OBVIOUS
  <2>3. /\ Alike(s.x, t.x) /\ t.acted = s.acted
        /\ t.x.sent = {} /\ t.w = s.w /\ t.mine = s.mine
    BY <2>1, <2>2, SendAlike
  <2> QED BY <2>3, GentleAlike
<1>2. CASE ~(s.x.scene # None /\ s.x.sent # {})
  <2>1. t = s
    BY <1>2 DEF TakeBack
  <2> QED BY <2>1 DEF Gentle, Hush
<1> QED BY <1>1, <1>2

\* A bridge that leaves its scene: what pressed its plates is retired first.
Leave(s, scene) == [Retire(s) EXCEPT !.x = Cleared(Retire(s).x, scene)]

LEMMA LeaveGentle ==
  ASSUME NEW s \in Steps, NEW scene \in Rooms, NEW t, t = Leave(s, scene)
  PROVE  /\ Gentle(s, t) /\ t.x.scene = scene /\ t.w = s.w /\ Still(t.x)
         /\ t.x.sampled.on = {} /\ t.x.local = {} /\ t.x.sent = {}
<1> DEFINE b == Retire(s)
           y == Cleared(b.x, scene)
<1>1. b \in Steps /\ b.w = s.w /\ b.acted = s.acted
  <2>1. b \in Steps /\ b.w = s.w
    BY RetireFacts
  <2>2. b.acted = s.acted
    BY DEF Retire, Steps
  <2> QED BY <2>1, <2>2
<1>2. /\ s.mine \subseteq b.mine
      /\ s.x.scene # None /\ s.x.origin # {} =>
           b.x.retScene = s.x.scene /\ b.x.retOrigin = s.x.origin /\ s.x.retOrigin \subseteq b.mine
      /\ s.x.scene = None \/ s.x.origin = {} =>
           b.x.retScene = s.x.retScene /\ b.x.retOrigin = s.x.retOrigin
  BY DEF Retire, Steps, Bridges
<1> HIDE DEF b
<1>3. /\ y.sampled = NoFrame /\ y.local = {} /\ y.sent = {} /\ y.scene = scene
      /\ y.retScene = b.x.retScene /\ y.retOrigin = b.x.retOrigin
  BY <1>1 DEF Cleared, Steps, Bridges
<1> HIDE DEF y
<1>4. t.x = y /\ t.w = s.w /\ t.mine = b.mine /\ t.acted = s.acted
  BY <1>1 DEF b, y, Leave, Steps
<1>5. Sheltered(s) => Sheltered(t)
  <2> SUFFICES ASSUME Sheltered(s), NEW k \in Plates, Live(s.w, k)
               PROVE  k \in t.mine \/ (k \in t.x.retOrigin /\ t.x.retScene = s.w.room)
    BY <1>4 DEF Sheltered, Guarded
  <2>1. s.w.room # None
    BY FloorAssumption DEF Live
  <2>2. CASE k \in s.mine
    BY <1>2, <1>4, <2>2
  <2>3. CASE k \in s.x.origin /\ s.x.scene = s.w.room
    BY <1>2, <1>3, <1>4, <2>1, <2>3
  <2>4. CASE k \in s.x.retOrigin /\ s.x.retScene = s.w.room
    BY <1>2, <1>3, <1>4, <2>4
  <2> QED BY <2>2, <2>3, <2>4 DEF Sheltered, Guarded
<1>6. NoFrame.on = {}
  BY DEF NoFrame
<1> QED BY <1>3, <1>4, <1>5, <1>6 DEF Gentle, Hush, Still

\* The bridge is in the game's room, or in none.
Placed(s) == s.x.scene \in {None, s.w.room}

LEMMA UpdateSceneGentle ==
  ASSUME NEW x0 \in Bridges, NEW s \in Steps, Good(x0, s.x, s.out), NEW t, t = UpdateScene(s)
  PROVE  Gentle(s, t) /\ Placed(t) /\ t.w = s.w
<1>1. CASE CurrentScene(s) = s.x.scene
  BY <1>1 DEF UpdateScene, Gentle, Hush, Placed, CurrentScene
<1>2. CASE CurrentScene(s) # s.x.scene
  <2> DEFINE a == TakeBack(s)
  <2>1. a \in Steps /\ a.w = s.w /\ Gentle(s, a)
    BY TakeBackGood, TakeBackGentle
  <2>2. CurrentScene(s) \in Rooms
    BY DEF CurrentScene, Steps, Worlds, Rooms
  <2>3. t = Leave(a, CurrentScene(s))
    BY <1>2 DEF UpdateScene, Leave
  <2> HIDE DEF a
  <2>4. Gentle(a, t) /\ t.x.scene = CurrentScene(s) /\ t.w = a.w
    BY <2>1, <2>2, <2>3, LeaveGentle
  <2> QED BY <2>1, <2>4, GentleTransitive DEF Placed, CurrentScene
<1> QED BY <1>1, <1>2

\* A flush tells what was sampled; while the game runs that is all it tells.
LEMMA FlushSettles ==
  ASSUME NEW x0 \in Bridges, NEW s \in Steps, Good(x0, s.x, s.out), Still(s.x),
         NEW paused \in BOOLEAN, NEW beat, NEW t, t = Flush(s, paused, beat)
  PROVE  /\ Sheltered(s) => Sheltered(t)
         /\ t.acted = s.acted /\ t.w = s.w /\ Placed(t) /\ Still(t.x)
         /\ t.x.sampled.on = {}
         /\ s.x.sampled.on = {} /\ (~paused \/ s.x.local = {}) => t.x.local = {} /\ t.x.sent = {}
<1> DEFINE a == UpdateScene(s)
           local == FinishFrame(a.x.local, a.x.sampled, paused)
           y == [a.x EXCEPT !.local = local, !.sampled = NoFrame]
           u == [a EXCEPT !.x.local = local, !.x.sampled = NoFrame]
<1>1. a \in Steps /\ Gentle(s, a) /\ Placed(a) /\ a.w = s.w
  BY UpdateSceneFacts, UpdateSceneGentle
<1>2. t = IF a.x.scene = None THEN a
          ELSE IF u.x.need \/ local # u.x.sent \/ (local # {} /\ beat) THEN Send(u, u.x.scene, local)
          ELSE u
  BY DEF Flush
<1> HIDE DEF a
<1>3. /\ a.x \in Bridges /\ a.x.sampled \in Frames /\ a.x.local \in SUBSET Plates
      /\ a.x.scene \in Rooms
  BY <1>1 DEF Steps, Bridges
<1>4. /\ local \in SUBSET Plates
      /\ s.x.sampled.on = {} /\ (~paused \/ s.x.local = {}) => local = {}
  BY <1>1, <1>3 DEF FinishFrame, Frames, Gentle, Hush
<1> HIDE DEF local
<1>5. NoFrame \in Frames /\ NoFrame.on = {}
  BY DEF NoFrame, Frames
<1>6. y \in Bridges /\ u = [a EXCEPT !.x = y]
  <2>1. y \in Bridges
    BY <1>3, <1>4, <1>5 DEF Bridges
  <2>2. u = [a EXCEPT !.x = y]
    BY <1>1 DEF Steps
  <2> QED BY <2>1, <2>2
<1>7. /\ y.sampled = NoFrame /\ y.local = local /\ y.origin = a.x.origin /\ y.scene = a.x.scene
      /\ y.retScene = a.x.retScene /\ y.retOrigin = a.x.retOrigin
  BY <1>3 DEF Bridges
<1> HIDE DEF u, y
<1>8. /\ u \in Steps /\ u.x = y /\ u.w = a.w /\ u.mine = a.mine /\ u.acted = a.acted
  BY <1>1, <1>6 DEF Steps
<1>9. CASE a.x.scene = None
  <2>1. t = a /\ Still(a.x)
    BY <1>1, <1>2, <1>9 DEF Gentle, Hush
  <2> QED BY <1>1, <1>9, <2>1 DEF Still, Gentle
<1>10. ASSUME a.x.scene # None
       PROVE  /\ Alike(y, t.x) /\ t.mine = a.mine /\ t.acted = a.acted /\ t.w = a.w
              /\ local = {} => t.x.sent = {}
  <2>1. CASE t = u /\ local = u.x.sent
    BY <1>8, <2>1 DEF Alike
  <2>2. CASE t = Send(u, u.x.scene, local)
    <3>1. u.x.scene \in Rooms
      BY <1>3, <1>7, <1>8
    <3>2. /\ Alike(u.x, t.x) /\ t.acted = u.acted
          /\ t.x.sent = local /\ t.w = u.w /\ t.mine = u.mine
      BY <1>4, <1>8, <2>2, <3>1, SendAlike
    <3> QED BY <1>8, <3>2
  <2> QED BY <1>2, <1>10, <2>1, <2>2
<1>11. ASSUME a.x.scene # None
       PROVE  Sheltered(a) => Sheltered(t)
  BY <1>7, <1>10, <1>11 DEF Sheltered, Guarded, Alike
<1>12. CASE a.x.scene # None
  <2>1. t.x.scene = a.x.scene /\ t.x.sampled = NoFrame /\ t.x.local = local
    BY <1>7, <1>10, <1>12 DEF Alike
  <2>2. Placed(t) /\ Still(t.x)
    BY <1>1, <1>10, <1>12, <2>1 DEF Placed, Still
  <2> QED BY <1>1, <1>4, <1>5, <1>10, <1>11, <1>12, <2>1, <2>2 DEF Gentle
<1> QED BY <1>9, <1>12

\* A bridge whose flags are not shared, and one that starts anew.
LEMMA OffSettles ==
  ASSUME NEW x0 \in Bridges, NEW s \in Steps, Good(x0, s.x, s.out), NEW t, t = Off(s)
  PROVE  /\ Gentle(s, t) /\ t.w = s.w /\ Placed(t) /\ Still(t.x)
         /\ t.x.sampled.on = {} /\ t.x.local = {} /\ t.x.sent = {}
<1> DEFINE a == TakeBack(s)
<1>1. Gentle(s, a) /\ a \in Steps /\ a.w = s.w
  BY TakeBackGentle, TakeBackGood
<1>2. t = Leave(a, None) /\ None \in Rooms
  BY DEF Off, Reset, Leave, Rooms
<1> HIDE DEF a
<1>3. /\ Gentle(a, t) /\ t.x.scene = None /\ t.w = a.w /\ Still(t.x)
      /\ t.x.sampled.on = {} /\ t.x.local = {} /\ t.x.sent = {}
  BY <1>1, <1>2, LeaveGentle
<1> QED BY <1>1, <1>3, GentleTransitive DEF Placed

LEMMA RestartSettles ==
  ASSUME NEW s \in Steps, NEW t, t = Restarted(s)
  PROVE  Gentle(s, t) /\ Still(t.x)
<1> DEFINE b == Retire(s)
           c == Cleared(b.x, None)
           a == Leave(s, None)
           y == [c EXCEPT !.seq = 0, !.ledger = [q \in Players |-> NoEntry]]
<1>1. t = [b EXCEPT !.x = y] /\ a = [b EXCEPT !.x = c]
  BY DEF Restarted, Reset, Leave
<1>2. b \in Steps /\ None \in Rooms
  BY RetireFacts DEF Rooms
<1>3. Gentle(s, a) /\ Still(a.x)
  BY <1>2, LeaveGentle
<1> HIDE DEF a, b
<1>4. c \in Bridges
  BY <1>2, ClearedFacts DEF Steps
<1> HIDE DEF c
<1>5. Alike(c, y) /\ y.sent = c.sent
  BY <1>4 DEF Alike, Bridges
<1> HIDE DEF y
<1>6. /\ a.x = c /\ t.x = y /\ t.w = a.w /\ t.mine = a.mine /\ t.acted = a.acted
  BY <1>1, <1>2 DEF Steps
<1>7. Gentle(a, t)
  BY <1>5, <1>6, GentleAlike
<1>8. Still(t.x)
  BY <1>3, <1>7 DEF Gentle, Hush
<1> QED BY <1>3, <1>7, <1>8, GentleTransitive

\* A message moves no plate, and leaves its guard to every one.
LEMMA BitGentle ==
  ASSUME NEW x0 \in Bridges, NEW s \in Steps, Good(x0, s.x, s.out), NEW k \in Latches,
         NEW t, t = ReceiveBit(s, k)
  PROVE  Gentle(s, t) /\ Placed(t)
<1> DEFINE a == UpdateScene(s)
           w == [a.w EXCEPT !.flag = a.w.flag \cup {k}]
           b == [a EXCEPT !.w = w]
           y == [a.x EXCEPT !.completed = a.x.completed \cup {k}, !.origin = a.x.origin \cup {k}]
           c == [b EXCEPT !.x.completed = b.x.completed \cup {k}, !.x.origin = b.x.origin \cup {k}]
<1>1. a \in Steps /\ Gentle(s, a) /\ Placed(a)
  BY UpdateSceneFacts, UpdateSceneGentle
<1>2. t \in {b, c}
  BY DEF ReceiveBit
<1> HIDE DEF a
<1>3. w.feet = a.w.feet /\ w.room = a.w.room /\ w.pos = a.w.pos
  BY <1>1 DEF Steps, Worlds
<1> HIDE DEF w
<1>4. b.x = a.x /\ b.w = w /\ b.mine = a.mine /\ b.acted = a.acted
  BY <1>1 DEF Steps
<1>5. c.x = y /\ c.w = w /\ c.mine = a.mine /\ c.acted = a.acted
  BY <1>1 DEF Steps
<1> HIDE DEF b, c
<1>6. /\ y.sampled = a.x.sampled /\ y.local = a.x.local /\ y.sent = a.x.sent
      /\ y.origin = a.x.origin \cup {k} /\ y.scene = a.x.scene
      /\ y.retScene = a.x.retScene /\ y.retOrigin = a.x.retOrigin
  BY <1>1 DEF Steps, Bridges
<1> HIDE DEF y
<1>7. /\ t.w = w /\ t.mine = a.mine /\ t.acted = a.acted
      /\ t.x.sampled = a.x.sampled /\ t.x.local = a.x.local /\ t.x.sent = a.x.sent
      /\ a.x.origin \subseteq t.x.origin /\ t.x.scene = a.x.scene
      /\ t.x.retScene = a.x.retScene /\ t.x.retOrigin = a.x.retOrigin
  BY <1>2, <1>4, <1>5, <1>6
<1>8. \A l \in Plates : Live(t.w, l) => Live(a.w, l)
  BY <1>3, <1>7 DEF Live
<1>9. Sheltered(a) => Sheltered(t)
  BY <1>3, <1>7, <1>8 DEF Sheltered, Guarded
<1>10. Gentle(a, t) /\ Placed(t)
  BY <1>1, <1>3, <1>7, <1>9 DEF Gentle, Hush, Still, Placed
<1> QED BY <1>1, <1>10, GentleTransitive

LEMMA ReceiveGentle ==
  ASSUME NEW x0 \in Bridges, NEW s \in Steps, Good(x0, s.x, s.out), NEW q \in Players,
         NEW m \in Messages, NEW t, t = Receive(s, q, m), Placed(s)
  PROVE  Gentle(s, t) /\ Placed(t)
<1>1. CASE m.type = "left"
  <2> DEFINE y == Forget(s.x, q)
  <2>1. t = [s EXCEPT !.x = y]
    BY <1>1 DEF Receive
  <2>2. Alike(s.x, y) /\ y.sent = s.x.sent
    BY DEF Alike, Forget, Steps, Bridges
  <2> HIDE DEF y
  <2>3. t.x = y /\ t.w = s.w /\ t.mine = s.mine /\ t.acted = s.acted
    BY <2>1 DEF Steps
  <2>4. Gentle(s, t)
    BY <2>2, <2>3, GentleAlike
  <2> QED BY <2>2, <2>3, <2>4 DEF Placed, Alike
<1>2. CASE m.type = "state" /\ s.x.flags
  <2> DEFINE a == UpdateScene(s)
             y == ReceiveState(a.x, q, m)
  <2>1. a \in Steps /\ Gentle(s, a) /\ Placed(a)
    BY UpdateSceneFacts, UpdateSceneGentle
  <2>2. t = [a EXCEPT !.x = y]
    BY <1>2 DEF Receive
  <2> HIDE DEF a
  <2>3. Alike(a.x, y) /\ y.sent = a.x.sent
    BY <2>1 DEF Alike, ReceiveState, Steps, Bridges
  <2> HIDE DEF y
  <2>4. t.x = y /\ t.w = a.w /\ t.mine = a.mine /\ t.acted = a.acted
    BY <2>1, <2>2 DEF Steps
  <2>5. Gentle(a, t)
    BY <2>3, <2>4, GentleAlike
  <2>6. Placed(t)
    BY <2>1, <2>3, <2>4 DEF Placed, Alike
  <2> QED BY <2>1, <2>5, <2>6, GentleTransitive
<1>3. CASE m.type = "bit" /\ s.x.flags
  <2>1. m.plate \in Latches /\ t = ReceiveBit(s, m.plate)
    BY <1>3 DEF Receive, Messages, States, Bits, Lefts
  <2> QED BY <2>1, BitGentle
<1>4. CASE m.type # "left" /\ ~s.x.flags
  <2>1. t = s
    BY <1>4 DEF Receive
  <2> QED BY <2>1 DEF Gentle, Hush
<1>5. m.type \in {"left", "state", "bit"}
  <2>1. m \in States \/ m \in Bits \/ m \in Lefts
    BY DEF Messages
  <2>2. m \in States => m.type = "state"
    BY DEF States
  <2>3. m \in Bits => m.type = "bit"
    BY DEF Bits
  <2>4. m \in Lefts => m.type = "left"
    BY DEF Lefts
  <2> QED BY <2>1, <2>2, <2>3, <2>4
<1> QED BY <1>1, <1>2, <1>3, <1>4, <1>5

\* The plates run: one that moves with nobody on it was pressed here, or has the
\* guard that keeps it from acting.
LEMMA ExecuteActs ==
  ASSUME NEW s \in Steps, NEW p \in Players, NEW moves \in SUBSET Plates,
         NEW t, t = Execute(s, p, moves), Placed(s), Sheltered(s), Still(s.x)
  PROVE  /\ Sheltered(t) /\ Still(t.x) /\ t.acted \subseteq t.mine \cup t.w.feet
         /\ t.x.local = s.x.local /\ t.x.sent = s.x.sent
         /\ s.w.feet = {} /\ s.x.sampled.on = {} => t.x.sampled.on = {}
<1> DEFINE x == s.x
           w == s.w
           here == {k \in Plates : SceneOf[k] = w.room}
           synced == x.scene # None
           remote == IF synced THEN Pressure(x, x.scene, Fresh(x)) \cap here ELSE {}
           same == w.room = x.retScene
           retired == IF same THEN {k \in x.retOrigin : k \notin w.feet /\ ~Idle(w, k)} ELSE {}
           origin == IF ~synced THEN x.origin
                     ELSE ((x.origin \cup remote \cup x.completed) \ w.feet)
                            \ {k \in here : Idle(w, k) /\ k \notin remote \cup x.completed}
           remoteOnly == (retired \cup (IF synced THEN origin ELSE {})) \ w.feet
           finishing == IF synced THEN Finishing(x, w) ELSE {}
           pressed == (w.feet \cup remote \cup finishing) \cap here
           started == [k \in Plates |-> IF k \in finishing /\ w.pos[k] = "up" THEN "moving" ELSE w.pos[k]]
           pos == Stepped(w, here \cap moves, pressed, finishing)
           moved == {k \in here : pos[k] # w.pos[k]}
           set == Durable(moved, pos)
           published == IF synced THEN (set \ w.flag) \ remoteOnly ELSE {}
           sampled == IF synced THEN Sampled(here, w.feet, pressed) ELSE x.sampled
           retScene == IF same THEN x.retScene ELSE None
           completed == IF synced THEN finishing ELSE x.completed
           y == [x EXCEPT !.retScene = retScene, !.retOrigin = retired, !.sampled = sampled,
                          !.origin = origin, !.completed = completed]
           v == [w EXCEPT !.pos = pos, !.flag = w.flag \cup set]
           own == (s.mine \cup w.feet) \ ((remote \cup finishing) \ w.feet)
           bits == SetToSeq({[type |-> "bit", plate |-> k] : k \in published})
<1>1. t = [s EXCEPT !.x = y, !.w = v, !.mine = own, !.acted = moved \ remoteOnly,
                    !.out = s.out \o bits]
  BY DEF Execute
<1>2. /\ x \in Bridges /\ w \in Worlds /\ x.completed \in SUBSET Latches
      /\ w.pos \in [Plates -> Positions]
  BY DEF Steps, Bridges, Worlds
<1> HIDE DEF bits
<1>3. t.x = y /\ t.w = v /\ t.mine = own /\ t.acted = moved \ remoteOnly
  <2> HIDE DEF y, v, own, moved, remoteOnly
  <2> QED BY <1>1 DEF Steps
<1> HIDE DEF x, w
<1>4. /\ y.retScene = retScene /\ y.retOrigin = retired /\ y.sampled = sampled /\ y.origin = origin
      /\ y.scene = x.scene /\ y.local = x.local /\ y.sent = x.sent
  <2> HIDE DEF retScene, retired, sampled, origin, completed
  <2> QED BY <1>2 DEF Bridges
<1>5. v.pos = pos /\ v.room = w.room /\ v.feet = w.feet
  <2> HIDE DEF pos, set
  <2> QED BY <1>2 DEF Worlds
<1> HIDE DEF y, v
\* A plate that nobody presses comes up, stays down as a latch, or stays.
<1>6. ASSUME NEW k \in here, k \notin w.feet \cup remote \cup finishing
      PROVE  /\ (k \in moves /\ (k \in Momentary \/ w.pos[k] # "down")) => pos[k] = "up"
             /\ ~(k \in moves /\ (k \in Momentary \/ w.pos[k] # "down")) => pos[k] = w.pos[k]
  <2>1. started[k] = w.pos[k] /\ k \notin pressed /\ k \in Plates /\ w.pos[k] \in Positions
    BY <1>2, <1>6
  <2>2. pos[k] = IF k \in here \cap moves THEN Move(k, started[k], k \in pressed) ELSE started[k]
    <3>1. pos = [l \in Plates |-> IF l \in here \cap moves THEN Move(l, started[l], l \in pressed)
                                  ELSE started[l]]
      BY DEF Stepped
    <3> HIDE DEF pos, started, pressed, here
    <3> QED BY <2>1, <3>1
  <2>3. k \in moves => pos[k] = Move(k, w.pos[k], FALSE)
    <3>1. (k \in pressed) = FALSE
      <4> HIDE DEF pressed
      <4> QED BY <2>1
    <3> HIDE DEF pos, started, pressed, here, remote, finishing
    <3> QED BY <1>6, <2>1, <2>2, <3>1
  <2>4. k \notin moves => pos[k] = w.pos[k]
    <3> HIDE DEF pos, started, pressed
    <3> QED BY <2>1, <2>2
  <2>5. k \in Momentary \/ w.pos[k] # "down" => Move(k, w.pos[k], FALSE) = "up"
    <3>1. CASE k \in Momentary
      BY <3>1 DEF Move, Latches
    <3>2. CASE k \notin Momentary /\ w.pos[k] # "down"
      BY <3>2 DEF Move, Latches
    <3> QED BY <3>1, <3>2
  <2>6. k \notin Momentary /\ w.pos[k] = "down" => Move(k, w.pos[k], FALSE) = w.pos[k]
    BY <2>1 DEF Move, Latches
  <2> HIDE DEF pos
  <2> QED BY <2>3, <2>4, <2>5, <2>6
\* Of such a plate that moves, or is still on its way, the same was so before.
<1>7. ASSUME NEW k \in here, k \notin w.feet \cup remote \cup finishing,
             pos[k] # w.pos[k] \/ Live(v, k)
      PROVE  Live(w, k)
  <2>1. SceneOf[k] = w.room /\ w.pos[k] \in Positions
    BY <1>2
  <2> HIDE DEF pos, here, remote, finishing
  <2> QED BY <1>5, <1>6, <1>7, <2>1 DEF Live, Positions
\* The guard of a plate that the others press is set, and kept until it is up.
<1>8. ASSUME NEW k \in here, k \notin w.feet, k \in remote \cup finishing
      PROVE  k \in origin /\ synced
  BY <1>8 DEF Finishing
<1>9. ASSUME NEW k \in here, k \notin w.feet \cup remote \cup finishing, Live(w, k)
      PROVE  \/ k \in own
             \/ k \in origin /\ synced
             \/ k \in retired /\ same
  <2>1. w.room # None /\ ~Idle(w, k)
    BY <1>9, FloorAssumption DEF Live, Idle
  <2>2. CASE k \in s.mine
    <3> HIDE DEF remote, finishing
    <3> QED BY <1>9, <2>2
  <2>3. CASE k \in x.origin /\ x.scene = w.room
    <3> HIDE DEF remote, finishing
    <3> QED BY <1>9, <2>1, <2>3
  <2>4. CASE k \in x.retOrigin /\ x.retScene = w.room
    <3> HIDE DEF remote, finishing
    <3> QED BY <1>9, <2>1, <2>4
  <2> QED BY <1>9, <2>2, <2>3, <2>4 DEF Sheltered, Guarded, x, w
<1>10. Sheltered(t)
  <2> SUFFICES ASSUME NEW k \in Plates, Live(v, k)
               PROVE  \/ k \in own
                      \/ k \in origin /\ x.scene = w.room
                      \/ k \in retired /\ retScene = w.room
    <3> HIDE DEF own, origin, retired, retScene
    <3> QED BY <1>3, <1>4, <1>5 DEF Sheltered, Guarded
  <2>1. k \in here
    BY <1>5 DEF Live
  <2>2. synced => x.scene = w.room
    BY DEF Placed, x, w
  <2>3. CASE k \in w.feet
    <3> HIDE DEF remote, finishing
    <3> QED BY <2>3
  <2>4. CASE k \notin w.feet /\ k \in remote \cup finishing
    BY <1>8, <2>1, <2>2, <2>4
  <2>5. CASE k \notin w.feet \cup remote \cup finishing
    <3>1. Live(w, k)
      BY <1>7, <2>1, <2>5
    <3>2. same => retScene = w.room
      OBVIOUS
    <3> HIDE DEF own, origin, retired, retScene, remote, finishing, here
    <3> QED BY <1>9, <2>1, <2>2, <2>5, <3>1, <3>2
  <2> QED BY <2>3, <2>4, <2>5
<1>11. t.acted \subseteq t.mine \cup t.w.feet
  <2> SUFFICES ASSUME NEW k \in here, pos[k] # w.pos[k], k \notin remoteOnly, k \notin w.feet
               PROVE  k \in own
    <3> HIDE DEF own, remoteOnly, pos, here
    <3> QED BY <1>3, <1>5
  <2>1. k \notin retired /\ ~(synced /\ k \in origin)
    <3> HIDE DEF retired, origin
    <3> QED OBVIOUS
  <2>2. k \notin remote \cup finishing
    BY <1>8, <2>1
  <2>3. Live(w, k)
    <3> HIDE DEF pos
    <3> QED BY <1>7, <2>2
  <2> HIDE DEF own, origin, retired, remote, finishing, here
  <2> QED BY <1>9, <2>1, <2>2, <2>3
<1>12. w.feet = {} /\ x.sampled.on = {} => t.x.sampled.on = {}
  <2> HIDE DEF here, pressed
  <2> QED BY <1>3, <1>4 DEF Sampled
<1>13. x.scene = None => t.x.sampled = x.sampled
  <2> HIDE DEF here, pressed
  <2> QED BY <1>3, <1>4
<1>14. t.x.scene = x.scene /\ t.x.local = x.local /\ t.x.sent = x.sent
  <2> HIDE DEF own, moved, remoteOnly, retScene, retired, sampled, origin
  <2> QED BY <1>3, <1>4
<1>15. Still(t.x)
  <2>1. Still(x)
    BY DEF x
  <2> QED BY <1>13, <1>14, <2>1 DEF Still
<1> HIDE DEF here, synced, remote, same, retired, origin, remoteOnly, finishing, pressed, started, pos,
             moved, set, published, sampled, retScene, completed, own
<1> QED BY <1>10, <1>11, <1>12, <1>14, <1>15, SMTT(30) DEF x, w

-----------------------------------------------------------------------------
\* What is invariant of one player's feet, frames and guards.
Shares == /\ quiet \in [Players -> 0 .. 2]
          /\ \A p \in Players : /\ Still(me[p]) /\ Guarded(me[p], world[p], mine[p])
                                /\ world[p].feet = {} => Settled(me[p], quiet[p])
                                /\ me[p].ledger[p].contacts = {}

LEMMA InitShares == Init => Shares /\ OnlyTheRiderActs
<1> SUFFICES ASSUME Init PROVE Shares /\ OnlyTheRiderActs
  OBVIOUS
<1> USE DEF Init
<1>1. ASSUME NEW p \in Players
      PROVE  /\ me[p].sampled.on = {} /\ me[p].local = {} /\ me[p].sent = {}
             /\ me[p].ledger[p].contacts = {}
  BY DEF NewBridge, NoFrame, NoEntry
<1>2. \A p \in Players, k \in Plates : world[p].pos[k] = "up"
  OBVIOUS
<1>3. quiet \in [Players -> 0 .. 2]
  OBVIOUS
<1> QED BY <1>1, <1>2, <1>3 DEF Shares, Still, Guarded, Live, Settled, OnlyTheRiderActs

\* A frame: while nobody stands on a plate, one that runs brings the bridge a
\* step closer to telling nothing.
LEMMA FrameShares ==
  ASSUME Inv, Shares, NEW p \in Players, NEW q \in Others(p), NEW hears \in BOOLEAN,
         NEW paused \in BOOLEAN, NEW runs \in BOOLEAN, NEW beat \in BOOLEAN,
         NEW moves \in SUBSET Plates, Frame(p, q, hears, paused, runs, beat, moves)
  PROVE  Shares' /\ OnlyTheRiderActs'
<1> DEFINE captured == IF me[p].flags THEN Flush(State(p), paused, beat) ELSE Reset(State(p), FALSE)
           heard == IF hears THEN Receive(captured, q, Head(queue[q][p])) ELSE captured
           done == IF runs THEN Execute(heard, p, moves) ELSE heard
           rest == [a \in Players |-> IF hears /\ a = q THEN Tail(queue[a][p]) ELSE queue[a][p]]
           room == world[p].room
           feet == world[p].feet
           n == quiet'[p]
<1>1. /\ hears => queue[q][p] # <<>>
      /\ Finish(p, done, rest)
      /\ quiet' = [quiet EXCEPT ![p] = IF paused \/ quiet[p] = 2 THEN quiet[p] ELSE quiet[p] + 1]
  BY DEF Frame
<1>2. /\ quiet \in [Players -> 0 .. 2] /\ quiet' \in [Players -> 0 .. 2]
      /\ n = IF paused \/ quiet[p] = 2 THEN quiet[p] ELSE quiet[p] + 1
      /\ \A a \in Players : a # p => quiet'[a] = quiet[a]
  <2> DEFINE m == IF paused \/ quiet[p] = 2 THEN quiet[p] ELSE quiet[p] + 1
  <2>1. quiet \in [Players -> 0 .. 2]
    BY DEF Shares
  <2>2. m \in 0 .. 2 /\ quiet' = [quiet EXCEPT ![p] = m]
    BY <1>1, <2>1
  <2> HIDE DEF m
  <2>3. /\ quiet' \in [Players -> 0 .. 2] /\ quiet'[p] = m
        /\ \A a \in Players : a # p => quiet'[a] = quiet[a]
    BY <2>1, <2>2
  <2> QED BY <2>1, <2>3 DEF m
<1>3. /\ State(p) \in Steps /\ Good(me[p], State(p).x, State(p).out)
      /\ State(p).x = me[p] /\ State(p).mine = mine[p]
  BY StateFacts
<1>4. State(p).w = world[p] /\ State(p).acted = {}
  BY DEF State
<1>5. Still(me[p]) /\ Sheltered(State(p)) /\ (feet = {} => Settled(me[p], quiet[p]))
  BY <1>3, <1>4 DEF Shares, Sheltered
<1>6. me[p] \in Bridges
  BY DEF Inv, Types
<1>7. Captured(me[p], captured)
  BY CapturedFacts
<1>8. /\ Sheltered(captured) /\ Placed(captured) /\ Still(captured.x)
      /\ captured.acted = {} /\ captured.w = world[p] /\ captured.x.sampled.on = {}
      /\ feet = {} /\ n = 2 => captured.x.local = {} /\ captured.x.sent = {}
  <2>1. CASE me[p].flags
    <3>1. captured = Flush(State(p), paused, beat)
      BY <2>1
    <3> HIDE DEF captured
    <3>2. /\ Sheltered(State(p)) => Sheltered(captured)
          /\ captured.acted = State(p).acted /\ captured.w = State(p).w
          /\ Placed(captured) /\ Still(captured.x) /\ captured.x.sampled.on = {}
          /\ State(p).x.sampled.on = {} /\ (~paused \/ State(p).x.local = {}) =>
               captured.x.local = {} /\ captured.x.sent = {}
      BY <1>3, <1>5, <1>6, <3>1, FlushSettles
    <3>3. feet = {} /\ n = 2 => me[p].sampled.on = {} /\ (~paused \/ me[p].local = {})
      <4>1. n = 2 => quiet[p] = 2 \/ (quiet[p] = 1 /\ ~paused)
        <5>1. quiet[p] \in 0 .. 2
          BY <1>2
        <5> QED BY <1>2, <5>1
      <4>2. quiet[p] >= 1 /\ feet = {} => me[p].sampled.on = {}
        BY <1>5 DEF Settled
      <4>3. quiet[p] = 2 /\ feet = {} => me[p].local = {}
        BY <1>5 DEF Settled
      <4> QED BY <4>1, <4>2, <4>3
    <3> QED BY <1>3, <1>4, <1>5, <3>2, <3>3
  <2>2. CASE ~me[p].flags
    <3>1. captured = Off(State(p))
      BY <2>2 DEF Off
    <3> HIDE DEF captured
    <3>2. /\ Gentle(State(p), captured) /\ captured.w = State(p).w
          /\ Placed(captured) /\ Still(captured.x)
          /\ captured.x.sampled.on = {} /\ captured.x.local = {} /\ captured.x.sent = {}
      BY <1>3, <1>6, <3>1, OffSettles
    <3> QED BY <1>4, <1>5, <3>2 DEF Gentle
  <2> QED BY <2>1, <2>2
<1> HIDE DEF captured
<1>9. captured \in Steps /\ Good(me[p], captured.x, captured.out)
  BY <1>7 DEF Captured
<1>10. /\ heard \in Steps /\ Gentle(captured, heard) /\ Placed(heard)
  <2>1. CASE hears
    <3>1. queue[q][p] \in Seq(Messages) /\ q \in Players
      BY DEF Inv, Types, Others
    <3>2. Head(queue[q][p]) \in Messages /\ heard = Receive(captured, q, Head(queue[q][p]))
      BY <1>1, <2>1, <3>1, TailElements
    <3> QED BY <1>6, <1>8, <1>9, <3>1, <3>2, ReceiveFacts, ReceiveGentle
  <2>2. CASE ~hears
    BY <1>8, <1>9, <2>2 DEF Gentle, Hush
  <2> QED BY <2>1, <2>2
<1> HIDE DEF heard
<1>11. /\ Sheltered(heard) /\ Still(heard.x) /\ heard.acted = {}
       /\ heard.w.room = room /\ heard.w.feet = feet /\ heard.x.sampled.on = {}
       /\ feet = {} /\ n = 2 => heard.x.local = {} /\ heard.x.sent = {}
  BY <1>8, <1>10 DEF Gentle, Hush
<1>12. /\ Sheltered(done) /\ Still(done.x) /\ done.acted \subseteq done.mine \cup done.w.feet
       /\ feet = {} => done.x.sampled.on = {}
       /\ feet = {} /\ n = 2 => done.x.local = {} /\ done.x.sent = {}
  <2>1. CASE runs
    <3>1. done = Execute(heard, p, moves)
      BY <2>1
    <3> HIDE DEF done
    <3>2. /\ Sheltered(done) /\ Still(done.x) /\ done.acted \subseteq done.mine \cup done.w.feet
          /\ done.x.local = heard.x.local /\ done.x.sent = heard.x.sent
          /\ heard.w.feet = {} /\ heard.x.sampled.on = {} => done.x.sampled.on = {}
      BY <1>10, <1>11, <3>1, ExecuteActs
    <3> QED BY <1>11, <3>2
  <2>2. CASE ~runs
    BY <1>11, <2>2
  <2> QED BY <2>1, <2>2
<1>13. /\ done \in Steps /\ done.w.feet = feet
       /\ done.x.ledger[p].contacts = {}
  <2>1. Good(me[p], heard.x, heard.out) /\ Cool(heard.x.ledger[p], captured.x.ledger[p])
    <3>1. CASE hears
      <4>1. queue[q][p] \in Seq(Messages) /\ q \in Players /\ q # p
        BY DEF Inv, Types, Others
      <4>2. Head(queue[q][p]) \in Messages /\ heard = Receive(captured, q, Head(queue[q][p]))
        BY <1>1, <3>1, <4>1, TailElements DEF heard
      <4> QED BY <1>6, <1>9, <4>1, <4>2, ReceiveFacts
    <3>2. CASE ~hears
      BY <1>9, <3>2 DEF heard, Cool
    <3> QED BY <3>1, <3>2
  <2>2. /\ done \in Steps /\ done.w.feet = heard.w.feet /\ done.x.ledger = heard.x.ledger
    <3>1. CASE runs
      <4>1. done = Execute(heard, p, moves)
        BY <3>1
      <4> HIDE DEF done
      <4>2. /\ done \in Steps /\ Good(me[p], done.x, done.out) /\ done.x.flags = heard.x.flags
            /\ done.w.feet = heard.w.feet /\ done.w.room = heard.w.room
            /\ done.x.ledger = heard.x.ledger
        BY <1>6, <1>10, <2>1, <4>1, ExecuteFacts
      <4> QED BY <4>2
    <3>2. CASE ~runs
      BY <1>10, <3>2
    <3> QED BY <3>1, <3>2
  <2>3. Cool(captured.x.ledger[p], me[p].ledger[p]) /\ me[p].ledger[p].contacts = {}
    BY <1>7 DEF Captured, Cools, Shares
  <2> HIDE DEF done
  <2> QED BY <1>11, <2>1, <2>2, <2>3 DEF Cool
<1> HIDE DEF done
<1>14. /\ me' = [me EXCEPT ![p] = done.x] /\ world' = [world EXCEPT ![p] = done.w]
       /\ mine' = [mine EXCEPT ![p] = done.mine] /\ acted' = {<<p, k>> : k \in done.acted}
  BY <1>1 DEF Finish
<1>15. me \in [Players -> Bridges] /\ world \in [Players -> Worlds]
       /\ mine \in [Players -> SUBSET Plates]
  BY DEF Inv, Types
<1>16. /\ me'[p] = done.x /\ world'[p] = done.w /\ mine'[p] = done.mine
       /\ \A a \in Players : a # p => me'[a] = me[a] /\ world'[a] = world[a] /\ mine'[a] = mine[a]
  BY <1>14, <1>15
<1>17. feet = {} => Settled(done.x, n)
  BY <1>12 DEF Settled
<1>18. Guarded(done.x, done.w, done.mine)
  BY <1>12 DEF Sheltered
<1>19. ASSUME NEW a \in Players
       PROVE  /\ Still(me'[a]) /\ Guarded(me'[a], world'[a], mine'[a])
              /\ world'[a].feet = {} => Settled(me'[a], quiet'[a])
              /\ me'[a].ledger[a].contacts = {}
  <2>1. CASE a = p
    BY <1>12, <1>13, <1>16, <1>17, <1>18, <2>1
  <2>2. CASE a # p
    <3>1. /\ Still(me[a]) /\ Guarded(me[a], world[a], mine[a])
          /\ world[a].feet = {} => Settled(me[a], quiet[a])
          /\ me[a].ledger[a].contacts = {}
      BY DEF Shares
    <3>2. me'[a] = me[a] /\ world'[a] = world[a] /\ mine'[a] = mine[a] /\ quiet'[a] = quiet[a]
      BY <1>2, <1>16, <2>2
    <3> QED BY <3>1, <3>2
  <2> QED BY <2>1, <2>2
<1>20. OnlyTheRiderActs'
  <2> SUFFICES ASSUME NEW b \in acted'
               PROVE  b[2] \in mine'[b[1]] \cup world'[b[1]].feet
    BY DEF OnlyTheRiderActs
  <2>1. PICK k \in done.acted : b = <<p, k>>
    BY <1>14
  <2> QED BY <1>12, <1>16, <2>1
<1> QED BY <1>2, <1>19, <1>20 DEF Shares

\* A player of whose feet, bridge or game something is changed has still to run.
LEMMA StirredShares ==
  ASSUME Shares, NEW p \in Players, quiet' = [quiet EXCEPT ![p] = 0], acted' = {},
         \A a \in Players : a # p => me'[a] = me[a] /\ world'[a] = world[a] /\ mine'[a] = mine[a],
         Still(me'[p]), Guarded(me'[p], world'[p], mine'[p]), me'[p].ledger[p].contacts = {}
  PROVE  Shares' /\ OnlyTheRiderActs'
<1>1. quiet' \in [Players -> 0 .. 2] /\ quiet'[p] = 0
      /\ \A a \in Players : a # p => quiet'[a] = quiet[a]
  BY DEF Shares
<1>2. ASSUME NEW a \in Players
      PROVE  /\ Still(me'[a]) /\ Guarded(me'[a], world'[a], mine'[a])
             /\ world'[a].feet = {} => Settled(me'[a], quiet'[a])
             /\ me'[a].ledger[a].contacts = {}
  <2>1. CASE a = p
    BY <1>1, <2>1 DEF Settled
  <2>2. CASE a # p
    BY <1>1, <2>2 DEF Shares
  <2> QED BY <2>1, <2>2
<1>3. OnlyTheRiderActs'
  BY DEF OnlyTheRiderActs
<1> QED BY <1>1, <1>2, <1>3 DEF Shares

\* Stepping on a plate, and off it, leaves the guard of those that move.
LEMMA StepShares ==
  ASSUME Inv, Shares, NEW p \in Players, NEW k \in Plates, Step(p, k)
  PROVE  Shares' /\ OnlyTheRiderActs'
<1> DEFINE w == [world[p] EXCEPT !.feet = IF k \in world[p].feet THEN world[p].feet \ {k}
                                          ELSE world[p].feet \cup {k}]
<1>1. world' = [world EXCEPT ![p] = w] /\ world \in [Players -> Worlds]
  BY DEF Step, Inv, Types
<1>2. w.room = world[p].room /\ w.pos = world[p].pos
  BY <1>1 DEF Worlds
<1> HIDE DEF w
<1>3. world'[p] = w /\ \A a \in Players : a # p => world'[a] = world[a]
  BY <1>1
<1>4. UNCHANGED <<me, queue, mine>> /\ quiet' = [quiet EXCEPT ![p] = 0] /\ acted' = {}
  BY DEF Step
<1>5. Guarded(me'[p], world'[p], mine'[p]) /\ Still(me'[p]) /\ me'[p].ledger[p].contacts = {}
  BY <1>2, <1>3, <1>4 DEF Shares, Guarded, Live
<1> QED BY <1>3, <1>4, <1>5, StirredShares

\* The plates of the new room stand still: those that were pressed are down.
LEMMA WarpShares ==
  ASSUME Inv, Shares, NEW p \in Players, NEW room \in Rooms, Warp(p, room)
  PROVE  Shares' /\ OnlyTheRiderActs'
<1> DEFINE made == [k \in Plates |-> IF k \in world[p].flag THEN "down" ELSE "up"]
           w == [world[p] EXCEPT !.room = room, !.feet = {}, !.pos = made]
<1>1. world' = [world EXCEPT ![p] = w] /\ world \in [Players -> Worlds]
      /\ mine \in [Players -> SUBSET Plates]
  BY DEF Warp, Inv, Types
<1>2. w.pos = made /\ world[p].flag \subseteq Latches
  <2> HIDE DEF made
  <2> QED BY <1>1 DEF Worlds
<1> HIDE DEF w
<1>3. world'[p] = w /\ \A a \in Players : a # p => world'[a] = world[a]
  BY <1>1
<1>4. UNCHANGED <<me, queue>> /\ quiet' = [quiet EXCEPT ![p] = 0] /\ acted' = {}
      /\ mine' = [mine EXCEPT ![p] = {}]
  BY DEF Warp
<1>5. \A k \in Plates : ~Live(w, k)
  BY <1>2 DEF Live, Latches
<1>6. Guarded(me'[p], world'[p], mine'[p])
  BY <1>3, <1>5 DEF Guarded
<1>7. Still(me'[p]) /\ me'[p].ledger[p].contacts = {}
  BY <1>4 DEF Shares
<1>8. \A a \in Players : a # p => mine'[a] = mine[a]
  BY <1>1, <1>4
<1> QED BY <1>3, <1>4, <1>6, <1>7, <1>8, StirredShares

\* The guards outlive the setting.
LEMMA ToggleFlagsShares ==
  ASSUME Inv, Shares, NEW p \in Players, ToggleFlags(p)
  PROVE  Shares' /\ OnlyTheRiderActs'
<1> DEFINE x == [me[p] EXCEPT !.flags = ~me[p].flags]
<1>1. me' = [me EXCEPT ![p] = x] /\ me \in [Players -> Bridges]
  BY DEF ToggleFlags, Inv, Types
<1>2. Alike(me[p], x) /\ x.sent = me[p].sent /\ x.ledger = me[p].ledger
  BY <1>1 DEF Alike, Bridges
<1> HIDE DEF x
<1>3. me'[p] = x /\ \A a \in Players : a # p => me'[a] = me[a]
  BY <1>1
<1>4. UNCHANGED <<world, queue, mine>> /\ quiet' = [quiet EXCEPT ![p] = 0] /\ acted' = {}
  BY DEF ToggleFlags
<1>5. Guarded(me'[p], world'[p], mine'[p]) /\ Still(me'[p]) /\ me'[p].ledger[p].contacts = {}
  BY <1>2, <1>3, <1>4 DEF Shares, Guarded, Alike, Still
<1> QED BY <1>3, <1>4, <1>5, StirredShares

\* Nobody's guard is lost with the session, and nothing is told in the next one.
LEMMA RejoinShares ==
  ASSUME Inv, Shares, NEW p \in Players, NEW lost \in BOOLEAN, Rejoin(p, lost)
  PROVE  Shares' /\ OnlyTheRiderActs'
<1> DEFINE t == Restarted(State(p))
<1>1. State(p) \in Steps /\ State(p).x = me[p] /\ State(p).mine = mine[p]
      /\ State(p).w = world[p]
  BY StateFacts DEF State
<1>2. Gentle(State(p), t) /\ Still(t.x) /\ t.x.ledger[p] = NoEntry
  BY <1>1, RestartSettles, RestartFacts
<1>3. t.w = world[p]
  <2>1. t.w = Retire(State(p)).w
    <3>1. Retire(State(p)) \in Steps
      BY <1>1, RetireFacts
    <3> QED BY <3>1 DEF Restarted, Reset, Steps
  <2> QED BY <1>1, <2>1, RetireFacts
<1>4. me' = [me EXCEPT ![p] = t.x] /\ mine' = [mine EXCEPT ![p] = t.mine]
  BY DEF Rejoin, Restarted
<1>5. UNCHANGED world /\ quiet' = [quiet EXCEPT ![p] = 0] /\ acted' = {}
  BY DEF Rejoin
<1> HIDE DEF t
<1>6. me \in [Players -> Bridges] /\ mine \in [Players -> SUBSET Plates]
  BY DEF Inv, Types
<1>7. /\ me'[p] = t.x /\ mine'[p] = t.mine
      /\ \A a \in Players : a # p => me'[a] = me[a] /\ mine'[a] = mine[a]
  BY <1>4, <1>6
<1>8. Sheltered(t)
  BY <1>1, <1>2 DEF Gentle, Sheltered, Shares
<1>9. Guarded(me'[p], world'[p], mine'[p]) /\ Still(me'[p]) /\ me'[p].ledger[p].contacts = {}
  BY <1>2, <1>3, <1>5, <1>7, <1>8 DEF Sheltered, NoEntry
<1> QED BY <1>5, <1>7, <1>9, StirredShares

\* An entry that expires is another player's.
LEMMA ExpireShares ==
  ASSUME Inv, Shares, NEW p \in Players, NEW q \in Others(p), Expire(p, q)
  PROVE  Shares' /\ OnlyTheRiderActs'
<1> DEFINE l == [me[p].ledger EXCEPT ![q] = [me[p].ledger[q] EXCEPT !.fresh = FALSE]]
           x == [me[p] EXCEPT !.ledger = l]
<1>1. me' = [me EXCEPT ![p] = x] /\ me \in [Players -> Bridges] /\ q # p
  BY DEF Expire, Inv, Types, Others
<1>2. l[p] = me[p].ledger[p]
  BY <1>1 DEF Bridges
<1> HIDE DEF l
<1>3. Alike(me[p], x) /\ x.sent = me[p].sent /\ x.ledger = l
  BY <1>1 DEF Alike, Bridges
<1> HIDE DEF x
<1>4. me'[p] = x /\ \A a \in Players : a # p => me'[a] = me[a]
  BY <1>1
<1>5. UNCHANGED <<world, queue, quiet, mine>> /\ acted' = {}
  BY DEF Expire
<1>6. ASSUME NEW a \in Players
      PROVE  /\ Still(me'[a]) /\ Guarded(me'[a], world'[a], mine'[a])
             /\ world'[a].feet = {} => Settled(me'[a], quiet'[a])
             /\ me'[a].ledger[a].contacts = {}
  <2>1. CASE a = p
    BY <1>2, <1>3, <1>4, <1>5, <2>1 DEF Shares, Guarded, Alike, Still, Settled
  <2>2. CASE a # p
    BY <1>4, <1>5, <2>2 DEF Shares
  <2> QED BY <2>1, <2>2
<1>7. OnlyTheRiderActs'
  BY <1>5 DEF OnlyTheRiderActs
<1> QED BY <1>5, <1>6, <1>7 DEF Shares

\* Every step keeps what is invariant of the players, beside Inv.
LEMMA NextShares ==
  ASSUME Inv, Shares, OnlyTheRiderActs, [Next]_vars
  PROVE  Shares' /\ OnlyTheRiderActs'
<1>1. ASSUME NEW p \in Players, NEW hears \in BOOLEAN, NEW paused \in BOOLEAN, NEW runs \in BOOLEAN,
             NEW beat \in BOOLEAN, NEW moves \in SUBSET Plates, NEW q \in Others(p),
             Frame(p, q, hears, paused, runs, beat, moves)
      PROVE  Shares' /\ OnlyTheRiderActs'
  BY <1>1, FrameShares
<1>2. ASSUME NEW p \in Players, NEW k \in Plates, Step(p, k)
      PROVE  Shares' /\ OnlyTheRiderActs'
  BY <1>2, StepShares
<1>3. ASSUME NEW p \in Players, NEW room \in Scenes \cup {None}, Warp(p, room)
      PROVE  Shares' /\ OnlyTheRiderActs'
  BY <1>3, WarpShares DEF Rooms
<1>4. ASSUME NEW p \in Players, ToggleFlags(p)
      PROVE  Shares' /\ OnlyTheRiderActs'
  BY <1>4, ToggleFlagsShares
<1>5. ASSUME NEW p \in Players, NEW lost \in BOOLEAN, Rejoin(p, lost)
      PROVE  Shares' /\ OnlyTheRiderActs'
  BY <1>5, RejoinShares
<1>6. ASSUME NEW p \in Players, NEW q \in Others(p), Expire(p, q)
      PROVE  Shares' /\ OnlyTheRiderActs'
  BY <1>6, ExpireShares
<1>7. ASSUME UNCHANGED vars
      PROVE  Shares' /\ OnlyTheRiderActs'
  BY <1>7 DEF vars, Shares, OnlyTheRiderActs
<1> QED BY <1>1, <1>2, <1>3, <1>4, <1>5, <1>6, <1>7 DEF Next

\* Once nobody stands on a plate and all was run and read, nobody is told of one:
\* what is pressed for a player never comes back to it as its own contact
\* (process_pre_impl samples before it injects); and a demo starts, or a switch is
\* published, only where the plate was pressed, also across a change of the scene
\* and a session that ended (retire_remote_origin).
THEOREM PlatesNeverHoldThemselves == Spec => []PlatesAreShared
<1>1. Init => Inv /\ Shares /\ OnlyTheRiderActs
  BY InitInv, InitShares
<1>2. Inv /\ Shares /\ OnlyTheRiderActs /\ [Next]_vars => (Inv /\ Shares /\ OnlyTheRiderActs)'
  BY NextKeeps, NextShares
<1>3. Inv /\ Shares => NobodyHolds
  <2> SUFFICES ASSUME Inv, Shares, NEW p \in Players, NEW q \in Players,
                      \A r \in Players : /\ world[r].feet = {} /\ quiet[r] = 2
                                         /\ \A o \in Others(r) : queue[r][o] = <<>>
               PROVE  me[p].sent = {} /\ me[q].ledger[p].contacts = {}
    BY DEF NobodyHolds, Drained
  <2>1. me[p].sent = {}
    BY DEF Shares, Settled
  <2>2. CASE q = p
    BY <2>1, <2>2 DEF Shares
  <2>3. CASE q # p
    <3>1. Stream(<<>>, me[p], me[q].ledger[p])
      BY <2>3 DEF Others, Inv, Streams
    <3>2. \A j \in 1 .. Len(<<>>) : FALSE
      OBVIOUS
    <3>3. Kept(me[q].ledger[p], me[p])
      BY <3>1, <3>2 DEF Stream
    <3> QED BY <2>1, <3>3 DEF Kept
  <2> QED BY <2>1, <2>2, <2>3
<1>4. Spec => [](Inv /\ Shares /\ OnlyTheRiderActs)
  BY <1>1, <1>2, PTL DEF Spec
<1>5. Spec => []TypeOK
  BY TypeCorrect
<1>6. Inv /\ Shares /\ OnlyTheRiderActs /\ TypeOK => PlatesAreShared
  BY <1>3 DEF PlatesAreShared
<1> QED BY <1>4, <1>5, <1>6, PTL
=============================================================================
