------------------------ MODULE OwnerSettingsProofs ------------------------
(***************************************************************************)
(* For every set of players, every set of values and every number of       *)
(* changes: a player that is ready uses a value its owner has said, and    *)
(* once all messages are read every member has the value of the one that   *)
(* owns the room.  The first rests on what every message and every player  *)
(* carries; the second on what the notices still unread will make of a     *)
(* player and on which message will bring it the value.                    *)
(***************************************************************************)
EXTENDS OwnerSettings, SequenceLemmas

Messages ==
  [type : {"setting"}, value : Values] \cup [type : {"request"}, value : {Nobody}]
Notices == [type : {"peer_joined", "peer_left", "owner_changed"}, id : Players]

Types ==
  /\ me \in [Players -> [in : BOOLEAN, owner : Players \cup {Nobody},
                         peers : SUBSET Players, value : Values,
                         preferred : Values, ready : BOOLEAN]]
  /\ roster \in Seq(Players)
  /\ owner \in Players \cup {Nobody}
  /\ feed \in [Players -> Seq(Notices)]
  /\ wire \in [Players -> [Players -> Seq(Messages)]]
  /\ said \in [Players -> SUBSET Values]
  /\ changes \in 0..MaxChanges

\* Who owns the room by its own account is ready.
OwnerReady == \A p \in Players : IsOwner(me[p], p) => me[p].ready

\* A member takes somebody for the owner.
OwnerNamed == \A p \in Players : me[p].in => me[p].owner \in Players

\* No message carries a value that its sender never had as owner.
Honest(w, s) ==
  \A q, p \in Players : \A i \in 1 .. Len(w[q][p]) :
    w[q][p][i].type = "setting" => w[q][p][i].value \in s[q]
OnlySaid == Honest(wire, said)

\* The roster lists the members once each, and the owner is one of them.
Listed ==
  /\ \A p \in Players : me[p].in <=> \E i \in 1 .. Len(roster) : roster[i] = p
  /\ \A i, j \in 1 .. Len(roster) : roster[i] = roster[j] => i = j
  /\ IF roster = <<>> THEN owner = Nobody ELSE \E i \in 1 .. Len(roster) : owner = roster[i]

Inv == Types /\ Listed /\ OwnerReady /\ OwnerNamed /\ OnlySaid /\ ReadyMeansTold

Wires == [Players -> [Players -> Seq(Messages)]]
Transports == [in : BOOLEAN, owner : Players \cup {Nobody}, peers : SUBSET Players,
               value : Values, preferred : Values, ready : BOOLEAN]

-----------------------------------------------------------------------------
(***************************************************************************)
(* What is sent keeps the wire honest, and what is said only grows.        *)
(***************************************************************************)

\* What the owner sends is one of its own values.
LEMMA SendHonest ==
  ASSUME NEW w \in Wires, NEW s, Honest(w, s), NEW p \in Players, NEW targets,
         NEW msg \in Messages, msg.type = "setting" => msg.value \in s[p]
  PROVE  Send(w, p, targets, msg) \in Wires /\ Honest(Send(w, p, targets, msg), s)
<1> DEFINE sent == Send(w, p, targets, msg)
<1>1. ASSUME NEW q \in Players, NEW r \in Players
      PROVE  /\ w[q][r] \in Seq(Messages)
             /\ sent[q][r] = IF q = p /\ r \in targets THEN Append(w[q][r], msg) ELSE w[q][r]
             /\ sent[q][r] \in Seq(Messages)
  BY <1>1 DEF Send, Wires
<1>2. sent \in Wires
  BY <1>1 DEF Send, Wires
<1>3. ASSUME NEW q \in Players, NEW r \in Players, NEW i \in 1 .. Len(sent[q][r]),
             sent[q][r][i].type = "setting"
      PROVE  sent[q][r][i].value \in s[q]
  <2>1. CASE q = p /\ r \in targets
    <3>1. sent[q][r] = Append(w[q][r], msg) /\ w[q][r] \in Seq(Messages)
      BY <1>1, <2>1
    <3> HIDE DEF sent
    <3>2. sent[q][r][i] = msg \/ (i \in 1 .. Len(w[q][r]) /\ sent[q][r][i] = w[q][r][i])
      BY <3>1, AppendElements
    <3> QED BY <1>3, <2>1, <3>2 DEF Honest
  <2>2. CASE ~(q = p /\ r \in targets)
    <3>1. sent[q][r] = w[q][r]
      BY <1>1, <2>2
    <3> QED BY <1>3, <3>1 DEF Honest
  <2> QED BY <2>1, <2>2
<1> QED BY <1>2, <1>3 DEF Honest

\* A request says nothing.
LEMMA AskHonest ==
  ASSUME NEW w \in Wires, NEW s, Honest(w, s), NEW p \in Players, NEW t \in Transports
  PROVE  Ask(w, p, t) \in Wires /\ Honest(Ask(w, p, t), s)
<1>1. Request \in Messages /\ Request.type # "setting"
  BY DEF Request, Messages
<1> QED BY <1>1, SendHonest DEF Ask

\* What the owner advertises is its value.
LEMMA AdvertiseHonest ==
  ASSUME NEW w \in Wires, NEW s, Honest(w, s), NEW p \in Players, NEW t \in Transports,
         t.value \in s[p], NEW targets
  PROVE  Advertise(w, p, t, targets) \in Wires /\ Honest(Advertise(w, p, t, targets), s)
<1>1. Setting(t) \in Messages /\ Setting(t).value = t.value
  BY DEF Setting, Messages, Transports
<1> QED BY <1>1, SendHonest DEF Advertise

\* What was said stays said.
LEMMA SaidGrows ==
  ASSUME Types, NEW p \in Players, NEW t \in Transports, Record(p, t)
  PROVE  /\ said' \in [Players -> SUBSET Values]
         /\ t.value \in said'[p]
         /\ \A q \in Players : said[q] \subseteq said'[q]
BY DEF Types, Record, Transports

\* A stream stays honest while more is said.
LEMMA HonestStays ==
  ASSUME NEW w, NEW s, NEW u, Honest(w, s), \A q \in Players : s[q] \subseteq u[q]
  PROVE  Honest(w, u)
BY DEF Honest

\* Emptying, shortening or keeping each queue leaves nothing new on the wire.
LEMMA HonestTail ==
  ASSUME NEW w \in Wires, NEW s, Honest(w, s), NEW q \in Players, NEW p \in Players,
         w[q][p] # <<>>
  PROVE  /\ [w EXCEPT ![q][p] = Tail(@)] \in Wires
         /\ Honest([w EXCEPT ![q][p] = Tail(@)], s)
<1> DEFINE u == [w EXCEPT ![q][p] = Tail(@)]
<1>1. ASSUME NEW a \in Players, NEW b \in Players
      PROVE  /\ w[a][b] \in Seq(Messages)
             /\ u[a][b] = IF a = q /\ b = p THEN Tail(w[a][b]) ELSE w[a][b]
  BY DEF Wires
<1>2. u \in Wires
  BY <1>1, TailElements DEF Wires
<1>3. ASSUME NEW a \in Players, NEW b \in Players, NEW i \in 1 .. Len(u[a][b]),
             u[a][b][i].type = "setting"
      PROVE  u[a][b][i].value \in s[a]
  <2>1. \E j \in 1 .. Len(w[a][b]) : u[a][b][i] = w[a][b][j]
    <3>1. CASE a = q /\ b = p
      <4>1. u[a][b] = Tail(w[a][b]) /\ w[a][b] \in Seq(Messages) /\ w[a][b] # <<>>
        BY <1>1, <3>1
      <4> HIDE DEF u
      <4>2. i \in 1 .. Len(Tail(w[a][b])) /\ u[a][b][i] = Tail(w[a][b])[i]
        BY <1>3, <4>1
      <4> QED BY <4>1, <4>2, TailElements
    <3>2. CASE ~(a = q /\ b = p)
      <4>1. u[a][b] = w[a][b]
        BY <1>1, <3>2
      <4> QED BY <1>3, <4>1
    <3> QED BY <3>1, <3>2
  <2> HIDE DEF u
  <2> QED BY <1>3, <2>1 DEF Honest
<1> QED BY <1>2, <1>3 DEF Honest

-----------------------------------------------------------------------------
(***************************************************************************)
(* One lemma per action.                                                   *)
(***************************************************************************)

\* The invariant holds before anybody is in the room.
LEMMA InitInv ==
  ASSUME OwnerAssumption, Init
  PROVE  Inv
<1>1. Types
  <2>1. me \in [Players -> Transports]
    BY DEF Init, Outside, Transports
  <2> QED BY <2>1 DEF Init, Types, OwnerAssumption, Transports
<1>2. \A p \in Players : ~me[p].in
  BY DEF Init, Outside
<1> QED BY <1>1, <1>2 DEF Init, Inv, Listed, OwnerReady, OwnerNamed, IsOwner, OnlySaid, Honest,
                        ReadyMeansTold

\* Somebody joins.
LEMMA JoinInv ==
  ASSUME OwnerAssumption, Inv, NEW p \in Players, Join(p)
  PROVE  Inv'
<1> DEFINE t == [me[p] EXCEPT !.in = TRUE, !.peers = Members,
                              !.owner = IF roster = <<>> THEN p ELSE owner,
                              !.ready = (roster = <<>>)]
<1> USE DEF Inv
<1>1. /\ me \in [Players -> Transports] /\ roster \in Seq(Players) /\ wire \in Wires
      /\ said \in [Players -> SUBSET Values] /\ feed \in [Players -> Seq(Notices)]
  BY DEF Types, Transports, Wires
<1>2. /\ ~me[p].in /\ me' = [me EXCEPT ![p] = t] /\ roster' = Append(roster, p)
      /\ owner' = t.owner /\ wire' = Ask(wire, p, t)
      /\ IF roster = <<>> THEN Record(p, t) ELSE UNCHANGED said
      /\ changes' = changes
  BY DEF Join
<1>3. t \in Transports
  <2>1. Members \subseteq Players
    BY <1>1 DEF Members, ToSet
  <2>2. (IF roster = <<>> THEN p ELSE owner) \in Players \cup {Nobody}
        /\ me[p] \in Transports /\ (roster = <<>>) \in BOOLEAN
    BY <1>1 DEF Types
  <2>3. ASSUME NEW peers \in SUBSET Players, NEW o \in Players \cup {Nobody}, NEW r \in BOOLEAN
        PROVE  [me[p] EXCEPT !.in = TRUE, !.peers = peers, !.owner = o, !.ready = r] \in Transports
    BY <2>2 DEF Transports
  <2> QED BY <2>1, <2>2, <2>3
<1>4. /\ t.in /\ t.owner = (IF roster = <<>> THEN p ELSE owner)
      /\ t.ready = (roster = <<>>)
  BY <1>1 DEF Transports
<1> HIDE DEF t
<1>5. /\ said' \in [Players -> SUBSET Values]
      /\ \A q \in Players : said[q] \subseteq said'[q]
      /\ roster = <<>> => t.value \in said'[p]
  BY <1>1, <1>2, <1>3, SaidGrows
<1>6. /\ roster' \in Seq(Players) /\ Len(roster') = Len(roster) + 1
      /\ \A i \in 1 .. Len(roster) + 1 : roster'[i] = IF i = Len(roster) + 1 THEN p ELSE roster[i]
  BY <1>1, <1>2, AppendElements
<1>7. p \notin {roster[i] : i \in 1 .. Len(roster)}
  BY <1>2 DEF Listed
<1>8. Types'
  <2>1. feed' \in [Players -> Seq(Notices)]
    <3>1. [type |-> "peer_joined", id |-> p] \in Notices
      BY DEF Notices
    <3>2. feed' = [q \in Players |-> IF q \in Members
                    THEN Append(feed[q], [type |-> "peer_joined", id |-> p]) ELSE feed[q]]
      BY DEF Join
    <3> QED BY <1>1, <3>1, <3>2, AppendElements
  <2>2. wire' \in Wires
    BY <1>1, <1>2, <1>3, AskHonest DEF OnlySaid
  <2>3. me' \in [Players -> Transports]
    BY <1>1, <1>2, <1>3
  <2>4. owner' \in Players \cup {Nobody}
    BY <1>2, <1>3 DEF Transports
  <2> QED BY <1>2, <1>5, <1>6, <2>1, <2>2, <2>3, <2>4 DEF Types, Transports, Wires
<1>9. Listed'
  <2>1. \A q \in Players : me'[q].in <=> \E i \in 1 .. Len(roster') : roster'[i] = q
    BY <1>1, <1>2, <1>4, <1>6 DEF Listed
  <2>2. \A i, j \in 1 .. Len(roster') : roster'[i] = roster'[j] => i = j
    <3>1. Len(roster) \in Nat
      BY <1>1
    <3>2. ASSUME NEW i \in 1 .. Len(roster'), NEW j \in 1 .. Len(roster'), roster'[i] = roster'[j]
          PROVE  i = j
      <4>1. CASE i \in 1 .. Len(roster) /\ j \in 1 .. Len(roster)
        BY <1>6, <3>1, <3>2, <4>1 DEF Listed
      <4>2. CASE i = Len(roster) + 1 \/ j = Len(roster) + 1
        BY <1>6, <1>7, <3>1, <3>2, <4>2
      <4> QED BY <1>6, <3>1, <4>1, <4>2
    <3> QED BY <3>2
  <2>3. roster' # <<>> /\ \E i \in 1 .. Len(roster') : owner' = roster'[i]
    <3>1. CASE roster = <<>>
      BY <1>2, <1>4, <1>6, <3>1
    <3>2. CASE roster # <<>>
      <4>1. PICK i \in 1 .. Len(roster) : owner = roster[i]
        BY <3>2 DEF Listed
      <4>2. i \in 1 .. Len(roster') /\ roster'[i] = roster[i]
        BY SMTT(30), <1>1, <1>6
      <4> QED BY <1>1, <1>2, <1>4, <1>6, <3>2, <4>1, <4>2
    <3> QED BY <3>1, <3>2
  <2> QED BY <2>1, <2>2, <2>3 DEF Listed
<1>10. OwnerReady'
  <2>1. roster # <<>> => owner # p
    BY <1>7 DEF Listed
  <2> QED BY <1>1, <1>2, <1>4, <2>1 DEF OwnerReady, IsOwner
<1>11. OnlySaid'
  BY <1>1, <1>2, <1>3, <1>5, AskHonest, HonestStays DEF OnlySaid
<1>12. ReadyMeansTold'
  <2>1. \A q \in Players : q # p => me'[q] = me[q]
    BY <1>1, <1>2
  <2>2. me'[p] = t
    BY <1>1, <1>2
  <2> QED BY <1>4, <1>5, <2>1, <2>2 DEF ReadyMeansTold, OwnerNamed
<1>13. OwnerNamed'
  <2>1. roster # <<>> => owner \in Players
    BY <1>1 DEF Listed
  <2> QED BY <1>1, <1>2, <1>4, <2>1 DEF OwnerNamed
<1> QED BY <1>8, <1>9, <1>10, <1>11, <1>12, <1>13

\* Somebody departs, perhaps the owner.
LEMMA DepartInv ==
  ASSUME OwnerAssumption, Inv, NEW p \in Players, Depart(p)
  PROVE  Inv'
<1> DEFINE at == CHOOSE i \in DOMAIN roster : roster[i] = p
           rest == RemoveAt(roster, at)
           next == IF owner # p THEN owner ELSE IF rest = <<>> THEN Nobody ELSE Head(rest)
           left == <<[type |-> "peer_left", id |-> p]>> \o
                   IF next # owner THEN <<[type |-> "owner_changed", id |-> next]>> ELSE <<>>
<1> USE DEF Inv
<1>1. /\ me \in [Players -> Transports] /\ roster \in Seq(Players) /\ wire \in Wires
      /\ said \in [Players -> SUBSET Values] /\ feed \in [Players -> Seq(Notices)]
      /\ owner \in Players \cup {Nobody} /\ changes \in 0 .. MaxChanges
  BY DEF Types, Transports, Wires
<1>2. /\ me[p].in /\ me' = [me EXCEPT ![p].in = FALSE] /\ roster' = rest
      /\ owner' = next /\ said' = said /\ changes' = changes
      /\ feed' = [q \in Players |-> IF q = p THEN <<>>
                    ELSE IF q \in ToSet(rest) THEN feed[q] \o left ELSE feed[q]]
  BY DEF Depart
<1>3. PICK lost \in SUBSET Players :
        wire' = [q \in Players |-> [r \in Players |->
                   IF r = p \/ (q = p /\ r \in lost) THEN <<>> ELSE wire[q][r]]]
  BY DEF Depart
<1>4. at \in 1 .. Len(roster) /\ roster[at] = p
  BY <1>1, <1>2, SMTT(30) DEF Listed
<1> HIDE DEF at
<1>5. /\ rest \in Seq(Players) /\ Len(rest) = Len(roster) - 1
      /\ \A i \in 1 .. Len(roster) - 1 : rest[i] = IF i < at THEN roster[i] ELSE roster[i + 1]
  BY <1>1, <1>4, RemoveAtElements
<1> HIDE DEF rest
<1>6. Len(roster) \in Nat /\ at \in Nat
  BY <1>1, <1>4
<1>7. \A i \in 1 .. Len(rest) : \E j \in 1 .. Len(roster) : j # at /\ rest[i] = roster[j]
  <2>1. ASSUME NEW i \in 1 .. Len(rest)
        PROVE  \E j \in 1 .. Len(roster) : j # at /\ rest[i] = roster[j]
    <3>1. CASE i < at
      BY <1>5, <1>6, <3>1
    <3>2. CASE ~(i < at)
      <4>1. i + 1 \in 1 .. Len(roster) /\ i + 1 # at /\ rest[i] = roster[i + 1]
        BY <1>5, <1>6, <3>2
      <4> QED BY <4>1
    <3> QED BY <3>1, <3>2
  <2> QED BY <2>1
<1>8. \A j \in 1 .. Len(roster) : j # at => \E i \in 1 .. Len(rest) : rest[i] = roster[j]
  <2>1. ASSUME NEW j \in 1 .. Len(roster), j # at
        PROVE  \E i \in 1 .. Len(rest) : rest[i] = roster[j]
    <3>1. CASE j < at
      BY <1>4, <1>5, <1>6, <3>1
    <3>2. CASE j > at
      <4>1. j - 1 \in 1 .. Len(rest) /\ rest[j - 1] = roster[(j - 1) + 1] /\ (j - 1) + 1 = j
        BY <1>4, <1>5, <1>6, <3>2
      <4> QED BY <4>1
    <3> QED BY <1>6, <2>1, <3>1, <3>2
  <2> QED BY <2>1
<1>9. \A q \in Players : (\E i \in 1 .. Len(rest) : rest[i] = q) <=> (me[q].in /\ q # p)
  <2>1. ASSUME NEW i \in 1 .. Len(rest), rest[i] \in Players
        PROVE  me[rest[i]].in /\ rest[i] # p
    <3>1. PICK j \in 1 .. Len(roster) : j # at /\ rest[i] = roster[j]
      BY <1>7
    <3> QED BY <1>4, <2>1, <3>1 DEF Listed
  <2>2. ASSUME NEW q \in Players, me[q].in, q # p
        PROVE  \E i \in 1 .. Len(rest) : rest[i] = q
    <3>1. PICK j \in 1 .. Len(roster) : roster[j] = q
      BY <2>2 DEF Listed
    <3> QED BY <1>4, <1>8, <2>2, <3>1
  <2> QED BY <2>1, <2>2
<1>10. /\ next \in Players \cup {Nobody}
       /\ rest = <<>> => next = Nobody
       /\ rest # <<>> => next \in Players /\ \E i \in 1 .. Len(rest) : rest[i] = next
  <2>1. rest # <<>> => 1 \in 1 .. Len(rest) /\ Head(rest) = rest[1] /\ Head(rest) \in Players
    BY <1>5
  <2>2. owner # p /\ roster # <<>> => \E i \in 1 .. Len(rest) : rest[i] = owner
    <3>1. ASSUME owner # p, roster # <<>>
          PROVE  \E i \in 1 .. Len(rest) : rest[i] = owner
      <4>1. PICK j \in 1 .. Len(roster) : owner = roster[j]
        BY <3>1 DEF Listed
      <4> QED BY <1>4, <1>8, <3>1, <4>1
    <3> QED BY <3>1
  <2>3. roster # <<>>
    BY <1>1, <1>4
  <2>4. owner # p => rest # <<>>
    BY <2>2, <2>3
  <2>5. \A i \in 1 .. Len(rest) : rest[i] \in Players
    BY <1>5
  <2> QED BY <1>1, <2>1, <2>2, <2>3, <2>4, <2>5
<1> HIDE DEF next
<1>11. \A q \in Players : /\ me'[q] \in Transports
                          /\ me'[q].in <=> (me[q].in /\ q # p)
                          /\ me'[q].owner = me[q].owner
                          /\ me'[q].ready = me[q].ready /\ me'[q].value = me[q].value
  <2>1. ASSUME NEW q \in Players, q # p
        PROVE  me'[q] = me[q]
    BY <1>1, <1>2, <2>1
  <2>2. me'[p] = [me[p] EXCEPT !.in = FALSE] /\ me[p] \in Transports
    BY <1>1, <1>2
  <2>3. /\ me'[p] \in Transports /\ ~me'[p].in /\ me'[p].owner = me[p].owner
        /\ me'[p].ready = me[p].ready /\ me'[p].value = me[p].value
    BY <2>2 DEF Transports
  <2> QED BY <1>1, <2>1, <2>3
<1>12. \A q, r \in Players : wire'[q][r] = <<>> \/ wire'[q][r] = wire[q][r]
  BY <1>3
<1>13. Types'
  <2>1. me' \in [Players -> Transports]
    BY <1>1, <1>2, <1>11
  <2>2. wire' \in Wires
    BY <1>1, <1>3 DEF Wires
  <2>3. feed' \in [Players -> Seq(Notices)]
    <3>1. ASSUME NEW q \in Players, q \in ToSet(rest)
          PROVE  feed[q] \o left \in Seq(Notices)
      <4>1. rest # <<>>
        BY <1>5, <3>1 DEF ToSet
      <4>2. /\ [type |-> "peer_left", id |-> p] \in Notices
            /\ [type |-> "owner_changed", id |-> next] \in Notices
        BY <1>10, <4>1 DEF Notices
      <4>3. left \in Seq(Notices)
        BY <4>2
      <4> HIDE DEF left
      <4> QED BY <1>1, <4>3
    <3>2. <<>> \in Seq(Notices)
      OBVIOUS
    <3> HIDE DEF left
    <3> QED BY <1>1, <1>2, <3>1, <3>2
  <2> QED BY <1>1, <1>2, <1>5, <1>10, <2>1, <2>2, <2>3 DEF Types, Transports, Wires
<1>14. Listed'
  <2>1. \A i, j \in 1 .. Len(rest) : rest[i] = rest[j] => i = j
    <3>1. ASSUME NEW i \in 1 .. Len(rest), NEW j \in 1 .. Len(rest), rest[i] = rest[j]
          PROVE  i = j
      <4>1. /\ i \in Nat /\ j \in Nat /\ i \in 1 .. Len(roster) - 1 /\ j \in 1 .. Len(roster) - 1
            /\ i \in 1 .. Len(roster) /\ j \in 1 .. Len(roster)
            /\ i + 1 \in 1 .. Len(roster) /\ j + 1 \in 1 .. Len(roster)
        BY <1>5, <1>6
      <4>2. /\ rest[i] = IF i < at THEN roster[i] ELSE roster[i + 1]
            /\ rest[j] = IF j < at THEN roster[j] ELSE roster[j + 1]
        BY <1>5, <4>1
      <4>3. \A k, l \in 1 .. Len(roster) : roster[k] = roster[l] => k = l
        BY DEF Listed
      <4>4. CASE i < at /\ j < at
        BY <3>1, <4>1, <4>2, <4>3, <4>4
      <4>5. CASE ~(i < at) /\ ~(j < at)
        <5>1. i + 1 = j + 1
          BY <3>1, <4>1, <4>2, <4>3, <4>5
        <5> QED BY <4>1, <5>1
      <4>6. CASE i < at /\ ~(j < at)
        <5>1. i = j + 1
          BY <3>1, <4>1, <4>2, <4>3, <4>6
        <5> QED BY <1>6, <4>1, <4>6, <5>1
      <4>7. CASE ~(i < at) /\ j < at
        <5>1. i + 1 = j
          BY <3>1, <4>1, <4>2, <4>3, <4>7
        <5> QED BY <1>6, <4>1, <4>7, <5>1
      <4> QED BY <4>4, <4>5, <4>6, <4>7
    <3> QED BY <3>1
  <2>2. \A q \in Players : me'[q].in <=> \E i \in 1 .. Len(rest) : rest[i] = q
    BY <1>9, <1>11
  <2> QED BY <1>2, <1>10, <2>1, <2>2 DEF Listed
<1>15. OwnerReady'
  BY <1>11 DEF OwnerReady, IsOwner
<1>16. OwnerNamed'
  BY <1>11 DEF OwnerNamed
<1>17. OnlySaid'
  BY <1>2, <1>12 DEF OnlySaid, Honest
<1>18. ReadyMeansTold'
  BY <1>2, <1>11 DEF ReadyMeansTold
<1> QED BY <1>13, <1>14, <1>15, <1>16, <1>17, <1>18

\* A player hears another.
LEMMA PeerMessageInv ==
  ASSUME OwnerAssumption, Inv, NEW p \in Players, NEW q \in Players, PeerMessage(q, p)
  PROVE  Inv'
<1> DEFINE msg == Head(wire[q][p])
           w == [wire EXCEPT ![q][p] = Tail(@)]
<1> USE DEF Inv
<1>1. /\ me \in [Players -> Transports] /\ wire \in Wires /\ wire[q][p] \in Seq(Messages)
      /\ me[p] \in Transports
  BY ZenonT(30) DEF Types, Transports, Wires
<1>2. /\ me[p].in /\ wire[q][p] # <<>>
      /\ IF msg.type = "request" THEN wire' = OnRequest(w, p, q) /\ me' = me
         ELSE wire' = w /\ me' = [me EXCEPT ![p] = OnSetting(@, q, msg.value)]
      /\ roster' = roster /\ owner' = owner /\ feed' = feed /\ said' = said /\ changes' = changes
  BY DEF PeerMessage
<1>3. /\ msg \in Messages
      /\ msg.type = "setting" => msg.value \in said[q]
  BY <1>1, <1>2, TailElements, SMTT(30) DEF OnlySaid, Honest
<1>4. w \in Wires /\ Honest(w, said)
  BY <1>1, <1>2, HonestTail DEF OnlySaid
<1> HIDE DEF msg, w
<1>5. CASE msg.type = "request"
  <2>1. IsOwner(me[p], p) => me[p].value \in said[p]
    BY <1>1 DEF OwnerReady, ReadyMeansTold, IsOwner
  <2>2. wire' \in Wires /\ Honest(wire', said)
    BY <1>1, <1>2, <1>4, <1>5, <2>1, AdvertiseHonest DEF OnRequest
  <2>3. me' = me
    BY <1>2, <1>5
  <2> QED BY <1>2, <2>2, <2>3
      DEF Types, Wires, Listed, OwnerReady, OwnerNamed, OnlySaid, ReadyMeansTold
<1>6. CASE msg.type # "request"
  <2>1. msg.type = "setting" /\ msg.value \in Values /\ msg.value \in said[q]
    BY <1>3, <1>6 DEF Messages
  <2>2. /\ OnSetting(me[p], q, msg.value) \in Transports
        /\ OnSetting(me[p], q, msg.value).in = me[p].in
        /\ OnSetting(me[p], q, msg.value).owner = me[p].owner
        /\ me[p].ready => OnSetting(me[p], q, msg.value).ready
        /\ \/ OnSetting(me[p], q, msg.value) = me[p]
           \/ me[p].owner = q /\ OnSetting(me[p], q, msg.value).value = msg.value
    BY <1>1, <2>1 DEF OnSetting, Transports
  <2>3. me' \in [Players -> Transports] /\ me'[p] = OnSetting(me[p], q, msg.value)
        /\ \A r \in Players : r # p => me'[r] = me[r]
    BY <1>1, <1>2, <1>6, <2>2
  <2>4. wire' = w
    BY <1>2, <1>6
  <2>5. Types'
    BY <1>2, <1>4, <2>3, <2>4 DEF Types, Wires, Transports
  <2>6. Listed'
    BY <1>2, <2>2, <2>3, ZenonT(30) DEF Listed
  <2>7. OwnerReady' /\ OwnerNamed'
    BY <2>2, <2>3 DEF OwnerReady, OwnerNamed, IsOwner
  <2>8. OnlySaid'
    BY <1>2, <1>4, <2>4 DEF OnlySaid
  <2>9. ReadyMeansTold'
    BY <1>2, <2>1, <2>2, <2>3 DEF ReadyMeansTold
  <2> QED BY <2>5, <2>6, <2>7, <2>8, <2>9
<1> QED BY <1>5, <1>6

\* Only the owner's own transport changes the value, and what it says is recorded.
LEMMA PublishInv ==
  ASSUME OwnerAssumption, Inv, NEW p \in Players, NEW value \in Values, Publish(p, value)
  PROVE  Inv'
<1> DEFINE t == [me[p] EXCEPT !.value = value, !.preferred = value, !.ready = TRUE]
<1> USE DEF Inv
<1>1. /\ me \in [Players -> Transports] /\ wire \in Wires /\ me[p] \in Transports
  BY DEF Types, Transports, Wires
<1>2. /\ me[p].in /\ me[p].owner = p /\ changes < MaxChanges /\ changes' = changes + 1
      /\ me' = [me EXCEPT ![p] = t] /\ wire' = Advertise(wire, p, t, t.peers)
      /\ Record(p, t)
      /\ roster' = roster /\ owner' = owner /\ feed' = feed
  BY DEF Publish, Chosen, IsOwner
<1>3. /\ t \in Transports /\ t.in = me[p].in /\ t.owner = p /\ t.ready /\ t.value = value
  BY <1>1, <1>2 DEF Transports
<1> HIDE DEF t
<1>4. /\ said' \in [Players -> SUBSET Values] /\ t.value \in said'[p]
      /\ \A q \in Players : said[q] \subseteq said'[q]
  BY <1>2, <1>3, SaidGrows
<1>5. wire' \in Wires /\ Honest(wire', said')
  BY <1>1, <1>2, <1>3, <1>4, HonestStays, AdvertiseHonest DEF OnlySaid
<1>6. me' \in [Players -> Transports] /\ me'[p] = t /\ \A q \in Players : q # p => me'[q] = me[q]
  BY <1>1, <1>2, <1>3
<1>7. Types'
  <2>1. changes' \in 0 .. MaxChanges
    BY <1>2 DEF Types, OwnerAssumption
  <2> QED BY <1>2, <1>4, <1>5, <1>6, <2>1 DEF Types, Transports, Wires
<1>8. Listed' /\ OwnerReady' /\ OwnerNamed'
  <2>1. Listed'
    BY <1>2, <1>3, <1>6, ZenonT(30) DEF Listed
  <2>2. OwnerReady'
    BY <1>3, <1>6 DEF OwnerReady, IsOwner
  <2>3. OwnerNamed'
    BY <1>2, <1>3, <1>6 DEF OwnerNamed
  <2> QED BY <2>1, <2>2, <2>3
<1>9. ReadyMeansTold'
  BY <1>3, <1>4, <1>6 DEF ReadyMeansTold, OwnerNamed
<1> QED BY <1>5, <1>7, <1>8, <1>9 DEF OnlySaid

\* A player hears the server.
LEMMA ServerMessageInv ==
  ASSUME OwnerAssumption, Inv, NEW p \in Players, ServerMessage(p)
  PROVE  Inv'
<1> DEFINE msg == Head(feed[p])
           t == CASE msg.type = "peer_joined" -> [me[p] EXCEPT !.peers = @ \cup {msg.id}]
                  [] msg.type = "peer_left" -> [me[p] EXCEPT !.peers = @ \ {msg.id}]
                  [] msg.type = "owner_changed" -> OnOwnerChanged(me[p], p, msg.id)
           w == [wire EXCEPT ![msg.id][p] = IF msg.type = "peer_left" THEN <<>> ELSE @]
           named == msg.type = "owner_changed" /\ msg.id = p
<1> USE DEF Inv
<1>1. /\ me \in [Players -> Transports] /\ wire \in Wires /\ me[p] \in Transports
      /\ feed \in [Players -> Seq(Notices)] /\ said \in [Players -> SUBSET Values]
  BY DEF Types, Transports, Wires
<1>2. /\ me[p].in /\ feed[p] # <<>>
      /\ me' = [me EXCEPT ![p] = t]
      /\ wire' = IF msg.type # "owner_changed" THEN w
                 ELSE IF msg.id = p THEN Advertise(wire, p, t, t.peers) ELSE Ask(wire, p, t)
      /\ IF named THEN Record(p, t) ELSE said' = said
      /\ feed' = [feed EXCEPT ![p] = Tail(@)]
      /\ roster' = roster /\ owner' = owner /\ changes' = changes
  BY DEF ServerMessage
<1>3. msg \in Notices
  BY <1>1, <1>2, TailElements
<1>4. /\ msg.id \in Players
      /\ msg.type \in {"peer_joined", "peer_left", "owner_changed"}
  BY <1>3 DEF Notices
<1> HIDE DEF msg
<1>5. /\ t \in Transports /\ t.in = me[p].in /\ t.owner \in Players
      /\ IF msg.type = "owner_changed"
         THEN t.owner = msg.id /\ t.ready = (msg.id = p)
         ELSE t.owner = me[p].owner /\ t.ready = me[p].ready /\ t.value = me[p].value
  <2>1. CASE msg.type = "peer_joined"
    <3>1. t = [me[p] EXCEPT !.peers = @ \cup {msg.id}]
      BY <2>1
    <3> QED BY <1>1, <1>2, <1>4, <2>1, <3>1 DEF Transports, OwnerNamed
  <2>2. CASE msg.type = "peer_left"
    <3>1. t = [me[p] EXCEPT !.peers = @ \ {msg.id}]
      BY <2>2
    <3> QED BY <1>1, <1>2, <1>4, <2>2, <3>1 DEF Transports, OwnerNamed
  <2>3. CASE msg.type = "owner_changed"
    <3>1. t = OnOwnerChanged(me[p], p, msg.id)
      BY <2>3
    <3> QED BY <1>1, <1>4, <2>3, <3>1 DEF OnOwnerChanged, Transports
  <2> QED BY <1>4, <2>1, <2>2, <2>3
<1> HIDE DEF t
<1>6. /\ said' \in [Players -> SUBSET Values]
      /\ \A q \in Players : said[q] \subseteq said'[q]
      /\ named => t.value \in said'[p]
  <2>1. CASE named
    BY <1>2, <1>5, <2>1, SaidGrows
  <2>2. CASE ~named
    BY <1>1, <1>2, <2>2
  <2> QED BY <2>1, <2>2
<1>7. wire' \in Wires /\ Honest(wire', said')
  <2>1. Honest(wire, said')
    BY <1>6, HonestStays DEF OnlySaid
  <2>2. CASE msg.type # "owner_changed"
    <3>1. wire' = w
      BY <1>2, <2>2
    <3>2. \A q, r \in Players : w[q][r] = <<>> \/ w[q][r] = wire[q][r]
      BY <1>1, <1>4 DEF Wires
    <3>3. w \in Wires
      BY <1>1, <1>4 DEF Wires
    <3> QED BY <2>1, <3>1, <3>2, <3>3 DEF Honest
  <2>3. CASE msg.type = "owner_changed" /\ msg.id = p
    BY <1>1, <1>2, <1>5, <1>6, <2>1, <2>3, AdvertiseHonest
  <2>4. CASE msg.type = "owner_changed" /\ msg.id # p
    BY <1>1, <1>2, <1>5, <2>1, <2>4, AskHonest
  <2> QED BY <2>2, <2>3, <2>4
<1>8. me' \in [Players -> Transports] /\ me'[p] = t /\ \A q \in Players : q # p => me'[q] = me[q]
  BY <1>1, <1>2, <1>5
<1>9. Types'
  <2>1. feed' \in [Players -> Seq(Notices)]
    BY <1>1, <1>2, TailElements
  <2> QED BY <1>2, <1>6, <1>7, <1>8, <2>1 DEF Types, Transports, Wires
<1>10. Listed'
  BY <1>2, <1>5, <1>8, ZenonT(30) DEF Listed
<1>11. OwnerReady' /\ OwnerNamed'
  <2>1. /\ \A q \in Players : IsOwner(me[q], q) => me[q].ready
        /\ \A q \in Players : me[q].in => me[q].owner \in Players
    BY DEF OwnerReady, OwnerNamed
  <2>2. IsOwner(t, p) => t.ready
    <3>1. CASE msg.type = "owner_changed"
      BY <1>5, <3>1 DEF IsOwner
    <3>2. CASE msg.type # "owner_changed"
      BY <1>5, <2>1, <3>2 DEF IsOwner
    <3> QED BY <3>1, <3>2
  <2>3. \A q \in Players : IsOwner(me'[q], q) => me'[q].ready
    BY <1>8, <2>1, <2>2
  <2>4. \A q \in Players : me'[q].in => me'[q].owner \in Players
    BY <1>5, <1>8, <2>1
  <2> QED BY <2>3, <2>4 DEF OwnerReady, OwnerNamed, IsOwner
<1>12. ReadyMeansTold'
  <2>1. t.in /\ t.ready => t.value \in said'[t.owner]
    BY <1>2, <1>5, <1>6 DEF ReadyMeansTold, OwnerNamed
  <2> QED BY <1>6, <1>8, <2>1 DEF ReadyMeansTold, OwnerNamed
<1> QED BY <1>7, <1>9, <1>10, <1>11, <1>12 DEF OnlySaid

-----------------------------------------------------------------------------

\* Every step keeps the invariant.
LEMMA NextInv ==
  ASSUME OwnerAssumption, Inv, [Next]_vars
  PROVE  Inv'
<1>1. CASE UNCHANGED vars
  BY <1>1 DEF vars, Inv, Types, Listed, OwnerReady, OwnerNamed, OnlySaid, ReadyMeansTold
<1>2. CASE Next
  BY <1>2, JoinInv, DepartInv, ServerMessageInv, PeerMessageInv, PublishInv DEF Next
<1> QED BY <1>1, <1>2

\* The states are well formed and every player that owns the room by its own
\* account is ready, so an owner that is asked always has an answer
\* (send_save_recovery_setting_to, send_voice_settings_to).
THEOREM TypeCorrect == OwnerAssumption /\ Spec => []TypeOK
<1> SUFFICES ASSUME OwnerAssumption PROVE Spec => []TypeOK
  OBVIOUS
<1>1. Init => Inv
  BY InitInv
<1>2. Inv /\ [Next]_vars => Inv'
  BY NextInv
<1>3. Inv => TypeOK
  BY DEF Inv, Types, OwnerReady, TypeOK
<1> QED BY <1>1, <1>2, <1>3, PTL DEF Spec

\* Whoever owns the room and in whatever order the server's and the players'
\* messages cross: a member that is ready uses a value its owner has said.
THEOREM ReadyIsTold == OwnerAssumption /\ Spec => []ReadyMeansTold
<1> SUFFICES ASSUME OwnerAssumption PROVE Spec => []ReadyMeansTold
  OBVIOUS
<1>1. Init => Inv
  BY InitInv
<1>2. Inv /\ [Next]_vars => Inv'
  BY NextInv
<1>3. Inv => ReadyMeansTold
  BY DEF Inv
<1> QED BY <1>1, <1>2, <1>3, PTL DEF Spec

-----------------------------------------------------------------------------
(***************************************************************************)
(* Where a value still owed to a player is.  What a player has been told   *)
(* lags behind the room, so the invariant says what the notices it has not *)
(* read will make of it, and which message will bring it the value.        *)
(***************************************************************************)

\* The notices name another owner.
Renames(s) == \E i \in 1 .. Len(s) : s[i].type = "owner_changed"

\* x is admitted by the time the i-th notice is read.
Admitted(peers, s, i, x) ==
  x \in peers \/ \E j \in 1 .. i - 1 : s[j].type = "peer_joined" /\ s[j].id = x

Asked(s) == \E i \in 1 .. Len(s) : s[i].type = "request"
Told(s) == \E i \in 1 .. Len(s) : s[i].type = "setting"

\* What was told last is the value.
EndsWith(s, value) ==
  \A i \in 1 .. Len(s) :
    s[i].type = "setting" /\ (\A j \in i + 1 .. Len(s) : s[j].type # "setting")
      => s[i].value = value

\* A membership begins once and does not begin again.
Came(p) == me[p].owner # Nobody
Member(p) == me[p].in

\* The notices are true of what happened: they tell of others, never of a
\* member that it left, and nobody is told of a room it is not in.
Truthful ==
  \A p \in Players :
    /\ \A x \in me[p].peers : Came(x) /\ x # p
    /\ Came(p) => Came(me[p].owner)
    /\ ~Member(p) => feed[p] = <<>>
    /\ \A i \in 1 .. Len(feed[p]) :
         /\ Came(feed[p][i].id)
         /\ feed[p][i].type = "peer_joined" => feed[p][i].id # p
         /\ feed[p][i].type = "peer_left" => ~Member(feed[p][i].id)

\* Every member is admitted by every other once the notices are read.
AllAdmitted ==
  \A p, x \in Players : Member(p) /\ Member(x) /\ p # x =>
    Admitted(me[p].peers, feed[p], Len(feed[p]) + 1, x)

\* The last owner a player is told of is the owner, those before have gone.
OwnersInOrder ==
  \A p \in Players : \A i \in 1 .. Len(feed[p]) : feed[p][i].type = "owner_changed" =>
    IF \E j \in i + 1 .. Len(feed[p]) : feed[p][j].type = "owner_changed"
    THEN ~Member(feed[p][i].id) ELSE feed[p][i].id = owner

\* Who is told of no other owner has the right one, and an owner that is still
\* there is not replaced.
OwnerKnown ==
  \A p \in Players : Member(p) =>
    /\ ~Renames(feed[p]) => me[p].owner = owner
    /\ Member(me[p].owner) => ~Renames(feed[p])

\* A player is told of an owner after it was told of the player.
OwnerAdmitted ==
  \A p \in Players : \A i \in 1 .. Len(feed[p]) :
    feed[p][i].type = "owner_changed" /\ Member(feed[p][i].id) /\ feed[p][i].id # p =>
      Admitted(me[p].peers, feed[p], i, feed[p][i].id)

NoticesInv == Truthful /\ AllAdmitted /\ OwnersInOrder /\ OwnerKnown /\ OwnerAdmitted

\* Nobody has written to a player that has not come yet.
Unwritten == \A p, q \in Players : ~Came(p) => wire[q][p] = <<>>

\* Only who takes itself for the owner says its value.
OnlyOwnersTell == \A q, p \in Players : me[q].owner # q => ~Told(wire[q][p])

\* What the owner told a member last is its value; it told only those it admitted.
ToldLatest ==
  \A q, p \in Players : IsOwner(me[q], q) /\ Member(p) /\ p # q =>
    /\ EndsWith(wire[q][p], me[q].value)
    /\ p \notin me[q].peers => ~Told(wire[q][p])

\* The value of the owner q has arrived at p, or it is on its way, or it was asked
\* for, or a notice will make p ask or q tell.
Due(q, p) ==
  \/ Asked(wire[p][q])
  \/ /\ me[q].owner = q
     /\ \/ Renames(feed[p])
        \/ /\ p \in me[q].peers
           /\ Told(wire[q][p]) \/ (me[p].ready /\ me[p].value = me[q].value)
  \/ /\ me[q].owner # q
     /\ \A i \in 1 .. Len(feed[q]) :
          feed[q][i].type = "owner_changed" /\ feed[q][i].id = q =>
            Admitted(me[q].peers, feed[q], i, p)
OnItsWay ==
  \A q, p \in Players : q = owner /\ Member(q) /\ Member(p) /\ p # q => Due(q, p)

WireInv == Unwritten /\ OnlyOwnersTell /\ ToldLatest /\ OnItsWay

\* u begins with s.
Extends(u, s) == Len(u) >= Len(s) /\ \A i \in 1 .. Len(s) : u[i] = s[i]

\* A notice that is read took its effect on the peers.
LEMMA AdmittedTail ==
  ASSUME NEW s \in Seq(Notices), s # <<>>, NEW i \in 1 .. Len(s), NEW x,
         NEW peers, NEW after, Admitted(peers, s, i + 1, x),
         Head(s).type = "peer_joined" /\ Head(s).id = x => x \in after,
         x \in peers => x \in after
  PROVE  Admitted(after, Tail(s), i, x)
<1>1. CASE x \in peers \/ (Head(s).type = "peer_joined" /\ Head(s).id = x)
  BY <1>1 DEF Admitted
<1>2. CASE ~(x \in peers \/ (Head(s).type = "peer_joined" /\ Head(s).id = x))
  <2>1. PICK j \in 1 .. (i + 1) - 1 : s[j].type = "peer_joined" /\ s[j].id = x
    BY <1>2 DEF Admitted
  <2>2. Len(s) \in Nat /\ Len(Tail(s)) = Len(s) - 1 /\ Head(s) = s[1]
    OBVIOUS
  <2>3. j # 1
    BY <1>2, <2>1, <2>2
  <2>4. j - 1 \in 1 .. i - 1 /\ j - 1 \in 1 .. Len(Tail(s)) /\ (j - 1) + 1 = j
    BY <2>2, <2>3
  <2>5. Tail(s)[j - 1] = s[j]
    BY <2>4, TailElements
  <2> QED BY <2>1, <2>4, <2>5 DEF Admitted
<1> QED BY <1>1, <1>2

\* What is added leaves the notices before it in place.
LEMMA ExtendsFacts ==
  ASSUME NEW s \in Seq(Notices), NEW u \in Seq(Notices), Extends(u, s)
  PROVE  /\ Len(s) \in Nat /\ Len(u) \in Nat /\ Len(s) <= Len(u)
         /\ \A i \in 1 .. Len(s) : i \in 1 .. Len(u) /\ u[i] = s[i]
         /\ Renames(s) => Renames(u)
<1>1. Len(s) \in Nat /\ Len(u) \in Nat /\ Len(s) <= Len(u)
  BY DEF Extends
<1>2. \A i \in 1 .. Len(s) : i \in 1 .. Len(u) /\ u[i] = s[i]
  BY <1>1 DEF Extends
<1> QED BY <1>1, <1>2 DEF Renames

\* More notices and more peers take nothing away.
LEMMA AdmittedGrows ==
  ASSUME NEW s \in Seq(Notices), NEW u \in Seq(Notices), Extends(u, s),
         NEW i \in 1 .. Len(s) + 1, NEW k \in Nat, i <= k, NEW x, NEW peers,
         Admitted(peers, s, i, x)
  PROVE  Admitted(peers, u, k, x)
<1>1. CASE x \in peers
  BY <1>1 DEF Admitted
<1>2. CASE x \notin peers
  <2>1. PICK j \in 1 .. i - 1 : s[j].type = "peer_joined" /\ s[j].id = x
    BY <1>2 DEF Admitted
  <2>2. j \in 1 .. k - 1 /\ j \in 1 .. Len(s)
    OBVIOUS
  <2> QED BY <2>1, <2>2 DEF Admitted, Extends
<1> QED BY <1>1, <1>2

\* The first notice finds the peers as they are.
LEMMA AdmittedFirst ==
  ASSUME NEW peers, NEW s, NEW x, Admitted(peers, s, 1, x)
  PROVE  x \in peers
BY DEF Admitted

\* What a queue of notices becomes when the first is read.
LEMMA NoticeRead ==
  ASSUME NEW s \in Seq(Notices), s # <<>>
  PROVE  /\ Tail(s) \in Seq(Notices) /\ Len(Tail(s)) = Len(s) - 1 /\ Len(s) \in Nat \ {0}
         /\ Head(s) = s[1] /\ Head(s) \in Notices
         /\ \A i \in 1 .. Len(Tail(s)) : i + 1 \in 1 .. Len(s) /\ Tail(s)[i] = s[i + 1]
         /\ Renames(Tail(s)) => Renames(s)
         /\ Head(s).type # "owner_changed" => (Renames(Tail(s)) <=> Renames(s))
         /\ Renames(Tail(s)) <=> \E j \in 2 .. Len(s) : s[j].type = "owner_changed"
<1>1. /\ Tail(s) \in Seq(Notices) /\ Len(Tail(s)) = Len(s) - 1 /\ Len(s) \in Nat \ {0}
      /\ Head(s) = s[1] /\ Head(s) \in Notices
  OBVIOUS
<1>2. \A i \in 1 .. Len(Tail(s)) : i + 1 \in 1 .. Len(s) /\ Tail(s)[i] = s[i + 1]
  BY TailElements
<1>3. ASSUME Renames(Tail(s)) PROVE \E j \in 2 .. Len(s) : s[j].type = "owner_changed"
  <2>1. PICK i \in 1 .. Len(Tail(s)) : Tail(s)[i].type = "owner_changed"
    BY <1>3 DEF Renames
  <2>2. i + 1 \in 2 .. Len(s) /\ s[i + 1].type = "owner_changed"
    BY <1>1, <1>2, <2>1
  <2> QED BY <2>2
<1>4. ASSUME NEW j \in 2 .. Len(s), s[j].type = "owner_changed" PROVE Renames(Tail(s))
  <2>1. j - 1 \in 1 .. Len(Tail(s)) /\ (j - 1) + 1 = j
    BY <1>1
  <2>2. Tail(s)[j - 1].type = "owner_changed"
    BY <1>2, <1>4, <2>1
  <2> QED BY <2>1, <2>2 DEF Renames
<1>5. Renames(Tail(s)) => Renames(s)
  <2>1. \A j \in 2 .. Len(s) : j \in 1 .. Len(s)
    BY <1>1
  <2> QED BY <1>3, <2>1 DEF Renames
<1>6. Head(s).type # "owner_changed" /\ Renames(s) => Renames(Tail(s))
  <2>1. \A j \in 1 .. Len(s) : j = 1 \/ j \in 2 .. Len(s)
    BY <1>1
  <2> QED BY <1>1, <1>4, <2>1 DEF Renames
<1> QED BY <1>1, <1>2, <1>3, <1>4, <1>5, <1>6

\* A message more on the wire.
LEMMA WireAppend ==
  ASSUME NEW s \in Seq(Messages), NEW m \in Messages
  PROVE  /\ Append(s, m) \in Seq(Messages)
         /\ Asked(s) => Asked(Append(s, m))
         /\ Told(s) => Told(Append(s, m))
         /\ m.type = "request" => /\ Asked(Append(s, m))
                                  /\ Told(Append(s, m)) => Told(s)
                                  /\ \A v : EndsWith(s, v) => EndsWith(Append(s, m), v)
         /\ m.type = "setting" => Told(Append(s, m)) /\ EndsWith(Append(s, m), m.value)
<1> DEFINE u == Append(s, m)
<1>1. /\ u \in Seq(Messages) /\ Len(u) = Len(s) + 1 /\ Len(s) \in Nat
      /\ \A i \in 1 .. Len(u) : u[i] = IF i = Len(u) THEN m ELSE s[i]
  BY AppendElements
<1> HIDE DEF u
<1>2. \A i \in 1 .. Len(s) : i \in 1 .. Len(u) /\ i # Len(u) /\ u[i] = s[i]
  BY <1>1
<1>3. Len(u) \in 1 .. Len(u) /\ u[Len(u)] = m
  BY <1>1
<1>4. \A i \in 1 .. Len(u) : i = Len(u) \/ i \in 1 .. Len(s)
  BY <1>1
<1>5. (Asked(s) => Asked(u)) /\ (Told(s) => Told(u))
  BY <1>2 DEF Asked, Told
<1>6. ASSUME m.type = "request"
      PROVE  Asked(u) /\ (Told(u) => Told(s)) /\ \A v : EndsWith(s, v) => EndsWith(u, v)
  <2>1. Asked(u) /\ (Told(u) => Told(s))
    BY <1>2, <1>3, <1>4, <1>6 DEF Asked, Told
  <2>2. ASSUME NEW v, EndsWith(s, v), NEW i \in 1 .. Len(u), u[i].type = "setting",
               \A j \in i + 1 .. Len(u) : u[j].type # "setting"
        PROVE  u[i].value = v
    <3>1. i \in 1 .. Len(s) /\ u[i] = s[i]
      BY <1>2, <1>3, <1>4, <1>6, <2>2
    <3>2. ASSUME NEW j \in i + 1 .. Len(s)
          PROVE  s[j].type # "setting"
      <4>1. j \in 1 .. Len(s) /\ j \in i + 1 .. Len(u)
        BY <1>1, <3>2
      <4> QED BY <1>2, <2>2, <4>1
    <3> QED BY <2>2, <3>1, <3>2 DEF EndsWith
  <2> QED BY <2>1, <2>2 DEF EndsWith
<1>7. ASSUME m.type = "setting"
      PROVE  Told(u) /\ EndsWith(u, m.value)
  <2>1. Told(u)
    BY <1>3, <1>7 DEF Told
  <2>2. ASSUME NEW i \in 1 .. Len(u), u[i].type = "setting",
               \A j \in i + 1 .. Len(u) : u[j].type # "setting"
        PROVE  u[i].value = m.value
    <3>1. i # Len(u) => Len(u) \in i + 1 .. Len(u)
      BY <1>1, <2>2
    <3> QED BY <1>3, <1>7, <2>2, <3>1
  <2> QED BY <2>1, <2>2 DEF EndsWith
<1> QED BY <1>1, <1>5, <1>6, <1>7 DEF u

\* A message read off the wire.
LEMMA WireTail ==
  ASSUME NEW s \in Seq(Messages), s # <<>>
  PROVE  /\ Tail(s) \in Seq(Messages)
         /\ Told(Tail(s)) => Told(s)
         /\ \A v : EndsWith(s, v) => EndsWith(Tail(s), v)
         /\ Head(s).type = "request" /\ Told(s) => Told(Tail(s))
         /\ Head(s).type = "setting" =>
              /\ Told(s)
              /\ Asked(s) => Asked(Tail(s))
              /\ \A v : EndsWith(s, v) => Told(Tail(s)) \/ Head(s).value = v
<1> DEFINE u == Tail(s)
<1>1. /\ u \in Seq(Messages) /\ Len(u) = Len(s) - 1 /\ Len(s) \in Nat \ {0}
      /\ Head(s) = s[1] /\ 1 \in 1 .. Len(s)
  OBVIOUS
<1>2. \A i \in 1 .. Len(u) : i + 1 \in 1 .. Len(s) /\ u[i] = s[i + 1]
  BY TailElements
<1> HIDE DEF u
<1>3. \A j \in 1 .. Len(s) : j = 1 \/ (j - 1 \in 1 .. Len(u) /\ u[j - 1] = s[j])
  <2>1. ASSUME NEW j \in 1 .. Len(s), j # 1
        PROVE  j - 1 \in 1 .. Len(u) /\ u[j - 1] = s[j]
    <3>1. j - 1 \in 1 .. Len(u) /\ (j - 1) + 1 = j
      BY <1>1, <2>1
    <3> QED BY <1>2, <3>1
  <2> QED BY <2>1
<1>4. Told(u) => Told(s)
  BY <1>2 DEF Told
<1>5. ASSUME NEW v, EndsWith(s, v), NEW i \in 1 .. Len(u), u[i].type = "setting",
             \A j \in i + 1 .. Len(u) : u[j].type # "setting"
      PROVE  u[i].value = v
  <2>1. i + 1 \in 1 .. Len(s) /\ u[i] = s[i + 1]
    BY <1>2
  <2>2. ASSUME NEW j \in (i + 1) + 1 .. Len(s)
        PROVE  s[j].type # "setting"
    <3>1. j \in 1 .. Len(s) /\ j # 1 /\ j - 1 \in i + 1 .. Len(u)
      BY <1>1, <2>2
    <3> QED BY <1>3, <1>5, <3>1
  <2> QED BY <1>5, <2>1, <2>2 DEF EndsWith
<1>6. Head(s).type = "request" /\ Told(s) => Told(u)
  BY <1>1, <1>3 DEF Told
<1>7. ASSUME Head(s).type = "setting"
      PROVE  /\ Told(s)
             /\ Asked(s) => Asked(u)
             /\ \A v : EndsWith(s, v) => Told(u) \/ Head(s).value = v
  <2>1. Told(s) /\ (Asked(s) => Asked(u))
    BY <1>1, <1>3, <1>7 DEF Told, Asked
  <2>2. ASSUME NEW v, EndsWith(s, v), ~Told(u)
        PROVE  Head(s).value = v
    <3>1. ASSUME NEW j \in 1 + 1 .. Len(s)
          PROVE  s[j].type # "setting"
      <4>1. j \in 1 .. Len(s) /\ j # 1
        BY <1>1, <3>1
      <4> QED BY <1>3, <2>2, <4>1 DEF Told
    <3> QED BY <1>1, <1>7, <2>2, <3>1 DEF EndsWith
  <2> QED BY <2>1, <2>2
<1> QED BY <1>1, <1>4, <1>5, <1>6, <1>7 DEF u, EndsWith

\* Nothing on the wire.
LEMMA WireEmpty ==
  ~Asked(<<>>) /\ ~Told(<<>>) /\ \A v : EndsWith(<<>>, v)
BY DEF Asked, Told, EndsWith

-----------------------------------------------------------------------------
(***************************************************************************)
(* What each action does to the notices.                                   *)
(***************************************************************************)

\* A member other than p, before and after p's transport changes.
Others(p) == \A x \in Players : x # p => me'[x] = me[x]

\* What the types say of the notices and of the members.
LEMMA Shapes ==
  ASSUME OwnerAssumption, Inv
  PROVE  /\ \A x \in Players : feed[x] \in Seq(Notices)
         /\ \A x \in Players : me[x].peers \subseteq Players
         /\ \A x \in Players : me[x].owner \in Players \cup {Nobody}
         /\ \A x \in Players : \A i \in 1 .. Len(feed[x]) :
              feed[x][i] \in Notices /\ feed[x][i].id \in Players
         /\ \A x \in Players : Member(x) => me[x].owner \in Players /\ Came(x)
         /\ Nobody \notin Players /\ owner \in Players \cup {Nobody}
<1>1. \A x \in Players : feed[x] \in Seq(Notices)
  BY DEF Inv, Types
<1>2. ASSUME NEW x \in Players, NEW i \in 1 .. Len(feed[x])
      PROVE  feed[x][i] \in Notices /\ feed[x][i].id \in Players
  <2>1. feed[x] \in Seq(Notices)
    BY <1>1
  <2>2. feed[x][i] \in Notices
    BY <2>1
  <2> QED BY <2>2 DEF Notices
<1> QED BY <1>1, <1>2 DEF Inv, Types, OwnerNamed, Member, Came, OwnerAssumption

\* Who joins admits the members, and each of them is told.
LEMMA JoinFacts ==
  ASSUME OwnerAssumption, Inv, Truthful, NEW p \in Players, Join(p)
  PROVE  /\ ~Member(p) /\ ~Came(p) /\ Others(p)
         /\ me'[p].in /\ me'[p].peers = {x \in Players : Member(x)}
         /\ me'[p].owner = owner' /\ me'[p].owner \in Players
         /\ roster = <<>> => owner' = p /\ \A x \in Players : ~Member(x)
         /\ roster # <<>> => owner' = owner /\ Member(owner) /\ owner # p
         /\ feed[p] = <<>> /\ feed'[p] = <<>>
         /\ \A x \in Players : IF Member(x)
              THEN feed'[x] = Append(feed[x], [type |-> "peer_joined", id |-> p])
              ELSE feed'[x] = feed[x]
         /\ wire' = Ask(wire, p, me'[p])
<1> DEFINE t == [me[p] EXCEPT !.in = TRUE, !.peers = Members,
                              !.owner = IF roster = <<>> THEN p ELSE owner,
                              !.ready = (roster = <<>>)]
<1> USE DEF Inv
<1>1. /\ me \in [Players -> Transports] /\ roster \in Seq(Players)
      /\ feed \in [Players -> Seq(Notices)]
  BY DEF Types, Transports
<1>2. /\ ~me[p].in /\ me[p].owner = Nobody /\ me' = [me EXCEPT ![p] = t]
      /\ roster' = Append(roster, p) /\ owner' = t.owner /\ wire' = Ask(wire, p, t)
      /\ feed' = [q \in Players |-> IF q \in Members
                    THEN Append(feed[q], [type |-> "peer_joined", id |-> p]) ELSE feed[q]]
  BY DEF Join
<1>3. Members = {roster[i] : i \in 1 .. Len(roster)}
  BY <1>1 DEF Members, ToSet
<1>4. Members = {x \in Players : Member(x)}
  <2>1. \A i \in 1 .. Len(roster) : roster[i] \in Players
    BY <1>1
  <2>2. \A x \in Players : Member(x) <=> \E i \in 1 .. Len(roster) : roster[i] = x
    BY DEF Listed, Member
  <2> QED BY <1>3, <2>1, <2>2
<1>5. /\ t.in /\ t.peers = Members /\ t.owner = IF roster = <<>> THEN p ELSE owner
  BY <1>1 DEF Transports
<1>6. me'[p] = t /\ Others(p)
  BY <1>1, <1>2 DEF Others
<1> HIDE DEF t
<1>7. roster = <<>> => \A x \in Players : ~Member(x)
  BY <1>1 DEF Listed, Member
<1>8. roster # <<>> => Member(owner) /\ owner \in Players
  BY <1>1 DEF Listed, Member
<1>9. feed[p] = <<>>
  BY <1>2 DEF Truthful, Member
<1>10. p \notin Members
  BY <1>2, <1>4 DEF Member
<1> QED BY <1>1, <1>2, <1>4, <1>5, <1>6, <1>7, <1>8, <1>9, <1>10 DEF Member, Came

\* Who departs leaves word with the members that stay, and another owner if it was that.
LEMMA DepartFacts ==
  ASSUME OwnerAssumption, Inv, Inv', NEW p \in Players, Depart(p)
  PROVE  /\ Member(p) /\ Others(p)
         /\ ~me'[p].in /\ me'[p].owner = me[p].owner /\ me'[p].peers = me[p].peers
         /\ feed'[p] = <<>>
         /\ \A x \in Players : x # p /\ ~Member(x) => feed'[x] = feed[x]
         /\ owner # p => owner' = owner
         /\ \A x \in Players : x # p /\ Member(x) =>
              /\ owner' \in Players /\ me'[owner'].in /\ (owner = p => owner' # owner)
              /\ feed'[x] = feed[x] \o
                   (<<[type |-> "peer_left", id |-> p]>> \o
                    IF owner = p THEN <<[type |-> "owner_changed", id |-> owner']>> ELSE <<>>)
         /\ \A q, x \in Players :
              /\ wire'[q][x] = wire[q][x] \/ (wire'[q][x] = <<>> /\ p \in {q, x})
              /\ p \notin {q, x} => wire'[q][x] = wire[q][x]
<1> DEFINE at == CHOOSE i \in DOMAIN roster : roster[i] = p
           rest == RemoveAt(roster, at)
           next == IF owner # p THEN owner ELSE IF rest = <<>> THEN Nobody ELSE Head(rest)
           left == <<[type |-> "peer_left", id |-> p]>> \o
                   IF next # owner THEN <<[type |-> "owner_changed", id |-> next]>> ELSE <<>>
<1>1. /\ me \in [Players -> Transports] /\ roster \in Seq(Players)
      /\ feed \in [Players -> Seq(Notices)] /\ roster' \in Seq(Players)
  BY DEF Inv, Types, Transports
<1>2. /\ me[p].in /\ me' = [me EXCEPT ![p].in = FALSE] /\ roster' = rest
      /\ owner' = next
      /\ feed' = [q \in Players |-> IF q = p THEN <<>>
                    ELSE IF q \in ToSet(rest) THEN feed[q] \o left ELSE feed[q]]
  BY DEF Depart
<1>3. PICK lost \in SUBSET Players :
        wire' = [q \in Players |-> [r \in Players |->
                   IF r = p \/ (q = p /\ r \in lost) THEN <<>> ELSE wire[q][r]]]
  BY DEF Depart
<1>4. owner # p => owner' = owner
  BY <1>2
<1> HIDE DEF rest
<1>5. ToSet(rest) = {rest[i] : i \in 1 .. Len(rest)}
  <2>1. rest \in Seq(Players)
    BY <1>1, <1>2
  <2> QED BY <2>1 DEF ToSet
<1>6. \A x \in Players : x \in ToSet(rest) <=> me'[x].in
  BY <1>2, <1>5 DEF Inv, Listed
<1>7. /\ Others(p) /\ ~me'[p].in /\ me'[p].owner = me[p].owner /\ me'[p].peers = me[p].peers
  BY <1>1, <1>2 DEF Others, Transports
<1>8. ASSUME NEW x \in Players, x # p, Member(x)
      PROVE  /\ x \in ToSet(rest) /\ owner' \in Players /\ me'[owner'].in
             /\ owner = p => owner' # owner
  <2>1. me'[x].in
    BY <1>7, <1>8 DEF Others, Member
  <2>2. x \in ToSet(rest)
    BY <1>6, <2>1
  <2>3. roster' # <<>>
    BY <1>2, <1>5, <2>2
  <2>4. owner' \in Players /\ me'[owner'].in
    BY <1>1, <2>3 DEF Inv, Listed
  <2> QED BY <1>7, <2>2, <2>4
<1> HIDE DEF next
<1>9. ASSUME NEW x \in Players, x # p, Member(x)
      PROVE  feed'[x] = feed[x] \o
                   (<<[type |-> "peer_left", id |-> p]>> \o
                    IF owner = p THEN <<[type |-> "owner_changed", id |-> owner']>> ELSE <<>>)
  <2>1. (next # owner) <=> (owner = p)
    BY <1>2, <1>4, <1>8, <1>9
  <2> QED BY <1>2, <1>8, <1>9, <2>1
<1>10. ASSUME NEW x \in Players, x # p, ~Member(x) PROVE feed'[x] = feed[x]
  <2>1. x \notin ToSet(rest)
    BY <1>6, <1>7, <1>10 DEF Others, Member
  <2> QED BY <1>2, <1>10, <2>1
<1>11. ASSUME NEW q \in Players, NEW x \in Players
       PROVE  /\ wire'[q][x] = wire[q][x] \/ (wire'[q][x] = <<>> /\ p \in {q, x})
              /\ p \notin {q, x} => wire'[q][x] = wire[q][x]
  BY <1>3
<1>12. \A x \in Players : x # p /\ Member(x) =>
          /\ owner' \in Players /\ me'[owner'].in /\ (owner = p => owner' # owner)
  BY <1>8
<1>13. feed'[p] = <<>> /\ Member(p)
  BY <1>2 DEF Member
<1> QED BY <1>4, <1>7, <1>9, <1>10, <1>11, <1>12, <1>13 DEF Member

-----------------------------------------------------------------------------
(***************************************************************************)
(* The notices stay true and complete.                                     *)
(***************************************************************************)

\* What is added to the notices when somebody joins.
LEMMA JoinFeeds ==
  ASSUME OwnerAssumption, Inv, Inv', Truthful, NEW p \in Players, Join(p), NEW x \in Players
  PROVE  LET word == [type |-> "peer_joined", id |-> p] IN
         /\ Extends(feed'[x], feed[x]) /\ Len(feed[x]) \in Nat
         /\ \A i \in 1 .. Len(feed'[x]) :
              \/ i \in 1 .. Len(feed[x]) /\ feed'[x][i] = feed[x][i]
              \/ Member(x) /\ i = Len(feed[x]) + 1 /\ feed'[x][i] = word
         /\ Member(x) => Len(feed'[x]) = Len(feed[x]) + 1 /\ feed'[x][Len(feed[x]) + 1] = word
<1> DEFINE word == [type |-> "peer_joined", id |-> p]
<1>1. IF Member(x) THEN feed'[x] = Append(feed[x], word) ELSE feed'[x] = feed[x]
  BY JoinFacts
<1>2. feed[x] \in Seq(Notices) /\ feed'[x] \in Seq(Notices)
  BY DEF Inv, Types
<1>3. word \in Notices
  BY DEF Notices
<1>4. CASE Member(x)
  <2>1. /\ Len(feed'[x]) = Len(feed[x]) + 1 /\ Len(feed[x]) \in Nat
        /\ \A i \in 1 .. Len(feed[x]) + 1 :
             feed'[x][i] = IF i = Len(feed[x]) + 1 THEN word ELSE feed[x][i]
    BY SMTT(30), <1>1, <1>2, <1>3, <1>4, AppendElements
  <2> QED BY <1>4, <2>1, SMTT(30) DEF Extends
<1>5. CASE ~Member(x)
  BY <1>1, <1>2, <1>5 DEF Extends
<1> QED BY <1>4, <1>5

\* Somebody joins.
LEMMA JoinNotices ==
  ASSUME OwnerAssumption, Inv, Inv', NoticesInv, NEW p \in Players, Join(p)
  PROVE  NoticesInv'
<1> DEFINE word == [type |-> "peer_joined", id |-> p]
<1>1. /\ ~Member(p) /\ ~Came(p) /\ Others(p)
      /\ me'[p].in /\ me'[p].peers = {x \in Players : Member(x)}
      /\ me'[p].owner = owner' /\ me'[p].owner \in Players
      /\ roster = <<>> => owner' = p /\ \A x \in Players : ~Member(x)
      /\ roster # <<>> => owner' = owner /\ Member(owner) /\ owner # p
      /\ feed[p] = <<>> /\ feed'[p] = <<>>
      /\ \A x \in Players : IF Member(x) THEN feed'[x] = Append(feed[x], word)
                            ELSE feed'[x] = feed[x]
  BY JoinFacts DEF NoticesInv
<1>2. /\ \A x \in Players : feed[x] \in Seq(Notices) /\ feed'[x] \in Seq(Notices)
      /\ \A x \in Players : me[x].peers \subseteq Players
      /\ \A x \in Players : \A i \in 1 .. Len(feed[x]) :
           feed[x][i] \in Notices /\ feed[x][i].id \in Players
      /\ \A x \in Players : Member(x) => me[x].owner \in Players /\ Came(x)
      /\ Nobody \notin Players /\ owner \in Players \cup {Nobody}
  BY Shapes DEF Inv, Types
<1>3. \A x \in Players : Came(x) => x # p /\ me'[x].owner # Nobody /\ (me'[x].in <=> Member(x))
  BY <1>1 DEF Others, Came, Member
<1>4. ASSUME NEW x \in Players
      PROVE  /\ Extends(feed'[x], feed[x]) /\ Len(feed[x]) \in Nat
             /\ \A i \in 1 .. Len(feed'[x]) :
                  \/ i \in 1 .. Len(feed[x]) /\ feed'[x][i] = feed[x][i]
                  \/ Member(x) /\ i = Len(feed[x]) + 1 /\ feed'[x][i] = word
             /\ Member(x) => Len(feed'[x]) = Len(feed[x]) + 1 /\ feed'[x][Len(feed[x]) + 1] = word
  BY JoinFeeds DEF NoticesInv
<1>5. word.type = "peer_joined" /\ word.id = p
  OBVIOUS
<1> HIDE DEF word
<1>6. Truthful'
  <2>1. ASSUME NEW x \in Players
        PROVE  /\ \A a \in me'[x].peers : me'[a].owner # Nobody /\ a # x
               /\ me'[x].owner # Nobody => me'[me'[x].owner].owner # Nobody
               /\ ~me'[x].in => feed'[x] = <<>>
    <3>1. CASE x = p
      <4>1. me'[p].owner # Nobody /\ (owner' # p => Came(owner') /\ owner' \in Players)
        BY <1>1, <1>2
      <4> QED BY <1>1, <1>2, <1>3, <3>1, <4>1 DEF Came, Member
    <3>2. CASE x # p
      <4>1. me'[x] = me[x] /\ (~Member(x) => feed'[x] = feed[x])
        BY <1>1, <3>2 DEF Others
      <4>2. /\ \A a \in me[x].peers : a \in Players /\ Came(a) /\ a # x
            /\ Came(x) => Came(me[x].owner) /\ me[x].owner \in Players
            /\ ~Member(x) => feed[x] = <<>>
        BY <1>2 DEF NoticesInv, Truthful, Inv, Types, Came
      <4> QED BY <1>3, <4>1, <4>2 DEF Came, Member
    <3> QED BY <3>1, <3>2
  <2>2. ASSUME NEW x \in Players, NEW i \in 1 .. Len(feed'[x])
        PROVE  /\ me'[feed'[x][i].id].owner # Nobody
               /\ feed'[x][i].type = "peer_joined" => feed'[x][i].id # x
               /\ feed'[x][i].type = "peer_left" => ~me'[feed'[x][i].id].in
    <3>1. CASE i \in 1 .. Len(feed[x]) /\ feed'[x][i] = feed[x][i]
      BY <1>2, <1>3, <3>1 DEF NoticesInv, Truthful
    <3>2. CASE Member(x) /\ feed'[x][i] = word
      BY <1>1, <1>2, <1>5, <3>2 DEF Came
    <3> QED BY <1>4, <3>1, <3>2
  <2> QED BY <2>1, <2>2 DEF Truthful, Came, Member
<1>7. AllAdmitted'
  <2>1. ASSUME NEW a \in Players, NEW x \in Players, me'[a].in, me'[x].in, a # x
        PROVE  Admitted(me'[a].peers, feed'[a], Len(feed'[a]) + 1, x)
    <3>1. CASE a = p
      BY <1>1, <2>1, <3>1 DEF Admitted, Others, Member
    <3>2. CASE a # p /\ x = p
      <4>1. Member(a)
        BY <1>1, <2>1, <3>2 DEF Others, Member
      <4>2. Len(feed'[a]) \in 1 .. (Len(feed'[a]) + 1) - 1
        BY <1>4, <4>1
      <4> QED BY <1>4, <1>5, <3>2, <4>1, <4>2 DEF Admitted
    <3>3. CASE a # p /\ x # p
      <4>1. Member(a) /\ Member(x) /\ me'[a] = me[a]
        BY <1>1, <2>1, <3>3 DEF Others, Member
      <4>2. Admitted(me[a].peers, feed[a], Len(feed[a]) + 1, x)
        BY <2>1, <4>1 DEF NoticesInv, AllAdmitted
      <4>3. /\ Len(feed[a]) + 1 \in 1 .. Len(feed[a]) + 1 /\ Len(feed'[a]) + 1 \in Nat
            /\ Len(feed[a]) + 1 <= Len(feed'[a]) + 1
        BY <1>4, <4>1
      <4>4. Extends(feed'[a], feed[a]) /\ feed[a] \in Seq(Notices) /\ feed'[a] \in Seq(Notices)
        BY <1>2, <1>4
      <4>5. Admitted(me[a].peers, feed'[a], Len(feed'[a]) + 1, x)
        BY <4>2, <4>3, <4>4, AdmittedGrows
      <4> QED BY <4>1, <4>5
    <3> QED BY <3>1, <3>2, <3>3
  <2> QED BY <2>1 DEF AllAdmitted, Member
<1>8. ASSUME NEW x \in Players, NEW i \in 1 .. Len(feed'[x]), feed'[x][i].type = "owner_changed"
      PROVE  /\ i \in 1 .. Len(feed[x]) /\ feed'[x][i] = feed[x][i]
             /\ feed'[x][i].id \in Players /\ Came(feed'[x][i].id) /\ Member(x) /\ owner' = owner
  <2>1. i \in 1 .. Len(feed[x]) /\ feed'[x][i] = feed[x][i]
    BY <1>4, <1>5, <1>8
  <2>2. Member(x)
    BY <2>1 DEF NoticesInv, Truthful
  <2> QED BY <1>1, <1>2, <2>1, <2>2 DEF NoticesInv, Truthful
<1>9. OwnersInOrder'
  <2>1. ASSUME NEW x \in Players, NEW i \in 1 .. Len(feed'[x]), feed'[x][i].type = "owner_changed"
        PROVE  IF \E j \in i + 1 .. Len(feed'[x]) : feed'[x][j].type = "owner_changed"
               THEN ~me'[feed'[x][i].id].in ELSE feed'[x][i].id = owner'
    <3>1. CASE \E j \in i + 1 .. Len(feed'[x]) : feed'[x][j].type = "owner_changed"
      <4>1. PICK j \in i + 1 .. Len(feed'[x]) : feed'[x][j].type = "owner_changed"
        BY <3>1
      <4>2. j \in 1 .. Len(feed'[x])
        BY <1>2
      <4>3. j \in 1 .. Len(feed[x]) /\ feed[x][j].type = "owner_changed"
        BY <1>8, <4>1, <4>2
      <4>4. j \in i + 1 .. Len(feed[x])
        BY <4>3
      <4>5. ~Member(feed[x][i].id)
        BY <1>8, <2>1, <4>3, <4>4 DEF NoticesInv, OwnersInOrder
      <4> QED BY <1>3, <1>8, <2>1, <3>1, <4>5
    <3>2. CASE ~\E j \in i + 1 .. Len(feed'[x]) : feed'[x][j].type = "owner_changed"
      <4>1. ASSUME NEW j \in i + 1 .. Len(feed[x]) PROVE feed[x][j].type # "owner_changed"
        <5>1. j \in 1 .. Len(feed[x]) /\ j \in i + 1 .. Len(feed'[x])
          BY <1>2, <1>4, <2>1 DEF Extends
        <5> QED BY <1>4, <3>2, <5>1 DEF Extends
      <4>2. feed[x][i].id = owner
        BY <1>8, <2>1, <4>1 DEF NoticesInv, OwnersInOrder
      <4> QED BY <1>8, <2>1, <3>2, <4>2
    <3> QED BY <3>1, <3>2
  <2> QED BY <2>1 DEF OwnersInOrder, Member
<1>10. OwnerKnown'
  <2>1. ASSUME NEW x \in Players, me'[x].in
        PROVE  /\ ~Renames(feed'[x]) => me'[x].owner = owner'
               /\ me'[me'[x].owner].in => ~Renames(feed'[x])
    <3>1. CASE x = p
      BY <1>1, <3>1 DEF Renames
    <3>2. CASE x # p
      <4>1. Member(x) /\ me'[x] = me[x] /\ owner' = owner
        BY <1>1, <2>1, <3>2 DEF Others, Member
      <4>2. Renames(feed'[x]) <=> Renames(feed[x])
        <5>1. Renames(feed[x]) => Renames(feed'[x])
          BY <1>2, <1>4, ExtendsFacts
        <5>2. Renames(feed'[x]) => Renames(feed[x])
          BY <1>8 DEF Renames
        <5> QED BY <5>1, <5>2
      <4>3. me[x].owner \in Players /\ Came(me[x].owner)
        BY <1>2, <4>1 DEF NoticesInv, Truthful
      <4>4. me'[me[x].owner].in <=> Member(me[x].owner)
        BY <1>3, <4>3
      <4> QED BY <4>1, <4>2, <4>4 DEF NoticesInv, OwnerKnown, Member
    <3> QED BY <3>1, <3>2
  <2> QED BY <2>1 DEF OwnerKnown, Member
<1>11. OwnerAdmitted'
  <2>1. ASSUME NEW x \in Players, NEW i \in 1 .. Len(feed'[x]), feed'[x][i].type = "owner_changed",
               me'[feed'[x][i].id].in, feed'[x][i].id # x
        PROVE  Admitted(me'[x].peers, feed'[x], i, feed'[x][i].id)
    <3>1. /\ i \in 1 .. Len(feed[x]) /\ feed'[x][i] = feed[x][i] /\ Member(feed[x][i].id)
          /\ me'[x] = me[x]
      BY <1>1, <1>3, <1>8, <2>1 DEF Others
    <3>2. Admitted(me[x].peers, feed[x], i, feed[x][i].id)
      BY <2>1, <3>1 DEF NoticesInv, OwnerAdmitted
    <3>3. i \in 1 .. Len(feed[x]) + 1 /\ i \in Nat /\ i <= i
      BY <1>4, <3>1
    <3> QED BY <1>2, <1>4, <3>1, <3>2, <3>3, AdmittedGrows
  <2> QED BY <2>1 DEF OwnerAdmitted, Member
<1> QED BY <1>6, <1>7, <1>9, <1>10, <1>11 DEF NoticesInv

\* What is added to the notices when somebody departs.
LEMMA DepartFeeds ==
  ASSUME OwnerAssumption, Inv, Inv', Truthful, NEW p \in Players, Depart(p), NEW x \in Players
  PROVE  LET word == [type |-> "peer_left", id |-> p]
             next == [type |-> "owner_changed", id |-> owner'] IN
         /\ Member(x) /\ x # p =>
              /\ Extends(feed'[x], feed[x]) /\ Len(feed[x]) \in Nat
              /\ Len(feed'[x]) = Len(feed[x]) + IF owner = p THEN 2 ELSE 1
              /\ feed'[x][Len(feed[x]) + 1] = word
              /\ owner = p => feed'[x][Len(feed[x]) + 2] = next
         /\ \A i \in 1 .. Len(feed'[x]) :
              /\ Member(x) /\ x # p
              /\ \/ i \in 1 .. Len(feed[x]) /\ feed'[x][i] = feed[x][i]
                 \/ i = Len(feed[x]) + 1 /\ feed'[x][i] = word
                 \/ owner = p /\ i = Len(feed[x]) + 2 /\ i = Len(feed'[x]) /\ feed'[x][i] = next
<1> DEFINE word == [type |-> "peer_left", id |-> p]
           next == [type |-> "owner_changed", id |-> owner']
           more == <<word>> \o IF owner = p THEN <<next>> ELSE <<>>
<1>1. /\ feed'[p] = <<>>
      /\ x # p /\ ~Member(x) => feed'[x] = feed[x]
      /\ x # p /\ Member(x) => owner' \in Players /\ feed'[x] = feed[x] \o more
  BY ZenonT(30), DepartFacts
<1>2. feed[x] \in Seq(Notices) /\ Len(feed[x]) \in Nat
  BY DEF Inv, Types
<1>3. ASSUME Member(x), x # p
      PROVE  /\ Extends(feed'[x], feed[x]) /\ Len(feed[x]) \in Nat
             /\ Len(feed'[x]) = Len(feed[x]) + IF owner = p THEN 2 ELSE 1
             /\ feed'[x][Len(feed[x]) + 1] = word
             /\ owner = p => feed'[x][Len(feed[x]) + 2] = next
  <2>1. word \in Notices /\ next \in Notices
    BY <1>1, <1>3 DEF Notices
  <2>2. feed'[x] = feed[x] \o more /\ feed[x] \in Seq(Notices) /\ Len(feed[x]) \in Nat
    BY <1>1, <1>2, <1>3
  <2>3. CASE owner = p
    <3>1. more \in Seq(Notices) /\ Len(more) = 2 /\ more[1] = word /\ more[2] = next
      BY <2>1, <2>3
    <3> HIDE DEF more, word, next
    <3>2. /\ Len(feed'[x]) = Len(feed[x]) + 2
          /\ \A i \in 1 .. Len(feed'[x]) :
               \/ i \in 1 .. Len(feed[x]) /\ feed'[x][i] = feed[x][i]
               \/ i - Len(feed[x]) \in 1 .. 2 /\ feed'[x][i] = more[i - Len(feed[x])]
      <4> DEFINE old == feed[x]
                 both == old \o more
      <4>1. old \in Seq(Notices) /\ feed'[x] = both
        BY <2>2
      <4> HIDE DEF old
      <4>2. /\ Len(both) = Len(old) + Len(more)
            /\ \A i \in 1 .. Len(both) :
                 \/ i \in 1 .. Len(old) /\ both[i] = old[i]
                 \/ i - Len(old) \in 1 .. Len(more) /\ both[i] = more[i - Len(old)]
        BY <3>1, <4>1, ConcatElements
      <4> HIDE DEF both
      <4> QED BY <3>1, <4>1, <4>2 DEF old
    <3>3. /\ \A i \in 1 .. Len(feed[x]) : i \in 1 .. Len(feed'[x]) /\ i - Len(feed[x]) \notin 1 .. 2
          /\ Len(feed[x]) + 1 \in 1 .. Len(feed'[x]) /\ Len(feed[x]) + 1 \notin 1 .. Len(feed[x])
          /\ Len(feed[x]) + 2 \in 1 .. Len(feed'[x]) /\ Len(feed[x]) + 2 \notin 1 .. Len(feed[x])
          /\ Len(feed[x]) + 1 - Len(feed[x]) = 1 /\ Len(feed[x]) + 2 - Len(feed[x]) = 2
          /\ Len(feed'[x]) >= Len(feed[x])
      BY <2>2, <3>2
    <3> QED BY <2>2, <2>3, <3>1, <3>2, <3>3 DEF Extends
  <2>4. CASE owner # p
    <3>1. more \in Seq(Notices) /\ Len(more) = 1 /\ more[1] = word
      BY <2>1, <2>4
    <3> HIDE DEF more, word, next
    <3>2. /\ Len(feed'[x]) = Len(feed[x]) + 1
          /\ \A i \in 1 .. Len(feed'[x]) :
               \/ i \in 1 .. Len(feed[x]) /\ feed'[x][i] = feed[x][i]
               \/ i - Len(feed[x]) \in 1 .. 1 /\ feed'[x][i] = more[i - Len(feed[x])]
      <4> DEFINE old == feed[x]
                 both == old \o more
      <4>1. old \in Seq(Notices) /\ feed'[x] = both
        BY <2>2
      <4> HIDE DEF old
      <4>2. /\ Len(both) = Len(old) + Len(more)
            /\ \A i \in 1 .. Len(both) :
                 \/ i \in 1 .. Len(old) /\ both[i] = old[i]
                 \/ i - Len(old) \in 1 .. Len(more) /\ both[i] = more[i - Len(old)]
        BY <3>1, <4>1, ConcatElements
      <4> HIDE DEF both
      <4> QED BY <3>1, <4>1, <4>2 DEF old
    <3>3. /\ \A i \in 1 .. Len(feed[x]) : i \in 1 .. Len(feed'[x]) /\ i - Len(feed[x]) \notin 1 .. 1
          /\ Len(feed[x]) + 1 \in 1 .. Len(feed'[x]) /\ Len(feed[x]) + 1 \notin 1 .. Len(feed[x])
          /\ Len(feed[x]) + 1 - Len(feed[x]) = 1
          /\ Len(feed'[x]) >= Len(feed[x])
      BY <2>2, <3>2
    <3> QED BY <2>2, <2>4, <3>1, <3>2, <3>3 DEF Extends
  <2> QED BY <2>3, <2>4
<1> HIDE DEF word, next, more
<1>4. ASSUME NEW i \in 1 .. Len(feed'[x])
      PROVE  /\ Member(x) /\ x # p
             /\ \/ i \in 1 .. Len(feed[x]) /\ feed'[x][i] = feed[x][i]
                \/ i = Len(feed[x]) + 1 /\ feed'[x][i] = word
                \/ owner = p /\ i = Len(feed[x]) + 2 /\ i = Len(feed'[x]) /\ feed'[x][i] = next
  <2>1. x # p
    BY <1>1, <1>4
  <2>2. ~Member(x) => feed'[x] = <<>>
    BY <1>1, <2>1 DEF Truthful
  <2>3. Member(x)
    BY <1>4, <2>2
  <2>4. /\ i \in Nat /\ Len(feed[x]) \in Nat
        /\ \/ i \in 1 .. Len(feed[x])
           \/ i = Len(feed[x]) + 1
           \/ owner = p /\ i = Len(feed[x]) + 2 /\ i = Len(feed'[x])
    <3>1. Len(feed'[x]) = Len(feed[x]) + (IF owner = p THEN 2 ELSE 1) /\ i \in 1 .. Len(feed'[x])
      BY <1>3, <1>4, <2>1, <2>3
    <3>2. CASE owner = p
      <4>1. i \in 1 .. Len(feed[x]) + 2
        BY <3>1, <3>2
      <4> QED BY <1>2, <3>1, <3>2, <4>1
    <3>3. CASE owner # p
      <4>1. i \in 1 .. Len(feed[x]) + 1
        BY <3>1, <3>3
      <4> QED BY <1>2, <4>1
    <3> QED BY <3>2, <3>3
  <2> QED BY <1>3, <2>1, <2>3, <2>4 DEF Extends
<1> QED BY <1>3, <1>4 DEF word, next

\* Somebody departs.
LEMMA DepartNotices ==
  ASSUME OwnerAssumption, Inv, Inv', NoticesInv, NEW p \in Players, Depart(p)
  PROVE  NoticesInv'
<1> DEFINE word == [type |-> "peer_left", id |-> p]
           next == [type |-> "owner_changed", id |-> owner']
<1>1. /\ Member(p) /\ Others(p)
      /\ ~me'[p].in /\ me'[p].owner = me[p].owner /\ me'[p].peers = me[p].peers
      /\ feed'[p] = <<>>
      /\ \A x \in Players : x # p /\ ~Member(x) => feed'[x] = feed[x]
      /\ owner # p => owner' = owner
      /\ \A x \in Players : x # p /\ Member(x) =>
           owner' \in Players /\ me'[owner'].in /\ (owner = p => owner' # owner)
  BY DepartFacts
<1>2. /\ \A x \in Players : feed[x] \in Seq(Notices) /\ feed'[x] \in Seq(Notices)
      /\ \A x \in Players : me[x].peers \subseteq Players
      /\ \A x \in Players : \A i \in 1 .. Len(feed[x]) :
           feed[x][i] \in Notices /\ feed[x][i].id \in Players
      /\ \A x \in Players : Member(x) => me[x].owner \in Players /\ Came(x)
      /\ Nobody \notin Players /\ owner \in Players \cup {Nobody}
  BY Shapes DEF Inv, Types
<1>3. \A x \in Players : /\ me'[x].owner # Nobody <=> Came(x)
                         /\ me'[x].in <=> Member(x) /\ x # p
                         /\ me'[x].owner = me[x].owner /\ me'[x].peers = me[x].peers
  BY <1>1 DEF Others, Came, Member
<1>4. ASSUME NEW x \in Players, Member(x), x # p
      PROVE  /\ Extends(feed'[x], feed[x]) /\ Len(feed[x]) \in Nat
             /\ Len(feed'[x]) = Len(feed[x]) + IF owner = p THEN 2 ELSE 1
             /\ feed'[x][Len(feed[x]) + 1] = word
             /\ owner = p => feed'[x][Len(feed[x]) + 2] = next
  BY <1>4, DepartFeeds DEF NoticesInv
<1>5. /\ word.type = "peer_left" /\ word.id = p
      /\ next.type = "owner_changed" /\ next.id = owner'
  OBVIOUS
\* Where a notice of the new queue comes from.
<1>6. ASSUME NEW x \in Players
      PROVE  \A i \in 1 .. Len(feed'[x]) :
               /\ Member(x) /\ x # p
               /\ \/ i \in 1 .. Len(feed[x]) /\ feed'[x][i] = feed[x][i]
                  \/ i = Len(feed[x]) + 1 /\ feed'[x][i] = word
                  \/ owner = p /\ i = Len(feed[x]) + 2 /\ i = Len(feed'[x]) /\ feed'[x][i] = next
  BY DepartFeeds, ZenonT(30) DEF NoticesInv
<1> HIDE DEF word, next
<1>7. Truthful'
  <2>1. ASSUME NEW x \in Players
        PROVE  /\ \A a \in me'[x].peers : me'[a].owner # Nobody /\ a # x
               /\ me'[x].owner # Nobody => me'[me'[x].owner].owner # Nobody
               /\ ~me'[x].in => feed'[x] = <<>>
    <3>1. /\ \A a \in me[x].peers : a \in Players /\ Came(a) /\ a # x
          /\ Came(x) => Came(me[x].owner) /\ me[x].owner \in Players
          /\ ~Member(x) => feed[x] = <<>>
      BY <1>2 DEF NoticesInv, Truthful, Inv, Types, Came
    <3> QED BY <1>1, <1>3, <3>1 DEF Came
  <2>2. ASSUME NEW x \in Players, NEW i \in 1 .. Len(feed'[x])
        PROVE  /\ me'[feed'[x][i].id].owner # Nobody
               /\ feed'[x][i].type = "peer_joined" => feed'[x][i].id # x
               /\ feed'[x][i].type = "peer_left" => ~me'[feed'[x][i].id].in
    <3>1. CASE i \in 1 .. Len(feed[x]) /\ feed'[x][i] = feed[x][i]
      BY <1>2, <1>3, <3>1 DEF NoticesInv, Truthful
    <3>2. CASE feed'[x][i] = word
      BY <1>1, <1>2, <1>3, <1>5, <3>2
    <3>3. CASE feed'[x][i] = next
      <4>1. owner' \in Players /\ Member(owner')
        BY <1>1, <1>6, <2>2 DEF Member, Others
      <4> QED BY <1>2, <1>3, <1>5, <3>3, <4>1
    <3> QED BY <1>6, <2>2, <3>1, <3>2, <3>3
  <2> QED BY <2>1, <2>2 DEF Truthful, Came, Member
<1>8. AllAdmitted'
  <2>1. ASSUME NEW a \in Players, NEW x \in Players, me'[a].in, me'[x].in, a # x
        PROVE  Admitted(me'[a].peers, feed'[a], Len(feed'[a]) + 1, x)
    <3>1. Member(a) /\ Member(x) /\ a # p
      BY <1>3, <2>1
    <3>2. Admitted(me[a].peers, feed[a], Len(feed[a]) + 1, x)
      BY <2>1, <3>1 DEF NoticesInv, AllAdmitted
    <3>3. /\ Len(feed[a]) + 1 \in 1 .. Len(feed[a]) + 1 /\ Len(feed'[a]) + 1 \in Nat
          /\ Len(feed[a]) + 1 <= Len(feed'[a]) + 1
      <4>1. Len(feed[a]) \in Nat /\ Len(feed'[a]) \in Nat /\ Len(feed[a]) <= Len(feed'[a])
        BY <1>2, <1>4, <3>1, ExtendsFacts
      <4> QED BY <4>1
    <3>4. Extends(feed'[a], feed[a]) /\ feed[a] \in Seq(Notices) /\ feed'[a] \in Seq(Notices)
      BY <1>2, <1>4, <3>1
    <3>5. Admitted(me[a].peers, feed'[a], Len(feed'[a]) + 1, x)
      BY <3>2, <3>3, <3>4, AdmittedGrows
    <3> QED BY <1>3, <3>5
  <2> QED BY <2>1 DEF AllAdmitted, Member
<1>9. OwnersInOrder'
  <2>1. ASSUME NEW x \in Players, NEW i \in 1 .. Len(feed'[x]), feed'[x][i].type = "owner_changed"
        PROVE  IF \E j \in i + 1 .. Len(feed'[x]) : feed'[x][j].type = "owner_changed"
               THEN ~me'[feed'[x][i].id].in ELSE feed'[x][i].id = owner'
    <3>1. Member(x) /\ x # p
      BY <1>6, <2>1
    <3>2. CASE i \in 1 .. Len(feed[x]) /\ feed'[x][i] = feed[x][i]
      <4>1. feed[x][i].id \in Players
        BY <1>2, <3>2
      <4>2. CASE \E j \in i + 1 .. Len(feed[x]) : feed[x][j].type = "owner_changed"
        <5>1. PICK j \in i + 1 .. Len(feed[x]) : feed[x][j].type = "owner_changed"
          BY <4>2
        <5>2. j \in 1 .. Len(feed[x]) /\ j \in i + 1 .. Len(feed'[x])
          <6>1. Len(feed[x]) \in Nat /\ Len(feed'[x]) \in Nat /\ Len(feed[x]) <= Len(feed'[x])
            BY <1>2, <1>4, <3>1, ExtendsFacts
          <6> QED BY <3>2, <6>1
        <5>3. feed'[x][j].type = "owner_changed"
          BY <1>4, <3>1, <5>1, <5>2 DEF Extends
        <5>4. ~Member(feed[x][i].id)
          BY <2>1, <3>2, <4>2 DEF NoticesInv, OwnersInOrder
        <5> QED BY <1>3, <3>2, <4>1, <5>2, <5>3, <5>4
      <4>3. CASE ~\E j \in i + 1 .. Len(feed[x]) : feed[x][j].type = "owner_changed"
        <5>1. feed[x][i].id = owner
          BY <2>1, <3>2, <4>3 DEF NoticesInv, OwnersInOrder
        <5>2. CASE owner = p
          <6>1. Len(feed[x]) + 2 \in i + 1 .. Len(feed'[x])
            BY <1>4, <3>1, <3>2, <5>2
          <6>2. feed'[x][Len(feed[x]) + 2].type = "owner_changed"
            BY <1>4, <1>5, <3>1, <5>2
          <6> QED BY <1>3, <3>2, <4>1, <5>1, <5>2, <6>1, <6>2
        <5>3. CASE owner # p
          <6>1. ASSUME NEW j \in i + 1 .. Len(feed'[x]) PROVE feed'[x][j].type # "owner_changed"
            <7>1. j \in 1 .. Len(feed'[x])
              BY <1>4, <2>1, <3>1
            <7>2. \/ j \in 1 .. Len(feed[x]) /\ feed'[x][j] = feed[x][j]
                  \/ feed'[x][j] = word
              BY <1>6, <5>3, <7>1
            <7>3. j \in 1 .. Len(feed[x]) => j \in i + 1 .. Len(feed[x])
              BY <6>1
            <7> QED BY <1>5, <4>3, <7>2, <7>3
          <6> QED BY <1>1, <3>2, <5>1, <5>3, <6>1
        <5> QED BY <5>2, <5>3
      <4> QED BY <4>2, <4>3
    <3>3. CASE feed'[x][i] = word
      BY <1>5, <2>1, <3>3
    <3>4. CASE i = Len(feed'[x]) /\ feed'[x][i] = next
      <4>1. i + 1 .. Len(feed'[x]) = {}
        BY <1>4, <3>1, <3>4
      <4> QED BY <1>5, <3>4, <4>1
    <3> QED BY <1>6, <2>1, <3>2, <3>3, <3>4
  <2> QED BY <2>1 DEF OwnersInOrder, Member
<1>10. ASSUME NEW x \in Players, Member(x), x # p
       PROVE  Renames(feed'[x]) <=> (Renames(feed[x]) \/ owner = p)
  <2>1. Renames(feed[x]) => Renames(feed'[x])
    BY <1>2, <1>4, <1>10, ExtendsFacts
  <2>2. owner = p => Renames(feed'[x])
    <3>1. owner = p => Len(feed[x]) + 2 \in 1 .. Len(feed'[x])
      BY <1>4, <1>10
    <3> QED BY <1>4, <1>5, <1>10, <3>1 DEF Renames
  <2>3. Renames(feed'[x]) => Renames(feed[x]) \/ owner = p
    BY <1>5, <1>6, <1>10 DEF Renames
  <2> QED BY <2>1, <2>2, <2>3
<1>11. OwnerKnown'
  <2>1. ASSUME NEW x \in Players, me'[x].in
        PROVE  /\ ~Renames(feed'[x]) => me'[x].owner = owner'
               /\ me'[me'[x].owner].in => ~Renames(feed'[x])
    <3>1. Member(x) /\ x # p /\ me[x].owner \in Players
      BY <1>2, <1>3, <2>1
    <3>2. /\ ~Renames(feed[x]) => me[x].owner = owner
          /\ Member(me[x].owner) => ~Renames(feed[x])
      BY <3>1 DEF NoticesInv, OwnerKnown
    <3> QED BY <1>1, <1>3, <1>10, <3>1, <3>2
  <2> QED BY <2>1 DEF OwnerKnown, Member
<1>12. OwnerAdmitted'
  <2>1. ASSUME NEW x \in Players, NEW i \in 1 .. Len(feed'[x]), feed'[x][i].type = "owner_changed",
               me'[feed'[x][i].id].in, feed'[x][i].id # x
        PROVE  Admitted(me'[x].peers, feed'[x], i, feed'[x][i].id)
    <3>1. Member(x) /\ x # p /\ i \in Nat
      BY <1>4, <1>6, <2>1
    <3>2. CASE i \in 1 .. Len(feed[x]) /\ feed'[x][i] = feed[x][i]
      <4>1. feed[x][i].id \in Players
        BY <1>2, <3>2
      <4>2. Admitted(me[x].peers, feed[x], i, feed[x][i].id)
        BY <1>3, <2>1, <3>2, <4>1 DEF NoticesInv, OwnerAdmitted
      <4>3. i \in 1 .. Len(feed[x]) + 1 /\ i <= i
        BY <1>4, <3>1, <3>2
      <4> QED BY <1>2, <1>3, <1>4, <3>1, <3>2, <4>2, <4>3, AdmittedGrows
    <3>3. CASE feed'[x][i] = word
      BY <1>5, <2>1, <3>3
    <3>4. CASE i = Len(feed[x]) + 2 /\ feed'[x][i] = next
      <4>1. owner' \in Players /\ Member(owner') /\ owner' # x
        BY <1>1, <1>3, <1>5, <2>1, <3>1, <3>4
      <4>2. Admitted(me[x].peers, feed[x], Len(feed[x]) + 1, owner')
        BY <3>1, <4>1 DEF NoticesInv, AllAdmitted
      <4>3. Len(feed[x]) + 1 \in 1 .. Len(feed[x]) + 1 /\ Len(feed[x]) + 1 <= i
        BY <1>4, <3>1, <3>4
      <4>4. Extends(feed'[x], feed[x]) /\ feed[x] \in Seq(Notices) /\ feed'[x] \in Seq(Notices)
        BY <1>2, <1>4, <3>1
      <4>5. Admitted(me[x].peers, feed'[x], i, owner')
        BY SMTT(30), <3>1, <4>2, <4>3, <4>4, AdmittedGrows
      <4> QED BY <1>3, <1>5, <3>4, <4>5
    <3> QED BY <1>6, <2>1, <3>2, <3>3, <3>4
  <2> QED BY <2>1 DEF OwnerAdmitted, Member
<1> QED BY <1>7, <1>8, <1>9, <1>11, <1>12 DEF NoticesInv

\* What a player makes of the first notice.
LEMMA ServerFacts ==
  ASSUME OwnerAssumption, Inv, NEW p \in Players, ServerMessage(p)
  PROVE  LET msg == Head(feed[p]) IN
         /\ Member(p) /\ Others(p) /\ me'[p].in /\ owner' = owner
         /\ feed[p] # <<>> /\ feed'[p] = Tail(feed[p])
         /\ \A x \in Players : x # p => feed'[x] = feed[x]
         /\ msg \in Notices
         /\ me'[p].peers = CASE msg.type = "peer_joined" -> me[p].peers \cup {msg.id}
                             [] msg.type = "peer_left" -> me[p].peers \ {msg.id}
                             [] msg.type = "owner_changed" -> me[p].peers
         /\ me'[p].owner = IF msg.type = "owner_changed" THEN msg.id ELSE me[p].owner
         /\ msg.type = "owner_changed" => me'[p].ready = (msg.id = p)
         /\ msg.type # "owner_changed" => me'[p].ready = me[p].ready
         /\ msg.type # "owner_changed" \/ msg.id # p => me'[p].value = me[p].value
         /\ me'[p] \in Transports
         /\ wire' = IF msg.type # "owner_changed"
                    THEN [wire EXCEPT ![msg.id][p] = IF msg.type = "peer_left" THEN <<>> ELSE @]
                    ELSE IF msg.id = p THEN Advertise(wire, p, me'[p], me'[p].peers)
                    ELSE Ask(wire, p, me'[p])
<1> DEFINE msg == Head(feed[p])
           t == CASE msg.type = "peer_joined" -> [me[p] EXCEPT !.peers = @ \cup {msg.id}]
                  [] msg.type = "peer_left" -> [me[p] EXCEPT !.peers = @ \ {msg.id}]
                  [] msg.type = "owner_changed" -> OnOwnerChanged(me[p], p, msg.id)
           w == [wire EXCEPT ![msg.id][p] = IF msg.type = "peer_left" THEN <<>> ELSE @]
<1>1. /\ me \in [Players -> Transports] /\ me[p] \in Transports
      /\ feed \in [Players -> Seq(Notices)]
  BY DEF Inv, Types, Transports
<1>2. /\ me[p].in /\ feed[p] # <<>> /\ me' = [me EXCEPT ![p] = t]
      /\ wire' = IF msg.type # "owner_changed" THEN w
                 ELSE IF msg.id = p THEN Advertise(wire, p, t, t.peers) ELSE Ask(wire, p, t)
      /\ feed' = [feed EXCEPT ![p] = Tail(@)]
      /\ owner' = owner
  BY DEF ServerMessage
<1>3. msg \in Notices
  BY <1>1, <1>2, TailElements
<1>4. /\ msg.id \in Players
      /\ msg.type \in {"peer_joined", "peer_left", "owner_changed"}
  BY <1>3, SMTT(30) DEF Notices
<1>5. me'[p] = t /\ Others(p) /\ feed'[p] = Tail(feed[p])
      /\ \A x \in Players : x # p => feed'[x] = feed[x]
  BY <1>1, <1>2 DEF Others
<1> HIDE DEF msg, w
<1>6. CASE msg.type = "peer_joined"
  <2>1. t = [me[p] EXCEPT !.peers = @ \cup {msg.id}]
    BY <1>6
  <2>2. /\ t \in Transports /\ t.in = me[p].in /\ t.owner = me[p].owner
        /\ t.peers = me[p].peers \cup {msg.id}
        /\ t.ready = me[p].ready /\ t.value = me[p].value
    <3>1. PICK x, y : x = me[p] /\ y = me[p].peers \cup {msg.id}
      OBVIOUS
    <3>2. x \in Transports /\ y \in SUBSET Players
      BY <1>1, <1>4, <3>1 DEF Transports
    <3>3. t = [x EXCEPT !.peers = y]
      BY <2>1, <3>1
    <3> HIDE DEF t
    <3>4. /\ t \in Transports /\ t.in = x.in /\ t.owner = x.owner
          /\ t.peers = y /\ t.ready = x.ready /\ t.value = x.value
      BY <3>2, <3>3 DEF Transports
    <3> QED BY <3>1, <3>4
  <2> HIDE DEF t
  <2> QED BY <1>2, <1>3, <1>5, <1>6, <2>2 DEF msg, w, Member
<1>7. CASE msg.type = "peer_left"
  <2>1. t = [me[p] EXCEPT !.peers = @ \ {msg.id}]
    BY <1>7
  <2>2. /\ t \in Transports /\ t.in = me[p].in /\ t.owner = me[p].owner
        /\ t.peers = me[p].peers \ {msg.id}
        /\ t.ready = me[p].ready /\ t.value = me[p].value
    BY <1>1, <1>4, <2>1 DEF Transports
  <2> HIDE DEF t
  <2> QED BY <1>2, <1>3, <1>5, <1>7, <2>2 DEF msg, w, Member
<1>8. CASE msg.type = "owner_changed"
  <2>1. t = OnOwnerChanged(me[p], p, msg.id)
    BY <1>8
  <2>2. /\ t \in Transports /\ t.in = me[p].in /\ t.peers = me[p].peers /\ t.owner = msg.id
        /\ t.ready = (msg.id = p) /\ (msg.id # p => t.value = me[p].value)
    BY <1>1, <1>4, <2>1 DEF OnOwnerChanged, Transports
  <2> HIDE DEF t
  <2> QED BY <1>2, <1>3, <1>5, <1>8, <2>2 DEF msg, w, Member
<1> QED BY <1>4, <1>6, <1>7, <1>8

\* A notice is read.
LEMMA ServerNotices ==
  ASSUME OwnerAssumption, Inv, Inv', NoticesInv, NEW p \in Players, ServerMessage(p)
  PROVE  NoticesInv'
<1> DEFINE msg == Head(feed[p])
           s == feed[p]
<1>1. /\ Member(p) /\ Others(p) /\ me'[p].in /\ owner' = owner
      /\ s # <<>> /\ feed'[p] = Tail(s) /\ s \in Seq(Notices)
      /\ \A x \in Players : x # p => feed'[x] = feed[x]
      /\ msg \in Notices /\ msg.id \in Players
      /\ msg.type \in {"peer_joined", "peer_left", "owner_changed"}
      /\ me'[p].peers = CASE msg.type = "peer_joined" -> me[p].peers \cup {msg.id}
                          [] msg.type = "peer_left" -> me[p].peers \ {msg.id}
                          [] msg.type = "owner_changed" -> me[p].peers
      /\ me'[p].owner = IF msg.type = "owner_changed" THEN msg.id ELSE me[p].owner
  <2>1. msg \in Notices =>
          msg.id \in Players /\ msg.type \in {"peer_joined", "peer_left", "owner_changed"}
    BY DEF Notices
  <2>2. s \in Seq(Notices)
    BY DEF Inv, Types
  <2> QED BY <2>1, <2>2, ServerFacts
<1>2. /\ Tail(s) \in Seq(Notices) /\ Len(Tail(s)) = Len(s) - 1 /\ Len(s) \in Nat \ {0}
      /\ msg = s[1]
      /\ \A i \in 1 .. Len(Tail(s)) : i + 1 \in 1 .. Len(s) /\ Tail(s)[i] = s[i + 1]
      /\ msg.type # "owner_changed" => (Renames(Tail(s)) <=> Renames(s))
      /\ Renames(Tail(s)) <=> \E j \in 2 .. Len(s) : s[j].type = "owner_changed"
  BY <1>1, NoticeRead
<1>3. 1 \in 1 .. Len(s)
  BY <1>2
<1>4. /\ Came(msg.id)
      /\ msg.type = "peer_joined" => msg.id # p
      /\ msg.type = "peer_left" => ~Member(msg.id)
      /\ \A a \in me[p].peers : a \in Players /\ Came(a) /\ a # p
      /\ Came(p) /\ me[p].owner \in Players /\ Came(me[p].owner)
  <2>1. /\ Came(msg.id)
        /\ msg.type = "peer_joined" => msg.id # p
        /\ msg.type = "peer_left" => ~Member(msg.id)
    BY <1>2, <1>3 DEF NoticesInv, Truthful
  <2>2. me[p].owner \in Players /\ Nobody \notin Players
    BY <1>1 DEF Inv, OwnerNamed, OwnerAssumption, Member
  <2>3. me[p].peers \subseteq Players
    BY DEF Inv, Types
  <2> QED BY <2>1, <2>2, <2>3 DEF NoticesInv, Truthful, Came
<1> HIDE DEF msg
<1>5. me'[p].owner \in Players /\ me'[p].owner # Nobody /\ Came(me'[p].owner)
  BY <1>1, <1>4 DEF OwnerAssumption
<1>6. \A x \in Players : (me'[x].in <=> Member(x)) /\ (me'[x].owner # Nobody <=> Came(x))
  BY <1>1, <1>4, <1>5 DEF Others, Member, Came
<1>7. \A i \in 1 .. Len(s) : s[i].id \in Players
  BY Shapes
\* The peers lose only those that left.
<1>8. \A x \in Players : /\ x \in me[p].peers /\ Member(x) => x \in me'[p].peers
                         /\ msg.type = "peer_joined" /\ msg.id = x => x \in me'[p].peers
                         /\ x \in me'[p].peers => Came(x) /\ x # p
  BY <1>1, <1>4
<1>9. Truthful'
  <2>1. ASSUME NEW x \in Players
        PROVE  /\ \A a \in me'[x].peers : me'[a].owner # Nobody /\ a # x
               /\ me'[x].owner # Nobody => me'[me'[x].owner].owner # Nobody
               /\ ~me'[x].in => feed'[x] = <<>>
    <3>1. CASE x = p
      <4>1. me'[p].peers \subseteq Players
        BY <1>1, <1>4
      <4>2. me'[me'[p].owner].owner # Nobody
        BY <1>5, <1>6 DEF Came
      <4> QED BY <1>1, <1>6, <1>8, <3>1, <4>1, <4>2 DEF Member
    <3>2. CASE x # p
      <4>1. me'[x] = me[x] /\ feed'[x] = feed[x] /\ me[x].peers \subseteq Players
        BY <1>1, <3>2 DEF Others, Inv, Types
      <4>2. Came(x) => me[x].owner \in Players /\ Came(me[x].owner)
        BY DEF NoticesInv, Truthful, Inv, Types, Came
      <4> QED BY <1>6, <4>1, <4>2 DEF NoticesInv, Truthful, Came, Member
    <3> QED BY <3>1, <3>2
  <2>2. ASSUME NEW x \in Players, NEW i \in 1 .. Len(feed'[x])
        PROVE  /\ me'[feed'[x][i].id].owner # Nobody
               /\ feed'[x][i].type = "peer_joined" => feed'[x][i].id # x
               /\ feed'[x][i].type = "peer_left" => ~me'[feed'[x][i].id].in
    <3>1. PICK k \in 1 .. Len(feed[x]) : feed'[x][i] = feed[x][k]
      <4>1. x = p => i + 1 \in 1 .. Len(s) /\ feed'[p][i] = s[i + 1]
        BY <1>1, <1>2, <2>2
      <4>2. x # p => feed'[x] = feed[x]
        BY <1>1
      <4> QED BY <2>2, <4>1, <4>2
    <3>2. feed[x][k].id \in Players
      BY <3>1, Shapes
    <3> QED BY <1>6, <3>1, <3>2 DEF NoticesInv, Truthful
  <2> QED BY <2>1, <2>2 DEF Truthful, Came, Member
<1>10. AllAdmitted'
  <2>1. ASSUME NEW a \in Players, NEW x \in Players, me'[a].in, me'[x].in, a # x
        PROVE  Admitted(me'[a].peers, feed'[a], Len(feed'[a]) + 1, x)
    <3>1. Admitted(me[a].peers, feed[a], Len(feed[a]) + 1, x) /\ Member(x)
      BY <1>6, <2>1 DEF NoticesInv, AllAdmitted
    <3>2. CASE a = p
      <4>1. Len(s) \in 1 .. Len(s) /\ Len(s) = Len(Tail(s)) + 1
        BY <1>2
      <4>2. /\ Head(s).type = "peer_joined" /\ Head(s).id = x => x \in me'[p].peers
            /\ x \in me[p].peers => x \in me'[p].peers
        BY <1>8, <3>1 DEF msg
      <4>3. Admitted(me[p].peers, s, Len(s) + 1, x)
        BY <3>1, <3>2
      <4> HIDE DEF s
      <4>4. Admitted(me'[p].peers, Tail(s), Len(s), x)
        BY <1>1, <4>1, <4>2, <4>3, AdmittedTail
      <4> QED BY <1>1, <3>2, <4>1, <4>4
    <3>3. CASE a # p
      BY <1>1, <3>1, <3>3 DEF Others
    <3> QED BY <3>2, <3>3
  <2> QED BY <2>1 DEF AllAdmitted, Member
<1>11. OwnersInOrder'
  <2>1. ASSUME NEW x \in Players, NEW i \in 1 .. Len(feed'[x]), feed'[x][i].type = "owner_changed"
        PROVE  IF \E j \in i + 1 .. Len(feed'[x]) : feed'[x][j].type = "owner_changed"
               THEN ~me'[feed'[x][i].id].in ELSE feed'[x][i].id = owner'
    <3>1. CASE x = p
      <4>1. i \in 1 .. Len(Tail(s)) /\ i + 1 \in 1 .. Len(s) /\ Tail(s)[i] = s[i + 1]
        BY <1>1, <1>2, <2>1, <3>1
      <4>2. ASSUME NEW j \in i + 1 .. Len(Tail(s))
            PROVE  j + 1 \in i + 1 + 1 .. Len(s) /\ Tail(s)[j] = s[j + 1]
        <5>1. j \in 1 .. Len(Tail(s))
          BY <1>2, <4>1
        <5>2. j + 1 \in i + 1 + 1 .. Len(s)
          BY <1>2, <4>1
        <5> QED BY <1>2, <5>1, <5>2
      <4>3. ASSUME NEW j \in i + 1 + 1 .. Len(s)
            PROVE  j - 1 \in i + 1 .. Len(Tail(s)) /\ Tail(s)[j - 1] = s[j]
        <5>1. j - 1 \in 1 .. Len(Tail(s)) /\ j - 1 \in i + 1 .. Len(Tail(s)) /\ (j - 1) + 1 = j
          BY <1>2, <4>1
        <5> QED BY <1>2, <5>1
      <4>4. (\E j \in i + 1 .. Len(Tail(s)) : Tail(s)[j].type = "owner_changed")
              <=> \E j \in i + 1 + 1 .. Len(s) : s[j].type = "owner_changed"
        BY <4>2, <4>3
      <4>5. IF \E j \in i + 1 + 1 .. Len(s) : s[j].type = "owner_changed"
            THEN ~Member(s[i + 1].id) ELSE s[i + 1].id = owner
        <5>1. s[i + 1].type = "owner_changed"
          BY <1>1, <2>1, <3>1, <4>1
        <5>2. \A k \in 1 .. Len(s) : s[k].type = "owner_changed" =>
                IF \E j \in k + 1 .. Len(s) : s[j].type = "owner_changed"
                THEN ~Member(s[k].id) ELSE s[k].id = owner
          BY DEF NoticesInv, OwnersInOrder
        <5> HIDE DEF s
        <5> QED BY <4>1, <5>1, <5>2
      <4> HIDE DEF s
      <4> QED BY ZenonT(30), <1>1, <1>6, <1>7, <3>1, <4>1, <4>4, <4>5
    <3>2. CASE x # p
      <4>1. feed'[x] = feed[x]
        BY <1>1, <3>2
      <4>2. feed[x][i].id \in Players
        BY <2>1, <4>1, Shapes
      <4> QED BY <1>1, <1>6, <2>1, <4>1, <4>2 DEF NoticesInv, OwnersInOrder
    <3> QED BY <3>1, <3>2
  <2> QED BY <2>1 DEF OwnersInOrder, Member
<1>12. OwnerKnown'
  <2>1. ASSUME NEW x \in Players, me'[x].in
        PROVE  /\ ~Renames(feed'[x]) => me'[x].owner = owner'
               /\ me'[me'[x].owner].in => ~Renames(feed'[x])
    <3>1. /\ Member(x) /\ me[x].owner \in Players
          /\ ~Renames(feed[x]) => me[x].owner = owner
          /\ Member(me[x].owner) => ~Renames(feed[x])
      BY <1>6, <2>1 DEF NoticesInv, OwnerKnown, Inv, OwnerNamed, Member
    <3>2. CASE x = p /\ msg.type = "owner_changed"
      <4>1. IF \E j \in 1 + 1 .. Len(s) : s[j].type = "owner_changed"
            THEN ~Member(msg.id) ELSE msg.id = owner
        BY <1>2, <1>3, <3>2 DEF NoticesInv, OwnersInOrder
      <4>2. Renames(Tail(s)) => ~Member(msg.id)
        BY <1>2, <4>1
      <4>3. ~Renames(Tail(s)) => msg.id = owner
        BY <1>2, <4>1
      <4> QED BY <1>1, <1>6, <3>2, <4>2, <4>3
    <3>3. CASE x = p /\ msg.type # "owner_changed"
      BY <1>1, <1>2, <1>6, <3>1, <3>3
    <3>4. CASE x # p
      BY <1>1, <1>6, <3>1, <3>4 DEF Others
    <3> QED BY <3>2, <3>3, <3>4
  <2> QED BY <2>1 DEF OwnerKnown, Member
<1>13. OwnerAdmitted'
  <2>1. ASSUME NEW x \in Players, NEW i \in 1 .. Len(feed'[x]), feed'[x][i].type = "owner_changed",
               me'[feed'[x][i].id].in, feed'[x][i].id # x
        PROVE  Admitted(me'[x].peers, feed'[x], i, feed'[x][i].id)
    <3>1. CASE x = p
      <4>1. i \in 1 .. Len(Tail(s)) /\ i + 1 \in 1 .. Len(s) /\ feed'[x][i] = s[i + 1]
        BY <1>1, <1>2, <2>1, <3>1
      <4>2. s[i + 1].id \in Players /\ Member(s[i + 1].id)
        BY <1>6, <1>7, <2>1, <4>1
      <4>3. Admitted(me[p].peers, s, i + 1, s[i + 1].id)
        BY <2>1, <3>1, <4>1, <4>2 DEF NoticesInv, OwnerAdmitted
      <4>4. /\ Head(s).type = "peer_joined" /\ Head(s).id = s[i + 1].id =>
                 s[i + 1].id \in me'[p].peers
            /\ s[i + 1].id \in me[p].peers => s[i + 1].id \in me'[p].peers
        BY <1>8, <4>2 DEF msg
      <4>5. i \in 1 .. Len(s)
        BY <1>2, <4>1
      <4> HIDE DEF s
      <4>6. Admitted(me'[p].peers, Tail(s), i, s[i + 1].id)
        BY <1>1, <4>3, <4>4, <4>5, AdmittedTail
      <4> QED BY <1>1, <3>1, <4>1, <4>6
    <3>2. CASE x # p
      <4>1. feed'[x] = feed[x] /\ me'[x] = me[x]
        BY <1>1, <3>2 DEF Others
      <4>2. feed[x][i].id \in Players
        BY <2>1, <4>1, Shapes
      <4> QED BY <1>6, <2>1, <4>1, <4>2 DEF NoticesInv, OwnerAdmitted
    <3> QED BY <3>1, <3>2
  <2> QED BY <2>1 DEF OwnerAdmitted, Member
<1> QED BY <1>9, <1>10, <1>11, <1>12, <1>13 DEF NoticesInv

\* Whatever leaves the notices, the members, their owners and their peers alone.
LEMMA SameNotices ==
  ASSUME OwnerAssumption, Inv, NoticesInv, feed' = feed, owner' = owner,
         \A x \in Players : me'[x].in = me[x].in /\ me'[x].owner = me[x].owner
                            /\ me'[x].peers = me[x].peers
  PROVE  NoticesInv'
<1>1. /\ \A x \in Players : me[x].peers \subseteq Players
      /\ \A x \in Players : me[x].owner \in Players \cup {Nobody}
      /\ \A x \in Players : Member(x) => me[x].owner \in Players
      /\ \A x \in Players : \A i \in 1 .. Len(feed[x]) : feed[x][i].id \in Players
  BY Shapes
<1>2. \A x \in Players : (me'[x].in <=> Member(x)) /\ (me'[x].owner # Nobody <=> Came(x))
  BY DEF Member, Came
<1>3. Truthful'
  <2>1. \A x \in Players : Came(x) => me[x].owner \in Players
    BY <1>1 DEF Came
  <2> QED BY <1>1, <1>2, <2>1 DEF NoticesInv, Truthful, Came, Member
<1>4. AllAdmitted'
  BY <1>2 DEF NoticesInv, AllAdmitted, Member
<1>5. OwnersInOrder'
  BY <1>1, <1>2, ZenonT(30) DEF NoticesInv, OwnersInOrder, Member
<1>6. OwnerKnown'
  BY <1>1, <1>2 DEF NoticesInv, OwnerKnown, Member
<1>7. OwnerAdmitted'
  BY <1>1, <1>2 DEF NoticesInv, OwnerAdmitted, Member
<1> QED BY <1>3, <1>4, <1>5, <1>6, <1>7 DEF NoticesInv

-----------------------------------------------------------------------------
(***************************************************************************)
(* What is sent, and that a value owed to a player stays on its way.       *)
(***************************************************************************)

\* A link after a request: asked if it was to be, with what was said on it.
AfterAsk(old, new, asked, apart) ==
  /\ Asked(old) => Asked(new)
  /\ Told(new) <=> Told(old)
  /\ \A v : EndsWith(old, v) => EndsWith(new, v)
  /\ asked => Asked(new)
  /\ apart => new = old

\* Who is asked has the request, and nothing said is disturbed.
LEMMA AskEffect ==
  ASSUME NEW w \in Wires, NEW p \in Players, NEW t \in Transports,
         NEW a \in Players, NEW b \in Players
  PROVE  AfterAsk(w[a][b], Ask(w, p, t)[a][b],
                  a = p /\ b = t.owner /\ b # p /\ b \in t.peers, a # p \/ b \notin t.peers)
<1> DEFINE u == Ask(w, p, t)[a][b]
<1> SUFFICES /\ Asked(w[a][b]) => Asked(u)
             /\ Told(u) <=> Told(w[a][b])
             /\ \A v : EndsWith(w[a][b], v) => EndsWith(u, v)
             /\ a = p /\ b = t.owner /\ b # p /\ b \in t.peers => Asked(u)
             /\ a # p \/ b \notin t.peers => u = w[a][b]
  BY DEF AfterAsk
<1>1. w[a][b] \in Seq(Messages)
  BY DEF Wires
<1>2. Request \in Messages /\ Request.type = "request"
  BY DEF Request, Messages
<1>3. CASE a = p /\ b = t.owner /\ b # p /\ b \in t.peers
  <2>1. u = Append(w[a][b], Request)
    BY <1>3 DEF Ask, Send, Wires
  <2> HIDE DEF u
  <2> QED BY <1>1, <1>2, <1>3, <2>1, WireAppend DEF u
<1>4. CASE ~(a = p /\ b = t.owner /\ b # p /\ b \in t.peers)
  <2>1. u = w[a][b]
    BY <1>4 DEF Ask, Send, Wires
  <2> QED BY <1>4, <2>1
<1> QED BY <1>3, <1>4

\* A link after an advertisement: told and ending with the value if it was to be.
AfterTelling(old, new, told, value) ==
  /\ Asked(old) => Asked(new)
  /\ Told(old) => Told(new)
  /\ told => Told(new) /\ EndsWith(new, value)
  /\ ~told => new = old

\* Who is advertised to is told, and has the value as the last.
LEMMA AdvertiseEffect ==
  ASSUME NEW w \in Wires, NEW p \in Players, NEW t \in Transports, NEW targets,
         NEW a \in Players, NEW b \in Players
  PROVE  AfterTelling(w[a][b], Advertise(w, p, t, targets)[a][b], a = p /\ b \in targets, t.value)
<1> DEFINE u == Advertise(w, p, t, targets)[a][b]
<1> SUFFICES /\ Asked(w[a][b]) => Asked(u)
             /\ Told(w[a][b]) => Told(u)
             /\ a = p /\ b \in targets => Told(u) /\ EndsWith(u, t.value)
             /\ ~(a = p /\ b \in targets) => u = w[a][b]
  BY DEF AfterTelling
<1>1. w[a][b] \in Seq(Messages)
  BY DEF Wires
<1>2. Setting(t) \in Messages /\ Setting(t).type = "setting" /\ Setting(t).value = t.value
  BY DEF Setting, Messages, Transports
<1>3. CASE a = p /\ b \in targets
  <2>1. u = Append(w[a][b], Setting(t))
    BY <1>3 DEF Advertise, Send, Wires
  <2> HIDE DEF u
  <2> QED BY <1>1, <1>2, <1>3, <2>1, WireAppend DEF u
<1>4. CASE ~(a = p /\ b \in targets)
  <2>1. u = w[a][b]
    BY <1>4 DEF Advertise, Send, Wires
  <2> QED BY <1>4, <2>1
<1> QED BY <1>3, <1>4

\* What was not told is not contradicted.
LEMMA UntoldEnds ==
  ASSUME NEW s, ~Told(s)
  PROVE  \A v : EndsWith(s, v)
BY DEF Told, EndsWith

\* Who takes itself for the owner is it, and is told of no other.
LEMMA OwnersAreTrue ==
  ASSUME OwnerAssumption, Inv, NoticesInv, NEW q \in Players, Member(q), me[q].owner = q
  PROVE  q = owner /\ ~Renames(feed[q])
BY DEF NoticesInv, OwnerKnown

\* A member that joins asks the owner; nobody was told anything by it before.
LEMMA JoinWire ==
  ASSUME OwnerAssumption, Inv, Inv', NoticesInv, WireInv, NEW p \in Players, Join(p)
  PROVE  WireInv'
<1>1. /\ ~Member(p) /\ ~Came(p) /\ Others(p)
      /\ me'[p].in /\ me'[p].peers = {x \in Players : Member(x)}
      /\ me'[p].owner = owner' /\ me'[p].owner \in Players
      /\ roster = <<>> => owner' = p /\ \A x \in Players : ~Member(x)
      /\ roster # <<>> => owner' = owner /\ Member(owner) /\ owner # p
      /\ wire' = Ask(wire, p, me'[p])
  BY JoinFacts DEF NoticesInv
<1>2. wire \in Wires /\ me'[p] \in Transports
  BY DEF Inv, Types, Wires, Transports
<1>3. \A x \in Players : Member(x) => Came(x) /\ x # p
  BY <1>1, Shapes
<1>4. \A a, b \in Players :
        /\ Asked(wire[a][b]) => Asked(wire'[a][b])
        /\ Told(wire'[a][b]) <=> Told(wire[a][b])
        /\ \A v : EndsWith(wire[a][b], v) => EndsWith(wire'[a][b], v)
        /\ a = p /\ b = owner' /\ b # p /\ Member(b) => Asked(wire'[a][b])
        /\ a # p \/ ~Member(b) => wire'[a][b] = wire[a][b]
  <2>1. ASSUME NEW a \in Players, NEW b \in Players
        PROVE  AfterAsk(wire[a][b], wire'[a][b],
                        a = p /\ b = me'[p].owner /\ b # p /\ b \in me'[p].peers,
                        a # p \/ b \notin me'[p].peers)
    <3>1. wire' = Ask(wire, p, me'[p])
      BY <1>1
    <3> QED BY <1>2, <3>1, AskEffect
  <2>2. \A b \in Players : b \in me'[p].peers <=> Member(b)
    BY <1>1
  <2> QED BY <1>1, <2>1, <2>2 DEF AfterAsk
<1>5. Unwritten'
  <2>1. ASSUME NEW x \in Players, NEW q \in Players, me'[x].owner = Nobody
        PROVE  wire'[q][x] = <<>>
    <3>1. x # p /\ ~Came(x)
      BY <1>1, <2>1 DEF Others, Came, OwnerAssumption
    <3> QED BY <1>3, <1>4, <3>1 DEF WireInv, Unwritten
  <2> QED BY <2>1 DEF Unwritten, Came
<1>6. OnlyOwnersTell'
  <2>1. ASSUME NEW q \in Players, NEW x \in Players, me'[q].owner # q
        PROVE  ~Told(wire'[q][x])
    <3>1. me[q].owner # q
      BY <1>1, <2>1 DEF Others, Came, OwnerAssumption
    <3> QED BY <1>4, <3>1 DEF WireInv, OnlyOwnersTell
  <2> QED BY <2>1 DEF OnlyOwnersTell
<1>7. ToldLatest'
  <2>1. ASSUME NEW q \in Players, NEW x \in Players, IsOwner(me'[q], q), me'[x].in, x # q
        PROVE  /\ EndsWith(wire'[q][x], me'[q].value)
               /\ x \notin me'[q].peers => ~Told(wire'[q][x])
    <3>1. CASE q = p
      BY <1>1, <2>1, <3>1 DEF IsOwner, Others, Member
    <3>2. CASE q # p /\ x = p
      <4>1. wire'[q][p] = <<>>
        BY <1>1, <1>4, <3>2 DEF WireInv, Unwritten
      <4> QED BY <3>2, <4>1, WireEmpty
    <3>3. CASE q # p /\ x # p
      <4>1. me'[q] = me[q] /\ Member(x)
        BY <1>1, <2>1, <3>3 DEF Others, Member
      <4> QED BY <1>4, <2>1, <4>1 DEF WireInv, ToldLatest
    <3> QED BY <3>1, <3>2, <3>3
  <2> QED BY <2>1 DEF ToldLatest, Member
<1>8. OnItsWay'
  <2>1. ASSUME NEW q \in Players, NEW x \in Players, q = owner', me'[q].in, me'[x].in, x # q
        PROVE  Due(q, x)'
    <3>1. owner' = owner /\ Member(q) /\ q # p /\ me'[q] = me[q]
      BY <1>1, <2>1 DEF Others, Member
    <3>2. CASE x = p
      BY <1>4, <2>1, <3>1, <3>2 DEF Due
    <3>3. CASE x # p
      <4>1. Member(x) /\ me'[x] = me[x]
        BY <1>1, <2>1, <3>3 DEF Others, Member
      <4>2. Due(q, x)
        BY <2>1, <3>1, <4>1 DEF WireInv, OnItsWay
      <4>3. Renames(feed[x]) => Renames(feed'[x])
        <5>1. Extends(feed'[x], feed[x]) /\ Len(feed[x]) \in Nat
          BY JoinFeeds DEF NoticesInv
        <5> QED BY <5>1 DEF Renames, Extends
      <4>4. ASSUME NEW i \in 1 .. Len(feed'[q]),
                   feed'[q][i].type = "owner_changed", feed'[q][i].id = q,
                   i \in 1 .. Len(feed[q]) => Admitted(me[q].peers, feed[q], i, x)
            PROVE  Admitted(me'[q].peers, feed'[q], i, x)
        <5>1. Extends(feed'[q], feed[q]) /\ Len(feed[q]) \in Nat /\ i \in 1 .. Len(feed[q])
          <6>1. /\ Extends(feed'[q], feed[q]) /\ Len(feed[q]) \in Nat
                /\ \A k \in 1 .. Len(feed'[q]) :
                     k \in 1 .. Len(feed[q]) \/ feed'[q][k] = [type |-> "peer_joined", id |-> p]
            BY JoinFeeds DEF NoticesInv
          <6> QED BY <4>4, <6>1
        <5>2. feed[q] \in Seq(Notices) /\ feed'[q] \in Seq(Notices)
          BY DEF Inv, Types
        <5>3. i \in 1 .. Len(feed[q]) + 1 /\ i \in Nat /\ i <= i
          BY <5>1
        <5> QED BY <3>1, <4>4, <5>1, <5>2, <5>3, AdmittedGrows
      <4>5. \A i \in 1 .. Len(feed'[q]) : i \in 1 .. Len(feed[q]) =>
              feed'[q][i] = feed[q][i]
        <5>1. Extends(feed'[q], feed[q])
          BY JoinFeeds DEF NoticesInv
        <5> QED BY <5>1 DEF Extends
      <4> QED BY <1>4, <3>1, <4>1, <4>2, <4>3, <4>4, <4>5 DEF Due
    <3> QED BY <3>2, <3>3
  <2> QED BY <2>1 DEF OnItsWay, Member
<1> QED BY <1>5, <1>6, <1>7, <1>8 DEF WireInv

\* When the owner departs, the next one will be told and will tell the others.
LEMMA DepartWire ==
  ASSUME OwnerAssumption, Inv, Inv', NoticesInv, WireInv, NEW p \in Players, Depart(p)
  PROVE  WireInv'
<1>1. /\ Member(p) /\ Others(p)
      /\ ~me'[p].in /\ me'[p].owner = me[p].owner /\ me'[p].peers = me[p].peers
      /\ owner # p => owner' = owner
      /\ \A q, x \in Players : /\ wire'[q][x] = wire[q][x] \/ (wire'[q][x] = <<>> /\ p \in {q, x})
                               /\ p \notin {q, x} => wire'[q][x] = wire[q][x]
  BY DepartFacts
<1>2. \A x \in Players : /\ me'[x].in <=> Member(x) /\ x # p
                         /\ me'[x].owner # Nobody <=> Came(x)
                         /\ me'[x].owner = me[x].owner /\ me'[x].peers = me[x].peers
                         /\ x # p => me'[x] = me[x]
  BY <1>1 DEF Others, Came, Member
<1>3. Unwritten'
  BY <1>1, <1>2 DEF WireInv, Unwritten, Came
<1>4. OnlyOwnersTell'
  BY <1>1, <1>2, WireEmpty DEF WireInv, OnlyOwnersTell
<1>5. ToldLatest'
  <2>1. ASSUME NEW q \in Players, NEW x \in Players, IsOwner(me'[q], q), me'[x].in, x # q
        PROVE  /\ EndsWith(wire'[q][x], me'[q].value)
               /\ x \notin me'[q].peers => ~Told(wire'[q][x])
    <3>1. Member(x) /\ x # p /\ q # p /\ me'[q] = me[q]
      BY <1>1, <1>2, <2>1 DEF IsOwner
    <3> QED BY <1>1, <2>1, <3>1 DEF WireInv, ToldLatest
  <2> QED BY <2>1 DEF ToldLatest, Member
<1>6. OnItsWay'
  <2>1. ASSUME NEW q \in Players, NEW x \in Players, q = owner', me'[q].in, me'[x].in, x # q
        PROVE  Due(q, x)'
    <3>1. /\ Member(q) /\ q # p /\ me'[q] = me[q]
          /\ Member(x) /\ x # p /\ me'[x] = me[x]
          /\ wire'[x][q] = wire[x][q] /\ wire'[q][x] = wire[q][x]
      BY <1>1, <1>2, <2>1
    <3>2. feed[q] \in Seq(Notices) /\ feed'[q] \in Seq(Notices)
      BY DEF Inv, Types
    <3>3. Extends(feed'[q], feed[q]) /\ Len(feed[q]) \in Nat
      BY <3>1, DepartFeeds DEF NoticesInv
    <3>4. CASE owner # p
      <4>1. owner' = owner
        BY <1>1, <3>4
      <4>2. Due(q, x)
        BY <2>1, <3>1, <4>1 DEF WireInv, OnItsWay
      <4>3. Renames(feed[x]) => Renames(feed'[x])
        <5>1. Extends(feed'[x], feed[x]) /\ Len(feed[x]) \in Nat
          BY <3>1, DepartFeeds DEF NoticesInv
        <5> QED BY <5>1 DEF Renames, Extends
      <4>4. ASSUME NEW i \in 1 .. Len(feed'[q]),
                   feed'[q][i].type = "owner_changed", feed'[q][i].id = q,
                   i \in 1 .. Len(feed[q]) => Admitted(me[q].peers, feed[q], i, x)
            PROVE  Admitted(me'[q].peers, feed'[q], i, x)
        <5>1. i \in 1 .. Len(feed[q])
          <6>1. \A k \in 1 .. Len(feed'[q]) :
                  \/ k \in 1 .. Len(feed[q]) \/ owner = p
                  \/ feed'[q][k] = [type |-> "peer_left", id |-> p]
            BY DepartFeeds DEF NoticesInv
          <6> QED BY <3>4, <4>4, <6>1
        <5>2. i \in 1 .. Len(feed[q]) + 1 /\ i \in Nat /\ i <= i
          BY <3>3, <5>1
        <5> QED BY <3>1, <3>2, <3>3, <4>4, <5>1, <5>2, AdmittedGrows
      <4>5. \A i \in 1 .. Len(feed[q]) : feed'[q][i] = feed[q][i]
        BY <3>3 DEF Extends
      <4> QED BY <3>1, <4>2, <4>3, <4>4, <4>5 DEF Due
    <3>5. CASE owner = p
      <4>1. me[q].owner # q
        BY <3>1, <3>5, OwnersAreTrue
      <4>2. ASSUME NEW i \in 1 .. Len(feed'[q]),
                   feed'[q][i].type = "owner_changed", feed'[q][i].id = q
            PROVE  Admitted(me'[q].peers, feed'[q], i, x)
        <5>1. CASE i \in 1 .. Len(feed[q]) /\ feed'[q][i] = feed[q][i]
          BY <3>1, <3>5, <4>2, <5>1 DEF NoticesInv, OwnersInOrder
        <5>2. CASE i = Len(feed[q]) + 2
          <6>1. Admitted(me[q].peers, feed[q], Len(feed[q]) + 1, x)
            BY <2>1, <3>1 DEF NoticesInv, AllAdmitted
          <6>2. Len(feed[q]) + 1 \in 1 .. Len(feed[q]) + 1 /\ Len(feed[q]) + 1 <= i /\ i \in Nat
            BY <3>3, <5>2
          <6> QED BY SMTT(30), <3>1, <3>2, <3>3, <6>1, <6>2, AdmittedGrows
        <5>3. \A k \in 1 .. Len(feed'[q]) :
                \/ k \in 1 .. Len(feed[q]) /\ feed'[q][k] = feed[q][k]
                \/ k = Len(feed[q]) + 2
                \/ feed'[q][k] = [type |-> "peer_left", id |-> p]
          BY DepartFeeds, ZenonT(30) DEF NoticesInv
        <5> QED BY <4>2, <5>1, <5>2, <5>3
      <4> QED BY <3>1, <4>1, <4>2 DEF Due
    <3> QED BY <3>4, <3>5
  <2> QED BY <2>1 DEF OnItsWay, Member
<1> QED BY <1>3, <1>4, <1>5, <1>6 DEF WireInv

\* Who hears of another owner asks it; who hears that it is the owner tells all it admitted.
LEMMA ServerWire ==
  ASSUME OwnerAssumption, Inv, Inv', NoticesInv, WireInv, NEW p \in Players, ServerMessage(p)
  PROVE  WireInv'
<1> DEFINE msg == Head(feed[p])
           s == feed[p]
<1>1. /\ Member(p) /\ Others(p) /\ me'[p].in /\ owner' = owner
      /\ s # <<>> /\ feed'[p] = Tail(s) /\ s \in Seq(Notices)
      /\ \A x \in Players : x # p => feed'[x] = feed[x]
      /\ msg \in Notices /\ msg.id \in Players
      /\ msg.type \in {"peer_joined", "peer_left", "owner_changed"}
      /\ me'[p].peers = CASE msg.type = "peer_joined" -> me[p].peers \cup {msg.id}
                          [] msg.type = "peer_left" -> me[p].peers \ {msg.id}
                          [] msg.type = "owner_changed" -> me[p].peers
      /\ me'[p].owner = IF msg.type = "owner_changed" THEN msg.id ELSE me[p].owner
      /\ msg.type # "owner_changed" => me'[p].ready = me[p].ready
      /\ msg.type # "owner_changed" \/ msg.id # p => me'[p].value = me[p].value
      /\ me'[p] \in Transports /\ wire \in Wires
  <2>1. msg \in Notices =>
          msg.id \in Players /\ msg.type \in {"peer_joined", "peer_left", "owner_changed"}
    BY DEF Notices
  <2>2. s \in Seq(Notices) /\ wire \in Wires
    BY DEF Inv, Types, Wires
  <2> QED BY <2>1, <2>2, ServerFacts
<1>2. wire' = IF msg.type # "owner_changed"
              THEN [wire EXCEPT ![msg.id][p] = IF msg.type = "peer_left" THEN <<>> ELSE @]
              ELSE IF msg.id = p THEN Advertise(wire, p, me'[p], me'[p].peers)
              ELSE Ask(wire, p, me'[p])
  BY ServerFacts
<1>3. /\ Tail(s) \in Seq(Notices) /\ Len(Tail(s)) = Len(s) - 1 /\ Len(s) \in Nat \ {0}
      /\ msg = s[1] /\ 1 \in 1 .. Len(s)
      /\ \A i \in 1 .. Len(Tail(s)) : i + 1 \in 1 .. Len(s) /\ Tail(s)[i] = s[i + 1]
      /\ msg.type # "owner_changed" => (Renames(Tail(s)) <=> Renames(s))
      /\ Renames(Tail(s)) <=> \E j \in 2 .. Len(s) : s[j].type = "owner_changed"
  BY <1>1, NoticeRead
<1>4. /\ Came(msg.id)
      /\ msg.type = "peer_left" => ~Member(msg.id)
      /\ \A a \in me[p].peers : Came(a) /\ a # p
      /\ Came(p) /\ me[p].peers \subseteq Players
  BY <1>1, <1>3, Shapes DEF NoticesInv, Truthful
\* An owner that is told of another has gone, or is not the player itself.
<1>5. ASSUME msg.type = "owner_changed"
      PROVE  /\ Renames(s) /\ me[p].owner # p
             /\ Member(msg.id) => msg.id = owner
             /\ Renames(Tail(s)) \/ msg.id = owner
             /\ Member(msg.id) /\ msg.id # p => msg.id \in me[p].peers
  <2>1. Renames(s)
    BY <1>3, <1>5 DEF Renames
  <2>2. me[p].owner # p
    BY <1>1, <2>1, OwnersAreTrue
  <2>3. IF \E j \in 1 + 1 .. Len(s) : s[j].type = "owner_changed"
        THEN ~Member(msg.id) ELSE msg.id = owner
    BY <1>3, <1>5 DEF NoticesInv, OwnersInOrder
  <2>4. /\ Member(msg.id) => msg.id = owner
        /\ Renames(Tail(s)) \/ msg.id = owner
    BY <1>3, <2>3
  <2>5. Member(msg.id) /\ msg.id # p => Admitted(me[p].peers, s, 1, msg.id)
    BY <1>3, <1>5 DEF NoticesInv, OwnerAdmitted
  <2>6. Admitted(me[p].peers, s, 1, msg.id) => msg.id \in me[p].peers
    BY AdmittedFirst
  <2> QED BY <2>1, <2>2, <2>4, <2>5, <2>6
<1> HIDE DEF msg
\* The three ways the wire changes.
<1>6. ASSUME msg.type # "owner_changed", NEW a \in Players, NEW b \in Players
      PROVE  /\ wire'[a][b] = wire[a][b] \/ wire'[a][b] = <<>>
             /\ Member(a) \/ b # p => wire'[a][b] = wire[a][b]
  <2>1. wire' = [wire EXCEPT ![msg.id][p] = IF msg.type = "peer_left" THEN <<>> ELSE @]
    BY <1>2, <1>6
  <2>2. wire'[a][b] = IF a = msg.id /\ b = p /\ msg.type = "peer_left" THEN <<>> ELSE wire[a][b]
    BY <1>1, <2>1 DEF Wires
  <2> QED BY <1>4, <2>2
<1>7. ASSUME msg.type = "owner_changed", msg.id = p, NEW a \in Players, NEW b \in Players
      PROVE  /\ a = p /\ b \in me'[p].peers =>
                  Told(wire'[a][b]) /\ EndsWith(wire'[a][b], me'[p].value)
             /\ a # p \/ b \notin me'[p].peers => wire'[a][b] = wire[a][b]
  <2>1. wire' = Advertise(wire, p, me'[p], me'[p].peers)
    BY <1>2, <1>7
  <2>2. AfterTelling(wire[a][b], wire'[a][b], a = p /\ b \in me'[p].peers, me'[p].value)
    BY <1>1, <2>1, AdvertiseEffect
  <2> QED BY <2>2 DEF AfterTelling
<1>8. ASSUME msg.type = "owner_changed", msg.id # p, NEW a \in Players, NEW b \in Players
      PROVE  /\ Asked(wire[a][b]) => Asked(wire'[a][b])
             /\ Told(wire'[a][b]) <=> Told(wire[a][b])
             /\ \A v : EndsWith(wire[a][b], v) => EndsWith(wire'[a][b], v)
             /\ a = p /\ b = msg.id /\ b \in me'[p].peers => Asked(wire'[a][b])
             /\ a # p \/ b \notin me'[p].peers => wire'[a][b] = wire[a][b]
  <2>1. wire' = Ask(wire, p, me'[p])
    BY <1>2, <1>8
  <2>2. AfterAsk(wire[a][b], wire'[a][b],
                 a = p /\ b = me'[p].owner /\ b # p /\ b \in me'[p].peers,
                 a # p \/ b \notin me'[p].peers)
    BY <1>1, <2>1, AskEffect
  <2>3. me'[p].owner = msg.id
    BY <1>1, <1>8
  <2> QED BY <1>8, <2>2, <2>3 DEF AfterAsk
<1>9. \A x \in Players : /\ me'[x].in <=> Member(x)
                         /\ me'[x].owner # Nobody <=> Came(x)
                         /\ x # p => me'[x] = me[x]
                         /\ x \in me'[p].peers => Came(x)
                         /\ x \in me[p].peers /\ Member(x) => x \in me'[p].peers
  <2>1. me'[p].owner # Nobody /\ Came(p)
    <3>1. me'[p].owner # Nobody
      BY <1>1, <1>4 DEF OwnerAssumption, Came
    <3> QED BY <1>4, <3>1 DEF Came
  <2> QED BY <1>1, <1>4, <2>1 DEF Others, Member, Came
<1>10. Unwritten'
  <2>1. ASSUME NEW x \in Players, NEW q \in Players, ~Came(x)
        PROVE  wire'[q][x] = <<>>
    <3>1. wire[q][x] = <<>>
      BY <2>1 DEF WireInv, Unwritten
    <3>2. msg.type = "owner_changed" => x \notin me'[p].peers
      BY <1>9, <2>1
    <3> QED BY <1>6, <1>7, <1>8, <3>1, <3>2
  <2> QED BY <1>9, <2>1 DEF Unwritten, Came
<1>11. OnlyOwnersTell'
  <2>1. ASSUME NEW q \in Players, NEW x \in Players, me'[q].owner # q
        PROVE  ~Told(wire'[q][x])
    <3>1. me[q].owner # q
      BY <1>1, <1>5, <1>9, <2>1
    <3>2. ~Told(wire[q][x])
      BY <3>1 DEF WireInv, OnlyOwnersTell
    <3>3. msg.type = "owner_changed" /\ msg.id = p => q # p
      BY <1>1, <2>1
    <3> QED BY <1>6, <1>7, <1>8, <3>2, <3>3, WireEmpty
  <2> QED BY <2>1 DEF OnlyOwnersTell
<1>12. ToldLatest'
  <2>1. ASSUME NEW q \in Players, NEW x \in Players, IsOwner(me'[q], q), me'[x].in, x # q
        PROVE  /\ EndsWith(wire'[q][x], me'[q].value)
               /\ x \notin me'[q].peers => ~Told(wire'[q][x])
    <3>1. Member(x) /\ Member(q) /\ me'[q].owner = q
      BY <1>9, <2>1 DEF IsOwner, Member
    <3>2. CASE q # p \/ msg.type # "owner_changed"
      <4>1. me'[q].owner = me[q].owner /\ me'[q].value = me[q].value
            /\ (x \in me[q].peers => x \in me'[q].peers)
        BY <1>1, <1>9, <3>1, <3>2
      <4>2. /\ EndsWith(wire[q][x], me[q].value)
            /\ x \notin me[q].peers => ~Told(wire[q][x])
        BY <2>1, <3>1, <4>1 DEF WireInv, ToldLatest, IsOwner, Member
      <4>3. wire'[q][x] = wire[q][x]
        BY <1>6, <1>7, <1>8, <3>1, <3>2
      <4> QED BY <4>1, <4>2, <4>3
    <3>3. CASE q = p /\ msg.type = "owner_changed"
      <4>1. msg.id = p /\ me[p].owner # p
        BY <1>1, <1>5, <3>1, <3>3
      <4>2. ~Told(wire[p][x])
        BY <4>1 DEF WireInv, OnlyOwnersTell
      <4>3. CASE x \in me'[p].peers
        BY <1>7, <3>3, <4>1, <4>3
      <4>4. CASE x \notin me'[p].peers
        BY <1>7, <3>3, <4>1, <4>2, <4>4, UntoldEnds
      <4> QED BY <4>3, <4>4
    <3> QED BY <3>2, <3>3
  <2> QED BY <2>1 DEF ToldLatest, Member
<1>13. OnItsWay'
  <2>1. ASSUME NEW q \in Players, NEW x \in Players, q = owner', me'[q].in, me'[x].in, x # q
        PROVE  Due(q, x)'
    <3>1. Member(q) /\ Member(x) /\ q = owner
      BY <1>1, <1>9, <2>1
    <3>2. Due(q, x)
      BY <2>1, <3>1 DEF WireInv, OnItsWay
    <3>3. CASE p # q /\ p # x
      <4>1. /\ me'[q] = me[q] /\ me'[x] = me[x] /\ feed'[q] = feed[q] /\ feed'[x] = feed[x]
            /\ wire'[x][q] = wire[x][q] /\ wire'[q][x] = wire[q][x]
        BY <1>1, <1>6, <1>7, <1>8, <1>9, <3>3
      <4> QED BY <3>2, <4>1, SMTT(30) DEF Due
    <3>4. CASE p = x /\ msg.type # "owner_changed"
      <4>1. /\ me'[q] = me[q] /\ feed'[q] = feed[q]
            /\ me'[x].ready = me[x].ready /\ me'[x].value = me[x].value
            /\ Renames(feed'[x]) <=> Renames(feed[x])
            /\ wire'[x][q] = wire[x][q] /\ wire'[q][x] = wire[q][x]
        BY <1>1, <1>3, <1>6, <1>9, <2>1, <3>1, <3>4
      <4> QED BY <3>2, <4>1 DEF Due
    <3>5. CASE p = x /\ msg.type = "owner_changed"
      <4>1. msg.id # p
        BY <1>5, <2>1, <3>1, <3>5
      <4>2. CASE msg.id = q
        <5>1. q \in me'[p].peers
          BY <1>1, <1>5, <3>1, <3>5, <4>1, <4>2
        <5> QED BY <1>8, <3>5, <4>1, <4>2, <5>1 DEF Due
      <4>3. CASE msg.id # q
        <5>1. /\ me'[q] = me[q] /\ feed'[q] = feed[q] /\ Renames(feed'[x])
              /\ Asked(wire[x][q]) => Asked(wire'[x][q])
          BY <1>1, <1>5, <1>8, <1>9, <2>1, <3>1, <3>5, <4>1, <4>3
        <5> QED BY <3>2, <5>1 DEF Due
      <4> QED BY <4>2, <4>3
    <3>6. CASE p = q
      <4>1. /\ me'[x] = me[x] /\ feed'[x] = feed[x] /\ wire'[x][q] = wire[x][q]
            /\ x \in me[q].peers => x \in me'[q].peers
        BY <1>1, <1>6, <1>7, <1>8, <1>9, <2>1, <3>1, <3>6
      <4>2. CASE me[q].owner = q
        <5>1. msg.type # "owner_changed"
          BY <1>5, <3>6, <4>2
        <5>2. me'[q].owner = q /\ me'[q].value = me[q].value /\ wire'[q][x] = wire[q][x]
          BY <1>1, <1>6, <3>1, <3>6, <4>2, <5>1
        <5> QED BY <3>2, <4>1, <4>2, <5>2 DEF Due
      <4>3. CASE me[q].owner # q
        <5>1. CASE Asked(wire[x][q])
          BY <4>1, <5>1 DEF Due
        <5>2. CASE ~Asked(wire[x][q])
          <6>1. \A i \in 1 .. Len(s) : s[i].type = "owner_changed" /\ s[i].id = q =>
                  Admitted(me[q].peers, s, i, x)
            BY <3>2, <3>6, <4>3, <5>2 DEF Due
          <6>2. CASE msg.type = "owner_changed" /\ msg.id = q
            <7>1. Admitted(me[q].peers, s, 1, x)
              BY <1>3, <6>1, <6>2
            <7>2. x \in me'[q].peers
              BY <3>1, <4>1, <7>1, AdmittedFirst
            <7> QED BY <1>1, <1>7, <3>6, <6>2, <7>2 DEF Due
          <6>3. CASE ~(msg.type = "owner_changed" /\ msg.id = q)
            <7>1. me'[q].owner # q
              BY <1>1, <3>6, <4>3, <6>3
            <7>2. ASSUME NEW i \in 1 .. Len(Tail(s)),
                         Tail(s)[i].type = "owner_changed", Tail(s)[i].id = q
                  PROVE  Admitted(me'[q].peers, Tail(s), i, x)
              <8>1. i + 1 \in 1 .. Len(s) /\ Tail(s)[i] = s[i + 1]
                BY <1>3
              <8>2. Admitted(me[q].peers, s, i + 1, x)
                BY <6>1, <7>2, <8>1
              <8>3. i \in 1 .. Len(s)
                BY <1>3, <8>1
              <8>4. Head(s).type = "peer_joined" /\ Head(s).id = x => x \in me'[q].peers
                BY <1>1, <3>6 DEF msg
              <8> QED BY <1>1, <4>1, <8>2, <8>3, <8>4, AdmittedTail
            <7> QED BY <1>1, <3>6, <7>1, <7>2, ZenonT(30) DEF Due
          <6> QED BY <6>2, <6>3
        <5> QED BY <5>1, <5>2
      <4> QED BY <4>2, <4>3
    <3> QED BY <3>3, <3>4, <3>5, <3>6
  <2> QED BY <2>1 DEF OnItsWay, Member
<1> QED BY <1>10, <1>11, <1>12, <1>13 DEF WireInv

\* A request is answered by who owns the room; a value is taken from who owns it.
LEMMA PeerWire ==
  ASSUME OwnerAssumption, Inv, Inv', NoticesInv, WireInv,
         NEW r \in Players, NEW s \in Players, PeerMessage(s, r)
  PROVE  WireInv' /\ NoticesInv'
<1> DEFINE msg == Head(wire[s][r])
           w == [wire EXCEPT ![s][r] = Tail(@)]
<1>1. /\ me \in [Players -> Transports] /\ me[r] \in Transports
      /\ wire \in Wires /\ wire[s][r] \in Seq(Messages)
  <2> HIDE DEF msg, w
  <2>1. Types
    BY DEF Inv
  <2>2. me \in [Players -> Transports]
    BY <2>1 DEF Types, Transports
  <2>3. wire \in [Players -> [Players -> Seq(Messages)]]
    BY <2>1 DEF Types
  <2>4. wire[s][r] \in Seq(Messages)
    BY <2>3
  <2> QED BY <2>2, <2>3, <2>4 DEF Wires
<1>2. /\ Member(r) /\ s \in me[r].peers /\ wire[s][r] # <<>>
      /\ IF msg.type = "request" THEN wire' = OnRequest(w, r, s) /\ me' = me
         ELSE wire' = w /\ me' = [me EXCEPT ![r] = OnSetting(@, s, msg.value)]
      /\ owner' = owner /\ feed' = feed
  BY DEF PeerMessage, Member
<1>3. msg \in Messages /\ msg.type \in {"request", "setting"}
      /\ (msg.type = "setting" => msg.value \in Values)
  <2>1. msg \in Messages
    BY <1>1, <1>2, TailElements
  <2> QED BY <2>1 DEF Messages
<1>4. Came(s) /\ s # r /\ Came(r)
  BY <1>2, Shapes DEF NoticesInv, Truthful
<1>5. w \in Wires /\ \A a, b \in Players :
        w[a][b] = IF a = s /\ b = r THEN Tail(wire[s][r]) ELSE wire[a][b]
  BY <1>1, <1>2, TailElements DEF Wires
<1>6. /\ Told(Tail(wire[s][r])) => Told(wire[s][r])
      /\ \A v : EndsWith(wire[s][r], v) => EndsWith(Tail(wire[s][r]), v)
      /\ msg.type = "request" /\ Told(wire[s][r]) => Told(Tail(wire[s][r]))
      /\ msg.type = "setting" =>
           /\ Told(wire[s][r])
           /\ Asked(wire[s][r]) => Asked(Tail(wire[s][r]))
           /\ \A v : EndsWith(wire[s][r], v) => Told(Tail(wire[s][r])) \/ msg.value = v
  BY <1>1, <1>2, WireTail
<1> HIDE DEF msg, w
\* What a player that is told changes: only the value, and only if the owner told it.
<1>7. \A x \in Players :
        /\ me'[x].in = me[x].in /\ me'[x].owner = me[x].owner /\ me'[x].peers = me[x].peers
        /\ x # r \/ msg.type = "request" \/ me[r].owner # s => me'[x] = me[x]
        /\ x = r /\ msg.type = "setting" /\ me[r].owner = s =>
             me'[x].ready /\ me'[x].value = msg.value
  <2>1. CASE msg.type = "request"
    BY <1>2, <2>1
  <2>2. CASE msg.type = "setting"
    <3>1. me'[r] = OnSetting(me[r], s, msg.value) /\ \A x \in Players : x # r => me'[x] = me[x]
      BY <1>1, <1>2, <2>2
    <3>2. /\ me'[r].in = me[r].in /\ me'[r].owner = me[r].owner /\ me'[r].peers = me[r].peers
          /\ me[r].owner # s => me'[r] = me[r]
          /\ me[r].owner = s => me'[r].ready /\ me'[r].value = msg.value
      BY <1>1, <1>3, <2>2, <3>1 DEF OnSetting, Transports
    <3> QED BY <2>2, <3>1, <3>2
  <2> QED BY <1>3, <2>1, <2>2
<1>8. NoticesInv'
  BY <1>2, <1>7, SameNotices
\* The cells of the wire: one is shorter, and one longer if the owner was asked.
<1>9. ASSUME NEW a \in Players, NEW b \in Players
      PROVE  /\ IF msg.type = "request" /\ me[r].owner = r /\ a = r /\ b = s
                THEN Told(wire'[a][b]) /\ EndsWith(wire'[a][b], me[r].value)
                     /\ (Asked(wire[a][b]) => Asked(wire'[a][b]))
                ELSE wire'[a][b] = w[a][b]
  <2>1. CASE msg.type = "request" /\ me[r].owner = r
    <3>1. wire' = Advertise(w, r, me[r], {s})
      BY <1>2, <2>1 DEF OnRequest, IsOwner, Member
    <3>2. ~(a = s /\ b = r) => w[a][b] = wire[a][b]
      BY <1>5
    <3>3. AfterTelling(w[a][b], wire'[a][b], a = r /\ b \in {s}, me[r].value)
      BY <1>1, <1>5, <3>1, AdvertiseEffect
    <3> QED BY <1>4, <2>1, <3>2, <3>3 DEF AfterTelling
  <2>2. CASE ~(msg.type = "request" /\ me[r].owner = r)
    <3>1. wire' = w
      BY <1>2, <2>2 DEF OnRequest, IsOwner
    <3> QED BY <2>2, <3>1
  <2> QED BY <2>1, <2>2
<1>10. ASSUME NEW a \in Players, NEW b \in Players
       PROVE  /\ Told(w[a][b]) => Told(wire[a][b])
              /\ \A v : EndsWith(wire[a][b], v) => EndsWith(w[a][b], v)
              /\ a # s \/ b # r => w[a][b] = wire[a][b]
  BY <1>5, <1>6
<1>11. \A x \in Players : (me'[x].in <=> Member(x)) /\ (me'[x].owner # Nobody <=> Came(x))
  BY <1>7 DEF Member, Came
<1>12. Unwritten'
  <2>1. ASSUME NEW x \in Players, NEW q \in Players, ~Came(x)
        PROVE  wire'[q][x] = <<>>
    BY <1>4, <1>9, <1>10, <2>1 DEF WireInv, Unwritten
  <2> QED BY <1>11, <2>1 DEF Unwritten, Came
<1>13. OnlyOwnersTell'
  <2>1. ASSUME NEW q \in Players, NEW x \in Players, me'[q].owner # q
        PROVE  ~Told(wire'[q][x])
    <3>1. ~Told(wire[q][x]) /\ me[q].owner # q
      BY <1>7, <2>1 DEF WireInv, OnlyOwnersTell
    <3> QED BY <1>9, <1>10, <3>1
  <2> QED BY <2>1 DEF OnlyOwnersTell
<1>14. ToldLatest'
  <2>1. ASSUME NEW q \in Players, NEW x \in Players, IsOwner(me'[q], q), me'[x].in, x # q
        PROVE  /\ EndsWith(wire'[q][x], me'[q].value)
               /\ x \notin me'[q].peers => ~Told(wire'[q][x])
    <3>1. IsOwner(me[q], q) /\ Member(x) /\ me'[q].peers = me[q].peers
      BY <1>7, <1>11, <2>1 DEF IsOwner
    <3>2. me'[q] = me[q]
      BY <1>3, <1>4, <1>7, <3>1 DEF IsOwner
    <3>3. /\ EndsWith(wire[q][x], me[q].value)
          /\ x \notin me[q].peers => ~Told(wire[q][x])
      BY <2>1, <3>1 DEF WireInv, ToldLatest
    <3>4. CASE msg.type = "request" /\ me[r].owner = r /\ q = r /\ x = s
      BY <1>2, <1>9, <3>2, <3>4
    <3>5. CASE ~(msg.type = "request" /\ me[r].owner = r /\ q = r /\ x = s)
      BY <1>9, <1>10, <3>2, <3>3, <3>5
    <3> QED BY <3>4, <3>5
  <2> QED BY <2>1 DEF ToldLatest, Member
<1>15. OnItsWay'
  <2>1. ASSUME NEW q \in Players, NEW x \in Players, q = owner, Member(q), Member(x), x # q
        PROVE  Due(q, x)'
    <3>1. Due(q, x)
      BY <2>1 DEF WireInv, OnItsWay
    <3>2. /\ me'[q].owner = me[q].owner /\ me'[q].peers = me[q].peers
          /\ me[q].owner = q => me'[q] = me[q]
          /\ feed' = feed
      BY <1>2, <1>3, <1>4, <1>7
    <3>3. CASE Asked(wire[x][q])
      <4>1. CASE x = s /\ q = r /\ msg.type = "request"
        <5>1. x \in me[q].peers
          BY <1>2, <4>1
        <5>2. me[q].owner = q => Told(wire'[q][x])
          BY <1>9, <4>1
        <5>3. \A i : Admitted(me[q].peers, feed[q], i, x)
          BY <5>1 DEF Admitted
        <5> QED BY <3>2, <5>1, <5>2, <5>3 DEF Due
      <4>2. CASE ~(x = s /\ q = r /\ msg.type = "request")
        <5>1. Asked(w[x][q])
          BY <1>3, <1>5, <1>6, <3>3, <4>2
        <5>2. Asked(wire'[x][q])
          BY <1>9, <3>3, <5>1
        <5> QED BY <5>2 DEF Due
      <4> QED BY <4>1, <4>2
    <3>4. CASE me[q].owner = q /\ Renames(feed[x])
      BY <3>2, <3>4 DEF Due
    <3>5. CASE me[q].owner # q /\ ~Asked(wire[x][q])
      BY <3>1, <3>2, <3>5 DEF Due
    <3>6. CASE /\ me[q].owner = q /\ ~Renames(feed[x]) /\ x \in me[q].peers
               /\ Told(wire[q][x]) \/ (me[x].ready /\ me[x].value = me[q].value)
      <4>1. me[x].owner = q
        BY <2>1, <3>6 DEF NoticesInv, OwnerKnown
      <4>2. EndsWith(wire[q][x], me[q].value)
        BY <2>1, <3>6 DEF WireInv, ToldLatest, IsOwner, Member
      <4>3. Told(w[q][x]) => Told(wire'[q][x])
        BY <1>9
      <4>4. CASE q = s /\ x = r /\ msg.type = "setting"
        <5>1. Told(w[q][x]) \/ msg.value = me[q].value
          BY <1>5, <1>6, <4>2, <4>4
        <5>2. me'[x].ready /\ me'[x].value = msg.value
          BY <1>7, <4>1, <4>4
        <5> QED BY <3>2, <3>6, <4>3, <5>1, <5>2 DEF Due
      <4>5. CASE ~(q = s /\ x = r /\ msg.type = "setting")
        <5>1. me'[x] = me[x]
          BY <1>3, <1>7, <4>1, <4>5
        <5>2. Told(wire[q][x]) => Told(w[q][x])
          BY <1>3, <1>5, <1>6, <4>5
        <5> QED BY <3>2, <3>6, <4>3, <5>1, <5>2 DEF Due
      <4> QED BY <4>4, <4>5
    <3> QED BY <3>1, <3>3, <3>4, <3>5, <3>6 DEF Due
  <2> QED BY <1>2, <1>11, <2>1 DEF OnItsWay, Member
<1> QED BY <1>8, <1>12, <1>13, <1>14, <1>15 DEF WireInv

\* A new value is told to all the owner has admitted; the others have asked for it.
LEMMA PublishWire ==
  ASSUME OwnerAssumption, Inv, Inv', NoticesInv, WireInv,
         NEW p \in Players, NEW value \in Values, Publish(p, value)
  PROVE  WireInv' /\ NoticesInv'
<1> DEFINE t == [me[p] EXCEPT !.value = value, !.preferred = value, !.ready = TRUE]
<1>1. /\ me \in [Players -> Transports] /\ wire \in Wires /\ me[p] \in Transports
  BY DEF Inv, Types, Transports, Wires
<1>2. /\ Member(p) /\ me[p].owner = p
      /\ me' = [me EXCEPT ![p] = t] /\ wire' = Advertise(wire, p, t, t.peers)
      /\ owner' = owner /\ feed' = feed
  BY DEF Publish, Chosen, IsOwner, Member
<1>3. /\ t \in Transports /\ t.in = me[p].in /\ t.owner = p /\ t.peers = me[p].peers
      /\ t.value = value
  BY <1>1, <1>2 DEF Transports
<1> HIDE DEF t
<1>4. me'[p] = t /\ Others(p)
  BY <1>1, <1>2 DEF Others
<1>5. \A x \in Players : me'[x].in = me[x].in /\ me'[x].owner = me[x].owner
                         /\ me'[x].peers = me[x].peers /\ (x # p => me'[x] = me[x])
  BY <1>2, <1>3, <1>4 DEF Others
<1>6. NoticesInv'
  BY <1>2, <1>5, SameNotices
<1>7. p = owner
  BY <1>2, OwnersAreTrue
<1>8. \A a, b \in Players :
        /\ a = p /\ b \in me[p].peers => Told(wire'[a][b]) /\ EndsWith(wire'[a][b], value)
        /\ a # p \/ b \notin me[p].peers => wire'[a][b] = wire[a][b]
  <2>1. ASSUME NEW a \in Players, NEW b \in Players
        PROVE  AfterTelling(wire[a][b], wire'[a][b], a = p /\ b \in t.peers, t.value)
    BY <1>1, <1>2, <1>3, AdvertiseEffect
  <2> QED BY <1>3, <2>1 DEF AfterTelling
<1>9. \A x \in Players : (me'[x].in <=> Member(x)) /\ (me'[x].owner # Nobody <=> Came(x))
  BY <1>5 DEF Member, Came
<1>10. Unwritten'
  <2>1. \A x \in me[p].peers : Came(x)
    BY DEF NoticesInv, Truthful
  <2> QED BY <1>8, <1>9, <2>1 DEF WireInv, Unwritten, Came
<1>11. OnlyOwnersTell'
  BY <1>2, <1>5, <1>8 DEF WireInv, OnlyOwnersTell
<1>12. ToldLatest'
  <2>1. ASSUME NEW q \in Players, NEW x \in Players, IsOwner(me'[q], q), me'[x].in, x # q
        PROVE  /\ EndsWith(wire'[q][x], me'[q].value)
               /\ x \notin me'[q].peers => ~Told(wire'[q][x])
    <3>1. IsOwner(me[q], q) /\ Member(x) /\ me'[q].peers = me[q].peers
      BY <1>5, <1>9, <2>1 DEF IsOwner
    <3>2. q = p
      BY <1>7, <3>1, OwnersAreTrue DEF IsOwner, Member
    <3>3. x \notin me[q].peers => ~Told(wire[q][x])
      BY <2>1, <3>1 DEF WireInv, ToldLatest
    <3>4. CASE x \in me[p].peers
      BY <1>3, <1>4, <1>8, <3>1, <3>2, <3>4
    <3>5. CASE x \notin me[p].peers
      BY <1>8, <3>1, <3>2, <3>3, <3>5, UntoldEnds
    <3> QED BY <3>4, <3>5
  <2> QED BY <2>1 DEF ToldLatest, Member
<1>13. OnItsWay'
  <2>1. ASSUME NEW q \in Players, NEW x \in Players, q = owner, Member(q), Member(x), x # q
        PROVE  Due(q, x)'
    <3>1. Due(q, x) /\ q = p
      BY <1>7, <2>1 DEF WireInv, OnItsWay
    <3>2. wire'[x][q] = wire[x][q]
      BY <1>8, <2>1, <3>1
    <3>3. x \in me[q].peers => Told(wire'[q][x])
      BY <1>8, <3>1
    <3> QED BY <1>2, <1>5, <3>1, <3>2, <3>3 DEF Due
  <2> QED BY <1>2, <1>9, <2>1 DEF OnItsWay, Member
<1> QED BY <1>6, <1>10, <1>11, <1>12, <1>13 DEF WireInv

\* Once every message is read, nothing is on its way any more.
LEMMA QuietReaches ==
  ASSUME OwnerAssumption, Inv, NoticesInv, WireInv
  PROVE  OwnerValueReaches
<1> SUFFICES ASSUME Quiet, NEW p \in Members
             PROVE  me[p].ready /\ me[p].value = me[owner].value
  BY DEF OwnerValueReaches
<1>1. Members = {roster[i] : i \in 1 .. Len(roster)} /\ roster \in Seq(Players)
  <2>1. roster \in Seq(Players)
    BY DEF Inv, Types
  <2> QED BY <2>1 DEF Members, ToSet
<1>2. p \in Players /\ Member(p)
  BY <1>1 DEF Inv, Listed, Member
<1>3. owner \in Players /\ Member(owner) /\ owner \in Members
  <2>1. roster # <<>>
    BY <1>1
  <2> QED BY <1>1, <2>1 DEF Inv, Listed, Member
<1>4. \A x \in Players : feed[x] = <<>>
  BY DEF Quiet
<1>5. \A x \in Players : ~Renames(feed[x])
  BY <1>4 DEF Renames
<1>6. me[owner].owner = owner
  BY <1>3, <1>5 DEF NoticesInv, OwnerKnown
<1>7. CASE p = owner
  BY <1>2, <1>6, <1>7 DEF Inv, OwnerReady, IsOwner, Member
<1>8. CASE p # owner
  <2>1. wire[p][owner] = <<>> /\ wire[owner][p] = <<>>
    BY <1>3 DEF Quiet
  <2>2. Due(owner, p)
    BY <1>2, <1>3, <1>8 DEF WireInv, OnItsWay
  <2> QED BY <1>2, <1>5, <1>6, <2>1, <2>2, WireEmpty DEF Due
<1> QED BY <1>7, <1>8

\* Before anybody is in the room there are no notices and no messages.
LEMMA InitReach ==
  ASSUME OwnerAssumption, Init
  PROVE  NoticesInv /\ WireInv
<1>1. \A p \in Players : ~Member(p) /\ ~Came(p) /\ me[p].peers = {} /\ feed[p] = <<>>
  BY DEF Init, Outside, Member, Came
<1>2. \A p, q \in Players : wire[p][q] = <<>>
  BY DEF Init
<1>3. NoticesInv
  BY <1>1 DEF NoticesInv, Truthful, AllAdmitted, OwnersInOrder, OwnerKnown, OwnerAdmitted
<1>4. WireInv
  <2>1. \A p, q \in Players : ~Told(wire[p][q]) /\ \A v : EndsWith(wire[p][q], v)
    BY <1>2, WireEmpty
  <2> QED BY <1>1, <1>2, <2>1 DEF WireInv, Unwritten, OnlyOwnersTell, ToldLatest, OnItsWay
<1> QED BY <1>3, <1>4

\* Every step keeps the notices true and the values on their way.
LEMMA NextReach ==
  ASSUME OwnerAssumption, Inv, NoticesInv, WireInv, [Next]_vars
  PROVE  NoticesInv' /\ WireInv'
<1>1. Inv'
  BY NextInv
<1>2. CASE UNCHANGED vars
  BY <1>2 DEF vars, NoticesInv, Truthful, AllAdmitted, OwnersInOrder, OwnerKnown, OwnerAdmitted,
              WireInv, Unwritten, OnlyOwnersTell, ToldLatest, OnItsWay, Due, Came, Member
<1>3. ASSUME NEW p \in Players, Join(p) PROVE NoticesInv' /\ WireInv'
  BY <1>1, <1>3, JoinNotices, JoinWire
<1>4. ASSUME NEW p \in Players, Depart(p) PROVE NoticesInv' /\ WireInv'
  BY <1>1, <1>4, DepartNotices, DepartWire
<1>5. ASSUME NEW p \in Players, ServerMessage(p) PROVE NoticesInv' /\ WireInv'
  BY <1>1, <1>5, ServerNotices, ServerWire
<1>6. ASSUME NEW p \in Players, NEW q \in Players, PeerMessage(q, p) PROVE NoticesInv' /\ WireInv'
  BY <1>1, <1>6, PeerWire
<1>7. ASSUME NEW p \in Players, NEW value \in Values, Publish(p, value)
      PROVE  NoticesInv' /\ WireInv'
  BY <1>1, <1>7, PublishWire
<1> QED BY <1>2, <1>3, <1>4, <1>5, <1>6, <1>7 DEF Next

\* In whatever order the owner's departure, the joins and the messages of server
\* and players cross, and whatever a departing player's connection loses: once all
\* is read, every member is ready and has the value of the one that owns the room.
THEOREM OwnerValueArrives == OwnerAssumption /\ Spec => []OwnerValueReaches
<1> SUFFICES ASSUME OwnerAssumption PROVE Spec => []OwnerValueReaches
  OBVIOUS
<1> DEFINE Whole == Inv /\ NoticesInv /\ WireInv
<1>1. Init => Whole
  BY InitInv, InitReach
<1>2. Whole /\ [Next]_vars => Whole'
  BY NextInv, NextReach
<1>3. Whole => OwnerValueReaches
  BY QuietReaches
<1> QED BY <1>1, <1>2, <1>3, PTL DEF Spec
=============================================================================
