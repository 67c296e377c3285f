----------------------- MODULE SettingsBarrierProofs -----------------------
(***************************************************************************)
(* Proofs about a room's settings barrier, for every number of clients and *)
(* every bound.                                                            *)
(***************************************************************************)
EXTENDS SettingsBarrier, SequenceLemmas, WellFoundedInduction

-----------------------------------------------------------------------------
(***************************************************************************)
(* Pick, which filters a sequence by position.                             *)
(***************************************************************************)
\* The n-th sequence that Pick(q, K) goes through, if f are the earlier ones.
PickStep(q, K, f, n) ==
  IF n = 0 THEN <<>> ELSE IF n \in K THEN Append(f[n - 1], q[n]) ELSE f[n - 1]

\* Every set of naturals that is not empty has a least element: the induction
\* on the length of a sequence is made by a least counterexample.
LEMMA Least ==
  ASSUME NEW T, T \subseteq Nat, T # {}
  PROVE  \E m \in T : \A k \in T : m <= k
<1>1. PICK m \in T : \A k \in T : <<k, m>> \notin OpToRel(<, Nat)
  BY NatLessThanWellFounded, WFMin
<1>2. m \in T
  BY <1>1
<1>3. ASSUME NEW k \in T PROVE m <= k
  <2>1. <<k, m>> \notin OpToRel(<, Nat)
    BY <1>1
  <2>2. k \in Nat /\ m \in Nat
    BY <1>2
  <2>3. ~ (k < m)
    BY <2>1, <2>2 DEF OpToRel
  <2> QED BY <2>2, <2>3
<1> QED BY <1>2, <1>3

\* The sequences that Pick(q, K) goes through, up to the n-th.
PickedUpTo(S, q, K, n) ==
  \E f \in [0 .. n -> Seq(S)] : \A i \in 0 .. n : f[i] = PickStep(q, K, f, i)

\* There are such sequences, as far as the sequence picked from is long.
LEMMA PickExists ==
  ASSUME NEW S, NEW q \in Seq(S), NEW K, NEW n \in 0 .. Len(q)
  PROVE  PickedUpTo(S, q, K, n)
<1> DEFINE Good(k) == PickedUpTo(S, q, K, k)
           Bad == {k \in Nat : k <= Len(q) /\ ~Good(k)}
<1>1. SUFFICES ASSUME n \in Bad PROVE FALSE
  BY DEF Bad
<1>2. PICK m \in Bad : \A k \in Bad : m <= k
  <2>1. Bad \subseteq Nat /\ Bad # {}
    BY <1>1
  <2> HIDE DEF Bad
  <2> QED BY <2>1, Least
<1>3. m \in Nat /\ m <= Len(q) /\ ~Good(m)
  <2> HIDE DEF Good
  <2> QED BY <1>2
<1>4. CASE m = 0
  <2> DEFINE f == [i \in 0 .. 0 |-> <<>>]
  <2>1. f \in [0 .. 0 -> Seq(S)] /\ \A i \in 0 .. 0 : f[i] = PickStep(q, K, f, i)
    BY DEF PickStep
  <2> QED BY <1>3, <1>4, <2>1 DEF PickedUpTo
<1>5. CASE m # 0
  <2>1. m - 1 \in Nat /\ m - 1 <= Len(q) /\ Good(m - 1)
    <3>1. m - 1 \in Nat /\ m - 1 <= Len(q) /\ ~ (m <= m - 1)
      BY <1>3, <1>5
    <3>2. m - 1 \notin Bad
      <4> HIDE DEF Bad
      <4> QED BY <1>2, <3>1
    <3> HIDE DEF Good
    <3> QED BY <3>1, <3>2
  <2>2. PICK f \in [0 .. m - 1 -> Seq(S)] : \A i \in 0 .. m - 1 : f[i] = PickStep(q, K, f, i)
    BY <2>1 DEF PickedUpTo
  <2> DEFINE v == IF m \in K THEN Append(f[m - 1], q[m]) ELSE f[m - 1]
             g == [i \in 0 .. m |-> IF i = m THEN v ELSE f[i]]
  <2>3. v \in Seq(S)
    BY <1>3, <1>5, <2>1
  <2>4. g \in [0 .. m -> Seq(S)]
    BY <1>3, <2>3
  <2>5. ASSUME NEW i \in 0 .. m PROVE g[i] = PickStep(q, K, g, i)
    <3>1. CASE i = m
      BY <1>3, <1>5, <3>1 DEF PickStep
    <3>2. CASE i # m
      <4>1. i \in 0 .. m - 1 /\ g[i] = f[i] /\ (i # 0 => g[i - 1] = f[i - 1])
        BY <1>3, <3>2
      <4> QED BY <2>2, <4>1 DEF PickStep
    <3> QED BY <3>1, <3>2
  <2> QED BY <1>3, <2>4, <2>5 DEF PickedUpTo
<1> QED BY <1>4, <1>5

\* p holds the elements of q at the positions in K and no others.
Picked(S, q, K, p) ==
  /\ p \in Seq(S)
  /\ \A j \in 1 .. Len(p) : \E i \in 1 .. Len(q) : i \in K /\ p[j] = q[i]
  /\ \A i \in 1 .. Len(q) : i \in K => \E j \in 1 .. Len(p) : p[j] = q[i]

\* Pick returns the elements at the positions named and no others.
LEMMA PickElements ==
  ASSUME NEW S, NEW q \in Seq(S), NEW K
  PROVE  Picked(S, q, K, Pick(q, K))
<1> DEFINE N == 0 .. Len(q)
           f == CHOOSE f : f = [n \in N |-> PickStep(q, K, f, n)]
<1>1. \E g : g = [n \in N |-> PickStep(q, K, g, n)]
  <2>1. Len(q) \in 0 .. Len(q)
    OBVIOUS
  <2>2. PickedUpTo(S, q, K, Len(q))
    BY <2>1, PickExists
  <2>4. PICK g \in [N -> Seq(S)] : \A i \in N : g[i] = PickStep(q, K, g, i)
    BY <2>2 DEF PickedUpTo
  <2> QED BY <2>4
<1>2. f = [n \in N |-> PickStep(q, K, f, n)]
  BY <1>1
<1>3. Pick(q, K) = f[Len(q)]
  BY DEF Pick, PickStep
<1> HIDE DEF f
<1>4. \A i \in N : f[i] = PickStep(q, K, f, i)
  BY <1>2
<1> DEFINE Ok(k) ==
      /\ f[k] \in Seq(S)
      /\ \A j \in 1 .. Len(f[k]) : \E i \in 1 .. k : i \in K /\ f[k][j] = q[i]
      /\ \A i \in 1 .. k : i \in K => \E j \in 1 .. Len(f[k]) : f[k][j] = q[i]
           Bad == {k \in Nat : k <= Len(q) /\ ~Ok(k)}
<1>5. SUFFICES ASSUME Len(q) \in Bad PROVE FALSE
  <2>1. Ok(Len(q)) <=> Len(q) \notin Bad
    BY DEF Bad
  <2> HIDE DEF Bad
  <2> QED BY <1>3, <2>1 DEF Picked
<1>6. PICK m \in Bad : \A k \in Bad : m <= k
  <2>1. Bad \subseteq Nat /\ Bad # {}
    BY <1>5
  <2> HIDE DEF Bad
  <2> QED BY <2>1, Least
<1>7. m \in Nat /\ m <= Len(q) /\ ~Ok(m) /\ m \in N
  <2> HIDE DEF Ok
  <2> QED BY <1>6
<1>8. CASE m = 0
  <2>1. f[0] = <<>>
    BY <1>4, <1>7, <1>8 DEF PickStep
  <2> QED BY <1>7, <1>8, <2>1
<1>9. CASE m # 0
  <2>1. m - 1 \in Nat /\ m - 1 <= Len(q) /\ Ok(m - 1)
    <3>1. m - 1 \in Nat /\ m - 1 <= Len(q) /\ ~ (m <= m - 1)
      BY <1>7, <1>9
    <3>2. m - 1 \notin Bad
      <4> HIDE DEF Bad
      <4> QED BY <1>6, <3>1
    <3> HIDE DEF Ok
    <3> QED BY <3>1, <3>2
  <2>2. q[m] \in S /\ m \in 1 .. Len(q)
    BY <1>7, <1>9
  <2> DEFINE a == f[m - 1]
  <2>3. CASE m \in K
    <3>1. f[m] = Append(a, q[m])
      BY <1>4, <1>7, <1>9, <2>3 DEF PickStep
    <3> HIDE DEF a
    <3>2. /\ a \in Seq(S)
          /\ \A j \in 1 .. Len(a) : \E i \in 1 .. m - 1 : i \in K /\ a[j] = q[i]
          /\ \A i \in 1 .. m - 1 : i \in K => \E j \in 1 .. Len(a) : a[j] = q[i]
      BY <2>1 DEF a
    <3>3. /\ Append(a, q[m]) \in Seq(S) /\ Len(a) \in Nat
          /\ Len(Append(a, q[m])) = Len(a) + 1
          /\ \A i \in 1 .. Len(a) + 1 : Append(a, q[m])[i] = IF i = Len(a) + 1 THEN q[m] ELSE a[i]
      BY <2>2, <3>2, AppendElements
    <3> DEFINE b == Append(a, q[m])
    <3>4. \A j \in 1 .. Len(b) : \E i \in 1 .. m : i \in K /\ b[j] = q[i]
      <4> SUFFICES ASSUME NEW j \in 1 .. Len(b) PROVE \E i \in 1 .. m : i \in K /\ b[j] = q[i]
        OBVIOUS
      <4>1. CASE j = Len(a) + 1
        BY <2>2, <2>3, <3>3, <4>1
      <4>2. CASE j \in 1 .. Len(a)
        <5>1. PICK i \in 1 .. m - 1 : i \in K /\ a[j] = q[i]
          BY <3>2, <4>2
        <5>2. b[j] = a[j] /\ i \in 1 .. m
          BY <1>7, <3>3, <4>2
        <5> QED BY <5>1, <5>2
      <4> QED BY <3>3, <4>1, <4>2
    <3>5. \A i \in 1 .. m : i \in K => \E j \in 1 .. Len(b) : b[j] = q[i]
      <4> SUFFICES ASSUME NEW i \in 1 .. m, i \in K PROVE \E j \in 1 .. Len(b) : b[j] = q[i]
        OBVIOUS
      <4>1. CASE i = m
        <5>1. Len(a) + 1 \in 1 .. Len(b) /\ b[Len(a) + 1] = q[m]
          BY <3>3
        <5> QED BY <4>1, <5>1
      <4>2. CASE i # m
        <5>1. i \in 1 .. m - 1
          BY <1>7, <4>2
        <5>2. PICK j \in 1 .. Len(a) : a[j] = q[i]
          BY <3>2, <5>1
        <5>3. j \in 1 .. Len(b) /\ b[j] = a[j]
          BY <3>3
        <5> QED BY <5>2, <5>3
      <4> QED BY <4>1, <4>2
    <3>6. f[m] = b /\ b \in Seq(S)
      BY <3>1, <3>3
    <3> HIDE DEF b
    <3>7. Ok(m)
      BY <3>4, <3>5, <3>6
    <3> HIDE DEF Ok
    <3> QED BY <1>7, <3>7
  <2>4. CASE m \notin K
    <3>1. f[m] = a
      BY <1>4, <1>7, <1>9, <2>4 DEF PickStep
    <3> HIDE DEF a
    <3>2. /\ a \in Seq(S)
          /\ \A j \in 1 .. Len(a) : \E i \in 1 .. m - 1 : i \in K /\ a[j] = q[i]
          /\ \A i \in 1 .. m - 1 : i \in K => \E j \in 1 .. Len(a) : a[j] = q[i]
      BY <2>1 DEF a
    <3>3. \A i \in 1 .. m - 1 : i \in 1 .. m
      BY <1>7
    <3>4. \A i \in 1 .. m : i \in K => i \in 1 .. m - 1
      BY <1>7, <2>4
    <3> QED BY <1>7, <3>1, <3>2, <3>3, <3>4
  <2> QED BY <2>3, <2>4
<1> QED BY <1>8, <1>9

\* The two parts of a sequence that is cut after its n-th element.
LEMMA CutElements ==
  ASSUME NEW S, NEW q \in Seq(S), NEW n \in 0 .. Len(q)
  PROVE  /\ SubSeq(q, 1, n) \in Seq(S) /\ Len(SubSeq(q, 1, n)) = n
         /\ \A i \in 1 .. n : SubSeq(q, 1, n)[i] = q[i]
         /\ SubSeq(q, n + 1, Len(q)) \in Seq(S)
         /\ Len(SubSeq(q, n + 1, Len(q))) = Len(q) - n /\ Len(q) \in Nat
         /\ \A i \in 1 .. Len(q) - n : SubSeq(q, n + 1, Len(q))[i] = q[n + i]
<1>1. Len(q) \in Nat /\ n \in Nat
  OBVIOUS
<1>2. SubSeq(q, 1, n) = [i \in 1 .. n |-> q[i]]
  BY <1>1
<1>3. SubSeq(q, n + 1, Len(q)) = [i \in 1 .. Len(q) - n |-> q[n + i]]
  BY <1>1
<1>4. \A i \in 1 .. n : q[i] \in S
  BY <1>1
<1>5. \A i \in 1 .. Len(q) - n : q[n + i] \in S
  BY <1>1
<1>6. Len(q) - n \in Nat
  BY <1>1
<1> QED BY <1>1, <1>2, <1>3, <1>4, <1>5, <1>6, SMTT(30)
-----------------------------------------------------------------------------
(***************************************************************************)
(* What is sent.                                                           *)
(***************************************************************************)

SettingOrNone == Setting \cup {None}

Body == [kind : {"gameplay", "barrier"}, generation : Nat, after : SettingOrNone]

Item ==
  [kind : {"gameplay"}, target : Client \cup {None}, after : SettingOrNone] \cup
  [kind : {"settings"}, settings : Setting]

UpMessage ==
  [type : {"hello"}] \cup
  [type : {"room_settings"}, settings : Setting] \cup
  [type : {"peer_reliable"}, recipients : SUBSET Client, body : Body] \cup
  [type : {"settings_ready"}, generation : Nat] \cup
  [type : {"kick"}, target : Client]

DownMessage ==
  [type : {"welcome"}, generation : Nat, pending : BOOLEAN, settings : Setting,
   owner : Client, peers : SUBSET Client] \cup
  [type : {"error", "kicked"}] \cup
  [type : {"peer_joined", "peer_left"}, id : Client] \cup
  [type : {"owner_changed"}, owner : Client] \cup
  [type : {"settings_prepare"}, generation : Nat, participants : SUBSET Client] \cup
  [type : {"room_settings"}, generation : Nat, settings : Setting, owner : Client] \cup
  [type : {"peer_reliable"}, from : Client, body : Body]

-----------------------------------------------------------------------------
(***************************************************************************)
(* The invariant.                                                          *)
(***************************************************************************)

StreamTypes ==
  /\ up \in [Client -> Seq(UpMessage)]
  /\ down \in [Client -> Seq(DownMessage)]
  /\ link \in [Client -> [Client -> Seq(Body)]]

ClientTypes ==
  /\ phase \in [Client -> {"out", "joining", "in", "gone"}]
  /\ why \in [Client -> Reason]
  /\ peers \in [Client -> SUBSET Client]
  /\ isOwner \in [Client -> BOOLEAN]
  /\ cgen \in [Client -> Nat]
  /\ cset \in [Client -> SettingOrNone]
  /\ requested \in [Client -> BOOLEAN]
  /\ barrier \in [Client -> BOOLEAN]
  /\ observer \in [Client -> BOOLEAN]
  /\ ready \in [Client -> BOOLEAN]
  /\ expected \in [Client -> SUBSET Client]
  /\ seen \in [Client -> SUBSET Client]
  /\ futureSeen \in [Client -> SUBSET Client]
  /\ asked \in [Client -> SettingOrNone]

QueueTypes ==
  /\ deferred \in [Client -> Seq(Item)]
  /\ \A c \in Client : Len(deferred[c]) <= MaxDeferred
  /\ future \in [Client -> [Client -> Seq(Body)]]

\* The relay's room, empty or with an owner among its members and the settings
\* of every generation so far.
RoomTypes ==
  /\ members \in Seq(Client)
  /\ generation \in Nat
  /\ pending \in SettingOrNone
  /\ waiting \subseteq Members
  /\ closing \subseteq Members
  /\ agreed \in Seq(Setting)
  /\ pending = None <=> waiting = {}

RoomStanding ==
  /\ members = <<>> =>
       /\ owner = None /\ settings = None /\ pending = None
       /\ generation = 0 /\ agreed = <<>>
  /\ members # <<>> =>
       /\ owner \in Members
       /\ Len(agreed) = generation + 1
       /\ settings = agreed[generation + 1]

Typed == StreamTypes /\ ClientTypes /\ QueueTypes /\ RoomTypes

\* A client is a member only between the relay's reading of its hello and its
\* removal, and the first thing it reads as a member is its welcome.
ClientStanding(c) ==
  /\ phase[c] = "out" => up[c] = <<>> /\ down[c] = <<>> /\ c \notin Members
  /\ phase[c] = "joining" =>
       \/ up[c] = <<[type |-> "hello"]>> /\ down[c] = <<>> /\ c \notin Members
       \/ up[c] = <<>> /\ c \notin Members
       \/ up[c] = <<>> /\ down[c] # <<>> /\ down[c][1].type = "welcome"
  /\ phase[c] \in {"in", "gone"} =>
       \A i \in 1 .. Len(up[c]) : up[c][i].type # "hello"
  /\ phase[c] # "gone" => \A i \in 1 .. Len(down[c]) :
       down[c][i].type = "welcome" => i = 1 /\ phase[c] = "joining"

\* The settings generation that c is in before it reads a commit.
Base(c) == IF phase[c] = "joining" THEN down[c][1].generation ELSE cgen[c]

BaseSettings(c) == IF phase[c] = "joining" THEN down[c][1].settings ELSE cset[c]

CommitAt(c, i) == down[c][i].type = "room_settings"

\* A member has the settings of its generation and is at most one commit
\* behind the relay, which is then on its way; one that the relay no longer
\* waits for is not behind.
MemberStanding(c) ==
  /\ Base(c) \in Nat
  /\ BaseSettings(c) = agreed[Base(c) + 1]
  /\ \A i, j \in 1 .. Len(down[c]) : CommitAt(c, i) /\ CommitAt(c, j) => i = j
  /\ \A i \in 1 .. Len(down[c]) : CommitAt(c, i) =>
       /\ Base(c) + 1 = generation
       /\ down[c][i].generation = generation
       /\ down[c][i].settings = agreed[generation + 1]
  /\ (\A i \in 1 .. Len(down[c]) : ~CommitAt(c, i)) => Base(c) = generation
  /\ pending # None /\ c \notin waiting => Base(c) = generation

\* Nobody is ready for a generation further than the next one.
ReadyInTime(c) ==
  \A i \in 1 .. Len(up[c]) :
    up[c][i].type = "settings_ready" => up[c][i].generation <= cgen[c] + 1

NamesOwner(m) == m.type \in {"welcome", "owner_changed", "room_settings"}

\* Whoever is told that it is the owner is.
OwnerStanding(c) ==
  /\ phase[c] = "in" /\ isOwner[c] => owner = c
  /\ \A i \in 1 .. Len(down[c]) :
       NamesOwner(down[c][i]) /\ down[c][i].owner = c => owner = c

Present(c) == c \in Members /\ phase[c] # "gone"

ClientInv(c) ==
  /\ ClientStanding(c)
  /\ phase[c] = "in" => ReadyInTime(c)
  /\ Present(c) => MemberStanding(c) /\ OwnerStanding(c)

RoomInv == Typed /\ RoomStanding /\ \A c \in Client : ClientInv(c)
-----------------------------------------------------------------------------
(***************************************************************************)
(* Messages have the fields of their type.                                 *)
(***************************************************************************)

\* The fields of what a client uploads.
LEMMA UpFields ==
  ASSUME NEW m \in UpMessage
  PROVE  /\ m.type \in {"hello", "room_settings", "peer_reliable", "settings_ready", "kick"}
         /\ m.type = "hello" => m = [type |-> "hello"]
         /\ m.type = "room_settings" => m.settings \in Setting
         /\ m.type = "peer_reliable" => m.recipients \subseteq Client /\ m.body \in Body
         /\ m.type = "settings_ready" => m.generation \in Nat
         /\ m.type = "kick" => m.target \in Client
BY DEF UpMessage

\* The fields of what the relay sends.
LEMMA DownFields ==
  ASSUME NEW m \in DownMessage
  PROVE  /\ m.type = "welcome" =>
              /\ m.generation \in Nat /\ m.pending \in BOOLEAN /\ m.settings \in Setting
              /\ m.owner \in Client /\ m.peers \subseteq Client
         /\ m.type \in {"peer_joined", "peer_left"} => m.id \in Client
         /\ m.type = "owner_changed" => m.owner \in Client
         /\ m.type = "settings_prepare" =>
              m.generation \in Nat /\ m.participants \subseteq Client
         /\ m.type = "room_settings" =>
              m.generation \in Nat /\ m.settings \in Setting /\ m.owner \in Client
         /\ m.type = "peer_reliable" => m.from \in Client /\ m.body \in Body
BY DEF DownMessage

\* What the clients and the relay compose is typed.
LEMMA UpMade ==
  /\ [type |-> "hello"] \in UpMessage
  /\ \A v \in Setting : [type |-> "room_settings", settings |-> v] \in UpMessage
  /\ \A R \in SUBSET Client : \A b \in Body :
       [type |-> "peer_reliable", recipients |-> R, body |-> b] \in UpMessage
  /\ \A g \in Nat : [type |-> "settings_ready", generation |-> g] \in UpMessage
  /\ \A t \in Client : [type |-> "kick", target |-> t] \in UpMessage
BY DEF UpMessage

\* The relay composes only messages of the right type.
LEMMA DownMade ==
  /\ \A g \in Nat, p \in BOOLEAN, v \in Setting, o \in Client, P \in SUBSET Client :
       [type |-> "welcome", generation |-> g, pending |-> p, settings |-> v, owner |-> o,
        peers |-> P] \in DownMessage
  /\ [type |-> "error"] \in DownMessage
  /\ [type |-> "kicked"] \in DownMessage
  /\ \A i \in Client : [type |-> "peer_joined", id |-> i] \in DownMessage
  /\ \A i \in Client : [type |-> "peer_left", id |-> i] \in DownMessage
  /\ \A o \in Client : [type |-> "owner_changed", owner |-> o] \in DownMessage
  /\ \A g \in Nat, P \in SUBSET Client :
       [type |-> "settings_prepare", generation |-> g, participants |-> P] \in DownMessage
  /\ \A g \in Nat, v \in Setting, o \in Client :
       [type |-> "room_settings", generation |-> g, settings |-> v, owner |-> o]
         \in DownMessage
  /\ \A s \in Client, b \in Body :
       [type |-> "peer_reliable", from |-> s, body |-> b] \in DownMessage
BY DEF DownMessage

\* So do clients when they compose gameplay and markers.
LEMMA BodyMade ==
  ASSUME NEW g \in Nat
  PROVE  Marker(g) \in Body /\ \A a \in SettingOrNone : Gameplay(g, a) \in Body
BY DEF Marker, Gameplay, Body, SettingOrNone

\* The fields of what the application submits.
LEMMA ItemFields ==
  ASSUME NEW m \in Item
  PROVE  /\ m.kind \in {"gameplay", "settings"}
         /\ m.kind = "gameplay" => m.target \in Client \cup {None} /\ m.after \in SettingOrNone
         /\ m.kind = "settings" => m.settings \in Setting
BY DEF Item

\* A message that is sent on a condition, as a sequence.
LEMMA WhenSeq ==
  ASSUME NEW S, NEW m, NEW p, p => m \in S
  PROVE  /\ When(p, m) \in Seq(S)
         /\ p => When(p, m) = <<m>>
         /\ ~p => When(p, m) = <<>>
BY DEF When

-----------------------------------------------------------------------------
(***************************************************************************)
(* Sending, at a client.                                                   *)
(***************************************************************************)

\* What items make a client upload is gameplay of its generation for peers
\* without a direct route, and settings changes.
LEMMA UploadsElements ==
  ASSUME ClientTypes, NEW c \in Client, NEW items \in Seq(Item)
  PROVE  /\ Uploads(c, items) \in Seq(UpMessage)
         /\ \A j \in 1 .. Len(Uploads(c, items)) : \E i \in 1 .. Len(items) :
              Uploads(c, items)[j] = Upload(c, items[i])
<1> DEFINE all == [i \in DOMAIN items |-> Upload(c, items[i])]
           K == {i \in DOMAIN all : \/ all[i].type = "room_settings"
                                    \/ all[i].recipients # {}}
<1>1. ASSUME NEW i \in 1 .. Len(items) PROVE Upload(c, items[i]) \in UpMessage
  <2>1. items[i] \in Item
    OBVIOUS
  <2>2. CASE items[i].kind = "settings"
    <3>1. items[i].settings \in Setting
      BY <2>1, <2>2, ItemFields
    <3> QED BY <2>2, <3>1, UpMade DEF Upload
  <2>3. CASE items[i].kind # "settings"
    <3>1. items[i].target \in Client \cup {None} /\ items[i].after \in SettingOrNone
      BY <2>1, <2>3, ItemFields
    <3>2. cgen[c] \in Nat /\ peers[c] \subseteq Client
      BY DEF ClientTypes
    <3>3. {r \in Recipients(c, items[i]) : {c, r} \notin Direct} \in SUBSET Client
      BY <3>1, <3>2 DEF Recipients
    <3>4. Gameplay(cgen[c], items[i].after) \in Body
      BY <3>1, <3>2, BodyMade
    <3> QED BY <2>3, <3>3, <3>4, UpMade DEF Upload
  <2> QED BY <2>2, <2>3
<1>2. all \in Seq(UpMessage) /\ Len(all) = Len(items)
      /\ \A i \in 1 .. Len(items) : all[i] = Upload(c, items[i])
  BY <1>1
<1>3. Uploads(c, items) = Pick(all, K)
  BY DEF Uploads
<1> HIDE DEF all, K
<1>4. Picked(UpMessage, all, K, Pick(all, K))
  BY <1>2, PickElements
<1> QED BY <1>2, <1>3, <1>4 DEF Picked

\* What items put on a direct link is gameplay of the client's generation.
LEMMA DirectBodiesElements ==
  ASSUME ClientTypes, NEW c \in Client, NEW r \in Client, NEW items \in Seq(Item)
  PROVE  /\ DirectBodies(c, items, r) \in Seq(Body)
         /\ \A j \in 1 .. Len(DirectBodies(c, items, r)) :
              /\ {c, r} \in Direct
              /\ \E i \in 1 .. Len(items) :
                   /\ items[i].kind = "gameplay" /\ r \in Recipients(c, items[i])
                   /\ DirectBodies(c, items, r)[j] = Gameplay(cgen[c], items[i].after)
<1> DEFINE K == {i \in DOMAIN items : /\ items[i].kind = "gameplay"
                                      /\ r \in Recipients(c, items[i])
                                      /\ {c, r} \in Direct}
           mine == Pick(items, K)
<1>1. DirectBodies(c, items, r) = [i \in DOMAIN mine |-> Gameplay(cgen[c], mine[i].after)]
  BY DEF DirectBodies
<1>2. \A i \in K : /\ items[i].kind = "gameplay" /\ r \in Recipients(c, items[i])
                   /\ {c, r} \in Direct
  OBVIOUS
<1> HIDE DEF K
<1>3. /\ mine \in Seq(Item)
      /\ \A j \in 1 .. Len(mine) : \E i \in 1 .. Len(items) : i \in K /\ mine[j] = items[i]
  <2>1. Picked(Item, items, K, mine)
    BY PickElements
  <2> HIDE DEF mine
  <2> QED BY <2>1 DEF Picked
<1> HIDE DEF mine
<1>4. ASSUME NEW j \in 1 .. Len(mine)
      PROVE  /\ Gameplay(cgen[c], mine[j].after) \in Body
             /\ {c, r} \in Direct
             /\ \E i \in 1 .. Len(items) :
                  /\ items[i].kind = "gameplay" /\ r \in Recipients(c, items[i])
                  /\ Gameplay(cgen[c], mine[j].after) = Gameplay(cgen[c], items[i].after)
  <2>1. PICK i \in 1 .. Len(items) : i \in K /\ mine[j] = items[i]
    BY <1>3
  <2>2. items[i].after \in SettingOrNone
    BY <1>2, <2>1, ItemFields
  <2>3. cgen[c] \in Nat
    BY DEF ClientTypes
  <2> QED BY <1>2, <2>1, <2>2, <2>3, BodyMade
<1>5. DirectBodies(c, items, r) \in Seq(Body)
      /\ Len(DirectBodies(c, items, r)) = Len(mine)
      /\ \A j \in 1 .. Len(mine) : DirectBodies(c, items, r)[j] = Gameplay(cgen[c], mine[j].after)
  <2>1. DOMAIN mine = 1 .. Len(mine) /\ Len(mine) \in Nat
    BY SMTT(30), <1>3
  <2>2. PICK n \in Nat : n = Len(mine)
    BY <2>1
  <2> DEFINE d == [i \in 1 .. n |-> Gameplay(cgen[c], mine[i].after)]
  <2>3. DirectBodies(c, items, r) = d
    BY <1>1, <2>1, <2>2
  <2>4. d \in Seq(Body) /\ Len(d) = n
    BY <1>4, <2>2
  <2> QED BY <2>2, <2>3, <2>4
<1> QED BY <1>4, <1>5, ZenonT(30)

\* Sending keeps the streams typed and adds no hello and no readiness.
LEMMA SendTyped ==
  ASSUME StreamTypes, ClientTypes, NEW c \in Client, NEW items \in Seq(Item),
         SendItems(c, items)
  PROVE  /\ up' \in [Client -> Seq(UpMessage)]
         /\ link' \in [Client -> [Client -> Seq(Body)]]
         /\ requested' \in [Client -> BOOLEAN]
         /\ up' = [up EXCEPT ![c] = @ \o Uploads(c, items)]
         /\ \A j \in 1 .. Len(Uploads(c, items)) :
              Uploads(c, items)[j].type \in {"room_settings", "peer_reliable"}
<1>1. Uploads(c, items) \in Seq(UpMessage)
  BY UploadsElements
<1>2. \A j \in 1 .. Len(Uploads(c, items)) : 
        Uploads(c, items)[j].type \in {"room_settings", "peer_reliable"}
  <2> SUFFICES ASSUME NEW j \in 1 .. Len(Uploads(c, items))
               PROVE  Uploads(c, items)[j].type \in {"room_settings", "peer_reliable"}
    OBVIOUS
  <2>1. PICK i \in 1 .. Len(items) : Uploads(c, items)[j] = Upload(c, items[i])
    BY UploadsElements
  <2> QED BY <2>1 DEF Upload
<1>3. up[c] \o Uploads(c, items) \in Seq(UpMessage)
  BY <1>1, ConcatElements DEF StreamTypes
<1>4. \A r \in Client : link[c][r] \o DirectBodies(c, items, r) \in Seq(Body)
  <2> SUFFICES ASSUME NEW r \in Client
               PROVE  link[c][r] \o DirectBodies(c, items, r) \in Seq(Body)
    OBVIOUS
  <2>1. link[c][r] \in Seq(Body) /\ DirectBodies(c, items, r) \in Seq(Body)
    BY DirectBodiesElements DEF StreamTypes
  <2> QED BY <2>1, ConcatElements
<1>5. up' = [up EXCEPT ![c] = @ \o Uploads(c, items)]
      /\ link' = [link EXCEPT ![c] = [r \in Client |-> @[r] \o DirectBodies(c, items, r)]]
      /\ requested' = [requested EXCEPT ![c] = \E i \in DOMAIN items : items[i].kind = "settings"]
  BY DEF SendItems
<1>6. up' \in [Client -> Seq(UpMessage)]
  BY <1>3, <1>5 DEF StreamTypes
<1>7. [r \in Client |-> link[c][r] \o DirectBodies(c, items, r)] \in [Client -> Seq(Body)]
  BY <1>4
<1>8. link' \in [Client -> [Client -> Seq(Body)]]
  BY <1>5, <1>7 DEF StreamTypes
<1>9. requested' \in [Client -> BOOLEAN]
  BY <1>5 DEF ClientTypes
<1> QED BY <1>2, <1>5, <1>6, <1>8, <1>9
-----------------------------------------------------------------------------
(***************************************************************************)
(* What the relay tells a client.                                          *)
(***************************************************************************)

\* Every client r that still reads has been sent t[r].
Heard(t) ==
  /\ down' \in [Client -> Seq(DownMessage)]
  /\ \A r \in Client : phase[r] # "gone" => down'[r] = down[r] \o t[r]

\* The client r is told q and does nothing itself; the relay may have read a
\* message of it if it is a member.
Kept(r, q) ==
  /\ phase'[r] = phase[r] /\ isOwner'[r] = isOwner[r]
  /\ cgen'[r] = cgen[r] /\ cset'[r] = cset[r]
  /\ \/ up'[r] = up[r]
     \/ r \in Members /\ up[r] # <<>> /\ up'[r] = Tail(up[r])
  /\ phase[r] # "gone" => down'[r] = down[r] \o q

NoWelcome(q) == \A i \in 1 .. Len(q) : q[i].type # "welcome"

NoCommit(q) == \A i \in 1 .. Len(q) : q[i].type # "room_settings"

NamesNobody(q) == \A i \in 1 .. Len(q) : ~NamesOwner(q[i])

\* What is in a stream after more has been sent.
LEMMA DownAppended ==
  ASSUME StreamTypes, NEW r \in Client, NEW q \in Seq(DownMessage), Kept(r, q),
         phase[r] # "gone"
  PROVE  /\ down'[r] \in Seq(DownMessage)
         /\ Len(down'[r]) = Len(down[r]) + Len(q)
         /\ Len(down[r]) \in Nat /\ Len(q) \in Nat
         /\ \A i \in 1 .. Len(down[r]) :
              i \in 1 .. Len(down'[r]) /\ down'[r][i] = down[r][i]
         /\ \A i \in 1 .. Len(down'[r]) :
              \/ i \in 1 .. Len(down[r]) /\ down'[r][i] = down[r][i]
              \/ /\ i - Len(down[r]) \in 1 .. Len(q)
                 /\ down'[r][i] = q[i - Len(down[r])]
<1>1. down[r] \in Seq(DownMessage)
  BY DEF StreamTypes
<1>2. down'[r] = down[r] \o q
  BY DEF Kept
<1>3. PICK d \in Seq(DownMessage) : d = down[r]
  BY <1>1
<1>4. PICK e \in Seq(DownMessage) : e = down'[r]
  BY <1>1, <1>2, ConcatElements
<1>5. e = d \o q
  BY <1>2, <1>3, <1>4
<1>6. /\ Len(e) = Len(d) + Len(q) /\ Len(d) \in Nat /\ Len(q) \in Nat
      /\ \A i \in 1 .. Len(d) + Len(q) : e[i] = IF i <= Len(d) THEN d[i] ELSE q[i - Len(d)]
  BY <1>5, ConcatElements
<1> QED BY <1>3, <1>4, <1>6, SMTT(30)

\* What is in a stream whose first message has been read.
LEMMA TailRead ==
  ASSUME NEW S, NEW q \in Seq(S), NEW p, p = q \/ (q # <<>> /\ p = Tail(q))
  PROVE  /\ p \in Seq(S)
         /\ \A i \in 1 .. Len(p) : \E j \in 1 .. Len(q) : p[i] = q[j]
<1>1. CASE p = q
  BY <1>1
<1>2. CASE q # <<>> /\ p = Tail(q)
  <2>1. /\ p \in Seq(S) /\ Len(q) \in Nat /\ Len(p) = Len(q) - 1
        /\ \A i \in 1 .. Len(q) - 1 : p[i] = q[i + 1]
    BY <1>2, TailElements
  <2>2. \A i \in 1 .. Len(p) : i + 1 \in 1 .. Len(q) /\ p[i] = q[i + 1]
    BY <2>1
  <2> QED BY <2>1, <2>2
<1> QED BY <1>1, <1>2

\* What the relay has not read of a client's stream.
LEMMA UpRead ==
  ASSUME StreamTypes, NEW r \in Client,
         up'[r] = up[r] \/ (up[r] # <<>> /\ up'[r] = Tail(up[r]))
  PROVE  /\ up'[r] \in Seq(UpMessage)
         /\ \A i \in 1 .. Len(up'[r]) : \E j \in 1 .. Len(up[r]) : up'[r][i] = up[r][j]
<1>1. PICK q \in Seq(UpMessage) : q = up[r]
  BY DEF StreamTypes
<1>2. PICK p : p = up'[r]
  OBVIOUS
<1>3. p = q \/ (q # <<>> /\ p = Tail(q))
  BY <1>1, <1>2
<1>4. p \in Seq(UpMessage) /\ \A i \in 1 .. Len(p) : \E j \in 1 .. Len(q) : p[i] = q[j]
  BY <1>3, TailRead
<1> QED BY <1>1, <1>2, <1>4

\* A client's standing survives what it is told, if that is no welcome.
LEMMA ToldStanding ==
  ASSUME StreamTypes, NEW r \in Client, NEW q \in Seq(DownMessage), Kept(r, q),
         ClientStanding(r), NoWelcome(q), r \notin Members => q = <<>>,
         phase[r] \in {"out", "joining", "in", "gone"},
         r \notin Members => r \notin Members'
  PROVE  ClientStanding(r)'
<1>1. phase'[r] = phase[r]
  BY DEF Kept
<1>2. up'[r] = up[r] \/ (r \in Members /\ up[r] # <<>> /\ up'[r] = Tail(up[r]))
  BY DEF Kept
<1>3. phase[r] = "out" => up'[r] = <<>> /\ down'[r] = <<>> /\ r \notin Members'
  <2> SUFFICES ASSUME phase[r] = "out" PROVE up'[r] = <<>> /\ down'[r] = <<>> /\ r \notin Members'
    OBVIOUS
  <2>1. up[r] = <<>> /\ down[r] = <<>> /\ r \notin Members
    BY DEF ClientStanding
  <2>2. down'[r] = <<>> \o q /\ q = <<>>
    BY <2>1 DEF Kept
  <2> QED BY <1>2, <2>1, <2>2
<1>4. phase[r] = "joining" =>
       \/ up'[r] = <<[type |-> "hello"]>> /\ down'[r] = <<>> /\ r \notin Members'
       \/ up'[r] = <<>> /\ r \notin Members'
       \/ up'[r] = <<>> /\ down'[r] # <<>> /\ down'[r][1].type = "welcome"
  <2> SUFFICES ASSUME phase[r] = "joining"
               PROVE  \/ up'[r] = <<[type |-> "hello"]>> /\ down'[r] = <<>> /\ r \notin Members'
                      \/ up'[r] = <<>> /\ r \notin Members'
                      \/ up'[r] = <<>> /\ down'[r] # <<>> /\ down'[r][1].type = "welcome"
    OBVIOUS
  <2>1. CASE r \notin Members
    <3>1. down'[r] = down[r] \o <<>> /\ up'[r] = up[r]
      BY <1>2, <2>1 DEF Kept
    <3>2. down[r] \in Seq(DownMessage)
      BY DEF StreamTypes
    <3>3. down'[r] = down[r]
      BY <3>1, <3>2
    <3> QED BY <2>1, <3>1, <3>3 DEF ClientStanding
  <2>2. CASE r \in Members
    <3>1. up[r] = <<>> /\ down[r] # <<>> /\ down[r][1].type = "welcome"
      BY <2>2 DEF ClientStanding
    <3>2. down[r] \in Seq(DownMessage)
      BY DEF StreamTypes
    <3>3. 1 \in 1 .. Len(down[r])
      BY <3>1, <3>2
    <3>4. 1 \in 1 .. Len(down'[r]) /\ down'[r][1] = down[r][1]
      BY <3>3, DownAppended
    <3>5. down'[r] # <<>>
      BY <3>4
    <3> QED BY <1>2, <3>1, <3>4, <3>5
  <2> QED BY <2>1, <2>2
<1>5. phase[r] \in {"in", "gone"} => \A i \in 1 .. Len(up'[r]) : up'[r][i].type # "hello"
  <2> SUFFICES ASSUME phase[r] \in {"in", "gone"}, NEW i \in 1 .. Len(up'[r])
               PROVE  up'[r][i].type # "hello"
    OBVIOUS
  <2>1. up[r] \in Seq(UpMessage)
    BY DEF StreamTypes
  <2>2. PICK j \in 1 .. Len(up[r]) : up'[r][i] = up[r][j]
    BY <1>2, UpRead
  <2> QED BY <2>2 DEF ClientStanding
<1>6. phase[r] # "gone" => \A i \in 1 .. Len(down'[r]) :
       down'[r][i].type = "welcome" => i = 1 /\ phase[r] = "joining"
  <2> SUFFICES ASSUME phase[r] # "gone", NEW i \in 1 .. Len(down'[r]),
                      down'[r][i].type = "welcome"
               PROVE  i = 1 /\ phase[r] = "joining"
    OBVIOUS
  <2>1. \/ i \in 1 .. Len(down[r]) /\ down'[r][i] = down[r][i]
        \/ i - Len(down[r]) \in 1 .. Len(q) /\ down'[r][i] = q[i - Len(down[r])]
    BY DownAppended
  <2>2. i \in 1 .. Len(down[r]) /\ down'[r][i] = down[r][i]
    BY <2>1 DEF NoWelcome
  <2> QED BY <2>2 DEF ClientStanding
<1> QED BY <1>1, <1>3, <1>4, <1>5, <1>6 DEF ClientStanding

\* Nobody becomes ready by being told something.
LEMMA ToldReady ==
  ASSUME StreamTypes, NEW r \in Client, NEW q, Kept(r, q), ReadyInTime(r)
  PROVE  ReadyInTime(r)'
<1>1. up'[r] = up[r] \/ (up[r] # <<>> /\ up'[r] = Tail(up[r]))
  BY DEF Kept
<1>3. \A i \in 1 .. Len(up'[r]) : \E j \in 1 .. Len(up[r]) : up'[r][i] = up[r][j]
  BY <1>1, UpRead
<1>4. cgen'[r] = cgen[r]
  BY DEF Kept
<1> QED BY <1>3, <1>4 DEF ReadyInTime

\* Who is told that it is the owner is, if the relay says so of the owner only.
LEMMA ToldOwner ==
  ASSUME StreamTypes, NEW r \in Client, NEW q \in Seq(DownMessage), Kept(r, q),
         phase[r] # "gone", OwnerStanding(r), owner = r => owner' = r,
         \A i \in 1 .. Len(q) : NamesOwner(q[i]) /\ q[i].owner = r => owner' = r
  PROVE  OwnerStanding(r)'
<1>1. phase'[r] = "in" /\ isOwner'[r] => owner' = r
  BY DEF Kept, OwnerStanding
<1>2. \A i \in 1 .. Len(down'[r]) :
        NamesOwner(down'[r][i]) /\ down'[r][i].owner = r => owner' = r
  <2> SUFFICES ASSUME NEW i \in 1 .. Len(down'[r]),
                      NamesOwner(down'[r][i]), down'[r][i].owner = r
               PROVE  owner' = r
    OBVIOUS
  <2>1. \/ i \in 1 .. Len(down[r]) /\ down'[r][i] = down[r][i]
        \/ i - Len(down[r]) \in 1 .. Len(q) /\ down'[r][i] = q[i - Len(down[r])]
    BY DownAppended
  <2> QED BY <2>1 DEF OwnerStanding
<1> QED BY <1>1, <1>2 DEF OwnerStanding, NamesOwner

\* The base of a client that is told something more.
LEMMA ToldBase ==
  ASSUME StreamTypes, NEW r \in Client, NEW q \in Seq(DownMessage), Kept(r, q),
         phase[r] # "gone", r \in Members, ClientStanding(r)
  PROVE  Base(r)' = Base(r) /\ BaseSettings(r)' = BaseSettings(r)
<1>1. phase'[r] = phase[r] /\ cgen'[r] = cgen[r] /\ cset'[r] = cset[r]
  BY DEF Kept
<1>2. phase[r] = "joining" => down'[r][1] = down[r][1]
  <2> SUFFICES ASSUME phase[r] = "joining" PROVE down'[r][1] = down[r][1]
    OBVIOUS
  <2>1. down[r] # <<>> /\ down[r] \in Seq(DownMessage)
    BY DEF ClientStanding, StreamTypes
  <2>2. 1 \in 1 .. Len(down[r])
    BY <2>1
  <2> QED BY <2>2, DownAppended
<1> QED BY <1>1, <1>2 DEF Base, BaseSettings

\* A member's standing survives what it is told between two commits.
LEMMA ToldQuiet ==
  ASSUME StreamTypes, NEW r \in Client, NEW q \in Seq(DownMessage), Kept(r, q),
         phase[r] # "gone", r \in Members, ClientStanding(r), MemberStanding(r),
         NoCommit(q), generation' = generation, agreed' = agreed,
         pending' # None /\ r \notin waiting' => Base(r) = generation
  PROVE  MemberStanding(r)'
<1>1. Base(r)' = Base(r) /\ BaseSettings(r)' = BaseSettings(r)
  BY ToldBase
<1>2. ASSUME NEW i \in 1 .. Len(down'[r]), down'[r][i].type = "room_settings"
      PROVE  i \in 1 .. Len(down[r]) /\ down'[r][i] = down[r][i]
  <2>1. \/ i \in 1 .. Len(down[r]) /\ down'[r][i] = down[r][i]
        \/ i - Len(down[r]) \in 1 .. Len(q) /\ down'[r][i] = q[i - Len(down[r])]
    BY DownAppended
  <2> QED BY <1>2, <2>1 DEF NoCommit
<1>3. \A i, j \in 1 .. Len(down'[r]) : CommitAt(r, i)' /\ CommitAt(r, j)' => i = j
  BY <1>2 DEF CommitAt, MemberStanding
<1>4. \A i \in 1 .. Len(down'[r]) : CommitAt(r, i)' =>
       /\ Base(r)' + 1 = generation'
       /\ down'[r][i].generation = generation'
       /\ down'[r][i].settings = agreed'[generation' + 1]
  BY <1>1, <1>2 DEF CommitAt, MemberStanding
<1>5. (\A i \in 1 .. Len(down'[r]) : ~CommitAt(r, i)') => Base(r)' = generation'
  <2> SUFFICES ASSUME \A i \in 1 .. Len(down'[r]) : ~CommitAt(r, i)'
               PROVE  Base(r)' = generation'
    OBVIOUS
  <2>1. \A i \in 1 .. Len(down[r]) : i \in 1 .. Len(down'[r]) /\ down'[r][i] = down[r][i]
    BY DownAppended
  <2>2. \A i \in 1 .. Len(down[r]) : ~CommitAt(r, i)
    BY <2>1 DEF CommitAt
  <2> QED BY <1>1, <2>2 DEF MemberStanding
<1> QED BY <1>1, <1>3, <1>4, <1>5 DEF MemberStanding

\* A member that was not behind is told of the commit, as the last thing.
LEMMA ToldCommit ==
  ASSUME StreamTypes, RoomTypes, NEW r \in Client, NEW q \in Seq(DownMessage), Kept(r, q),
         phase[r] # "gone", r \in Members, ClientStanding(r), MemberStanding(r),
         Base(r) = generation, Len(agreed) = generation + 1,
         generation' = generation + 1, pending \in Setting, agreed' = Append(agreed, pending),
         pending' = None, NEW n \in 1 .. Len(q),
         \A i \in 1 .. Len(q) : q[i].type = "room_settings" <=> i = n,
         q[n].generation = generation + 1, q[n].settings = pending
  PROVE  MemberStanding(r)'
<1>1. Base(r)' = Base(r) /\ BaseSettings(r)' = BaseSettings(r)
  BY ToldBase
<1>2. generation \in Nat /\ agreed \in Seq(Setting)
  BY DEF RoomTypes
<1>3. /\ \A i \in 1 .. Len(agreed) : agreed'[i] = agreed[i]
      /\ agreed'[generation + 2] = pending
  BY <1>2, AppendElements
<1>4. ASSUME NEW i \in 1 .. Len(down'[r]), down'[r][i].type = "room_settings"
      PROVE  i - Len(down[r]) = n /\ down'[r][i] = q[n]
  <2>1. \/ i \in 1 .. Len(down[r]) /\ down'[r][i] = down[r][i]
        \/ i - Len(down[r]) \in 1 .. Len(q) /\ down'[r][i] = q[i - Len(down[r])]
    BY DownAppended
  <2>2. \A k \in 1 .. Len(down[r]) : down[r][k].type # "room_settings"
    BY <1>2 DEF MemberStanding, CommitAt
  <2> QED BY <1>4, <2>1, <2>2
<1>5. Len(down[r]) \in Nat /\ Len(down'[r]) = Len(down[r]) + Len(q) /\ Len(q) \in Nat
  BY DownAppended
<1>6. Len(down[r]) + n \in 1 .. Len(down'[r])
  BY <1>5
<1>7. down'[r][Len(down[r]) + n].type = "room_settings"
  <2>1. PICK k \in 1 .. Len(down'[r]) : k = Len(down[r]) + n
    BY <1>6
  <2>2. k - Len(down[r]) = n /\ k \notin 1 .. Len(down[r])
    BY <1>5, <2>1
  <2>3. down'[r][k] = q[k - Len(down[r])]
    BY <2>2, DownAppended
  <2>4. down'[r][k].type = "room_settings"
    BY <2>2, <2>3
  <2> QED BY <2>1, <2>4
<1>8. \A i, j \in 1 .. Len(down'[r]) : CommitAt(r, i)' /\ CommitAt(r, j)' => i = j
  <2> SUFFICES ASSUME NEW i \in 1 .. Len(down'[r]), NEW j \in 1 .. Len(down'[r]),
                      CommitAt(r, i)', CommitAt(r, j)'
               PROVE  i = j
    OBVIOUS
  <2>1. i - Len(down[r]) = n /\ j - Len(down[r]) = n
    BY <1>4 DEF CommitAt
  <2> QED BY SMTT(30), <1>5, <2>1
<1>9. \A i \in 1 .. Len(down'[r]) : CommitAt(r, i)' =>
       /\ Base(r)' + 1 = generation'
       /\ down'[r][i].generation = generation'
       /\ down'[r][i].settings = agreed'[generation' + 1]
  <2> SUFFICES ASSUME NEW i \in 1 .. Len(down'[r]), CommitAt(r, i)'
               PROVE  /\ Base(r)' + 1 = generation'
                      /\ down'[r][i].generation = generation'
                      /\ down'[r][i].settings = agreed'[generation' + 1]
    OBVIOUS
  <2>1. down'[r][i] = q[n]
    BY <1>4 DEF CommitAt
  <2>2. agreed'[generation' + 1] = pending
    BY <1>2, <1>3
  <2> QED BY <1>1, <2>1, <2>2
<1>10. (\A i \in 1 .. Len(down'[r]) : ~CommitAt(r, i)') => Base(r)' = generation'
  BY <1>6, <1>7 DEF CommitAt
<1>11. BaseSettings(r)' = agreed'[Base(r)' + 1]
  BY <1>1, <1>2, <1>3 DEF MemberStanding
<1> QED BY <1>1, <1>2, <1>8, <1>9, <1>10, <1>11 DEF MemberStanding
-----------------------------------------------------------------------------
(***************************************************************************)
(* The relay's steps.                                                      *)
(***************************************************************************)

ClientVars == <<link, barrierVars, sessionVars, queueVars, asked>>

\* What Tell makes the clients hear.
LEMMA TellHeard ==
  ASSUME StreamTypes, NEW t \in [Client -> Seq(DownMessage)],
         down' = [c \in Client |-> IF phase[c] = "gone" THEN <<>> ELSE down[c] \o t[c]]
  PROVE  Heard(t)
<1>1. ASSUME NEW c \in Client PROVE down[c] \o t[c] \in Seq(DownMessage)
  <2>1. down[c] \in Seq(DownMessage) /\ t[c] \in Seq(DownMessage)
    BY DEF StreamTypes
  <2> QED BY <2>1, ConcatElements
<1> QED BY <1>1 DEF Heard

\* Nothing is told.
LEMMA NothingHeard ==
  ASSUME StreamTypes, UNCHANGED down
  PROVE  Heard([r \in Client |-> <<>>])
<1>1. \A r \in Client : down[r] \in Seq(DownMessage)
  BY DEF StreamTypes
<1>2. \A r \in Client : down[r] \o <<>> = down[r]
  BY <1>1
<1> QED BY <1>2 DEF Heard, StreamTypes

\* The relay reads a message of c, or none.
Reads(c) ==
  \/ up' = up
  \/ up[c] # <<>> /\ up' = [up EXCEPT ![c] = Tail(up[c])]

\* A relay step that tells clients something keeps the types.
LEMMA RelayTypes ==
  ASSUME Typed, NEW c \in Client, Reads(c), NEW t, Heard(t), UNCHANGED ClientVars, RoomTypes'
  PROVE  Typed'
<1>1. up' \in [Client -> Seq(UpMessage)]
  <2>1. CASE up' = up
    BY <2>1 DEF Typed, StreamTypes
  <2>2. CASE up[c] # <<>> /\ up' = [up EXCEPT ![c] = Tail(up[c])]
    <3>1. up[c] \in Seq(UpMessage)
      BY DEF Typed, StreamTypes
    <3>2. Tail(up[c]) \in Seq(UpMessage)
      BY <2>2, <3>1
    <3> QED BY <2>2, <3>2 DEF Typed, StreamTypes
  <2> QED BY <2>1, <2>2 DEF Reads
<1>2. StreamTypes'
  BY <1>1 DEF Typed, StreamTypes, Heard, ClientVars
<1>3. ClientTypes'
  BY DEF Typed, ClientTypes, ClientVars, barrierVars, sessionVars
<1>4. QueueTypes'
  BY DEF Typed, QueueTypes, ClientVars, queueVars
<1> QED BY <1>2, <1>3, <1>4 DEF Typed

\* What each client keeps while the relay steps.
LEMMA RelayKept ==
  ASSUME Typed, NEW c \in Client, Reads(c), NEW t, Heard(t), UNCHANGED ClientVars,
         NEW r \in Client, c \in Members \/ r # c \/ up' = up
  PROVE  Kept(r, t[r])
<1>1. up'[r] = up[r] \/ (r \in Members /\ up[r] # <<>> /\ up'[r] = Tail(up[r]))
  BY DEF Reads, Typed, StreamTypes
<1> QED BY <1>1 DEF Kept, Heard, ClientVars, barrierVars, sessionVars

\* A step of the relay keeps the standing of a client if it keeps what the
\* client as a member stands on.
LEMMA RelayClient ==
  ASSUME RoomInv, NEW r \in Client, NEW q \in Seq(DownMessage), Kept(r, q),
         NoWelcome(q), r \notin Members => q = <<>>,
         r \notin Members => r \notin Members',
         Present(r)' => MemberStanding(r)' /\ OwnerStanding(r)'
  PROVE  ClientInv(r)'
<1>3. ClientInv(r) /\ StreamTypes
  BY DEF RoomInv, Typed
<1>4. phase[r] \in {"out", "joining", "in", "gone"}
  BY DEF RoomInv, Typed, ClientTypes
<1>5. ClientStanding(r)'
  BY <1>3, <1>4, ToldStanding DEF ClientInv
<1>6. (phase[r] = "in" => ReadyInTime(r))'
  BY <1>3, ToldReady DEF ClientInv, Kept
<1> QED BY <1>5, <1>6 DEF ClientInv

\* A step of the relay that commits nothing and changes neither membership nor
\* ownership.
LEMMA QuietStep ==
  ASSUME RoomInv, NEW c \in Client, c \in Members, Reads(c),
         NEW t \in [Client -> Seq(DownMessage)], Heard(t), UNCHANGED ClientVars,
         UNCHANGED <<members, owner, generation, settings, agreed>>,
         RoomTypes',
         \A r \in Client : NamesNobody(t[r]) /\ (r \notin Members => t[r] = <<>>),
         \A r \in Client : Present(r) /\ pending' # None /\ r \notin waiting'
                             => Base(r) = generation
  PROVE  RoomInv'
<1>1. Typed'
  BY RelayTypes DEF RoomInv
<1>2. RoomStanding'
  BY DEF RoomInv, RoomStanding, Members
<1>3. ASSUME NEW r \in Client PROVE ClientInv(r)'
  <2>1. t[r] \in Seq(DownMessage) /\ NamesNobody(t[r]) /\ (r \notin Members => t[r] = <<>>)
    OBVIOUS
  <2>2. NoWelcome(t[r]) /\ NoCommit(t[r])
    BY <2>1 DEF NoWelcome, NoCommit, NamesNobody, NamesOwner
  <2>3. Members' = Members
    BY DEF Members
  <2>4. Kept(r, t[r])
    BY RelayKept DEF RoomInv
  <2>5. ASSUME Present(r)' PROVE MemberStanding(r)' /\ OwnerStanding(r)'
    <3>1. Present(r)
      BY <2>3, <2>4, <2>5 DEF Present, Kept
    <3>2. StreamTypes /\ ClientStanding(r) /\ MemberStanding(r) /\ OwnerStanding(r)
      BY <3>1 DEF RoomInv, Typed, ClientInv
    <3>3. pending' # None /\ r \notin waiting' => Base(r) = generation
      BY <3>1
    <3>4. MemberStanding(r)'
      BY <2>1, <2>2, <2>4, <3>1, <3>2, <3>3, ToldQuiet DEF Present
    <3>5. \A i \in 1 .. Len(t[r]) : NamesOwner(t[r][i]) /\ t[r][i].owner = r => owner' = r
      BY <2>1 DEF NamesNobody
    <3>6. OwnerStanding(r)'
      BY <2>1, <2>4, <3>1, <3>2, <3>5, ToldOwner DEF Present
    <3> QED BY <3>4, <3>6
  <2> QED BY <2>1, <2>2, <2>3, <2>4, <2>5, RelayClient
<1> QED BY <1>1, <1>2, <1>3 DEF RoomInv

\* The relay has a message of an open member at hand.
LEMMA IncomingFacts ==
  ASSUME RoomInv, NEW c \in Client, NEW type, Incoming(c, type)
  PROVE  /\ c \in Members /\ c \notin closing /\ members # <<>>
         /\ up[c] # <<>> /\ Reads(c)
         /\ Head(up[c]) = up[c][1] /\ 1 \in 1 .. Len(up[c])
         /\ up[c][1] \in UpMessage /\ up[c][1].type = type
<1>1. up[c] \in Seq(UpMessage)
  BY DEF RoomInv, Typed, StreamTypes
<1>2. c \in Members /\ c \notin closing /\ up[c] # <<>> /\ Head(up[c]).type = type
      /\ up' = [up EXCEPT ![c] = Tail(@)]
  BY DEF Incoming, Open
<1>3. Head(up[c]) = up[c][1] /\ 1 \in 1 .. Len(up[c]) /\ up[c][1] \in UpMessage
  BY <1>1, <1>2
<1>4. members # <<>>
  BY <1>2 DEF Members
<1> QED BY <1>2, <1>3, <1>4 DEF Reads

\* One message for some of the members.
LEMMA SomeTold ==
  ASSUME NEW T, T \subseteq Members, NEW m \in DownMessage
  PROVE  /\ [r \in Client |-> When(r \in T, m)] \in [Client -> Seq(DownMessage)]
         /\ \A r \in Client : /\ r \notin T => When(r \in T, m) = <<>>
                              /\ r \in T => When(r \in T, m) = <<m>>
         /\ ~NamesOwner(m) =>
              \A r \in Client : /\ NamesNobody(When(r \in T, m))
                                /\ r \notin Members => When(r \in T, m) = <<>>
<1>1. \A r \in Client : When(r \in T, m) = <<m>> \/ When(r \in T, m) = <<>>
  BY DEF When
<1>2. \A r \in Client : /\ r \notin T => When(r \in T, m) = <<>>
                        /\ r \in T => When(r \in T, m) = <<m>>
  BY DEF When
<1>3. <<m>> \in Seq(DownMessage) /\ <<>> \in Seq(DownMessage)
  OBVIOUS
<1>4. ~NamesOwner(m) => NamesNobody(<<m>>) /\ NamesNobody(<<>>)
  BY DEF NamesNobody
<1> QED BY <1>1, <1>2, <1>3, <1>4

\* An error to the client that caused it.
LEMMA ErrorTold ==
  ASSUME NEW c \in Members
  PROVE  /\ [r \in Client |-> When(r = c, [type |-> "error"])] \in [Client -> Seq(DownMessage)]
         /\ \A r \in Client : /\ NamesNobody(When(r = c, [type |-> "error"]))
                              /\ r \notin Members => When(r = c, [type |-> "error"]) = <<>>
<1>1. [type |-> "error"] \in DownMessage /\ ~NamesOwner([type |-> "error"])
  BY DownMade DEF NamesOwner
<1>2. \A r \in Client : \/ When(r = c, [type |-> "error"]) = <<[type |-> "error"]>> /\ r = c
                        \/ When(r = c, [type |-> "error"]) = <<>>
  BY DEF When
<1>3. <<[type |-> "error"]>> \in Seq(DownMessage) /\ <<>> \in Seq(DownMessage)
  BY <1>1
<1>4. NamesNobody(<<[type |-> "error"]>>) /\ NamesNobody(<<>>)
  BY <1>1 DEF NamesNobody
<1> QED BY <1>2, <1>3, <1>4

\* A relayed upload changes nothing that members agree on.
LEMMA PeerReliableRouted ==
  ASSUME RoomInv, NEW c \in Client, RoutePeerReliable(c)
  PROVE  RoomInv'
<1>1. Incoming(c, "peer_reliable") /\ UNCHANGED ClientVars
      /\ UNCHANGED <<members, owner, generation, settings, agreed, pending, waiting>>
  BY DEF RoutePeerReliable, ClientVars, historyVars
<1>2. /\ c \in Members /\ c \notin closing /\ members # <<>> /\ Reads(c)
      /\ Head(up[c]) = up[c][1] /\ up[c][1] \in UpMessage /\ up[c][1].type = "peer_reliable"
  BY <1>1, IncomingFacts
<1>3. PICK m \in UpMessage : m = Head(up[c]) /\ m.type = "peer_reliable"
  BY <1>2
<1>4. m.recipients \subseteq Client /\ m.body \in Body
  BY <1>3, UpFields
<1>5. StreamTypes /\ RoomTypes /\ Members' = Members
  BY <1>1 DEF RoomInv, Typed, Members
<1>6. \A r \in Client : Present(r) /\ pending' # None /\ r \notin waiting' => Base(r) = generation
  BY <1>1 DEF RoomInv, ClientInv, Present, MemberStanding
<1>7. CASE m.recipients \subseteq Members
  <2> DEFINE T == m.recipients \ closing
             b == [type |-> "peer_reliable", from |-> c, body |-> m.body]
             t == [r \in Client |-> When(r \in T, b)]
  <2>1. down' = [r \in Client |-> IF phase[r] = "gone" THEN <<>> ELSE down[r] \o When(r \in T, b)]
        /\ closing' = closing
    BY <1>3, <1>7 DEF RoutePeerReliable, Tell
  <2>2. b \in DownMessage /\ ~NamesOwner(b) /\ T \subseteq Members
    BY <1>4, <1>7, DownMade DEF NamesOwner
  <2> HIDE DEF b, T
  <2>3. /\ t \in [Client -> Seq(DownMessage)]
        /\ \A r \in Client : NamesNobody(t[r]) /\ (r \notin Members => t[r] = <<>>)
    BY <2>2, SomeTold
  <2>4. down' = [r \in Client |-> IF phase[r] = "gone" THEN <<>> ELSE down[r] \o t[r]]
    BY <2>1
  <2> HIDE DEF t
  <2>5. Heard(t)
    BY <1>5, <2>3, <2>4, TellHeard
  <2>6. RoomTypes'
    BY <1>1, <1>5, <2>1 DEF RoomTypes
  <2> QED BY <1>1, <1>2, <1>6, <2>3, <2>5, <2>6, QuietStep
<1>8. CASE ~(m.recipients \subseteq Members)
  <2> DEFINE t == [r \in Client |-> When(r = c, [type |-> "error"])]
  <2>1. down' = [r \in Client |-> IF phase[r] = "gone" THEN <<>>
                                   ELSE down[r] \o When(r = c, [type |-> "error"])]
        /\ closing' = closing \cup {c}
    BY <1>3, <1>8 DEF RoutePeerReliable, Tell
  <2>2. /\ t \in [Client -> Seq(DownMessage)]
        /\ \A r \in Client : NamesNobody(t[r]) /\ (r \notin Members => t[r] = <<>>)
    BY <1>2, ErrorTold
  <2>3. down' = [r \in Client |-> IF phase[r] = "gone" THEN <<>> ELSE down[r] \o t[r]]
    BY <2>1
  <2> HIDE DEF t
  <2>4. Heard(t)
    BY <1>5, <2>2, <2>3, TellHeard
  <2>5. RoomTypes'
    BY <1>1, <1>2, <1>5, <2>1 DEF RoomTypes
  <2> QED BY <1>1, <1>2, <1>6, <2>2, <2>4, <2>5, QuietStep
<1> QED BY <1>7, <1>8

\* Neither does a kick.
LEMMA KickRouted ==
  ASSUME RoomInv, NEW c \in Client, RouteKick(c)
  PROVE  RoomInv'
<1>1. Incoming(c, "kick") /\ UNCHANGED ClientVars
      /\ UNCHANGED <<members, owner, generation, settings, agreed, pending, waiting>>
  BY DEF RouteKick, ClientVars, historyVars
<1>2. /\ c \in Members /\ c \notin closing /\ members # <<>> /\ Reads(c)
      /\ Head(up[c]) = up[c][1] /\ up[c][1] \in UpMessage /\ up[c][1].type = "kick"
  BY <1>1, IncomingFacts
<1>3. PICK v : v = Head(up[c]).target
  OBVIOUS
<1>5. StreamTypes /\ RoomTypes /\ Members' = Members
  BY <1>1 DEF RoomInv, Typed, Members
<1>6. \A r \in Client : Present(r) /\ pending' # None /\ r \notin waiting' => Base(r) = generation
  BY <1>1 DEF RoomInv, ClientInv, Present, MemberStanding
<1>7. CASE owner = c /\ v \in Open \ {c}
  <2> DEFINE b == [type |-> "kicked"]
             t == [r \in Client |-> When(r \in {v}, b)]
  <2>1. down' = [r \in Client |-> IF phase[r] = "gone" THEN <<>> ELSE down[r] \o When(r \in {v}, b)]
        /\ closing' = closing \cup {v}
    BY <1>3, <1>7 DEF RouteKick, Tell, When
  <2>2. b \in DownMessage /\ ~NamesOwner(b) /\ {v} \subseteq Members
    BY <1>7, DownMade DEF NamesOwner, Open
  <2> HIDE DEF b
  <2>3. /\ t \in [Client -> Seq(DownMessage)]
        /\ \A r \in Client : NamesNobody(t[r]) /\ (r \notin Members => t[r] = <<>>)
    BY <2>2, SomeTold
  <2>4. down' = [r \in Client |-> IF phase[r] = "gone" THEN <<>> ELSE down[r] \o t[r]]
    BY <2>1
  <2> HIDE DEF t
  <2>5. Heard(t)
    BY <1>5, <2>3, <2>4, TellHeard
  <2>6. RoomTypes'
    BY <1>1, <1>5, <2>1, <2>2 DEF RoomTypes
  <2> QED BY <1>1, <1>2, <1>6, <2>3, <2>5, <2>6, QuietStep
<1>8. CASE ~(owner = c /\ v \in Open \ {c})
  <2> DEFINE t == [r \in Client |-> When(r = c, [type |-> "error"])]
  <2>1. down' = [r \in Client |-> IF phase[r] = "gone" THEN <<>>
                                   ELSE down[r] \o When(r = c, [type |-> "error"])]
        /\ closing' = closing
    BY <1>3, <1>8 DEF RouteKick, Tell
  <2>2. /\ t \in [Client -> Seq(DownMessage)]
        /\ \A r \in Client : NamesNobody(t[r]) /\ (r \notin Members => t[r] = <<>>)
    BY <1>2, ErrorTold
  <2>3. down' = [r \in Client |-> IF phase[r] = "gone" THEN <<>> ELSE down[r] \o t[r]]
    BY <2>1
  <2> HIDE DEF t
  <2>4. Heard(t)
    BY <1>5, <2>2, <2>3, TellHeard
  <2>5. RoomTypes'
    BY <1>1, <1>2, <1>5, <2>1 DEF RoomTypes
  <2> QED BY <1>1, <1>2, <1>6, <2>2, <2>4, <2>5, QuietStep
<1> QED BY <1>7, <1>8

\* A change that begins makes the relay wait for every member.
LEMMA RoomSettingsRouted ==
  ASSUME RoomInv, BarrierAssumption, NEW c \in Client, RouteRoomSettings(c)
  PROVE  RoomInv'
<1>1. Incoming(c, "room_settings") /\ UNCHANGED ClientVars
      /\ UNCHANGED <<members, owner, generation, settings, agreed, closing>>
  BY DEF RouteRoomSettings, ClientVars, historyVars
<1>2. /\ c \in Members /\ c \notin closing /\ members # <<>> /\ Reads(c)
      /\ Head(up[c]) = up[c][1] /\ up[c][1] \in UpMessage /\ up[c][1].type = "room_settings"
  BY <1>1, IncomingFacts
<1>3. PICK v \in Setting : v = Head(up[c]).settings
  BY <1>2, UpFields
<1>5. StreamTypes /\ RoomTypes /\ Members' = Members
  BY <1>1 DEF RoomInv, Typed, Members
<1>7. CASE owner = c /\ pending = None
  <2> DEFINE b == [type |-> "settings_prepare", generation |-> generation + 1,
                   participants |-> Members]
             t == [r \in Client |-> When(r \in Open, b)]
  <2>1. down' = [r \in Client |-> IF phase[r] = "gone" THEN <<>> ELSE down[r] \o When(r \in Open, b)]
        /\ pending' = v /\ waiting' = Members
    BY <1>3, <1>7 DEF RouteRoomSettings, Tell
  <2>2. Members \in SUBSET Client
    BY <1>5 DEF RoomTypes, Members
  <2>3. b \in DownMessage /\ ~NamesOwner(b) /\ Open \subseteq Members
    <3>1. generation + 1 \in Nat
      BY <1>5 DEF RoomTypes
    <3>2. b \in DownMessage
      BY <2>2, <3>1, DownMade
    <3>3. ~NamesOwner(b)
      BY DEF NamesOwner
    <3> QED BY <3>2, <3>3 DEF Open
  <2> HIDE DEF b
  <2>4. /\ t \in [Client -> Seq(DownMessage)]
        /\ \A r \in Client : NamesNobody(t[r]) /\ (r \notin Members => t[r] = <<>>)
    BY <2>3, SomeTold
  <2>5. down' = [r \in Client |-> IF phase[r] = "gone" THEN <<>> ELSE down[r] \o t[r]]
    BY <2>1
  <2> HIDE DEF t
  <2>6. Heard(t)
    BY <1>5, <2>4, <2>5, TellHeard
  <2>7. v # None
    BY DEF BarrierAssumption
  <2>8. RoomTypes'
    BY <1>1, <1>2, <1>5, <2>1, <2>7 DEF RoomTypes, SettingOrNone
  <2>9. \A r \in Client : Present(r) /\ pending' # None /\ r \notin waiting' => Base(r) = generation
    BY <2>1 DEF Present
  <2> QED BY <1>1, <1>2, <2>4, <2>6, <2>8, <2>9, QuietStep
<1>8. CASE ~(owner = c /\ pending = None)
  <2> DEFINE t == [r \in Client |-> When(r = c, [type |-> "error"])]
  <2>1. down' = [r \in Client |-> IF phase[r] = "gone" THEN <<>>
                                   ELSE down[r] \o When(r = c, [type |-> "error"])]
        /\ pending' = pending /\ waiting' = waiting
    BY <1>3, <1>8 DEF RouteRoomSettings, Tell
  <2>2. /\ t \in [Client -> Seq(DownMessage)]
        /\ \A r \in Client : NamesNobody(t[r]) /\ (r \notin Members => t[r] = <<>>)
    BY <1>2, ErrorTold
  <2>3. down' = [r \in Client |-> IF phase[r] = "gone" THEN <<>> ELSE down[r] \o t[r]]
    BY <2>1
  <2> HIDE DEF t
  <2>4. Heard(t)
    BY <1>5, <2>2, <2>3, TellHeard
  <2>5. RoomTypes'
    BY <1>1, <1>2, <1>5, <2>1 DEF RoomTypes
  <2>6. \A r \in Client : Present(r) /\ pending' # None /\ r \notin waiting' => Base(r) = generation
    BY <2>1 DEF RoomInv, ClientInv, Present, MemberStanding
  <2> QED BY <1>1, <1>2, <2>2, <2>4, <2>5, <2>6, QuietStep
<1> QED BY <1>7, <1>8

\* A member that is ready for the next generation is not behind.
LEMMA ReadyNotBehind ==
  ASSUME RoomInv, NEW c \in Client, Present(c), NEW i \in 1 .. Len(up[c]),
         up[c][i].type = "settings_ready", up[c][i].generation = generation + 1
  PROVE  Base(c) = generation
<1>1. ClientStanding(c) /\ MemberStanding(c) /\ (phase[c] = "in" => ReadyInTime(c))
  BY DEF RoomInv, ClientInv
<1>2. phase[c] \in {"out", "joining", "in", "gone"} /\ cgen[c] \in Nat /\ generation \in Nat
  BY DEF RoomInv, Typed, ClientTypes, RoomTypes
<1>3. up[c] # <<>>
  OBVIOUS
<1>4. phase[c] = "in"
  BY <1>1, <1>2, <1>3 DEF ClientStanding, Present
<1>5. generation + 1 <= cgen[c] + 1 /\ Base(c) = cgen[c]
  BY <1>1, <1>4 DEF ReadyInTime, Base
<1>6. Base(c) + 1 = generation \/ Base(c) = generation
  BY <1>1 DEF MemberStanding
<1> QED BY <1>2, <1>5, <1>6

\* The last message of q is the commit and no other is.
EndsWithCommit(q) ==
  \E n \in 1 .. Len(q) :
    /\ \A i \in 1 .. Len(q) : q[i].type = "room_settings" <=> i = n
    /\ q[n].generation = generation + 1
    /\ q[n].settings = pending

NamesOnly(q, o, r) == \A i \in 1 .. Len(q) : NamesOwner(q[i]) /\ q[i].owner = r => o = r

\* What stays true of who is a member and who owns the room.
Follows(t) ==
  /\ members' # <<>> /\ Members' \subseteq Members /\ owner' \in Members'
  /\ owner \in Members' => owner' = owner
  /\ \A r \in Client : NoWelcome(t[r]) /\ (r \notin Members => t[r] = <<>>)
  /\ \A r \in Members' : NamesOnly(t[r], owner', r)

\* A step that ends the wait for the participants of a settings change.
LEMMA CommitStep ==
  ASSUME RoomInv, NEW c \in Client, c \in Members, Reads(c),
         NEW t \in [Client -> Seq(DownMessage)], Heard(t), UNCHANGED ClientVars,
         Follows(t), RoomTypes', pending # None,
         settings' = pending, pending' = None, generation' = generation + 1,
         agreed' = Append(agreed, pending),
         \A r \in Members' : EndsWithCommit(t[r]),
         \A r \in Members' : Present(r) => Base(r) = generation
  PROVE  RoomInv'
<1>1. Typed'
  BY RelayTypes DEF RoomInv
<1>2. members # <<>>
  BY DEF Members
<1>3. Len(agreed) = generation + 1 /\ generation \in Nat /\ agreed \in Seq(Setting)
      /\ pending \in Setting
  BY <1>2 DEF RoomInv, RoomStanding, Typed, RoomTypes, SettingOrNone
<1>4. RoomStanding'
  <2>1. Len(agreed') = Len(agreed) + 1 /\ agreed'[Len(agreed) + 1] = pending
    BY <1>3, AppendElements
  <2>2. Len(agreed') = generation' + 1 /\ agreed'[generation' + 1] = settings'
    BY <1>3, <2>1
  <2> QED BY <2>2 DEF RoomStanding, Follows, Members
<1>5. ASSUME NEW r \in Client PROVE ClientInv(r)'
  <2>1. t[r] \in Seq(DownMessage) /\ NoWelcome(t[r]) /\ (r \notin Members => t[r] = <<>>)
    BY DEF Follows
  <2>2. Kept(r, t[r])
    BY RelayKept DEF RoomInv
  <2>3. ASSUME Present(r)' PROVE MemberStanding(r)' /\ OwnerStanding(r)'
    <3>1. Present(r) /\ r \in Members' /\ r \in Members /\ phase[r] # "gone"
      BY <2>2, <2>3 DEF Present, Kept, Follows
    <3>2. StreamTypes /\ RoomTypes /\ ClientStanding(r) /\ MemberStanding(r) /\ OwnerStanding(r)
      BY <3>1 DEF RoomInv, Typed, ClientInv
    <3>3. PICK n \in 1 .. Len(t[r]) :
            /\ \A i \in 1 .. Len(t[r]) : t[r][i].type = "room_settings" <=> i = n
            /\ t[r][n].generation = generation + 1
            /\ t[r][n].settings = pending
      BY <3>1 DEF EndsWithCommit
    <3>4. Base(r) = generation
      BY <3>1
    <3>5. MemberStanding(r)'
      BY <1>3, <2>1, <2>2, <3>1, <3>2, <3>3, <3>4, ToldCommit
    <3>6. \A i \in 1 .. Len(t[r]) : NamesOwner(t[r][i]) /\ t[r][i].owner = r => owner' = r
      BY <3>1 DEF Follows, NamesOnly
    <3>7. owner = r => owner' = r
      BY <3>1 DEF Follows
    <3>8. OwnerStanding(r)'
      BY <2>1, <2>2, <3>1, <3>2, <3>6, <3>7, ToldOwner
    <3> QED BY <3>5, <3>8
  <2>4. r \notin Members => r \notin Members'
    BY DEF Follows
  <2> QED BY <2>1, <2>2, <2>3, <2>4, RelayClient
<1> QED BY <1>1, <1>4, <1>5 DEF RoomInv

\* The last member that becomes ready is told of the commit with the others.
LEMMA SettingsReadyRouted ==
  ASSUME RoomInv, BarrierAssumption, NEW c \in Client, RouteSettingsReady(c)
  PROVE  RoomInv'
<1>1. Incoming(c, "settings_ready") /\ UNCHANGED ClientVars
      /\ UNCHANGED <<members, owner, closing>>
  BY DEF RouteSettingsReady, ClientVars, historyVars
<1>2. /\ c \in Members /\ c \notin closing /\ members # <<>> /\ Reads(c)
      /\ Head(up[c]) = up[c][1] /\ 1 \in 1 .. Len(up[c])
      /\ up[c][1] \in UpMessage /\ up[c][1].type = "settings_ready"
  BY <1>1, IncomingFacts
<1>3. PICK g \in Nat : g = Head(up[c]).generation
  BY <1>2, UpFields
<1>4. StreamTypes /\ RoomTypes /\ Members' = Members
  BY <1>1 DEF RoomInv, Typed, Members
<1>5. ASSUME g = generation + 1, pending # None, NEW r \in Client, Present(r), r \notin waiting \ {c}
      PROVE  Base(r) = generation
  <2>1. CASE r = c
    BY <1>2, <1>3, <1>5, <2>1, ReadyNotBehind
  <2>2. CASE r # c
    BY <1>5, <2>2 DEF RoomInv, ClientInv, MemberStanding
  <2> QED BY <2>1, <2>2
<1> DEFINE e == [r \in Client |-> <<>>]
<1>6. /\ e \in [Client -> Seq(DownMessage)]
      /\ \A r \in Client : NamesNobody(e[r]) /\ (r \notin Members => e[r] = <<>>)
  BY DEF NamesNobody
<1>7. CASE ~(pending # None /\ g = generation + 1)
  <2>1. UNCHANGED <<waiting, settings, pending, generation, agreed, down>>
    BY <1>3, <1>7 DEF RouteSettingsReady
  <2>2. Heard(e)
    BY <1>4, <2>1, NothingHeard
  <2>3. RoomTypes'
    BY <1>1, <1>4, <2>1 DEF RoomTypes
  <2>4. \A r \in Client : Present(r) /\ pending' # None /\ r \notin waiting' => Base(r) = generation
    BY <2>1 DEF RoomInv, ClientInv, Present, MemberStanding
  <2> HIDE DEF e
  <2> QED BY <1>1, <1>2, <1>6, <2>1, <2>2, <2>3, <2>4, QuietStep
<1>8. CASE pending # None /\ g = generation + 1 /\ waiting \ {c} # {}
  <2>1. waiting' = waiting \ {c} /\ UNCHANGED <<settings, pending, generation, agreed>>
    BY <1>3, <1>8 DEF RouteSettingsReady, FinishSettings, Commits
  <2>2. down' = [r \in Client |-> IF phase[r] = "gone" THEN <<>> ELSE down[r] \o <<>>]
    BY <1>3, <1>8 DEF RouteSettingsReady, Tell, Commits, When
  <2>3. down' = [r \in Client |-> IF phase[r] = "gone" THEN <<>> ELSE down[r] \o e[r]]
    BY <2>2
  <2>4. RoomTypes'
    BY <1>1, <1>4, <1>8, <2>1 DEF RoomTypes
  <2>5. \A r \in Client : Present(r) /\ pending' # None /\ r \notin waiting' => Base(r) = generation
    BY <1>5, <1>8, <2>1
  <2> HIDE DEF e
  <2>6. Heard(e)
    BY <1>4, <1>6, <2>3, TellHeard
  <2> QED BY <1>1, <1>2, <1>6, <2>1, <2>4, <2>5, <2>6, QuietStep
<1>9. CASE pending # None /\ g = generation + 1 /\ waiting \ {c} = {}
  <2> DEFINE m == Commit(owner)
             t == [r \in Client |-> When(r \in Members, m)]
  <2>1. /\ waiting' = {} /\ settings' = pending /\ pending' = None
        /\ generation' = generation + 1 /\ agreed' = Append(agreed, pending)
    BY <1>3, <1>9 DEF RouteSettingsReady, FinishSettings, Commits
  <2>2. down' = [r \in Client |-> IF phase[r] = "gone" THEN <<>> ELSE down[r] \o When(r \in Members, m)]
    <3>1. Commits(waiting \ {c})
      BY <1>9 DEF Commits
    <3>2. \A r \in Client : When(r \in Members /\ Commits(waiting \ {c}), m) = When(r \in Members, m)
      BY <3>1 DEF When
    <3>3. down' = [r \in Client |-> IF phase[r] = "gone" THEN <<>>
                     ELSE down[r] \o When(r \in Members /\ Commits(waiting \ {c}), m)]
      BY <1>3, <1>9 DEF RouteSettingsReady, Tell
    <3> HIDE DEF m
    <3> QED BY <3>2, <3>3
  <2>3. pending \in Setting /\ generation \in Nat /\ owner \in Members /\ Members \subseteq Client
    BY <1>2, <1>4, <1>9 DEF RoomTypes, SettingOrNone, RoomInv, RoomStanding, Members
  <2>4. m \in DownMessage /\ m.type = "room_settings" /\ m.generation = generation + 1
        /\ m.settings = pending /\ m.owner = owner
    <3>1. generation + 1 \in Nat /\ owner \in Client
      BY <2>3
    <3> QED BY <2>3, <3>1, DownMade DEF Commit
  <2> HIDE DEF m
  <2>5. t \in [Client -> Seq(DownMessage)]
        /\ \A r \in Client : /\ r \notin Members => When(r \in Members, m) = <<>>
                             /\ r \in Members => When(r \in Members, m) = <<m>>
    BY <2>4, SomeTold
  <2>6. \A r \in Client : /\ r \notin Members => t[r] = <<>>
                          /\ r \in Members => t[r] = <<m>>
    BY <2>5
  <2>7. down' = [r \in Client |-> IF phase[r] = "gone" THEN <<>> ELSE down[r] \o t[r]]
    BY <2>2
  <2> HIDE DEF t
  <2>8. Heard(t)
    BY <1>4, <2>5, <2>7, TellHeard
  <2>9. RoomTypes'
    <3>1. agreed' \in Seq(Setting) /\ generation' \in Nat
      BY <1>4, <2>1, <2>3 DEF RoomTypes
    <3> QED BY <1>1, <1>4, <2>1, <3>1 DEF RoomTypes, SettingOrNone
  <2>10. EndsWithCommit(<<m>>) /\ NoWelcome(<<m>>) /\ NoWelcome(<<>>)
    BY <2>4 DEF EndsWithCommit, NoWelcome
  <2>11. \A r \in Client : NamesOnly(<<m>>, owner, r)
    BY <2>4 DEF NamesOnly
  <2>12. Follows(t)
    BY <1>1, <1>2, <1>4, <2>3, <2>6, <2>10, <2>11 DEF Follows
  <2>13. \A r \in Members' : EndsWithCommit(t[r])
    BY <1>4, <2>3, <2>6, <2>10
  <2>14. \A r \in Members' : Present(r) => Base(r) = generation
    BY <1>4, <1>5, <1>9, <2>3
  <2> QED BY <1>1, <1>2, <1>9, <2>1, <2>5, <2>8, <2>9, <2>12, <2>13, <2>14, CommitStep
<1> QED BY <1>7, <1>8, <1>9

Left(c) == members' = Pick(members, {i \in DOMAIN members : members[i] # c})

\* The members that stay when c is removed.
LEMMA LeftMembers ==
  ASSUME RoomTypes, NEW c \in Client, Left(c)
  PROVE  /\ members' \in Seq(Client)
         /\ Members' = Members \ {c}
         /\ members' # <<>> => Head(members') \in Members'
<1> DEFINE K == {i \in DOMAIN members : members[i] # c}
<1>1. \A i \in 1 .. Len(members) : i \in K <=> members[i] # c
  OBVIOUS
<1>4. members' = Pick(members, K)
  BY DEF Left
<1> HIDE DEF K
<1>2. PICK q \in Seq(Client) : q = members
  BY DEF RoomTypes
<1>8. Picked(Client, q, K, Pick(q, K))
  BY PickElements
<1>9. PICK p : p = members'
  OBVIOUS
<1>3. /\ p \in Seq(Client)
      /\ \A j \in 1 .. Len(p) : \E i \in 1 .. Len(members) : i \in K /\ p[j] = members[i]
      /\ \A i \in 1 .. Len(members) : i \in K => \E j \in 1 .. Len(p) : p[j] = members[i]
  <2>1. Picked(Client, members, K, p)
    BY <1>2, <1>4, <1>8, <1>9
  <2> QED BY <2>1 DEF Picked
<1>5. DOMAIN p = 1 .. Len(p) /\ DOMAIN members = 1 .. Len(members)
  BY <1>2, <1>3
<1>6. {p[j] : j \in DOMAIN p} = {members[i] : i \in DOMAIN members} \ {c}
  <2>1. ASSUME NEW j \in DOMAIN p PROVE p[j] \in {members[i] : i \in DOMAIN members} \ {c}
    BY SMTT(30), <1>1, <1>3, <1>5
  <2>2. ASSUME NEW x \in {members[i] : i \in DOMAIN members} \ {c}
        PROVE  x \in {p[j] : j \in DOMAIN p}
    <3>1. PICK i \in DOMAIN members : x = members[i]
      OBVIOUS
    <3>2. i \in K
      BY <1>1, <1>5, <2>2, <3>1
    <3>3. PICK j \in 1 .. Len(p) : p[j] = members[i]
      BY <1>3, <1>5, <3>2
    <3> QED BY <1>5, <3>1, <3>3
  <2> QED BY <2>1, <2>2
<1>7. p # <<>> => Head(p) \in {p[j] : j \in DOMAIN p}
  <2> SUFFICES ASSUME p # <<>> PROVE Head(p) \in {p[j] : j \in DOMAIN p}
    OBVIOUS
  <2>1. 1 \in DOMAIN p /\ Head(p) = p[1]
    BY <1>3
  <2> QED BY <2>1
<1>10. Members' = {p[j] : j \in DOMAIN p}
  BY <1>9 DEF Members
<1>11. {members[i] : i \in DOMAIN members} \ {c} = Members \ {c}
  BY DEF Members
<1>12. Members' = Members \ {c}
  BY <1>6, <1>10, <1>11
<1>13. members' \in Seq(Client)
  BY <1>3, <1>9
<1>14. members' # <<>> => Head(members') \in Members'
  BY <1>7, <1>9, <1>10
<1> QED BY <1>12, <1>13, <1>14

\* The room is empty; everybody who was in it is left to notice.
LEMMA RoomEnds ==
  ASSUME RoomInv, UNCHANGED <<up, down, ClientVars>>,
         members' = <<>>, owner' = None, generation' = 0, settings' = None,
         pending' = None, waiting' = {}, closing' = {}, agreed' = <<>>
  PROVE  RoomInv'
<1>1. Members' = {}
  BY DEF Members
<1>2. RoomTypes' /\ RoomStanding'
  BY <1>1 DEF RoomTypes, RoomStanding, SettingOrNone
<1>3. Typed'
  BY <1>2 DEF RoomInv, Typed, StreamTypes, ClientTypes, QueueTypes, ClientVars, barrierVars,
              sessionVars, queueVars
<1>4. ASSUME NEW r \in Client PROVE ClientInv(r)'
  <2>1. Kept(r, <<>>)
    <3>1. down[r] \in Seq(DownMessage)
      BY DEF RoomInv, Typed, StreamTypes
    <3>2. down[r] \o <<>> = down[r]
      BY <3>1
    <3> QED BY <3>2 DEF Kept, ClientVars, barrierVars, sessionVars
  <2>2. NoWelcome(<<>>) /\ <<>> \in Seq(DownMessage) /\ r \notin Members'
    BY <1>1 DEF NoWelcome
  <2>3. ~Present(r)'
    BY <1>1 DEF Present
  <2>4. PICK q \in Seq(DownMessage) : q = <<>>
    BY <2>2
  <2> QED BY <2>1, <2>2, <2>3, <2>4, RelayClient
<1> QED BY <1>2, <1>3, <1>4 DEF RoomInv

\* A departure that commits nothing.
LEMMA DepartStep ==
  ASSUME RoomInv, NEW c \in Client, c \in Members, up' = up,
         NEW t \in [Client -> Seq(DownMessage)], Heard(t), UNCHANGED ClientVars,
         Follows(t), RoomTypes', waiting' = waiting \ {c}, c \notin Members',
         UNCHANGED <<settings, pending, generation, agreed>>,
         \A r \in Client : NoCommit(t[r])
  PROVE  RoomInv'
<1>1. Reads(c)
  BY DEF Reads
<1>2. Typed'
  BY <1>1, RelayTypes DEF RoomInv
<1>3. RoomStanding'
  BY DEF RoomInv, RoomStanding, Follows, Members
<1>4. ASSUME NEW r \in Client PROVE ClientInv(r)'
  <2>1. t[r] \in Seq(DownMessage) /\ NoWelcome(t[r]) /\ (r \notin Members => t[r] = <<>>)
        /\ NoCommit(t[r])
    BY DEF Follows
  <2>2. Kept(r, t[r])
    BY <1>1, RelayKept DEF RoomInv
  <2>3. ASSUME Present(r)' PROVE MemberStanding(r)' /\ OwnerStanding(r)'
    <3>1. Present(r) /\ r \in Members' /\ r \in Members /\ phase[r] # "gone"
      BY <2>2, <2>3 DEF Present, Kept, Follows
    <3>2. StreamTypes /\ RoomTypes /\ ClientStanding(r) /\ MemberStanding(r) /\ OwnerStanding(r)
      BY <3>1 DEF RoomInv, Typed, ClientInv
    <3>3. pending' # None /\ r \notin waiting' => Base(r) = generation
      BY <3>1, <3>2 DEF MemberStanding
    <3>4. MemberStanding(r)'
      BY <2>1, <2>2, <3>1, <3>2, <3>3, ToldQuiet
    <3>5. \A i \in 1 .. Len(t[r]) : NamesOwner(t[r][i]) /\ t[r][i].owner = r => owner' = r
      BY <3>1 DEF Follows, NamesOnly
    <3>6. owner = r => owner' = r
      BY <3>1 DEF Follows
    <3>7. OwnerStanding(r)'
      BY <2>1, <2>2, <3>1, <3>2, <3>5, <3>6, ToldOwner
    <3> QED BY <3>4, <3>7
  <2>4. r \notin Members => r \notin Members'
    BY DEF Follows
  <2> QED BY <2>1, <2>2, <2>3, <2>4, RelayClient
<1> QED BY <1>2, <1>3, <1>4 DEF RoomInv

\* One message for the clients in T.
LEMMA OneTold ==
  ASSUME NEW m \in DownMessage, NEW r, NEW T
  PROVE  \E a \in Seq(DownMessage) :
           /\ a = When(r \in T, m)
           /\ \A i \in 1 .. Len(a) : a[i] = m /\ r \in T /\ i = Len(a)
           /\ r \in T => Len(a) = 1 /\ 1 \in 1 .. Len(a)
           /\ r \notin T => a = <<>>
<1>1. CASE r \in T
  <2>1. PICK a \in Seq(DownMessage) : a = <<m>>
    <3>1. <<m>> \in Seq(DownMessage)
      OBVIOUS
    <3> QED BY <3>1
  <2>2. a = When(r \in T, m)
    BY <1>1, <2>1 DEF When
  <2>3. Len(a) = 1 /\ 1 \in 1 .. Len(a) /\ \A i \in 1 .. Len(a) : a[i] = m /\ i = Len(a)
    BY <2>1
  <2> QED BY <1>1, <2>2, <2>3
<1>2. CASE r \notin T
  <2>1. PICK a \in Seq(DownMessage) : a = <<>>
    <3>1. <<>> \in Seq(DownMessage)
      OBVIOUS
    <3> QED BY <3>1
  <2>2. a = When(r \in T, m)
    BY <1>2, <2>1 DEF When
  <2>3. \A i \in 1 .. Len(a) : FALSE
    BY <2>1
  <2> QED BY <1>2, <2>1, <2>2, <2>3
<1> QED BY <1>1, <1>2

\* q says m1 to the clients in T1, m2 to those in T2 and, at the end, m3 to
\* those in T3, as far as r is one of them.
Says(q, r, m1, T1, m2, T2, m3, T3) ==
  /\ q \in Seq(DownMessage)
  /\ \A i \in 1 .. Len(q) : \/ q[i] = m1 /\ r \in T1
                            \/ q[i] = m2 /\ r \in T2
                            \/ q[i] = m3 /\ r \in T3 /\ i = Len(q)
  /\ r \in T3 => Len(q) \in 1 .. Len(q) /\ q[Len(q)] = m3
  /\ r \notin T1 /\ r \notin T2 /\ r \notin T3 => q = <<>>

\* What a departure tells a client: who left, who owns, what is committed.
LEMMA ThreeTold ==
  ASSUME NEW m1 \in DownMessage, NEW m2 \in DownMessage, NEW m3 \in DownMessage,
         NEW r, NEW T1, NEW T2, NEW T3, NEW q,
         q = When(r \in T1, m1) \o When(r \in T2, m2) \o When(r \in T3, m3)
  PROVE  Says(q, r, m1, T1, m2, T2, m3, T3)
<1>1. PICK a \in Seq(DownMessage) :
        /\ a = When(r \in T1, m1)
        /\ \A i \in 1 .. Len(a) : a[i] = m1 /\ r \in T1
        /\ r \notin T1 => a = <<>>
  BY OneTold
<1>2. PICK b \in Seq(DownMessage) :
        /\ b = When(r \in T2, m2)
        /\ \A i \in 1 .. Len(b) : b[i] = m2 /\ r \in T2
        /\ r \notin T2 => b = <<>>
  BY SMTT(30), OneTold
<1>3. PICK d \in Seq(DownMessage) :
        /\ d = When(r \in T3, m3)
        /\ \A i \in 1 .. Len(d) : d[i] = m3 /\ r \in T3 /\ i = Len(d)
        /\ r \in T3 => Len(d) = 1 /\ 1 \in 1 .. Len(d)
        /\ r \notin T3 => d = <<>>
  BY SMTT(30), OneTold
<1>4. PICK e \in Seq(DownMessage) :
        /\ e = a \o b
        /\ \A i \in 1 .. Len(e) : (e[i] = m1 /\ r \in T1) \/ (e[i] = m2 /\ r \in T2)
  <2>1. /\ a \o b \in Seq(DownMessage) /\ Len(a \o b) = Len(a) + Len(b)
        /\ Len(a) \in Nat /\ Len(b) \in Nat
        /\ \A i \in 1 .. Len(a) + Len(b) : (a \o b)[i] = IF i <= Len(a) THEN a[i] ELSE b[i - Len(a)]
    BY <1>1, <1>2, ConcatElements
  <2>2. \A i \in 1 .. Len(a) + Len(b) :
          (i <= Len(a) /\ i \in 1 .. Len(a)) \/ (~(i <= Len(a)) /\ i - Len(a) \in 1 .. Len(b))
    BY <2>1
  <2>3. \A i \in 1 .. Len(a \o b) :
          ((a \o b)[i] = m1 /\ r \in T1) \/ ((a \o b)[i] = m2 /\ r \in T2)
    BY SMTT(30), <1>1, <1>2, <2>1, <2>2
  <2> QED BY <2>1, <2>3
<1>5. q = e \o d
  BY <1>1, <1>2, <1>3, <1>4
<1>6. /\ q \in Seq(DownMessage) /\ Len(q) = Len(e) + Len(d) /\ Len(e) \in Nat /\ Len(d) \in Nat
      /\ \A i \in 1 .. Len(e) + Len(d) : q[i] = IF i <= Len(e) THEN e[i] ELSE d[i - Len(e)]
  <2>1. /\ e \o d \in Seq(DownMessage) /\ Len(e \o d) = Len(e) + Len(d)
        /\ Len(e) \in Nat /\ Len(d) \in Nat
        /\ \A i \in 1 .. Len(e) + Len(d) : (e \o d)[i] = IF i <= Len(e) THEN e[i] ELSE d[i - Len(e)]
    BY ConcatElements
  <2> QED BY <1>5, <2>1
<1>7. ASSUME NEW i \in 1 .. Len(q)
      PROVE  \/ q[i] = m1 /\ r \in T1
             \/ q[i] = m2 /\ r \in T2
             \/ q[i] = m3 /\ r \in T3 /\ i = Len(q)
  <2>1. CASE i <= Len(e)
    <3>1. i \in 1 .. Len(e) /\ q[i] = e[i]
      BY SMTT(30), <1>6, <2>1
    <3> QED BY <1>4, <3>1
  <2>2. CASE ~(i <= Len(e))
    <3>1. i - Len(e) \in 1 .. Len(d) /\ q[i] = d[i - Len(e)]
      BY <1>6, <2>2, SMTT(30)
    <3>2. d[i - Len(e)] = m3 /\ r \in T3 /\ i - Len(e) = Len(d)
      BY <1>3, <3>1
    <3> QED BY SMTT(30), <1>6, <3>1, <3>2
  <2> QED BY <2>1, <2>2
<1>8. r \in T3 => Len(q) \in 1 .. Len(q) /\ q[Len(q)] = m3
  <2> SUFFICES ASSUME r \in T3 PROVE Len(q) \in 1 .. Len(q) /\ q[Len(q)] = m3
    OBVIOUS
  <2>1. Len(d) = 1 /\ 1 \in 1 .. Len(d)
    BY <1>3
  <2>2. Len(q) = Len(e) + 1 /\ Len(q) \in 1 .. Len(e) + Len(d) /\ ~(Len(q) <= Len(e))
        /\ Len(q) - Len(e) = 1
    BY <1>6, <2>1
  <2>3. q[Len(q)] = d[1]
    BY <1>6, <2>2
  <2> QED BY <1>3, <2>1, <2>2, <2>3
<1>9. r \notin T1 /\ r \notin T2 /\ r \notin T3 => q = <<>>
  BY <1>1, <1>2, <1>3, <1>4, <1>5
<1> QED BY <1>6, <1>7, <1>8, <1>9 DEF Says

\* A departure hands on the ownership and may commit the change.
LEMMA ClientRemoved ==
  ASSUME RoomInv, BarrierAssumption, NEW c \in Client, RemoveClient(c)
  PROVE  RoomInv'
<1>1. c \in Members /\ up' = up /\ UNCHANGED ClientVars /\ closing' = closing \ {c}
      /\ Left(c)
  BY DEF RemoveClient, ClientVars, Left
<1>2. StreamTypes /\ RoomTypes /\ RoomStanding /\ members # <<>>
  BY <1>1 DEF RoomInv, Typed, Members
<1>3. /\ members' \in Seq(Client)
      /\ Members' = Members \ {c}
      /\ members' # <<>> => Head(members') \in Members'
  BY <1>1, <1>2, LeftMembers
<1>4. Members \subseteq Client /\ owner \in Members /\ generation \in Nat
      /\ waiting \subseteq Members /\ closing \subseteq Members
  BY <1>2 DEF RoomTypes, RoomStanding, Members
<1>5. CASE members' = <<>>
  <2>1. /\ owner' = None /\ generation' = 0 /\ settings' = None /\ pending' = None
        /\ waiting' = {} /\ agreed' = <<>> /\ UNCHANGED down
    BY <1>1, <1>5 DEF RemoveClient, Left
  <2>2. Members' = {}
    BY <1>5 DEF Members
  <2>3. closing' = {}
    BY <1>1, <1>3, <1>4, <2>2
  <2> QED BY <1>1, <1>5, <2>1, <2>3, RoomEnds
<1>6. CASE members' # <<>>
  <2>1. PICK next : next = IF owner = c THEN Head(members') ELSE owner
    OBVIOUS
  <2>2. PICK w : w = waiting \ {c}
    OBVIOUS
  <2>3. Successor(c, members') = next /\ AwaitedWithout(c) = w
    BY <1>6, <2>1, <2>2 DEF Successor, AwaitedWithout
  <2>4. next \in Members' /\ next \in Client /\ (owner \in Members' => next = owner)
    BY <1>3, <1>4, <1>6, <2>1
  <2> DEFINE m1 == [type |-> "peer_left", id |-> c]
             m2 == [type |-> "owner_changed", owner |-> next]
             T1 == Open \ {c}
             T2 == {r \in Open \ {c} : next # owner}
             T3 == {r \in Members \ {c} : Commits(w)}
  <2>5. PICK m3 \in DownMessage :
          /\ m3.type = "room_settings"
          /\ Commits(w) => /\ m3 = Commit(next) /\ m3.generation = generation + 1
                           /\ m3.settings = pending /\ m3.owner = next
    <3>1. CASE Commits(w)
      <4>1. pending \in Setting /\ generation + 1 \in Nat
        BY <1>2, <1>4, <3>1 DEF RoomTypes, SettingOrNone, Commits
      <4>2. Commit(next) \in DownMessage
        BY <2>4, <4>1, DownMade DEF Commit
      <4> QED BY <3>1, <4>2 DEF Commit
    <3>2. CASE ~Commits(w)
      <4>1. FirstSetting \in Setting /\ 0 \in Nat
        BY DEF BarrierAssumption
      <4>2. [type |-> "room_settings", generation |-> 0, settings |-> FirstSetting, owner |-> c]
              \in DownMessage
        BY <4>1, DownMade
      <4> QED BY <3>2, <4>2
    <3> QED BY <3>1, <3>2
  <2> DEFINE said(r) == When(r \in T1, m1) \o When(r \in T2, m2) \o When(r \in T3, m3)
             t == [r \in Client |-> said(r)]
  <2>6. /\ owner' = next /\ FinishSettings(w)
        /\ down' = [r \in Client |-> IF phase[r] = "gone" THEN <<>>
                      ELSE down[r] \o (When(r \in Open \ {c}, m1)
                             \o When(r \in Open \ {c} /\ next # owner, m2)
                             \o When(r \in Members \ {c} /\ Commits(w), Commit(next)))]
    BY <1>1, <1>6, <2>3, ZenonT(30) DEF RemoveClient, Tell, Left
  <2>7. ASSUME NEW r \in Client
        PROVE  /\ When(r \in Open \ {c}, m1) = When(r \in T1, m1)
               /\ When(r \in Open \ {c} /\ next # owner, m2) = When(r \in T2, m2)
               /\ When(r \in Members \ {c} /\ Commits(w), Commit(next)) = When(r \in T3, m3)
    BY <2>5 DEF When
  <2>8. down' = [r \in Client |-> IF phase[r] = "gone" THEN <<>> ELSE down[r] \o t[r]]
    <3> HIDE DEF m1, m2, T1, T2, T3
    <3> QED BY <2>6, <2>7
  <2>9. m1 \in DownMessage /\ m2 \in DownMessage
    BY <2>4, DownMade
  <2>10. ASSUME NEW r \in Client
         PROVE  /\ t[r] \in Seq(DownMessage)
                /\ \A i \in 1 .. Len(t[r]) : \/ t[r][i] = m1 /\ r \in T1
                                             \/ t[r][i] = m2 /\ r \in T2
                                             \/ t[r][i] = m3 /\ r \in T3 /\ i = Len(t[r])
                /\ r \in T3 => Len(t[r]) \in 1 .. Len(t[r]) /\ t[r][Len(t[r])] = m3
                /\ r \notin T1 /\ r \notin T2 /\ r \notin T3 => t[r] = <<>>
    <3> HIDE DEF m1, m2, T1, T2, T3
    <3>1. PICK q : q = t[r] /\ q = When(r \in T1, m1) \o When(r \in T2, m2) \o When(r \in T3, m3)
      OBVIOUS
    <3> HIDE DEF t
    <3>2. Says(q, r, m1, T1, m2, T2, m3, T3)
      BY <2>9, <3>1, ThreeTold
    <3> QED BY <3>1, <3>2 DEF Says
  <2>11. t \in [Client -> Seq(DownMessage)]
    BY <2>10
  <2>12. m1.type = "peer_left" /\ m2.type = "owner_changed" /\ m2.owner = next
    OBVIOUS
  <2>13. \A r \in Client : r \notin Members => r \notin T1 /\ r \notin T2 /\ r \notin T3
    BY <1>4 DEF Open
  <2>14. \A r \in Client : r \in T3 <=> r \in Members' /\ Commits(w)
    BY <1>3
  <2> HIDE DEF m1, m2, T1, T2, T3, t
  <2>15. Heard(t)
    BY <1>2, <2>8, <2>11, TellHeard
  <2>16. Follows(t)
    <3>1. \A r \in Client : NoWelcome(t[r]) /\ (r \notin Members => t[r] = <<>>)
      BY <2>5, <2>10, <2>12, <2>13 DEF NoWelcome
    <3>2. ASSUME NEW r \in Members' PROVE NamesOnly(t[r], owner', r)
      <4>1. r \in Client
        BY <1>3, <1>4
      <4>2. \A i \in 1 .. Len(t[r]) : NamesOwner(t[r][i]) => t[r][i].owner = next
        BY <2>5, <2>10, <2>12, <2>14, <4>1, ZenonT(30) DEF NamesOwner
      <4> QED BY <2>6, <4>2 DEF NamesOnly
    <3> QED BY <1>3, <1>6, <2>4, <2>6, <3>1, <3>2 DEF Follows
  <2>17. CASE ~Commits(w)
    <3>1. waiting' = waiting \ {c} /\ UNCHANGED <<settings, pending, generation, agreed>>
      BY <2>2, <2>6, <2>17 DEF FinishSettings
    <3>2. RoomTypes'
      <4>1. pending = None <=> waiting \ {c} = {}
        BY <1>2, <2>2, <2>17 DEF RoomTypes, Commits
      <4> QED BY <1>1, <1>2, <1>3, <3>1, <4>1 DEF RoomTypes
    <3>3. \A r \in Client : NoCommit(t[r])
      BY <2>10, <2>12, <2>14, <2>17 DEF NoCommit
    <3>4. c \notin Members'
      BY <1>3
    <3> QED BY <1>1, <2>11, <2>15, <2>16, <3>1, <3>2, <3>3, <3>4, DepartStep
  <2>18. CASE Commits(w)
    <3>1. /\ waiting' = {} /\ settings' = pending /\ pending' = None
          /\ generation' = generation + 1 /\ agreed' = Append(agreed, pending)
          /\ pending # None /\ waiting \ {c} = {}
      BY <2>2, <2>6, <2>18 DEF FinishSettings, Commits
    <3>2. RoomTypes'
      <4>1. agreed' \in Seq(Setting) /\ generation' \in Nat
        BY <1>2, <1>4, <3>1 DEF RoomTypes, SettingOrNone
      <4> QED BY <1>1, <1>2, <1>3, <3>1, <4>1 DEF RoomTypes, SettingOrNone
    <3>3. ASSUME NEW r \in Members' PROVE EndsWithCommit(t[r])
      <4>1. r \in Client /\ r \in T3
        BY <1>3, <1>4, <2>14, <2>18
      <4>2. Len(t[r]) \in 1 .. Len(t[r]) /\ t[r][Len(t[r])] = m3
        BY <2>10, <4>1
      <4>3. \A i \in 1 .. Len(t[r]) : t[r][i].type = "room_settings" <=> i = Len(t[r])
        BY <2>5, <2>10, <2>12, <4>1, <4>2
      <4> QED BY <2>5, <2>18, <4>2, <4>3 DEF EndsWithCommit
    <3>4. \A r \in Members' : Present(r) => Base(r) = generation
      BY <1>3, <1>4, <3>1 DEF RoomInv, ClientInv, MemberStanding
    <3>5. Reads(c)
      BY <1>1 DEF Reads
    <3> QED BY <1>1, <2>11, <2>15, <2>16, <3>1, <3>2, <3>3, <3>4, <3>5, CommitStep
  <2> QED BY <2>17, <2>18
<1> QED BY <1>5, <1>6

\* The deadline empties the room.
LEMMA RoomDeadlinePassed ==
  ASSUME RoomInv, RoomDeadline
  PROVE  RoomInv'
<1>1. UNCHANGED <<up, down, ClientVars>>
  BY DEF RoomDeadline, netVars, ClientVars, historyVars
<1> QED BY <1>1, RoomEnds DEF RoomDeadline

\* Who says hello is waiting to be welcomed.
LEMMA HelloFacts ==
  ASSUME RoomInv, NEW c \in Client, up[c] # <<>>, Head(up[c]).type = "hello"
  PROVE  /\ phase[c] = "joining" /\ c \notin Members /\ down[c] = <<>>
         /\ up[c] = <<[type |-> "hello"]>> /\ Tail(up[c]) = <<>>
<1>1. up[c] \in Seq(UpMessage) /\ phase[c] \in {"out", "joining", "in", "gone"}
  BY DEF RoomInv, Typed, StreamTypes, ClientTypes
<1>2. 1 \in 1 .. Len(up[c]) /\ up[c][1].type = "hello"
  BY <1>1
<1>3. ClientStanding(c)
  BY DEF RoomInv, ClientInv
<1>4. phase[c] = "joining"
  BY <1>1, <1>2, <1>3 DEF ClientStanding
<1>5. up[c] = <<[type |-> "hello"]>> /\ down[c] = <<>> /\ c \notin Members
  BY <1>3, <1>4 DEF ClientStanding
<1>6. Tail(<<[type |-> "hello"]>>) = <<>>
  OBVIOUS
<1> QED BY <1>4, <1>5, <1>6

\* The others when a newcomer is read.
LEMMA HelloOthers ==
  ASSUME RoomInv, NEW c \in Client, c \notin Members, Reads(c),
         NEW t \in [Client -> Seq(DownMessage)], Heard(t), UNCHANGED ClientVars,
         UNCHANGED <<generation, pending, waiting>>,
         members # <<>> => UNCHANGED <<owner, agreed>>,
         Members' \subseteq Members \cup {c},
         NEW r \in Client, r # c, NamesNobody(t[r]), r \notin Members => t[r] = <<>>
  PROVE  ClientInv(r)'
<1>1. t[r] \in Seq(DownMessage)
  OBVIOUS
<1>2. NoWelcome(t[r]) /\ NoCommit(t[r])
  BY DEF NoWelcome, NoCommit, NamesNobody, NamesOwner
<1>3. Kept(r, t[r])
  BY RelayKept DEF RoomInv
<1>4. ASSUME Present(r)' PROVE MemberStanding(r)' /\ OwnerStanding(r)'
  <2>1. Present(r) /\ members # <<>>
    <3>1. r \in Members /\ phase[r] # "gone"
      BY <1>3, <1>4 DEF Present, Kept
    <3> QED BY <3>1 DEF Present, Members
  <2>2. StreamTypes /\ ClientStanding(r) /\ MemberStanding(r) /\ OwnerStanding(r)
    BY <2>1 DEF RoomInv, Typed, ClientInv
  <2>3. pending' # None /\ r \notin waiting' => Base(r) = generation
    BY <2>2 DEF MemberStanding
  <2>4. MemberStanding(r)'
    BY <1>1, <1>2, <1>3, <2>1, <2>2, <2>3, ToldQuiet DEF Present
  <2>5. \A i \in 1 .. Len(t[r]) : NamesOwner(t[r][i]) /\ t[r][i].owner = r => owner' = r
    BY DEF NamesNobody
  <2>6. OwnerStanding(r)'
    BY <1>1, <1>3, <2>1, <2>2, <2>5, ToldOwner DEF Present
  <2> QED BY <2>4, <2>6
<1> QED BY <1>1, <1>2, <1>3, <1>4, RelayClient

\* A newcomer is welcomed with the settings in force.
LEMMA HelloRouted ==
  ASSUME RoomInv, BarrierAssumption, NEW c \in Client, RouteHello(c)
  PROVE  RoomInv'
<1>1. /\ c \notin Members /\ up[c] # <<>> /\ Head(up[c]).type = "hello"
      /\ up' = [up EXCEPT ![c] = Tail(@)]
      /\ UNCHANGED <<generation, pending, waiting, closing>> /\ UNCHANGED ClientVars
  BY DEF RouteHello, ClientVars, historyVars
<1>2. /\ phase[c] = "joining" /\ down[c] = <<>>
      /\ up[c] = <<[type |-> "hello"]>> /\ Tail(up[c]) = <<>>
  BY <1>1, HelloFacts
<1>3. StreamTypes /\ RoomTypes /\ RoomStanding /\ Typed /\ Reads(c)
  BY <1>1 DEF RoomInv, Typed, Reads
<1>4. up'[c] = <<>> /\ phase'[c] = "joining"
  BY <1>1, <1>2, <1>3 DEF StreamTypes, ClientVars, sessionVars
<1>5. ~(Present(c)' /\ phase'[c] = "gone") /\ (phase[c] = "in" => ReadyInTime(c))'
  BY <1>4
<1>6. CASE Len(members) >= MaxRoomClients
  <2> DEFINE m == [type |-> "error"]
             t == [r \in Client |-> When(r \in {c}, m)]
  <2>1. m \in DownMessage /\ ~NamesOwner(m)
    BY DownMade DEF NamesOwner
  <2>2. /\ down' = [r \in Client |-> IF phase[r] = "gone" THEN <<>> ELSE down[r] \o When(r \in {c}, m)]
        /\ UNCHANGED <<members, owner, settings, agreed>>
    BY <1>1, <1>6 DEF RouteHello, Tell, When
  <2>3. \A r \in Client : /\ r # c => When(r \in {c}, m) = <<>>
                          /\ r = c => When(r \in {c}, m) = <<m>>
    BY DEF When
  <2> HIDE DEF m
  <2>4. /\ \A r \in Client : r # c => t[r] = <<>>
        /\ t[c] = <<m>> /\ <<m>> \in Seq(DownMessage) /\ <<>> \in Seq(DownMessage)
    BY <2>1, <2>3
  <2>5. t \in [Client -> Seq(DownMessage)]
    BY <2>3, <2>4
  <2>6. down' = [r \in Client |-> IF phase[r] = "gone" THEN <<>> ELSE down[r] \o t[r]]
    BY <2>2
  <2> HIDE DEF t
  <2>7. Heard(t)
    BY <1>3, <2>5, <2>6, TellHeard
  <2>8. RoomTypes' /\ RoomStanding' /\ Members' = Members
    BY <1>1, <1>3, <2>2 DEF RoomTypes, RoomStanding, Members
  <2>9. Typed'
    BY <1>1, <1>3, <2>7, <2>8, RelayTypes
  <2>10. ASSUME NEW r \in Client, r # c PROVE ClientInv(r)'
    <3>1. NamesNobody(t[r]) /\ (r \notin Members => t[r] = <<>>)
      BY <2>4, <2>10 DEF NamesNobody
    <3>2. Members' \subseteq Members \cup {c} /\ UNCHANGED <<owner, agreed>>
      BY <2>2, <2>8
    <3> QED BY <1>1, <1>3, <2>5, <2>7, <2>10, <3>1, <3>2, HelloOthers
  <2>11. ClientInv(c)'
    <3>1. down'[c] = <<m>>
      <4>1. down'[c] = <<>> \o <<m>>
        BY <1>2, <2>4, <2>6
      <4> QED BY <4>1
    <3>2. \A i \in 1 .. Len(down'[c]) : down'[c][i].type # "welcome"
      BY <2>1, <3>1 DEF NamesOwner
    <3>3. ClientStanding(c)'
      BY <1>1, <1>4, <2>8, <3>2 DEF ClientStanding
    <3>4. ~Present(c)'
      BY <1>1, <2>8 DEF Present
    <3> QED BY <1>4, <3>3, <3>4 DEF ClientInv
  <2> QED BY <2>8, <2>9, <2>10, <2>11 DEF RoomInv
<1>7. CASE ~(Len(members) >= MaxRoomClients)
  <2>1. PICK o, s : o = owner' /\ s = settings'
    OBVIOUS
  <2> DEFINE w == Welcome(o, s)
             j == [type |-> "peer_joined", id |-> c]
             said(r) == IF r = c THEN <<w>> ELSE When(r \in Open, j)
             t == [r \in Client |-> said(r)]
  <2>2. /\ members' = Append(members, c)
        /\ members = <<>> => o = c /\ s = FirstSetting /\ agreed' = <<FirstSetting>>
        /\ members # <<>> => o = owner /\ s = settings /\ agreed' = agreed
    BY <1>7, <2>1 DEF RouteHello
  <2>3. down' = [r \in Client |-> IF phase[r] = "gone" THEN <<>>
                   ELSE down[r] \o (IF r = c THEN <<Welcome(owner', settings')>>
                                    ELSE When(r \in Open, [type |-> "peer_joined", id |-> c]))]
    BY <1>7 DEF RouteHello, Tell
  <2>4. down' = [r \in Client |-> IF phase[r] = "gone" THEN <<>> ELSE down[r] \o t[r]]
    <3> HIDE DEF j
    <3> QED BY <2>1, <2>3 DEF j
  <2>5. /\ members' \in Seq(Client) /\ Members' = Members \cup {c} /\ members' # <<>>
    <3>1. members \in Seq(Client)
      BY <1>3 DEF RoomTypes
    <3>2. /\ Append(members, c) \in Seq(Client)
          /\ Len(Append(members, c)) = Len(members) + 1 /\ Len(members) \in Nat
          /\ \A i \in 1 .. Len(members) + 1 :
               Append(members, c)[i] = IF i = Len(members) + 1 THEN c ELSE members[i]
      BY <3>1, AppendElements
    <3>3. PICK n \in Nat : n = Len(members)
      BY <3>2
    <3>4. PICK p \in Seq(Client) : p = members' /\ Len(p) = n + 1
                                   /\ \A i \in 1 .. n + 1 : p[i] = IF i = n + 1 THEN c ELSE members[i]
      BY <2>2, <3>2, <3>3
    <3>5. DOMAIN p = 1 .. n + 1 /\ DOMAIN members = 1 .. n
      BY <3>1, <3>3, <3>4
    <3>6. {p[i] : i \in 1 .. n + 1} = {members[i] : i \in 1 .. n} \cup {c}
      <4>1. ASSUME NEW i \in 1 .. n + 1 PROVE p[i] \in {members[k] : k \in 1 .. n} \cup {c}
        BY <3>4
      <4>2. ASSUME NEW i \in 1 .. n PROVE i \in 1 .. n + 1 /\ p[i] = members[i]
        BY <3>4
      <4>3. n + 1 \in 1 .. n + 1 /\ p[n + 1] = c
        BY <3>4
      <4> QED BY <4>1, <4>2, <4>3
    <3>7. p # <<>>
      BY <3>4
    <3> QED BY <3>4, <3>5, <3>6, <3>7, SMTT(30) DEF Members
  <2>6. generation \in Nat /\ Members \in SUBSET Client /\ (pending # None) \in BOOLEAN
    BY <1>3 DEF RoomTypes, Members
  <2>7. /\ agreed' \in Seq(Setting) /\ Len(agreed') = generation + 1
        /\ s = agreed'[generation + 1] /\ o \in Members' /\ o \in Client
    <3>1. CASE members = <<>>
      <4>1. <<FirstSetting>> \in Seq(Setting) /\ Len(<<FirstSetting>>) = 1 /\ <<FirstSetting>>[1] = FirstSetting
        BY DEF BarrierAssumption
      <4>2. generation = 0
        BY <1>3, <3>1 DEF RoomStanding
      <4>3. agreed' = <<FirstSetting>> /\ s = FirstSetting /\ o = c
        BY <2>2, <3>1
      <4>4. c \in Members'
        BY <2>5
      <4>5. Len(agreed') = generation + 1 /\ s = agreed'[generation + 1]
        BY <4>1, <4>2, <4>3
      <4> QED BY <4>1, <4>3, <4>4, <4>5
    <3>2. CASE members # <<>>
      <4>1. agreed \in Seq(Setting) /\ Len(agreed) = generation + 1
            /\ settings = agreed[generation + 1] /\ owner \in Members
        BY <1>3, <3>2 DEF RoomTypes, RoomStanding
      <4>2. agreed' = agreed /\ s = settings /\ o = owner
        BY <2>2, <3>2
      <4>3. o \in Client /\ o \in Members'
        BY <2>5, <2>6, <4>1, <4>2
      <4> QED BY <4>1, <4>2, <4>3
    <3> QED BY <3>1, <3>2
  <2>8. s \in Setting
    BY <2>6, <2>7
  <2>9. w \in DownMessage /\ w.type = "welcome" /\ w.generation = generation
        /\ w.settings = s /\ w.owner = o
    BY <2>6, <2>7, <2>8, DownMade DEF Welcome
  <2>10. j \in DownMessage /\ ~NamesOwner(j)
    BY DownMade DEF NamesOwner
  <2> HIDE DEF w, j
  <2>11. /\ t[c] = <<w>> /\ <<w>> \in Seq(DownMessage)
         /\ \A r \in Client : r # c => (r \in Open => t[r] = <<j>>) /\ (r \notin Open => t[r] = <<>>)
         /\ <<j>> \in Seq(DownMessage) /\ <<>> \in Seq(DownMessage)
    <3>1. <<w>> \in Seq(DownMessage) /\ <<j>> \in Seq(DownMessage) /\ <<>> \in Seq(DownMessage)
      BY <2>9, <2>10
    <3>2. ASSUME NEW r \in Client, r # c
          PROVE  (r \in Open => t[r] = <<j>>) /\ (r \notin Open => t[r] = <<>>)
      <4>1. t[r] = When(r \in Open, j)
        BY <3>2
      <4> QED BY <4>1 DEF When
    <3> QED BY <3>1, <3>2
  <2>12. t \in [Client -> Seq(DownMessage)]
    BY <2>11
  <2> HIDE DEF t
  <2>13. Heard(t)
    BY <1>3, <2>4, <2>12, TellHeard
  <2>14. RoomTypes' /\ RoomStanding'
    BY <1>1, <1>3, <2>1, <2>5, <2>7, ZenonT(30) DEF RoomTypes, RoomStanding
  <2>15. Typed'
    BY <1>1, <1>3, <2>13, <2>14, RelayTypes
  <2>16. ASSUME NEW r \in Client, r # c PROVE ClientInv(r)'
    <3>1. NamesNobody(<<j>>) /\ NamesNobody(<<>>) /\ Open \subseteq Members
      BY <2>10 DEF NamesNobody, Open
    <3>2. NamesNobody(t[r]) /\ (r \notin Members => t[r] = <<>>)
      BY <2>11, <2>16, <3>1
    <3>3. members # <<>> => UNCHANGED <<owner, agreed>>
      BY <2>1, <2>2
    <3>4. Members' \subseteq Members \cup {c}
      BY <2>5
    <3> QED BY <1>1, <1>3, <2>12, <2>13, <2>16, <3>2, <3>3, <3>4, HelloOthers
  <2>17. ClientInv(c)'
    <3>1. down'[c] = <<w>>
      <4>1. down'[c] = <<>> \o <<w>>
        BY <1>2, <2>4, <2>11
      <4> QED BY <4>1
    <3>2. /\ down'[c] # <<>> /\ down'[c][1] = w /\ Len(down'[c]) = 1
      BY <3>1
    <3>3. \A i \in 1 .. Len(down'[c]) : i = 1
      BY <3>2
    <3>4. ClientStanding(c)'
      BY <1>4, <2>9, <3>2, <3>3 DEF ClientStanding
    <3>5. Base(c)' = generation /\ BaseSettings(c)' = s
      BY <1>4, <2>9, <3>2 DEF Base, BaseSettings
    <3>6. \A i \in 1 .. Len(down'[c]) : ~CommitAt(c, i)'
      BY <2>9, <3>2, <3>3 DEF CommitAt
    <3>7. MemberStanding(c)'
      BY <1>1, <2>6, <2>7, <3>3, <3>5, <3>6 DEF MemberStanding
    <3>8. OwnerStanding(c)'
      BY <1>4, <2>1, <2>9, <3>2, <3>3 DEF OwnerStanding
    <3> QED BY <1>4, <3>4, <3>7, <3>8 DEF ClientInv
  <2> QED BY <2>14, <2>15, <2>16, <2>17 DEF RoomInv
<1> QED BY <1>6, <1>7

-----------------------------------------------------------------------------
(***************************************************************************)
(* A client's steps.                                                       *)
(***************************************************************************)

\* Nothing of what another client stands on changes.
OnlyAt(c) ==
  \A r \in Client : r # c =>
    /\ up'[r] = up[r] /\ down'[r] = down[r] /\ phase'[r] = phase[r]
    /\ cgen'[r] = cgen[r] /\ cset'[r] = cset[r] /\ isOwner'[r] = isOwner[r]

\* The parts of the state that a client's step keeps typed.
TypesKept == StreamTypes' /\ ClientTypes' /\ QueueTypes'

\* A step of one client is judged at that client only.
LEMMA ClientStep ==
  ASSUME RoomInv, NEW c \in Client, UNCHANGED relayVars, TypesKept, OnlyAt(c), ClientInv(c)'
  PROVE  RoomInv'
<1>1. RoomTypes' /\ RoomStanding' /\ Members' = Members
  BY DEF RoomInv, Typed, RoomTypes, RoomStanding, Members, relayVars
<1>2. Typed'
  BY <1>1 DEF Typed, TypesKept
<1>3. ASSUME NEW r \in Client, r # c PROVE ClientInv(r)'
  <2>1. /\ up'[r] = up[r] /\ down'[r] = down[r] /\ phase'[r] = phase[r]
        /\ cgen'[r] = cgen[r] /\ cset'[r] = cset[r] /\ isOwner'[r] = isOwner[r]
    BY <1>3 DEF OnlyAt
  <2>2. UNCHANGED <<generation, pending, waiting, agreed, owner>>
    BY DEF relayVars
  <2>3. ClientInv(r)
    BY DEF RoomInv
  <2>4. ClientStanding(r)'
    BY <1>1, <2>1, <2>3 DEF ClientInv, ClientStanding
  <2>5. (phase[r] = "in" => ReadyInTime(r))'
    BY <2>1, <2>3 DEF ClientInv, ReadyInTime
  <2>6. Base(r)' = Base(r) /\ BaseSettings(r)' = BaseSettings(r)
    BY <2>1 DEF Base, BaseSettings
  <2>7. ASSUME Present(r)' PROVE MemberStanding(r)' /\ OwnerStanding(r)'
    <3>1. MemberStanding(r) /\ OwnerStanding(r)
      BY <1>1, <2>1, <2>3, <2>7 DEF ClientInv, Present
    <3>2. MemberStanding(r)'
      BY <2>1, <2>2, <2>6, <3>1 DEF MemberStanding, CommitAt
    <3>3. OwnerStanding(r)'
      BY <2>1, <2>2, <3>1 DEF OwnerStanding, NamesOwner
    <3> QED BY <3>2, <3>3
  <2> QED BY <2>4, <2>5, <2>7 DEF ClientInv
<1> QED BY <1>1, <1>2, <1>3 DEF RoomInv

\* A session that ends.
LEMMA SessionEnds ==
  ASSUME RoomInv, NEW c \in Client, phase'[c] = "gone", up'[c] = up[c],
         \A i \in 1 .. Len(up[c]) : up[c][i].type # "hello"
  PROVE  ClientInv(c)'
<1>1. ClientStanding(c)'
  BY DEF ClientStanding
<1> QED BY <1>1 DEF ClientInv, Present

\* c reads one message or none.
ReadsOne(c) ==
  \/ down'[c] = down[c]
  \/ down[c] # <<>> /\ down'[c] = Tail(down[c]) /\ down[c][1].type # "room_settings"

\* What is left of a stream from which one message was read, or none.
LEMMA ReadOne ==
  ASSUME StreamTypes, NEW c \in Client, ReadsOne(c)
  PROVE  \E d \in {0, 1} :
           /\ Len(down'[c]) = Len(down[c]) - d /\ Len(down[c]) \in Nat
           /\ \A i \in 1 .. Len(down'[c]) :
                i + d \in 1 .. Len(down[c]) /\ down'[c][i] = down[c][i + d]
           /\ d = 1 => down[c][1].type # "room_settings" /\ 1 \in 1 .. Len(down[c])
<1>1. down[c] \in Seq(DownMessage)
  BY DEF StreamTypes
<1>2. PICK q \in Seq(DownMessage) : q = down[c]
  BY <1>1
<1>3. CASE down'[c] = down[c]
  <2>1. /\ Len(down'[c]) = Len(down[c]) - 0 /\ Len(down[c]) \in Nat
        /\ \A i \in 1 .. Len(down'[c]) :
             i + 0 \in 1 .. Len(down[c]) /\ down'[c][i] = down[c][i + 0]
    BY <1>2, <1>3
  <2> QED BY <2>1
<1>4. CASE down[c] # <<>> /\ down'[c] = Tail(down[c]) /\ down[c][1].type # "room_settings"
  <2>1. /\ Tail(q) \in Seq(DownMessage) /\ Len(q) \in Nat /\ Len(Tail(q)) = Len(q) - 1
        /\ \A i \in 1 .. Len(q) - 1 : Tail(q)[i] = q[i + 1]
    BY <1>2, <1>4, TailElements
  <2>2. /\ Len(down'[c]) = Len(down[c]) - 1 /\ Len(down[c]) \in Nat
        /\ \A i \in 1 .. Len(down'[c]) :
             i + 1 \in 1 .. Len(down[c]) /\ down'[c][i] = down[c][i + 1]
    BY <1>2, <1>4, <2>1
  <2>3. 1 \in 1 .. Len(down[c])
    BY <1>2, <1>4
  <2> QED BY <1>4, <2>2, <2>3
<1> QED BY <1>3, <1>4 DEF ReadsOne

\* A member's standing survives its reading of anything but a commit.
LEMMA StandingRead ==
  ASSUME NEW c \in Client, UNCHANGED <<generation, pending, waiting, agreed>>,
         generation \in Nat, StreamTypes, ReadsOne(c), MemberStanding(c),
         Base(c)' = Base(c), BaseSettings(c)' = BaseSettings(c)
  PROVE  MemberStanding(c)'
<1>1. PICK d \in {0, 1} :
        /\ Len(down'[c]) = Len(down[c]) - d /\ Len(down[c]) \in Nat
        /\ \A i \in 1 .. Len(down'[c]) :
             i + d \in 1 .. Len(down[c]) /\ down'[c][i] = down[c][i + d]
        /\ d = 1 => down[c][1].type # "room_settings" /\ 1 \in 1 .. Len(down[c])
  BY ReadOne
<1>2. \A i, j \in 1 .. Len(down'[c]) : CommitAt(c, i)' /\ CommitAt(c, j)' => i = j
  <2> SUFFICES ASSUME NEW i \in 1 .. Len(down'[c]), NEW j \in 1 .. Len(down'[c]),
                      CommitAt(c, i)', CommitAt(c, j)'
               PROVE  i = j
    OBVIOUS
  <2>1. /\ i + d \in 1 .. Len(down[c]) /\ CommitAt(c, i + d)
        /\ j + d \in 1 .. Len(down[c]) /\ CommitAt(c, j + d)
    BY <1>1 DEF CommitAt
  <2>2. i + d = j + d
    BY <2>1 DEF MemberStanding
  <2> QED BY <2>2
<1>3. \A i \in 1 .. Len(down'[c]) : CommitAt(c, i)' =>
       /\ Base(c)' + 1 = generation'
       /\ down'[c][i].generation = generation'
       /\ down'[c][i].settings = agreed'[generation' + 1]
  <2> SUFFICES ASSUME NEW i \in 1 .. Len(down'[c]), CommitAt(c, i)'
               PROVE  /\ Base(c)' + 1 = generation'
                      /\ down'[c][i].generation = generation'
                      /\ down'[c][i].settings = agreed'[generation' + 1]
    OBVIOUS
  <2>1. i + d \in 1 .. Len(down[c]) /\ CommitAt(c, i + d) /\ down'[c][i] = down[c][i + d]
    BY <1>1 DEF CommitAt
  <2> QED BY <2>1 DEF MemberStanding
<1>4. (\A i \in 1 .. Len(down'[c]) : ~CommitAt(c, i)') => Base(c)' = generation'
  <2> SUFFICES ASSUME \A i \in 1 .. Len(down'[c]) : ~CommitAt(c, i)'
               PROVE  Base(c)' = generation'
    OBVIOUS
  <2>1. ASSUME NEW k \in 1 .. Len(down[c]) PROVE ~CommitAt(c, k)
    <3>1. CASE d = 1 /\ k = 1
      BY <1>1, <3>1 DEF CommitAt
    <3>2. CASE ~(d = 1 /\ k = 1)
      <4>1. k - d \in 1 .. Len(down'[c]) /\ (k - d) + d = k
        BY <1>1, <3>2
      <4>2. down'[c][k - d] = down[c][k]
        BY <1>1, <4>1
      <4> QED BY <4>1, <4>2 DEF CommitAt
    <3> QED BY <3>1, <3>2
  <2> QED BY <2>1 DEF MemberStanding
<1> QED BY <1>2, <1>3, <1>4 DEF MemberStanding

\* What c adds to its stream to the relay, while it is in the room.
Uploaded(c, u) ==
  /\ up'[c] = up[c] \o u
  /\ \A i \in 1 .. Len(u) :
       /\ u[i].type # "hello"
       /\ u[i].type = "settings_ready" => u[i].generation <= cgen[c] + 1

\* A member that reads something other than a commit and stays in its
\* generation keeps its standing.
LEMMA StaysIn ==
  ASSUME RoomInv, NEW c \in Client, UNCHANGED relayVars,
         phase[c] = "in", phase'[c] = "in", cgen'[c] = cgen[c], cset'[c] = cset[c],
         ReadsOne(c), NEW u \in Seq(UpMessage), Uploaded(c, u),
         Present(c) /\ isOwner'[c] => owner = c
  PROVE  ClientInv(c)'
<1>1. StreamTypes /\ ClientInv(c) /\ generation \in Nat
  BY DEF RoomInv, Typed, RoomTypes
<1>2. UNCHANGED <<generation, pending, waiting, agreed, owner>> /\ Members' = Members
  BY DEF relayVars, Members
<1>3. PICK d \in {0, 1} :
        /\ Len(down'[c]) = Len(down[c]) - d /\ Len(down[c]) \in Nat
        /\ \A i \in 1 .. Len(down'[c]) :
             i + d \in 1 .. Len(down[c]) /\ down'[c][i] = down[c][i + d]
        /\ d = 1 => down[c][1].type # "room_settings" /\ 1 \in 1 .. Len(down[c])
  BY <1>1, ReadOne
<1>4. ASSUME NEW i \in 1 .. Len(up'[c])
      PROVE  \/ \E j \in 1 .. Len(up[c]) : up'[c][i] = up[c][j]
             \/ \E j \in 1 .. Len(u) : up'[c][i] = u[j]
  <2>1. PICK q \in Seq(UpMessage) : q = up[c]
    BY <1>1 DEF StreamTypes
  <2>2. PICK p : p = up'[c]
    OBVIOUS
  <2>3. /\ Len(q \o u) = Len(q) + Len(u) /\ Len(q) \in Nat /\ Len(u) \in Nat
        /\ \A k \in 1 .. Len(q) + Len(u) : (q \o u)[k] = IF k <= Len(q) THEN q[k] ELSE u[k - Len(q)]
    BY ConcatElements
  <2>4. p = q \o u
    BY <2>1, <2>2 DEF Uploaded
  <2>5. CASE i <= Len(q)
    BY <2>1, <2>2, <2>3, <2>4, <2>5
  <2>6. CASE ~(i <= Len(q))
    <3>1. i - Len(q) \in 1 .. Len(u) /\ p[i] = u[i - Len(q)]
      BY <2>2, <2>3, <2>4, <2>6
    <3> QED BY <2>2, <3>1
  <2> QED BY <2>5, <2>6
<1>5. ClientStanding(c)'
  <2>1. \A i \in 1 .. Len(up'[c]) : up'[c][i].type # "hello"
    BY <1>1, <1>4 DEF ClientInv, ClientStanding, Uploaded
  <2>2. \A i \in 1 .. Len(down[c]) : down[c][i].type # "welcome"
    BY <1>1 DEF ClientInv, ClientStanding
  <2>3. \A i \in 1 .. Len(down'[c]) : down'[c][i].type # "welcome"
    BY <1>3, <2>2
  <2> QED BY <2>1, <2>3 DEF ClientStanding
<1>6. ReadyInTime(c)'
  <2>1. ReadyInTime(c)
    BY <1>1 DEF ClientInv
  <2> QED BY <1>4, <2>1 DEF ReadyInTime, Uploaded
<1>7. ASSUME Present(c)' PROVE MemberStanding(c)' /\ OwnerStanding(c)'
  <2>1. MemberStanding(c) /\ OwnerStanding(c) /\ Present(c)
    BY <1>1, <1>2, <1>7 DEF ClientInv, Present
  <2>2. /\ Base(c)' = Base(c) /\ BaseSettings(c)' = BaseSettings(c)
    BY DEF Base, BaseSettings
  <2>6. MemberStanding(c)'
    BY <1>1, <1>2, <2>1, <2>2, StandingRead
  <2>7. OwnerStanding(c)'
    <3>1. \A i \in 1 .. Len(down'[c]) :
            NamesOwner(down'[c][i]) /\ down'[c][i].owner = c => owner = c
      BY <1>3, <2>1 DEF OwnerStanding
    <3> QED BY <1>2, <2>1, <3>1 DEF OwnerStanding, NamesOwner
  <2> QED BY <2>6, <2>7
<1> QED BY <1>5, <1>6, <1>7 DEF ClientInv

\* The session ends with nothing else said.
LEMMA FailsTyped ==
  ASSUME ClientTypes, NEW c \in Client, NEW reason \in Reason, Fail(c, reason)
  PROVE  /\ phase' \in [Client -> {"out", "joining", "in", "gone"}]
         /\ why' \in [Client -> Reason]
         /\ phase'[c] = "gone"
         /\ \A r \in Client : r # c => phase'[r] = phase[r]
BY DEF Fail, ClientTypes

\* A client that is in has nothing left to introduce itself with.
LEMMA NoHello ==
  ASSUME RoomInv, NEW c \in Client, phase[c] = "in"
  PROVE  \A i \in 1 .. Len(up[c]) : up[c][i].type # "hello"
BY DEF RoomInv, ClientInv, ClientStanding

\* A step that uploads nothing.
LEMMA NothingUploaded ==
  ASSUME StreamTypes, NEW c \in Client, up'[c] = up[c]
  PROVE  <<>> \in Seq(UpMessage) /\ Uploaded(c, <<>>)
<1>1. up[c] \in Seq(UpMessage)
  BY DEF StreamTypes
<1>2. up[c] \o <<>> = up[c] /\ Len(<<>>) = 0
  BY <1>1
<1> QED BY <1>2 DEF Uploaded

\* A step of a member that changes nothing it stands on.
LEMMA StaysPut ==
  ASSUME RoomInv, NEW c \in Client, UNCHANGED relayVars, phase[c] = "in",
         UNCHANGED <<down, phase, cgen, cset, isOwner>>,
         NEW u \in Seq(UpMessage), Uploaded(c, u), \A r \in Client : r # c => up'[r] = up[r],
         TypesKept
  PROVE  RoomInv'
<1>1. ReadsOne(c)
  BY DEF ReadsOne
<1>2. Present(c) /\ isOwner'[c] => owner = c
  BY DEF RoomInv, ClientInv, OwnerStanding
<1>3. ClientInv(c)'
  BY <1>1, <1>2, StaysIn
<1>4. OnlyAt(c)
  BY DEF OnlyAt
<1> QED BY <1>3, <1>4, ClientStep

\* A client that joins says hello and nothing else.
LEMMA Joined ==
  ASSUME RoomInv, NEW c \in Client, Join(c)
  PROVE  RoomInv'
<1>1. /\ phase[c] = "out" /\ phase' = [phase EXCEPT ![c] = "joining"]
      /\ up' = [up EXCEPT ![c] = Append(@, [type |-> "hello"])]
      /\ UNCHANGED relayVars
      /\ UNCHANGED <<down, link, barrierVars, why, peers, isOwner, queueVars, asked>>
  BY DEF Join, historyVars
<1>2. StreamTypes /\ ClientTypes /\ QueueTypes
  BY DEF RoomInv, Typed
<1>3. up[c] = <<>> /\ down[c] = <<>> /\ c \notin Members
  BY <1>1 DEF RoomInv, ClientInv, ClientStanding
<1>4. Append(<<>>, [type |-> "hello"]) = <<[type |-> "hello"]>>
      /\ <<[type |-> "hello"]>> \in Seq(UpMessage)
  BY UpMade
<1>5. up'[c] = <<[type |-> "hello"]>> /\ up' \in [Client -> Seq(UpMessage)]
  BY <1>1, <1>2, <1>3, <1>4 DEF StreamTypes
<1>6. TypesKept
  <2>1. StreamTypes'
    BY <1>1, <1>2, <1>5 DEF StreamTypes
  <2>2. ClientTypes'
    BY <1>1, <1>2 DEF ClientTypes, barrierVars
  <2>3. QueueTypes'
    BY <1>1, <1>2 DEF QueueTypes, queueVars
  <2> QED BY <2>1, <2>2, <2>3 DEF TypesKept
<1>7. OnlyAt(c)
  BY <1>1, <1>2 DEF OnlyAt, StreamTypes, ClientTypes, barrierVars
<1>8. phase'[c] = "joining" /\ down'[c] = <<>> /\ c \notin Members'
  BY <1>1, <1>2, <1>3 DEF ClientTypes, relayVars, Members
<1>9. Len(<<>>) = 0
  OBVIOUS
<1>10. ClientInv(c)'
  <2>1. \A i \in 1 .. Len(down'[c]) : FALSE
    BY <1>8, <1>9
  <2>2. ClientStanding(c)'
    BY <1>5, <1>8, <2>1 DEF ClientStanding
  <2> QED BY <1>8, <2>2 DEF ClientInv, Present
<1> QED BY <1>1, <1>6, <1>7, <1>10, ClientStep

\* A client whose session ends, having read or not.
LEMMA Gone ==
  ASSUME RoomInv, NEW c \in Client, NEW reason \in Reason, Fail(c, reason),
         UNCHANGED <<up, relayVars>>, StreamTypes', QueueTypes',
         \A r \in Client : r # c => down'[r] = down[r],
         UNCHANGED <<barrierVars, peers, isOwner, asked>>,
         \A i \in 1 .. Len(up[c]) : up[c][i].type # "hello"
  PROVE  RoomInv'
<1>1. ClientTypes
  BY DEF RoomInv, Typed
<1>2. /\ phase' \in [Client -> {"out", "joining", "in", "gone"}]
      /\ why' \in [Client -> Reason]
      /\ phase'[c] = "gone"
      /\ \A r \in Client : r # c => phase'[r] = phase[r]
  BY <1>1, FailsTyped
<1>3. ClientTypes'
  BY <1>1, <1>2 DEF ClientTypes, barrierVars
<1>4. TypesKept
  BY <1>3 DEF TypesKept
<1>5. OnlyAt(c)
  BY <1>2 DEF OnlyAt, barrierVars
<1>6. ClientInv(c)'
  BY <1>2, SessionEnds
<1> QED BY <1>4, <1>5, <1>6, ClientStep

\* A client that gives up waiting.
LEMMA DeadlinePassed ==
  ASSUME RoomInv, NEW c \in Client, ClientDeadline(c)
  PROVE  RoomInv'
<1>1. /\ phase[c] = "in" /\ Fail(c, "deadline") /\ UNCHANGED <<up, relayVars>>
      /\ UNCHANGED <<netVars, barrierVars, peers, isOwner, queueVars, asked>>
  BY DEF ClientDeadline, netVars, historyVars
<1>2. StreamTypes' /\ QueueTypes'
  BY <1>1 DEF RoomInv, Typed, StreamTypes, QueueTypes, netVars, queueVars
<1>3. "deadline" \in Reason
  BY DEF Reason
<1>4. \A r \in Client : r # c => down'[r] = down[r]
  BY <1>1 DEF netVars
<1>5. \A i \in 1 .. Len(up[c]) : up[c][i].type # "hello"
  BY <1>1, NoHello
<1> QED BY <1>1, <1>2, <1>3, <1>4, <1>5, Gone

\* A client that notices its removal.
LEMMA ClosedNoticed ==
  ASSUME RoomInv, NEW c \in Client, NoticeClosed(c)
  PROVE  RoomInv'
<1>1. /\ phase[c] \in {"joining", "in"} /\ Fail(c, "closed") /\ UNCHANGED <<up, relayVars>>
      /\ ~(up[c] # <<>> /\ Head(up[c]).type = "hello")
      /\ UNCHANGED <<netVars, barrierVars, peers, isOwner, queueVars, asked>>
  BY DEF NoticeClosed, netVars, historyVars
<1>2. StreamTypes' /\ QueueTypes'
  BY <1>1 DEF RoomInv, Typed, StreamTypes, QueueTypes, netVars, queueVars
<1>3. "closed" \in Reason
  BY DEF Reason
<1>4. \A r \in Client : r # c => down'[r] = down[r]
  BY <1>1 DEF netVars
<1>5. \A i \in 1 .. Len(up[c]) : up[c][i].type # "hello"
  <2>1. CASE phase[c] = "in"
    BY <2>1, NoHello
  <2>2. CASE phase[c] = "joining"
    <3>1. up[c] = <<[type |-> "hello"]>> \/ up[c] = <<>>
      BY <2>2 DEF RoomInv, ClientInv, ClientStanding
    <3>2. Head(<<[type |-> "hello"]>>) = [type |-> "hello"] /\ <<[type |-> "hello"]>> # <<>>
      OBVIOUS
    <3>3. up[c] = <<>>
      BY <1>1, <3>1, <3>2
    <3> QED BY <3>3
  <2> QED BY <1>1, <2>1, <2>2
<1> QED BY <1>1, <1>2, <1>3, <1>4, <1>5, Gone

\* A kick is one more upload.
LEMMA KickSubmitted ==
  ASSUME RoomInv, NEW c \in Client, NEW target \in Client, SubmitKick(c, target)
  PROVE  RoomInv'
<1>1. /\ phase[c] = "in" /\ up' = [up EXCEPT ![c] = Append(@, [type |-> "kick", target |-> target])]
      /\ UNCHANGED relayVars
      /\ UNCHANGED <<down, link, barrierVars, sessionVars, queueVars, asked>>
  BY DEF SubmitKick
<1>2. StreamTypes /\ ClientTypes /\ QueueTypes
  BY DEF RoomInv, Typed
<1>3. PICK m \in UpMessage : m = [type |-> "kick", target |-> target] /\ m.type = "kick"
  BY UpMade
<1>4. up[c] \in Seq(UpMessage)
  BY <1>2 DEF StreamTypes
<1>5. Append(up[c], m) \in Seq(UpMessage) /\ Append(up[c], m) = up[c] \o <<m>>
      /\ <<m>> \in Seq(UpMessage)
  BY <1>4
<1>6. up' = [up EXCEPT ![c] = Append(up[c], m)]
  BY <1>1, <1>3
<1>7. up' \in [Client -> Seq(UpMessage)] /\ up'[c] = up[c] \o <<m>>
      /\ \A r \in Client : r # c => up'[r] = up[r]
  BY <1>2, <1>5, <1>6, SMTT(30) DEF StreamTypes
<1>8. Uploaded(c, <<m>>)
  BY <1>3, <1>7 DEF Uploaded
<1>9. TypesKept
  BY <1>1, <1>2, <1>7 DEF TypesKept, StreamTypes, ClientTypes, QueueTypes, barrierVars, sessionVars,
     queueVars
<1> QED BY <1>1, <1>5, <1>7, <1>8, <1>9, StaysPut DEF barrierVars, sessionVars

\* Readiness is announced for the next generation.
LEMMA Readied ==
  ASSUME RoomInv, NEW c \in Client, BecomeReady(c)
  PROVE  RoomInv'
<1>1. /\ phase[c] = "in" /\ ready' = [ready EXCEPT ![c] = TRUE]
      /\ up' = [up EXCEPT ![c] = Append(@, [type |-> "settings_ready", generation |-> cgen[c] + 1])]
      /\ UNCHANGED relayVars
      /\ UNCHANGED <<down, link, cgen, cset, requested, barrier, observer, expected, seen,
                     futureSeen, sessionVars, queueVars, asked>>
  BY DEF BecomeReady, historyVars
<1>2. StreamTypes /\ ClientTypes /\ QueueTypes /\ cgen[c] \in Nat
  BY DEF RoomInv, Typed, ClientTypes
<1>3. PICK m \in UpMessage : /\ m = [type |-> "settings_ready", generation |-> cgen[c] + 1]
                             /\ m.type = "settings_ready" /\ m.generation = cgen[c] + 1
  <2>1. cgen[c] + 1 \in Nat
    BY <1>2
  <2> QED BY <2>1, UpMade
<1>4. up[c] \in Seq(UpMessage)
  BY <1>2 DEF StreamTypes
<1>5. Append(up[c], m) \in Seq(UpMessage) /\ Append(up[c], m) = up[c] \o <<m>>
      /\ <<m>> \in Seq(UpMessage)
  BY <1>4
<1>6. up' = [up EXCEPT ![c] = Append(up[c], m)]
  BY <1>1, <1>3
<1>7. up' \in [Client -> Seq(UpMessage)] /\ up'[c] = up[c] \o <<m>>
      /\ \A r \in Client : r # c => up'[r] = up[r]
  BY <1>2, <1>5, <1>6 DEF StreamTypes
<1>8. Uploaded(c, <<m>>)
  BY <1>2, <1>3, <1>7 DEF Uploaded
<1>9. TypesKept
  BY <1>1, <1>2, <1>7, ZenonT(30) DEF TypesKept, StreamTypes, ClientTypes, QueueTypes, sessionVars, queueVars
<1> QED BY <1>1, <1>5, <1>7, <1>8, <1>9, StaysPut DEF sessionVars

\* What the application submits is sent, held back or refused.
LEMMA ItemSubmitted ==
  ASSUME RoomInv, NEW c \in Client, NEW item \in Item, SubmitItem(c, item),
         asked' \in [Client -> SettingOrNone]
  PROVE  RoomInv'
<1>1. /\ phase[c] = "in" /\ UNCHANGED relayVars
      /\ UNCHANGED <<down, cgen, cset, barrier, observer, ready, expected, seen, futureSeen,
                     peers, isOwner, future>>
  BY DEF SubmitItem
<1>2. StreamTypes /\ ClientTypes /\ QueueTypes
  BY DEF RoomInv, Typed
<1>3. CASE ~Pausing(c)
  <2>1. SendItems(c, <<item>>) /\ UNCHANGED <<deferred, phase, why>>
    BY <1>3 DEF SubmitItem
  <2>2. <<item>> \in Seq(Item)
    OBVIOUS
  <2>3. PICK u \in Seq(UpMessage) :
          /\ up' = [up EXCEPT ![c] = @ \o u]
          /\ \A j \in 1 .. Len(u) : u[j].type \in {"room_settings", "peer_reliable"}
    BY <1>2, <2>1, <2>2, SendTyped, UploadsElements
  <2>4. /\ up' \in [Client -> Seq(UpMessage)]
        /\ link' \in [Client -> [Client -> Seq(Body)]]
        /\ requested' \in [Client -> BOOLEAN]
    BY <1>2, <2>1, <2>2, SendTyped
  <2>5. Uploaded(c, u) /\ \A r \in Client : r # c => up'[r] = up[r]
    BY <1>2, <2>3 DEF Uploaded, StreamTypes
  <2>6. TypesKept
    BY <1>1, <1>2, <2>1, <2>4 DEF TypesKept, StreamTypes, ClientTypes, QueueTypes
  <2> QED BY <1>1, <2>1, <2>5, <2>6, StaysPut
<1>4. CASE Pausing(c) /\ Len(deferred[c]) >= MaxDeferred
  <2>1. Fail(c, "limit") /\ UNCHANGED <<deferred, link, up, requested>>
    BY <1>4 DEF SubmitItem
  <2>2. \A i \in 1 .. Len(up[c]) : up[c][i].type # "hello"
    BY <1>1, NoHello
  <2>3. /\ phase' \in [Client -> {"out", "joining", "in", "gone"}]
        /\ why' \in [Client -> Reason]
        /\ phase'[c] = "gone"
        /\ \A r \in Client : r # c => phase'[r] = phase[r]
    BY <1>2, <2>1, FailsTyped DEF Reason
  <2>4. TypesKept
    BY <1>1, <1>2, <2>1, <2>3 DEF TypesKept, StreamTypes, ClientTypes, QueueTypes
  <2>5. ClientInv(c)'
    BY <2>1, <2>2, <2>3, SessionEnds
  <2>6. OnlyAt(c)
    BY <1>1, <2>1, <2>3 DEF OnlyAt
  <2> QED BY <1>1, <2>4, <2>5, <2>6, ClientStep
<1>5. CASE Pausing(c) /\ ~(Len(deferred[c]) >= MaxDeferred)
  <2>1. /\ deferred' = [deferred EXCEPT ![c] = Append(@, item)]
        /\ UNCHANGED <<phase, why, link, up, requested>>
    BY <1>5 DEF SubmitItem
  <2>2. deferred[c] \in Seq(Item)
    BY <1>2 DEF QueueTypes
  <2>3. Append(deferred[c], item) \in Seq(Item)
        /\ Len(Append(deferred[c], item)) = Len(deferred[c]) + 1 /\ Len(deferred[c]) \in Nat
    BY <2>2
  <2>4. QueueTypes'
    <3>1. deferred' \in [Client -> Seq(Item)]
      BY <1>2, <2>1, <2>3 DEF QueueTypes
    <3>2. ASSUME NEW r \in Client PROVE Len(deferred'[r]) <= MaxDeferred
      <4>1. CASE r = c
        <5>1. deferred'[c] = Append(deferred[c], item)
          BY <1>2, <2>1 DEF QueueTypes
        <5>2. Len(deferred[c]) <= MaxDeferred /\ ~(Len(deferred[c]) >= MaxDeferred)
          BY <1>2, <1>5 DEF QueueTypes
        <5> QED BY <2>3, <4>1, <5>1, <5>2, BarrierAssumption DEF BarrierAssumption
      <4>2. CASE r # c
        BY <1>2, <2>1, <4>2 DEF QueueTypes
      <4> QED BY <4>1, <4>2
    <3> QED BY <1>1, <1>2, <3>1, <3>2 DEF QueueTypes
  <2>5. TypesKept
    BY <1>1, <1>2, <2>1, <2>4 DEF TypesKept, StreamTypes, ClientTypes
  <2>6. <<>> \in Seq(UpMessage) /\ Uploaded(c, <<>>)
    BY <1>2, <2>1, NothingUploaded
  <2> QED BY <1>1, <2>1, <2>5, <2>6, StaysPut
<1> QED BY <1>3, <1>4, <1>5

\* Gameplay is submitted.
LEMMA GameplaySubmitted ==
  ASSUME RoomInv, NEW c \in Client, NEW target \in Client \cup {None},
         SubmitGameplay(c, target)
  PROVE  RoomInv'
<1>1. asked \in [Client -> SettingOrNone] /\ UNCHANGED asked
  BY DEF RoomInv, Typed, ClientTypes, SubmitGameplay
<1>2. [kind |-> "gameplay", target |-> target, after |-> asked[c]] \in Item
  BY <1>1 DEF Item
<1> QED BY <1>1, <1>2, ItemSubmitted DEF SubmitGameplay

\* A settings change is submitted.
LEMMA SettingsSubmitted ==
  ASSUME RoomInv, NEW c \in Client, NEW v \in Setting, SubmitSettings(c, v)
  PROVE  RoomInv'
<1>1. asked' \in [Client -> SettingOrNone]
  BY DEF RoomInv, Typed, ClientTypes, SubmitSettings, SettingOrNone
<1>2. [kind |-> "settings", settings |-> v] \in Item
  BY DEF Item
<1> QED BY <1>1, <1>2, ItemSubmitted DEF SubmitSettings

\* What a pause held back is sent, up to the next change, or the session ends.
LEMMA DeferredFlushed ==
  ASSUME RoomInv, NEW c \in Client, FlushDeferred(c)
  PROVE  RoomInv'
<1>1. /\ phase[c] = "in" /\ UNCHANGED relayVars
      /\ UNCHANGED <<down, cgen, cset, barrier, observer, ready, expected, seen, futureSeen,
                     peers, isOwner, future, asked>>
  BY DEF FlushDeferred, historyVars
<1>2. StreamTypes /\ ClientTypes /\ QueueTypes
  BY DEF RoomInv, Typed
<1> DEFINE changes == {i \in DOMAIN deferred[c] : deferred[c][i].kind = "settings"}
           size == IF changes = {} THEN Len(deferred[c])
                   ELSE CHOOSE i \in changes : \A j \in changes : i <= j
<1>3. PICK q \in Seq(Item) : q = deferred[c] /\ Len(q) <= MaxDeferred /\ q # <<>>
  BY <1>2 DEF QueueTypes, FlushDeferred, Flushable
<1>4. size \in 1 .. Len(q)
  <2>1. CASE changes = {}
    BY <1>3, <2>1
  <2>2. CASE changes # {}
    <3>1. changes \subseteq Nat /\ changes \subseteq 1 .. Len(q)
      BY <1>3
    <3> HIDE DEF changes
    <3>2. \E i \in changes : \A j \in changes : i <= j
      BY <2>2, <3>1, Least
    <3> QED BY <2>2, <3>1, <3>2
  <2> QED BY <2>1, <2>2
<1>5. PICK n \in 1 .. Len(q) : n = size
  BY SMTT(30), <1>4
<1> DEFINE lost == \E i \in 1 .. n : /\ SubSeq(q, 1, n)[i].kind = "gameplay"
                                     /\ SubSeq(q, 1, n)[i].target \notin peers[c] \cup {None}
<1>6. IF lost
      THEN Fail(c, "send") /\ UNCHANGED <<deferred, link, up, requested>>
      ELSE /\ SendItems(c, SubSeq(q, 1, n))
           /\ deferred' = [deferred EXCEPT ![c] = SubSeq(q, n + 1, Len(q))]
           /\ UNCHANGED <<phase, why>>
  BY <1>3, <1>5 DEF FlushDeferred
<1> HIDE DEF lost
<1>7. CASE lost
  <2>1. Fail(c, "send") /\ UNCHANGED <<deferred, link, up, requested>>
    BY <1>6, <1>7
  <2>2. \A i \in 1 .. Len(up[c]) : up[c][i].type # "hello"
    BY <1>1, NoHello
  <2>3. /\ phase' \in [Client -> {"out", "joining", "in", "gone"}]
        /\ why' \in [Client -> Reason]
        /\ phase'[c] = "gone"
        /\ \A r \in Client : r # c => phase'[r] = phase[r]
    BY <1>2, <2>1, FailsTyped DEF Reason
  <2>4. TypesKept
    BY <1>1, <1>2, <2>1, <2>3 DEF TypesKept, StreamTypes, ClientTypes, QueueTypes
  <2>5. ClientInv(c)'
    BY <2>1, <2>2, <2>3, SessionEnds
  <2>6. OnlyAt(c)
    BY <1>1, <2>1, <2>3 DEF OnlyAt
  <2> QED BY <1>1, <2>4, <2>5, <2>6, ClientStep
<1>8. CASE ~lost
  <2>1. /\ SendItems(c, SubSeq(q, 1, n))
        /\ deferred' = [deferred EXCEPT ![c] = SubSeq(q, n + 1, Len(q))]
        /\ UNCHANGED <<phase, why>>
    BY <1>6, <1>8
  <2>2. SubSeq(q, 1, n) \in Seq(Item) /\ SubSeq(q, n + 1, Len(q)) \in Seq(Item)
        /\ Len(SubSeq(q, n + 1, Len(q))) = Len(q) - n /\ Len(q) \in Nat
    <3>1. n \in 0 .. Len(q)
      OBVIOUS
    <3> QED BY <3>1, CutElements
  <2>3. PICK u \in Seq(UpMessage) :
          /\ up' = [up EXCEPT ![c] = @ \o u]
          /\ \A j \in 1 .. Len(u) : u[j].type \in {"room_settings", "peer_reliable"}
    BY <1>2, <2>1, <2>2, SendTyped, UploadsElements
  <2>4. /\ up' \in [Client -> Seq(UpMessage)]
        /\ link' \in [Client -> [Client -> Seq(Body)]]
        /\ requested' \in [Client -> BOOLEAN]
    BY <1>2, <2>1, <2>2, SendTyped
  <2>5. Uploaded(c, u) /\ \A r \in Client : r # c => up'[r] = up[r]
    BY <1>2, <2>3 DEF Uploaded, StreamTypes
  <2>6. QueueTypes'
    <3>1. deferred' \in [Client -> Seq(Item)]
      BY <1>2, <2>1, <2>2 DEF QueueTypes
    <3>2. ASSUME NEW r \in Client PROVE Len(deferred'[r]) <= MaxDeferred
      <4>1. CASE r = c
        <5>1. deferred'[c] = SubSeq(q, n + 1, Len(q))
          BY <1>2, <2>1 DEF QueueTypes
        <5> QED BY <1>3, <2>2, <4>1, <5>1, BarrierAssumption, SMTT(30) DEF BarrierAssumption
      <4>2. CASE r # c
        BY <1>2, <2>1, <4>2 DEF QueueTypes
      <4> QED BY <4>1, <4>2
    <3> QED BY <1>1, <1>2, <3>1, <3>2 DEF QueueTypes
  <2>7. TypesKept
    BY <1>1, <1>2, <2>1, <2>4, <2>6 DEF TypesKept, StreamTypes, ClientTypes
  <2> QED BY <1>1, <2>1, <2>5, <2>7, StaysPut
<1> QED BY <1>7, <1>8

\* The relay's next message, which c reads.
LEMMA PrimaryFacts ==
  ASSUME RoomInv, NEW c \in Client, down[c] # <<>>, down' = [down EXCEPT ![c] = Tail(@)]
  PROVE  /\ down' \in [Client -> Seq(DownMessage)]
         /\ down'[c] = Tail(down[c]) /\ \A r \in Client : r # c => down'[r] = down[r]
         /\ Head(down[c]) = down[c][1] /\ down[c][1] \in DownMessage
         /\ 1 \in 1 .. Len(down[c])
<1>1. PICK q \in Seq(DownMessage) : q = down[c]
  BY DEF RoomInv, Typed, StreamTypes
<1>2. Tail(q) \in Seq(DownMessage) /\ q # <<>>
  BY <1>1, TailElements
<1>3. Head(q) = q[1] /\ q[1] \in DownMessage /\ 1 \in 1 .. Len(q)
  BY <1>2
<1>4. down \in [Client -> Seq(DownMessage)]
  BY DEF RoomInv, Typed, StreamTypes
<1> QED BY <1>1, <1>2, <1>3, <1>4

\* A member that reads something other than a commit, and stays.
LEMMA Listened ==
  ASSUME RoomInv, NEW c \in Client, UNCHANGED relayVars, phase[c] = "in",
         UNCHANGED <<phase, cgen, cset>>,
         down[c] # <<>>, down' = [down EXCEPT ![c] = Tail(@)],
         Head(down[c]).type # "room_settings",
         NEW u \in Seq(UpMessage), Uploaded(c, u), \A r \in Client : r # c => up'[r] = up[r],
         Present(c) /\ isOwner'[c] => owner = c,
         \A r \in Client : r # c => isOwner'[r] = isOwner[r],
         TypesKept
  PROVE  RoomInv'
<1>1. /\ down'[c] = Tail(down[c]) /\ \A r \in Client : r # c => down'[r] = down[r]
      /\ Head(down[c]) = down[c][1]
  BY PrimaryFacts
<1>2. ReadsOne(c)
  BY <1>1 DEF ReadsOne
<1>3. ClientInv(c)'
  BY <1>2, StaysIn
<1>4. OnlyAt(c)
  BY <1>1 DEF OnlyAt
<1> QED BY <1>3, <1>4, ClientStep

\* A member that fails over what it reads.
LEMMA ReadsAndFails ==
  ASSUME RoomInv, NEW c \in Client, NEW reason \in Reason, Fail(c, reason),
         down[c] # <<>>, down' = [down EXCEPT ![c] = Tail(@)],
         UNCHANGED <<up, relayVars>>, link' \in [Client -> [Client -> Seq(Body)]], QueueTypes',
         UNCHANGED <<barrierVars, peers, isOwner, asked>>, phase[c] = "in"
  PROVE  RoomInv'
<1>1. /\ down' \in [Client -> Seq(DownMessage)]
      /\ \A r \in Client : r # c => down'[r] = down[r]
  BY PrimaryFacts
<1>2. StreamTypes'
  BY <1>1 DEF RoomInv, Typed, StreamTypes
<1>3. \A i \in 1 .. Len(up[c]) : up[c][i].type # "hello"
  BY NoHello
<1> QED BY <1>1, <1>2, <1>3, Gone

\* A client learns of a newcomer.
LEMMA PeerJoinedReceived ==
  ASSUME RoomInv, NEW c \in Client, ReceivePeerJoined(c)
  PROVE  RoomInv'
<1>1. /\ phase[c] = "in" /\ down[c] # <<>> /\ Head(down[c]).type = "peer_joined"
      /\ down' = [down EXCEPT ![c] = Tail(@)]
      /\ peers' = [peers EXCEPT ![c] = @ \cup {Head(down[c]).id}]
      /\ UNCHANGED relayVars
      /\ UNCHANGED <<up, link, barrierVars, phase, why, isOwner, queueVars, asked>>
  BY DEF ReceivePeerJoined, Primary, historyVars
<1>2. StreamTypes /\ ClientTypes /\ QueueTypes
  BY DEF RoomInv, Typed
<1>3. PICK m \in DownMessage : m = Head(down[c]) /\ m.type = "peer_joined"
  BY <1>1, PrimaryFacts
<1>4. m.id \in Client
  BY <1>3, DownFields
<1>5. peers' \in [Client -> SUBSET Client]
  BY <1>1, <1>2, <1>3, <1>4 DEF ClientTypes
<1>6. down' \in [Client -> Seq(DownMessage)]
  BY <1>1, PrimaryFacts
<1>7. TypesKept
  BY <1>1, <1>2, <1>5, <1>6 DEF TypesKept, StreamTypes, ClientTypes, QueueTypes, barrierVars,
     queueVars
<1>8. <<>> \in Seq(UpMessage) /\ Uploaded(c, <<>>)
  BY <1>1, <1>2, NothingUploaded
<1>9. Present(c) /\ isOwner'[c] => owner = c
  BY <1>1 DEF RoomInv, ClientInv, OwnerStanding
<1> QED BY <1>1, <1>7, <1>8, <1>9, Listened DEF barrierVars

\* A client forgets a departed peer.
LEMMA PeerLeftReceived ==
  ASSUME RoomInv, NEW c \in Client, ReceivePeerLeft(c)
  PROVE  RoomInv'
<1>1. /\ phase[c] = "in" /\ down[c] # <<>> /\ Head(down[c]).type = "peer_left"
      /\ down' = [down EXCEPT ![c] = Tail(@)]
      /\ UNCHANGED relayVars
      /\ UNCHANGED <<up, cgen, cset, requested, barrier, observer, ready, phase, why, isOwner,
                     deferred, asked>>
  BY DEF ReceivePeerLeft, Primary, historyVars
<1>2. StreamTypes /\ ClientTypes /\ QueueTypes
  BY DEF RoomInv, Typed
<1>3. PICK m \in DownMessage : m = Head(down[c]) /\ m.type = "peer_left"
  BY <1>1, PrimaryFacts
<1>4. PICK id \in Client : id = Head(down[c]).id
  BY <1>3, DownFields
<1>5. /\ peers' = [peers EXCEPT ![c] = @ \ {id}]
      /\ expected' = [expected EXCEPT ![c] = @ \ {id}]
      /\ seen' = [seen EXCEPT ![c] = @ \ {id}]
      /\ futureSeen' = [futureSeen EXCEPT ![c] = @ \ {id}]
      /\ future' = [future EXCEPT ![c][id] = <<>>]
      /\ link' = [link EXCEPT ![id][c] = <<>>, ![c][id] = <<>>]
  BY <1>4 DEF ReceivePeerLeft
<1>6. down' \in [Client -> Seq(DownMessage)]
  BY <1>1, PrimaryFacts
<1>7. <<>> \in Seq(Body)
  OBVIOUS
<1>8. link' \in [Client -> [Client -> Seq(Body)]]
  BY <1>2, <1>5, <1>7 DEF StreamTypes
<1>9. future' \in [Client -> [Client -> Seq(Body)]]
  BY <1>2, <1>5, <1>7 DEF QueueTypes
<1>10. /\ peers' \in [Client -> SUBSET Client] /\ expected' \in [Client -> SUBSET Client]
       /\ seen' \in [Client -> SUBSET Client] /\ futureSeen' \in [Client -> SUBSET Client]
  BY <1>2, <1>5 DEF ClientTypes
<1>11. TypesKept
  BY <1>1, <1>2, <1>6, <1>8, <1>9, <1>10 DEF TypesKept, StreamTypes, ClientTypes, QueueTypes
<1>12. <<>> \in Seq(UpMessage) /\ Uploaded(c, <<>>)
  BY <1>1, <1>2, NothingUploaded
<1>13. Present(c) /\ isOwner'[c] => owner = c
  BY <1>1 DEF RoomInv, ClientInv, OwnerStanding
<1> QED BY <1>1, <1>11, <1>12, <1>13, Listened

\* Only the new owner takes the ownership that is announced to everybody.
LEMMA OwnerChangedReceived ==
  ASSUME RoomInv, NEW c \in Client, ReceiveOwnerChanged(c)
  PROVE  RoomInv'
<1>1. /\ phase[c] = "in" /\ down[c] # <<>> /\ Head(down[c]).type = "owner_changed"
      /\ down' = [down EXCEPT ![c] = Tail(@)]
      /\ isOwner' = [isOwner EXCEPT ![c] = Head(down[c]).owner = c]
      /\ UNCHANGED relayVars
      /\ UNCHANGED <<up, link, barrierVars, phase, why, peers, queueVars, asked>>
  BY DEF ReceiveOwnerChanged, Primary, historyVars
<1>2. StreamTypes /\ ClientTypes /\ QueueTypes
  BY DEF RoomInv, Typed
<1>3. down' \in [Client -> Seq(DownMessage)] /\ Head(down[c]) = down[c][1]
      /\ 1 \in 1 .. Len(down[c])
  BY <1>1, PrimaryFacts
<1>4. isOwner' \in [Client -> BOOLEAN] /\ isOwner'[c] = (Head(down[c]).owner = c)
      /\ \A r \in Client : r # c => isOwner'[r] = isOwner[r]
  BY <1>1, <1>2 DEF ClientTypes
<1>5. TypesKept
  BY <1>1, <1>2, <1>3, <1>4 DEF TypesKept, StreamTypes, ClientTypes, QueueTypes, barrierVars,
     queueVars
<1>6. <<>> \in Seq(UpMessage) /\ Uploaded(c, <<>>)
  BY <1>1, <1>2, NothingUploaded
<1>7. Present(c) /\ isOwner'[c] => owner = c
  <2> SUFFICES ASSUME Present(c), isOwner'[c] PROVE owner = c
    OBVIOUS
  <2>1. OwnerStanding(c)
    BY DEF RoomInv, ClientInv
  <2>2. NamesOwner(down[c][1]) /\ down[c][1].owner = c
    BY <1>1, <1>3, <1>4 DEF NamesOwner
  <2> QED BY <1>3, <2>1, <2>2 DEF OwnerStanding
<1> QED BY <1>1, <1>4, <1>5, <1>6, <1>7, Listened DEF barrierVars

\* An error leaves a member where it is.
LEMMA ErrorReceived ==
  ASSUME RoomInv, NEW c \in Client, ReceiveError(c)
  PROVE  RoomInv'
<1>1. /\ phase[c] = "in" /\ down[c] # <<>> /\ Head(down[c]).type = "error"
      /\ down' = [down EXCEPT ![c] = Tail(@)]
      /\ requested' = [requested EXCEPT ![c] = @ /\ barrier[c]]
      /\ UNCHANGED relayVars
      /\ UNCHANGED <<up, link, cgen, cset, barrier, observer, ready, expected, seen,
                     futureSeen, sessionVars, queueVars, asked>>
  BY DEF ReceiveError, Primary, historyVars
<1>2. StreamTypes /\ ClientTypes /\ QueueTypes
  BY DEF RoomInv, Typed
<1>3. down' \in [Client -> Seq(DownMessage)]
  BY <1>1, PrimaryFacts
<1>4. requested' \in [Client -> BOOLEAN]
  BY <1>1, <1>2 DEF ClientTypes
<1>5. TypesKept
  BY <1>1, <1>2, <1>3, <1>4 DEF TypesKept, StreamTypes, ClientTypes, QueueTypes, sessionVars,
     queueVars
<1>6. <<>> \in Seq(UpMessage) /\ Uploaded(c, <<>>)
  BY <1>1, <1>2, NothingUploaded
<1>7. Present(c) /\ isOwner'[c] => owner = c
  BY <1>1 DEF RoomInv, ClientInv, OwnerStanding, sessionVars
<1> QED BY <1>1, <1>5, <1>6, <1>7, Listened DEF sessionVars

\* A kicked client ends its session.
LEMMA KickedReceived ==
  ASSUME RoomInv, NEW c \in Client, ReceiveKicked(c)
  PROVE  RoomInv'
<1>1. /\ phase[c] = "in" /\ down[c] # <<>> /\ down' = [down EXCEPT ![c] = Tail(@)]
      /\ Fail(c, "kicked") /\ UNCHANGED <<up, relayVars>>
      /\ UNCHANGED <<link, barrierVars, peers, isOwner, queueVars, asked>>
  BY DEF ReceiveKicked, Primary, historyVars
<1>2. link' \in [Client -> [Client -> Seq(Body)]] /\ QueueTypes'
  BY <1>1, SMTT(30) DEF RoomInv, Typed, StreamTypes, QueueTypes, queueVars
<1>3. "kicked" \in Reason
  BY DEF Reason
<1> QED BY <1>1, <1>2, <1>3, ReadsAndFails

\* The markers of a client that begins the barrier.
LEMMA SettingsPrepareReceived ==
  ASSUME RoomInv, NEW c \in Client, ReceiveSettingsPrepare(c)
  PROVE  RoomInv'
<1>1. /\ phase[c] = "in" /\ down[c] # <<>> /\ Head(down[c]).type = "settings_prepare"
      /\ down' = [down EXCEPT ![c] = Tail(@)]
      /\ UNCHANGED relayVars
      /\ UNCHANGED <<cgen, cset, requested, seen, futureSeen, peers, isOwner, queueVars, asked>>
  BY DEF ReceiveSettingsPrepare, Primary, historyVars
<1>2. StreamTypes /\ ClientTypes /\ QueueTypes /\ cgen[c] \in Nat
  BY DEF RoomInv, Typed, ClientTypes
<1>3. PICK m \in DownMessage : m = Head(down[c]) /\ m.type = "settings_prepare"
  BY <1>1, PrimaryFacts
<1>4. PICK others \in SUBSET Client : others = m.participants \ {c}
  BY <1>3, DownFields
<1>5. PICK mark \in Body : mark = Marker(cgen[c] + 1)
  <2>1. cgen[c] + 1 \in Nat
    BY <1>2
  <2> QED BY <2>1, BodyMade
<1>6. PICK relayed \in SUBSET Client : relayed = {r \in others : {c, r} \notin Direct}
  OBVIOUS
<1> DEFINE wrong == barrier[c] \/ m.generation # cgen[c] + 1 \/ ~(others \subseteq peers[c])
<1>7. CASE wrong
  <2>1. Fail(c, "protocol") /\ UNCHANGED <<barrier, ready, observer, expected, link, up>>
    BY <1>3, <1>4, <1>7, ZenonT(30) DEF ReceiveSettingsPrepare
  <2>2. link' \in [Client -> [Client -> Seq(Body)]] /\ QueueTypes'
    BY <1>1, <1>2, <2>1 DEF StreamTypes, QueueTypes, queueVars
  <2>3. "protocol" \in Reason
    BY DEF Reason
  <2> QED BY <1>1, <2>1, <2>2, <2>3, ReadsAndFails DEF barrierVars
<1>8. CASE ~wrong
  <2>1. /\ barrier' = [barrier EXCEPT ![c] = TRUE]
        /\ ready' = [ready EXCEPT ![c] = FALSE]
        /\ observer' = [observer EXCEPT ![c] = FALSE]
        /\ expected' = [expected EXCEPT ![c] = others]
        /\ link' = [link EXCEPT ![c] = [r \in Client |->
                      @[r] \o When(r \in others /\ {c, r} \in Direct, mark)]]
        /\ up' = [up EXCEPT ![c] = @ \o When(relayed # {},
                    [type |-> "peer_reliable", recipients |-> relayed, body |-> mark])]
        /\ UNCHANGED <<phase, why>>
    BY <1>3, <1>4, <1>5, <1>6, <1>8 DEF ReceiveSettingsPrepare
  <2> HIDE DEF wrong
  <2>2. PICK b \in UpMessage : /\ b = [type |-> "peer_reliable", recipients |-> relayed, body |-> mark]
                               /\ b.type = "peer_reliable"
    BY UpMade
  <2>3. PICK u \in Seq(UpMessage) : /\ u = When(relayed # {}, b)
                                    /\ u = <<b>> \/ u = <<>>
    <3>1. <<b>> \in Seq(UpMessage) /\ <<>> \in Seq(UpMessage)
      OBVIOUS
    <3> QED BY <3>1 DEF When
  <2>4. \A i \in 1 .. Len(u) : u[i].type = "peer_reliable"
    BY <2>2, <2>3
  <2>5. up' = [up EXCEPT ![c] = up[c] \o u]
    BY <2>1, <2>2, <2>3
  <2>6. up[c] \o u \in Seq(UpMessage)
    BY <1>2, ConcatElements DEF StreamTypes
  <2>7. up' \in [Client -> Seq(UpMessage)] /\ up'[c] = up[c] \o u
        /\ \A r \in Client : r # c => up'[r] = up[r]
    BY <1>2, <2>5, <2>6 DEF StreamTypes
  <2>8. Uploaded(c, u)
    BY <2>4, <2>7 DEF Uploaded
  <2>9. ASSUME NEW r \in Client
        PROVE  link[c][r] \o When(r \in others /\ {c, r} \in Direct, mark) \in Seq(Body)
    <3>1. link[c][r] \in Seq(Body)
      BY <1>2 DEF StreamTypes
    <3>2. <<mark>> \in Seq(Body) /\ <<>> \in Seq(Body)
      OBVIOUS
    <3>3. When(r \in others /\ {c, r} \in Direct, mark) \in Seq(Body)
      BY <3>2 DEF When
    <3> QED BY <3>1, <3>3, ConcatElements
  <2>10. [r \in Client |-> link[c][r] \o When(r \in others /\ {c, r} \in Direct, mark)]
           \in [Client -> Seq(Body)]
    BY <2>9
  <2>11. link' \in [Client -> [Client -> Seq(Body)]]
    BY <1>2, <2>1, <2>10 DEF StreamTypes
  <2>12. down' \in [Client -> Seq(DownMessage)]
    BY <1>1, PrimaryFacts
  <2>13. /\ barrier' \in [Client -> BOOLEAN] /\ ready' \in [Client -> BOOLEAN]
         /\ observer' \in [Client -> BOOLEAN] /\ expected' \in [Client -> SUBSET Client]
    BY <1>2, <2>1 DEF ClientTypes
  <2>14. TypesKept
    BY <1>1, <1>2, <2>1, <2>7, <2>11, <2>12, <2>13
       DEF TypesKept, StreamTypes, ClientTypes, QueueTypes, queueVars
  <2>15. Present(c) /\ isOwner'[c] => owner = c
    BY <1>1 DEF RoomInv, ClientInv, OwnerStanding
  <2>16. Head(down[c]).type # "room_settings"
    BY <1>1
  <2> QED BY <1>1, <2>1, <2>7, <2>8, <2>14, <2>15, <2>16, Listened
<1> QED BY <1>7, <1>8

\* The commit that a member reads is the one it was behind.
LEMMA CommitRead ==
  ASSUME RoomInv, NEW c \in Client, UNCHANGED relayVars, phase[c] = "in", phase'[c] = "in",
         down[c] # <<>>, down' = [down EXCEPT ![c] = Tail(@)],
         Head(down[c]).type = "room_settings", up'[c] = up[c],
         cgen'[c] = Head(down[c]).generation, cset'[c] = Head(down[c]).settings,
         Head(down[c]).generation = cgen[c] + 1,
         isOwner'[c] = (Head(down[c]).owner = c)
  PROVE  ClientInv(c)'
<1>1. /\ down'[c] = Tail(down[c]) /\ Head(down[c]) = down[c][1]
      /\ 1 \in 1 .. Len(down[c])
  BY PrimaryFacts
<1>2. ClientInv(c) /\ generation \in Nat /\ cgen[c] \in Nat
  BY DEF RoomInv, Typed, RoomTypes, ClientTypes
<1>3. UNCHANGED <<generation, pending, waiting, agreed, owner>> /\ Members' = Members
  BY DEF relayVars, Members
<1>4. /\ Len(down'[c]) = Len(down[c]) - 1 /\ Len(down[c]) \in Nat
      /\ \A i \in 1 .. Len(down'[c]) :
           i + 1 \in 1 .. Len(down[c]) /\ down'[c][i] = down[c][i + 1]
  <2>1. PICK q \in Seq(DownMessage) : q = down[c]
    BY DEF RoomInv, Typed, StreamTypes
  <2>2. q # <<>> /\ Len(q) \in Nat
    BY <2>1
  <2>3. \A i \in 1 .. Len(Tail(q)) : i + 1 \in 1 .. Len(q) /\ Tail(q)[i] = q[i + 1]
    BY <2>2, TailElements
  <2>4. Len(Tail(q)) = Len(q) - 1
    BY <2>2
  <2>5. down'[c] = Tail(q)
    BY <1>1, <2>1
  <2> QED BY <2>1, <2>2, <2>3, <2>4, <2>5
<1>5. ClientStanding(c)'
  <2>1. \A i \in 1 .. Len(up[c]) : up[c][i].type # "hello"
    BY <1>2 DEF ClientInv, ClientStanding
  <2>2. \A i \in 1 .. Len(down[c]) : down[c][i].type # "welcome"
    BY <1>2 DEF ClientInv, ClientStanding
  <2>3. \A i \in 1 .. Len(down'[c]) : down'[c][i].type # "welcome"
    BY <1>4, <2>2
  <2> QED BY <2>1, <2>3 DEF ClientStanding
<1>6. ReadyInTime(c)'
  <2>1. cgen'[c] = cgen[c] + 1
    OBVIOUS
  <2>2. \A i \in 1 .. Len(up[c]) :
          up[c][i].type = "settings_ready" =>
            up[c][i].generation \in Nat /\ up[c][i].generation <= cgen[c] + 1
    <3> SUFFICES ASSUME NEW i \in 1 .. Len(up[c]), up[c][i].type = "settings_ready"
                 PROVE  up[c][i].generation \in Nat /\ up[c][i].generation <= cgen[c] + 1
      OBVIOUS
    <3>1. up[c][i] \in UpMessage
      BY DEF RoomInv, Typed, StreamTypes
    <3>2. up[c][i].generation \in Nat
      BY <3>1, UpFields
    <3> QED BY <1>2, <3>2 DEF ClientInv, ReadyInTime
  <2>3. \A i \in 1 .. Len(up[c]) :
          up[c][i].type = "settings_ready" => up[c][i].generation <= cgen'[c] + 1
    BY <1>2, <2>1, <2>2, SMTT(30)
  <2> QED BY <2>3 DEF ReadyInTime
<1>7. ASSUME Present(c)' PROVE MemberStanding(c)' /\ OwnerStanding(c)'
  <2>1. MemberStanding(c) /\ OwnerStanding(c)
    BY <1>2, <1>3, <1>7 DEF ClientInv, Present
  <2>2. CommitAt(c, 1) /\ Base(c) = cgen[c]
    BY <1>1 DEF CommitAt, Base
  <2>3. /\ down[c][1].generation = generation
        /\ down[c][1].settings = agreed[generation + 1]
    BY <1>1, <2>1, <2>2 DEF MemberStanding
  <2>4. Base(c)' = generation /\ BaseSettings(c)' = agreed[generation + 1]
    BY <1>1, <2>3 DEF Base, BaseSettings
  <2>5. \A i \in 1 .. Len(down'[c]) : ~CommitAt(c, i)'
    <3> SUFFICES ASSUME NEW i \in 1 .. Len(down'[c]), CommitAt(c, i)'
                 PROVE  FALSE
      OBVIOUS
    <3>1. i + 1 \in 1 .. Len(down[c]) /\ CommitAt(c, i + 1)
      BY <1>4 DEF CommitAt
    <3>2. i + 1 = 1
      BY <1>1, <2>1, <2>2, <3>1 DEF MemberStanding
    <3> QED BY <3>2
  <2>6. MemberStanding(c)'
    BY <1>2, <1>3, <2>4, <2>5 DEF MemberStanding
  <2>7. \A i \in 1 .. Len(down'[c]) :
          NamesOwner(down'[c][i]) /\ down'[c][i].owner = c => owner = c
    BY <1>4, <2>1 DEF OwnerStanding
  <2>8. isOwner'[c] => owner = c
    <3> SUFFICES ASSUME isOwner'[c] PROVE owner = c
      OBVIOUS
    <3>1. NamesOwner(down[c][1]) /\ down[c][1].owner = c
      BY <1>1 DEF NamesOwner
    <3> QED BY <1>1, <2>1, <3>1 DEF OwnerStanding
  <2>9. OwnerStanding(c)'
    BY <1>3, <2>7, <2>8 DEF OwnerStanding, NamesOwner
  <2> QED BY <2>6, <2>9
<1> QED BY <1>5, <1>6, <1>7 DEF ClientInv

\* A commit is refused, or takes the member to the generation of the relay.
LEMMA RoomSettingsReceived ==
  ASSUME RoomInv, NEW c \in Client, ReceiveRoomSettings(c)
  PROVE  RoomInv'
<1>1. /\ phase[c] = "in" /\ down[c] # <<>> /\ Head(down[c]).type = "room_settings"
      /\ down' = [down EXCEPT ![c] = Tail(@)]
      /\ UNCHANGED relayVars
      /\ UNCHANGED <<up, link, peers, queueVars, asked>>
  BY DEF ReceiveRoomSettings, Primary, historyVars
<1>2. StreamTypes /\ ClientTypes /\ QueueTypes /\ cgen[c] \in Nat
  BY DEF RoomInv, Typed, ClientTypes
<1>3. PICK m \in DownMessage : m = Head(down[c]) /\ m.type = "room_settings"
  BY <1>1, PrimaryFacts
<1>4. m.generation \in Nat /\ m.settings \in Setting
  BY <1>3, DownFields
<1> DEFINE wrong == ~barrier[c] \/ m.generation # cgen[c] + 1 \/ (~observer[c] /\ ~ready[c])
<1>5. CASE wrong
  <2>1. Fail(c, "protocol") /\ UNCHANGED <<barrierVars, isOwner>>
    BY <1>3, <1>5 DEF ReceiveRoomSettings
  <2>2. link' \in [Client -> [Client -> Seq(Body)]] /\ QueueTypes'
    BY <1>1, <1>2 DEF StreamTypes, QueueTypes, queueVars
  <2>3. "protocol" \in Reason
    BY DEF Reason
  <2> QED BY <1>1, <2>1, <2>2, <2>3, ReadsAndFails
<1>6. CASE ~wrong
  <2>1. /\ cgen' = [cgen EXCEPT ![c] = m.generation]
        /\ cset' = [cset EXCEPT ![c] = m.settings]
        /\ isOwner' = [isOwner EXCEPT ![c] = m.owner = c]
        /\ requested' = [requested EXCEPT ![c] = FALSE]
        /\ barrier' = [barrier EXCEPT ![c] = FALSE]
        /\ observer' = [observer EXCEPT ![c] = FALSE]
        /\ ready' = [ready EXCEPT ![c] = FALSE]
        /\ expected' = [expected EXCEPT ![c] = {}]
        /\ seen' = [seen EXCEPT ![c] = futureSeen[c]]
        /\ futureSeen' = [futureSeen EXCEPT ![c] = {}]
        /\ UNCHANGED <<phase, why>>
    BY <1>3, <1>6 DEF ReceiveRoomSettings
  <2>2. m.generation = cgen[c] + 1
    BY <1>6
  <2> HIDE DEF wrong
  <2>3. down' \in [Client -> Seq(DownMessage)]
        /\ \A r \in Client : r # c => down'[r] = down[r]
    BY <1>1, PrimaryFacts
  <2>4. /\ cgen' \in [Client -> Nat] /\ cset' \in [Client -> SettingOrNone]
        /\ isOwner' \in [Client -> BOOLEAN] /\ requested' \in [Client -> BOOLEAN]
    BY <1>2, <1>4, <2>1 DEF ClientTypes, SettingOrNone
  <2>5. /\ barrier' \in [Client -> BOOLEAN] /\ ready' \in [Client -> BOOLEAN]
        /\ observer' \in [Client -> BOOLEAN] /\ expected' \in [Client -> SUBSET Client]
        /\ seen' \in [Client -> SUBSET Client] /\ futureSeen' \in [Client -> SUBSET Client]
    BY <1>2, <2>1 DEF ClientTypes
  <2>6. TypesKept
    BY ZenonT(30), <1>1, <1>2, <2>1, <2>3, <2>4, <2>5
       DEF TypesKept, StreamTypes, ClientTypes, QueueTypes, queueVars
  <2>7. OnlyAt(c)
    BY <1>1, <1>2, <2>1, <2>3 DEF OnlyAt, ClientTypes
  <2>8. /\ cgen'[c] = m.generation /\ cset'[c] = m.settings /\ isOwner'[c] = (m.owner = c)
        /\ phase'[c] = "in" /\ up'[c] = up[c]
    BY <1>1, <1>2, <2>1 DEF ClientTypes
  <2>9. ClientInv(c)'
    BY <1>1, <1>3, <2>2, <2>8, CommitRead
  <2> QED BY <1>1, <2>6, <2>7, <2>9, ClientStep
<1> QED BY <1>5, <1>6

\* The first thing a member reads.
LEMMA WelcomeReceived ==
  ASSUME RoomInv, NEW c \in Client, ReceiveWelcome(c)
  PROVE  RoomInv'
<1>1. /\ phase[c] = "joining" /\ down[c] # <<>> /\ down' = [down EXCEPT ![c] = Tail(@)]
      /\ UNCHANGED relayVars
      /\ UNCHANGED <<up, link, requested, ready, expected, seen, futureSeen, queueVars, asked>>
  BY DEF ReceiveWelcome, historyVars
<1>2. StreamTypes /\ ClientTypes /\ QueueTypes /\ ClientInv(c)
  BY DEF RoomInv, Typed
<1>3. /\ down' \in [Client -> Seq(DownMessage)]
      /\ down'[c] = Tail(down[c]) /\ \A r \in Client : r # c => down'[r] = down[r]
      /\ Head(down[c]) = down[c][1] /\ 1 \in 1 .. Len(down[c])
  BY <1>1, PrimaryFacts
<1>4. PICK m \in DownMessage : m = Head(down[c]) /\ m = down[c][1]
  BY <1>1, PrimaryFacts
<1>5. up[c] = <<>>
  BY <1>1, <1>2 DEF ClientInv, ClientStanding
<1>6. \A i \in 1 .. Len(up[c]) : FALSE
  <2>1. Len(<<>>) = 0
    OBVIOUS
  <2> QED BY <1>5, <2>1
<1>7. CASE m.type # "welcome"
  <2>1. Fail(c, "refused") /\ UNCHANGED <<peers, isOwner, cgen, cset, barrier, observer>>
    BY <1>4, <1>7 DEF ReceiveWelcome
  <2>2. StreamTypes' /\ QueueTypes'
    BY <1>1, <1>2, <1>3 DEF StreamTypes, QueueTypes, queueVars
  <2>3. "refused" \in Reason
    BY DEF Reason
  <2> QED BY <1>1, <1>3, <1>6, <2>1, <2>2, <2>3, Gone DEF barrierVars
<1>8. CASE m.type = "welcome"
  <2>1. /\ phase' = [phase EXCEPT ![c] = "in"]
        /\ peers' = [peers EXCEPT ![c] = m.peers]
        /\ isOwner' = [isOwner EXCEPT ![c] = m.owner = c]
        /\ cgen' = [cgen EXCEPT ![c] = m.generation]
        /\ cset' = [cset EXCEPT ![c] = m.settings]
        /\ barrier' = [barrier EXCEPT ![c] = m.pending]
        /\ observer' = [observer EXCEPT ![c] = m.pending]
        /\ UNCHANGED why
    BY <1>4, <1>8 DEF ReceiveWelcome
  <2>2. /\ m.generation \in Nat /\ m.pending \in BOOLEAN /\ m.settings \in Setting
        /\ m.owner \in Client /\ m.peers \subseteq Client
    BY <1>8, DownFields
  <2>3. /\ phase' \in [Client -> {"out", "joining", "in", "gone"}]
        /\ peers' \in [Client -> SUBSET Client] /\ isOwner' \in [Client -> BOOLEAN]
        /\ cgen' \in [Client -> Nat] /\ cset' \in [Client -> SettingOrNone]
        /\ barrier' \in [Client -> BOOLEAN] /\ observer' \in [Client -> BOOLEAN]
    BY <1>2, <2>1, <2>2 DEF ClientTypes, SettingOrNone
  <2>4. TypesKept
    BY <1>1, <1>2, <1>3, <2>1, <2>3
       DEF TypesKept, StreamTypes, ClientTypes, QueueTypes, queueVars
  <2>5. OnlyAt(c)
    BY <1>1, <1>2, <1>3, <2>1 DEF OnlyAt, ClientTypes
  <2>6. /\ phase'[c] = "in" /\ cgen'[c] = m.generation /\ cset'[c] = m.settings
        /\ isOwner'[c] = (m.owner = c) /\ up'[c] = up[c]
    BY <1>1, <1>2, <2>1 DEF ClientTypes
  <2>7. UNCHANGED <<generation, pending, waiting, agreed, owner>> /\ Members' = Members
    BY <1>1 DEF relayVars, Members
  <2>8. ReadsOne(c)
    BY <1>1, <1>3, <1>4, <1>8 DEF ReadsOne
  <2>9. PICK d \in {0, 1} :
          /\ Len(down'[c]) = Len(down[c]) - d /\ Len(down[c]) \in Nat
          /\ \A i \in 1 .. Len(down'[c]) :
               i + d \in 1 .. Len(down[c]) /\ down'[c][i] = down[c][i + d]
    BY <1>2, <2>8, ReadOne
  <2>10. d = 1
    <3>1. PICK q \in Seq(DownMessage) : q = down[c]
      BY <1>2 DEF StreamTypes
    <3>2. Len(Tail(q)) = Len(q) - 1 /\ Len(q) \in Nat
      BY <1>1, <3>1, TailElements
    <3> QED BY <1>3, <2>9, <3>1, <3>2
  <2>11. \A i \in 1 .. Len(down'[c]) : down'[c][i].type # "welcome"
    <3> SUFFICES ASSUME NEW i \in 1 .. Len(down'[c]), down'[c][i].type = "welcome"
                 PROVE  FALSE
      OBVIOUS
    <3>1. i + 1 \in 1 .. Len(down[c]) /\ down[c][i + 1].type = "welcome"
      BY <2>9, <2>10
    <3>2. i + 1 = 1
      BY <1>1, <1>2, <3>1 DEF ClientInv, ClientStanding
    <3> QED BY <3>2
  <2>12. ClientStanding(c)'
    BY <1>6, <2>6, <2>11 DEF ClientStanding
  <2>13. ReadyInTime(c)'
    BY <1>6, <2>6 DEF ReadyInTime
  <2>14. ASSUME Present(c)' PROVE MemberStanding(c)' /\ OwnerStanding(c)'
    <3>1. MemberStanding(c) /\ OwnerStanding(c)
      BY <1>1, <1>2, <2>7, <2>14 DEF ClientInv, Present
    <3>2. Base(c)' = Base(c) /\ BaseSettings(c)' = BaseSettings(c)
      BY <1>1, <1>4, <2>6 DEF Base, BaseSettings
    <3>3. generation \in Nat
      BY DEF RoomInv, Typed, RoomTypes
    <3>4. MemberStanding(c)'
      BY <1>2, <2>7, <2>8, <3>1, <3>2, <3>3, StandingRead
    <3>5. \A i \in 1 .. Len(down'[c]) :
            NamesOwner(down'[c][i]) /\ down'[c][i].owner = c => owner = c
      BY <2>9, <3>1 DEF OwnerStanding
    <3>6. isOwner'[c] => owner = c
      <4>1. NamesOwner(down[c][1])
        BY <1>4, <1>8 DEF NamesOwner
      <4> QED BY <1>3, <1>4, <2>6, <3>1, <4>1 DEF OwnerStanding
    <3>7. OwnerStanding(c)'
      BY <2>7, <3>5, <3>6 DEF OwnerStanding, NamesOwner
    <3> QED BY <3>4, <3>7
  <2>15. ClientInv(c)'
    BY <2>12, <2>13, <2>14 DEF ClientInv
  <2> QED BY <1>1, <2>4, <2>5, <2>15, ClientStep
<1> QED BY <1>7, <1>8

-----------------------------------------------------------------------------
(***************************************************************************)
(* Gameplay that is held for a commit.                                     *)
(***************************************************************************)

\* How much of what is held has been caught up with.
LEMMA CaughtRange ==
  ASSUME NEW c \in Client, NEW s \in Client, future[c][s] \in Seq(Body)
  PROVE  Caught(c, s) \in 0 .. Len(future[c][s])
<1>1. PICK size \in Nat : size = Len(future[c][s])
  OBVIOUS
<1>2. PICK ok \in SUBSET (0 .. size) :
        /\ Caught(c, s) = CHOOSE n \in ok : \A k \in ok : k <= n
        /\ 0 \in ok
  <2>1. 0 \in {n \in 0 .. size : \A i \in 1 .. n : future[c][s][i].generation = cgen[c]}
    OBVIOUS
  <2> QED BY <1>1, <2>1 DEF Caught
<1>3. PICK above \in SUBSET Nat : above = {size - k : k \in ok}
  <2>1. \A k \in ok : size - k \in Nat
    OBVIOUS
  <2>2. {size - k : k \in ok} \subseteq Nat
    BY <2>1
  <2> QED BY <2>2
<1>4. above # {}
  BY <1>2, <1>3
<1>5. PICK d \in above : \A e \in above : d <= e
  BY <1>4, Least
<1>6. PICK n \in ok : d = size - n
  BY <1>3, <1>5
<1>7. \A k \in ok : k <= n
  <2> SUFFICES ASSUME NEW k \in ok PROVE k <= n
    OBVIOUS
  <2>1. size - k \in above
    BY <1>3
  <2>2. size - n <= size - k /\ k \in Nat /\ n \in Nat
    BY <1>5, <1>6, <2>1
  <2> QED BY <2>2
<1>8. Caught(c, s) \in ok
  BY <1>2, <1>6, <1>7
<1> QED BY <1>1, <1>2, <1>8

\* What is left of the held gameplay, and what is released.
LEMMA HeldTyped ==
  ASSUME NEW c \in Client, NEW s \in Client, future[c][s] \in Seq(Body)
  PROVE  SubSeq(future[c][s], Caught(c, s) + 1, Len(future[c][s])) \in Seq(Body)
<1>1. PICK n \in 0 .. Len(future[c][s]) : n = Caught(c, s)
  BY CaughtRange
<1>2. PICK q \in Seq(Body) : q = future[c][s]
  OBVIOUS
<1>3. n \in 0 .. Len(q)
  BY <1>1, <1>2
<1>4. SubSeq(q, n + 1, Len(q)) \in Seq(Body)
  BY <1>3, CutElements
<1> QED BY <1>1, <1>2, <1>4

\* A body that arrives is ignored, refused or counted and held.
LEMMA BodyApplied ==
  ASSUME ClientTypes, QueueTypes, NEW c \in Client, NEW s \in Client, NEW body \in Body,
         ApplyDeliveryBody(c, s, body)
  PROVE  /\ \/ UNCHANGED <<phase, why>>
            \/ Fail(c, "protocol") /\ UNCHANGED <<seen, futureSeen>>
         /\ future' \in [Client -> [Client -> Seq(Body)]]
         /\ seen' \in [Client -> SUBSET Client]
         /\ futureSeen' \in [Client -> SUBSET Client]
<1>1. /\ future \in [Client -> [Client -> Seq(Body)]]
      /\ seen \in [Client -> SUBSET Client] /\ futureSeen \in [Client -> SUBSET Client]
      /\ cgen[c] \in Nat
  BY DEF ClientTypes, QueueTypes
<1>2. CASE s \notin peers[c]
  BY <1>1, <1>2 DEF ApplyDeliveryBody
<1>3. CASE s \in peers[c] /\ Impossible(c, s, body)
  BY <1>1, <1>3 DEF ApplyDeliveryBody
<1>4. CASE s \in peers[c] /\ ~Impossible(c, s, body)
  <2>1. PICK held \in Seq(Body) :
          held = SubSeq(future[c][s], Caught(c, s) + 1, Len(future[c][s]))
    BY <1>1, HeldTyped
  <2>2. PICK more \in Seq(Body) :
          more = When(body.kind = "gameplay" /\ body.generation # cgen[c], body)
    <3>1. <<body>> \in Seq(Body) /\ <<>> \in Seq(Body)
      OBVIOUS
    <3> QED BY <3>1 DEF When
  <2>3. PICK A, B \in SUBSET Client :
          /\ seen' = [seen EXCEPT ![c] = A]
          /\ futureSeen' = [futureSeen EXCEPT ![c] = B]
          /\ future' = [future EXCEPT ![c][s] = held \o more]
          /\ UNCHANGED <<phase, why>>
    <3>1. /\ seen' = [seen EXCEPT ![c] =
                        IF body.kind = "barrier" /\ body.generation = cgen[c] + 1
                        THEN @ \cup {s} ELSE @]
          /\ futureSeen' = [futureSeen EXCEPT ![c] =
                              IF body.kind = "barrier" /\ body.generation = cgen[c] + 2
                              THEN @ \cup {s} ELSE @]
          /\ future' = [future EXCEPT ![c][s] = held \o more]
          /\ UNCHANGED <<phase, why>>
      BY <1>4, <2>1, <2>2 DEF ApplyDeliveryBody
    <3>2. /\ seen[c] \in SUBSET Client /\ seen[c] \cup {s} \in SUBSET Client
          /\ futureSeen[c] \in SUBSET Client /\ futureSeen[c] \cup {s} \in SUBSET Client
      BY <1>1
    <3>3. \E A \in SUBSET Client : seen' = [seen EXCEPT ![c] = A]
      BY <3>1, <3>2
    <3>4. \E B \in SUBSET Client : futureSeen' = [futureSeen EXCEPT ![c] = B]
      BY <3>1, <3>2
    <3> QED BY <3>1, <3>3, <3>4
  <2>4. held \o more \in Seq(Body)
    BY ConcatElements
  <2> QED BY <1>1, <2>3, <2>4
<1> QED BY <1>2, <1>3, <1>4

\* A relayed body is applied.
LEMMA RelayedReceived ==
  ASSUME RoomInv, NEW c \in Client, ReceiveRelayed(c)
  PROVE  RoomInv'
<1>1. /\ phase[c] = "in" /\ down[c] # <<>> /\ Head(down[c]).type = "peer_reliable"
      /\ down' = [down EXCEPT ![c] = Tail(@)]
      /\ UNCHANGED relayVars
      /\ UNCHANGED <<up, link, cgen, cset, requested, barrier, observer, ready, expected,
                     peers, isOwner, deferred, asked>>
  BY DEF ReceiveRelayed, Primary
<1>2. StreamTypes /\ ClientTypes /\ QueueTypes
  BY DEF RoomInv, Typed
<1>3. PICK m \in DownMessage : m = Head(down[c]) /\ m.type = "peer_reliable"
  BY <1>1, PrimaryFacts
<1>4. m.from \in Client /\ m.body \in Body
  BY <1>3, DownFields
<1>5. ApplyDeliveryBody(c, m.from, m.body)
  BY <1>3 DEF ReceiveRelayed
<1>6. /\ \/ UNCHANGED <<phase, why>>
         \/ Fail(c, "protocol") /\ UNCHANGED <<seen, futureSeen>>
      /\ future' \in [Client -> [Client -> Seq(Body)]]
      /\ seen' \in [Client -> SUBSET Client]
      /\ futureSeen' \in [Client -> SUBSET Client]
  BY <1>2, <1>4, <1>5, BodyApplied
<1>7. QueueTypes'
  BY <1>1, <1>2, <1>6 DEF QueueTypes
<1>8. CASE UNCHANGED <<phase, why>>
  <2>1. down' \in [Client -> Seq(DownMessage)]
    BY <1>1, PrimaryFacts
  <2>2. TypesKept
    BY <1>1, <1>2, <1>6, <1>7, <1>8, <2>1 DEF TypesKept, StreamTypes, ClientTypes
  <2>3. <<>> \in Seq(UpMessage) /\ Uploaded(c, <<>>)
    BY <1>1, <1>2, NothingUploaded
  <2>4. Present(c) /\ isOwner'[c] => owner = c
    BY <1>1 DEF RoomInv, ClientInv, OwnerStanding
  <2>5. Head(down[c]).type # "room_settings"
    BY <1>1
  <2> QED BY <1>1, <1>8, <2>2, <2>3, <2>4, <2>5, Listened
<1>9. CASE Fail(c, "protocol") /\ UNCHANGED <<seen, futureSeen>>
  <2>1. "protocol" \in Reason
    BY DEF Reason
  <2>2. link' \in [Client -> [Client -> Seq(Body)]]
    BY <1>1, <1>2 DEF StreamTypes
  <2> QED BY <1>1, <1>7, <1>9, <2>1, <2>2, ReadsAndFails DEF barrierVars
<1> QED BY <1>6, <1>8, <1>9

\* A body from a direct link is applied.
LEMMA DirectReceived ==
  ASSUME RoomInv, NEW c \in Client, NEW s \in Client, ReceiveDirect(c, s)
  PROVE  RoomInv'
<1>1. /\ phase[c] = "in" /\ link[s][c] # <<>>
      /\ link' = [link EXCEPT ![s][c] = Tail(@)]
      /\ ApplyDeliveryBody(c, s, Head(link[s][c]))
      /\ UNCHANGED relayVars
      /\ UNCHANGED <<up, down, cgen, cset, requested, barrier, observer, ready, expected,
                     peers, isOwner, deferred, asked>>
  BY DEF ReceiveDirect
<1>2. StreamTypes /\ ClientTypes /\ QueueTypes
  BY DEF RoomInv, Typed
<1>3. PICK q \in Seq(Body) : q = link[s][c] /\ q # <<>>
  BY <1>1, <1>2 DEF StreamTypes
<1>4. Head(q) \in Body /\ Tail(q) \in Seq(Body)
  BY <1>3
<1>5. link' \in [Client -> [Client -> Seq(Body)]]
  BY <1>1, <1>2, <1>3, <1>4 DEF StreamTypes
<1>6. PICK body \in Body : body = Head(link[s][c])
  BY <1>3, <1>4
<1>7. /\ \/ UNCHANGED <<phase, why>>
         \/ Fail(c, "protocol") /\ UNCHANGED <<seen, futureSeen>>
      /\ future' \in [Client -> [Client -> Seq(Body)]]
      /\ seen' \in [Client -> SUBSET Client]
      /\ futureSeen' \in [Client -> SUBSET Client]
  BY <1>1, <1>2, <1>6, BodyApplied
<1>8. QueueTypes'
  BY <1>1, <1>2, <1>7 DEF QueueTypes
<1>9. StreamTypes'
  BY <1>1, <1>2, <1>5 DEF StreamTypes
<1>10. CASE UNCHANGED <<phase, why>>
  <2>1. TypesKept
    BY <1>1, <1>2, <1>7, <1>8, <1>9, <1>10, ZenonT(30) DEF TypesKept, ClientTypes
  <2>2. <<>> \in Seq(UpMessage) /\ Uploaded(c, <<>>)
    BY <1>1, <1>2, NothingUploaded
  <2> QED BY <1>1, <1>10, <2>1, <2>2, StaysPut
<1>11. CASE Fail(c, "protocol") /\ UNCHANGED <<seen, futureSeen>>
  <2>1. "protocol" \in Reason
    BY DEF Reason
  <2>2. \A i \in 1 .. Len(up[c]) : up[c][i].type # "hello"
    BY <1>1, NoHello
  <2> QED BY <1>1, <1>8, <1>9, <1>11, <2>1, <2>2, Gone DEF barrierVars
<1> QED BY <1>7, <1>10, <1>11

\* Held gameplay is applied.
LEMMA FutureDrained ==
  ASSUME RoomInv, NEW c \in Client, NEW s \in Client, DrainFuture(c, s)
  PROVE  RoomInv'
<1>1. /\ phase[c] = "in"
      /\ future' = [future EXCEPT ![c][s] = SubSeq(@, Caught(c, s) + 1, Len(@))]
      /\ UNCHANGED relayVars
      /\ UNCHANGED <<netVars, barrierVars, sessionVars, deferred, asked>>
  BY DEF DrainFuture
<1>2. StreamTypes /\ ClientTypes /\ QueueTypes
  BY DEF RoomInv, Typed
<1>3. SubSeq(future[c][s], Caught(c, s) + 1, Len(future[c][s])) \in Seq(Body)
  BY <1>2, HeldTyped DEF QueueTypes
<1>4. future' \in [Client -> [Client -> Seq(Body)]]
  BY <1>1, <1>2, <1>3 DEF QueueTypes
<1>5. TypesKept
  BY <1>1, <1>2, <1>4
     DEF TypesKept, StreamTypes, ClientTypes, QueueTypes, netVars, barrierVars, sessionVars
<1>6. <<>> \in Seq(UpMessage) /\ Uploaded(c, <<>>)
  BY <1>1, <1>2, NothingUploaded DEF netVars
<1>7. UNCHANGED <<down, phase, cgen, cset, isOwner>> /\ \A r \in Client : r # c => up'[r] = up[r]
  BY <1>1 DEF netVars, barrierVars, sessionVars
<1> QED BY <1>1, <1>5, <1>6, <1>7, StaysPut

\* A finished connection is a departure.
LEMMA ConnectionClosed ==
  ASSUME RoomInv, BarrierAssumption, NEW c \in Client, Close(c)
  PROVE  RoomInv'
BY ClientRemoved DEF Close

\* So is a lost one.
LEMMA ConnectionLost ==
  ASSUME RoomInv, BarrierAssumption, NEW c \in Client, LoseConnection(c)
  PROVE  RoomInv'
BY ClientRemoved DEF LoseConnection

-----------------------------------------------------------------------------
(***************************************************************************)
(* The theorems.                                                           *)
(***************************************************************************)

\* Nobody has said anything yet.
LEMMA RoomInvInit ==
  ASSUME BarrierAssumption, Init
  PROVE  RoomInv
<1>1. /\ <<>> \in Seq(UpMessage) /\ <<>> \in Seq(DownMessage) /\ <<>> \in Seq(Body)
      /\ <<>> \in Seq(Item) /\ <<>> \in Seq(Client) /\ <<>> \in Seq(Setting) /\ Len(<<>>) = 0
  OBVIOUS
<1>2. StreamTypes
  BY <1>1 DEF Init, StreamTypes
<1>3. ClientTypes
  BY DEF Init, ClientTypes, SettingOrNone, Reason
<1>4. QueueTypes
  <2>1. deferred \in [Client -> Seq(Item)] /\ future \in [Client -> [Client -> Seq(Body)]]
    BY <1>1 DEF Init
  <2>2. \A c \in Client : Len(deferred[c]) <= MaxDeferred
    <3>1. MaxDeferred \in Nat
      BY DEF BarrierAssumption
    <3> QED BY <1>1, <3>1 DEF Init
  <2> QED BY <2>1, <2>2 DEF QueueTypes
<1>5. Members = {}
  BY DEF Init, Members
<1>6. RoomTypes
  BY <1>1, <1>5 DEF Init, RoomTypes, SettingOrNone
<1>7. RoomStanding
  BY DEF Init, RoomStanding
<1>8. ASSUME NEW c \in Client PROVE ClientInv(c)
  <2>1. phase[c] = "out" /\ up[c] = <<>> /\ down[c] = <<>>
    BY DEF Init
  <2>2. \A i \in 1 .. Len(down[c]) : FALSE
    BY <1>1, <2>1
  <2>3. ClientStanding(c)
    BY <1>5, <2>1, <2>2 DEF ClientStanding
  <2> QED BY <1>5, <2>1, <2>3 DEF ClientInv, Present
<1> QED BY <1>2, <1>3, <1>4, <1>6, <1>7, <1>8 DEF RoomInv, Typed

\* Every step keeps the invariant.
LEMMA RoomInvNext ==
  ASSUME BarrierAssumption, RoomInv, Next
  PROVE  RoomInv'
<1>1. CASE RoomDeadline
  BY <1>1, RoomDeadlinePassed
<1>2. ASSUME NEW c \in Client, RelayTick(c) PROVE RoomInv'
  BY <1>2, HelloRouted, PeerReliableRouted, RoomSettingsRouted, SettingsReadyRouted,
     KickRouted, ConnectionClosed DEF RelayTick
<1>3. ASSUME NEW c \in Client, ClientTick(c) PROVE RoomInv'
  <2>1. CASE ReceivePrimary(c)
    BY <2>1, WelcomeReceived, PeerJoinedReceived, PeerLeftReceived, OwnerChangedReceived,
       SettingsPrepareReceived, RoomSettingsReceived, ErrorReceived, KickedReceived,
       RelayedReceived DEF ReceivePrimary
  <2>2. CASE PumpDeliveries(c)
    BY <2>2, DirectReceived, FutureDrained, Readied, DeferredFlushed DEF PumpDeliveries
  <2>3. CASE NoticeClosed(c)
    BY <2>3, ClosedNoticed
  <2> QED BY <1>3, <2>1, <2>2, <2>3 DEF ClientTick
<1>4. ASSUME NEW c \in Client, Environment(c) PROVE RoomInv'
  BY <1>4, Joined, GameplaySubmitted, SettingsSubmitted, KickSubmitted, ConnectionLost,
     DeadlinePassed DEF Environment
<1> QED BY <1>1, <1>2, <1>3, <1>4 DEF Next

\* Nothing happens.
LEMMA RoomInvStutters ==
  ASSUME RoomInv, UNCHANGED vars
  PROVE  RoomInv'
<1>1. UNCHANGED relayVars
  BY DEF vars
<1>2. UNCHANGED <<up, down, link, phase, why, peers, isOwner, cgen, cset, requested, barrier,
                  observer, ready, expected, seen, futureSeen, deferred, future, asked>>
  BY DEF vars, netVars, barrierVars, sessionVars, queueVars, historyVars
<1>3. RoomTypes' /\ RoomStanding' /\ Members' = Members
  BY <1>1 DEF RoomInv, Typed, RoomTypes, RoomStanding, Members, relayVars
<1>4. StreamTypes' /\ ClientTypes' /\ QueueTypes'
  BY <1>2 DEF RoomInv, Typed, StreamTypes, ClientTypes, QueueTypes
<1>5. ASSUME NEW c \in Client PROVE ClientInv(c)'
  <2>1. ClientInv(c)
    BY DEF RoomInv
  <2>2. ClientStanding(c)' /\ (phase[c] = "in" => ReadyInTime(c))'
    BY <1>2, <1>3, <2>1 DEF ClientInv, ClientStanding, ReadyInTime
  <2>3. UNCHANGED <<generation, pending, waiting, agreed, owner>>
    BY <1>1 DEF relayVars
  <2>4. Base(c)' = Base(c) /\ BaseSettings(c)' = BaseSettings(c)
    BY <1>2 DEF Base, BaseSettings
  <2>5. Present(c)' => MemberStanding(c)' /\ OwnerStanding(c)'
    BY <1>2, <1>3, <2>1, <2>3, <2>4
       DEF ClientInv, Present, MemberStanding, OwnerStanding, CommitAt, NamesOwner
  <2> QED BY <2>2, <2>5 DEF ClientInv
<1> QED BY <1>3, <1>4, <1>5 DEF RoomInv, Typed

\* The streams, the clients and the relay's room keep to their types and to
\* each other: the relay waits for members only and never for nobody, each
\* member is at most one commit behind, which is then on its way to it, no two
\* commits are, and only the owner is ever told that it is.
THEOREM RoomInvariant == Spec => []RoomInv
<1>1. Init => RoomInv
  BY BarrierAssumption, RoomInvInit
<1>2. RoomInv /\ [Next]_vars => RoomInv'
  BY BarrierAssumption, RoomInvNext, RoomInvStutters
<1> QED BY <1>1, <1>2, PTL DEF Spec

\* At every moment of any run, with any number of clients and whatever joins,
\* leaves, kicks, errors and deadlines there are: the relay's owner is a member
\* and no other member believes that it is the owner, and every member that has
\* read its welcome has the settings that the relay committed for the member's
\* own generation, which is the relay's or the one before.
THEOREM RoomAgreement == Spec => []RoomAgrees
<1>1. RoomInv => RoomAgrees
  <2> SUFFICES ASSUME RoomInv PROVE RoomAgrees
    OBVIOUS
  <2>1. StreamTypes /\ ClientTypes /\ QueueTypes /\ RoomTypes /\ RoomStanding
    BY DEF RoomInv, Typed
  <2>2. Members \subseteq Client
    BY <2>1 DEF RoomTypes, Members
  <2>3. owner \in Client \cup {None} /\ settings \in Setting \cup {None}
    <3>1. CASE members = <<>>
      BY <2>1, <3>1 DEF RoomStanding
    <3>2. CASE members # <<>>
      <4>1. generation + 1 \in 1 .. Len(agreed) /\ agreed \in Seq(Setting)
        BY <2>1, <3>2 DEF RoomStanding, RoomTypes
      <4>2. agreed[generation + 1] \in Setting
        BY <4>1
      <4> QED BY <2>1, <2>2, <3>2, <4>2 DEF RoomStanding
    <3> QED BY <3>1, <3>2
  <2>4. TypeOK
    BY <2>1, <2>2, <2>3 DEF TypeOK, ClientTypes, QueueTypes, RoomTypes, SettingOrNone
  <2>5. SettingsAgree
    <3> SUFFICES ASSUME NEW c \in Members, phase[c] = "in"
                 PROVE  cgen[c] \in {generation - 1, generation} /\ cset[c] = agreed[cgen[c] + 1]
      BY DEF SettingsAgree
    <3>1. MemberStanding(c)
      BY <2>2 DEF RoomInv, ClientInv, Present
    <3>2. Base(c) = cgen[c] /\ BaseSettings(c) = cset[c]
      BY DEF Base, BaseSettings
    <3>3. cgen[c] \in Nat /\ generation \in Nat
      BY <2>1, <2>2 DEF ClientTypes, RoomTypes
    <3>4. cgen[c] = generation \/ cgen[c] + 1 = generation
      BY <3>1, <3>2 DEF MemberStanding
    <3> QED BY <3>1, <3>2, <3>3, <3>4 DEF MemberStanding
  <2>6. OneOwner
    BY <2>1, <2>2 DEF RoomInv, ClientInv, Present, OwnerStanding, OneOwner, RoomStanding
  <2> QED BY <2>4, <2>5, <2>6 DEF RoomAgrees
<1> QED BY <1>1, RoomInvariant, PTL
=============================================================================
