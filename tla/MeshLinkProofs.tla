--------------------------- MODULE MeshLinkProofs ---------------------------
(***************************************************************************)
(* The link between two players, for every number of generations, of       *)
(* signals lost and of connections dropped.                                *)
(*                                                                         *)
(* A step either leaves the signals alone (Quiet) or has one of six        *)
(* effects on one player's agent and queue: Joins, Goes, Sends, Loses,     *)
(* Reads, Restarts.  Each action is shown to have its effect, and each     *)
(* effect to keep the invariant, so that the arguments about generations   *)
(* never open the agents' records.                                         *)
(*                                                                         *)
(* The heart of the invariant is the order of what is under way to hi.     *)
(* Nothing is said of a generation its sender has not begun (Lead), nothing *)
(* that waits to be sent has been said before (Unspoken), so descriptions  *)
(* climb (Climbs); hi can then never read a description that is too far    *)
(* ahead while the one it needs is still behind it (Reach).                *)
(***************************************************************************)
EXTENDS MeshLink, SequenceLemmas, TLAPS

Unsent == {<<>>, <<"candidates">>, <<"description", "candidates">>}
Links == [st : {"absent", "open", "gone"}, gen : 0 .. MaxGen, unsent : Unsent,
          described : BOOLEAN, connected : BOOLEAN, echo : BOOLEAN,
          echoGen : 0 .. MaxGen, recent : BOOLEAN, sec : SecureStates]

Fresh == <<"description", "candidates">>
Description(g) == [kind |-> "description", gen |-> g]
Candidates(g) == [kind |-> "candidates", gen |-> g]

\* What is under way in a queue of signals.
Carries(q, g) == \E i \in 1 .. Len(q) : q[i] = Description(g)
AtMost(q, g) == \A i \in 1 .. Len(q) : q[i].gen <= g
Climbs(q) ==
  \A i, j \in 1 .. Len(q) :
    i < j /\ q[i].kind = "description" /\ q[j].kind = "description" => q[i].gen < q[j].gen

Shape ==
  /\ link \in [Sides -> Links]
  /\ chan \in [Sides -> Seq(Signals)]
  /\ air \subseteq Packets
  /\ drops \in 0 .. MaxDrops
  /\ missed \in BOOLEAN
  /\ cloud \in BOOLEAN

\* A player that is not there yet has said nothing.
Silent(s) ==
  link[s].st = "absent" =>
    link[s] = Absent /\ chan[Other(s)] = <<>> /\ ~link[Other(s)].described
Untouched == Silent("lo") /\ Silent("hi")

\* Nothing is said of a generation that its sender has not begun.
Lead ==
  /\ link["lo"].st = "absent" => link["hi"].gen = 0
  /\ Open("lo") => AtMost(chan["hi"], link["lo"].gen)
  /\ Open("hi") => AtMost(chan["lo"], link["hi"].gen)
  /\ Open("lo") /\ Open("hi") => link["hi"].gen <= link["lo"].gen

\* What an agent has not sent is neither under way nor known to the other.
Unspoken(s, o) ==
  Open(s) /\ link[s].unsent = Fresh =>
    /\ ~Carries(chan[o], link[s].gen)
    /\ Open(o) /\ link[o].described => link[o].gen # link[s].gen

\* lo holds a description only of the agent hi uses: hi answers lo's generation,
\* and takes up no other before lo begins it.
Answered == Open("lo") /\ Open("hi") /\ link["lo"].described => link["hi"].gen = link["lo"].gen

\* A player that waits for the other's description will get it, unless one was missed.
Waits(s) == link[s].st = "absent" \/ (Open(s) /\ ~link[s].described)
Comes(s, o) ==
  ~missed /\ Waits(s) /\ Open(o) /\ link[s].gen = link[o].gen =>
    link[o].unsent = Fresh \/ Carries(chan[s], link[s].gen)

\* What hi still has to follow.
Ahead(g) == g > link["hi"].gen \/ (link["hi"].st = "absent" /\ g = 0)
Reach ==
  ~missed /\ Open("lo") /\ link["hi"].st # "gone" =>
    \A g \in 0 .. link["lo"].gen :
      Ahead(g) => \/ g = link["lo"].gen /\ link["lo"].unsent = Fresh
                  \/ Carries(chan["hi"], g)

Signalling ==
  /\ Lead /\ Unspoken("lo", "hi") /\ Unspoken("hi", "lo") /\ Answered
  /\ Comes("lo", "hi") /\ Comes("hi", "lo") /\ Climbs(chan["hi"]) /\ Reach

\* An echo was heard through the agent in use.
Echoes == \A s \in Sides : link[s].echo => link[s].echoGen = link[s].gen

\* How far the two ends are with the keys, and what a packet under way tells of them.
Paired(lo, hi) ==
  /\ lo # "ServerHello" /\ hi # "ClientHello"
  /\ hi = "Idle" => lo \in {"Idle", "ClientHello"}
  /\ hi = "ServerHello" => lo \in {"ClientHello", "Established"}
  /\ hi = "Established" => lo = "Established"
Implied(p, lo, hi) ==
  /\ p.to = "hi" /\ p.kind = "hello" => lo # "Idle"
  /\ p.to = "hi" /\ p.kind = "finish" => lo = "Established"
  /\ p.to = "lo" /\ p.kind = "serverHello" => hi # "Idle"
Keys ==
  /\ link["lo"].sec # "ServerHello" /\ link["hi"].sec # "ClientHello"
  /\ link["lo"].st # "gone" /\ link["hi"].st # "gone" =>
       /\ Paired(link["lo"].sec, link["hi"].sec)
       /\ \A p \in air : Implied(p, link["lo"].sec, link["hi"].sec)

Inv == Shape /\ Untouched /\ Signalling /\ Echoes /\ Keys
-----------------------------------------------------------------------------
\* What is under way after a signal was added.
LEMMA AppendSignal ==
  ASSUME NEW q \in Seq(Signals), NEW m \in Signals
  PROVE  /\ Append(q, m) \in Seq(Signals)
         /\ \A g : Carries(Append(q, m), g) <=> (Carries(q, g) \/ m = Description(g))
         /\ \A g \in Int : AtMost(q, g) /\ m.gen <= g => AtMost(Append(q, m), g)
<1>1. /\ Append(q, m) \in Seq(Signals) /\ Len(q) \in Nat
      /\ Len(Append(q, m)) = Len(q) + 1
      /\ \A i \in 1 .. Len(q) + 1 : Append(q, m)[i] = IF i = Len(q) + 1 THEN m ELSE q[i]
  BY AppendElements
<1> DEFINE r == Append(q, m)
<1> HIDE DEF r
<1>2. \A i \in 1 .. Len(r) : r[i] = m \/ (i \in 1 .. Len(q) /\ r[i] = q[i])
  BY <1>1 DEF r
<1>3. \A i \in 1 .. Len(q) : i \in 1 .. Len(r) /\ r[i] = q[i]
  BY <1>1 DEF r
<1>4. Len(r) \in 1 .. Len(r) /\ r[Len(r)] = m
  BY <1>1 DEF r
<1>5. \A g : Carries(r, g) <=> (Carries(q, g) \/ m = Description(g))
  BY <1>2, <1>3, <1>4 DEF Carries
<1>6. \A g \in Int : AtMost(q, g) /\ m.gen <= g => AtMost(r, g)
  BY <1>2 DEF AtMost
<1> QED BY <1>1, <1>5, <1>6 DEF r

\* A description of a generation not described so far keeps the order.
LEMMA AppendClimbs ==
  ASSUME NEW q \in Seq(Signals), NEW m \in Signals, Climbs(q),
         m.kind = "description" => AtMost(q, m.gen) /\ ~Carries(q, m.gen)
  PROVE  Climbs(Append(q, m))
<1>1. /\ Append(q, m) \in Seq(Signals) /\ Len(q) \in Nat
      /\ Len(Append(q, m)) = Len(q) + 1
      /\ \A i \in 1 .. Len(q) + 1 : Append(q, m)[i] = IF i = Len(q) + 1 THEN m ELSE q[i]
  BY AppendElements
<1> DEFINE r == Append(q, m)
<1> HIDE DEF r
<1>2. ASSUME NEW i \in 1 .. Len(r), NEW j \in 1 .. Len(r), i < j,
             r[i].kind = "description", r[j].kind = "description"
      PROVE  r[i].gen < r[j].gen
  <2>1. i \in 1 .. Len(q) /\ r[i] = q[i] /\ q[i] \in Signals
    BY <1>1, <1>2 DEF r
  <2>2. CASE j \in 1 .. Len(q)
    BY <1>1, <1>2, <2>1, <2>2 DEF r, Climbs
  <2>3. CASE j \notin 1 .. Len(q)
    <3>1. r[j] = m
      BY <1>1, <1>2, <2>3 DEF r
    <3>2. q[i].gen <= m.gen
      BY <1>2, <2>1, <3>1 DEF AtMost
    <3>3. q[i] = Description(q[i].gen)
      BY <1>2, <2>1 DEF Signals, Description
    <3>4. q[i].gen # m.gen
      BY <1>2, <2>1, <3>1, <3>3 DEF Carries
    <3> QED BY <2>1, <3>1, <3>2, <3>4 DEF Signals
  <2> QED BY <2>2, <2>3
<1> QED BY <1>2 DEF Climbs, r

\* r is what is left of q when its first signal, m, was taken or lost.
Dequeued(q, m, r) ==
  /\ m \in Signals /\ r \in Seq(Signals)
  /\ \A g : Carries(r, g) => Carries(q, g)
  /\ \A g : Carries(q, g) => Carries(r, g) \/ m = Description(g)
  /\ \A g : m = Description(g) => Carries(q, g)
  /\ \A g : AtMost(q, g) => AtMost(r, g) /\ m.gen <= g
  /\ Climbs(q) => Climbs(r)
  /\ \A g \in Nat : Climbs(q) /\ Carries(r, g) /\ m.kind = "description" => m.gen < g

LEMMA TailSignal ==
  ASSUME NEW q \in Seq(Signals), q # <<>>
  PROVE  Dequeued(q, Head(q), Tail(q))
<1>1. /\ Tail(q) \in Seq(Signals) /\ Len(q) \in Nat /\ Len(Tail(q)) = Len(q) - 1
      /\ 1 \in 1 .. Len(q) /\ Head(q) = q[1] /\ Head(q) \in Signals
      /\ \A i \in 1 .. Len(Tail(q)) : i + 1 \in 1 .. Len(q) /\ Tail(q)[i] = q[i + 1]
  BY TailElements
<1> DEFINE r == Tail(q)
<1> HIDE DEF r
<1>2. \A i \in 1 .. Len(r) : i + 1 \in 1 .. Len(q) /\ r[i] = q[i + 1] /\ i \in Nat
  BY <1>1 DEF r
<1>3. \A i \in 1 .. Len(q) : i = 1 \/ (i - 1 \in 1 .. Len(r) /\ r[i - 1] = q[i])
  BY <1>1 DEF r
<1>4. \A g : Carries(r, g) => Carries(q, g)
  BY <1>2 DEF Carries
<1>5. \A g : Carries(q, g) => Carries(r, g) \/ Head(q) = Description(g)
  BY <1>1, <1>3 DEF Carries
<1>9. \A g : Head(q) = Description(g) => Carries(q, g)
  BY <1>1 DEF Carries
<1>6. \A g : AtMost(q, g) => AtMost(r, g) /\ Head(q).gen <= g
  BY <1>1, <1>2 DEF AtMost
<1>7. Climbs(q) => Climbs(r)
  <2> SUFFICES ASSUME Climbs(q), NEW i \in 1 .. Len(r), NEW j \in 1 .. Len(r), i < j,
                      r[i].kind = "description", r[j].kind = "description"
               PROVE  r[i].gen < r[j].gen
    BY DEF Climbs
  <2>1. i + 1 \in 1 .. Len(q) /\ j + 1 \in 1 .. Len(q) /\ i + 1 < j + 1
    BY <1>2
  <2> QED BY <1>2, <2>1 DEF Climbs
<1>8. ASSUME NEW g \in Nat, Climbs(q), Carries(r, g), Head(q).kind = "description"
      PROVE  Head(q).gen < g
  <2>1. PICK i \in 1 .. Len(r) : r[i] = Description(g)
    BY <1>8 DEF Carries
  <2>2. i + 1 \in 1 .. Len(q) /\ q[i + 1] = Description(g) /\ 1 < i + 1
    BY <1>2, <2>1
  <2>3. q[i + 1].kind = "description" /\ q[i + 1].gen = g
    BY <2>2 DEF Description
  <2> QED BY <1>1, <1>8, <2>2, <2>3 DEF Climbs
<1> QED BY <1>1, <1>4, <1>5, <1>6, <1>7, <1>8, <1>9 DEF r, Dequeued


\* What is said of the generations so far is not said of the next.
LEMMA AtMostLater ==
  ASSUME NEW q \in Seq(Signals), NEW g \in Nat, AtMost(q, g)
  PROVE  AtMost(q, g + 1) /\ ~Carries(q, g + 1)
<1>1. \A i \in 1 .. Len(q) : q[i] \in Signals
  OBVIOUS
<1>2. \A i \in 1 .. Len(q) : q[i].gen \in Int /\ q[i].gen <= g
  BY <1>1 DEF Signals, AtMost
<1>3. AtMost(q, g + 1)
  BY <1>2 DEF AtMost
<1>4. \A i \in 1 .. Len(q) : q[i] # Description(g + 1)
  BY <1>2 DEF Description
<1> QED BY <1>3, <1>4 DEF Carries
-----------------------------------------------------------------------------
(* What a step does to the agents and the signals, of player s and the other, o. *)

Pair(s, o) == (s = "lo" /\ o = "hi") \/ (s = "hi" /\ o = "lo")

\* l is l0 with a new agent, or with the same one.
Renewed(l, l0, g) ==
  l.st = "open" /\ l.gen = g /\ l.unsent = Fresh /\ ~l.echo /\ l.sec = l0.sec
SameAgent(l, l0) ==
  /\ l.st = l0.st /\ l.gen = l0.gen
  /\ l.echo = l0.echo /\ l.echoGen = l0.echoGen /\ l.sec = l0.sec

Joins(s, o) ==
  /\ link[s].st = "absent"
  /\ Renewed(link'[s], link[s], 0) /\ ~link'[s].described
  /\ link'[o] = link[o] /\ chan' = chan /\ missed' = missed

Goes(s, o) ==
  /\ Open(s) /\ link'[s].st = "gone" /\ ~link'[s].echo
  /\ link'[s].sec = "Idle" /\ link'[s].gen = 0 /\ ~link'[s].described
  /\ link'[o] = link[o] /\ chan' = chan /\ missed' = missed

Sends(s, o) ==
  /\ Open(s) /\ SameAgent(link'[s], link[s]) /\ link'[s].described = link[s].described
  /\ link'[s].unsent # Fresh
  /\ \E m \in Signals :
       /\ m.gen = link[s].gen /\ (m.kind = "description" <=> link[s].unsent = Fresh)
       /\ chan'[o] = Append(chan[o], m)
  /\ chan'[s] = chan[s] /\ link'[o] = link[o] /\ missed' = missed

Loses(s, o) ==
  /\ chan[s] # <<>> /\ chan'[s] = Tail(chan[s]) /\ chan'[o] = chan[o]
  /\ link' = link
  /\ missed' = (missed \/ Head(chan[s]).kind = "description")

\* The agent has no use for the signal, or only if one was missed.
Ignores(s, sig) ==
  /\ link'[s] = link[s]
  /\ \/ sig.kind = "candidates"
     \/ missed'
     \/ Open(s) /\ sig.gen = link[s].gen /\ link[s].described
     \/ Open(s) /\ sig.gen # link[s].gen /\ (s = "lo" \/ sig.gen # link[s].gen + 1)
Takes(s, sig) ==
  /\ Open(s) /\ sig = Description(link[s].gen)
  /\ SameAgent(link'[s], link[s]) /\ link'[s].unsent = link[s].unsent /\ link'[s].described
CatchesUp(s, sig) ==
  /\ s = "hi" /\ Open(s) /\ sig = Description(link[s].gen + 1)
  /\ Renewed(link'[s], link[s], link[s].gen + 1) /\ link'[s].described
Appears(s, sig) ==
  /\ link[s].st = "absent"
  /\ Renewed(link'[s], link[s], 0)
  /\ \/ sig = Description(0) /\ link'[s].described
     \/ missed' /\ ~link'[s].described
Reads(s, o) ==
  /\ chan[s] # <<>> /\ chan'[s] = Tail(chan[s]) /\ chan'[o] = chan[o]
  /\ link'[o] = link[o]
  /\ missed => missed'
  /\ LET sig == Head(chan[s]) IN
       Ignores(s, sig) \/ Takes(s, sig) \/ CatchesUp(s, sig) \/ Appears(s, sig)

Restarts ==
  /\ Open("lo") /\ Renewed(link'["lo"], link["lo"], link["lo"].gen + 1) /\ ~link'["lo"].described
  /\ link'["hi"] = link["hi"] /\ chan' = chan
  /\ missed' = (missed \/ link["lo"].unsent = Fresh)

\* Nothing the signals are about.
Quiet ==
  /\ \A s \in Sides : /\ link'[s].st = link[s].st /\ link'[s].gen = link[s].gen
                      /\ link'[s].unsent = link[s].unsent
                      /\ link'[s].described = link[s].described
                      /\ link[s].st = "absent" => link'[s] = link[s]
  /\ chan' = chan /\ missed' = missed
-----------------------------------------------------------------------------
\* A record of one player is replaced, the other's stays.
LEMMA OneSide ==
  ASSUME Shape, NEW s \in Sides, NEW l \in Links, link' = [link EXCEPT ![s] = l]
  PROVE  /\ link' \in [Sides -> Links] /\ link'[s] = l
         /\ Other(s) \in Sides /\ Pair(s, Other(s)) /\ link'[Other(s)] = link[Other(s)]
BY DEF Shape, Sides, Other, Pair

LEMMA NewAgentFields ==
  ASSUME BoundsAssumption, NEW l \in Links, NEW g \in 0 .. MaxGen, l.st = "open"
  PROVE  /\ NewAgent(l, g) \in Links
         /\ Renewed(NewAgent(l, g), l, g) /\ ~NewAgent(l, g).described /\ NewAgent(l, g).recent
         /\ NewAgent(l, g).sec = l.sec
BY DEF NewAgent, Links, Renewed, Unsent, Fresh, BoundsAssumption

LEMMA AbsentFields ==
  ASSUME BoundsAssumption
  PROVE  /\ Absent \in Links /\ Absent.st = "absent" /\ Absent.gen = 0 /\ Absent.unsent = <<>>
         /\ ~Absent.echo /\ Absent.sec = "Idle" /\ ~Absent.described
         /\ Gone \in Links /\ Gone.st = "gone" /\ Gone.gen = 0 /\ ~Gone.described
         /\ ~Gone.echo /\ Gone.sec = "Idle"
         /\ Admitted \in Links /\ Admitted.st = "open" /\ Admitted.gen = 0 
         /\ Admitted.unsent = Fresh /\ ~Admitted.described /\ Admitted.recent /\ ~Admitted.echo
         /\ Admitted.sec = "Idle"
<1>1. /\ Absent \in Links /\ Absent.st = "absent" /\ Absent.gen = 0 /\ Absent.unsent = <<>>
      /\ ~Absent.echo /\ Absent.sec = "Idle" /\ ~Absent.described
  BY DEF Absent, Links, Unsent, BoundsAssumption, SecureStates
<1>2. /\ Gone \in Links /\ Gone.st = "gone" /\ Gone.gen = 0 /\ ~Gone.described
      /\ ~Gone.echo /\ Gone.sec = "Idle"
  BY <1>1 DEF Gone, Links
<1> DEFINE l == [Absent EXCEPT !.st = "open"]
<1>3. l \in Links /\ l.st = "open" /\ l.sec = "Idle"
  BY <1>1 DEF Links
<1>4. Admitted = NewAgent(l, 0)
  BY DEF Admitted
<1> HIDE DEF l
<1>5. 0 \in 0 .. MaxGen
  BY DEF BoundsAssumption
<1>6. Renewed(Admitted, l, 0) /\ ~Admitted.described /\ Admitted.recent /\ Admitted \in Links
  BY <1>3, <1>4, <1>5, NewAgentFields
<1> QED BY <1>1, <1>2, <1>3, <1>6 DEF Renewed

LEMMA AdmitEffect ==
  ASSUME BoundsAssumption, Shape, Untouched, NEW s \in Sides, MeshAdmit(s)
  PROVE  Shape' /\ Joins(s, Other(s)) /\ Pair(s, Other(s)) /\ air' = air
<1>1. link[s] = Absent
  BY DEF Untouched, Silent, MeshAdmit, Sides
<1>2. Admitted \in Links /\ link' = [link EXCEPT ![s] = Admitted]
  BY AbsentFields DEF MeshAdmit
<1>3. /\ link' \in [Sides -> Links] /\ link'[s] = Admitted
      /\ Other(s) \in Sides /\ Pair(s, Other(s)) /\ link'[Other(s)] = link[Other(s)]
  BY <1>2, OneSide
<1>4. Joins(s, Other(s))
  BY <1>1, <1>3, AbsentFields DEF Joins, Renewed, MeshAdmit
<1> QED BY <1>3, <1>4 DEF MeshAdmit, Shape

LEMMA GoesEffect ==
  ASSUME BoundsAssumption, Shape, NEW s \in Sides, MeshRemove(s) \/ Leave(s)
  PROVE  Shape' /\ Goes(s, Other(s)) /\ Pair(s, Other(s)) /\ air' \subseteq air
<1>1. /\ Gone \in Links /\ link' = [link EXCEPT ![s] = Gone] /\ chan' = chan
      /\ missed' = missed /\ Open(s) /\ drops' \in {drops, drops + 1} /\ drops' \in 0 .. MaxDrops
      /\ cloud' = cloud /\ air' = Reachable(link')
  BY AbsentFields DEF MeshRemove, Leave, Shape, BoundsAssumption
<1>2. /\ link' \in [Sides -> Links] /\ link'[s] = Gone
      /\ Other(s) \in Sides /\ Pair(s, Other(s)) /\ link'[Other(s)] = link[Other(s)]
  BY <1>1, OneSide
<1>3. air' \subseteq air
  BY <1>1 DEF Reachable
<1> QED BY <1>1, <1>2, <1>3, AbsentFields DEF Goes, Shape

LEMMA SendsEffect ==
  ASSUME BoundsAssumption, Shape, NEW s \in Sides, PopSignal(s)
  PROVE  Shape' /\ Sends(s, Other(s)) /\ Pair(s, Other(s)) /\ air' = air
<1> DEFINE l == [link[s] EXCEPT !.unsent = Tail(@)]
           m == [kind |-> Head(link[s].unsent), gen |-> link[s].gen]
<1>1. link[s] \in Links /\ link[s].unsent \in Unsent /\ link[s].unsent # <<>> /\ link[s].gen \in 0 .. MaxGen
  BY DEF PopSignal, Shape, Links
<1>2. /\ Head(link[s].unsent) \in {"description", "candidates"}
      /\ Head(link[s].unsent) = "description" <=> link[s].unsent = Fresh
      /\ Tail(link[s].unsent) \in Unsent /\ Tail(link[s].unsent) # Fresh
  <2>1. <<"candidates">> # Fresh /\ <<>> # Fresh /\ Head(<<"candidates">>) = "candidates"
        /\ Tail(<<"candidates">>) = <<>> /\ Head(Fresh) = "description" /\ Tail(Fresh) = <<"candidates">>
    BY DEF Fresh
  <2> QED BY <1>1, <2>1 DEF Unsent, Fresh
<1>3. m \in Signals /\ m.gen = link[s].gen /\ (m.kind = "description" <=> link[s].unsent = Fresh)
  BY <1>1, <1>2 DEF Signals
<1>4. l \in Links /\ SameAgent(l, link[s]) /\ l.described = link[s].described /\ l.unsent # Fresh
  BY <1>1, <1>2 DEF Links, SameAgent
<1>5. link' = [link EXCEPT ![s] = l] /\ chan' = [chan EXCEPT ![Other(s)] = Append(@, m)]
  BY DEF PopSignal, Shape
<1> HIDE DEF l, m
<1>6. /\ link' \in [Sides -> Links] /\ link'[s] = l
      /\ Other(s) \in Sides /\ Pair(s, Other(s)) /\ link'[Other(s)] = link[Other(s)]
  BY <1>4, <1>5, OneSide
<1>7. s # Other(s)
  BY DEF Sides, Other
<1>8. /\ chan' \in [Sides -> Seq(Signals)]
      /\ chan'[Other(s)] = Append(chan[Other(s)], m) /\ chan'[s] = chan[s]
  BY <1>3, <1>5, <1>6, <1>7, AppendSignal DEF Shape
<1>9. Sends(s, Other(s))
  BY <1>3, <1>4, <1>6, <1>8 DEF Sends, PopSignal
<1> QED BY <1>6, <1>8, <1>9 DEF PopSignal, Shape

LEMMA LosesEffect ==
  ASSUME BoundsAssumption, Shape, NEW s \in Sides, LoseSignal(s)
  PROVE  Shape' /\ Loses(s, Other(s)) /\ Pair(s, Other(s)) /\ air' = air /\ link' = link
<1>1. Other(s) \in Sides /\ s # Other(s) /\ Pair(s, Other(s))
  BY DEF Sides, Other, Pair
<1>2. Head(chan[s]) \in Signals /\ Tail(chan[s]) \in Seq(Signals)
  BY TailSignal DEF Shape, LoseSignal, Dequeued
<1>3. /\ chan' \in [Sides -> Seq(Signals)]
      /\ chan'[s] = Tail(chan[s]) /\ chan'[Other(s)] = chan[Other(s)]
  BY <1>1, <1>2 DEF Shape, LoseSignal
<1>4. drops' \in 0 .. MaxDrops
  BY DEF Shape, LoseSignal, BoundsAssumption
<1> QED BY <1>1, <1>3, <1>4 DEF LoseSignal, Loses, Shape

LEMMA RestartsEffect ==
  ASSUME BoundsAssumption, Shape, Retry
  PROVE  Shape' /\ Restarts /\ air' \subseteq air
<1>1. /\ link["lo"] \in Links /\ "lo" \in Sides /\ "hi" = Other("lo")
      /\ link["lo"].gen + 1 \in 0 .. MaxGen /\ link["lo"].st = "open"
  BY DEF Shape, Sides, Retry, Links, BoundsAssumption, Open, Other
<1> DEFINE l == NewAgent(link["lo"], link["lo"].gen + 1)
<1>2. l \in Links /\ Renewed(l, link["lo"], link["lo"].gen + 1) /\ ~l.described
  BY <1>1, NewAgentFields
<1>3. link' = [link EXCEPT !["lo"] = l]
  BY DEF Retry, Regenerated
<1> HIDE DEF l
<1>4. link' \in [Sides -> Links] /\ link'["lo"] = l /\ link'["hi"] = link["hi"]
  BY <1>1, <1>2, <1>3, OneSide
<1>5. air' \subseteq air
  BY DEF Retry, Reachable
<1>6. missed' = (missed \/ link["lo"].unsent = Fresh) /\ missed' \in BOOLEAN
  BY DEF Retry, Fresh, Shape
<1> QED BY <1>2, <1>4, <1>5, <1>6 DEF Retry, Restarts, Shape

\* What OnSignal makes of an agent: nothing, a description, a new generation.
LEMMA FollowsCases ==
  ASSUME BoundsAssumption, NEW s \in Sides, NEW l \in Links, NEW sig \in Signals, l.st = "open"
  PROVE  LET a == Follows(s, l, sig) IN
         /\ a \in Links
         /\ \/ /\ a = l
               /\ \/ sig.kind = "candidates" \/ (sig.gen = l.gen /\ l.described)
                  \/ sig.gen # l.gen /\ (l.recent \/ s = "lo" \/ sig.gen # l.gen + 1)
            \/ /\ sig = Description(l.gen) /\ SameAgent(a, l) /\ a.unsent = l.unsent /\ a.described
            \/ /\ s = "hi" /\ sig = Description(l.gen + 1) /\ a.described
               /\ Renewed(a, l, l.gen + 1) /\ ~l.recent
<1> DEFINE a == Follows(s, l, sig)
           d == [l EXCEPT !.described = TRUE]
           n == NewAgent(l, sig.gen)
           e == [n EXCEPT !.described = TRUE]
<1>1. d \in Links /\ SameAgent(d, l) /\ d.unsent = l.unsent /\ d.described
  BY DEF Links, SameAgent
<1>2. n \in Links /\ Renewed(n, l, sig.gen) /\ ~n.described
  BY NewAgentFields DEF Signals
<1> HIDE DEF n
<1>3. e \in Links /\ Renewed(e, l, sig.gen) /\ e.described
  BY <1>2 DEF Links, Renewed
<1>4. sig.kind \in {"description", "candidates"} /\ sig = [kind |-> sig.kind, gen |-> sig.gen]
  BY DEF Signals
<1>5. CASE sig.gen = l.gen
  <2>1. a = IF sig.kind = "description" /\ ~l.described THEN d ELSE l
    BY <1>5 DEF Follows, AgentTakes
  <2> QED BY <1>1, <1>4, <1>5, <2>1 DEF Description
<1>6. CASE sig.gen # l.gen
  <2>1. CASE s = "hi" /\ sig.kind = "description" /\ sig.gen = l.gen + 1 /\ ~l.recent
    <3>1. a = e
      BY <1>2, <1>6, <2>1 DEF Follows, AgentTakes, n
    <3> QED BY <1>3, <1>4, <2>1, <3>1 DEF Description
  <2>2. CASE ~(s = "hi" /\ sig.kind = "description" /\ sig.gen = l.gen + 1 /\ ~l.recent)
    <3>1. a = l
      BY <1>6, <2>2, SMTT(30) DEF Follows
    <3> QED BY <1>4, <1>6, <2>2, <3>1 DEF Sides
  <2> QED BY <2>1, <2>2
<1> QED BY <1>5, <1>6

LEMMA ReadsEffect ==
  ASSUME BoundsAssumption, Shape, Untouched, NEW s \in Sides, OnSignal(s)
  PROVE  Shape' /\ Reads(s, Other(s)) /\ Pair(s, Other(s)) /\ air' \subseteq air
<1> DEFINE sig == Head(chan[s])
           l == IF link[s].st = "absent" /\ cloud /\ sig.kind = "description"
                THEN Admitted ELSE link[s]
           a == IF l.st = "open" THEN Follows(s, l, sig) ELSE l
<1>1. sig \in Signals /\ Tail(chan[s]) \in Seq(Signals) /\ chan[s] # <<>>
  BY TailSignal DEF OnSignal, Shape, Dequeued
<1>2. l \in Links /\ link[s] \in Links
  BY AbsentFields DEF Shape
<1>3. a \in Links
  BY <1>1, <1>2, FollowsCases
<1>4. /\ link' = [link EXCEPT ![s] = a]
      /\ missed' = (missed \/ (sig.kind = "description"
                                /\ (l.st # "open" \/ (sig.gen # l.gen /\ l.recent))))
      /\ missed' \in BOOLEAN
  BY SMTT(30) DEF OnSignal, Shape
<1>5. chan' = [chan EXCEPT ![s] = Tail(@)] /\ air' \subseteq air
  <2>1. chan' = [chan EXCEPT ![s] = Tail(@)] /\ air' = Reachable(link')
    BY ZenonT(30) DEF OnSignal
  <2> QED BY <2>1 DEF Reachable
<1>6. sig.kind \in {"description", "candidates"}
  BY <1>1, SMTT(30) DEF Signals
<1>7. Ignores(s, sig) \/ Takes(s, sig) \/ CatchesUp(s, sig) \/ Appears(s, sig)
  <2>1. link'[s] = a
    BY <1>3, <1>4, OneSide
  <2>2. CASE Open(s)
    <3>1. l = link[s] /\ a = Follows(s, link[s], sig) /\ link[s].st = "open"
      BY <2>2 DEF Open
    <3> HIDE DEF l, a, sig
    <3>2. \/ /\ a = link[s]
             /\ \/ sig.kind = "candidates" \/ (sig.gen = link[s].gen /\ link[s].described)
                \/ sig.gen # link[s].gen /\ (link[s].recent \/ s = "lo" \/ sig.gen # link[s].gen + 1)
          \/ /\ sig = Description(link[s].gen) /\ SameAgent(a, link[s]) /\ a.unsent = link[s].unsent
             /\ a.described
          \/ /\ s = "hi" /\ sig = Description(link[s].gen + 1) /\ a.described
             /\ Renewed(a, link[s], link[s].gen + 1) /\ ~link[s].recent
      BY <1>1, <1>2, <3>1, FollowsCases
    <3> QED BY <1>4, <1>6, <2>1, <2>2, <3>1, <3>2 DEF Ignores, Takes, CatchesUp
  <2>3. CASE ~Open(s) /\ ~(link[s].st = "absent" /\ cloud /\ sig.kind = "description")
    <3>1. a = link[s] /\ l = link[s] /\ l.st # "open"
      BY <2>3 DEF Open
    <3> QED BY <1>4, <1>6, <2>1, <3>1 DEF Ignores
  <2>4. CASE ~Open(s) /\ link[s].st = "absent" /\ cloud /\ sig.kind = "description"
    <3>1. l = Admitted /\ link[s].sec = "Idle"
      BY <2>4, AbsentFields DEF Untouched, Silent, Sides
    <3>2. a = Follows(s, Admitted, sig)
      BY <3>1, AbsentFields
    <3> HIDE DEF l, a, sig
    <3>3. \/ /\ a = Admitted
             /\ \/ sig.kind = "candidates" \/ (sig.gen = 0 /\ Admitted.described)
                \/ sig.gen # 0 /\ (Admitted.recent \/ s = "lo" \/ sig.gen # 0 + 1)
          \/ /\ sig = Description(0) /\ SameAgent(a, Admitted) /\ a.unsent = Admitted.unsent
             /\ a.described
          \/ ~Admitted.recent
      BY <1>1, <3>2, FollowsCases, AbsentFields
    <3>4. Renewed(a, link[s], 0)
      BY <3>1, <3>3, AbsentFields DEF Renewed, SameAgent
    <3>5. \/ sig = Description(0) /\ a.described
          \/ sig.gen # 0 /\ ~a.described
      BY <2>4, <3>3, AbsentFields
    <3> QED BY <1>4, <2>1, <2>4, <3>1, <3>4, <3>5, AbsentFields DEF Appears
  <2> QED BY SMTT(30), <2>2, <2>3, <2>4
<1> HIDE DEF a, l
<1>8. /\ link' \in [Sides -> Links]
      /\ Other(s) \in Sides /\ Pair(s, Other(s)) /\ link'[Other(s)] = link[Other(s)]
  BY <1>3, <1>4, OneSide
<1>9. s # Other(s)
  BY DEF Sides, Other
<1>10. /\ chan' \in [Sides -> Seq(Signals)]
       /\ chan'[s] = Tail(chan[s]) /\ chan'[Other(s)] = chan[Other(s)]
  BY <1>1, <1>5, <1>8, <1>9 DEF Shape
<1>11. Reads(s, Other(s))
  BY <1>1, <1>4, <1>7, <1>8, <1>10 DEF Reads
<1> QED BY <1>4, <1>5, <1>8, <1>10, <1>11 DEF OnSignal, Shape

\* The connection and what runs over it leave the signals and generations alone.
LEMMA QuietEffect ==
  ASSUME BoundsAssumption, Shape, NEW s \in Sides, NEW l \in Links, Open(s),
         link' = [link EXCEPT ![s] = l],
         l.st = link[s].st, l.gen = link[s].gen, l.unsent = link[s].unsent,
         l.described = link[s].described, chan' = chan, missed' = missed, cloud' = cloud,
         air' \subseteq Packets, drops' \in 0 .. MaxDrops
  PROVE  Shape' /\ Quiet
<1>1. /\ link' \in [Sides -> Links] /\ link'[s] = l
      /\ Other(s) \in Sides /\ Pair(s, Other(s)) /\ link'[Other(s)] = link[Other(s)]
  BY OneSide
<1>2. ASSUME NEW t \in Sides
      PROVE  /\ link'[t].st = link[t].st /\ link'[t].gen = link[t].gen
             /\ link'[t].unsent = link[t].unsent /\ link'[t].described = link[t].described
             /\ link[t].st = "absent" => link'[t] = link[t]
  <2>1. t = s \/ t = Other(s)
    BY DEF Sides, Other
  <2> QED BY <1>1, <2>1 DEF Open
<1> QED BY <1>1, <1>2 DEF Quiet, Shape

\* The steps that touch neither the exchange of keys nor the packets.
Still == Quiet /\ air' = air /\ \A s \in Sides : link'[s].sec = link[s].sec
EchoKept(s) ==
  \/ link'[s].echo = link[s].echo /\ link'[s].echoGen = link[s].echoGen
  \/ link'[s].echo => link'[s].echoGen = link'[s].gen

LEMMA StillEffect ==
  ASSUME BoundsAssumption, Shape, NEW s \in Sides,
         Connect(s) \/ Drop(s) \/ RoundTrip(s) \/ Age(s) \/ EchoExpires(s)
  PROVE  Shape' /\ Still /\ \A t \in Sides : EchoKept(t)
<1>1. link[s] \in Links /\ Open(s)
  BY DEF Shape, Connect, Drop, RoundTrip, Age, EchoExpires
<1>2. PICK l \in Links :
        /\ link' = [link EXCEPT ![s] = l]
        /\ l.st = link[s].st /\ l.gen = link[s].gen /\ l.unsent = link[s].unsent
        /\ l.described = link[s].described /\ l.sec = link[s].sec
        /\ \/ l.echo = link[s].echo /\ l.echoGen = link[s].echoGen
           \/ l.echo => l.echoGen = l.gen
  <2>1. CASE Connect(s)
    <3> DEFINE l == [link[s] EXCEPT !.connected = TRUE]
    <3>1. /\ l \in Links /\ l.st = link[s].st /\ l.gen = link[s].gen /\ l.unsent = link[s].unsent
          /\ l.described = link[s].described /\ l.sec = link[s].sec
          /\ l.echo = link[s].echo /\ l.echoGen = link[s].echoGen
      BY <1>1 DEF Links
    <3>2. link' = [link EXCEPT ![s] = l]
      BY <2>1, <1>1 DEF Connect, Shape
    <3> HIDE DEF l
    <3> QED BY <3>1, <3>2
  <2>2. CASE Drop(s)
    <3> DEFINE l == [link[s] EXCEPT !.connected = FALSE]
    <3>1. /\ l \in Links /\ l.st = link[s].st /\ l.gen = link[s].gen /\ l.unsent = link[s].unsent
          /\ l.described = link[s].described /\ l.sec = link[s].sec
          /\ l.echo = link[s].echo /\ l.echoGen = link[s].echoGen
      BY <1>1 DEF Links
    <3>2. link' = [link EXCEPT ![s] = l]
      BY <2>2, <1>1 DEF Drop, Shape
    <3> HIDE DEF l
    <3> QED BY <3>1, <3>2
  <2>3. CASE RoundTrip(s)
    <3> DEFINE l == [link[s] EXCEPT !.echo = TRUE, !.echoGen = link[s].gen]
    <3>1. /\ l \in Links /\ l.st = link[s].st /\ l.gen = link[s].gen /\ l.unsent = link[s].unsent
          /\ l.described = link[s].described /\ l.sec = link[s].sec
          /\ l.echoGen = l.gen
      BY <1>1 DEF Links
    <3>2. link' = [link EXCEPT ![s] = l]
      BY <2>3, <1>1 DEF RoundTrip, Shape
    <3> HIDE DEF l
    <3> QED BY <3>1, <3>2
  <2>4. CASE Age(s)
    <3> DEFINE l == [link[s] EXCEPT !.recent = FALSE]
    <3>1. /\ l \in Links /\ l.st = link[s].st /\ l.gen = link[s].gen /\ l.unsent = link[s].unsent
          /\ l.described = link[s].described /\ l.sec = link[s].sec
          /\ l.echo = link[s].echo /\ l.echoGen = link[s].echoGen
      BY <1>1 DEF Links
    <3>2. link' = [link EXCEPT ![s] = l]
      BY <2>4, <1>1 DEF Age, Shape
    <3> HIDE DEF l
    <3> QED BY <3>1, <3>2
  <2>5. CASE EchoExpires(s)
    <3> DEFINE l == [link[s] EXCEPT !.echo = FALSE]
    <3>1. /\ l \in Links /\ l.st = link[s].st /\ l.gen = link[s].gen /\ l.unsent = link[s].unsent
          /\ l.described = link[s].described /\ l.sec = link[s].sec
          /\ ~l.echo
      BY <1>1 DEF Links
    <3>2. link' = [link EXCEPT ![s] = l]
      BY <2>5, <1>1 DEF EchoExpires, Shape
    <3> HIDE DEF l
    <3> QED BY <3>1, <3>2
  <2> QED BY <2>1, <2>2, <2>3, <2>4, <2>5
<1>3. /\ chan' = chan /\ missed' = missed /\ cloud' = cloud /\ air' = air
      /\ air' \subseteq Packets /\ drops' \in 0 .. MaxDrops
  BY DEF Connect, Drop, RoundTrip, Age, EchoExpires, Shape, BoundsAssumption
<1>4. Shape' /\ Quiet
  BY <1>1, <1>2, <1>3, QuietEffect
<1>5. /\ link'[s] = l
      /\ Other(s) \in Sides /\ Pair(s, Other(s)) /\ link'[Other(s)] = link[Other(s)]
  BY <1>2, OneSide
<1>6. \A t \in Sides : t = s \/ t = Other(s)
  BY DEF Sides, Other
<1> QED BY <1>2, <1>3, <1>4, <1>5, <1>6 DEF Still, EchoKept

\* A step of the exchange: one end moves, and packets may go to the other.
Moves(s, sec, kinds) ==
  /\ Open(s) /\ link'[s].sec = sec /\ link'[Other(s)].sec = link[Other(s)].sec
  /\ \A p \in air' : p \in air \/ (p.to = Other(s) /\ p.kind \in kinds)

LEMMA MovesEffect ==
  ASSUME BoundsAssumption, Shape, NEW s \in Sides, NEW sec \in SecureStates,
         NEW kinds \in SUBSET {"hello", "serverHello", "finish"},
         Open(s), link' = [link EXCEPT ![s].sec = sec],
         Send(s, kinds) \/ Send(s, {}),
         UNCHANGED <<cloud, chan, drops, missed>>
  PROVE  Shape' /\ Quiet /\ Moves(s, sec, kinds) /\ \A t \in Sides : EchoKept(t)
<1> DEFINE l == [link[s] EXCEPT !.sec = sec]
<1>1. /\ l \in Links /\ l.st = link[s].st /\ l.gen = link[s].gen /\ l.unsent = link[s].unsent
      /\ l.described = link[s].described /\ l.sec = sec
      /\ l.echo = link[s].echo /\ l.echoGen = link[s].echoGen
  BY ZenonT(30) DEF Links, Shape
<1>2. link' = [link EXCEPT ![s] = l]
  BY DEF Shape
<1> HIDE DEF l
<1>3. /\ link' \in [Sides -> Links] /\ link'[s] = l
      /\ Other(s) \in Sides /\ Pair(s, Other(s)) /\ link'[Other(s)] = link[Other(s)]
  BY <1>1, <1>2, OneSide
<1>4. link[s].gen \in 0 .. MaxGen
  BY DEF Shape, Links
<1>5. /\ air' \subseteq Packets
      /\ \A p \in air' : p \in air \/ (p.to = Other(s) /\ p.kind \in kinds)
  BY <1>3, <1>4 DEF Send, Packets, Shape
<1>6. chan' = chan /\ missed' = missed /\ cloud' = cloud /\ drops' \in 0 .. MaxDrops
  BY DEF Shape
<1>7. Shape' /\ Quiet
  BY <1>1, <1>2, <1>5, <1>6, QuietEffect
<1>8. \A t \in Sides : t = s \/ t = Other(s)
  BY DEF Sides, Other
<1> QED BY <1>1, <1>3, <1>5, <1>7, <1>8 DEF Moves, EchoKept
-----------------------------------------------------------------------------
(* The signals under each of the steps. *)

\* Nothing of it changes.
LEMMA QuietKeeps ==
  ASSUME Shape, Shape', Untouched, Signalling,
         Quiet
  PROVE  Untouched' /\ Signalling'
<1>1. /\ Untouched /\ Lead /\ Unspoken("lo", "hi") /\ Unspoken("hi", "lo") /\ Answered
      /\ Comes("lo", "hi") /\ Comes("hi", "lo") /\ Climbs(chan["hi"]) /\ Reach
  BY DEF Signalling
<1>2. /\ link["lo"] \in Links /\ link["hi"] \in Links /\ link'["lo"] \in Links /\ link'["hi"] \in Links
      /\ link["lo"].gen \in Nat /\ link["hi"].gen \in Nat /\ missed \in BOOLEAN /\ missed' \in BOOLEAN
      /\ link'["lo"].gen \in Nat /\ link'["hi"].gen \in Nat
      /\ chan["lo"] \in Seq(Signals) /\ chan["hi"] \in Seq(Signals)
  BY SMTT(30) DEF Shape, Sides, Links
<1>3. /\ link'["lo"].st = link["lo"].st /\ link'["lo"].gen = link["lo"].gen
      /\ link'["lo"].unsent = link["lo"].unsent /\ link'["lo"].described = link["lo"].described
      /\ link'["hi"].st = link["hi"].st /\ link'["hi"].gen = link["hi"].gen
      /\ link'["hi"].unsent = link["hi"].unsent /\ link'["hi"].described = link["hi"].described
      /\ link["lo"].st = "absent" => link'["lo"] = link["lo"]
      /\ link["hi"].st = "absent" => link'["hi"] = link["hi"]
      /\ chan' = chan /\ missed' = missed
  BY DEF Quiet, Sides
<1>4. Untouched'
  BY <1>1, <1>3 DEF Untouched, Silent, Open, Other
<1>5. Lead'
  BY <1>1, <1>3 DEF Lead, Open
<1>6. Unspoken("lo", "hi")'
  BY <1>1, <1>3 DEF Unspoken, Lead, Answered, Open
<1>7. Unspoken("hi", "lo")'
  BY <1>1, <1>3 DEF Unspoken, Lead, Answered, Open
<1>8. Answered'
  BY <1>1, <1>3 DEF Answered, Lead, Open
<1>9. Comes("lo", "hi")'
  BY <1>1, <1>3 DEF Comes, Waits, Lead, Open
<1>10. Comes("hi", "lo")'
  BY <1>1, <1>3 DEF Comes, Waits, Lead, Open
<1>11. Climbs(chan["hi"])'
  BY <1>1, <1>3
<1>12. Reach'
  BY <1>1, <1>3 DEF Reach, Ahead, Lead, Open
<1> QED BY <1>4, <1>5, <1>6, <1>7, <1>8, <1>9, <1>10, <1>11, <1>12 DEF Signalling

\* A new player has said nothing.
LEMMA JoinsKeeps ==
  ASSUME Shape, Shape', Untouched, Signalling,
         NEW s \in Sides, NEW o \in Sides, Pair(s, o), Joins(s, o)
  PROVE  Untouched' /\ Signalling'
<1>1. /\ Untouched /\ Lead /\ Unspoken("lo", "hi") /\ Unspoken("hi", "lo") /\ Answered
      /\ Comes("lo", "hi") /\ Comes("hi", "lo") /\ Climbs(chan["hi"]) /\ Reach
  BY DEF Signalling
<1>2. /\ link["lo"] \in Links /\ link["hi"] \in Links /\ link'["lo"] \in Links /\ link'["hi"] \in Links
      /\ link["lo"].gen \in Nat /\ link["hi"].gen \in Nat /\ missed \in BOOLEAN /\ missed' \in BOOLEAN
      /\ link'["lo"].gen \in Nat /\ link'["hi"].gen \in Nat
      /\ chan["lo"] \in Seq(Signals) /\ chan["hi"] \in Seq(Signals)
  BY SMTT(30) DEF Shape, Sides, Links
<1>3. /\ \A g : ~Carries(<<>>, g)
      /\ \A g : AtMost(<<>>, g)
      /\ Absent.gen = 0 /\ Absent.unsent = <<>> /\ <<>> # Fresh
  BY DEF Carries, AtMost, Absent, Fresh
<1>4. CASE s = "lo" /\ o = "hi"
  <2>1. /\ link["lo"].st = "absent" /\ chan["hi"] = <<>> /\ ~link["hi"].described
        /\ link'["lo"].st = "open" /\ link'["lo"].gen = 0 /\ link'["lo"].unsent = Fresh
        /\ ~link'["lo"].described
        /\ link'["hi"] = link["hi"] /\ chan' = chan /\ missed' = missed
        /\ link["lo"].gen = 0 /\ link["lo"].unsent # Fresh
    BY <1>4, <1>1, <1>3 DEF Untouched, Silent, Joins, Renewed, Other
  <2>2. Untouched'
    BY <1>1, <1>2, <1>3, <2>1 DEF Untouched, Silent, Open, Other
  <2>3. Lead'
    BY <1>1, <1>2, <1>3, <2>1 DEF Lead, Open
  <2>4. Unspoken("lo", "hi")'
    BY <1>1, <1>2, <1>3, <2>1 DEF Unspoken, Lead, Answered, Open
  <2>5. Unspoken("hi", "lo")'
    BY <1>1, <1>2, <1>3, <2>1 DEF Unspoken, Lead, Answered, Open
  <2>6. Answered'
    BY <1>1, <1>2, <1>3, <2>1 DEF Answered, Lead, Open
  <2>7. Comes("lo", "hi")'
    BY <1>1, <1>2, <1>3, <2>1 DEF Comes, Waits, Lead, Open
  <2>8. Comes("hi", "lo")'
    BY <1>1, <1>2, <1>3, <2>1 DEF Comes, Waits, Lead, Open
  <2>9. Climbs(chan["hi"])'
    BY <1>1, <1>2, <1>3, <2>1
  <2>10. Reach'
    BY <1>1, <1>2, <1>3, <2>1 DEF Reach, Ahead, Lead, Open
  <2> QED BY <2>2, <2>3, <2>4, <2>5, <2>6, <2>7, <2>8, <2>9, <2>10 DEF Signalling
<1>5. CASE s = "hi" /\ o = "lo"
  <2>1. /\ link["hi"].st = "absent" /\ chan["lo"] = <<>> /\ ~link["lo"].described
        /\ link'["hi"].st = "open" /\ link'["hi"].gen = 0 /\ link'["hi"].unsent = Fresh
        /\ ~link'["hi"].described
        /\ link'["lo"] = link["lo"] /\ chan' = chan /\ missed' = missed
        /\ link["hi"].gen = 0 /\ link["hi"].unsent # Fresh
    BY <1>5, <1>1, <1>3 DEF Untouched, Silent, Joins, Renewed, Other
  <2>2. Untouched'
    BY <1>1, <1>2, <1>3, <2>1 DEF Untouched, Silent, Open, Other
  <2>3. Lead'
    BY <1>1, <1>2, <1>3, <2>1 DEF Lead, Open
  <2>4. Unspoken("lo", "hi")'
    BY <1>1, <1>2, <1>3, <2>1 DEF Unspoken, Lead, Answered, Open
  <2>5. Unspoken("hi", "lo")'
    BY <1>1, <1>2, <1>3, <2>1 DEF Unspoken, Lead, Answered, Open
  <2>6. Answered'
    BY <1>1, <1>2, <1>3, <2>1 DEF Answered, Lead, Open
  <2>7. Comes("lo", "hi")'
    BY <1>1, <1>2, <1>3, <2>1 DEF Comes, Waits, Lead, Open
  <2>8. Comes("hi", "lo")'
    BY <1>1, <1>2, <1>3, <2>1 DEF Comes, Waits, Lead, Open
  <2>9. Climbs(chan["hi"])'
    BY <1>1, <1>2, <1>3, <2>1
  <2>10. Reach'
    BY <1>1, <1>2, <1>3, <2>1 DEF Reach, Ahead, Lead, Open
  <2> QED BY <2>2, <2>3, <2>4, <2>5, <2>6, <2>7, <2>8, <2>9, <2>10 DEF Signalling
<1> QED BY <1>4, <1>5 DEF Pair

\* A player that is gone is asked for nothing.
LEMMA GoesKeeps ==
  ASSUME Shape, Shape', Untouched, Signalling,
         NEW s \in Sides, NEW o \in Sides, Pair(s, o), Goes(s, o)
  PROVE  Untouched' /\ Signalling'
<1>1. /\ Untouched /\ Lead /\ Unspoken("lo", "hi") /\ Unspoken("hi", "lo") /\ Answered
      /\ Comes("lo", "hi") /\ Comes("hi", "lo") /\ Climbs(chan["hi"]) /\ Reach
  BY DEF Signalling
<1>2. /\ link["lo"] \in Links /\ link["hi"] \in Links /\ link'["lo"] \in Links /\ link'["hi"] \in Links
      /\ link["lo"].gen \in Nat /\ link["hi"].gen \in Nat /\ missed \in BOOLEAN /\ missed' \in BOOLEAN
      /\ link'["lo"].gen \in Nat /\ link'["hi"].gen \in Nat
      /\ chan["lo"] \in Seq(Signals) /\ chan["hi"] \in Seq(Signals)
  BY SMTT(30) DEF Shape, Sides, Links
<1>3. /\ \A g : ~Carries(<<>>, g)
      /\ \A g : AtMost(<<>>, g)
      /\ Absent.gen = 0 /\ Absent.unsent = <<>> /\ <<>> # Fresh
  BY DEF Carries, AtMost, Absent, Fresh
<1>4. CASE s = "lo" /\ o = "hi"
  <2>1. /\ link["lo"].st = "open" /\ link'["lo"].st = "gone" /\ link'["lo"].gen = 0
        /\ ~link'["lo"].described
        /\ link'["hi"] = link["hi"] /\ chan' = chan /\ missed' = missed
    BY <1>4 DEF Goes, Open
  <2>2. Untouched'
    BY <1>1, <1>2, <1>3, <2>1 DEF Untouched, Silent, Open, Other
  <2>3. Lead'
    BY <1>1, <1>2, <1>3, <2>1 DEF Lead, Open
  <2>4. Unspoken("lo", "hi")'
    BY <1>1, <1>2, <1>3, <2>1 DEF Unspoken, Lead, Answered, Open
  <2>5. Unspoken("hi", "lo")'
    BY <1>1, <1>2, <1>3, <2>1 DEF Unspoken, Lead, Answered, Open
  <2>6. Answered'
    BY <1>1, <1>2, <1>3, <2>1 DEF Answered, Lead, Open
  <2>7. Comes("lo", "hi")'
    BY <1>1, <1>2, <1>3, <2>1 DEF Comes, Waits, Lead, Open
  <2>8. Comes("hi", "lo")'
    BY <1>1, <1>2, <1>3, <2>1 DEF Comes, Waits, Lead, Open
  <2>9. Climbs(chan["hi"])'
    BY <1>1, <1>2, <1>3, <2>1
  <2>10. Reach'
    BY <1>1, <1>2, <1>3, <2>1 DEF Reach, Ahead, Lead, Open
  <2> QED BY <2>2, <2>3, <2>4, <2>5, <2>6, <2>7, <2>8, <2>9, <2>10 DEF Signalling
<1>5. CASE s = "hi" /\ o = "lo"
  <2>1. /\ link["hi"].st = "open" /\ link'["hi"].st = "gone" /\ link'["hi"].gen = 0
        /\ ~link'["hi"].described
        /\ link'["lo"] = link["lo"] /\ chan' = chan /\ missed' = missed
    BY <1>5 DEF Goes, Open
  <2>2. Untouched'
    BY <1>1, <1>2, <1>3, <2>1 DEF Untouched, Silent, Open, Other
  <2>3. Lead'
    BY <1>1, <1>2, <1>3, <2>1 DEF Lead, Open
  <2>4. Unspoken("lo", "hi")'
    BY <1>1, <1>2, <1>3, <2>1 DEF Unspoken, Lead, Answered, Open
  <2>5. Unspoken("hi", "lo")'
    BY <1>1, <1>2, <1>3, <2>1 DEF Unspoken, Lead, Answered, Open
  <2>6. Answered'
    BY <1>1, <1>2, <1>3, <2>1 DEF Answered, Lead, Open
  <2>7. Comes("lo", "hi")'
    BY <1>1, <1>2, <1>3, <2>1 DEF Comes, Waits, Lead, Open
  <2>8. Comes("hi", "lo")'
    BY <1>1, <1>2, <1>3, <2>1 DEF Comes, Waits, Lead, Open
  <2>9. Climbs(chan["hi"])'
    BY <1>1, <1>2, <1>3, <2>1
  <2>10. Reach'
    BY <1>1, <1>2, <1>3, <2>1 DEF Reach, Ahead, Lead, Open
  <2> QED BY <2>2, <2>3, <2>4, <2>5, <2>6, <2>7, <2>8, <2>9, <2>10 DEF Signalling
<1> QED BY <1>4, <1>5 DEF Pair

\* Nobody has heard of the new generation.
LEMMA RestartsKeeps ==
  ASSUME Shape, Shape', Untouched, Signalling,
         Restarts
  PROVE  Untouched' /\ Signalling'
<1>1. /\ Untouched /\ Lead /\ Unspoken("lo", "hi") /\ Unspoken("hi", "lo") /\ Answered
      /\ Comes("lo", "hi") /\ Comes("hi", "lo") /\ Climbs(chan["hi"]) /\ Reach
  BY DEF Signalling
<1>2. /\ link["lo"] \in Links /\ link["hi"] \in Links /\ link'["lo"] \in Links /\ link'["hi"] \in Links
      /\ link["lo"].gen \in Nat /\ link["hi"].gen \in Nat /\ missed \in BOOLEAN /\ missed' \in BOOLEAN
      /\ link'["lo"].gen \in Nat /\ link'["hi"].gen \in Nat
      /\ chan["lo"] \in Seq(Signals) /\ chan["hi"] \in Seq(Signals)
  BY SMTT(30) DEF Shape, Sides, Links
<1>3. /\ \A g : ~Carries(<<>>, g)
      /\ \A g : AtMost(<<>>, g)
      /\ Absent.gen = 0 /\ Absent.unsent = <<>> /\ <<>> # Fresh
  BY DEF Carries, AtMost, Absent, Fresh
<1>4. AtMost(chan["hi"], link["lo"].gen) => /\ AtMost(chan["hi"], link["lo"].gen + 1)
                                            /\ ~Carries(chan["hi"], link["lo"].gen + 1)
  BY <1>2, AtMostLater
<1>5. /\ link["lo"].st = "open" /\ link'["lo"].st = "open" /\ link'["lo"].gen = link["lo"].gen + 1
      /\ link'["lo"].unsent = Fresh /\ ~link'["lo"].described
      /\ link'["hi"] = link["hi"] /\ chan' = chan
      /\ missed' = (missed \/ link["lo"].unsent = Fresh)
  BY DEF Restarts, Renewed, Open
<1>6. Untouched'
  BY <1>1, <1>2, <1>3, <1>4, <1>5 DEF Untouched, Silent, Open, Other
<1>7. Lead'
  BY <1>1, <1>2, <1>3, <1>4, <1>5 DEF Lead, Open
<1>8. Unspoken("lo", "hi")'
  BY <1>1, <1>2, <1>3, <1>4, <1>5 DEF Unspoken, Lead, Answered, Open
<1>9. Unspoken("hi", "lo")'
  BY <1>1, <1>2, <1>3, <1>4, <1>5 DEF Unspoken, Lead, Answered, Open
<1>10. Answered'
  BY <1>1, <1>2, <1>3, <1>4, <1>5 DEF Answered, Lead, Open
<1>11. Comes("lo", "hi")'
  BY <1>1, <1>2, <1>3, <1>4, <1>5 DEF Comes, Waits, Lead, Open
<1>12. Comes("hi", "lo")'
  BY <1>1, <1>2, <1>3, <1>4, <1>5 DEF Comes, Waits, Lead, Open
<1>13. Climbs(chan["hi"])'
  BY <1>1, <1>2, <1>3, <1>4, <1>5
<1>14. Reach'
  <2> SUFFICES ASSUME ~missed', link["hi"].st # "gone", NEW g \in 0 .. link["lo"].gen + 1, Ahead(g)
               PROVE  \/ g = link["lo"].gen + 1
                      \/ Carries(chan["hi"], g)
    BY <1>5 DEF Reach, Ahead, Open
  <2>1. CASE g = link["lo"].gen + 1
    BY <2>1
  <2>2. CASE g \in 0 .. link["lo"].gen
    BY <1>1, <1>5, <2>2 DEF Reach, Open
  <2> QED BY <1>2, <2>1, <2>2
<1> QED BY <1>6, <1>7, <1>8, <1>9, <1>10, <1>11, <1>12, <1>13, <1>14 DEF Signalling

\* A signal leaves: it joins the others, the description before the candidates.
LEMMA SendsKeeps ==
  ASSUME Shape, Shape', Untouched, Signalling,
         NEW s \in Sides, NEW o \in Sides, Pair(s, o), Sends(s, o)
  PROVE  Untouched' /\ Signalling'
<1>1. /\ Untouched /\ Lead /\ Unspoken("lo", "hi") /\ Unspoken("hi", "lo") /\ Answered
      /\ Comes("lo", "hi") /\ Comes("hi", "lo") /\ Climbs(chan["hi"]) /\ Reach
  BY DEF Signalling
<1>2. /\ link["lo"] \in Links /\ link["hi"] \in Links /\ link'["lo"] \in Links /\ link'["hi"] \in Links
      /\ link["lo"].gen \in Nat /\ link["hi"].gen \in Nat /\ missed \in BOOLEAN /\ missed' \in BOOLEAN
      /\ link'["lo"].gen \in Nat /\ link'["hi"].gen \in Nat
      /\ chan["lo"] \in Seq(Signals) /\ chan["hi"] \in Seq(Signals)
  BY SMTT(30) DEF Shape, Sides, Links
<1>3. /\ \A g : ~Carries(<<>>, g)
      /\ \A g : AtMost(<<>>, g)
      /\ Absent.gen = 0 /\ Absent.unsent = <<>> /\ <<>> # Fresh
      /\ \A g : Description(g).gen = g /\ Description(g).kind = "description"
  BY DEF Carries, AtMost, Absent, Fresh, Description
<1>4. CASE s = "lo" /\ o = "hi"
  <2>1. PICK m \in Signals :
          /\ m.gen = link["lo"].gen
          /\ m.kind = "description" <=> link["lo"].unsent = Fresh
          /\ chan'["hi"] = Append(chan["hi"], m)
    BY <1>4 DEF Sends
  <2>2. /\ link["lo"].st = "open" /\ link'["lo"].st = "open"
        /\ link'["lo"].gen = link["lo"].gen
        /\ link'["lo"].described = link["lo"].described /\ link'["lo"].unsent # Fresh
        /\ link'["hi"] = link["hi"] /\ chan'["lo"] = chan["lo"] /\ missed' = missed
    BY <1>4 DEF Sends, SameAgent, Open
  <2>3. m.kind = "description" => m = Description(m.gen)
    BY DEF Signals, Description
  <2>4. /\ \A g : Carries(chan'["hi"], g) <=> (Carries(chan["hi"], g) \/ m = Description(g))
        /\ AtMost(chan["hi"], link["lo"].gen) => AtMost(chan'["hi"], link["lo"].gen)
    BY <1>2, <2>1, AppendSignal
  <2>5. Untouched'
    BY <1>1, <1>2, <1>3, <2>1, <2>2, <2>3, <2>4 DEF Untouched, Silent, Open, Other
  <2>6. Lead'
    BY <1>1, <1>2, <1>3, <2>1, <2>2, <2>3, <2>4 DEF Lead, Open
  <2>7. Unspoken("lo", "hi")'
    BY <1>1, <1>2, <1>3, <2>1, <2>2, <2>3, <2>4 DEF Unspoken, Lead, Answered, Open
  <2>8. Unspoken("hi", "lo")'
    BY <1>1, <1>2, <1>3, <2>1, <2>2, <2>3, <2>4 DEF Unspoken, Lead, Answered, Open
  <2>9. Answered'
    BY <1>1, <1>2, <1>3, <2>1, <2>2, <2>3, <2>4 DEF Answered, Lead, Open
  <2>10. Comes("lo", "hi")'
    BY <1>1, <1>2, <1>3, <2>1, <2>2, <2>3, <2>4 DEF Comes, Waits, Lead, Open
  <2>11. Comes("hi", "lo")'
    BY <1>1, <1>2, <1>3, <2>1, <2>2, <2>3, <2>4 DEF Comes, Waits, Lead, Open
  <2>12. Climbs(chan["hi"])'
    <3>1. /\ AtMost(chan["hi"], m.gen)
          /\ m.kind = "description" => ~Carries(chan["hi"], m.gen)
      BY <1>1, <2>1, <2>2 DEF Lead, Unspoken, Open
    <3> QED BY <1>1, <1>2, <2>1, <3>1, AppendClimbs
  <2>13. Reach'
    BY <1>1, <1>2, <1>3, <2>1, <2>2, <2>3, <2>4 DEF Reach, Ahead, Lead, Open
  <2> QED BY <2>5, <2>6, <2>7, <2>8, <2>9, <2>10, <2>11, <2>12, <2>13 DEF Signalling
<1>5. CASE s = "hi" /\ o = "lo"
  <2>1. PICK m \in Signals :
          /\ m.gen = link["hi"].gen
          /\ m.kind = "description" <=> link["hi"].unsent = Fresh
          /\ chan'["lo"] = Append(chan["lo"], m)
    BY <1>5 DEF Sends
  <2>2. /\ link["hi"].st = "open" /\ link'["hi"].st = "open"
        /\ link'["hi"].gen = link["hi"].gen
        /\ link'["hi"].described = link["hi"].described /\ link'["hi"].unsent # Fresh
        /\ link'["lo"] = link["lo"] /\ chan'["hi"] = chan["hi"] /\ missed' = missed
    BY <1>5 DEF Sends, SameAgent, Open
  <2>3. m.kind = "description" => m = Description(m.gen)
    BY DEF Signals, Description
  <2>4. /\ \A g : Carries(chan'["lo"], g) <=> (Carries(chan["lo"], g) \/ m = Description(g))
        /\ AtMost(chan["lo"], link["hi"].gen) => AtMost(chan'["lo"], link["hi"].gen)
    BY <1>2, <2>1, AppendSignal
  <2>5. Untouched'
    BY <1>1, <1>2, <1>3, <2>1, <2>2, <2>3, <2>4 DEF Untouched, Silent, Open, Other
  <2>6. Lead'
    BY <1>1, <1>2, <1>3, <2>1, <2>2, <2>3, <2>4 DEF Lead, Open
  <2>7. Unspoken("lo", "hi")'
    BY <1>1, <1>2, <1>3, <2>1, <2>2, <2>3, <2>4 DEF Unspoken, Lead, Answered, Open
  <2>8. Unspoken("hi", "lo")'
    BY <1>1, <1>2, <1>3, <2>1, <2>2, <2>3, <2>4 DEF Unspoken, Lead, Answered, Open
  <2>9. Answered'
    BY <1>1, <1>2, <1>3, <2>1, <2>2, <2>3, <2>4 DEF Answered, Lead, Open
  <2>10. Comes("lo", "hi")'
    BY <1>1, <1>2, <1>3, <2>1, <2>2, <2>3, <2>4 DEF Comes, Waits, Lead, Open
  <2>11. Comes("hi", "lo")'
    BY <1>1, <1>2, <1>3, <2>1, <2>2, <2>3, <2>4 DEF Comes, Waits, Lead, Open
  <2>12. Climbs(chan["hi"])'
    BY <1>1, <1>2, <1>3, <2>1, <2>2, <2>3, <2>4
  <2>13. Reach'
    BY <1>1, <1>2, <1>3, <2>1, <2>2, <2>3, <2>4 DEF Reach, Ahead, Lead, Open
  <2> QED BY <2>5, <2>6, <2>7, <2>8, <2>9, <2>10, <2>11, <2>12, <2>13 DEF Signalling
<1> QED BY <1>4, <1>5 DEF Pair

\* A lost signal reaches nobody.
LEMMA LosesKeeps ==
  ASSUME Shape, Shape', Untouched, Signalling,
         NEW s \in Sides, NEW o \in Sides, Pair(s, o), Loses(s, o)
  PROVE  Untouched' /\ Signalling'
<1>1. /\ Untouched /\ Lead /\ Unspoken("lo", "hi") /\ Unspoken("hi", "lo") /\ Answered
      /\ Comes("lo", "hi") /\ Comes("hi", "lo") /\ Climbs(chan["hi"]) /\ Reach
  BY DEF Signalling
<1>2. /\ link["lo"] \in Links /\ link["hi"] \in Links /\ link'["lo"] \in Links /\ link'["hi"] \in Links
      /\ link["lo"].gen \in Nat /\ link["hi"].gen \in Nat /\ missed \in BOOLEAN /\ missed' \in BOOLEAN
      /\ link'["lo"].gen \in Nat /\ link'["hi"].gen \in Nat
      /\ chan["lo"] \in Seq(Signals) /\ chan["hi"] \in Seq(Signals)
  BY SMTT(30) DEF Shape, Sides, Links
<1>3. /\ \A g : ~Carries(<<>>, g)
      /\ \A g : AtMost(<<>>, g)
      /\ Absent.gen = 0 /\ Absent.unsent = <<>> /\ <<>> # Fresh
      /\ \A g : Description(g).gen = g /\ Description(g).kind = "description"
  BY DEF Carries, AtMost, Absent, Fresh, Description
<1>4. CASE s = "lo" /\ o = "hi"
  <2>1. /\ chan["lo"] # <<>> /\ chan'["lo"] = Tail(chan["lo"]) /\ chan'["hi"] = chan["hi"]
        /\ link' = link
        /\ missed' = (missed \/ Head(chan["lo"]).kind = "description")
    BY <1>4 DEF Loses
  <2> DEFINE q == chan["lo"]
  <2>a. /\ \A g : Carries(Tail(q), g) => Carries(q, g)
        /\ \A g : Carries(q, g) => Carries(Tail(q), g) \/ Head(q) = Description(g)
        /\ \A g : AtMost(q, g) => AtMost(Tail(q), g)
        /\ Climbs(q) => Climbs(Tail(q))
    BY <1>2, <2>1, TailSignal DEF Dequeued
  <2>b. ~missed' => \A g : Head(q) # Description(g)
    BY <1>3, <2>1
  <2>2. /\ \A g : Carries(chan'["lo"], g) => Carries(chan["lo"], g)
        /\ \A g : ~missed' /\ Carries(chan["lo"], g) => Carries(chan'["lo"], g)
        /\ \A g : AtMost(chan["lo"], g) => AtMost(chan'["lo"], g)
        /\ Climbs(chan["lo"]) => Climbs(chan'["lo"])
    BY <2>1, <2>a, <2>b
  <2>3. Untouched'
    BY <1>1, <1>2, <1>3, <2>1, <2>2 DEF Untouched, Silent, Open, Other
  <2>4. Lead'
    BY <1>1, <1>2, <1>3, <2>1, <2>2 DEF Lead, Open
  <2>5. Unspoken("lo", "hi")'
    BY <1>1, <1>2, <1>3, <2>1, <2>2 DEF Unspoken, Lead, Answered, Open
  <2>6. Unspoken("hi", "lo")'
    BY <1>1, <1>2, <1>3, <2>1, <2>2 DEF Unspoken, Lead, Answered, Open
  <2>7. Answered'
    BY <1>1, <1>2, <1>3, <2>1, <2>2 DEF Answered, Lead, Open
  <2>8. Comes("lo", "hi")'
    BY <1>1, <1>2, <1>3, <2>1, <2>2 DEF Comes, Waits, Lead, Open
  <2>9. Comes("hi", "lo")'
    BY <1>1, <1>2, <1>3, <2>1, <2>2 DEF Comes, Waits, Lead, Open
  <2>10. Climbs(chan["hi"])'
    BY <1>1, <1>2, <1>3, <2>1, <2>2
  <2>11. Reach'
    BY <1>1, <1>2, <1>3, <2>1, <2>2 DEF Reach, Ahead, Lead, Open
  <2> QED BY <2>3, <2>4, <2>5, <2>6, <2>7, <2>8, <2>9, <2>10, <2>11 DEF Signalling
<1>5. CASE s = "hi" /\ o = "lo"
  <2>1. /\ chan["hi"] # <<>> /\ chan'["hi"] = Tail(chan["hi"]) /\ chan'["lo"] = chan["lo"]
        /\ link' = link
        /\ missed' = (missed \/ Head(chan["hi"]).kind = "description")
    BY <1>5 DEF Loses
  <2> DEFINE q == chan["hi"]
  <2>a. /\ \A g : Carries(Tail(q), g) => Carries(q, g)
        /\ \A g : Carries(q, g) => Carries(Tail(q), g) \/ Head(q) = Description(g)
        /\ \A g : AtMost(q, g) => AtMost(Tail(q), g)
        /\ Climbs(q) => Climbs(Tail(q))
    BY <1>2, <2>1, TailSignal DEF Dequeued
  <2>b. ~missed' => \A g : Head(q) # Description(g)
    BY <1>3, <2>1
  <2>2. /\ \A g : Carries(chan'["hi"], g) => Carries(chan["hi"], g)
        /\ \A g : ~missed' /\ Carries(chan["hi"], g) => Carries(chan'["hi"], g)
        /\ \A g : AtMost(chan["hi"], g) => AtMost(chan'["hi"], g)
        /\ Climbs(chan["hi"]) => Climbs(chan'["hi"])
    BY <2>1, <2>a, <2>b
  <2>3. Untouched'
    BY <1>1, <1>2, <1>3, <2>1, <2>2 DEF Untouched, Silent, Open, Other
  <2>4. Lead'
    BY <1>1, <1>2, <1>3, <2>1, <2>2 DEF Lead, Open
  <2>5. Unspoken("lo", "hi")'
    BY <1>1, <1>2, <1>3, <2>1, <2>2 DEF Unspoken, Lead, Answered, Open
  <2>6. Unspoken("hi", "lo")'
    BY <1>1, <1>2, <1>3, <2>1, <2>2 DEF Unspoken, Lead, Answered, Open
  <2>7. Answered'
    BY <1>1, <1>2, <1>3, <2>1, <2>2 DEF Answered, Lead, Open
  <2>8. Comes("lo", "hi")'
    BY <1>1, <1>2, <1>3, <2>1, <2>2 DEF Comes, Waits, Lead, Open
  <2>9. Comes("hi", "lo")'
    BY <1>1, <1>2, <1>3, <2>1, <2>2 DEF Comes, Waits, Lead, Open
  <2>10. Climbs(chan["hi"])'
    BY <1>1, <1>2, <1>3, <2>1, <2>2
  <2>11. Reach'
    BY <1>1, <1>2, <1>3, <2>1, <2>2 DEF Reach, Ahead, Lead, Open
  <2> QED BY <2>3, <2>4, <2>5, <2>6, <2>7, <2>8, <2>9, <2>10, <2>11 DEF Signalling
<1> QED BY <1>4, <1>5 DEF Pair

\* What a signal makes of its reader: it is taken, followed, answered by a new agent, or of no use; otherwise one was missed.
LEMMA ReadsKeeps ==
  ASSUME Shape, Shape', Untouched, Signalling,
         NEW s \in Sides, NEW o \in Sides, Pair(s, o), Reads(s, o)
  PROVE  Untouched' /\ Signalling'
<1>1. /\ Untouched /\ Lead /\ Unspoken("lo", "hi") /\ Unspoken("hi", "lo") /\ Answered
      /\ Comes("lo", "hi") /\ Comes("hi", "lo") /\ Climbs(chan["hi"]) /\ Reach
  BY DEF Signalling
<1>2. /\ link["lo"] \in Links /\ link["hi"] \in Links /\ link'["lo"] \in Links /\ link'["hi"] \in Links
      /\ link["lo"].gen \in Nat /\ link["hi"].gen \in Nat /\ missed \in BOOLEAN /\ missed' \in BOOLEAN
      /\ link'["lo"].gen \in Nat /\ link'["hi"].gen \in Nat
      /\ chan["lo"] \in Seq(Signals) /\ chan["hi"] \in Seq(Signals)
  BY SMTT(30) DEF Shape, Sides, Links
<1>3. /\ \A g : ~Carries(<<>>, g)
      /\ \A g : AtMost(<<>>, g)
      /\ Absent.gen = 0 /\ Absent.unsent = <<>> /\ <<>> # Fresh
      /\ \A g : Description(g).gen = g /\ Description(g).kind = "description"
  BY DEF Carries, AtMost, Absent, Fresh, Description
<1>4. CASE s = "lo" /\ o = "hi"
  <2>1. /\ chan["lo"] # <<>> /\ chan'["lo"] = Tail(chan["lo"]) /\ chan'["hi"] = chan["hi"]
        /\ link'["hi"] = link["hi"] /\ (missed => missed')
    BY <1>4 DEF Reads
  <2>2. PICK sig :
        /\ Ignores("lo", sig) \/ Takes("lo", sig) \/ CatchesUp("lo", sig) \/ Appears("lo", sig)
        /\ Dequeued(chan["lo"], sig, chan'["lo"])
    BY <1>2, <1>4, <2>1, TailSignal DEF Reads
  <2>a. /\ \A g : Carries(chan'["lo"], g) => Carries(chan["lo"], g)
        /\ \A g : Carries(chan["lo"], g) => Carries(chan'["lo"], g) \/ sig = Description(g)
        /\ \A g : AtMost(chan["lo"], g) => AtMost(chan'["lo"], g) /\ sig.gen <= g
        /\ \A g : sig = Description(g) => Carries(chan["lo"], g)
        /\ Climbs(chan["lo"]) => Climbs(chan'["lo"])
    BY <2>2 DEF Dequeued
  <2>b. \A g \in Nat : Climbs(chan["lo"]) /\ Carries(chan'["lo"], g) /\ sig.kind = "description"
                            => sig.gen < g
    BY <2>2 DEF Dequeued
  <2>3. sig.gen \in Nat
    BY <2>2 DEF Signals, Dequeued
  <2>4. link["hi"].st # "absent"
    BY <1>1, <2>1 DEF Untouched, Silent, Other
  <2>5. CASE Ignores("lo", sig)
    <3>1. /\ link'["lo"] = link["lo"]
          /\ \/ sig.kind = "candidates"
             \/ missed'
             \/ link["lo"].st = "open" /\ sig.gen = link["lo"].gen /\ link["lo"].described
             \/ /\ link["lo"].st = "open" /\ sig.gen # link["lo"].gen
                /\ "lo" = "lo" \/ sig.gen # link["lo"].gen + 1
      BY <2>5 DEF Ignores, Open
    <3>3. Untouched'
      BY <1>1, <1>2, <1>3, <2>1, <2>a, <2>3, <2>4, <3>1 DEF Untouched, Silent, Open, Other
    <3>4. Lead'
      BY <1>1, <1>2, <1>3, <2>1, <2>a, <2>3, <2>4, <3>1 DEF Lead, Open
    <3>5. Unspoken("lo", "hi")'
      BY <1>1, <1>2, <1>3, <2>1, <2>a, <2>3, <2>4, <3>1 DEF Unspoken, Lead, Answered, Open
    <3>6. Unspoken("hi", "lo")'
      BY <1>1, <1>2, <1>3, <2>1, <2>a, <2>3, <2>4, <3>1 DEF Unspoken, Lead, Answered, Open
    <3>7. Answered'
      BY <1>1, <1>2, <1>3, <2>1, <2>a, <2>3, <2>4, <3>1 DEF Answered, Lead, Open
    <3>8. Comes("lo", "hi")'
      BY <1>1, <1>2, <1>3, <2>1, <2>a, <2>3, <2>4, <3>1 DEF Comes, Waits, Lead, Open
    <3>9. Comes("hi", "lo")'
      BY <1>1, <1>2, <1>3, <2>1, <2>a, <2>3, <2>4, <3>1 DEF Comes, Waits, Lead, Open
    <3>10. Climbs(chan["hi"])'
      BY <1>1, <1>2, <1>3, <2>1, <2>a, <2>3, <2>4, <3>1
    <3>11. Reach'
      BY <1>1, <1>2, <1>3, <2>1, <2>a, <2>3, <2>4, <3>1 DEF Reach, Ahead, Lead, Open
    <3> QED BY <3>3, <3>4, <3>5, <3>6, <3>7, <3>8, <3>9, <3>10, <3>11 DEF Signalling
  <2>6. CASE Takes("lo", sig)
    <3>1. /\ link["lo"].st = "open" /\ link'["lo"].st = "open"
          /\ sig = Description(link["lo"].gen) /\ link'["lo"].gen = link["lo"].gen
          /\ link'["lo"].unsent = link["lo"].unsent /\ link'["lo"].described
      BY <2>6 DEF Takes, SameAgent, Open
    <3>3. Untouched'
      BY <1>1, <1>2, <1>3, <2>1, <2>a, <2>3, <2>4, <3>1 DEF Untouched, Silent, Open, Other
    <3>4. Lead'
      BY <1>1, <1>2, <1>3, <2>1, <2>a, <2>3, <2>4, <3>1 DEF Lead, Open
    <3>5. Unspoken("lo", "hi")'
      BY <1>1, <1>2, <1>3, <2>1, <2>a, <2>3, <2>4, <3>1 DEF Unspoken, Lead, Answered, Open
    <3>6. Unspoken("hi", "lo")'
      BY <1>1, <1>2, <1>3, <2>1, <2>a, <2>3, <2>4, <3>1 DEF Unspoken, Lead, Answered, Open
    <3>7. Answered'
      BY <1>1, <1>2, <1>3, <2>1, <2>a, <2>3, <2>4, <3>1 DEF Answered, Lead, Open
    <3>8. Comes("lo", "hi")'
      BY <1>1, <1>2, <1>3, <2>1, <2>a, <2>3, <2>4, <3>1 DEF Comes, Waits, Lead, Open
    <3>9. Comes("hi", "lo")'
      BY <1>1, <1>2, <1>3, <2>1, <2>a, <2>3, <2>4, <3>1 DEF Comes, Waits, Lead, Open
    <3>10. Climbs(chan["hi"])'
      BY <1>1, <1>2, <1>3, <2>1, <2>a, <2>3, <2>4, <3>1
    <3>11. Reach'
      BY <1>1, <1>2, <1>3, <2>1, <2>a, <2>3, <2>4, <3>1 DEF Reach, Ahead, Lead, Open
    <3> QED BY <3>3, <3>4, <3>5, <3>6, <3>7, <3>8, <3>9, <3>10, <3>11 DEF Signalling
  <2>7. CASE CatchesUp("lo", sig)
    BY <2>7 DEF CatchesUp
  <2>8. CASE Appears("lo", sig)
    <3>1. /\ link["lo"].st = "absent" /\ link'["lo"].st = "open" /\ link["lo"].gen = 0
          /\ link'["lo"].gen = 0 /\ link'["lo"].unsent = Fresh
          /\ \/ sig = Description(0) /\ link'["lo"].described
             \/ missed' /\ ~link'["lo"].described
          /\ chan["hi"] = <<>> /\ ~link["hi"].described
      BY <1>1, <1>3, <2>8 DEF Appears, Renewed, Untouched, Silent, Other
    <3>3. Untouched'
      BY <1>1, <1>2, <1>3, <2>1, <2>a, <2>3, <2>4, <3>1 DEF Untouched, Silent, Open, Other
    <3>4. Lead'
      BY <1>1, <1>2, <1>3, <2>1, <2>a, <2>3, <2>4, <3>1 DEF Lead, Open
    <3>5. Unspoken("lo", "hi")'
      BY <1>1, <1>2, <1>3, <2>1, <2>a, <2>3, <2>4, <3>1 DEF Unspoken, Lead, Answered, Open
    <3>6. Unspoken("hi", "lo")'
      BY <1>1, <1>2, <1>3, <2>1, <2>a, <2>3, <2>4, <3>1 DEF Unspoken, Lead, Answered, Open
    <3>7. Answered'
      BY <1>1, <1>2, <1>3, <2>1, <2>a, <2>3, <2>4, <3>1 DEF Answered, Lead, Open
    <3>8. Comes("lo", "hi")'
      BY <1>1, <1>2, <1>3, <2>1, <2>a, <2>3, <2>4, <3>1 DEF Comes, Waits, Lead, Open
    <3>9. Comes("hi", "lo")'
      BY <1>1, <1>2, <1>3, <2>1, <2>a, <2>3, <2>4, <3>1 DEF Comes, Waits, Lead, Open
    <3>10. Climbs(chan["hi"])'
      BY <1>1, <1>2, <1>3, <2>1, <2>a, <2>3, <2>4, <3>1
    <3>11. Reach'
      BY <1>1, <1>2, <1>3, <2>1, <2>a, <2>3, <2>4, <3>1 DEF Reach, Ahead, Lead, Open
    <3> QED BY <3>3, <3>4, <3>5, <3>6, <3>7, <3>8, <3>9, <3>10, <3>11 DEF Signalling
  <2> QED BY <2>2, <2>5, <2>6, <2>7, <2>8
<1>5. CASE s = "hi" /\ o = "lo"
  <2>1. /\ chan["hi"] # <<>> /\ chan'["hi"] = Tail(chan["hi"]) /\ chan'["lo"] = chan["lo"]
        /\ link'["lo"] = link["lo"] /\ (missed => missed')
    BY <1>5 DEF Reads
  <2>2. PICK sig :
        /\ Ignores("hi", sig) \/ Takes("hi", sig) \/ CatchesUp("hi", sig) \/ Appears("hi", sig)
        /\ Dequeued(chan["hi"], sig, chan'["hi"])
    BY <1>2, <1>5, <2>1, TailSignal DEF Reads
  <2>a. /\ \A g : Carries(chan'["hi"], g) => Carries(chan["hi"], g)
        /\ \A g : Carries(chan["hi"], g) => Carries(chan'["hi"], g) \/ sig = Description(g)
        /\ \A g : AtMost(chan["hi"], g) => AtMost(chan'["hi"], g) /\ sig.gen <= g
        /\ \A g : sig = Description(g) => Carries(chan["hi"], g)
        /\ Climbs(chan["hi"]) => Climbs(chan'["hi"])
    BY <2>2 DEF Dequeued
  <2>b. \A g \in Nat : Climbs(chan["hi"]) /\ Carries(chan'["hi"], g) /\ sig.kind = "description"
                            => sig.gen < g
    BY <2>2 DEF Dequeued
  <2>3. sig.gen \in Nat
    BY <2>2 DEF Signals, Dequeued
  <2>4. link["lo"].st # "absent"
    BY <1>1, <2>1 DEF Untouched, Silent, Other
  <2>5. CASE Ignores("hi", sig)
    <3>1. /\ link'["hi"] = link["hi"]
          /\ \/ sig.kind = "candidates"
             \/ missed'
             \/ link["hi"].st = "open" /\ sig.gen = link["hi"].gen /\ link["hi"].described
             \/ /\ link["hi"].st = "open" /\ sig.gen # link["hi"].gen
                /\ "hi" = "lo" \/ sig.gen # link["hi"].gen + 1
      BY <2>5 DEF Ignores, Open
    <3>3. Untouched'
      BY <1>1, <1>2, <1>3, <2>1, <2>a, <2>3, <2>4, <3>1 DEF Untouched, Silent, Open, Other
    <3>4. Lead'
      BY <1>1, <1>2, <1>3, <2>1, <2>a, <2>3, <2>4, <3>1 DEF Lead, Open
    <3>5. Unspoken("lo", "hi")'
      BY <1>1, <1>2, <1>3, <2>1, <2>a, <2>3, <2>4, <3>1 DEF Unspoken, Lead, Answered, Open
    <3>6. Unspoken("hi", "lo")'
      BY <1>1, <1>2, <1>3, <2>1, <2>a, <2>3, <2>4, <3>1 DEF Unspoken, Lead, Answered, Open
    <3>7. Answered'
      BY <1>1, <1>2, <1>3, <2>1, <2>a, <2>3, <2>4, <3>1 DEF Answered, Lead, Open
    <3>8. Comes("lo", "hi")'
      BY <1>1, <1>2, <1>3, <2>1, <2>a, <2>3, <2>4, <3>1 DEF Comes, Waits, Lead, Open
    <3>9. Comes("hi", "lo")'
      BY <1>1, <1>2, <1>3, <2>1, <2>a, <2>3, <2>4, <3>1 DEF Comes, Waits, Lead, Open
    <3>10. Climbs(chan["hi"])'
      BY <1>1, <1>2, <1>3, <2>1, <2>a, <2>3, <2>4, <3>1
    <3>11. Reach'
      <4> SUFFICES ASSUME ~missed', Open("lo"), link["hi"].st # "gone",
                          NEW g \in 0 .. link["lo"].gen, Ahead(g)
                   PROVE  \/ g = link["lo"].gen /\ link["lo"].unsent = Fresh
                          \/ Carries(chan'["hi"], g)
        BY <2>1, <3>1 DEF Reach, Ahead, Open
      <4>1. (g = link["lo"].gen /\ link["lo"].unsent = Fresh) \/ Carries(chan["hi"], g)
        BY <1>1, <2>1 DEF Reach, Open
      <4>2. ASSUME sig = Description(g) PROVE FALSE
        <5>1. Open("hi") /\ g > link["hi"].gen /\ g > link["hi"].gen + 1
          BY <1>2, <1>3, <3>1, <4>2 DEF Ahead, Open
        <5>2. link["hi"].gen + 1 \in 0 .. link["lo"].gen /\ link["hi"].gen + 1 # link["lo"].gen
          BY <1>2, <5>1
        <5>3. Carries(chan["hi"], link["hi"].gen + 1)
          BY <1>1, <1>2, <2>1, <5>1, <5>2 DEF Reach, Ahead, Open
        <5>4. Carries(chan'["hi"], link["hi"].gen + 1)
          BY <1>3, <2>a, <4>2, <5>1, <5>3
        <5>5. sig.gen < link["hi"].gen + 1
          BY <1>1, <1>2, <1>3, <2>b, <4>2, <5>4
        <5> QED BY <1>2, <1>3, <4>2, <5>1, <5>5
      <4> QED BY <2>a, <4>1, <4>2
    <3> QED BY <3>3, <3>4, <3>5, <3>6, <3>7, <3>8, <3>9, <3>10, <3>11 DEF Signalling
  <2>6. CASE Takes("hi", sig)
    <3>1. /\ link["hi"].st = "open" /\ link'["hi"].st = "open"
          /\ sig = Description(link["hi"].gen) /\ link'["hi"].gen = link["hi"].gen
          /\ link'["hi"].unsent = link["hi"].unsent /\ link'["hi"].described
      BY <2>6 DEF Takes, SameAgent, Open
    <3>3. Untouched'
      BY <1>1, <1>2, <1>3, <2>1, <2>a, <2>3, <2>4, <3>1 DEF Untouched, Silent, Open, Other
    <3>4. Lead'
      BY <1>1, <1>2, <1>3, <2>1, <2>a, <2>3, <2>4, <3>1 DEF Lead, Open
    <3>5. Unspoken("lo", "hi")'
      BY <1>1, <1>2, <1>3, <2>1, <2>a, <2>3, <2>4, <3>1 DEF Unspoken, Lead, Answered, Open
    <3>6. Unspoken("hi", "lo")'
      BY <1>1, <1>2, <1>3, <2>1, <2>a, <2>3, <2>4, <3>1 DEF Unspoken, Lead, Answered, Open
    <3>7. Answered'
      BY <1>1, <1>2, <1>3, <2>1, <2>a, <2>3, <2>4, <3>1 DEF Answered, Lead, Open
    <3>8. Comes("lo", "hi")'
      BY <1>1, <1>2, <1>3, <2>1, <2>a, <2>3, <2>4, <3>1 DEF Comes, Waits, Lead, Open
    <3>9. Comes("hi", "lo")'
      BY <1>1, <1>2, <1>3, <2>1, <2>a, <2>3, <2>4, <3>1 DEF Comes, Waits, Lead, Open
    <3>10. Climbs(chan["hi"])'
      BY <1>1, <1>2, <1>3, <2>1, <2>a, <2>3, <2>4, <3>1
    <3>11. Reach'
      BY <1>1, <1>2, <1>3, <2>1, <2>a, <2>3, <2>4, <3>1 DEF Reach, Ahead, Lead, Open
    <3> QED BY <3>3, <3>4, <3>5, <3>6, <3>7, <3>8, <3>9, <3>10, <3>11 DEF Signalling
  <2>7. CASE CatchesUp("hi", sig)
    <3>1. /\ link["hi"].st = "open" /\ link'["hi"].st = "open"
          /\ sig = Description(link["hi"].gen + 1) /\ link'["hi"].gen = link["hi"].gen + 1
          /\ link'["hi"].unsent = Fresh /\ link'["hi"].described
          /\ AtMost(chan["lo"], link["hi"].gen + 1) /\ ~Carries(chan["lo"], link["hi"].gen + 1)
      <4>1. link["hi"].st = "open" /\ AtMost(chan["lo"], link["hi"].gen)
        BY <1>1, <2>7 DEF CatchesUp, Lead, Open
      <4>2. AtMost(chan["lo"], link["hi"].gen + 1) /\ ~Carries(chan["lo"], link["hi"].gen + 1)
        BY <1>2, <4>1, AtMostLater
      <4> QED BY <2>7, <4>1, <4>2 DEF CatchesUp, Renewed
    <3>3. Untouched'
      BY <1>1, <1>2, <1>3, <2>1, <2>a, <2>3, <2>4, <3>1 DEF Untouched, Silent, Open, Other
    <3>4. Lead'
      BY <1>1, <1>2, <1>3, <2>1, <2>a, <2>3, <2>4, <3>1 DEF Lead, Open
    <3>5. Unspoken("lo", "hi")'
      BY <1>1, <1>2, <1>3, <2>1, <2>a, <2>3, <2>4, <3>1 DEF Unspoken, Lead, Answered, Open
    <3>6. Unspoken("hi", "lo")'
      BY <1>1, <1>2, <1>3, <2>1, <2>a, <2>3, <2>4, <3>1 DEF Unspoken, Lead, Answered, Open
    <3>7. Answered'
      BY <1>1, <1>2, <1>3, <2>1, <2>a, <2>3, <2>4, <3>1 DEF Answered, Lead, Open
    <3>8. Comes("lo", "hi")'
      BY <1>1, <1>2, <1>3, <2>1, <2>a, <2>3, <2>4, <3>1 DEF Comes, Waits, Lead, Open
    <3>9. Comes("hi", "lo")'
      BY <1>1, <1>2, <1>3, <2>1, <2>a, <2>3, <2>4, <3>1 DEF Comes, Waits, Lead, Open
    <3>10. Climbs(chan["hi"])'
      BY <1>1, <1>2, <1>3, <2>1, <2>a, <2>3, <2>4, <3>1
    <3>11. Reach'
      BY <1>1, <1>2, <1>3, <2>1, <2>a, <2>3, <2>4, <3>1 DEF Reach, Ahead, Lead, Open
    <3> QED BY <3>3, <3>4, <3>5, <3>6, <3>7, <3>8, <3>9, <3>10, <3>11 DEF Signalling
  <2>8. CASE Appears("hi", sig)
    <3>1. /\ link["hi"].st = "absent" /\ link'["hi"].st = "open" /\ link["hi"].gen = 0
          /\ link'["hi"].gen = 0 /\ link'["hi"].unsent = Fresh
          /\ \/ sig = Description(0) /\ link'["hi"].described
             \/ missed' /\ ~link'["hi"].described
          /\ chan["lo"] = <<>> /\ ~link["lo"].described
      BY <1>1, <1>3, <2>8 DEF Appears, Renewed, Untouched, Silent, Other
    <3>3. Untouched'
      BY <1>1, <1>2, <1>3, <2>1, <2>a, <2>3, <2>4, <3>1 DEF Untouched, Silent, Open, Other
    <3>4. Lead'
      BY <1>1, <1>2, <1>3, <2>1, <2>a, <2>3, <2>4, <3>1 DEF Lead, Open
    <3>5. Unspoken("lo", "hi")'
      BY <1>1, <1>2, <1>3, <2>1, <2>a, <2>3, <2>4, <3>1 DEF Unspoken, Lead, Answered, Open
    <3>6. Unspoken("hi", "lo")'
      BY <1>1, <1>2, <1>3, <2>1, <2>a, <2>3, <2>4, <3>1 DEF Unspoken, Lead, Answered, Open
    <3>7. Answered'
      BY <1>1, <1>2, <1>3, <2>1, <2>a, <2>3, <2>4, <3>1 DEF Answered, Lead, Open
    <3>8. Comes("lo", "hi")'
      BY <1>1, <1>2, <1>3, <2>1, <2>a, <2>3, <2>4, <3>1 DEF Comes, Waits, Lead, Open
    <3>9. Comes("hi", "lo")'
      BY <1>1, <1>2, <1>3, <2>1, <2>a, <2>3, <2>4, <3>1 DEF Comes, Waits, Lead, Open
    <3>10. Climbs(chan["hi"])'
      BY <1>1, <1>2, <1>3, <2>1, <2>a, <2>3, <2>4, <3>1
    <3>11. Reach'
      BY <1>1, <1>2, <1>3, <2>1, <2>a, <2>3, <2>4, <3>1 DEF Reach, Ahead, Lead, Open
    <3> QED BY <3>3, <3>4, <3>5, <3>6, <3>7, <3>8, <3>9, <3>10, <3>11 DEF Signalling
  <2> QED BY <2>2, <2>5, <2>6, <2>7, <2>8
<1> QED BY <1>4, <1>5 DEF Pair
-----------------------------------------------------------------------------
(* The exchange of keys and the probes under each of the steps. *)

\* An end keeps its keys as long as its player is there.
KeepsKeys(s) ==
  \/ link'[s].st = "gone" /\ link'[s].sec = "Idle"
  \/ link'[s].sec = link[s].sec /\ (link'[s].st = "gone" <=> link[s].st = "gone")

LEMMA KeysKept ==
  ASSUME Keys, KeepsKeys("lo"), KeepsKeys("hi"), air' \subseteq air
  PROVE  Keys'
<1>1. link'["lo"].sec # "ServerHello" /\ link'["hi"].sec # "ClientHello"
  BY DEF Keys, KeepsKeys
<1>2. ASSUME link'["lo"].st # "gone", link'["hi"].st # "gone"
      PROVE  /\ Paired(link'["lo"].sec, link'["hi"].sec)
             /\ \A p \in air' : Implied(p, link'["lo"].sec, link'["hi"].sec)
  <2>1. /\ link["lo"].st # "gone" /\ link["hi"].st # "gone"
        /\ link'["lo"].sec = link["lo"].sec /\ link'["hi"].sec = link["hi"].sec
    BY <1>2 DEF KeepsKeys
  <2>2. /\ Paired(link["lo"].sec, link["hi"].sec)
        /\ \A p \in air : Implied(p, link["lo"].sec, link["hi"].sec)
    BY <2>1 DEF Keys
  <2> QED BY <2>1, <2>2
<1> QED BY <1>1, <1>2 DEF Keys

\* An end repeats its packet.
LEMMA PumpKeys ==
  ASSUME BoundsAssumption, Shape, Keys, NEW s \in Sides, PumpSecure(s)
  PROVE  Shape' /\ Quiet /\ Keys' /\ \A t \in Sides : EchoKept(t)
<1> DEFINE begun == IF s = "lo" /\ link[s].sec = "Idle" THEN "ClientHello" ELSE link[s].sec
<1>1. link[s].sec \in SecureStates /\ Open(s)
  BY DEF Shape, Links, PumpSecure
<1>2. begun \in SecureStates /\ RetryOf(begun) \in SUBSET {"hello", "serverHello", "finish"}
  BY <1>1 DEF SecureStates, RetryOf
<1>3. /\ link' = [link EXCEPT ![s].sec = begun] /\ Send(s, RetryOf(begun))
      /\ UNCHANGED <<cloud, chan, drops, missed>>
  BY DEF PumpSecure
<1> HIDE DEF begun
<1>4. Shape' /\ Quiet /\ Moves(s, begun, RetryOf(begun)) /\ \A t \in Sides : EchoKept(t)
  BY <1>1, <1>2, <1>3, MovesEffect
<1>5. /\ link["lo"].sec \in SecureStates /\ link["hi"].sec \in SecureStates
      /\ link'["lo"].st = link["lo"].st /\ link'["hi"].st = link["hi"].st
  BY <1>4 DEF Shape, Links, Sides, Quiet
<1>6. ASSUME s = "lo" PROVE Keys'
  <2>1. /\ link'["hi"].sec = link["hi"].sec /\ link'["lo"].sec = "ClientHello"
        /\ link["lo"].sec \in {"Idle", "ClientHello"}
        /\ \A p \in air' : p \in air \/ (p.to = "hi" /\ p.kind = "hello")
    BY <1>4, <1>5, <1>6 DEF Moves, Other, begun, PumpSecure, Established, RetryOf, SecureStates, Keys
  <2> QED BY <1>5, <2>1 DEF Keys, Paired, Implied, SecureStates
<1>7. ASSUME s = "hi" PROVE Keys'
  <2>1. /\ link'["lo"].sec = link["lo"].sec /\ link'["hi"].sec = link["hi"].sec
        /\ \A p \in air' : \/ p \in air
                           \/ (p.to = "lo" /\ p.kind = "hello" /\ link["hi"].sec = "ClientHello")
                           \/ (p.to = "lo" /\ p.kind = "serverHello" /\ link["hi"].sec = "ServerHello")
    BY <1>4, <1>5, <1>7 DEF Moves, Other, begun, RetryOf, SecureStates
  <2> QED BY <1>5, <2>1 DEF Keys, Paired, Implied, SecureStates
<1> QED BY <1>4, <1>6, <1>7 DEF Sides

\* An end takes a packet and answers it.
LEMMA ReceiveKeys ==
  ASSUME BoundsAssumption, Shape, Keys, NEW p \in air, Receive(p)
  PROVE  Shape' /\ Quiet /\ Keys' /\ \A t \in Sides : EchoKept(t)
<1> DEFINE s == p.to
           h == Handshake(s, link[s].sec, p.kind)
           sec == h[1]
           kinds == h[2]
<1>1. /\ s \in Sides /\ p \in Packets /\ p.kind \in {"hello", "serverHello", "finish"}
      /\ link["lo"].sec \in SecureStates /\ link["hi"].sec \in SecureStates
      /\ link[s].sec \in SecureStates /\ Open(s)
  BY DEF Shape, Packets, Receive, Links, Sides
<1>2. \/ /\ s = "hi" /\ p.kind = "hello" /\ link["hi"].sec \in {"Idle", "ServerHello"}
         /\ sec = "ServerHello" /\ kinds = {"serverHello"}
      \/ /\ s = "lo" /\ p.kind = "serverHello" /\ link["lo"].sec \in {"ClientHello", "Established"}
         /\ sec = "Established" /\ kinds = {"finish"}
      \/ /\ s = "hi" /\ p.kind = "finish" /\ link["hi"].sec = "ServerHello"
         /\ sec = "Established" /\ kinds = {}
      \/ sec = link[s].sec /\ kinds = {}
  BY <1>1 DEF Handshake, Sides
<1>3. /\ link' = [link EXCEPT ![s].sec = sec] /\ (Send(s, kinds) \/ Send(s, {}))
      /\ UNCHANGED <<cloud, chan, drops, missed>>
  BY DEF Receive
<1> HIDE DEF h, sec, kinds
<1>4. sec \in SecureStates /\ kinds \in SUBSET {"hello", "serverHello", "finish"}
  BY <1>1, <1>2 DEF SecureStates
<1> HIDE DEF s
<1>5. Shape' /\ Quiet /\ Moves(s, sec, kinds) /\ \A t \in Sides : EchoKept(t)
  BY <1>1, <1>3, <1>4, MovesEffect
<1>6. link'["lo"].st = link["lo"].st /\ link'["hi"].st = link["hi"].st
  BY <1>5 DEF Sides, Quiet
<1>7. p \in air /\ p.to = s
  BY DEF s
<1>8. ASSUME s = "lo" PROVE Keys'
  <2>1. /\ link'["hi"].sec = link["hi"].sec /\ link'["lo"].sec = sec
        /\ \A q \in air' : q \in air \/ (q.to = "hi" /\ q.kind \in kinds)
    BY <1>5, <1>8 DEF Moves, Other
  <2>2. \/ /\ p.kind = "serverHello" /\ link["lo"].sec \in {"ClientHello", "Established"}
           /\ sec = "Established" /\ kinds = {"finish"}
        \/ sec = link["lo"].sec /\ kinds = {}
    BY <1>2, <1>8
  <2> QED BY <1>1, <1>6, <1>7, <1>8, <2>1, <2>2 DEF Keys, Paired, Implied, SecureStates
<1>9. ASSUME s = "hi" PROVE Keys'
  <2>1. /\ link'["lo"].sec = link["lo"].sec /\ link'["hi"].sec = sec
        /\ \A q \in air' : q \in air \/ (q.to = "lo" /\ q.kind \in kinds)
    BY <1>5, <1>9 DEF Moves, Other
  <2>2. \/ /\ p.kind = "hello" /\ link["hi"].sec \in {"Idle", "ServerHello"}
           /\ sec = "ServerHello" /\ kinds = {"serverHello"}
        \/ /\ p.kind = "finish" /\ link["hi"].sec = "ServerHello"
           /\ sec = "Established" /\ kinds = {}
        \/ sec = link["hi"].sec /\ kinds = {}
    BY <1>2, <1>9
  <2> QED BY <1>1, <1>6, <1>7, <1>9, <2>1, <2>2 DEF Keys, Paired, Implied, SecureStates
<1> QED BY <1>1, <1>5, <1>8, <1>9 DEF Sides
-----------------------------------------------------------------------------
(* The invariant. *)

LEMMA EchoesKept ==
  ASSUME Echoes, \A t \in Sides : EchoKept(t),
         \A t \in Sides : link'[t].gen = link[t].gen \/ ~link'[t].echo
  PROVE  Echoes'
BY DEF Echoes, EchoKept

\* A step that moves one player's agent.
LEMMA AgentStep ==
  ASSUME BoundsAssumption, Inv, Shape', NEW s \in Sides, NEW o \in Sides, Pair(s, o),
         air' \subseteq air,
         Joins(s, o) \/ Goes(s, o) \/ Sends(s, o) \/ Loses(s, o) \/ Reads(s, o)
  PROVE  Inv'
<1>1. Shape /\ Untouched /\ Signalling /\ Echoes /\ Keys
  BY DEF Inv
<1>2. Untouched' /\ Signalling'
  BY <1>1, JoinsKeeps, GoesKeeps, SendsKeeps, LosesKeeps, ReadsKeeps
<1>3. /\ link'[o] = link[o]
      /\ \/ link'[s] = link[s]
         \/ ~link'[s].echo
         \/ link'[s].echo = link[s].echo /\ link'[s].echoGen = link[s].echoGen /\ link'[s].gen = link[s].gen
      /\ \/ link'[s].st = "gone" /\ link'[s].sec = "Idle"
         \/ link'[s].sec = link[s].sec /\ link'[s].st # "gone" /\ link[s].st # "gone"
         \/ link'[s] = link[s]
  BY DEF Joins, Goes, Sends, Loses, Reads, Ignores, Takes, CatchesUp, Appears, Renewed, SameAgent, Open
<1>4. \A t \in Sides : t = s \/ t = o
  BY DEF Sides, Pair
<1>5. Echoes'
  BY <1>1, <1>3, <1>4 DEF Echoes
<1>6. KeepsKeys(s) /\ KeepsKeys(o)
  BY <1>3 DEF KeepsKeys
<1>7. Keys'
  BY <1>1, <1>6, KeysKept DEF Pair
<1> QED BY <1>2, <1>5, <1>7 DEF Inv

LEMMA RestartStep ==
  ASSUME BoundsAssumption, Inv, Shape', Restarts, air' \subseteq air
  PROVE  Inv'
<1>1. Shape /\ Untouched /\ Signalling /\ Echoes /\ Keys
  BY DEF Inv
<1>2. Untouched' /\ Signalling'
  BY <1>1, RestartsKeeps
<1>3. Echoes'
  BY <1>1 DEF Echoes, Restarts, Renewed, Sides
<1>4. KeepsKeys("lo") /\ KeepsKeys("hi")
  BY DEF KeepsKeys, Restarts, Renewed, Open
<1>5. Keys'
  BY <1>1, <1>4, KeysKept
<1> QED BY <1>2, <1>3, <1>5 DEF Inv

LEMMA QuietStep ==
  ASSUME Inv, Shape', Quiet, Keys', \A t \in Sides : EchoKept(t)
  PROVE  Inv'
<1>1. Untouched' /\ Signalling'
  BY QuietKeeps DEF Inv
<1>2. Echoes'
  BY EchoesKept DEF Inv, Quiet
<1> QED BY <1>1, <1>2 DEF Inv

LEMMA InvInit == BoundsAssumption /\ Init => Inv
<1> SUFFICES ASSUME BoundsAssumption, Init PROVE Inv
  OBVIOUS
<1>1. /\ link["lo"] = Absent /\ link["hi"] = Absent /\ chan["lo"] = <<>> /\ chan["hi"] = <<>>
      /\ air = {} /\ drops = 0 /\ missed = FALSE
  BY DEF Init, Sides
<1>2. Shape
  <2>1. <<>> \in Seq(Signals) /\ Absent \in Links
    BY AbsentFields
  <2>2. link \in [Sides -> Links] /\ chan \in [Sides -> Seq(Signals)]
    BY <2>1 DEF Init
  <2>3. air \subseteq Packets /\ drops \in 0 .. MaxDrops
    BY <1>1 DEF BoundsAssumption
  <2>4. missed \in BOOLEAN /\ cloud \in BOOLEAN
    BY DEF Init
  <2> QED BY <2>2, <2>3, <2>4 DEF Shape
<1>3. Untouched
  BY <1>1, AbsentFields DEF Untouched, Silent, Other
<1>4. Signalling
  <2>1. AtMost(<<>>, 0) /\ Climbs(<<>>)
    BY DEF AtMost, Climbs
  <2> QED BY <1>1, <2>1, AbsentFields
       DEF Signalling, Lead, Unspoken, Answered, Comes, Waits, Reach, Open
<1>5. Echoes
  BY <1>1, AbsentFields DEF Echoes, Sides
<1>6. Keys
  BY <1>1, AbsentFields DEF Keys, Paired
<1> QED BY <1>2, <1>3, <1>4, <1>5, <1>6 DEF Inv

LEMMA InvStep == BoundsAssumption /\ Inv /\ [Next]_vars => Inv'
<1> SUFFICES ASSUME BoundsAssumption, Inv, [Next]_vars PROVE Inv'
  OBVIOUS
<1>1. Shape /\ Untouched /\ Signalling /\ Echoes /\ Keys
  BY DEF Inv
<1>2. \A s \in Sides : Other(s) \in Sides
  BY DEF Sides, Other
<1>3. ASSUME NEW s \in Sides, MeshAdmit(s) PROVE Inv'
  <2>1. Shape' /\ Joins(s, Other(s)) /\ Pair(s, Other(s)) /\ air' = air
    BY <1>1, <1>3, AdmitEffect
  <2> QED BY <1>2, <2>1, AgentStep
<1>4. ASSUME NEW s \in Sides, MeshRemove(s) \/ Leave(s) PROVE Inv'
  <2>1. Shape' /\ Goes(s, Other(s)) /\ Pair(s, Other(s)) /\ air' \subseteq air
    BY <1>1, <1>4, GoesEffect
  <2> QED BY <1>2, <2>1, AgentStep
<1>5. ASSUME NEW s \in Sides, PopSignal(s) PROVE Inv'
  <2>1. Shape' /\ Sends(s, Other(s)) /\ Pair(s, Other(s)) /\ air' = air
    BY <1>1, <1>5, SendsEffect
  <2> QED BY <1>2, <2>1, AgentStep
<1>6. ASSUME NEW s \in Sides, LoseSignal(s) PROVE Inv'
  <2>1. Shape' /\ Loses(s, Other(s)) /\ Pair(s, Other(s)) /\ air' = air
    BY <1>1, <1>6, LosesEffect
  <2> QED BY <1>2, <2>1, AgentStep
<1>7. ASSUME NEW s \in Sides, OnSignal(s) PROVE Inv'
  <2>1. Shape' /\ Reads(s, Other(s)) /\ Pair(s, Other(s)) /\ air' \subseteq air
    BY <1>1, <1>7, ReadsEffect
  <2> QED BY <1>2, <2>1, AgentStep
<1>8. ASSUME NEW s \in Sides, Connect(s) \/ Drop(s) \/ RoundTrip(s) \/ Age(s) \/ EchoExpires(s)
      PROVE  Inv'
  <2>1. Shape' /\ Still /\ \A t \in Sides : EchoKept(t)
    BY <1>1, <1>8, StillEffect
  <2>2. KeepsKeys("lo") /\ KeepsKeys("hi") /\ air' \subseteq air
    BY <2>1 DEF Still, Quiet, KeepsKeys, Sides
  <2>3. Keys'
    BY <1>1, <2>2, KeysKept
  <2> QED BY <2>1, <2>3, QuietStep DEF Still
<1>9. ASSUME NEW s \in Sides, PumpSecure(s) PROVE Inv'
  <2>1. Shape' /\ Quiet /\ Keys' /\ \A t \in Sides : EchoKept(t)
    BY <1>1, <1>9, PumpKeys
  <2> QED BY <2>1, QuietStep
<1>10. ASSUME Retry PROVE Inv'
  <2>1. Shape' /\ Restarts /\ air' \subseteq air
    BY <1>1, <1>10, RestartsEffect
  <2> QED BY <2>1, RestartStep
<1>11. ASSUME NEW p \in air, Receive(p) PROVE Inv'
  <2>1. Shape' /\ Quiet /\ Keys' /\ \A t \in Sides : EchoKept(t)
    BY <1>1, <1>11, ReceiveKeys
  <2> QED BY <2>1, QuietStep
<1>12. CASE UNCHANGED vars
  BY <1>1, <1>12 DEF vars, Inv, Shape, Untouched, Silent, Signalling, Lead, Unspoken, Answered, Comes, Waits,
     Reach, Ahead, Open, Echoes, Keys
<1> QED BY <1>3, <1>4, <1>5, <1>6, <1>7, <1>8, <1>9, <1>10, <1>11, <1>12 DEF Next

\* The inductive invariant of the link.
THEOREM MeshInvariant == BoundsAssumption /\ Spec => []Inv
<1>1. BoundsAssumption /\ Init => Inv
  BY InvInit
<1>2. BoundsAssumption /\ Inv /\ [Next]_vars => Inv'
  BY InvStep
<1> SUFFICES ASSUME BoundsAssumption PROVE Spec => []Inv
  OBVIOUS
<1>3. Init => Inv
  BY <1>1
<1>4. Inv /\ [Next]_vars => Inv'
  BY <1>2
<1> QED BY <1>3, <1>4, PTL DEF Spec

\* What the two players hold of each other's signals: types, and that an agent
\* that holds a description holds the one of the agent it will talk to.
THEOREM SignalsMatch == BoundsAssumption /\ Spec => [](TypeOK /\ SignalsMatchAgents)
<1>1. Inv => TypeOK
  <2> SUFFICES ASSUME Inv PROVE TypeOK
    OBVIOUS
  <2>1. Shape /\ Lead /\ Keys
    BY DEF Inv, Signalling
  <2>2. \A s \in Sides : Range(chan[s]) \subseteq Signals
    <3> SUFFICES ASSUME NEW s \in Sides PROVE Range(chan[s]) \subseteq Signals
      OBVIOUS
    <3>1. chan[s] \in Seq(Signals)
      BY <2>1 DEF Shape
    <3> QED BY <3>1 DEF Range
  <2>3. Open("lo") /\ Open("hi") => link["hi"].gen <= link["lo"].gen
    BY <2>1 DEF Lead
  <2>4. link["lo"].sec # "ServerHello" /\ link["hi"].sec # "ClientHello"
    BY <2>1 DEF Keys
  <2> QED BY <2>1, <2>2, <2>3, <2>4 DEF TypeOK, Shape, Links, Unsent
<1>2. Inv => SignalsMatchAgents
  <2> SUFFICES ASSUME Inv PROVE SignalsMatchAgents
    OBVIOUS
  <2>1. \A s \in Sides : Unspoken(Other(s), s) /\ Comes(s, Other(s))
    BY DEF Inv, Signalling, Sides, Other
  <2> QED BY <2>1 DEF SignalsMatchAgents, Unspoken, Comes, Waits, Carries, Description, Fresh, Open
<1> QED BY <1>1, <1>2, MeshInvariant, PTL

\* Unless a description was lost or refused, hi still gets to lo's generation.
THEOREM TheyCanMeet == BoundsAssumption /\ Spec => []CanMeet
<1>1. Inv => CanMeet
  <2> SUFFICES ASSUME Inv, ~missed, Open("lo"), Open("hi"),
                      NEW g \in link["hi"].gen + 1 .. link["lo"].gen
               PROVE  \/ g = link["lo"].gen /\ link["lo"].unsent = Fresh
                      \/ Carries(chan["hi"], g)
    BY DEF CanMeet, Carries, Description, Fresh
  <2>1. link["hi"].gen \in Nat /\ link["lo"].gen \in Nat
    BY DEF Inv, Shape, Sides, Links
  <2>2. g \in 0 .. link["lo"].gen /\ Ahead(g)
    BY <2>1 DEF Ahead
  <2> QED BY <2>2 DEF Inv, Signalling, Reach, Open
<1> QED BY <1>1, MeshInvariant, PTL

\* Direct traffic has made a round trip through the agent in use, and whatever a
\* new generation interrupted, the two ends can finish their exchange of keys.
THEOREM DirectIsTried == BoundsAssumption /\ Spec => [](DirectHasRoundTrip /\ CanStillFinish)
<1>1. Inv => DirectHasRoundTrip
  BY DEF Inv, Echoes, DirectHasRoundTrip, Direct
<1>2. Inv => CanStillFinish
  <2> SUFFICES ASSUME Inv, Open("lo"), Open("hi"), ~(Established("lo") /\ Established("hi"))
               PROVE  CanStillFinish
    BY DEF CanStillFinish
  <2>1. /\ link["lo"].sec \in SecureStates /\ link["hi"].sec \in SecureStates
        /\ Paired(link["lo"].sec, link["hi"].sec)
    BY DEF Inv, Shape, Sides, Links, Keys, Open
  <2> QED BY <2>1 DEF CanStillFinish, Paired, SecureStates, RetryOf, Handshake, Established
<1> QED BY <1>1, <1>2, MeshInvariant, PTL
=============================================================================
