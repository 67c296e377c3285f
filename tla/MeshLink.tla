------------------------------ MODULE MeshLink ------------------------------
(***************************************************************************)
(* The direct link between two players of a room (udp_connection.cpp,      *)
(* ice_agent.cpp, transport.cpp): ICE agents and their generations, the    *)
(* signals that carry an agent's description and candidates through the    *)
(* room, the key exchange over the link, and the probes that decide        *)
(* whether the pair's traffic goes direct.                                 *)
(*                                                                         *)
(* "lo" is the player with the lower number: it initiates the key exchange *)
(* and is the only one to start a new generation; "hi" follows.  Signals   *)
(* come in order but may be lost in a cloud room; packets over ICE are     *)
(* lost with the agent they were sent to.  Clocks are abstracted to the    *)
(* flags they decide: `recent' (the agent is younger than a second) and    *)
(* `echo' (an answer to a probe is not older than the limit).              *)
(***************************************************************************)
EXTENDS Naturals, Sequences, SequencesExt

CONSTANTS
    MaxGen,     \* bound: generations lo starts
    MaxDrops    \* bound: agents that lose their connection, signals lost

BoundsAssumption == MaxGen \in Nat \ {0} /\ MaxDrops \in Nat

Sides == {"lo", "hi"}
Other(s) == IF s = "lo" THEN "hi" ELSE "lo"

VARIABLES
    cloud,    \* a cloud room: no relay behind the link
    link,     \* Sides -> the player's Peer entry for the other
    chan,     \* Sides -> signals on their way to the side
    air,      \* packets sent over ICE
    drops,    \* budget used
    missed    \* history: a description was lost, or came too early, or was never sent

vars == <<cloud, link, chan, air, drops, missed>>

Signals == [kind : {"description", "candidates"}, gen : 0 .. MaxGen]
Packets == [to : Sides, gen : 0 .. MaxGen, kind : {"hello", "serverHello", "finish"}]
SecureStates == {"Idle", "ClientHello", "ServerHello", "Established"}

Absent == [st |-> "absent", gen |-> 0, unsent |-> <<>>, described |-> FALSE, connected |-> FALSE,
           echo |-> FALSE, echoGen |-> 0, recent |-> FALSE, sec |-> "Idle"]
Gone == [Absent EXCEPT !.st = "gone"]

\* A new IceAgent: its description and candidates wait to be popped.
NewAgent(l, g) ==
    [l EXCEPT !.gen = g, !.unsent = <<"description", "candidates">>,
              !.described = FALSE, !.connected = FALSE, !.recent = TRUE, !.echo = FALSE]

Admitted == NewAgent([Absent EXCEPT !.st = "open"], 0)
Open(s) == link[s].st = "open"
Established(s) == link[s].sec = "Established"

Direct(s) == Open(s) /\ link[s].connected /\ link[s].echo /\ Established(s)

\* Packets to an agent that was replaced are never read.
Reachable(l) == {p \in air : p.gen >= l[p.to].gen /\ l[p.to].st # "gone"}

Init ==
    /\ cloud \in BOOLEAN
    /\ link = [s \in Sides |-> Absent]
    /\ chan = [s \in Sides |-> <<>>]
    /\ air = {} /\ drops = 0 /\ missed = FALSE

(***************************************************************************)
(* Membership.                                                             *)
(***************************************************************************)
\* The welcome or the peer_joined notice names the other player.
MeshAdmit(s) ==
    /\ link[s].st = "absent"
    /\ link' = [link EXCEPT ![s] = Admitted]
    /\ UNCHANGED <<cloud, chan, air, drops, missed>>

\* The other player left, or in a cloud room the link took too long and the
\* player left itself: the entry goes, and an id is never admitted again.
MeshRemove(s) ==
    /\ Open(s)
    /\ link[Other(s)].st = "gone" \/ (cloud /\ ~Direct(s))
    /\ link' = [link EXCEPT ![s] = Gone]
    /\ air' = Reachable(link')
    /\ UNCHANGED <<cloud, chan, drops, missed>>

Leave(s) ==
    /\ Open(s) /\ link[Other(s)].st = "open" /\ drops < MaxDrops
    /\ link' = [link EXCEPT ![s] = Gone]
    /\ air' = Reachable(link')
    /\ drops' = drops + 1
    /\ UNCHANGED <<cloud, chan, missed>>

(***************************************************************************)
(* Signals.                                                                *)
(***************************************************************************)
\* mesh_pop_signal: the agent's next signal, with the current generation.
PopSignal(s) ==
    /\ Open(s) /\ link[s].unsent # <<>>
    /\ chan' = [chan EXCEPT ![Other(s)] = Append(@, [kind |-> Head(link[s].unsent), gen |-> link[s].gen])]
    /\ link' = [link EXCEPT ![s].unsent = Tail(@)]
    /\ UNCHANGED <<cloud, air, drops, missed>>

\* A cloud room drops what it forwards to a player whose socket is down.
LoseSignal(s) ==
    /\ cloud /\ chan[s] # <<>> /\ drops < MaxDrops
    /\ chan' = [chan EXCEPT ![s] = Tail(@)]
    /\ drops' = drops + 1
    /\ missed' = (missed \/ Head(chan[s]).kind = "description")
    /\ UNCHANGED <<cloud, link, air>>

\* IceAgent::signal: one description, candidates only after it.
AgentTakes(l, sig) ==
    CASE sig.kind = "description" /\ ~l.described -> [l EXCEPT !.described = TRUE]
      [] OTHER -> l

\* mesh_signal: another generation is refused, except that hi follows a
\* description of the next one when its own agent is older than a second.
FollowsReusingAgent(s, l, sig) ==
    IF sig.gen = l.gen THEN AgentTakes(l, sig)
    ELSE IF s = "hi" /\ sig.kind = "description" /\ sig.gen = l.gen + 1 /\ ~l.recent
         THEN AgentTakes([l EXCEPT !.gen = sig.gen], sig) ELSE l
Follows(s, l, sig) ==
    IF sig.gen = l.gen THEN AgentTakes(l, sig)
    ELSE IF s = "hi" /\ sig.kind = "description" /\ sig.gen = l.gen + 1 /\ ~l.recent
         THEN AgentTakes(NewAgent(l, sig.gen), sig) ELSE l

\* handle_primary_message, ice_signal: in a cloud room a description from a
\* player whose joining was missed admits it first.
OnSignal(s) ==
    /\ chan[s] # <<>>
    /\ LET sig == Head(chan[s])
           l == IF link[s].st = "absent" /\ cloud /\ sig.kind = "description" THEN Admitted ELSE link[s]
           after == IF l.st = "open" THEN Follows(s, l, sig) ELSE l
       IN /\ link' = [link EXCEPT ![s] = after]
          /\ missed' = (missed \/ (sig.kind = "description"
                                   /\ (l.st # "open" \/ (sig.gen # l.gen /\ l.recent))))
    /\ chan' = [chan EXCEPT ![s] = Tail(@)]
    /\ air' = Reachable(link')
    /\ UNCHANGED <<cloud, drops>>

\* pump_mesh, or mesh_retry after six seconds in a cloud room: lo starts the
\* next generation.  What its old agent had not sent yet is lost with it.
Regenerated(l) == NewAgent(l, l.gen + 1)
Retry ==
    LET l == link["lo"] IN
    /\ Open("lo") /\ ~Direct("lo") /\ l.gen < MaxGen
    /\ link' = [link EXCEPT !["lo"] = Regenerated(l)]
    /\ missed' = (missed \/ l.unsent = <<"description", "candidates">>)
    /\ air' = Reachable(link')
    /\ UNCHANGED <<cloud, chan, drops>>

(***************************************************************************)
(* The agents' connection (libjuice) and what runs over it.                *)
(***************************************************************************)
\* Two agents connect when each holds the other's description.
Connect(s) ==
    LET l == link[s]  o == link[Other(s)] IN
    /\ Open(s) /\ Open(Other(s)) /\ l.described /\ o.described /\ l.gen = o.gen /\ ~l.connected
    /\ link' = [link EXCEPT ![s].connected = TRUE]
    /\ UNCHANGED <<cloud, chan, air, drops, missed>>

Drop(s) ==
    /\ Open(s) /\ link[s].connected /\ drops < MaxDrops
    /\ link' = [link EXCEPT ![s].connected = FALSE]
    /\ drops' = drops + 1
    /\ UNCHANGED <<cloud, chan, air, missed>>

Send(s, kinds) == air' = air \cup {[to |-> Other(s), gen |-> link[s].gen, kind |-> k] : k \in kinds}

\* A probe goes to the other end's agent and its echo comes back.
RoundTrip(s) ==
    /\ Open(s) /\ Open(Other(s)) /\ link[s].gen = link[Other(s)].gen
    /\ link[s].connected /\ link[Other(s)].connected
    /\ link' = [link EXCEPT ![s].echo = TRUE, ![s].echoGen = link[s].gen]
    /\ UNCHANGED <<cloud, chan, air, drops, missed>>

\* pump_mesh: lo begins the exchange, then either end repeats its packet while
\* it is not established.
RetryOf(sec) == CASE sec = "ClientHello" -> {"hello"} [] sec = "ServerHello" -> {"serverHello"} [] OTHER -> {}
PumpSecure(s) ==
    LET begun == IF s = "lo" /\ link[s].sec = "Idle" THEN "ClientHello" ELSE link[s].sec IN
    /\ Open(s) /\ link[s].connected /\ ~Established(s)
    /\ link' = [link EXCEPT ![s].sec = begun]
    /\ Send(s, RetryOf(begun))
    /\ UNCHANGED <<cloud, chan, drops, missed>>

\* SecureDatagram::handshake at either end.
Handshake(s, sec, kind) ==
    CASE s = "hi" /\ kind = "hello" /\ sec \in {"Idle", "ServerHello"} -> <<"ServerHello", {"serverHello"}>>
      [] s = "lo" /\ kind = "serverHello" /\ sec \in {"ClientHello", "Established"} -> <<"Established", {"finish"}>>
      [] s = "hi" /\ kind = "finish" /\ sec = "ServerHello" -> <<"Established", {}>>
      [] OTHER -> <<sec, {}>>

\* pump_mesh pops what the current agent received; an answer needs it connected.
Receive(p) ==
    LET s == p.to
        h == Handshake(s, link[s].sec, p.kind)
    IN /\ Open(s) /\ link[s].gen = p.gen
       /\ link' = [link EXCEPT ![s].sec = h[1]]
       /\ Send(s, IF link[s].connected THEN h[2] ELSE {})
       /\ UNCHANGED <<cloud, chan, drops, missed>>

(***************************************************************************)
(* Time.                                                                   *)
(***************************************************************************)
Age(s) ==
    /\ Open(s) /\ link[s].recent
    /\ link' = [link EXCEPT ![s].recent = FALSE]
    /\ UNCHANGED <<cloud, chan, air, drops, missed>>

EchoExpires(s) ==
    /\ Open(s) /\ link[s].echo
    /\ link' = [link EXCEPT ![s].echo = FALSE]
    /\ UNCHANGED <<cloud, chan, air, drops, missed>>

Next ==
    \/ \E s \in Sides : \/ MeshAdmit(s) \/ MeshRemove(s) \/ Leave(s)
                        \/ PopSignal(s) \/ LoseSignal(s) \/ OnSignal(s)
                        \/ Connect(s) \/ Drop(s) \/ RoundTrip(s) \/ PumpSecure(s)
                        \/ Age(s) \/ EchoExpires(s)
    \/ Retry
    \/ \E p \in air : Receive(p)

Spec == Init /\ [][Next]_vars
-----------------------------------------------------------------------------
\* The state is well formed, hi never runs ahead of lo, and only lo's end of
\* the key exchange initiates it.
TypeOK ==
    /\ link \in [Sides -> [st : {"absent", "open", "gone"}, gen : 0 .. MaxGen,
                           unsent : {<<>>, <<"candidates">>, <<"description", "candidates">>},
                           described : BOOLEAN, connected : BOOLEAN, echo : BOOLEAN,
                           echoGen : 0 .. MaxGen, recent : BOOLEAN, sec : SecureStates]]
    /\ \A s \in Sides : Range(chan[s]) \subseteq Signals
    /\ air \subseteq Packets
    /\ drops \in 0 .. MaxDrops
    /\ Open("lo") /\ Open("hi") => link["hi"].gen <= link["lo"].gen
    /\ link["lo"].sec # "ServerHello" /\ link["hi"].sec # "ClientHello"

\* Two agents that hold each other's descriptions were made for each other: an
\* agent keeps its own description until it is sent with its own generation, so
\* hi's answer reaches the agent it answers and no other.
SignalsMatchAgents ==
    \A s \in Sides : Open(s) /\ Open(Other(s)) /\ link[s].gen = link[Other(s)].gen =>
        /\ link[s].described => link[Other(s)].unsent # <<"description", "candidates">>
        /\ ~link[s].described /\ ~missed =>
             \/ link[Other(s)].unsent = <<"description", "candidates">>
             \/ \E i \in 1 .. Len(chan[s]) : chan[s][i] = [kind |-> "description", gen |-> link[s].gen]

\* Until a description of lo was lost, refused as too early or replaced before
\* it was sent, the two can meet in lo's generation: every description hi still
\* has to follow is on its way.  After such a miss nothing brings hi past the
\* gap, because it follows one generation at a time.
CanMeet ==
    ~missed /\ Open("lo") /\ Open("hi") =>
        \A g \in link["hi"].gen + 1 .. link["lo"].gen :
            \/ g = link["lo"].gen /\ link["lo"].unsent = <<"description", "candidates">>
            \/ \E i \in 1 .. Len(chan["hi"]) : chan["hi"][i] = [kind |-> "description", gen |-> g]

\* Traffic goes direct only after a round trip through the agent in use, not
\* through one it replaced.
DirectHasRoundTrip == \A s \in Sides : Direct(s) => link[s].echoGen = link[s].gen

\* A new generation keeps the keys: whatever it interrupted, one end repeats a
\* packet from which the two ends finish the same exchange.
CanStillFinish ==
    Open("lo") /\ Open("hi") /\ ~(Established("lo") /\ Established("hi")) =>
        LET lo == link["lo"].sec
            started == IF lo = "Idle" THEN "ClientHello" ELSE lo
            hi == IF started = "ClientHello" THEN Handshake("hi", link["hi"].sec, "hello")[1] ELSE link["hi"].sec
            answered == IF RetryOf(hi) = {} THEN started ELSE Handshake("lo", started, "serverHello")[1]
        IN answered = "Established" /\ Handshake("hi", hi, "finish")[1] = "Established"
=============================================================================
