-------------------------- MODULE UdpSessionProofs --------------------------
(***************************************************************************)
(* The safety of the UDP session, for every number of clients and peers,   *)
(* every width of the window and every bound, over a network that loses,   *)
(* duplicates and reorders.                                                *)
(*                                                                         *)
(* Inv is inductive.  Its core is Linked: what a packet under way proves   *)
(* of its sender, and what each end proves of the other.  None of the      *)
(* properties is inductive alone: that the client of an admitted peer is   *)
(* established follows from the finish it sent (PacketOk), which follows   *)
(* from the server's hello it answered, which follows from the session the *)
(* client echoed before (PeerOk).  A fact about an end must survive the    *)
(* end's closing, since its packets do.                                    *)
(***************************************************************************)
EXTENDS UdpSession, SequenceLemmas, FiniteSetTheorems, TLAPS

\* The types of the two ends and of the packets.
ClientEnds == [st : {"none", "open", "ready", "closed"}, session : 0 .. MaxPeers, sec : Secure]
PeerEnds == [st : {"none", "open", "ready", "closed", "gone"}, addr : Clients,
             accepted : BOOLEAN, sec : Secure]

Controls == [to : {"server", "client"}, addr : Clients, kind : {"control"},
             type : {1, 2, 3, 4, 6}, session : 0 .. MaxPeers]
Hellos == [to : {"server"}, addr : Clients, kind : {"hello"}]
ServerHellos == [to : {"client"}, addr : Clients, kind : {"serverHello"}, key : Ids]
Finishes == [to : {"server"}, addr : Clients, kind : {"finish"}, key : Ids]
Sealeds == [to : {"server", "client"}, addr : Clients, kind : {"sealed"}, session : Ids,
            counter : 0 .. MaxSeals, body : {5, 6}]
Packets == UNION {Controls, Hellos, ServerHellos, Finishes, Sealeds}

Ends == {"client", "server"}
Counts == [Clients -> [Ends -> [0 .. MaxSeals -> Nat]]]

Types ==
  /\ client \in [Clients -> ClientEnds] /\ peer \in [Ids -> PeerEnds]
  /\ net \in SUBSET Packets /\ opened \in Counts
  /\ accepted \in Seq(Ids) /\ joined \in Seq(Ids)
  /\ lost \in 0 .. MaxLost /\ timeouts \in 0 .. MaxTimeouts

-----------------------------------------------------------------------------
\* The inductive invariant, over the clients' ends cl and the server's ends pr.

\* The client of the peer has echoed the session.
Confirmed(f) == f.st \notin {"none", "open"}

\* What a packet under way proves of its sender.
PacketOk(cl, pr, p) ==
  /\ p.kind = "control" /\ p.to = "server" /\ p.type = 3 =>
       p.session # 0 /\ cl[p.addr].session = p.session
  /\ p.kind = "control" /\ p.to = "client" /\ p.type = 2 => p.session \in Ids
  /\ p.kind = "control" /\ p.to = "client" /\ p.type = 4 =>
       p.session \in Ids /\ Confirmed(pr[p.session])
  /\ p.kind = "serverHello" => pr[p.key].sec.st # "Idle" /\ pr[p.key].addr = p.addr
  /\ p.kind = "finish" => Established(cl[p.addr]) /\ cl[p.addr].sec.remote = p.key
  /\ p.kind = "sealed" /\ p.to = "server" =>
       Established(cl[p.addr]) /\ cl[p.addr].session = p.session

\* What the end of a client proves of its peer.
ClientOk(cl, pr, c) ==
  /\ cl[c].st \in {"none", "open"} => cl[c].sec.st = "Idle"
  /\ cl[c].sec.st # "ServerHello"
  /\ cl[c].st = "ready" => /\ cl[c].sec.st # "Idle" /\ cl[c].session \in Ids
                           /\ Confirmed(pr[cl[c].session])
  /\ Established(cl[c]) =>
       /\ cl[c].sec.remote \in Ids /\ cl[c].session = cl[c].sec.remote
       /\ pr[cl[c].sec.remote].addr = c /\ pr[cl[c].sec.remote].sec.st # "Idle"
  /\ ~Established(cl[c]) => cl[c].sec.seen = FALSE

\* And what the server's end proves of its client.
PeerOk(cl, pr, i) ==
  /\ pr[i].st = "ready" => cl[pr[i].addr].session = i
  /\ pr[i].sec.st # "Idle" =>
       /\ cl[pr[i].addr].session = i /\ pr[i].sec.remote = pr[i].addr
       /\ pr[i].addr \in Invited /\ Confirmed(pr[i])
  /\ pr[i].sec.st # "ClientHello"
  /\ Established(pr[i]) => Established(cl[pr[i].addr]) /\ cl[pr[i].addr].sec.remote = i
  /\ pr[i].accepted => Established(pr[i])
  /\ ~Established(pr[i]) => pr[i].sec.seen = FALSE /\ pr[i].sec.window = {}

Linked == /\ \A p \in net : PacketOk(client, peer, p)
          /\ \A c \in Clients : ClientOk(client, peer, c)
          /\ \A i \in Ids : PeerOk(client, peer, i)

Live(f) == f.st \in {"open", "ready"}

\* A free slot was there for every peer, and an address has one live peer.
Slots == /\ Cardinality(Peers) <= Capacity
         /\ \A i, j \in Ids : Live(peer[i]) /\ Live(peer[j]) /\ peer[i].addr = peer[j].addr => i = j

\* Who waits for accept or was returned by it is marked, and is there once.
Queued == /\ \A k \in DOMAIN accepted : peer[accepted[k]].accepted
          /\ \A k \in DOMAIN joined : peer[joined[k]].accepted
          /\ \A k, n \in DOMAIN accepted : accepted[k] = accepted[n] => k = n
          /\ \A k, n \in DOMAIN joined : joined[k] = joined[n] => k = n
          /\ \A k \in DOMAIN accepted, n \in DOMAIN joined : accepted[k] # joined[n]

\* The window of an end against the history of what it has opened.
Was(c, end) == {n \in 0 .. MaxSeals : opened[c][end][n] > 0}

Exact(s, was) ==
  /\ s.seen <=> was # {}
  /\ ~s.seen => s.window = {}
  /\ s.seen => /\ s.highest \in was /\ \A k \in was : k <= s.highest
               /\ s.window = {d \in 0 .. Window - 1 : s.highest - d \in was}

History ==
  /\ \A c \in Clients : Exact(client[c].sec, Was(c, "client"))
  /\ \A i \in Ids : Established(peer[i]) => Exact(peer[i].sec, Was(peer[i].addr, "server"))
  /\ \A c \in Clients : Was(c, "server") # {} => \E i \in Ids : Established(peer[i]) /\ peer[i].addr = c

Inv == Types /\ Linked /\ Slots /\ Queued /\ History

-----------------------------------------------------------------------------
\* The assumptions on the constants, one by one.
LEMMA Bounds ==
  /\ Invited \subseteq Clients /\ Clients # {}
  /\ Capacity \in Nat \ {0} /\ MaxPeers \in Nat \ {0} /\ Window \in Nat \ {0}
  /\ MaxSeals \in Nat /\ MaxLost \in Nat /\ MaxTimeouts \in Nat
BY InvitedAssumption, BoundsAssumption

\* A datagram can be opened exactly when it is new and not too old.
LEMMA OpensExactly ==
  ASSUME NEW s \in Secure, NEW was \in SUBSET (0 .. MaxSeals), Exact(s, was),
         NEW n \in 0 .. MaxSeals
  PROVE  CanOpen(s, n) <=> (n \notin was /\ \A k \in was : k < n + Window)
<1>1. /\ s.highest \in 0 .. MaxSeals /\ MaxSeals \in Nat /\ Window \in Nat \ {0}
      /\ s.seen \in BOOLEAN
  BY Bounds DEF Secure
<1>2. CASE ~s.seen
  BY <1>2 DEF CanOpen, Exact
<1>3. CASE s.seen /\ n > s.highest
  BY <1>1, <1>3 DEF CanOpen, Exact
<1>4. CASE s.seen /\ n <= s.highest
  <2> DEFINE d == s.highest - n
  <2>1. d \in Nat /\ s.highest - d = n
    BY <1>1, <1>4
  <2>2. d < Window => (d \in s.window <=> n \in was)
    BY <1>1, <1>4, <2>1 DEF Exact
  <2>3. CanOpen(s, n) <=> d < Window /\ d \notin s.window
    BY <1>1, <1>4, <2>1 DEF CanOpen
  <2>4. d < Window <=> s.highest < n + Window
    BY <1>1
  <2>5. (\A k \in was : k < n + Window) <=> s.highest < n + Window
    BY <1>1, <1>4 DEF Exact
  <2> QED BY <2>2, <2>3, <2>4, <2>5
<1> QED BY <1>1, <1>2, <1>3, <1>4

\* Opening one keeps the window exact.
LEMMA MarksExactly ==
  ASSUME NEW s \in Secure, NEW was \in SUBSET (0 .. MaxSeals), Exact(s, was),
         NEW n \in 0 .. MaxSeals, CanOpen(s, n)
  PROVE  /\ Mark(s, n) \in Secure /\ Exact(Mark(s, n), was \cup {n})
         /\ Mark(s, n).st = s.st /\ Mark(s, n).remote = s.remote
<1> DEFINE t == Mark(s, n)
<1>1. /\ s.highest \in 0 .. MaxSeals /\ MaxSeals \in Nat /\ Window \in Nat \ {0}
      /\ s.seen \in BOOLEAN /\ s.window \in SUBSET (0 .. Window - 1)
  BY Bounds DEF Secure
<1>2. CASE s.seen /\ n <= s.highest
  <2>1. s.highest - n \in 0 .. Window - 1
    BY <1>1, <1>2 DEF CanOpen
  <2> DEFINE w == s.window \cup {s.highest - n}
  <2>2. w \in SUBSET (0 .. Window - 1)
    BY <1>1, <2>1
  <2>3. t = [s EXCEPT !.window = w]
    BY <1>2 DEF Mark
  <2>4. w = {d \in 0 .. Window - 1 : s.highest - d \in was \cup {n}}
    BY <1>1, <1>2, <2>1 DEF Exact
  <2> HIDE DEF w, t
  <2>5. /\ t \in Secure /\ t.st = s.st /\ t.remote = s.remote /\ t.seen = s.seen
        /\ t.highest = s.highest /\ t.window = w
    BY <2>2, <2>3 DEF Secure
  <2>6. Exact(t, was \cup {n})
    BY <1>2, <2>4, <2>5 DEF Exact
  <2> QED BY <2>5, <2>6 DEF t
<1>3. CASE ~(s.seen /\ n <= s.highest)
  <2> DEFINE w == {0} \cup {d \in 0 .. Window - 1 : d >= n - s.highest
                                               /\ d - (n - s.highest) \in s.window}
  <2>1. w \in SUBSET (0 .. Window - 1)
    BY <1>1
  <2>2. t = [s EXCEPT !.seen = TRUE, !.highest = n, !.window = w]
    BY <1>3 DEF Mark
  <2>3. s.seen => w = {d \in 0 .. Window - 1 : n - d \in was \cup {n}}
    <3> SUFFICES ASSUME s.seen, NEW d \in 0 .. Window - 1
                 PROVE  d \in w <=> n - d \in was \cup {n}
      BY <2>1
    <3> DEFINE k == d - (n - s.highest)
    <3>1. n > s.highest /\ s.highest - k = n - d /\ k \in Int /\ k < d
      BY <1>1, <1>3
    <3>2. k \in s.window <=> k \in 0 .. Window - 1 /\ n - d \in was
      BY <3>1 DEF Exact
    <3>3. n - d \in was => n - d <= s.highest
      BY DEF Exact
    <3>4. n - d <= s.highest <=> k >= 0
      BY <1>1
    <3>5. d >= n - s.highest <=> k >= 0
      BY <1>1
    <3>6. n - d \in was <=> k >= 0 /\ k \in s.window
      BY <1>1, <3>1, <3>2, <3>3, <3>4
    <3>7. d \in w <=> d = 0 \/ (k >= 0 /\ k \in s.window)
      BY <3>5
    <3>8. n - d = n <=> d = 0
      BY <1>1
    <3> QED BY <3>6, <3>7, <3>8
  <2>4. ~s.seen => w = {d \in 0 .. Window - 1 : n - d \in was \cup {n}}
    <3> SUFFICES ASSUME ~s.seen, NEW d \in 0 .. Window - 1
                 PROVE  d \in w <=> n - d \in was \cup {n}
      BY <2>1
    <3>1. was = {} /\ s.window = {}
      BY DEF Exact
    <3>2. n - d = n <=> d = 0
      BY <1>1
    <3> QED BY <3>1, <3>2
  <2> HIDE DEF w, t
  <2>5. /\ t \in Secure /\ t.st = s.st /\ t.remote = s.remote /\ t.seen = TRUE
        /\ t.highest = n /\ t.window = w
    BY <2>1, <2>2 DEF Secure
  <2>6. \A k \in was \cup {n} : k <= n
    BY <1>1, <1>3 DEF Exact
  <2>7. Exact(t, was \cup {n})
    BY <1>1, <2>3, <2>4, <2>5, <2>6 DEF Exact
  <2> QED BY <2>5, <2>7 DEF t
<1> QED BY <1>2, <1>3

-----------------------------------------------------------------------------
SameWindow(s, t) == s.seen = t.seen /\ s.highest = t.highest /\ s.window = t.window

\* A window that did not move still agrees with what was opened.
LEMMA SameWindowExact ==
  ASSUME NEW s, NEW t, SameWindow(s, t), NEW was, Exact(s, was)
  PROVE  Exact(t, was)
BY DEF SameWindow, Exact

\* What is known of the packets, of the other clients and of the peers is still
\* known when a client's end goes on.
LEMMA ClientMoves ==
  ASSUME Inv, NEW c \in Clients, NEW e \in ClientEnds, client' = [client EXCEPT ![c] = e],
         peer' = peer,
         client[c].session # 0 => e.session = client[c].session,
         Established(client[c]) => Established(e) /\ e.sec.remote = client[c].sec.remote,
         ClientOk(client', peer, c),
         NEW ps \in SUBSET Packets, net' \subseteq net \cup ps,
         \A p \in ps : PacketOk(client', peer, p)
  PROVE  /\ client' \in [Clients -> ClientEnds] /\ net' \in SUBSET Packets /\ Linked'
         /\ client'[c] = e /\ \A d \in Clients : d # c => client'[d] = client[d]
<1>1. /\ client' \in [Clients -> ClientEnds] /\ net' \in SUBSET Packets
      /\ client'[c] = e /\ \A d \in Clients : d # c => client'[d] = client[d]
  BY DEF Inv, Types
<1>2. \A d \in Clients : /\ client[d].session # 0 => client'[d].session = client[d].session
                         /\ Established(client[d]) => Established(client'[d])
                              /\ client'[d].sec.remote = client[d].sec.remote
                              /\ client'[d].session = client[d].session
  <2>1. Established(client[c]) => client[c].session # 0
    BY DEF Inv, Linked, ClientOk, Ids
  <2> QED BY <1>1, <2>1
<1>3. ASSUME NEW p \in net' PROVE PacketOk(client', peer', p)
  <2>1. CASE p \in ps
    BY <2>1
  <2>2. CASE p \in net
    <3>1. PacketOk(client, peer, p) /\ p \in Packets
      BY <2>2 DEF Inv, Types, Linked
    <3>2. p.addr \in Clients
      BY <3>1 DEF Packets, Controls, Hellos, ServerHellos, Finishes, Sealeds
    <3> QED BY <1>2, <3>1, <3>2 DEF PacketOk
  <2> QED BY <2>1, <2>2
<1>4. ASSUME NEW d \in Clients PROVE ClientOk(client', peer', d)
  <2>1. CASE d = c
    BY <2>1
  <2>2. CASE d # c
    <3>1. ClientOk(client, peer, d) /\ client'[d] = client[d]
      BY <1>1, <2>2 DEF Inv, Linked
    <3> QED BY <3>1 DEF ClientOk
  <2> QED BY <2>1, <2>2
<1>5. ASSUME NEW i \in Ids PROVE PeerOk(client', peer', i)
  <2>1. PeerOk(client, peer, i) /\ peer[i].addr \in Clients /\ i # 0
    BY DEF Inv, Linked, Types, PeerEnds, Ids
  <2> QED BY <1>2, <2>1 DEF PeerOk
<1> QED BY <1>1, <1>3, <1>4, <1>5 DEF Linked

\* A client's step that opens no datagram and leaves the application alone.
LEMMA ClientStep ==
  ASSUME Inv, NEW c \in Clients, NEW e \in ClientEnds, client' = [client EXCEPT ![c] = e],
         peer' = peer,
         client[c].session # 0 => e.session = client[c].session,
         Established(client[c]) => Established(e) /\ e.sec.remote = client[c].sec.remote,
         ClientOk(client', peer, c),
         NEW ps \in SUBSET Packets, net' \subseteq net \cup ps,
         \A p \in ps : PacketOk(client', peer, p),
         SameWindow(client[c].sec, e.sec),
         UNCHANGED <<accepted, joined, opened>>,
         lost' \in 0 .. MaxLost, timeouts' \in 0 .. MaxTimeouts
  PROVE  Inv'
<1>1. /\ client' \in [Clients -> ClientEnds] /\ net' \in SUBSET Packets /\ Linked'
      /\ client'[c] = e /\ \A d \in Clients : d # c => client'[d] = client[d]
  BY ClientMoves
<1>2. Types'
  BY <1>1 DEF Inv, Types
<1>3. Slots' /\ Queued'
  BY DEF Inv, Slots, Peers, Queued
<1>4. History'
  <2>1. \A d \in Clients, end \in Ends : Was(d, end)' = Was(d, end)
    BY DEF Was
  <2>2. ASSUME NEW d \in Clients PROVE Exact(client'[d].sec, Was(d, "client"))
    <3>1. Exact(client[d].sec, Was(d, "client"))
      BY DEF Inv, History
    <3>2. SameWindow(client[d].sec, client'[d].sec)
      BY <1>1 DEF SameWindow
    <3> QED BY <3>1, <3>2, SameWindowExact
  <2>3. \A i \in Ids : peer[i].addr \in Clients
    BY DEF Inv, Types, PeerEnds
  <2> QED BY <2>1, <2>2, <2>3 DEF Inv, History, Ends
<1> QED BY <1>1, <1>2, <1>3, <1>4 DEF Inv

\* The same for the server's end of a connection.
LEMMA PeerMoves ==
  ASSUME Inv, NEW i \in Ids, NEW f \in PeerEnds, peer' = [peer EXCEPT ![i] = f],
         client' = client,
         peer[i].st # "none" => f.addr = peer[i].addr,
         Confirmed(peer[i]) => Confirmed(f),
         peer[i].sec.st # "Idle" => f.sec.st # "Idle",
         PeerOk(client, peer', i),
         NEW ps \in SUBSET Packets, net' \subseteq net \cup ps,
         \A p \in ps : PacketOk(client, peer', p)
  PROVE  /\ peer' \in [Ids -> PeerEnds] /\ net' \in SUBSET Packets /\ Linked'
         /\ peer'[i] = f /\ \A j \in Ids : j # i => peer'[j] = peer[j]
<1>1. /\ peer' \in [Ids -> PeerEnds] /\ net' \in SUBSET Packets
      /\ peer'[i] = f /\ \A j \in Ids : j # i => peer'[j] = peer[j]
  BY DEF Inv, Types
<1>2. \A j \in Ids : /\ Confirmed(peer[j]) => Confirmed(peer'[j])
                     /\ peer[j].sec.st # "Idle" => peer'[j].sec.st # "Idle" /\ peer'[j].addr = peer[j].addr
  <2>1. peer[i].sec.st # "Idle" => peer[i].st # "none"
    BY DEF Inv, Linked, PeerOk, Confirmed
  <2> QED BY <1>1, <2>1
<1>3. ASSUME NEW p \in net' PROVE PacketOk(client', peer', p)
  <2>1. CASE p \in ps
    BY <2>1
  <2>2. CASE p \in net
    <3>1. PacketOk(client, peer, p) /\ p \in Packets
      BY <2>2 DEF Inv, Types, Linked
    <3>2. p.kind = "serverHello" => p.key \in Ids
      BY <3>1 DEF Packets, Controls, Hellos, ServerHellos, Finishes, Sealeds
    <3> QED BY <1>2, <3>1, <3>2 DEF PacketOk
  <2> QED BY <2>1, <2>2
<1>4. ASSUME NEW d \in Clients PROVE ClientOk(client', peer', d)
  <2>1. ClientOk(client, peer, d)
    BY DEF Inv, Linked
  <2> QED BY <1>2, <2>1 DEF ClientOk
<1>5. ASSUME NEW j \in Ids PROVE PeerOk(client', peer', j)
  <2>1. CASE j = i
    BY <2>1
  <2>2. CASE j # i
    <3>1. PeerOk(client, peer, j) /\ peer'[j] = peer[j]
      BY <1>1, <2>2 DEF Inv, Linked
    <3> QED BY <3>1 DEF PeerOk
  <2> QED BY <2>1, <2>2
<1> QED BY <1>1, <1>3, <1>4, <1>5 DEF Linked

\* A peer that was there keeps its slot and its address, or gives them up.
LEMMA SlotsStay ==
  ASSUME Inv, NEW i \in Ids, NEW f \in PeerEnds, peer' = [peer EXCEPT ![i] = f],
         f.addr = peer[i].addr, Live(f) => Live(peer[i]),
         f.st \in {"open", "ready", "closed"} => peer[i].st \in {"open", "ready", "closed"}
  PROVE  Slots'
<1>1. \A j \in Ids : peer'[j] = IF j = i THEN f ELSE peer[j]
  BY DEF Inv, Types
<1>2. IsFiniteSet(Peers)
  <2>1. IsFiniteSet(Ids)
    BY Bounds, FS_Interval DEF Ids
  <2>2. Peers \in SUBSET Ids
    BY DEF Peers
  <2> QED BY <2>1, <2>2, FS_Subset
<1>3. Peers' \in SUBSET Peers
  BY <1>1 DEF Peers
<1>4. Cardinality(Peers') <= Cardinality(Peers) /\ Cardinality(Peers') \in Nat /\ Cardinality(Peers) \in Nat
  BY <1>2, <1>3, FS_Subset, FS_CardinalityType
<1>5. Cardinality(Peers') <= Capacity
  BY <1>4, Bounds DEF Inv, Slots
<1>6. \A j, k \in Ids : Live(peer'[j]) /\ Live(peer'[k]) /\ peer'[j].addr = peer'[k].addr => j = k
  BY <1>1 DEF Inv, Slots
<1> QED BY <1>5, <1>6 DEF Slots

\* A step of the server's end that opens no datagram, establishes nothing and
\* leaves the application alone.
LEMMA PeerStep ==
  ASSUME Inv, NEW i \in Ids, NEW f \in PeerEnds, peer' = [peer EXCEPT ![i] = f],
         client' = client,
         f.addr = peer[i].addr, Live(f) => Live(peer[i]),
         f.st \in {"open", "ready", "closed"} => peer[i].st \in {"open", "ready", "closed"},
         Confirmed(peer[i]) => Confirmed(f),
         peer[i].sec.st # "Idle" => f.sec.st # "Idle",
         PeerOk(client, peer', i),
         NEW ps \in SUBSET Packets, net' \subseteq net \cup ps,
         \A p \in ps : PacketOk(client, peer', p),
         SameWindow(peer[i].sec, f.sec), Established(f) <=> Established(peer[i]),
         f.accepted = peer[i].accepted,
         UNCHANGED <<accepted, joined, opened>>,
         lost' \in 0 .. MaxLost, timeouts' \in 0 .. MaxTimeouts
  PROVE  Inv'
<1>1. /\ peer' \in [Ids -> PeerEnds] /\ net' \in SUBSET Packets /\ Linked'
      /\ peer'[i] = f /\ \A j \in Ids : j # i => peer'[j] = peer[j]
  BY PeerMoves
<1>2. Types'
  BY <1>1 DEF Inv, Types
<1>3. Slots'
  BY SlotsStay
<1>4. \A j \in Ids : /\ peer'[j].accepted = peer[j].accepted /\ peer'[j].addr = peer[j].addr
                     /\ Established(peer'[j]) <=> Established(peer[j])
                     /\ SameWindow(peer[j].sec, peer'[j].sec)
  BY <1>1 DEF SameWindow
<1>5. Queued'
  <2>1. (\A k \in DOMAIN accepted : accepted[k] \in Ids) /\ (\A k \in DOMAIN joined : joined[k] \in Ids)
    BY DEF Inv, Types
  <2> QED BY <1>4, <2>1 DEF Inv, Queued
<1>6. History'
  <2>1. \A d \in Clients, end \in Ends : Was(d, end)' = Was(d, end)
    BY DEF Was
  <2>2. ASSUME NEW j \in Ids, Established(peer'[j])
        PROVE  Exact(peer'[j].sec, Was(peer'[j].addr, "server"))
    <3>1. Exact(peer[j].sec, Was(peer[j].addr, "server"))
      BY <1>4, <2>2 DEF Inv, History
    <3>2. SameWindow(peer[j].sec, peer'[j].sec)
      BY <1>4
    <3> QED BY <1>4, <3>1, <3>2, SameWindowExact
  <2>3. \A j \in Ids : peer'[j].addr \in Clients
    BY <1>1 DEF PeerEnds
  <2> QED BY <1>4, <2>1, <2>2, <2>3 DEF Inv, History, Ends
<1> QED BY <1>1, <1>2, <1>3, <1>5, <1>6 DEF Inv

-----------------------------------------------------------------------------
\* The packets an end can make.
LEMMA Makes ==
  ASSUME NEW c \in Clients, NEW i \in Ids, NEW s \in 0 .. MaxPeers
  PROVE  /\ \A type \in {1, 2, 3, 4, 6} : /\ Control("server", c, type, s) \in Packets
                                          /\ Control("client", c, type, s) \in Packets
         /\ Hello(c) \in Packets /\ ServerHello(i, c) \in Packets /\ Finish(c, i) \in Packets
         /\ \A n \in 0 .. MaxSeals, body \in {5, 6} :
              Sealed("server", c, i, n, body) \in Packets /\ Sealed("client", c, i, n, body) \in Packets
         /\ i \in 0 .. MaxPeers /\ i # 0
<1>1. i \in 0 .. MaxPeers /\ i # 0
  BY Bounds DEF Ids
<1>2. \A type \in {1, 2, 3, 4, 6} : /\ Control("server", c, type, s) \in Controls
                                    /\ Control("client", c, type, s) \in Controls
  BY DEF Control, Controls
<1>3. Hello(c) \in Hellos /\ ServerHello(i, c) \in ServerHellos /\ Finish(c, i) \in Finishes
  BY DEF Hello, Hellos, ServerHello, ServerHellos, Finish, Finishes
<1>4. \A n \in 0 .. MaxSeals, body \in {5, 6} :
        Sealed("server", c, i, n, body) \in Sealeds /\ Sealed("client", c, i, n, body) \in Sealeds
  BY DEF Sealed, Sealeds
<1> QED BY <1>1, <1>2, <1>3, <1>4 DEF Packets

\* What the invariant says of one client and of one peer.
LEMMA ClientFacts ==
  ASSUME Inv, NEW c \in Clients
  PROVE  /\ client[c] \in ClientEnds /\ client[c].sec \in Secure /\ ClientOk(client, peer, c)
         /\ client \in [Clients -> ClientEnds] /\ lost \in 0 .. MaxLost /\ timeouts \in 0 .. MaxTimeouts
BY DEF Inv, Types, Linked, ClientEnds

\* The same for a peer.
LEMMA PeerFacts ==
  ASSUME Inv, NEW i \in Ids
  PROVE  /\ peer[i] \in PeerEnds /\ peer[i].sec \in Secure /\ peer[i].addr \in Clients
         /\ PeerOk(client, peer, i)
         /\ peer \in [Ids -> PeerEnds] /\ lost \in 0 .. MaxLost /\ timeouts \in 0 .. MaxTimeouts
BY DEF Inv, Types, Linked, PeerEnds

\* The actions of a client keep the invariant.
LEMMA Connects ==
  ASSUME Inv, NEW c \in Clients, Connect(c)
  PROVE  Inv'
<1> DEFINE e == [client[c] EXCEPT !.st = "open"]
           ps == {Control("server", c, 1, 0)}
<1>1. client[c] \in ClientEnds /\ ClientOk(client, peer, c) /\ client \in [Clients -> ClientEnds]
      /\ lost \in 0 .. MaxLost /\ timeouts \in 0 .. MaxTimeouts
  BY ClientFacts
<1>2. e \in ClientEnds /\ e.sec = client[c].sec /\ e.session = client[c].session /\ e.st = "open"
  BY <1>1 DEF ClientEnds
<1>3. client' = [client EXCEPT ![c] = e] /\ client'[c] = e /\ client[c].st = "none"
      /\ net' = net \cup ps /\ UNCHANGED <<peer, accepted, joined, opened, lost, timeouts>>
  BY <1>1 DEF Connect, Transmit
<1>4. ps \in SUBSET Packets
  BY Makes, Bounds DEF Ids
<1> HIDE DEF e
<1>5. \A p \in ps : PacketOk(client', peer, p)
  BY DEF PacketOk, Control
<1>6. ClientOk(client', peer, c)
  BY <1>1, <1>2, <1>3 DEF ClientOk, Established
<1>7. SameWindow(client[c].sec, e.sec) /\ (Established(client[c]) => Established(e))
  BY <1>2 DEF SameWindow, Established
<1> HIDE DEF ps
<1> QED BY <1>1, <1>2, <1>3, <1>4, <1>5, <1>6, <1>7, ClientStep

\* A repeated packet says nothing its sender does not know still.
LEMMA ClientRetries ==
  ASSUME Inv, NEW c \in Clients, ClientRetry(c)
  PROVE  Inv'
<1> DEFINE e == client[c]
<1>1. e \in ClientEnds /\ ClientOk(client, peer, c) /\ client \in [Clients -> ClientEnds]
      /\ lost \in 0 .. MaxLost /\ timeouts \in 0 .. MaxTimeouts
  BY ClientFacts
<1>2. /\ client' = client /\ client' = [client EXCEPT ![c] = e]
      /\ UNCHANGED <<peer, accepted, joined, opened, lost, timeouts>>
  BY <1>1 DEF ClientRetry
<1>3. \E p \in Packets : net' = net \cup {p} /\ PacketOk(client', peer, p)
  <2>1. e.session \in 0 .. MaxPeers /\ 0 \in 0 .. MaxPeers /\ 1 \in Ids
    BY <1>1, Bounds DEF ClientEnds, Ids
  <2>2. CASE e.st = "open" /\ e.session = 0
    <3>1. net' = net \cup {Control("server", c, 1, 0)}
      BY <2>2 DEF ClientRetry, Transmit
    <3>2. Control("server", c, 1, 0) \in Packets
      BY <2>1, Makes
    <3>3. PacketOk(client', peer, Control("server", c, 1, 0))
      BY DEF PacketOk, Control
    <3> QED BY <3>1, <3>2, <3>3
  <2>3. CASE e.st = "open" /\ e.session # 0
    <3>1. net' = net \cup {Control("server", c, 3, e.session)}
      BY <2>3 DEF ClientRetry, Transmit
    <3>2. Control("server", c, 3, e.session) \in Packets
      BY <2>1, Makes
    <3>3. PacketOk(client', peer, Control("server", c, 3, e.session))
      BY <1>2, <2>3 DEF PacketOk, Control
    <3> QED BY <3>1, <3>2, <3>3
  <2>4. CASE e.st = "ready"
    <3>1. e.sec.st \in {"Idle", "ClientHello", "Established"} /\ e.sec.st # "Idle" /\ ~Established(e)
      BY <1>1, <2>4 DEF ClientRetry, ClientOk, ClientEnds, Secure
    <3>2. RetryPacket(c, 0, e, FALSE) = {Hello(c)}
      BY <3>1 DEF RetryPacket, Established
    <3>3. net' = net \cup {Hello(c)}
      BY <2>4, <3>2 DEF ClientRetry, Transmit
    <3>4. Hello(c) \in Packets
      BY <2>1, Makes
    <3>5. PacketOk(client', peer, Hello(c))
      BY DEF PacketOk, Hello
    <3> QED BY <3>3, <3>4, <3>5
  <2> QED BY <2>2, <2>3, <2>4 DEF ClientRetry
<1>4. PICK ps \in SUBSET Packets : net' = net \cup ps /\ \A p \in ps : PacketOk(client', peer, p)
  <2>1. PICK p \in Packets : net' = net \cup {p} /\ PacketOk(client', peer, p)
    BY <1>3
  <2>2. {p} \in SUBSET Packets /\ \A x \in {p} : PacketOk(client', peer, x)
    BY <2>1
  <2> QED BY <2>1, <2>2
<1>5. SameWindow(client[c].sec, e.sec) /\ ClientOk(client', peer, c)
  BY <1>1, <1>2 DEF SameWindow
<1>6. e = client[c]
  OBVIOUS
<1> HIDE DEF e
<1> QED BY <1>1, <1>2, <1>4, <1>5, <1>6, ClientStep

\* A sealed datagram comes from an established client.
LEMMA ClientSends ==
  ASSUME Inv, NEW c \in Clients, ClientSend(c)
  PROVE  Inv'
<1> DEFINE e == [client[c] EXCEPT !.sec.tx = @ + 1]
           ps == {Sealed("server", c, client[c].session, client[c].sec.tx, 5)}
<1>1. client[c] \in ClientEnds /\ ClientOk(client, peer, c) /\ client \in [Clients -> ClientEnds]
      /\ lost \in 0 .. MaxLost /\ timeouts \in 0 .. MaxTimeouts /\ client[c].sec \in Secure
  BY ClientFacts
<1>2. /\ Established(client[c]) /\ client[c].sec.tx < MaxSeals
      /\ client' = [client EXCEPT ![c] = e] /\ client'[c] = e
      /\ net' = net \cup ps /\ UNCHANGED <<peer, accepted, joined, opened, lost, timeouts>>
  BY <1>1 DEF ClientSend, Transmit, CanSeal, Seal
<1>3. client[c].sec.tx \in 0 .. MaxSeals /\ client[c].sec.tx + 1 \in 0 .. MaxSeals
  BY <1>1, <1>2, Bounds DEF Secure
<1>4. /\ e \in ClientEnds /\ e.session = client[c].session /\ e.st = client[c].st
      /\ e.sec.st = client[c].sec.st /\ e.sec.remote = client[c].sec.remote
      /\ SameWindow(client[c].sec, e.sec)
  BY <1>1, <1>3 DEF ClientEnds, Secure, SameWindow
<1>5. client[c].session \in Ids
  BY <1>1, <1>2 DEF ClientOk
<1>6. ps \in SUBSET Packets
  BY <1>3, <1>5, Makes, Bounds
<1> HIDE DEF e
<1>7. \A p \in ps : PacketOk(client', peer, p)
  BY <1>2, <1>4 DEF PacketOk, Sealed, Established
<1>8. ClientOk(client', peer, c)
  BY <1>1, <1>2, <1>4 DEF ClientOk, Established, SameWindow
<1>9. Established(client[c]) => Established(e)
  BY <1>4 DEF Established
<1> HIDE DEF ps
<1> QED BY <1>1, <1>2, <1>4, <1>6, <1>7, <1>8, <1>9, ClientStep

\* A farewell changes no more than the counter.
LEMMA FarewellOfClient ==
  ASSUME NEW e \in ClientEnds
  PROVE  /\ AfterControl(e) \in ClientEnds /\ AfterControl(e).session = e.session
         /\ AfterControl(e).st = e.st /\ AfterControl(e).sec.st = e.sec.st
         /\ AfterControl(e).sec.remote = e.sec.remote /\ SameWindow(e.sec, AfterControl(e).sec)
<1>1. CASE CanSeal(e)
  <2>1. e.sec \in Secure /\ e.sec.tx + 1 \in 0 .. MaxSeals
    BY <1>1, Bounds DEF CanSeal, ClientEnds, Secure
  <2>2. AfterControl(e) = [e EXCEPT !.sec.tx = @ + 1]
    BY <1>1 DEF AfterControl, Seal
  <2> QED BY <2>1, <2>2 DEF ClientEnds, Secure, SameWindow
<1>2. CASE ~CanSeal(e)
  BY <1>2 DEF AfterControl, SameWindow
<1> QED BY <1>1, <1>2

\* Nor does the server's.
LEMMA FarewellOfPeer ==
  ASSUME NEW e \in PeerEnds
  PROVE  /\ AfterControl(e) \in PeerEnds /\ AfterControl(e).addr = e.addr
         /\ AfterControl(e).accepted = e.accepted
         /\ AfterControl(e).st = e.st /\ AfterControl(e).sec.st = e.sec.st
         /\ AfterControl(e).sec.remote = e.sec.remote /\ SameWindow(e.sec, AfterControl(e).sec)
<1>1. CASE CanSeal(e)
  <2>1. e.sec \in Secure /\ e.sec.tx + 1 \in 0 .. MaxSeals
    BY <1>1, Bounds DEF CanSeal, PeerEnds, Secure
  <2>2. AfterControl(e) = [e EXCEPT !.sec.tx = @ + 1]
    BY <1>1 DEF AfterControl, Seal
  <2> QED BY <2>1, <2>2 DEF PeerEnds, Secure, SameWindow
<1>2. CASE ~CanSeal(e)
  BY <1>2 DEF AfterControl, SameWindow
<1> QED BY <1>1, <1>2

\* What the client told its peer holds when it closes.
LEMMA ClientCloses ==
  ASSUME Inv, NEW c \in Clients, ClientClose(c)
  PROVE  Inv'
<1> DEFINE a == IF client[c].st = "ready" THEN AfterControl(client[c]) ELSE client[c]
           e == Closed(a)
           ps == IF client[c].st = "ready"
                 THEN SendControl("server", c, client[c].session, client[c], 6) ELSE {}
<1>1. client[c] \in ClientEnds /\ ClientOk(client, peer, c) /\ client \in [Clients -> ClientEnds]
      /\ lost \in 0 .. MaxLost /\ timeouts \in 0 .. MaxTimeouts /\ client[c].sec \in Secure
  BY ClientFacts
<1>2. /\ client' = [client EXCEPT ![c] = e] /\ client'[c] = e /\ client[c].st \in {"open", "ready"}
      /\ net' = net \cup ps /\ UNCHANGED <<peer, accepted, joined, opened, lost>>
      /\ timeouts' \in 0 .. MaxTimeouts
  BY <1>1, Bounds DEF ClientClose, Transmit
<1>3. /\ a \in ClientEnds /\ a.session = client[c].session /\ a.sec.st = client[c].sec.st
      /\ a.sec.remote = client[c].sec.remote /\ SameWindow(client[c].sec, a.sec)
  BY <1>1, FarewellOfClient DEF SameWindow
<1> HIDE DEF a
<1>4. /\ e \in ClientEnds /\ e.session = client[c].session /\ e.st = "closed"
      /\ e.sec = a.sec
  BY <1>3 DEF ClientEnds, Closed
<1> HIDE DEF e
<1>5. ClientOk(client', peer, c)
  BY <1>1, <1>2, <1>3, <1>4 DEF ClientOk, Established, SameWindow
<1>6. \A p \in ps : p \in Packets /\ PacketOk(client', peer, p)
  <2>1. CASE client[c].st = "ready" /\ CanSeal(client[c])
    <3> DEFINE q == Sealed("server", c, client[c].session, client[c].sec.tx, 6)
    <3>1. ps = {q}
      BY <2>1 DEF SendControl, CanSeal
    <3>2. client[c].session \in Ids /\ client[c].sec.tx \in 0 .. MaxSeals
      BY <1>1, <2>1 DEF ClientOk, Secure
    <3>3. q \in Packets
      BY <3>2, Makes, Bounds
    <3>4. Established(client'[c]) /\ client'[c].session = client[c].session
      BY <1>2, <1>3, <1>4, <2>1 DEF CanSeal, Established
    <3>5. PacketOk(client', peer, q)
      BY <3>4 DEF PacketOk, Sealed
    <3> HIDE DEF q, ps
    <3> QED BY <3>1, <3>3, <3>5
  <2>2. CASE client[c].st = "ready" /\ ~Established(client[c])
    <3> DEFINE q == Control("server", c, 6, client[c].session)
    <3>1. ps = {q}
      BY <2>2 DEF SendControl
    <3>2. client[c].session \in Ids /\ client[c].session \in 0 .. MaxPeers
      BY <1>1, <2>2 DEF ClientOk, ClientEnds
    <3>3. q \in Packets
      BY <3>2, Makes
    <3>4. PacketOk(client', peer, q)
      BY DEF PacketOk, Control
    <3> HIDE DEF q, ps
    <3> QED BY <3>1, <3>3, <3>4
  <2>3. CASE client[c].st # "ready" \/ (Established(client[c]) /\ ~CanSeal(client[c]))
    BY <2>3 DEF SendControl
  <2> QED BY <2>1, <2>2, <2>3
<1>7. ps \in SUBSET Packets /\ SameWindow(client[c].sec, e.sec)
      /\ (Established(client[c]) => Established(e) /\ e.sec.remote = client[c].sec.remote)
  BY <1>3, <1>4, <1>6 DEF Established
<1> HIDE DEF ps
<1> QED BY <1>1, <1>2, <1>4, <1>5, <1>6, <1>7, ClientStep

\* A packet under way is one of those, and says what it says.
LEMMA PacketFacts ==
  ASSUME Inv, NEW p \in net
  PROVE  /\ p \in Packets /\ PacketOk(client, peer, p) /\ p.addr \in Clients
         /\ p.kind = "control" => p.session \in 0 .. MaxPeers /\ p.type \in {1, 2, 3, 4, 6}
         /\ p.kind \in {"serverHello", "finish"} => p.key \in Ids
         /\ p.kind = "sealed" => p.session \in Ids /\ p.counter \in 0 .. MaxSeals /\ p.body \in {5, 6}
<1>1. p \in Packets /\ PacketOk(client, peer, p)
  BY DEF Inv, Types, Linked
<1> QED BY <1>1 DEF Packets, Controls, Hellos, ServerHellos, Finishes, Sealeds

\* A challenge fixes the session, an accept makes it ready, a close ends it.
LEMMA ClientPlains ==
  ASSUME Inv, NEW p \in net, ClientPlain(p)
  PROVE  Inv'
<1> DEFINE c == p.addr
<1>1. /\ c \in Clients /\ PacketOk(client, peer, p) /\ p.to = "client" /\ p.kind = "control"
      /\ p.session \in 0 .. MaxPeers
  BY PacketFacts DEF ClientPlain
<1>2. client[c] \in ClientEnds /\ ClientOk(client, peer, c) /\ client \in [Clients -> ClientEnds]
      /\ lost \in 0 .. MaxLost /\ timeouts \in 0 .. MaxTimeouts /\ client[c].sec \in Secure
  BY <1>1, ClientFacts
<1>3. /\ UNCHANGED <<peer, accepted, joined, opened>> /\ ~Established(client[c])
      /\ lost' \in 0 .. MaxLost /\ timeouts' \in 0 .. MaxTimeouts
  BY <1>2 DEF ClientPlain, ClientControl
<1> HIDE DEF c
<1>4. CASE p.type = 2 /\ OnChallenge(c, p.session)
  <2> DEFINE e == [client[c] EXCEPT !.session = p.session]
             ps == {Control("server", c, 3, p.session)}
  <2>1. p.session \in Ids /\ p.session # 0
    BY <1>1, <1>4 DEF PacketOk, Ids
  <2>2. /\ client' = [client EXCEPT ![c] = e] /\ client'[c] = e /\ net' = net \cup ps
        /\ client[c].st = "open" /\ client[c].session \in {0, p.session}
    BY <1>1, <1>2, <1>4 DEF OnChallenge, Transmit
  <2>3. /\ e \in ClientEnds /\ e.session = p.session /\ e.sec = client[c].sec /\ e.st = client[c].st
    BY <1>1, <1>2 DEF ClientEnds
  <2>4. Control("server", c, 3, p.session) \in Packets
    BY <1>1, <2>1, Makes
  <2> HIDE DEF e
  <2>5. PacketOk(client', peer, Control("server", c, 3, p.session))
    BY <2>1, <2>2, <2>3 DEF PacketOk, Control
  <2>6. ClientOk(client', peer, c)
    BY <1>2, <1>3, <2>2, <2>3 DEF ClientOk, Established
  <2>7. SameWindow(client[c].sec, e.sec) /\ (client[c].session # 0 => e.session = client[c].session)
    BY <2>2, <2>3 DEF SameWindow
  <2>8. ps \in SUBSET Packets /\ \A q \in ps : PacketOk(client', peer, q)
    BY <2>4, <2>5
  <2> HIDE DEF ps
  <2> QED BY <1>1, <1>3, <2>2, <2>3, <2>6, <2>7, <2>8, ClientStep
<1>5. CASE p.type = 4 /\ client[c].session = p.session /\ OnAccept(c)
  <2> DEFINE e == [client[c] EXCEPT !.st = "ready",
                       !.sec.st = IF @ = "Idle" THEN "ClientHello" ELSE @]
             ps == IF client[c].sec.st = "Idle" THEN {Hello(c)} ELSE {}
  <2>1. p.session \in Ids /\ Confirmed(peer[p.session])
    BY <1>1, <1>5 DEF PacketOk
  <2>2. /\ client' = [client EXCEPT ![c] = e] /\ client'[c] = e /\ net' = net \cup ps
    BY <1>1, <1>2, <1>5 DEF OnAccept, Transmit
  <2>3. /\ e \in ClientEnds /\ e.session = client[c].session /\ e.st = "ready"
        /\ e.sec.st = IF client[c].sec.st = "Idle" THEN "ClientHello" ELSE client[c].sec.st
        /\ e.sec.remote = client[c].sec.remote /\ SameWindow(client[c].sec, e.sec)
    BY <1>2 DEF ClientEnds, Secure, SameWindow
  <2>4. Hello(c) \in Packets
    BY <1>1, <2>1, Makes
  <2> HIDE DEF e
  <2>5. PacketOk(client', peer, Hello(c))
    BY DEF PacketOk, Hello
  <2>6. ClientOk(client', peer, c)
    BY <1>2, <1>3, <1>5, <2>1, <2>2, <2>3 DEF ClientOk, Established, SameWindow
  <2>7. ps \in SUBSET Packets /\ \A q \in ps : PacketOk(client', peer, q)
    BY <2>4, <2>5
  <2> HIDE DEF ps
  <2> QED BY <1>1, <1>3, <2>2, <2>3, <2>6, <2>7, ClientStep
<1>6. CASE p.type = 6 /\ client[c].session = p.session /\ OnCloseAtClient(c)
  <2> DEFINE e == [client[c] EXCEPT !.st = "closed"]
  <2>1. /\ client' = [client EXCEPT ![c] = e] /\ client'[c] = e /\ net' = net
    BY <1>1, <1>2, <1>6 DEF OnCloseAtClient, Closed
  <2>2. e \in ClientEnds /\ e.session = client[c].session /\ e.st = "closed" /\ e.sec = client[c].sec
    BY <1>2 DEF ClientEnds
  <2> HIDE DEF e
  <2>3. ClientOk(client', peer, c) /\ SameWindow(client[c].sec, e.sec)
    BY <1>2, <1>3, <2>1, <2>2 DEF ClientOk, Established, SameWindow
  <2>4. {} \in SUBSET Packets /\ net' \subseteq net \cup {} /\ \A q \in {} : PacketOk(client', peer, q)
    BY <2>1
  <2> QED BY <1>1, <1>3, <2>1, <2>2, <2>3, <2>4, ClientStep
<1> QED BY <1>4, <1>5, <1>6 DEF ClientPlain, ClientControl, c

\* The server's hello establishes the client: the peer has its session already.
LEMMA ClientSecures ==
  ASSUME Inv, NEW p \in net, ClientSecure(p)
  PROVE  Inv'
<1> DEFINE c == p.addr
           h == ClientHandshake(p, client[c])
           e == [client[c] EXCEPT !.sec = h.sec]
<1>1. /\ c \in Clients /\ PacketOk(client, peer, p) /\ p.to = "client" /\ p.kind = "serverHello"
      /\ p.key \in Ids
  BY PacketFacts DEF ClientSecure
<1>2. client[c] \in ClientEnds /\ ClientOk(client, peer, c) /\ client \in [Clients -> ClientEnds]
      /\ lost \in 0 .. MaxLost /\ timeouts \in 0 .. MaxTimeouts /\ client[c].sec \in Secure
  BY <1>1, ClientFacts
<1>3. /\ client' = [client EXCEPT ![c] = e] /\ client'[c] = e /\ net' = net \cup h.reply
      /\ UNCHANGED <<peer, accepted, joined, opened, lost, timeouts>> /\ client[c].st = "ready"
  BY <1>1, <1>2 DEF ClientSecure, Transmit
\* The server's hello comes from the peer whose session the client has.
<1>4. /\ peer[p.key].sec.st # "Idle" /\ peer[p.key].addr = c /\ client[c].session = p.key
  <2>1. PeerOk(client, peer, p.key)
    BY <1>1, PeerFacts
  <2> QED BY <1>1, <2>1 DEF PacketOk, PeerOk
<1>5. Finish(c, p.key) \in Packets
  BY <1>1, Makes, Bounds
<1>6. CASE client[c].sec.st = "ClientHello" /\ c \in Invited
  <2>1. /\ h.sec = [client[c].sec EXCEPT !.st = "Established", !.remote = p.key]
        /\ h.reply = {Finish(c, p.key)}
    BY <1>6 DEF ClientHandshake
  <2>2. /\ h.sec \in Secure /\ h.sec.st = "Established" /\ h.sec.remote = p.key
        /\ SameWindow(client[c].sec, h.sec)
    BY <1>1, <1>2, <2>1 DEF Secure, SameWindow
  <2> HIDE DEF h
  <2>3. e \in ClientEnds /\ e.session = client[c].session /\ e.st = client[c].st /\ e.sec = h.sec
    BY <1>2, <2>2, SMTT(30) DEF ClientEnds
  <2> HIDE DEF e
  <2>4. ClientOk(client', peer, c)
    BY <1>1, <1>2, <1>3, <1>4, <2>2, <2>3 DEF ClientOk, Established
  <2>5. PacketOk(client', peer, Finish(c, p.key))
    BY <1>3, <2>2, <2>3 DEF PacketOk, Finish, Established
  <2>6. h.reply \in SUBSET Packets /\ \A q \in h.reply : PacketOk(client', peer, q)
    BY <1>5, <2>1, <2>5
  <2>7. ~Established(client[c]) /\ SameWindow(client[c].sec, e.sec)
    BY <1>6, <2>2, <2>3 DEF Established
  <2> HIDE DEF c
  <2> QED BY <1>1, <1>2, <1>3, <2>3, <2>4, <2>6, <2>7, ClientStep
<1>7. CASE ~(client[c].sec.st = "ClientHello" /\ c \in Invited)
  <2>1. /\ h.sec = client[c].sec
        /\ h.reply = IF Established(client[c]) /\ client[c].sec.remote = p.key
                     THEN {Finish(c, p.key)} ELSE {}
    BY <1>7 DEF ClientHandshake
  <2> HIDE DEF h
  <2>2. e = client[c] /\ client' = client
    BY <1>2, <1>3, <2>1 DEF ClientEnds
  <2>3. ASSUME Established(client[c]) /\ client[c].sec.remote = p.key
        PROVE  PacketOk(client', peer, Finish(c, p.key))
    BY <2>2, <2>3 DEF PacketOk, Finish
  <2>4. h.reply \in SUBSET Packets /\ \A q \in h.reply : PacketOk(client', peer, q)
    BY <1>5, <2>1, <2>3
  <2> HIDE DEF e, c
  <2>5. ClientOk(client', peer, c) /\ SameWindow(client[c].sec, e.sec)
    BY <1>2, <2>2 DEF SameWindow
  <2> QED BY <1>1, <1>2, <1>3, <2>2, <2>4, <2>5, ClientStep
<1> QED BY <1>6, <1>7

\* Opening a datagram adds it to what its end has opened.
CountedOnce(c, end, n) ==
  /\ opened' \in Counts
  /\ \A d \in Clients, at \in Ends, k \in 0 .. MaxSeals :
       opened'[d][at][k] > 0 <=> opened[d][at][k] > 0 \/ (d = c /\ at = end /\ k = n)

LEMMA Counted ==
  ASSUME NEW c \in Clients, NEW end \in Ends, NEW n \in 0 .. MaxSeals, opened \in Counts,
         opened' = [opened EXCEPT ![c][end][n] = @ + 1]
  PROVE  CountedOnce(c, end, n)
<1>1. opened[c] \in [Ends -> [0 .. MaxSeals -> Nat]]
  BY DEF Counts
<1>2. opened[c][end] \in [0 .. MaxSeals -> Nat]
  BY <1>1
<1>3. opened[c][end][n] \in Nat
  BY <1>2
<1> DEFINE old == opened[c][end]
           row == [old EXCEPT ![n] = old[n] + 1]
           col == [opened[c] EXCEPT ![end] = row]
<1>4. opened' = [opened EXCEPT ![c] = col]
  OBVIOUS
<1>5. old \in [0 .. MaxSeals -> Nat] /\ old[n] \in Nat
  BY <1>2, <1>3
<1> HIDE DEF old
<1>6. row \in [0 .. MaxSeals -> Nat] /\ \A k \in 0 .. MaxSeals : row[k] = IF k = n THEN old[n] + 1 ELSE old[k]
  BY <1>5
<1> HIDE DEF row
<1>7. col \in [Ends -> [0 .. MaxSeals -> Nat]]
      /\ \A at \in Ends : col[at] = IF at = end THEN row ELSE opened[c][at]
  BY <1>1, <1>6
<1> HIDE DEF col
<1>8. opened' \in Counts /\ \A d \in Clients : opened'[d] = IF d = c THEN col ELSE opened[d]
  BY <1>4, <1>7 DEF Counts
<1>9. ASSUME NEW d \in Clients, NEW at \in Ends, ~(d = c /\ at = end)
      PROVE  opened'[d][at] = opened[d][at]
  BY <1>7, <1>8, <1>9
<1>10. opened'[c][end] = row
  BY <1>7, <1>8
<1>11. \A k \in 0 .. MaxSeals : row[k] > 0 <=> old[k] > 0 \/ k = n
  <2>1. \A k \in 0 .. MaxSeals : old[k] \in Nat
    BY <1>5
  <2> QED BY <1>5, <1>6, <2>1
<1>12. \A k \in 0 .. MaxSeals : opened'[c][end][k] > 0 <=> opened[c][end][k] > 0 \/ k = n
  BY <1>10, <1>11 DEF old
<1> QED BY <1>8, <1>9, <1>12 DEF CountedOnce

\* The window follows what the client opens.
LEMMA ClientSealeds ==
  ASSUME Inv, NEW p \in net, ClientSealed(p)
  PROVE  Inv'
<1>0. SUFFICES ASSUME NEW c, NEW n, c = p.addr, n = p.counter
               PROVE  Inv'
  OBVIOUS
<1> DEFINE was == Was(c, "client")
           s == Mark(client[c].sec, n)
           e == [client[c] EXCEPT !.sec = s, !.st = IF p.body = 6 THEN "closed" ELSE @]
<1>1. c \in Clients /\ n \in 0 .. MaxSeals
  BY <1>0, PacketFacts DEF ClientSealed
<1>2. client[c] \in ClientEnds /\ ClientOk(client, peer, c) /\ client \in [Clients -> ClientEnds]
      /\ lost \in 0 .. MaxLost /\ timeouts \in 0 .. MaxTimeouts /\ client[c].sec \in Secure
  BY <1>1, ClientFacts
<1>3. /\ client' = [client EXCEPT ![c] = e] /\ client'[c] = e /\ net' = net
      /\ UNCHANGED <<peer, accepted, joined, lost, timeouts>> /\ client[c].st \in {"open", "ready"}
      /\ Established(client[c]) /\ CanOpen(client[c].sec, n)
      /\ opened' = [opened EXCEPT ![c]["client"][n] = @ + 1]
  BY <1>0, <1>1, <1>2 DEF ClientSealed, Opening
<1>4. was \in SUBSET (0 .. MaxSeals) /\ Exact(client[c].sec, was)
  BY <1>1 DEF Inv, History, Was
<1> HIDE DEF was
<1>5. /\ s \in Secure /\ Exact(s, was \cup {n}) /\ s.st = client[c].sec.st
      /\ s.remote = client[c].sec.remote
  BY <1>1, <1>2, <1>3, <1>4, MarksExactly
<1> HIDE DEF s
<1>6. /\ e \in ClientEnds /\ e.session = client[c].session /\ e.sec = s
      /\ e.st \in {client[c].st, "closed"}
  BY <1>2, <1>5 DEF ClientEnds
<1> HIDE DEF e
<1>7. ClientOk(client', peer, c)
  BY <1>2, <1>3, <1>5, <1>6 DEF ClientOk, Established
<1>8. Established(e) /\ e.sec.remote = client[c].sec.remote
  BY <1>3, <1>5, <1>6 DEF Established
<1>9. {} \in SUBSET Packets /\ net' \subseteq net \cup {} /\ \A q \in {} : PacketOk(client', peer, q)
  BY <1>3
<1>10. /\ client' \in [Clients -> ClientEnds] /\ net' \in SUBSET Packets /\ Linked'
       /\ client'[c] = e /\ \A d \in Clients : d # c => client'[d] = client[d]
  BY <1>1, <1>3, <1>6, <1>7, <1>8, <1>9, ClientMoves
<1>11. opened \in Counts /\ "client" \in Ends
  BY DEF Inv, Types, Ends
<1>12. /\ opened' \in Counts
       /\ \A d \in Clients, end \in Ends :
            Was(d, end)' = IF d = c /\ end = "client" THEN was \cup {n} ELSE Was(d, end)
  <2>1. /\ opened' \in Counts
        /\ \A d \in Clients, at \in Ends, k \in 0 .. MaxSeals :
             opened'[d][at][k] > 0 <=> opened[d][at][k] > 0 \/ (d = c /\ at = "client" /\ k = n)
    <3>1. PICK end \in Ends : end = "client"
      BY <1>11
    <3>2. opened' = [opened EXCEPT ![c][end][n] = @ + 1]
      BY <1>3, <3>1
    <3>3. CountedOnce(c, end, n)
      <4>1. c \in Clients /\ n \in 0 .. MaxSeals /\ opened \in Counts
        BY <1>1, <1>11
      <4> QED BY <4>1, <3>2, Counted
    <3> QED BY <3>1, <3>3 DEF CountedOnce
  <2>2. Was(c, "client")' = was \cup {n}
    BY <1>1, <1>11, <2>1 DEF Was, was
  <2>3. ASSUME NEW d \in Clients, NEW end \in Ends, ~(d = c /\ end = "client")
        PROVE  Was(d, end)' = Was(d, end)
    BY <2>1, <2>3 DEF Was
  <2> QED BY <2>1, <2>2, <2>3
<1>13. Types'
  BY <1>3, <1>10, <1>12 DEF Inv, Types
<1>14. Slots' /\ Queued'
  BY <1>3 DEF Inv, Slots, Peers, Queued
<1>15. History'
  <2>1. ASSUME NEW d \in Clients PROVE Exact(client'[d].sec, Was(d, "client")')
    <3>1. CASE d = c
      BY <1>5, <1>6, <1>10, <1>12, <3>1 DEF Ends
    <3>2. CASE d # c
      <4>1. Exact(client[d].sec, Was(d, "client"))
        BY DEF Inv, History
      <4> QED BY <1>10, <1>12, <3>2, <4>1 DEF Ends
    <3> QED BY <3>1, <3>2
  <2>2. \A d \in Clients : Was(d, "server")' = Was(d, "server")
    BY <1>12 DEF Ends
  <2>3. \A i \in Ids : peer[i].addr \in Clients
    BY PeerFacts
  <2> QED BY <1>3, <2>1, <2>2, <2>3 DEF Inv, History
<1> QED BY <1>10, <1>13, <1>14, <1>15 DEF Inv

\* A packet of the server, or none.
LEMMA FarewellPackets ==
  ASSUME Inv, NEW i \in Ids
  PROVE  /\ SendControl("client", peer[i].addr, i, peer[i], 6) \in SUBSET Packets
         /\ \A p \in SendControl("client", peer[i].addr, i, peer[i], 6) : \A cl, pr : PacketOk(cl, pr, p)
<1> DEFINE c == peer[i].addr
           ps == SendControl("client", c, i, peer[i], 6)
<1>1. c \in Clients /\ peer[i].sec \in Secure /\ i \in 0 .. MaxPeers
  BY PeerFacts, Bounds DEF Ids
<1>2. CASE CanSeal(peer[i])
  <2> DEFINE q == Sealed("client", c, i, peer[i].sec.tx, 6)
  <2>1. ps = {q}
    BY <1>2 DEF SendControl, CanSeal
  <2>2. q \in Packets
    BY <1>1, Makes DEF Secure
  <2>3. \A cl, pr : PacketOk(cl, pr, q)
    BY DEF PacketOk, Sealed
  <2> HIDE DEF q
  <2> QED BY <2>1, <2>2, <2>3
<1>3. CASE ~Established(peer[i])
  <2> DEFINE q == Control("client", c, 6, i)
  <2>1. ps = {q}
    BY <1>3 DEF SendControl
  <2>2. q \in Packets
    BY <1>1, Makes
  <2>3. \A cl, pr : PacketOk(cl, pr, q)
    BY DEF PacketOk, Control
  <2> HIDE DEF q
  <2> QED BY <2>1, <2>2, <2>3
<1>4. CASE Established(peer[i]) /\ ~CanSeal(peer[i])
  BY <1>4 DEF SendControl
<1> QED BY <1>2, <1>3, <1>4

\* The actions of the server keep the invariant.
LEMMA ServerRetries ==
  ASSUME Inv, NEW i \in Ids, ServerRetry(i)
  PROVE  Inv'
<1> DEFINE f == peer[i]
<1>1. /\ f \in PeerEnds /\ PeerOk(client, peer, i) /\ peer \in [Ids -> PeerEnds]
      /\ lost \in 0 .. MaxLost /\ timeouts \in 0 .. MaxTimeouts /\ f.addr \in Clients
  BY PeerFacts
<1>2. /\ peer' = peer /\ peer' = [peer EXCEPT ![i] = f]
      /\ UNCHANGED <<client, accepted, joined, opened, lost, timeouts>>
  BY <1>1 DEF ServerRetry
<1>3. /\ Control("client", f.addr, 2, i) \in Packets /\ ServerHello(i, f.addr) \in Packets
  BY <1>1, Makes, Bounds
<1>4. PacketOk(client, peer', Control("client", f.addr, 2, i))
  BY DEF PacketOk, Control
<1>5. f.sec.st # "Idle" => PacketOk(client, peer', ServerHello(i, f.addr))
  BY <1>2 DEF PacketOk, ServerHello
<1>6. f.st = "open" \/ net' = net \/ (f.sec.st # "Idle" /\ net' = net \cup {ServerHello(i, f.addr)})
  <2>1. CASE f.st # "open"
    <3>1. f.sec.st \in {"Idle", "ServerHello"} /\ net' = net \cup RetryPacket(f.addr, i, f, TRUE)
      BY <1>1, <2>1 DEF ServerRetry, Transmit, Established, PeerOk, PeerEnds, Secure
    <3> QED BY <3>1 DEF RetryPacket, Established
  <2> QED BY <2>1
<1>7. f.st = "open" => net' = net \cup {Control("client", f.addr, 2, i)}
  BY DEF ServerRetry, Transmit
<1>8. PICK ps \in SUBSET Packets : net' \subseteq net \cup ps /\ \A p \in ps : PacketOk(client, peer', p)
  <2>1. CASE f.st = "open"
    <3>1. {Control("client", f.addr, 2, i)} \in SUBSET Packets
      BY <1>3
    <3> QED BY <1>4, <1>7, <2>1, <3>1
  <2>2. CASE net' = net
    <3>1. {} \in SUBSET Packets /\ net' \subseteq net \cup {} /\ \A p \in {} : PacketOk(client, peer', p)
      BY <2>2
    <3> QED BY <3>1
  <2>3. CASE f.sec.st # "Idle" /\ net' = net \cup {ServerHello(i, f.addr)}
    <3>1. {ServerHello(i, f.addr)} \in SUBSET Packets
      BY <1>3
    <3> QED BY <1>5, <2>3, <3>1
  <2> QED BY <1>6, <2>1, <2>2, <2>3
<1>9. PeerOk(client, peer', i) /\ SameWindow(peer[i].sec, f.sec)
  BY <1>1, <1>2 DEF SameWindow
<1>10. f = peer[i]
  OBVIOUS
<1> HIDE DEF f
<1> QED BY <1>1, <1>2, <1>8, <1>9, <1>10, PeerStep

\* A sealed datagram of the server says nothing its client relies on.
LEMMA ServerSends ==
  ASSUME Inv, NEW i \in Ids, ServerSend(i)
  PROVE  Inv'
<1> DEFINE f == [peer[i] EXCEPT !.sec.tx = @ + 1]
           ps == {Sealed("client", peer[i].addr, i, peer[i].sec.tx, 5)}
<1>1. /\ peer[i] \in PeerEnds /\ PeerOk(client, peer, i) /\ peer \in [Ids -> PeerEnds]
      /\ lost \in 0 .. MaxLost /\ timeouts \in 0 .. MaxTimeouts /\ peer[i].addr \in Clients
      /\ peer[i].sec \in Secure
  BY PeerFacts
<1>2. /\ Established(peer[i]) /\ peer[i].sec.tx < MaxSeals
      /\ peer' = [peer EXCEPT ![i] = f] /\ peer'[i] = f /\ net' = net \cup ps
      /\ UNCHANGED <<client, accepted, joined, opened, lost, timeouts>>
  BY <1>1 DEF ServerSend, Transmit, CanSeal, Seal
<1>3. peer[i].sec.tx \in 0 .. MaxSeals /\ peer[i].sec.tx + 1 \in 0 .. MaxSeals
  BY <1>1, <1>2, Bounds DEF Secure
<1>4. /\ f \in PeerEnds /\ f.addr = peer[i].addr /\ f.st = peer[i].st
      /\ f.accepted = peer[i].accepted /\ f.sec.st = peer[i].sec.st
      /\ f.sec.remote = peer[i].sec.remote /\ SameWindow(peer[i].sec, f.sec)
  BY <1>1, <1>3 DEF PeerEnds, Secure, SameWindow
<1>5. ps \in SUBSET Packets
  BY <1>1, <1>3, Makes, Bounds
<1>6. \A p \in ps : PacketOk(client, peer', p)
  BY DEF PacketOk, Sealed
<1> HIDE DEF f, ps
<1>7. PeerOk(client, peer', i)
  BY <1>1, <1>2, <1>4 DEF PeerOk, Established, Confirmed, SameWindow
<1>8. /\ (Live(f) => Live(peer[i])) /\ (Confirmed(peer[i]) => Confirmed(f))
      /\ Established(f) <=> Established(peer[i])
  BY <1>4 DEF Live, Confirmed, Established
<1> QED BY <1>1, <1>2, <1>4, <1>5, <1>6, <1>7, <1>8, PeerStep

\* The server gives a peer up: by itself, when it closes it, or erases it.
LEMMA GivesUp ==
  ASSUME Inv, NEW i \in Ids, NEW f \in PeerEnds, peer' = [peer EXCEPT ![i] = f],
         peer[i].st # "none", f.st \in {"closed", "gone"},
         f.st = "closed" => peer[i].st \in {"open", "ready", "closed"},
         f.addr = peer[i].addr, f.accepted = peer[i].accepted, f.sec.st = peer[i].sec.st,
         f.sec.remote = peer[i].sec.remote, SameWindow(peer[i].sec, f.sec),
         NEW ps \in SUBSET Packets, net' \subseteq net \cup ps,
         \A p \in ps : PacketOk(client, peer', p),
         UNCHANGED <<client, accepted, joined, opened>>,
         lost' \in 0 .. MaxLost, timeouts' \in 0 .. MaxTimeouts
  PROVE  Inv'
<1>1. PeerOk(client, peer, i) /\ peer \in [Ids -> PeerEnds]
  BY PeerFacts
<1>2. peer'[i] = f
  BY <1>1
<1>3. PeerOk(client, peer', i)
  BY <1>1, <1>2 DEF PeerOk, Established, Confirmed, SameWindow
<1>4. /\ (Live(f) => Live(peer[i])) /\ (Confirmed(peer[i]) => Confirmed(f))
      /\ Established(f) <=> Established(peer[i])
  BY DEF Live, Confirmed, Established
<1> QED BY <1>3, <1>4, PeerStep

\* The server gives up a session that is silent.
LEMMA ServerTimesOut ==
  ASSUME Inv, NEW i \in Ids, ServerTimeout(i)
  PROVE  Inv'
<1> DEFINE a == IF peer[i].st = "ready" THEN AfterControl(peer[i]) ELSE peer[i]
           f == Closed(a)
           ps == IF peer[i].st = "ready"
                 THEN SendControl("client", peer[i].addr, i, peer[i], 6) ELSE {}
<1>1. /\ peer[i] \in PeerEnds /\ peer \in [Ids -> PeerEnds]
      /\ lost \in 0 .. MaxLost /\ timeouts \in 0 .. MaxTimeouts
  BY PeerFacts
<1>2. /\ peer' = [peer EXCEPT ![i] = f] /\ peer[i].st \in {"open", "ready"}
      /\ net' = net \cup ps /\ UNCHANGED <<client, accepted, joined, opened, lost>>
      /\ timeouts' \in 0 .. MaxTimeouts
  BY <1>1, Bounds DEF ServerTimeout, Transmit
<1>3. /\ a \in PeerEnds /\ a.addr = peer[i].addr /\ a.accepted = peer[i].accepted
      /\ a.sec.st = peer[i].sec.st
      /\ a.sec.remote = peer[i].sec.remote /\ SameWindow(peer[i].sec, a.sec)
  BY <1>1, FarewellOfPeer DEF SameWindow
<1> HIDE DEF a
<1>4. /\ f \in PeerEnds /\ f.addr = a.addr /\ f.st = "closed" /\ f.accepted = a.accepted
      /\ f.sec = a.sec
  BY <1>3 DEF PeerEnds, Closed
<1> HIDE DEF f
<1>5. ps \in SUBSET Packets /\ \A p \in ps : PacketOk(client, peer', p)
  BY FarewellPackets
<1> HIDE DEF ps
<1> QED BY <1>1, <1>2, <1>3, <1>4, <1>5, GivesUp

\* A closed peer that was never admitted is erased.
LEMMA ServerErases ==
  ASSUME Inv, NEW i \in Ids, ServerErase(i)
  PROVE  Inv'
<1> DEFINE f == [peer[i] EXCEPT !.st = "gone"]
<1>1. /\ peer[i] \in PeerEnds /\ peer \in [Ids -> PeerEnds]
      /\ lost \in 0 .. MaxLost /\ timeouts \in 0 .. MaxTimeouts
  BY PeerFacts
<1>2. /\ peer' = [peer EXCEPT ![i] = f] /\ peer[i].st = "closed"
      /\ UNCHANGED <<net, client, accepted, joined, opened, lost, timeouts>>
  BY <1>1 DEF ServerErase
<1>3. /\ f \in PeerEnds /\ f.addr = peer[i].addr /\ f.accepted = peer[i].accepted
      /\ f.sec = peer[i].sec /\ f.st = "gone" /\ SameWindow(peer[i].sec, f.sec)
  BY <1>1 DEF PeerEnds, SameWindow
<1> HIDE DEF f
<1>4. {} \in SUBSET Packets /\ net' \subseteq net \cup {} /\ \A q \in {} : PacketOk(client, peer', q)
  BY <1>2
<1> QED BY <1>1, <1>2, <1>3, <1>4, GivesUp

\* The application drops a player.
LEMMA Disconnects ==
  ASSUME Inv, NEW i \in Ids, Disconnect(i)
  PROVE  Inv'
<1> DEFINE f == [peer[i] EXCEPT !.st = "gone"]
           ps == IF peer[i].st = "ready"
                 THEN SendControl("client", peer[i].addr, i, peer[i], 6) ELSE {}
<1>1. /\ peer[i] \in PeerEnds /\ peer \in [Ids -> PeerEnds]
      /\ lost \in 0 .. MaxLost /\ timeouts \in 0 .. MaxTimeouts
  BY PeerFacts
<1>2. /\ peer' = [peer EXCEPT ![i] = f] /\ peer[i].st # "none" /\ net' = net \cup ps
      /\ UNCHANGED <<client, accepted, joined, opened, lost>> /\ timeouts' \in 0 .. MaxTimeouts
  BY <1>1, Bounds DEF Disconnect, Transmit, Peers
<1>3. /\ f \in PeerEnds /\ f.addr = peer[i].addr /\ f.accepted = peer[i].accepted
      /\ f.sec = peer[i].sec /\ f.st = "gone" /\ SameWindow(peer[i].sec, f.sec)
  BY <1>1 DEF PeerEnds, SameWindow
<1> HIDE DEF f
<1>4. ps \in SUBSET Packets /\ \A p \in ps : PacketOk(client, peer', p)
  BY FarewellPackets
<1> HIDE DEF ps
<1> QED BY <1>1, <1>2, <1>3, <1>4, GivesUp

\* A lost packet takes nothing that was known.
LEMMA Loses ==
  ASSUME Inv, NEW p \in net, Lose(p)
  PROVE  Inv'
<1>1. PICK c \in Clients : TRUE
  BY Bounds
<1> DEFINE e == client[c]
<1>2. e \in ClientEnds /\ ClientOk(client, peer, c) /\ client \in [Clients -> ClientEnds]
      /\ lost \in 0 .. MaxLost /\ timeouts \in 0 .. MaxTimeouts
  BY ClientFacts
<1>3. /\ client' = client /\ client' = [client EXCEPT ![c] = e] /\ net' \subseteq net
      /\ UNCHANGED <<peer, accepted, joined, opened, timeouts>> /\ lost' \in 0 .. MaxLost
  BY <1>2, Bounds DEF Lose
<1>4. {} \in SUBSET Packets /\ net' \subseteq net \cup {} /\ \A q \in {} : PacketOk(client', peer, q)
  BY <1>3
<1>5. SameWindow(client[c].sec, e.sec) /\ ClientOk(client', peer, c) /\ e = client[c]
  BY <1>2, <1>3 DEF SameWindow
<1> HIDE DEF e
<1> QED BY <1>2, <1>3, <1>4, <1>5, ClientStep

\* A new address gets a free slot of the server, and none had it.
LEMMA MeetsNewPeer ==
  ASSUME Inv, NEW c \in Clients, NewPeer(c),
         UNCHANGED <<client, accepted, joined, opened, lost, timeouts>>
  PROVE  Inv'
<1>1. PICK i \in Ids : /\ peer[i].st = "none" /\ Find(c) = {} /\ Cardinality(Peers) < Capacity
                       /\ peer' = [peer EXCEPT ![i] = [NoPeer EXCEPT !.st = "open", !.addr = c]]
                       /\ net' = net \cup {Control("client", c, 2, i)}
  BY DEF NewPeer, Transmit
<1> DEFINE f == [NoPeer EXCEPT !.st = "open", !.addr = c]
           ps == {Control("client", c, 2, i)}
<1>2. /\ peer[i] \in PeerEnds /\ PeerOk(client, peer, i) /\ peer \in [Ids -> PeerEnds]
      /\ lost \in 0 .. MaxLost /\ timeouts \in 0 .. MaxTimeouts /\ i \in 0 .. MaxPeers
  BY PeerFacts, Bounds DEF Ids
<1>3. FreshSecure \in Secure
  BY Bounds DEF FreshSecure, Secure, NoKey
<1>4. NoPeer \in PeerEnds
  BY <1>3, Bounds DEF NoPeer, PeerEnds
<1>5. /\ f \in PeerEnds /\ f.st = "open" /\ f.addr = c /\ f.accepted = FALSE /\ f.sec = FreshSecure
  BY <1>4 DEF PeerEnds, NoPeer
<1>6. /\ FreshSecure.st = "Idle" /\ FreshSecure.seen = FALSE /\ FreshSecure.window = {}
      /\ FreshSecure.remote = NoKey
  BY DEF FreshSecure
<1> HIDE DEF f
<1>7. peer' = [peer EXCEPT ![i] = f] /\ peer'[i] = f
  BY <1>1, <1>2 DEF f
<1>8. PeerOk(client, peer', i)
  BY <1>5, <1>6, <1>7 DEF PeerOk, Established, Confirmed
<1>9. peer[i].sec.st = "Idle" /\ ~Confirmed(peer[i]) /\ ~Established(peer[i]) /\ ~peer[i].accepted
  BY <1>1, <1>2 DEF PeerOk, Confirmed, Established
<1>10. ps \in SUBSET Packets
  BY <1>2, Makes
<1>11. \A p \in ps : PacketOk(client, peer', p)
  BY DEF PacketOk, Control
<1>12. net' \subseteq net \cup ps
  BY <1>1
<1> HIDE DEF ps
<1>13. /\ peer' \in [Ids -> PeerEnds] /\ net' \in SUBSET Packets /\ Linked'
       /\ \A j \in Ids : j # i => peer'[j] = peer[j]
  BY ZenonT(30), <1>1, <1>5, <1>7, <1>8, <1>9, <1>10, <1>11, <1>12, PeerMoves
<1>14. Types'
  BY <1>13 DEF Inv, Types
<1>15. Slots'
  <2>1. IsFiniteSet(Peers)
    <3>1. IsFiniteSet(Ids)
      BY Bounds, FS_Interval DEF Ids
    <3>2. Peers \in SUBSET Ids
      BY DEF Peers
    <3> QED BY <3>1, <3>2, FS_Subset
  <2>2. Peers' = Peers \cup {i} /\ i \notin Peers
    BY <1>1, <1>5, <1>7, <1>13 DEF Peers
  <2>3. Cardinality(Peers') = Cardinality(Peers) + 1 /\ Cardinality(Peers) \in Nat
    BY <2>1, <2>2, FS_AddElement, FS_CardinalityType
  <2>4. Cardinality(Peers') <= Capacity
    BY <1>1, <2>3, Bounds
  <2>5. \A j \in Ids : Live(peer[j]) => peer[j].addr # c
    BY <1>1 DEF Find, Peers, Live
  <2>6. ASSUME NEW j \in Ids, NEW k \in Ids, Live(peer'[j]), Live(peer'[k]), peer'[j].addr = peer'[k].addr
        PROVE  j = k
    <3>1. CASE j # i /\ k # i
      BY <1>13, <2>6, <3>1 DEF Inv, Slots
    <3>2. CASE j = i \/ k = i
      BY <1>5, <1>7, <1>13, <2>5, <2>6, <3>2
    <3> QED BY <3>1, <3>2
  <2> QED BY <2>4, <2>6 DEF Slots
<1>16. Queued'
  <2>1. \A j \in Ids : peer[j].accepted => peer'[j].accepted
    BY <1>9, <1>13
  <2>2. (\A k \in DOMAIN accepted : accepted[k] \in Ids) /\ (\A k \in DOMAIN joined : joined[k] \in Ids)
    BY DEF Inv, Types
  <2> QED BY <2>1, <2>2 DEF Inv, Queued
<1>17. History'
  <2>1. \A d \in Clients, end \in Ends : Was(d, end)' = Was(d, end)
    BY DEF Was
  <2>2. ~Established(peer'[i])
    BY <1>5, <1>6, <1>7 DEF Established
  <2>3. \A j \in Ids : peer[j].addr \in Clients
    BY PeerFacts
  <2>4. \A j \in Ids : Established(peer'[j]) <=> Established(peer[j])
    BY <1>9, <1>13, <2>2
  <2>5. \A j \in Ids : Established(peer[j]) => peer'[j] = peer[j]
    BY <1>9, <1>13
  <2> QED BY <2>1, <2>3, <2>4, <2>5 DEF Inv, History, Ends
<1> QED BY <1>13, <1>14, <1>15, <1>16, <1>17 DEF Inv

\* The confirm makes a peer ready: its client has the session.
LEMMA ServerPlains ==
  ASSUME Inv, NEW p \in net, ServerPlain(p)
  PROVE  Inv'
<1>0. SUFFICES ASSUME NEW c, c = p.addr
               PROVE  Inv'
  OBVIOUS
<1>1. /\ c \in Clients /\ PacketOk(client, peer, p) /\ p.to = "server" /\ p.kind = "control"
      /\ p.session \in 0 .. MaxPeers
  BY <1>0, PacketFacts DEF ServerPlain
<1>2. /\ UNCHANGED <<client, joined, opened, lost, timeouts>>
      /\ \A i \in Find(c) : ~Established(peer[i])
  BY <1>0 DEF ServerPlain
<1>3. \A i \in Find(c) : i \in Ids /\ peer[i].st \in {"open", "ready"} /\ peer[i].addr = c
  BY DEF Find, Peers
<1>4. lost \in 0 .. MaxLost /\ timeouts \in 0 .. MaxTimeouts
  BY DEF Inv, Types
<1>5. CASE OnHello(c)
  <2>1. CASE NewPeer(c)
    BY <1>1, <1>2, <1>5, <2>1, MeetsNewPeer DEF OnHello
  <2>2. ASSUME NEW i \in Find(c), net' = net \cup {Control("client", c, 2, i)}, UNCHANGED peer
        PROVE  Inv'
    <3> DEFINE f == peer[i]
               ps == {Control("client", c, 2, i)}
    <3>1. /\ i \in Ids /\ f \in PeerEnds /\ PeerOk(client, peer, i) /\ peer \in [Ids -> PeerEnds]
          /\ i \in 0 .. MaxPeers
      BY <1>3, PeerFacts, Bounds DEF Ids
    <3>2. ps \in SUBSET Packets
      BY <1>1, <3>1, Makes
    <3>3. \A q \in ps : PacketOk(client, peer', q)
      BY <3>1 DEF PacketOk, Control
    <3>4. net' \subseteq net \cup ps /\ UNCHANGED accepted
      BY <1>5, <2>2 DEF OnHello
    <3> HIDE DEF ps
    <3>5. PeerOk(client, peer', i) /\ peer' = [peer EXCEPT ![i] = f] /\ SameWindow(peer[i].sec, f.sec)
      BY <2>2, <3>1 DEF SameWindow
    <3>6. f = peer[i]
      OBVIOUS
    <3> HIDE DEF f
    <3> QED BY <1>2, <1>4, <3>1, <3>2, <3>3, <3>4, <3>5, <3>6, PeerStep
  <2> QED BY <1>5, <2>1, <2>2 DEF OnHello, Transmit
<1>6. ASSUME NEW i \in Find(c), p.type = 3, i = p.session, OnConfirm(i)
      PROVE  Inv'
  <2> DEFINE f == [peer[i] EXCEPT !.st = "ready"]
             ps == {Control("client", c, 4, i)}
  <2>1. /\ i \in Ids /\ peer[i] \in PeerEnds /\ PeerOk(client, peer, i) /\ peer \in [Ids -> PeerEnds]
        /\ i \in 0 .. MaxPeers /\ peer[i].st \in {"open", "ready"} /\ peer[i].addr = c
        /\ ~Established(peer[i])
    BY <1>2, <1>3, PeerFacts, Bounds DEF Ids
  <2>2. /\ f \in PeerEnds /\ f.st = "ready" /\ f.addr = c /\ f.sec = peer[i].sec
        /\ f.accepted = peer[i].accepted
    BY <2>1 DEF PeerEnds
  <2>3. /\ peer' = [peer EXCEPT ![i] = f] /\ peer'[i] = f /\ net' = net \cup ps /\ UNCHANGED accepted
    BY <1>6, <2>1 DEF OnConfirm, Transmit
  <2> HIDE DEF f
  <2>4. client[c].session = i
    BY <1>0, <1>1, <1>6 DEF PacketOk
  <2>5. PeerOk(client, peer', i)
    BY <2>1, <2>2, <2>3, <2>4 DEF PeerOk, Established, Confirmed
  <2>6. ps \in SUBSET Packets
    BY <1>1, <2>1, Makes
  <2>7. \A q \in ps : PacketOk(client, peer', q)
    BY <2>1, <2>2, <2>3 DEF PacketOk, Control, Confirmed
  <2> HIDE DEF ps
  <2>8. /\ Live(peer[i]) /\ Confirmed(f) /\ SameWindow(peer[i].sec, f.sec)
        /\ Established(f) <=> Established(peer[i])
    BY <2>1, <2>2 DEF Live, Confirmed, SameWindow, Established
  <2> QED BY <1>2, <1>4, <2>1, <2>2, <2>3, <2>5, <2>6, <2>7, <2>8, PeerStep
<1>7. ASSUME NEW i \in Find(c), OnCloseAtServer(i)
      PROVE  Inv'
  <2> DEFINE f == [peer[i] EXCEPT !.st = "closed"]
  <2>1. /\ i \in Ids /\ peer[i] \in PeerEnds /\ peer \in [Ids -> PeerEnds]
        /\ peer[i].st \in {"open", "ready"}
    BY <1>3, PeerFacts
  <2>2. /\ f \in PeerEnds /\ f.st = "closed" /\ f.addr = peer[i].addr /\ f.sec = peer[i].sec
        /\ f.accepted = peer[i].accepted /\ SameWindow(peer[i].sec, f.sec)
    BY <2>1 DEF PeerEnds, SameWindow
  <2>3. /\ peer' = [peer EXCEPT ![i] = f] /\ net' = net /\ UNCHANGED accepted
    BY <1>7, <2>1 DEF OnCloseAtServer, Closed
  <2> HIDE DEF f
  <2>4. {} \in SUBSET Packets /\ net' \subseteq net \cup {} /\ \A q \in {} : PacketOk(client, peer', q)
    BY <2>3
  <2> QED BY <1>2, <1>4, <2>1, <2>2, <2>3, <2>4, GivesUp
<1> QED BY <1>0, <1>5, <1>6, <1>7 DEF ServerPlain

\* What the handshake makes of a peer's end.
LEMMA Answers ==
  ASSUME Inv, NEW p \in net, NEW i \in Ids, p.kind \in {"hello", "finish"}, peer[i].addr = p.addr,
         NEW s, s = ServerHandshake(p, peer[i])
  PROVE  /\ s \in Secure /\ SameWindow(peer[i].sec, s)
         /\ \/ s = peer[i].sec
            \/ /\ p.kind = "hello" /\ peer[i].sec.st = "Idle" /\ p.addr \in Invited
               /\ s.st = "ServerHello" /\ s.remote = p.addr
            \/ /\ p.kind = "finish" /\ peer[i].sec.st = "ServerHello" /\ p.addr \in Invited
               /\ s.st = "Established" /\ s.remote = peer[i].sec.remote
<1>1. peer[i].sec \in Secure /\ p.addr \in Clients
  BY PeerFacts
<1>2. CASE p.kind = "hello" /\ peer[i].sec.st = "Idle" /\ p.addr \in Invited
  <2>1. s = [peer[i].sec EXCEPT !.st = "ServerHello", !.remote = p.addr]
    BY <1>2 DEF ServerHandshake
  <2> QED BY <1>1, <1>2, <2>1 DEF Secure, SameWindow
<1>3. CASE p.kind = "finish" /\ peer[i].sec.st = "ServerHello" /\ p.addr \in Invited
  <2>1. s = [peer[i].sec EXCEPT !.st = "Established"]
    BY <1>3 DEF ServerHandshake
  <2> QED BY <1>1, <1>3, <2>1 DEF Secure, SameWindow
<1>4. CASE /\ ~(p.kind = "hello" /\ peer[i].sec.st = "Idle" /\ p.addr \in Invited)
           /\ ~(p.kind = "finish" /\ peer[i].sec.st = "ServerHello" /\ p.addr \in Invited)
  <2>1. s = peer[i].sec
    BY <1>4 DEF ServerHandshake
  <2> QED BY <1>1, <2>1 DEF SameWindow
<1> QED BY <1>2, <1>3, <1>4

\* A peer is admitted: its client has established the session with it.
LEMMA Admits ==
  ASSUME Inv, NEW p \in net, NEW i \in Ids, NEW f \in PeerEnds,
         p.kind = "finish", p.key = i, peer[i].addr = p.addr, peer[i].st = "ready",
         peer[i].sec.st = "ServerHello", p.addr \in Invited,
         peer' = [peer EXCEPT ![i] = f], f.addr = peer[i].addr, f.st = "ready", f.accepted,
         f.sec.st = "Established", f.sec.remote = peer[i].sec.remote, SameWindow(peer[i].sec, f.sec),
         accepted' = Append(accepted, i), net' = net,
         UNCHANGED <<client, joined, opened, lost, timeouts>>
  PROVE  Inv'
<1>1. /\ peer[i] \in PeerEnds /\ PeerOk(client, peer, i) /\ peer \in [Ids -> PeerEnds]
      /\ peer[i].addr \in Clients /\ peer'[i] = f
  BY PeerFacts
<1>2. Established(client[p.addr]) /\ client[p.addr].sec.remote = i
  BY PacketFacts DEF PacketOk
<1>3. ~Established(peer[i]) /\ ~peer[i].accepted /\ Established(f)
  BY <1>1 DEF PeerOk, Established
<1>4. PeerOk(client, peer', i)
  BY <1>1, <1>2, <1>3 DEF PeerOk, Established, Confirmed
<1>5. /\ (Live(f) => Live(peer[i])) /\ (Confirmed(peer[i]) => Confirmed(f)) /\ f.sec.st # "Idle"
  BY DEF Live, Confirmed
<1>6. {} \in SUBSET Packets /\ net' \subseteq net \cup {} /\ \A q \in {} : PacketOk(client, peer', q)
  OBVIOUS
<1>7. /\ peer' \in [Ids -> PeerEnds] /\ net' \in SUBSET Packets /\ Linked'
      /\ \A j \in Ids : j # i => peer'[j] = peer[j]
  BY <1>4, <1>5, <1>6, PeerMoves
<1>8. Slots'
  BY <1>5, SlotsStay
<1>9. /\ accepted \in Seq(Ids) /\ joined \in Seq(Ids) /\ DOMAIN accepted = 1 .. Len(accepted)
      /\ DOMAIN joined = 1 .. Len(joined)
      /\ \A k \in DOMAIN accepted : accepted[k] \in Ids
      /\ \A k \in DOMAIN joined : joined[k] \in Ids
  BY DEF Inv, Types
<1>10. /\ accepted' \in Seq(Ids) /\ DOMAIN accepted' = 1 .. Len(accepted) + 1
       /\ \A k \in 1 .. Len(accepted) + 1 :
            accepted'[k] = IF k = Len(accepted) + 1 THEN i ELSE accepted[k]
  BY <1>9, AppendElements
<1>11. Types'
  BY <1>7, <1>10 DEF Inv, Types
<1>12. Queued'
  <2>1. Queued
    BY DEF Inv
  <2>2. (\A k \in DOMAIN accepted : accepted[k] # i) /\ (\A k \in DOMAIN joined : joined[k] # i)
    BY <1>3, <2>1 DEF Queued
  <2>3. \A j \in Ids : peer[j].accepted => peer'[j].accepted
    BY <1>1, <1>7
  <2>4. \A k \in DOMAIN accepted' : peer'[accepted'[k]].accepted
    BY <1>1, <1>9, <1>10, <2>1, <2>3 DEF Queued
  <2>5. \A k \in DOMAIN joined' : peer'[joined'[k]].accepted
    BY <1>9, <2>1, <2>3 DEF Queued
  <2>6. \A k, n \in DOMAIN accepted' : accepted'[k] = accepted'[n] => k = n
    BY <1>9, <1>10, <2>1, <2>2 DEF Queued
  <2>7. \A k, n \in DOMAIN joined' : joined'[k] = joined'[n] => k = n
    BY <2>1 DEF Queued
  <2>8. \A k \in DOMAIN accepted', n \in DOMAIN joined' : accepted'[k] # joined'[n]
    BY <1>9, <1>10, <2>1, <2>2 DEF Queued
  <2> QED BY <2>4, <2>5, <2>6, <2>7, <2>8 DEF Queued
<1>13. History'
  <2>1. \A d \in Clients, end \in Ends : Was(d, end)' = Was(d, end)
    BY DEF Was
  <2>2. Was(peer[i].addr, "server") = {}
    <3>1. SUFFICES ASSUME NEW j \in Ids, Established(peer[j]), peer[j].addr = peer[i].addr
                   PROVE  FALSE
      BY <1>1 DEF Inv, History
    <3>2. PeerOk(client, peer, j)
      BY PeerFacts
    <3>3. client[peer[i].addr].sec.remote = j
      BY <3>1, <3>2 DEF PeerOk
    <3> QED BY <1>2, <1>3, <3>1, <3>3
  <2>3. f.sec.seen = FALSE /\ f.sec.window = {}
    BY <1>1, <1>3 DEF PeerOk, SameWindow
  <2>4. Exact(f.sec, {})
    BY <2>3 DEF Exact
  <2>5. ASSUME NEW j \in Ids, Established(peer'[j])
        PROVE  Exact(peer'[j].sec, Was(peer'[j].addr, "server"))
    <3>1. CASE j = i
      BY <1>1, <2>2, <2>4, <3>1
    <3>2. CASE j # i
      BY <1>7, <2>5, <3>2 DEF Inv, History
    <3> QED BY <3>1, <3>2
  <2>6. \A j \in Ids : peer'[j].addr = peer[j].addr /\ peer[j].addr \in Clients
    BY <1>1, <1>7, PeerFacts
  <2>7. \A j \in Ids : Established(peer[j]) => Established(peer'[j])
    BY <1>3, <1>7
  <2>8. \A d \in Clients : Was(d, "server") # {} => \E j \in Ids : Established(peer'[j]) /\ peer'[j].addr = d
    BY <2>6, <2>7 DEF Inv, History
  <2> QED BY <2>1, <2>5, <2>6, <2>8 DEF Inv, History, Ends
<1> QED BY <1>7, <1>8, <1>11, <1>12, <1>13 DEF Inv

\* A hello fixes the keys, a finish admits, and a repetition does neither.
LEMMA ServerSecures ==
  ASSUME Inv, NEW p \in net, ServerSecure(p)
  PROVE  Inv'
<1>1. PICK i \in Find(p.addr) :
        LET e == peer[i]
            s == ServerHandshake(p, e)
            admit == s.st = "Established" /\ ~Established(e) /\ ~e.accepted
        IN /\ e.st = "ready" /\ (p.kind = "finish" => p.key = i)
           /\ peer' = [peer EXCEPT ![i].sec = s, ![i].accepted = @ \/ admit]
           /\ accepted' = IF admit THEN Append(accepted, i) ELSE accepted
           /\ Transmit(IF p.kind = "hello" THEN RetryPacket(p.addr, i, [e EXCEPT !.sec = s], TRUE) ELSE {})
  BY DEF ServerSecure
<1>2. /\ i \in Ids /\ peer[i].addr = p.addr /\ p.kind \in {"hello", "finish"}
      /\ UNCHANGED <<client, joined, opened, lost, timeouts>>
  BY DEF Find, Peers, ServerSecure
<1>3. /\ peer[i] \in PeerEnds /\ PeerOk(client, peer, i) /\ peer \in [Ids -> PeerEnds]
      /\ lost \in 0 .. MaxLost /\ timeouts \in 0 .. MaxTimeouts /\ p.addr \in Clients
      /\ peer[i].accepted \in BOOLEAN
  BY <1>2, PeerFacts DEF PeerEnds
<1>4. SUFFICES ASSUME NEW s, s = ServerHandshake(p, peer[i])
               PROVE  Inv'
  OBVIOUS
<1>5. /\ s \in Secure /\ SameWindow(peer[i].sec, s)
      /\ \/ s = peer[i].sec
         \/ /\ p.kind = "hello" /\ peer[i].sec.st = "Idle" /\ p.addr \in Invited
            /\ s.st = "ServerHello" /\ s.remote = p.addr
         \/ /\ p.kind = "finish" /\ peer[i].sec.st = "ServerHello" /\ p.addr \in Invited
            /\ s.st = "Established" /\ s.remote = peer[i].sec.remote
  BY <1>2, <1>4, Answers
<1>6. CASE p.kind = "finish" /\ peer[i].sec.st = "ServerHello" /\ p.addr \in Invited
           /\ s.st = "Established" /\ s.remote = peer[i].sec.remote
  <2> DEFINE f == [peer[i] EXCEPT !.sec = s, !.accepted = TRUE]
  <2>1. ~Established(peer[i]) /\ ~peer[i].accepted
    BY <1>3, <1>6 DEF PeerOk, Established
  <2>2. /\ peer' = [peer EXCEPT ![i].sec = s, ![i].accepted = TRUE]
        /\ accepted' = Append(accepted, i) /\ net' = net
        /\ peer[i].st = "ready" /\ p.key = i
    BY <1>1, <1>4, <1>6, <2>1 DEF Transmit
  <2>3. peer' = [peer EXCEPT ![i] = f]
    BY <1>2, <1>3, <2>2
  <2>4. /\ f \in PeerEnds /\ f.st = "ready" /\ f.addr = peer[i].addr /\ f.sec = s /\ f.accepted = TRUE
    BY <1>3, <1>5, <2>2 DEF PeerEnds
  <2> HIDE DEF f
  <2> QED BY <1>2, <1>5, <1>6, <2>2, <2>3, <2>4, Admits
<1>7. CASE \/ s = peer[i].sec
           \/ /\ p.kind = "hello" /\ peer[i].sec.st = "Idle" /\ p.addr \in Invited
              /\ s.st = "ServerHello" /\ s.remote = p.addr
  <2> DEFINE f == [peer[i] EXCEPT !.sec = s]
             ps == IF p.kind = "hello" THEN RetryPacket(p.addr, i, [peer[i] EXCEPT !.sec = s], TRUE) ELSE {}
  <2>1. (s.st = "Established" <=> Established(peer[i])) /\ (peer[i].sec.st # "Idle" => s.st # "Idle")
    BY <1>7 DEF Established
  <2>2. /\ peer' = [peer EXCEPT ![i].sec = s, ![i].accepted = peer[i].accepted]
        /\ accepted' = accepted /\ net' = net \cup ps /\ peer[i].st = "ready"
    BY <1>1, <1>3, <1>4, <2>1 DEF Transmit
  <2>3. peer' = [peer EXCEPT ![i] = f] /\ peer'[i] = f
    BY <1>2, <1>3, <2>2 DEF PeerEnds
  <2>4. /\ f \in PeerEnds /\ f.st = "ready" /\ f.addr = peer[i].addr /\ f.sec = s
        /\ f.accepted = peer[i].accepted
    BY <1>3, <1>5, <2>2 DEF PeerEnds
  <2> HIDE DEF f
  <2>5. PeerOk(client, peer', i)
    BY <1>2, <1>3, <1>5, <1>7, <2>2, <2>3, <2>4 DEF PeerOk, Established, Confirmed, SameWindow
  <2>6. ps = {} \/ (s.st # "Idle" /\ ps = {ServerHello(i, p.addr)})
    <3>1. f = [peer[i] EXCEPT !.sec = s]
      BY DEF f
    <3>2. ps = IF p.kind = "hello" THEN RetryPacket(p.addr, i, f, TRUE) ELSE {}
      BY <3>1
    <3>3. s.st \in {"Idle", "ServerHello", "Established"}
      BY <1>3, <1>5, <1>7 DEF PeerOk, Secure
    <3> QED BY <2>4, <3>2, <3>3 DEF RetryPacket, Established
  <2>7. ServerHello(i, p.addr) \in Packets
    BY <1>2, <1>3, Makes, Bounds
  <2>8. s.st # "Idle" => PacketOk(client, peer', ServerHello(i, p.addr))
    BY <1>2, <2>3, <2>4 DEF PacketOk, ServerHello
  <2> HIDE DEF ps
  <2>9. ps \in SUBSET Packets /\ \A q \in ps : PacketOk(client, peer', q)
    BY <2>6, <2>7, <2>8
  <2>10. /\ Live(peer[i]) /\ Confirmed(f) /\ SameWindow(peer[i].sec, f.sec)
         /\ Established(f) <=> Established(peer[i])
    BY <1>5, <2>1, <2>2, <2>4 DEF Live, Confirmed, Established
  <2> QED BY <1>2, <1>3, <2>1, <2>2, <2>3, <2>4, <2>5, <2>9, <2>10, PeerStep
<1> QED BY <1>5, <1>6, <1>7

\* The window follows what the server opens.
LEMMA ServerSealeds ==
  ASSUME Inv, NEW p \in net, ServerSealed(p)
  PROVE  Inv'
<1>0. SUFFICES ASSUME NEW c, NEW n, NEW i, c = p.addr, n = p.counter, i = p.session
               PROVE  Inv'
  OBVIOUS
<1> DEFINE was == Was(c, "server")
           s == Mark(peer[i].sec, n)
           f == [peer[i] EXCEPT !.sec = s, !.st = IF p.body = 6 THEN "closed" ELSE @]
<1>1. /\ c \in Clients /\ n \in 0 .. MaxSeals /\ i \in Ids /\ PacketOk(client, peer, p)
      /\ p.kind = "sealed" /\ p.to = "server"
  BY <1>0, PacketFacts DEF ServerSealed
<1>2. /\ peer[i] \in PeerEnds /\ PeerOk(client, peer, i) /\ peer \in [Ids -> PeerEnds]
      /\ lost \in 0 .. MaxLost /\ timeouts \in 0 .. MaxTimeouts /\ peer[i].sec \in Secure
  BY <1>1, PeerFacts
<1>3. /\ peer' = [peer EXCEPT ![i] = f] /\ peer'[i] = f /\ net' = net
      /\ UNCHANGED <<client, accepted, joined, lost, timeouts>> /\ peer[i].st = "ready"
      /\ Established(peer[i]) /\ CanOpen(peer[i].sec, n)
      /\ opened' = [opened EXCEPT ![c]["server"][n] = @ + 1]
  BY <1>0, <1>1, <1>2 DEF ServerSealed, Opening
\* Its sender is the client of the peer.
<1>4. peer[i].addr = c
  <2>1. Established(client[c]) /\ client[c].session = i
    BY <1>0, <1>1 DEF PacketOk
  <2>2. ClientOk(client, peer, c)
    BY <1>1, ClientFacts
  <2> QED BY <2>1, <2>2 DEF ClientOk
<1>5. was \in SUBSET (0 .. MaxSeals) /\ Exact(peer[i].sec, was)
  BY <1>1, <1>3, <1>4 DEF Inv, History, Was
<1> HIDE DEF was
<1>6. /\ s \in Secure /\ Exact(s, was \cup {n}) /\ s.st = peer[i].sec.st
      /\ s.remote = peer[i].sec.remote
  BY <1>1, <1>2, <1>3, <1>5, MarksExactly
<1> HIDE DEF s
<1>7. /\ f \in PeerEnds /\ f.addr = c /\ f.accepted = peer[i].accepted /\ f.sec = s
      /\ f.st \in {"ready", "closed"}
  BY <1>2, <1>3, <1>4, <1>6 DEF PeerEnds
<1> HIDE DEF f
<1>8. Established(f) /\ PeerOk(client, peer', i)
  BY <1>2, <1>3, <1>4, <1>6, <1>7 DEF PeerOk, Established, Confirmed
<1>9. {} \in SUBSET Packets /\ net' \subseteq net \cup {} /\ \A q \in {} : PacketOk(client, peer', q)
  BY <1>3
<1>10. /\ Live(peer[i]) /\ Confirmed(f) /\ f.sec.st # "Idle"
  BY <1>3, <1>7, <1>8 DEF Live, Confirmed, Established
<1>11. /\ peer' \in [Ids -> PeerEnds] /\ net' \in SUBSET Packets /\ Linked'
       /\ \A j \in Ids : j # i => peer'[j] = peer[j]
  BY <1>1, <1>3, <1>4, <1>7, <1>8, <1>9, <1>10, PeerMoves
<1>12. Slots'
  BY <1>1, <1>3, <1>4, <1>7, <1>10, SlotsStay
<1>13. opened \in Counts /\ "server" \in Ends
  BY DEF Inv, Types, Ends
<1>14. /\ opened' \in Counts
       /\ \A d \in Clients, at \in Ends, k \in 0 .. MaxSeals :
            opened'[d][at][k] > 0 <=> opened[d][at][k] > 0 \/ (d = c /\ at = "server" /\ k = n)
  <2>1. PICK end \in Ends : end = "server"
    BY <1>13
  <2>2. opened' = [opened EXCEPT ![c][end][n] = @ + 1]
    BY <1>3, <2>1
  <2>3. CountedOnce(c, end, n)
    <3>1. c \in Clients /\ n \in 0 .. MaxSeals /\ opened \in Counts
      BY <1>1, <1>13
    <3> QED BY <2>2, <3>1, Counted
  <2> QED BY <2>1, <2>3 DEF CountedOnce
<1>15. /\ \A d \in Clients : Was(d, "client")' = Was(d, "client")
       /\ \A d \in Clients : d # c => Was(d, "server")' = Was(d, "server")
       /\ Was(c, "server")' = was \cup {n}
  <2>1. Was(c, "server")' = was \cup {n}
    BY <1>1, <1>13, <1>14 DEF Was, was
  <2>2. ASSUME NEW d \in Clients, NEW end \in Ends, ~(d = c /\ end = "server")
        PROVE  Was(d, end)' = Was(d, end)
    BY <1>14, <2>2 DEF Was
  <2> QED BY <2>1, <2>2 DEF Ends
<1>16. Types'
  BY <1>3, <1>11, <1>14 DEF Inv, Types
<1>17. Queued'
  <2>1. \A j \in Ids : peer'[j].accepted = peer[j].accepted
    BY <1>3, <1>7, <1>11
  <2>2. (\A k \in DOMAIN accepted : accepted[k] \in Ids) /\ (\A k \in DOMAIN joined : joined[k] \in Ids)
    BY DEF Inv, Types
  <2> QED BY <1>3, <2>1, <2>2 DEF Inv, Queued
<1>18. History'
  <2>1. \A d \in Clients : Exact(client'[d].sec, Was(d, "client")')
    BY <1>3, <1>15 DEF Inv, History
  <2>2. \A j \in Ids : peer[j].addr \in Clients /\ PeerOk(client, peer, j)
    BY PeerFacts
  <2>3. \A j \in Ids : peer'[j].addr = peer[j].addr /\ (Established(peer'[j]) <=> Established(peer[j]))
    BY <1>3, <1>4, <1>7, <1>8, <1>11
  <2>4. ASSUME NEW j \in Ids, Established(peer'[j]), NEW d \in Clients, d = peer'[j].addr
        PROVE  Exact(peer'[j].sec, Was(d, "server")')
    <3>1. CASE j = i
      BY <1>3, <1>6, <1>7, <1>15, <2>4, <3>1
    <3>2. CASE j # i
      <4>1. Established(peer[j]) /\ peer'[j] = peer[j]
        BY <1>11, <2>4, <3>2
      \* The client of c is established with i alone.
      <4>2. peer[j].addr # c
        BY <1>2, <1>3, <1>4, <2>2, <3>2, <4>1 DEF PeerOk
      <4>3. Exact(peer[j].sec, Was(d, "server"))
        BY <2>3, <2>4, <4>1 DEF Inv, History
      <4> QED BY <1>15, <2>3, <2>4, <4>1, <4>2, <4>3
    <3> QED BY <3>1, <3>2
  <2>5. \A d \in Clients : Was(d, "server")' # {} => \E j \in Ids : Established(peer'[j]) /\ peer'[j].addr = d
    <3> SUFFICES ASSUME NEW d \in Clients, Was(d, "server")' # {}
                 PROVE  \E j \in Ids : Established(peer'[j]) /\ peer'[j].addr = d
      OBVIOUS
    <3>1. CASE d = c
      BY <1>1, <1>3, <1>7, <1>8, <3>1
    <3>2. CASE d # c
      BY <1>15, <2>3, <3>2 DEF Inv, History
    <3> QED BY <3>1, <3>2
  <2>6. \A j \in Ids : peer'[j].addr \in Clients
    BY <2>2, <2>3
  <2> QED BY <2>1, <2>4, <2>5, <2>6 DEF History
<1> QED BY <1>11, <1>12, <1>16, <1>17, <1>18 DEF Inv

\* The application takes the first of the queue, if it is still there.
LEMMA Accepts ==
  ASSUME Inv, Accept
  PROVE  Inv'
<1>1. /\ accepted # <<>> /\ accepted' = Tail(accepted)
      /\ joined' = IF peer[Head(accepted)].st = "ready" THEN Append(joined, Head(accepted)) ELSE joined
      /\ UNCHANGED <<client, peer, net, opened, lost, timeouts>>
  BY DEF Accept
<1>2. accepted \in Seq(Ids) /\ joined \in Seq(Ids) /\ Queued
  BY DEF Inv, Types
<1>3. /\ Tail(accepted) \in Seq(Ids) /\ 1 \in 1 .. Len(accepted) /\ Head(accepted) = accepted[1]
      /\ Head(accepted) \in Ids
      /\ \A k \in 1 .. Len(Tail(accepted)) :
           k + 1 \in 1 .. Len(accepted) /\ Tail(accepted)[k] = accepted[k + 1]
  BY <1>1, <1>2, TailElements
<1>4. /\ DOMAIN accepted = 1 .. Len(accepted) /\ DOMAIN joined = 1 .. Len(joined)
      /\ DOMAIN accepted' = 1 .. Len(Tail(accepted))
      /\ Len(accepted) \in Nat /\ Len(joined) \in Nat /\ Len(Tail(accepted)) \in Nat
  BY <1>1, <1>2, <1>3
<1> DEFINE h == Head(accepted)
           both == Append(joined, h)
<1>5. /\ both \in Seq(Ids) /\ DOMAIN both = 1 .. Len(joined) + 1
      /\ \A k \in 1 .. Len(joined) + 1 : both[k] = IF k = Len(joined) + 1 THEN h ELSE joined[k]
  BY <1>2, <1>3, AppendElements
<1>6. joined' \in {joined, both}
  BY <1>1
<1> HIDE DEF h, both
<1>7. Types'
  BY <1>1, <1>2, <1>3, <1>5, <1>6 DEF Inv, Types
<1>8. /\ h = accepted[1] /\ peer[h].accepted
      /\ \A k \in DOMAIN accepted' : \E n \in DOMAIN accepted :
           n = k + 1 /\ accepted'[k] = accepted[n] /\ accepted[n] # h
  <2>1. h = accepted[1] /\ 1 \in DOMAIN accepted
    BY <1>3, <1>4 DEF h
  <2>2. \A n \in DOMAIN accepted : n # 1 => accepted[n] # h
    BY <1>2, <2>1 DEF Queued
  <2>3. \A k \in DOMAIN accepted' : k + 1 \in DOMAIN accepted /\ k + 1 # 1 /\ accepted'[k] = accepted[k + 1]
    BY <1>1, <1>3, <1>4
  <2> QED BY <1>2, <2>1, <2>2, <2>3 DEF Queued
<1>9. \A k \in DOMAIN joined : joined[k] # h
  BY <1>2, <1>3, <1>4, <1>8 DEF Queued
<1>10. Queued'
  <2>1. \A k \in DOMAIN accepted' : peer'[accepted'[k]].accepted
    BY <1>1, <1>2, <1>8 DEF Queued
  <2>2. \A k, n \in DOMAIN accepted' : accepted'[k] = accepted'[n] => k = n
    BY <1>2, <1>4, <1>8 DEF Queued
  <2>3. CASE joined' = joined
    <3>1. \A k \in DOMAIN accepted', n \in DOMAIN joined : accepted'[k] # joined[n]
      BY <1>2, <1>8 DEF Queued
    <3> QED BY <1>1, <1>2, <2>1, <2>2, <2>3, <3>1 DEF Queued
  <2>4. CASE joined' = both
    <3>1. \A k \in DOMAIN both : (k \in DOMAIN joined /\ both[k] = joined[k])
                              \/ (k = Len(joined) + 1 /\ both[k] = h)
      BY <1>4, <1>5
    <3>2. \A k \in DOMAIN both : peer[both[k]].accepted
      BY <1>2, <1>8, <3>1 DEF Queued
    <3>3. \A k, n \in DOMAIN both : both[k] = both[n] => k = n
      BY <1>2, <1>9, <3>1 DEF Queued
    <3>4. \A k \in DOMAIN accepted', n \in DOMAIN both : accepted'[k] # both[n]
      BY <1>2, <1>8, <3>1 DEF Queued
    <3> QED BY <1>1, <2>1, <2>2, <2>4, <3>2, <3>3, <3>4, SMTT(30) DEF Queued
  <2> QED BY <1>6, <2>3, <2>4
<1>11. Linked' /\ Slots' /\ History'
  BY <1>1 DEF Inv, Linked, Slots, Peers, History, Was
<1> QED BY <1>7, <1>10, <1>11 DEF Inv

-----------------------------------------------------------------------------
\* Nobody has connected at first.
LEMMA InitInv ==
  ASSUME Init
  PROVE  Inv
<1>1. /\ client = [c \in Clients |-> NoEnd] /\ peer = [i \in Ids |-> NoPeer]
      /\ accepted = <<>> /\ joined = <<>> /\ net = {} /\ lost = 0 /\ timeouts = 0
      /\ opened = [c \in Clients |-> [end \in {"client", "server"} |-> [n \in 0 .. MaxSeals |-> 0]]]
  BY DEF Init
<1>2. FreshSecure \in Secure
  BY Bounds DEF FreshSecure, Secure, NoKey
<1>3. NoPeer \in PeerEnds /\ NoEnd \in ClientEnds
  BY <1>2, Bounds DEF NoPeer, PeerEnds, NoEnd, ClientEnds
<1>4. /\ NoPeer.st = "none" /\ NoEnd.st = "none" /\ NoPeer.accepted = FALSE
      /\ NoPeer.sec = FreshSecure /\ NoEnd.sec = FreshSecure
      /\ FreshSecure.st = "Idle" /\ FreshSecure.seen = FALSE /\ FreshSecure.window = {}
  BY DEF NoPeer, NoEnd, FreshSecure
<1> HIDE DEF NoPeer, NoEnd, FreshSecure
<1>5. (\A c \in Clients : client[c] = NoEnd) /\ (\A i \in Ids : peer[i] = NoPeer)
  BY <1>1
<1>6. Types
  <2>1. opened \in Counts
    BY <1>1 DEF Counts, Ends
  <2>2. accepted \in Seq(Ids) /\ joined \in Seq(Ids)
    BY <1>1
  <2>3. /\ client \in [Clients -> ClientEnds] /\ peer \in [Ids -> PeerEnds]
    BY <1>1, <1>3
  <2> QED BY <1>1, <2>1, <2>2, <2>3, Bounds DEF Types
<1>7. Linked
  BY <1>1, <1>4, <1>5 DEF Linked, ClientOk, PeerOk, Established
<1>8. Slots
  <2>1. Peers = {}
    BY <1>4, <1>5 DEF Peers
  <2>2. Cardinality(Peers) = 0
    BY <2>1, FS_EmptySet
  <2> QED BY <1>4, <1>5, <2>2, Bounds DEF Slots, Live
<1>9. Queued
  BY <1>1 DEF Queued
<1>10. History
  <2>1. \A c \in Clients, end \in Ends : Was(c, end) = {}
    BY <1>1 DEF Was, Ends
  <2> QED BY <1>4, <1>5, <2>1 DEF History, Exact, Established, Ends
<1> QED BY <1>6, <1>7, <1>8, <1>9, <1>10 DEF Inv

\* The invariant holds in every state.
LEMMA InvHolds == Spec => []Inv
<1>1. Init => Inv
  BY InitInv
<1>2. Inv /\ [Next]_vars => Inv'
  <2> SUFFICES ASSUME Inv, [Next]_vars
               PROVE  Inv'
    OBVIOUS
  <2>1. ASSUME NEW c \in Clients, Connect(c) \/ ClientRetry(c) \/ ClientSend(c) \/ ClientClose(c)
        PROVE  Inv'
    BY <2>1, Connects, ClientRetries, ClientSends, ClientCloses
  <2>2. ASSUME NEW i \in Ids, \/ ServerRetry(i) \/ ServerSend(i) \/ ServerTimeout(i)
                              \/ ServerErase(i) \/ Disconnect(i)
        PROVE  Inv'
    BY <2>2, ServerRetries, ServerSends, ServerTimesOut, ServerErases, Disconnects
  <2>3. ASSUME NEW p \in net, \/ ClientPlain(p) \/ ClientSecure(p) \/ ClientSealed(p)
                              \/ ServerPlain(p) \/ ServerSecure(p) \/ ServerSealed(p)
                              \/ Lose(p)
        PROVE  Inv'
    BY <2>3, ClientPlains, ClientSecures, ClientSealeds, ServerPlains, ServerSecures,
       ServerSealeds, Loses
  <2>4. CASE Accept
    BY <2>4, Accepts
  <2>5. CASE UNCHANGED vars
    BY <2>5 DEF vars, Inv, Types, Linked, Slots, Peers, Queued, History, Was
  <2> QED BY <2>1, <2>2, <2>3, <2>4, <2>5 DEF Next
<1> QED BY <1>1, <1>2, PTL DEF Spec

-----------------------------------------------------------------------------
\* An address that has two live peers would have one twice.
LEMMA InvTypeOK == Inv => TypeOK
<1> SUFFICES ASSUME Inv
             PROVE  TypeOK
  OBVIOUS
<1>1. ASSUME NEW c \in Clients PROVE Cardinality(Find(c)) <= 1
  <2>1. \A i, j \in Find(c) : i = j
    BY DEF Inv, Slots, Find, Peers, Live
  <2>2. CASE Find(c) = {}
    BY <2>2, FS_EmptySet
  <2>3. ASSUME NEW i \in Find(c) PROVE Cardinality(Find(c)) <= 1
    <3>1. Find(c) = {i}
      BY <2>1, <2>3
    <3> QED BY <3>1, FS_Singleton
  <2> QED BY <2>2, <2>3
<1> QED BY <1>1 DEF Inv, Types, Slots, TypeOK, ClientEnds, PeerEnds

\* The state stays well formed: the server never keeps more than Capacity
\* peers (receive_control's admission check), and an address never has two
\* open ones.
THEOREM TypeCorrect == Spec => []TypeOK
BY InvHolds, InvTypeOK, PTL

\* However often a finish, a confirm or a hello comes again, a connection is
\* queued for accept at most once and returned by it at most once: the flag of
\* the peer is raised with the first and never lowered.
THEOREM JoinsOnce == Spec => []JoinedOnce
<1>1. Inv => JoinedOnce
  <2> SUFFICES ASSUME Inv
               PROVE  JoinedOnce
    OBVIOUS
  <2> DEFINE both == joined \o accepted
  <2>1. joined \in Seq(Ids) /\ accepted \in Seq(Ids) /\ Queued
    BY DEF Inv, Types
  <2>2. /\ DOMAIN both = 1 .. Len(both)
        /\ \A k \in 1 .. Len(both) :
             \/ k \in 1 .. Len(joined) /\ both[k] = joined[k]
             \/ k - Len(joined) \in 1 .. Len(accepted) /\ both[k] = accepted[k - Len(joined)]
    BY <2>1, ConcatElements
  <2>3. /\ DOMAIN joined = 1 .. Len(joined) /\ DOMAIN accepted = 1 .. Len(accepted)
        /\ Len(joined) \in Nat /\ Len(accepted) \in Nat /\ Len(both) \in Nat
    BY <2>1, ConcatElements
  <2> HIDE DEF both
  <2>4. ASSUME NEW k \in DOMAIN both, NEW n \in DOMAIN both, both[k] = both[n]
        PROVE  k = n
    <3>1. CASE k \in 1 .. Len(joined) /\ both[k] = joined[k]
      <4>1. ~(n - Len(joined) \in 1 .. Len(accepted) /\ both[n] = accepted[n - Len(joined)])
        BY <2>1, <2>3, <2>4, <3>1 DEF Queued
      <4>2. n \in 1 .. Len(joined) /\ both[n] = joined[n]
        BY <2>2, <4>1
      <4> QED BY <2>1, <2>3, <2>4, <3>1, <4>2 DEF Queued
    <3>2. CASE k - Len(joined) \in 1 .. Len(accepted) /\ both[k] = accepted[k - Len(joined)]
      <4>1. ~(n \in 1 .. Len(joined) /\ both[n] = joined[n])
        BY <2>1, <2>3, <2>4, <3>2 DEF Queued
      <4>2. n - Len(joined) \in 1 .. Len(accepted) /\ both[n] = accepted[n - Len(joined)]
        BY <2>2, <4>1
      <4>3. k - Len(joined) = n - Len(joined)
        BY <2>1, <2>3, <2>4, <3>2, <4>2 DEF Queued
      <4> QED BY <2>2, <2>3, <4>3
    <3> QED BY <2>2, <3>1, <3>2
  <2> QED BY <2>4 DEF JoinedOnce, IsInjective, both
<1> QED BY <1>1, InvHolds, PTL

\* A sealed datagram is opened at most once and never when it is older than
\* the window (SecureDatagram::open), and nothing else is refused, in whatever
\* order the network delivers: the bits of the window are the counters opened
\* before, shifted by each step of the newest.
THEOREM WindowIsExact == Spec => []ReplayWindowExact
<1>1. Inv => ReplayWindowExact
  <2> SUFFICES ASSUME Inv
               PROVE  ReplayWindowExact
    OBVIOUS
  <2>1. ASSUME NEW e \in Secure, NEW c \in Clients, NEW end \in Ends, Exact(e, Was(c, end)),
               NEW n \in 0 .. MaxSeals
        PROVE  CanOpen(e, n) <=> (n \notin Was(c, end) /\ \A k \in Was(c, end) : k < n + Window)
    <3>1. Was(c, end) \in SUBSET (0 .. MaxSeals)
      BY DEF Was
    <3> QED BY <2>1, <3>1, OpensExactly
  <2>2. \A c \in Clients : client[c].sec \in Secure /\ Exact(client[c].sec, Was(c, "client"))
    BY ClientFacts DEF Inv, History
  <2>3. \A c \in Clients, i \in Ids : peer[i].addr = c /\ Established(peer[i]) =>
            peer[i].sec \in Secure /\ Exact(peer[i].sec, Was(c, "server"))
    BY PeerFacts DEF Inv, History
  <2> DEFINE Secs(c, end) == IF end = "client" THEN {client[c].sec}
                   ELSE {peer[i].sec : i \in {j \in Ids : peer[j].addr = c /\ Established(peer[j])}}
  <2>4. \A c \in Clients, end \in Ends : \A e \in Secs(c, end) : e \in Secure /\ Exact(e, Was(c, end))
    BY <2>2, <2>3 DEF Ends
  <2>5. \A c \in Clients, end \in Ends : \A e \in Secs(c, end), n \in 0 .. MaxSeals :
          CanOpen(e, n) <=> (n \notin Was(c, end) /\ \A k \in Was(c, end) : k < n + Window)
    <3> HIDE DEF Secs
    <3> QED BY <2>1, <2>4
  <2> QED BY <2>5 DEF ReplayWindowExact, Was, Ends
<1> QED BY <1>1, InvHolds, PTL

\* Whoever waits for accept or was returned by it holds the invite secret.
LEMMA InvAdmitted == Inv => AdmittedByInvite
<1> SUFFICES ASSUME Inv
             PROVE  AdmittedByInvite
  OBVIOUS
<1>1. ASSUME NEW i \in Range(accepted) \cup Range(joined) PROVE i \in Ids /\ peer[i].accepted
  BY <1>1 DEF Inv, Types, Queued, Range
<1>2. ASSUME NEW i \in Ids, peer[i].accepted
      PROVE  /\ peer[i].addr \in Invited
             /\ Established(peer[i]) /\ peer[i].sec.remote = peer[i].addr
             /\ Established(client[peer[i].addr]) /\ client[peer[i].addr].sec.remote = i
             /\ client[peer[i].addr].session = i
  BY <1>2, PeerFacts DEF PeerOk, Established
<1> QED BY <1>1, <1>2 DEF AdmittedByInvite

\* The live ends of a session always have a packet that brings it on.
LEMMA InvCanFinish == Inv => CanStillFinish
<1> SUFFICES ASSUME Inv
             PROVE  CanStillFinish
  OBVIOUS
<1>1. ASSUME NEW i \in Ids, NEW c, c = peer[i].addr, Live(peer[i]), Live(client[c]),
             client[c].session = i, client[c].st = "ready"
      PROVE  /\ peer[i].st = "ready"
             /\ c \in Invited /\ ~Established(peer[i]) =>
                  LET hello == IF Established(client[c]) THEN peer[i].sec
                               ELSE ServerHandshake(Hello(c), peer[i])
                      answered == ClientHandshake(ServerHello(i, c), client[c])
                  IN /\ hello.st = "ServerHello"
                     /\ \E f \in answered.reply :
                          ServerHandshake(f, [peer[i] EXCEPT !.sec = hello]).st = "Established"
  <2>1. /\ peer[i] \in PeerEnds /\ PeerOk(client, peer, i) /\ peer[i].sec \in Secure /\ c \in Clients
    BY <1>1, PeerFacts
  <2>2. client[c].sec \in Secure /\ ClientOk(client, peer, c)
    BY SMTT(30), <2>1, ClientFacts
  <2>3. peer[i].st = "ready"
    BY <1>1, <2>2 DEF ClientOk, Confirmed, Live
  <2>4. ASSUME c \in Invited, ~Established(peer[i])
        PROVE  LET hello == IF Established(client[c]) THEN peer[i].sec
                            ELSE ServerHandshake(Hello(c), peer[i])
                   answered == ClientHandshake(ServerHello(i, c), client[c])
               IN /\ hello.st = "ServerHello"
                  /\ \E f \in answered.reply :
                       ServerHandshake(f, [peer[i] EXCEPT !.sec = hello]).st = "Established"
    <3> DEFINE hello == IF Established(client[c]) THEN peer[i].sec
                        ELSE ServerHandshake(Hello(c), peer[i])
               answered == ClientHandshake(ServerHello(i, c), client[c])
               e == [peer[i] EXCEPT !.sec = hello]
    <3>1. peer[i].sec.st \in {"Idle", "ServerHello"}
      BY <2>1, <2>4, SMTT(30) DEF PeerOk, Secure, Established
    <3>2. client[c].sec.st \in {"ClientHello", "Established"}
      <4>1. client[c].sec.st \notin {"Idle", "ServerHello"}
        BY <1>1, <2>2, ZenonT(30) DEF ClientOk
      <4> QED BY <2>2, <4>1 DEF Secure
    <3>3. hello \in Secure /\ hello.st = "ServerHello"
      <4>1. CASE Established(client[c])
        BY <1>1, <2>1, <2>2, <3>1, <4>1 DEF ClientOk
      <4>2. CASE ~Established(client[c]) /\ peer[i].sec.st = "Idle"
        <5>1. hello = [peer[i].sec EXCEPT !.st = "ServerHello", !.remote = c]
          BY <2>4, <4>2 DEF ServerHandshake, Hello
        <5> QED BY <2>1, <5>1 DEF Secure
      <4>3. CASE ~Established(client[c]) /\ peer[i].sec.st = "ServerHello"
        <5>1. hello = peer[i].sec
          BY <4>3 DEF ServerHandshake, Hello
        <5> QED BY <2>1, <4>3, <5>1
      <4> QED BY SMTT(30), <3>1, <4>1, <4>2, <4>3
    <3>4. Finish(c, i) \in answered.reply
      <4>1. ServerHello(i, c).addr = c /\ ServerHello(i, c).key = i
        BY SMTT(30) DEF ServerHello
      <4>2. Established(client[c]) => client[c].sec.remote = i
        BY <1>1, <2>2 DEF ClientOk
      <4> QED BY <2>4, <3>2, <4>1, <4>2, SMTT(30) DEF ClientHandshake, Established
    <3> HIDE DEF hello
    <3>5. e.sec = hello
      BY <2>1 DEF PeerEnds
    <3> HIDE DEF e
    <3>6. ServerHandshake(Finish(c, i), e) = [hello EXCEPT !.st = "Established"]
      BY <2>4, <3>3, <3>5 DEF ServerHandshake, Finish
    <3>7. ServerHandshake(Finish(c, i), e).st = "Established"
      BY <3>3, <3>6 DEF Secure
    <3> HIDE DEF answered
    <3> QED BY <3>3, <3>4, <3>7 DEF hello, answered, e
  <2> QED BY <2>3, <2>4
<1> QED BY <1>1 DEF CanStillFinish, Live

\* The room's players are the ones invited, each with the keys of its own
\* client (receive_secure_handshake is the only path to the accept queue of an
\* invited room), and no loss leaves the two ends of a session waiting for a
\* packet neither will send again.
THEOREM ConnectionsAreSafe == Spec => []ConnectionSafety
<1>1. Inv => ConnectionSafety
  BY InvTypeOK, InvAdmitted, InvCanFinish DEF ConnectionSafety
<1> QED BY <1>1, InvHolds, PTL
=============================================================================
