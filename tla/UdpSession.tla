----------------------------- MODULE UdpSession -----------------------------
(***************************************************************************)
(* A session over UDP between a server (the relay, or a player hosting)    *)
(* and its clients: the control packets that establish and close it        *)
(* (udp_connection.cpp), the key exchange of an invited room and the       *)
(* sealed datagrams with their replay window (secure_datagram.cpp).        *)
(*                                                                         *)
(* A client opens a new socket for every connection, so a connection and   *)
(* its address are one thing: a member of Clients.  The network loses,     *)
(* duplicates and reorders: a packet stays in `net', may be received any   *)
(* number of times, and may be lost.  Clocks are abstracted: a retry or a  *)
(* timeout may come at any moment at which its condition on the state      *)
(* holds; the rate limits on answers only make them rarer, as loss does.   *)
(***************************************************************************)
EXTENDS Naturals, FiniteSets, Sequences, SequencesExt

CONSTANTS
    Clients,      \* connections, each from an address of its own
    Invited,      \* the ones that hold the server's invite secret
    Capacity,     \* peers the server keeps at once
    MaxPeers,     \* bound: peers the server creates in a behaviour
    Window,       \* width of the replay window (64)
    MaxSeals,     \* bound: sealed datagrams of each end
    MaxLost,      \* bound: packets the network loses
    MaxTimeouts   \* bound: connections that time out

ASSUME InvitedAssumption == Invited \subseteq Clients /\ Clients # {}
ASSUME BoundsAssumption ==
    /\ {Capacity, MaxPeers, Window} \subseteq Nat \ {0}
    /\ {MaxSeals, MaxLost, MaxTimeouts} \subseteq Nat

Ids == 1 .. MaxPeers

VARIABLES
    client,     \* Clients -> the client's end of its connection
    peer,       \* Ids -> the server's end
    accepted,   \* server: established peers the application has not taken
    joined,     \* server: peers accept() returned, in order
    net,        \* packets in flight
    opened,     \* history: <<end, counter>> -> times a datagram was opened
    lost, timeouts

vars == <<client, peer, accepted, joined, net, opened, lost, timeouts>>

(***************************************************************************)
(* One end of the key exchange.  An ephemeral key is named after the only  *)
(* thing that generates it: a client, or a peer of the server.             *)
(***************************************************************************)
NoKey == 0
Secure == [st : {"Idle", "ClientHello", "ServerHello", "Established"},
           remote : {NoKey} \cup Clients \cup Ids,
           tx : 0 .. MaxSeals,
           seen : BOOLEAN, highest : 0 .. MaxSeals, window : SUBSET (0 .. Window - 1)]
FreshSecure == [st |-> "Idle", remote |-> NoKey, tx |-> 0,
                seen |-> FALSE, highest |-> 0, window |-> {}]
Established(e) == e.sec.st = "Established"

NoEnd == [st |-> "none", session |-> 0, sec |-> FreshSecure]
NoPeer == [st |-> "none", addr |-> CHOOSE c \in Clients : TRUE,
           accepted |-> FALSE, sec |-> FreshSecure]
\* st: "none", "open" before the session is ready, "ready", "closed", and at the
\* server "gone" once the peer is erased: ids are never reused.

(***************************************************************************)
(* Packets.  A control packet carries the client's nonce, which is its     *)
(* address here, and the session, which is the server's peer.              *)
(***************************************************************************)
Control(to, c, type, s) == [to |-> to, addr |-> c, kind |-> "control", type |-> type, session |-> s]
Hello(c) == [to |-> "server", addr |-> c, kind |-> "hello"]
ServerHello(id, c) == [to |-> "client", addr |-> c, kind |-> "serverHello", key |-> id]
Finish(c, id) == [to |-> "server", addr |-> c, kind |-> "finish", key |-> id]
Sealed(to, c, id, n, body) ==
    [to |-> to, addr |-> c, kind |-> "sealed", session |-> id, counter |-> n, body |-> body]

\* The packet an end repeats while it is not established.
RetryPacket(c, id, e, isServer) ==
    CASE e.sec.st = "ClientHello" -> {Hello(c)}
      [] e.sec.st = "ServerHello" -> {ServerHello(id, c)}
      [] e.sec.st = "Established" /\ ~isServer -> {Finish(c, e.sec.remote)}
      [] OTHER -> {}

Init ==
    /\ client = [c \in Clients |-> NoEnd]
    /\ peer = [i \in Ids |-> NoPeer]
    /\ accepted = <<>> /\ joined = <<>>
    /\ net = {}
    /\ opened = [c \in Clients |-> [end \in {"client", "server"} |-> [n \in 0 .. MaxSeals |-> 0]]]
    /\ lost = 0 /\ timeouts = 0

Transmit(ps) == net' = net \cup ps
Peers == {i \in Ids : peer[i].st \in {"open", "ready", "closed"}}
Find(c) == {i \in Peers : peer[i].addr = c /\ peer[i].st # "closed"}

(***************************************************************************)
(* seal and open.                                                          *)
(***************************************************************************)
CanSeal(e) == Established(e) /\ e.sec.tx < MaxSeals
Seal(e) == [e EXCEPT !.sec.tx = @ + 1]

CanOpenBeyondWindow(s, n) == ~(s.seen /\ n <= s.highest /\ (s.highest - n) \in s.window)
CanOpen(s, n) == ~(s.seen /\ n <= s.highest
                   /\ (s.highest - n >= Window \/ (s.highest - n) \in s.window))

Mark(s, n) ==
    IF s.seen /\ n <= s.highest
    THEN [s EXCEPT !.window = @ \cup {s.highest - n}]
    ELSE [s EXCEPT !.seen = TRUE, !.highest = n,
              !.window = {0} \cup {d \in 0 .. Window - 1 : d >= n - s.highest
                                                    /\ d - (n - s.highest) \in s.window}]

\* A control packet is sealed once its sender is established.
SendControl(to, c, id, e, type) ==
    IF Established(e)
    THEN IF CanSeal(e) THEN {Sealed(to, c, id, e.sec.tx, type)} ELSE {}
    ELSE {Control(to, c, type, id)}
AfterControl(e) == IF CanSeal(e) THEN Seal(e) ELSE e

Closed(e) == [e EXCEPT !.st = "closed"]

(***************************************************************************)
(* The client.                                                             *)
(***************************************************************************)
Connect(c) ==
    /\ client[c].st = "none"
    /\ client' = [client EXCEPT ![c].st = "open"]
    /\ Transmit({Control("server", c, 1, 0)})
    /\ UNCHANGED <<peer, accepted, joined, opened, lost, timeouts>>

\* A challenge fixes the session; a second one must name the same.
OnChallenge(c, s) ==
    /\ client[c].st = "open" /\ client[c].session \in {0, s}
    /\ client' = [client EXCEPT ![c].session = s]
    /\ Transmit({Control("server", c, 3, s)})

\* The session is ready: the key exchange begins.
OnAccept(c) ==
    /\ client[c].st \in {"open", "ready"}
    /\ client' = [client EXCEPT ![c].st = "ready",
                      ![c].sec.st = IF @ = "Idle" THEN "ClientHello" ELSE @]
    /\ Transmit(IF client[c].sec.st = "Idle" THEN {Hello(c)} ELSE {})

OnCloseAtClient(c) ==
    /\ client[c].st = "ready"
    /\ client' = [client EXCEPT ![c] = Closed(@)]
    /\ UNCHANGED net

\* receive_control at a client.
ClientControl(c, type, s) ==
    /\ \/ type = 2 /\ OnChallenge(c, s)
       \/ type = 4 /\ client[c].session = s /\ OnAccept(c)
       \/ type = 6 /\ client[c].session = s /\ OnCloseAtClient(c)
    /\ UNCHANGED <<peer, accepted, joined, lost, timeouts>>

\* Once established, a plaintext control packet is ignored.
ClientPlain(p) ==
    /\ p.to = "client" /\ p.kind = "control"
    /\ ~Established(client[p.addr])
    /\ ClientControl(p.addr, p.type, p.session)
    /\ UNCHANGED opened

\* SecureDatagram::handshake at the initiator: the server's hello is
\* authenticated by the secret over both keys.
ClientHandshakeForgetful(p, e) ==
    IF e.sec.st = "ClientHello" /\ p.addr \in Invited
    THEN [sec |-> [e.sec EXCEPT !.st = "Established", !.remote = p.key],
          reply |-> {Finish(p.addr, p.key)}]
    ELSE [sec |-> e.sec, reply |-> {}]
ClientHandshake(p, e) ==
    IF e.sec.st = "ClientHello" /\ p.addr \in Invited
    THEN [sec |-> [e.sec EXCEPT !.st = "Established", !.remote = p.key],
          reply |-> {Finish(p.addr, p.key)}]
    ELSE [sec |-> e.sec,
          reply |-> IF Established(e) /\ e.sec.remote = p.key THEN {Finish(p.addr, p.key)} ELSE {}]

ClientSecure(p) ==
    /\ p.to = "client" /\ p.kind = "serverHello"
    /\ client[p.addr].st = "ready"
    /\ LET h == ClientHandshake(p, client[p.addr])
       IN client' = [client EXCEPT ![p.addr].sec = h.sec] /\ Transmit(h.reply)
    /\ UNCHANGED <<peer, accepted, joined, opened, lost, timeouts>>

Opening(p, end) == opened' = [opened EXCEPT ![p.addr][end][p.counter] = @ + 1]

ClientSealed(p) ==
    LET e == client[p.addr] IN
    /\ p.to = "client" /\ p.kind = "sealed"
    /\ e.st \in {"open", "ready"} /\ Established(e) /\ e.session = p.session
    /\ e.sec.remote = p.session
    /\ CanOpen(e.sec, p.counter)
    /\ client' = [client EXCEPT ![p.addr].sec = Mark(@, p.counter),
                                ![p.addr].st = IF p.body = 6 THEN "closed" ELSE @]
    /\ Opening(p, "client")
    /\ UNCHANGED <<peer, accepted, joined, net, lost, timeouts>>

\* poll: the control packet or the handshake packet of the current state again.
ClientRetry(c) ==
    LET e == client[c] IN
    /\ e.st \in {"open", "ready"}
    /\ \/ e.st = "open" /\ Transmit({Control("server", c, IF e.session = 0 THEN 1 ELSE 3, e.session)})
       \/ e.st = "ready" /\ ~Established(e) /\ Transmit(RetryPacket(c, 0, e, FALSE))
    /\ UNCHANGED <<client, peer, accepted, joined, opened, lost, timeouts>>

\* A datagram or a keepalive of an established client.
ClientSend(c) ==
    /\ client[c].st = "ready" /\ CanSeal(client[c])
    /\ Transmit({Sealed("server", c, client[c].session, client[c].sec.tx, 5)})
    /\ client' = [client EXCEPT ![c] = Seal(@)]
    /\ UNCHANGED <<peer, accepted, joined, opened, lost, timeouts>>

\* disconnect, or poll giving up: a ready session is closed with a notice.
ClientClose(c) ==
    LET e == client[c] IN
    /\ e.st \in {"open", "ready"} /\ timeouts < MaxTimeouts
    /\ client' = [client EXCEPT ![c] = Closed(IF e.st = "ready" THEN AfterControl(@) ELSE @)]
    /\ Transmit(IF e.st = "ready" THEN SendControl("server", c, e.session, e, 6) ELSE {})
    /\ timeouts' = timeouts + 1
    /\ UNCHANGED <<peer, accepted, joined, opened, lost>>

(***************************************************************************)
(* The server.                                                             *)
(***************************************************************************)
\* receive_control type 1: a new address gets a peer, if one is free.
NewPeer(c) ==
    /\ Find(c) = {}
    /\ Cardinality(Peers) < Capacity
    /\ \E i \in Ids : /\ peer[i].st = "none" /\ \A j \in 1 .. i - 1 : peer[j].st # "none"
                      /\ peer' = [peer EXCEPT ![i] = [NoPeer EXCEPT !.st = "open", !.addr = c]]
                      /\ Transmit({Control("client", c, 2, i)})

OnHello(c) ==
    /\ NewPeer(c) \/ \E i \in Find(c) : Transmit({Control("client", c, 2, i)}) /\ UNCHANGED peer
    /\ UNCHANGED accepted

\* Type 3: the client echoed the session, so its address is real.  In a room
\* without an invite this already admits it; this module has an invite.
OnConfirm(i) ==
    /\ peer' = [peer EXCEPT ![i].st = "ready"]
    /\ UNCHANGED accepted
    /\ Transmit({Control("client", peer[i].addr, 4, i)})

OnCloseAtServer(i) ==
    /\ peer[i].st = "ready"
    /\ peer' = [peer EXCEPT ![i] = Closed(@)]
    /\ UNCHANGED <<accepted, net>>

ServerPlain(p) ==
    /\ p.to = "server" /\ p.kind = "control"
    /\ \A i \in Find(p.addr) : ~Established(peer[i])
    /\ \/ p.type = 1 /\ OnHello(p.addr)
       \/ p.type = 3 /\ \E i \in Find(p.addr) : i = p.session /\ OnConfirm(i)
       \/ p.type = 6 /\ \E i \in Find(p.addr) : i = p.session /\ OnCloseAtServer(i)
    /\ UNCHANGED <<client, joined, opened, lost, timeouts>>

\* SecureDatagram::handshake at the responder: the first authentic hello fixes
\* the keys, the same one again is answered again, the finish establishes.
ServerHandshake(p, e) ==
    CASE p.kind = "hello" /\ e.sec.st = "Idle" /\ p.addr \in Invited ->
           [e.sec EXCEPT !.st = "ServerHello", !.remote = p.addr]
      [] p.kind = "finish" /\ e.sec.st = "ServerHello" /\ p.addr \in Invited ->
           [e.sec EXCEPT !.st = "Established"]
      [] OTHER -> e.sec

\* receive_secure_handshake: an established peer is queued for accept.
ServerSecure(p) ==
    /\ p.to = "server" /\ p.kind \in {"hello", "finish"}
    /\ \E i \in Find(p.addr) :
        LET e == peer[i]
            s == ServerHandshake(p, e)
            admit == s.st = "Established" /\ ~Established(e) /\ ~e.accepted
        IN /\ e.st = "ready" /\ (p.kind = "finish" => p.key = i)
           /\ peer' = [peer EXCEPT ![i].sec = s, ![i].accepted = @ \/ admit]
           /\ accepted' = IF admit THEN Append(accepted, i) ELSE accepted
           /\ Transmit(IF p.kind = "hello" THEN RetryPacket(p.addr, i, [e EXCEPT !.sec = s], TRUE) ELSE {})
    /\ UNCHANGED <<client, joined, opened, lost, timeouts>>

ServerSealed(p) ==
    /\ p.to = "server" /\ p.kind = "sealed" /\ p.session \in Peers
    /\ LET i == p.session IN
       /\ peer[i].st = "ready" /\ Established(peer[i])
       /\ CanOpen(peer[i].sec, p.counter)
       /\ peer' = [peer EXCEPT ![i].sec = Mark(@, p.counter),
                               ![i].st = IF p.body = 6 THEN "closed" ELSE @]
    /\ Opening(p, "server")
    /\ UNCHANGED <<client, accepted, joined, net, lost, timeouts>>

ServerSend(i) ==
    /\ peer[i].st = "ready" /\ CanSeal(peer[i])
    /\ Transmit({Sealed("client", peer[i].addr, i, peer[i].sec.tx, 5)})
    /\ peer' = [peer EXCEPT ![i] = Seal(@)]
    /\ UNCHANGED <<client, accepted, joined, opened, lost, timeouts>>

\* poll: the challenge or the server's hello again.
ServerRetry(i) ==
    LET e == peer[i] IN
    /\ \/ e.st = "open" /\ Transmit({Control("client", e.addr, 2, i)})
       \/ e.st = "ready" /\ ~Established(e) /\ Transmit(RetryPacket(e.addr, i, e, TRUE))
    /\ UNCHANGED <<client, peer, accepted, joined, opened, lost, timeouts>>

\* poll: silence, a key exchange or a session that took too long.
ServerTimeout(i) ==
    LET e == peer[i] IN
    /\ e.st \in {"open", "ready"} /\ timeouts < MaxTimeouts
    /\ peer' = [peer EXCEPT ![i] = Closed(IF e.st = "ready" THEN AfterControl(@) ELSE @)]
    /\ Transmit(IF e.st = "ready" THEN SendControl("client", e.addr, i, e, 6) ELSE {})
    /\ timeouts' = timeouts + 1
    /\ UNCHANGED <<client, accepted, joined, opened, lost>>

\* poll: a closed peer the application never saw is erased.
ServerErase(i) ==
    /\ peer[i].st = "closed" /\ ~peer[i].accepted
    /\ peer' = [peer EXCEPT ![i].st = "gone"]
    /\ UNCHANGED <<client, accepted, joined, net, opened, lost, timeouts>>

\* The application: accept returns the next established peer that is still open.
AcceptPeeks ==
    /\ accepted # <<>> /\ Len(joined) < MaxPeers
    /\ joined' = IF peer[Head(accepted)].st = "ready" THEN Append(joined, Head(accepted)) ELSE joined
    /\ UNCHANGED <<accepted, client, peer, net, opened, lost, timeouts>>
Accept ==
    /\ accepted # <<>>
    /\ accepted' = Tail(accepted)
    /\ joined' = IF peer[Head(accepted)].st = "ready" THEN Append(joined, Head(accepted)) ELSE joined
    /\ UNCHANGED <<client, peer, net, opened, lost, timeouts>>

\* The application drops a player, or one whose session is no longer alive.
Disconnect(i) ==
    LET e == peer[i] IN
    /\ i \in Range(joined) /\ i \in Peers
    /\ e.st = "ready" => timeouts < MaxTimeouts
    /\ peer' = [peer EXCEPT ![i].st = "gone"]
    /\ Transmit(IF e.st = "ready" THEN SendControl("client", e.addr, i, e, 6) ELSE {})
    /\ timeouts' = IF e.st = "ready" THEN timeouts + 1 ELSE timeouts
    /\ UNCHANGED <<client, accepted, joined, opened, lost>>

Lose(p) ==
    /\ lost < MaxLost
    /\ net' = net \ {p} /\ lost' = lost + 1
    /\ UNCHANGED <<client, peer, accepted, joined, opened, timeouts>>

Next ==
    \/ \E c \in Clients : Connect(c) \/ ClientRetry(c) \/ ClientSend(c) \/ ClientClose(c)
    \/ \E i \in Ids : \/ ServerRetry(i) \/ ServerSend(i) \/ ServerTimeout(i)
                      \/ ServerErase(i) \/ Disconnect(i)
    \/ \E p \in net : \/ ClientPlain(p) \/ ClientSecure(p) \/ ClientSealed(p)
                      \/ ServerPlain(p) \/ ServerSecure(p) \/ ServerSealed(p)
                      \/ Lose(p)
    \/ Accept

Spec == Init /\ [][Next]_vars
-----------------------------------------------------------------------------
\* The state is well formed, the server keeps at most Capacity peers
\* (receive_control's admission check) and every peer that is still open has an
\* address of its own.
TypeOK ==
    /\ client \in [Clients -> [st : {"none", "open", "ready", "closed"}, session : 0 .. MaxPeers, sec : Secure]]
    /\ peer \in [Ids -> [st : {"none", "open", "ready", "closed", "gone"}, addr : Clients,
                         accepted : BOOLEAN, sec : Secure]]
    /\ Cardinality(Peers) <= Capacity
    /\ \A c \in Clients : Cardinality(Find(c)) <= 1
    /\ lost \in 0 .. MaxLost /\ timeouts \in 0 .. MaxTimeouts

\* A connection is handed to the room only when its client holds the invite
\* secret and both ends derived the same keys: the confirm of the plain
\* session is not enough, although both paths push to the same queue.
AdmittedByInvite ==
    \A i \in Range(accepted) \cup Range(joined) :
        LET c == peer[i].addr IN
        /\ c \in Invited
        /\ Established(peer[i]) /\ peer[i].sec.remote = c
        /\ Established(client[c]) /\ client[c].sec.remote = i /\ client[c].session = i

\* A connection becomes a player once, however often its finish, its confirm or
\* the server's hello are repeated or duplicated.
JoinedOnce == IsInjective(joined \o accepted)

\* The replay window does what it stands for: a sealed datagram can be opened
\* exactly when it was not opened before and is newer than the newest opened
\* one less the width of the window, in whatever order datagrams come.
ReplayWindowExact ==
    \A c \in Clients, end \in {"client", "server"} :
        LET was == {n \in 0 .. MaxSeals : opened[c][end][n] > 0}
            fresh(n) == n \notin was /\ \A k \in was : k < n + Window
            secs == IF end = "client" THEN {client[c].sec}
                    ELSE {peer[i].sec : i \in {j \in Ids : peer[j].addr = c /\ Established(peer[j])}}
        IN \A e \in secs, n \in 0 .. MaxSeals : CanOpen(e, n) <=> fresh(n)

\* Whatever was lost so far, the two live ends of a session can still finish it:
\* one of them repeats a packet whose answer brings the other on.
CanStillFinish ==
    \A i \in Ids :
        LET c == peer[i].addr
            cl == client[c]
        IN peer[i].st \in {"open", "ready"} /\ cl.st \in {"open", "ready"} /\ cl.session = i =>
           /\ cl.st = "ready" => peer[i].st = "ready"
           /\ c \in Invited /\ cl.st = "ready" /\ ~Established(peer[i]) =>
                LET hello == IF Established(cl) THEN peer[i].sec
                             ELSE ServerHandshake(Hello(c), peer[i])
                    answered == ClientHandshake(ServerHello(i, c), cl)
                IN /\ hello.st = "ServerHello"
                   /\ \E f \in answered.reply :
                        ServerHandshake(f, [peer[i] EXCEPT !.sec = hello]).st = "Established"

\* Only the invited get in, and a handshake that is under way can still finish.
ConnectionSafety == TypeOK /\ AdmittedByInvite /\ CanStillFinish
=============================================================================
