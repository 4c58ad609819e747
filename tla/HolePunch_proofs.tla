-------------------------- MODULE HolePunch_proofs --------------------------
(***************************************************************************)
(* Proofs about HolePunch, for any number of clients behind any NATs.  The *)
(* invariant follows a datagram from its sender, whose NAT is open for the *)
(* answer, through the server to the list of peers.                        *)
(***************************************************************************)
EXTENDS HolePunch, TLAPS

\* Endpoints that the server has heard from, those a punch can be meant for,
\* and those a datagram is sent to.
Callers == Clients \X {Server}
Targets == Clients \X {Server, Unknown}
Dests == PeerEndpoints \cup {ServerEp}

\* A client behind a port restricted NAT has not sent to the port that a
\* symmetric NAT has mapped for it.
PortOk(c, e) ==
    nat[c] = "port" /\ e[1] \in Clients /\ nat[e[1]] = "symmetric" => e[2] # c

HolesSound ==
    \A c \in Clients : \A h \in open[c] :
        h[2] \in Dests /\ h[1] = Mapped(c, h[2][1])[2] /\ PortOk(c, h[2])

FromServer(d) ==
    /\ d.from = ServerEp
    /\ d.type = "PUNCH"
    /\ d.to \in PeerEndpoints
    /\ d.arg \in Callers

FromClient(d) ==
    \E c \in Clients :
        /\ d.from = Mapped(c, d.to[1])
        /\ <<d.from[2], d.to>> \in open[c]
        /\ d.to \in Dests
        /\ d.to = ServerEp => d.arg \in Callers \cup {Nowhere}
        /\ d.type = "REPLY" => d.to \in Targets

NetSound == \A d \in net : FromServer(d) \/ FromClient(d)

ListsSound ==
    /\ pool \subseteq Callers
    /\ \A c \in Clients :
        /\ seen[c] \subseteq Callers
        /\ con[c].cmd # "none" => con[c].arg \in Callers
        /\ rcv[c] \in Callers \cup {Nowhere}

Inv == TypeOK /\ HolesSound /\ NetSound /\ ListsSound /\ PeersCanTalk /\ OnlyCone

-----------------------------------------------------------------------------
(* Endpoints *)

LEMMA Places ==
    /\ ServerEp \notin PeerEndpoints
    /\ Nowhere \notin Dests
    /\ Callers \subseteq Targets
    /\ Targets \subseteq PeerEndpoints
    /\ Dests \subseteq Endpoints
    /\ Dests \cup {Nowhere} = Endpoints
  BY HostsAssumption
  DEF ServerEp, PeerEndpoints, Nowhere, Dests, Callers, Targets, Endpoints, Ports

LEMMA MappedType ==
    ASSUME TypeOK, NEW c \in Clients, NEW e \in Dests
    PROVE  /\ Mapped(c, e[1]) \in PeerEndpoints
           /\ Mapped(c, e[1])[1] = c
           /\ Mapped(c, e[1])[2] \in Clients \cup {Server}
           /\ nat[c] # "symmetric" => Mapped(c, e[1]) = <<c, Server>>
           /\ nat[c] = "symmetric" => Mapped(c, e[1]) = <<c, e[1]>>
  BY DEF Mapped, Dests, PeerEndpoints, ServerEp, Ports

LEMMA MappedForServer ==
    ASSUME NEW c \in Clients
    PROVE  Mapped(c, ServerEp[1]) = <<c, Server>> /\ Mapped(c, ServerEp[1]) \in Callers
  BY DEF Mapped, ServerEp, Callers

LEMMA TargetsPortOk ==
    ASSUME NEW c \in Clients, NEW e \in Targets \cup {ServerEp}
    PROVE  PortOk(c, e)
  BY HostsAssumption DEF PortOk, Targets, ServerEp

\* What c sends is the datagram it is meant to be, and goes somewhere.
LEMMA DatagramIs ==
    ASSUME TypeOK, NEW c \in Clients, NEW to \in Endpoints, NEW arg \in Endpoints,
           NEW type \in {"LOGIN", "LOGOUT", "LIST", "PUNCH", "REPLY", "PING"},
           NEW d \in Datagram(c, type, to, arg)
    PROVE  /\ d = [type |-> type, from |-> Mapped(c, to[1]), to |-> to, arg |-> arg]
           /\ to \in Dests
           /\ d \in Datagrams
  <1>1. d = [type |-> type, from |-> Mapped(c, to[1]), to |-> to, arg |-> arg]
    BY HostsAssumption DEF Datagram
  <1>2. to # Nowhere
    BY DEF Datagram
  <1>3. to \in Dests
    BY <1>2, Places
  <1>4. Mapped(c, to[1]) \in Endpoints
    BY <1>3, MappedType, Places DEF Dests
  <1> QED
    BY <1>1, <1>3, <1>4 DEF Datagrams

-----------------------------------------------------------------------------
(* Sending *)

\* The holes of a NAT after its client has sent something.
LEMMA SendingOpens ==
    ASSUME TypeOK, HolesSound, nat' = nat, NEW c \in Clients, NEW D,
           open' = Opened(c, D),
           \A e \in D \ {Nowhere} : e \in Dests /\ PortOk(c, e)
    PROVE  /\ open' \in [Clients -> SUBSET (Ports \X Endpoints)]
           /\ HolesSound'
           /\ \A x \in Clients : open[x] \subseteq open'[x]
           /\ \A e \in D \ {Nowhere} : <<Mapped(c, e[1])[2], e>> \in open'[c]
  <1> DEFINE New == {<<Mapped(c, e[1])[2], e>> : e \in D \ {Nowhere}}
  <1>1. open \in [Clients -> SUBSET (Ports \X Endpoints)]
    BY DEF TypeOK
  <1>2. open' = [open EXCEPT ![c] = @ \cup New]
    BY DEF Opened
  <1>3. \A x \in Clients : open'[x] = IF x = c THEN open[x] \cup New ELSE open[x]
    BY <1>1, <1>2
  <1>4. New \subseteq Ports \X Endpoints
    BY MappedType, Places DEF Ports
  <1>5. open' \in [Clients -> SUBSET (Ports \X Endpoints)]
    BY <1>1, <1>2, <1>4
  <1>6. ASSUME NEW x \in Clients, NEW h \in open'[x]
        PROVE  h[2] \in Dests /\ h[1] = Mapped(x, h[2][1])'[2] /\ PortOk(x, h[2])'
    <2>1. CASE h \in open[x]
      BY <2>1 DEF HolesSound, Mapped, PortOk
    <2>2. CASE x = c /\ h \in New
      <3>1. PICK e \in D \ {Nowhere} : h = <<Mapped(c, e[1])[2], e>>
        BY <2>2
      <3>2. h[2] = e /\ h[1] = Mapped(c, e[1])[2]
        BY <3>1
      <3> QED
        BY <2>2, <3>2 DEF Mapped, PortOk
    <2> QED
      BY <1>3, <2>1, <2>2
  <1>7. HolesSound'
    BY <1>6 DEF HolesSound, Dests, PeerEndpoints, Ports, ServerEp
  <1> QED
    BY <1>3, <1>5, <1>7

\* A datagram stays what it is while holes are only added.
LEMMA SentStays ==
    ASSUME NetSound, nat' = nat, \A x \in Clients : open[x] \subseteq open'[x],
           NEW d \in net
    PROVE  (FromServer(d) \/ FromClient(d))'
  <1>1. CASE FromServer(d)
    BY <1>1 DEF FromServer, ServerEp, PeerEndpoints, Callers, Ports
  <1>2. CASE FromClient(d)
    <2>1. PICK c \in Clients :
            /\ d.from = Mapped(c, d.to[1])
            /\ <<d.from[2], d.to>> \in open[c]
            /\ d.to \in Dests
            /\ d.to = ServerEp => d.arg \in Callers \cup {Nowhere}
            /\ d.type = "REPLY" => d.to \in Targets
      BY <1>2 DEF FromClient
    <2>2. Mapped(c, d.to[1])' = Mapped(c, d.to[1])
      BY DEF Mapped
    <2>3. <<d.from[2], d.to>> \in open'[c]
      BY <2>1
    <2> QED
      BY <2>1, <2>2, <2>3
      DEF FromClient, Dests, Callers, Targets, ServerEp, Nowhere, PeerEndpoints, Ports
  <1> QED
    BY <1>1, <1>2 DEF NetSound

\* A hole that lets a datagram through stays, so peers can talk for good.
LEMMA TalkStays ==
    ASSUME TypeOK, PeersCanTalk, OnlyCone, nat' = nat, g_peers' = g_peers,
           \A x \in Clients : open[x] \subseteq open'[x]
    PROVE  (PeersCanTalk /\ OnlyCone)'
  <1>1. OnlyCone'
    BY DEF OnlyCone
  <1>2. ASSUME NEW c \in Clients, NEW p \in g_peers[c]
        PROVE  Passes(p[1], Mapped(c, p[1]), p)'
    <2>1. p[1] \in Clients
      BY DEF TypeOK, PeerEndpoints
    <2>2. Passes(p[1], Mapped(c, p[1]), p)
      BY DEF PeersCanTalk
    <2>3. Mapped(c, p[1])' = Mapped(c, p[1])
      BY DEF Mapped
    <2> QED
      BY <2>1, <2>2, <2>3 DEF Passes
  <1> QED
    BY <1>1, <1>2 DEF PeersCanTalk

\* Client c sends datagrams to D, and nothing else changes that the datagrams
\* on the net and the peers depend on.
LEMMA Sending ==
    ASSUME Inv, nat' = nat, NEW c \in Clients, NEW D, open' = Opened(c, D),
           \A e \in D \ {Nowhere} : e \in Dests /\ PortOk(c, e),
           \A d \in net' \ net :
               /\ d \in Datagrams
               /\ d.to \in D \ {Nowhere}
               /\ d.from = Mapped(c, d.to[1])
               /\ d.to = ServerEp => d.arg \in Callers \cup {Nowhere}
               /\ d.type = "REPLY" => d.to \in Targets
    PROVE  /\ open' \in [Clients -> SUBSET (Ports \X Endpoints)]
           /\ net' \subseteq Datagrams
           /\ HolesSound'
           /\ NetSound'
           /\ g_peers' = g_peers => (PeersCanTalk /\ OnlyCone)'
           /\ \A x \in Clients : open[x] \subseteq open'[x]
           /\ \A e \in D \ {Nowhere} : <<Mapped(c, e[1])[2], e>> \in open'[c]
  <1>1. /\ open' \in [Clients -> SUBSET (Ports \X Endpoints)]
        /\ HolesSound'
        /\ \A x \in Clients : open[x] \subseteq open'[x]
        /\ \A e \in D \ {Nowhere} : <<Mapped(c, e[1])[2], e>> \in open'[c]
    BY SendingOpens DEF Inv
  <1>2. net' \subseteq Datagrams
    BY DEF Inv, TypeOK
  <1>3. ASSUME NEW d \in net' PROVE (FromServer(d) \/ FromClient(d))'
    <2>1. CASE d \in net
      BY <1>1, <2>1, SentStays DEF Inv
    <2>2. CASE d \notin net
      <3>1. /\ d.to \in D \ {Nowhere}
            /\ d.from = Mapped(c, d.to[1])
            /\ d.to = ServerEp => d.arg \in Callers \cup {Nowhere}
            /\ d.type = "REPLY" => d.to \in Targets
        BY <2>2
      <3>2. <<d.from[2], d.to>> \in open'[c]
        BY <1>1, <3>1
      <3>3. Mapped(c, d.to[1])' = Mapped(c, d.to[1])
        BY DEF Mapped
      <3>4. d.to \in Dests
        BY <3>1
      <3> QED
        BY <3>1, <3>2, <3>3, <3>4
        DEF FromClient, Dests, Callers, Targets, ServerEp, Nowhere, PeerEndpoints, Ports
    <2> QED
      BY <2>1, <2>2
  <1>4. NetSound'
    BY <1>3 DEF NetSound
  <1>5. g_peers' = g_peers => (PeersCanTalk /\ OnlyCone)'
    BY <1>1, TalkStays DEF Inv
  <1> QED
    BY <1>1, <1>2, <1>4, <1>5

-----------------------------------------------------------------------------
(* Steps *)

LEMMA CommandType ==
    ASSUME TypeOK, NEW c \in Clients, Command(c)
    PROVE  /\ cmds' \in [Clients -> 0 .. MaxCmds]
           /\ strtok' \in [Clients -> {"console", "receiver"}]
  <1>1. cmds[c] + 1 \in 0 .. MaxCmds
    BY HostsAssumption DEF TypeOK, Command
  <1> QED
    BY <1>1 DEF TypeOK, Command

\* What is typed at the console.
LEMMA ConsoleStep ==
    ASSUME Inv, NEW c \in Clients,
           \/ \E type \in {"LOGIN", "LOGOUT", "LIST"} : Ask(c, type)
           \/ Quit(c)
           \/ ConsoleEof(c)
           \/ \E cmd \in {"punch", "send"}, e \in seen[c] : BeginParse(c, cmd, e)
           \/ Punch(c)
           \/ SendText(c)
    PROVE  Inv'
  <1> USE DEF Inv
  <1>1. ASSUME NEW type \in {"LOGIN", "LOGOUT", "LIST"},
               Ask(c, type) \/ (type = "LOGOUT" /\ Quit(c))
        PROVE  Inv'
    <2>1. /\ nat' = nat
          /\ open' = Opened(c, {ServerEp})
          /\ net' = net \cup Datagram(c, type, ServerEp, Nowhere)
          /\ Command(c)
          /\ run' \in [Clients -> {"on", "eof", "off"}]
          /\ UNCHANGED <<pool, seen, g_peers, con, rcv, jumbled>>
      BY <1>1 DEF Ask, Quit, TypeOK
    <2>2. \A e \in {ServerEp} \ {Nowhere} : e \in Dests /\ PortOk(c, e)
      BY TargetsPortOk DEF Dests
    <2>3. ASSUME NEW d \in net' \ net
          PROVE  /\ d \in Datagrams
                 /\ d.to \in {ServerEp} \ {Nowhere}
                 /\ d.from = Mapped(c, d.to[1])
                 /\ d.to = ServerEp => d.arg \in Callers \cup {Nowhere}
                 /\ d.type = "REPLY" => d.to \in Targets
      <3>1. d \in Datagram(c, type, ServerEp, Nowhere)
        BY <2>1
      <3>2. ServerEp \in Endpoints /\ Nowhere \in Endpoints
        BY DEF Endpoints
      <3>3. /\ d = [type |-> type, from |-> Mapped(c, ServerEp[1]), to |-> ServerEp,
                    arg |-> Nowhere]
            /\ ServerEp \in Dests
            /\ d \in Datagrams
        BY <3>1, <3>2, DatagramIs
      <3> QED
        BY <3>3, Places
    <2>4. /\ open' \in [Clients -> SUBSET (Ports \X Endpoints)]
          /\ net' \subseteq Datagrams
          /\ HolesSound' /\ NetSound' /\ (PeersCanTalk /\ OnlyCone)'
      BY <2>1, <2>2, <2>3, Sending
    <2>5. TypeOK'
      BY <2>1, <2>4, CommandType DEF TypeOK
    <2>6. ListsSound'
      BY <2>1 DEF ListsSound, Callers, Nowhere
    <2> QED
      BY <2>4, <2>5, <2>6
  <1>2. ASSUME NEW cmd \in {"punch", "send"}, NEW e \in seen[c], BeginParse(c, cmd, e)
        PROVE  Inv'
    <2>1. e \in Callers
      BY DEF ListsSound
    <2>2. ListsSound'
      BY <1>2, <2>1 DEF BeginParse, ListsSound, TypeOK, Callers, Nowhere
    <2>3. TypeOK'
      BY <1>2, <2>1, Places, CommandType
      DEF BeginParse, TypeOK, Callers, Targets, PeerEndpoints, Endpoints, Ports
    <2> QED
      BY <1>2, <2>2, <2>3
      DEF BeginParse, HolesSound, NetSound, PeersCanTalk, OnlyCone, FromServer, FromClient,
          Mapped, Passes, PortOk
  <1>3. CASE ConsoleEof(c)
    <2>1. TypeOK'
      BY <1>3 DEF ConsoleEof, TypeOK
    <2> QED
      BY <1>3, <2>1
      DEF ConsoleEof, HolesSound, NetSound, ListsSound, PeersCanTalk, OnlyCone, FromServer,
          FromClient, Mapped, Passes, PortOk
  <1>4. CASE Punch(c)
    <2>1. PICK typed \in {con[c].arg, Nowhere} :
            \E peer \in IF typed = Nowhere THEN {Nowhere} ELSE Parsed(c, "console", typed) :
                /\ open' = Opened(c, {peer, ServerEp})
                /\ net' = net \cup Datagram(c, "PUNCH", peer, Nowhere)
                              \cup Datagram(c, "PUNCH", ServerEp, typed)
      BY <1>4 DEF Punch
    <2>2. PICK peer \in IF typed = Nowhere THEN {Nowhere} ELSE Parsed(c, "console", typed) :
            /\ open' = Opened(c, {peer, ServerEp})
            /\ net' = net \cup Datagram(c, "PUNCH", peer, Nowhere)
                          \cup Datagram(c, "PUNCH", ServerEp, typed)
      BY <2>1
    <2>3. typed \in Callers \cup {Nowhere}
      BY <1>4, <2>1 DEF Punch, ListsSound
    <2>4. peer \in Targets \cup {Nowhere}
      BY <2>2, <2>3 DEF Parsed, Callers, Targets
    <2>5. \A e \in {peer, ServerEp} \ {Nowhere} : e \in Dests /\ PortOk(c, e)
      BY <2>4, Places, TargetsPortOk DEF Dests
    <2>6. /\ peer \in Endpoints /\ ServerEp \in Endpoints
          /\ Nowhere \in Endpoints /\ typed \in Endpoints
      BY <2>3, <2>4, Places DEF Endpoints
    <2>7. ASSUME NEW d \in net' \ net
          PROVE  /\ d \in Datagrams
                 /\ d.to \in {peer, ServerEp} \ {Nowhere}
                 /\ d.from = Mapped(c, d.to[1])
                 /\ d.to = ServerEp => d.arg \in Callers \cup {Nowhere}
                 /\ d.type = "REPLY" => d.to \in Targets
      <3>1. CASE d \in Datagram(c, "PUNCH", peer, Nowhere)
        <4>1. /\ d = [type |-> "PUNCH", from |-> Mapped(c, peer[1]), to |-> peer,
                      arg |-> Nowhere]
              /\ peer \in Dests
              /\ d \in Datagrams
          BY <3>1, <2>6, DatagramIs
        <4> QED
          BY <4>1, Places
      <3>2. CASE d \in Datagram(c, "PUNCH", ServerEp, typed)
        <4>1. /\ d = [type |-> "PUNCH", from |-> Mapped(c, ServerEp[1]), to |-> ServerEp,
                      arg |-> typed]
              /\ ServerEp \in Dests
              /\ d \in Datagrams
          BY <3>2, <2>6, DatagramIs
        <4> QED
          BY <4>1, <2>3, Places
      <3> QED
        BY <2>2, <3>1, <3>2
    <2>8. /\ nat' = nat
          /\ g_peers' = g_peers
          /\ con' = [con EXCEPT ![c] = Idle]
          /\ EndStrtok(c, "console")
          /\ UNCHANGED <<pool, seen, run, rcv, cmds>>
      BY <1>4 DEF Punch
    <2>9. /\ open' \in [Clients -> SUBSET (Ports \X Endpoints)]
          /\ net' \subseteq Datagrams
          /\ HolesSound' /\ NetSound' /\ (PeersCanTalk /\ OnlyCone)'
      BY <2>2, <2>5, <2>7, <2>8, Sending
    <2>10. TypeOK'
      BY <2>8, <2>9 DEF TypeOK, EndStrtok, Idle, Endpoints
    <2>11. ListsSound'
      BY <2>8 DEF ListsSound, Idle, TypeOK, Callers, Nowhere
    <2> QED
      BY <2>9, <2>10, <2>11
  <1>5. CASE SendText(c)
    <2>1. PICK peer \in Parsed(c, "console", con[c].arg) : open' = Opened(c, {peer})
      BY <1>5 DEF SendText
    <2>2. peer \in Targets \cup {Nowhere}
      BY <1>5, <2>1 DEF SendText, ListsSound, Parsed, Callers, Targets
    <2>3. \A e \in {peer} \ {Nowhere} : e \in Dests /\ PortOk(c, e)
      BY <2>2, Places, TargetsPortOk DEF Dests
    <2>4. /\ nat' = nat /\ net' = net
          /\ g_peers' = g_peers
          /\ con' = [con EXCEPT ![c] = Idle]
          /\ EndStrtok(c, "console")
          /\ UNCHANGED <<pool, seen, run, rcv, cmds>>
      BY <1>5 DEF SendText
    <2>5. /\ open' \in [Clients -> SUBSET (Ports \X Endpoints)]
          /\ net' \subseteq Datagrams
          /\ HolesSound' /\ NetSound' /\ (PeersCanTalk /\ OnlyCone)'
      BY <2>1, <2>3, <2>4, Sending
    <2>6. TypeOK'
      BY <2>4, <2>5 DEF TypeOK, EndStrtok, Idle, Endpoints
    <2>7. ListsSound'
      BY <2>4 DEF ListsSound, Idle, TypeOK, Callers, Nowhere
    <2> QED
      BY <2>5, <2>6, <2>7
  <1> QED
    BY <1>1, <1>2, <1>3, <1>4, <1>5

\* The server: what it learns or tells of a client is its endpoint.
LEMMA ServerStep ==
    ASSUME Inv, NEW d \in net, Login(d) \/ Logout(d) \/ List(d) \/ RelayPunch(d)
    PROVE  Inv'
  <1> USE DEF Inv
  <1>1. d.to = ServerEp
    BY DEF Login, Logout, List, RelayPunch, AtServer
  <1>2. d.from \in Callers /\ d.arg \in Callers \cup {Nowhere}
    <2>1. FromClient(d)
      BY <1>1, Places DEF NetSound, FromServer
    <2> QED
      BY <1>1, <2>1, MappedForServer DEF FromClient
  <1>3. CASE Login(d) \/ Logout(d) \/ List(d)
    <2>1. ListsSound'
      BY <1>2, <1>3 DEF Login, Logout, List, ListsSound, TypeOK, Callers, Nowhere
    <2>2. TypeOK'
      BY <1>2, <1>3, Places DEF Login, Logout, List, TypeOK
    <2> QED
      BY <1>3, <2>1, <2>2
      DEF Login, Logout, List, HolesSound, NetSound, PeersCanTalk, OnlyCone, FromServer,
          FromClient, Mapped, Passes, PortOk
  <1>4. CASE RelayPunch(d)
    <2>1. ASSUME NEW e \in Datagram(Server, "PUNCH", d.arg, d.from)
          PROVE  e \in Datagrams /\ FromServer(e)
      <3>1. e = [type |-> "PUNCH", from |-> ServerEp, to |-> d.arg, arg |-> d.from]
        BY DEF Datagram
      <3>2. d.arg \in Callers
        BY <1>2 DEF Datagram
      <3> QED
        BY <1>2, <3>1, <3>2, Places DEF FromServer, Datagrams, Dests
    <2>2. /\ net' \subseteq net \cup Datagram(Server, "PUNCH", d.arg, d.from)
          /\ UNCHANGED <<nat, open, pool, seen, g_peers, run, con, rcv, strtok, jumbled, cmds>>
      BY <1>4 DEF RelayPunch
    <2>3. NetSound'
      BY <2>1, <2>2 DEF NetSound, FromServer, FromClient, Mapped
    <2>4. TypeOK'
      BY <2>1, <2>2 DEF TypeOK
    <2> QED
      BY <2>2, <2>3, <2>4
      DEF HolesSound, ListsSound, PeersCanTalk, OnlyCone, Mapped, Passes, PortOk
  <1> QED
    BY <1>3, <1>4

\* The receiver and the keepalive thread.  Only AddPeer lengthens the list of
\* peers: the peer has sent its reply to an endpoint that it now lets through.
LEMMA ReceiverStep ==
    ASSUME Inv, NEW c \in Clients,
           \/ AnswerCall(c)
           \/ Keepalive(c)
           \/ \E d \in net : BeginCall(c, d) \/ AnswerPeer(c, d) \/ AddPeer(c, d)
    PROVE  Inv'
  <1> USE DEF Inv
  <1>1. CASE AnswerCall(c)
    <2>1. PICK peer \in Parsed(c, "receiver", rcv[c]) :
            /\ open' = Opened(c, {peer})
            /\ net' = net \cup Datagram(c, "REPLY", peer, Nowhere)
      BY <1>1 DEF AnswerCall
    <2>2. peer \in Targets \cup {Nowhere}
      BY <1>1, <2>1 DEF AnswerCall, ListsSound, Parsed, Callers, Targets
    <2>3. \A e \in {peer} \ {Nowhere} : e \in Dests /\ PortOk(c, e)
      BY <2>2, Places, TargetsPortOk DEF Dests
    <2>4. ASSUME NEW d \in net' \ net
          PROVE  /\ d \in Datagrams
                 /\ d.to \in {peer} \ {Nowhere}
                 /\ d.from = Mapped(c, d.to[1])
                 /\ d.to = ServerEp => d.arg \in Callers \cup {Nowhere}
                 /\ d.type = "REPLY" => d.to \in Targets
      <3>1. d \in Datagram(c, "REPLY", peer, Nowhere)
        BY <2>1
      <3>2. peer \in Endpoints /\ Nowhere \in Endpoints
        BY <2>2, Places DEF Endpoints
      <3>3. /\ d = [type |-> "REPLY", from |-> Mapped(c, peer[1]), to |-> peer,
                    arg |-> Nowhere]
            /\ peer \in Dests
            /\ d \in Datagrams
        BY <3>1, <3>2, DatagramIs
      <3> QED
        BY <2>2, <3>3, Places
    <2>5. /\ nat' = nat
          /\ g_peers' = g_peers
          /\ rcv' = [rcv EXCEPT ![c] = Nowhere]
          /\ EndStrtok(c, "receiver")
          /\ UNCHANGED <<pool, seen, run, con, cmds>>
      BY <1>1 DEF AnswerCall
    <2>6. /\ open' \in [Clients -> SUBSET (Ports \X Endpoints)]
          /\ net' \subseteq Datagrams
          /\ HolesSound' /\ NetSound' /\ (PeersCanTalk /\ OnlyCone)'
      BY <2>1, <2>3, <2>4, <2>5, Sending
    <2>7. TypeOK'
      BY <2>5, <2>6 DEF TypeOK, EndStrtok, Endpoints
    <2>8. ListsSound'
      BY <2>5 DEF ListsSound, TypeOK, Callers, Nowhere
    <2> QED
      BY <2>6, <2>7, <2>8
  <1>2. CASE Keepalive(c)
    <2> DEFINE D == {ServerEp} \cup g_peers[c]
    <2>1. \A e \in g_peers[c] : e \in PeerEndpoints
      BY DEF TypeOK
    <2>2. ASSUME NEW e \in D \ {Nowhere} PROVE e \in Dests /\ PortOk(c, e)
      <3>1. CASE e = ServerEp
        BY <3>1, TargetsPortOk DEF Dests
      <3>2. CASE e \in g_peers[c]
        BY <2>1, <3>2 DEF Dests, OnlyCone, PortOk
      <3> QED
        BY <3>1, <3>2
    <2>3. ASSUME NEW d \in net' \ net
          PROVE  /\ d \in Datagrams
                 /\ d.to \in D \ {Nowhere}
                 /\ d.from = Mapped(c, d.to[1])
                 /\ d.to = ServerEp => d.arg \in Callers \cup {Nowhere}
                 /\ d.type = "REPLY" => d.to \in Targets
      <3>1. PICK e \in g_peers[c] : d \in Datagram(c, "PING", e, Nowhere)
        BY <1>2 DEF Keepalive
      <3>2. e \in Endpoints /\ Nowhere \in Endpoints
        BY <2>1 DEF Endpoints
      <3>3. /\ d = [type |-> "PING", from |-> Mapped(c, e[1]), to |-> e, arg |-> Nowhere]
            /\ e \in Dests
            /\ d \in Datagrams
        BY <3>1, <3>2, DatagramIs
      <3> QED
        BY <3>3, Places
    <2>4. /\ nat' = nat
          /\ open' = Opened(c, D)
          /\ UNCHANGED <<pool, seen, g_peers, run, con, rcv, strtok, jumbled, cmds>>
      BY <1>2 DEF Keepalive
    <2> HIDE DEF D
    <2>5. /\ open' \in [Clients -> SUBSET (Ports \X Endpoints)]
          /\ net' \subseteq Datagrams
          /\ HolesSound' /\ NetSound' /\ (PeersCanTalk /\ OnlyCone)'
      BY <2>2, <2>3, <2>4, Sending
    <2> QED
      BY <2>4, <2>5 DEF TypeOK, ListsSound
  <1>3. ASSUME NEW d \in net, BeginCall(c, d)
        PROVE  Inv'
    <2>1. d.arg \in Callers
      <3>1. d.from = ServerEp
        BY <1>3 DEF BeginCall
      <3>2. ~FromClient(d)
        BY <3>1, MappedType, Places DEF FromClient
      <3> QED
        BY <3>2 DEF NetSound, FromServer
    <2>2. ListsSound'
      BY <1>3, <2>1 DEF BeginCall, ListsSound, TypeOK, Callers, Nowhere
    <2>3. TypeOK'
      BY <1>3, <2>1, Places DEF BeginCall, TypeOK, Dests
    <2>4. NetSound'
      BY <1>3 DEF BeginCall, NetSound, FromServer, FromClient, Mapped
    <2> QED
      BY <1>3, <2>2, <2>3, <2>4
      DEF BeginCall, HolesSound, PeersCanTalk, OnlyCone, Mapped, Passes, PortOk
  <1>4. ASSUME NEW d \in net, d.from # ServerEp, Receives(c, d)
        PROVE  /\ d.from \in PeerEndpoints
               /\ PortOk(c, d.from)
               /\ d.type = "REPLY" =>
                    /\ Passes(d.from[1], Mapped(c, d.from[1]), d.from)
                    /\ nat[c] # "symmetric"
                    /\ nat[c] = "port" => nat[d.from[1]] # "symmetric"
    <2>1. PICK p \in Clients :
            /\ d.from = Mapped(p, d.to[1])
            /\ <<d.from[2], d.to>> \in open[p]
            /\ d.to \in Dests
            /\ d.type = "REPLY" => d.to \in Targets
      BY <1>4 DEF NetSound, FromServer, FromClient
    <2>2. /\ d.from \in PeerEndpoints
          /\ d.from[1] = p
          /\ nat[p] # "symmetric" => d.from = <<p, Server>>
      BY <2>1, MappedType
    <2>3. PICK hole \in open[c] :
            /\ hole[1] = d.to[2]
            /\ nat[c] = "address" => hole[2][1] = d.from[1]
            /\ nat[c] \in {"port", "symmetric"} => hole[2] = d.from
      BY <1>4 DEF Receives, Passes
    <2>4. hole[2] \in Dests /\ hole[1] = Mapped(c, hole[2][1])[2] /\ PortOk(c, hole[2])
      BY DEF HolesSound
    <2>5. PortOk(c, d.from)
      BY <2>3, <2>4 DEF PortOk
    <2>6. ASSUME d.type = "REPLY"
          PROVE  /\ Passes(p, Mapped(c, p), d.from)
                 /\ nat[c] # "symmetric"
                 /\ nat[c] = "port" => nat[p] # "symmetric"
      <3>1. d.to = <<c, Server>>
        <4>1. d.to \in Targets /\ d.to[1] = c
          BY <1>4, <2>1, <2>6 DEF Receives
        <4>2. hole[1] \in Clients \cup {Server}
          BY <2>4, MappedType
        <4> QED
          BY <2>3, <4>1, <4>2, HostsAssumption DEF Targets
      <3>2. nat[c] # "symmetric"
        <4>1. SUFFICES ASSUME nat[c] = "symmetric" PROVE FALSE
          OBVIOUS
        <4>2. hole[1] = hole[2][1]
          BY <2>4, <4>1 DEF Mapped
        <4>3. hole[2] = d.from /\ hole[1] = Server
          BY <2>3, <3>1, <4>1
        <4> QED
          BY <2>2, <4>2, <4>3, HostsAssumption
      <3>3. nat[c] = "port" => nat[p] # "symmetric"
        <4>1. SUFFICES ASSUME nat[c] = "port", nat[p] = "symmetric" PROVE FALSE
          OBVIOUS
        <4>2. d.from = <<p, c>>
          BY <2>1, <3>1, <4>1 DEF Mapped
        <4> QED
          BY <2>5, <4>1, <4>2 DEF PortOk
      <3>4. Mapped(c, p) = d.to
        BY <3>1, <3>2 DEF Mapped
      <3>5. Passes(p, d.to, d.from)
        BY <2>1, <2>2 DEF Passes
      <3> QED
        BY <3>2, <3>3, <3>4, <3>5
    <2> QED
      BY <2>2, <2>5, <2>6
  <1>5. ASSUME NEW d \in net, AnswerPeer(c, d) \/ AddPeer(c, d)
        PROVE  Inv'
    <2>1. /\ Receives(c, d) /\ d.from # ServerEp
          /\ open' = Opened(c, {d.from})
          /\ UNCHANGED <<nat, net, pool, seen, run, con, rcv, strtok, jumbled, cmds>>
      BY <1>5 DEF AnswerPeer, AddPeer
    <2>2. d.from \in PeerEndpoints /\ PortOk(c, d.from)
      BY <1>4, <2>1
    <2>3. \A e \in {d.from} \ {Nowhere} : e \in Dests /\ PortOk(c, e)
      BY <2>2 DEF Dests
    <2>4. /\ open' \in [Clients -> SUBSET (Ports \X Endpoints)]
          /\ HolesSound' /\ NetSound'
          /\ g_peers' = g_peers => (PeersCanTalk /\ OnlyCone)'
          /\ \A x \in Clients : open[x] \subseteq open'[x]
      BY <2>1, <2>3, Sending
    <2>5. ListsSound'
      BY <2>1 DEF ListsSound
    <2>6. CASE AnswerPeer(c, d)
      <3>1. g_peers' = g_peers
        BY <2>6 DEF AnswerPeer
      <3> QED
        BY <2>1, <2>4, <2>5, <3>1 DEF TypeOK
    <2>7. CASE AddPeer(c, d)
      <3>1. d.type = "REPLY" /\ g_peers' = [g_peers EXCEPT ![c] = @ \cup {d.from}]
        BY <2>7 DEF AddPeer
      <3>2. TypeOK'
        BY <2>1, <2>2, <2>4, <3>1 DEF TypeOK
      <3>3. ASSUME NEW x \in Clients, NEW p \in g_peers'[x]
            PROVE  /\ Passes(p[1], Mapped(x, p[1]), p)'
                   /\ nat'[x] # "symmetric"
                   /\ nat'[x] = "port" => nat'[p[1]] # "symmetric"
        <4>1. p[1] \in Clients
          BY <3>2 DEF TypeOK, PeerEndpoints
        <4>2. p \in g_peers[x] \/ (x = c /\ p = d.from)
          BY <3>1 DEF TypeOK
        <4>3. /\ Passes(p[1], Mapped(x, p[1]), p)
              /\ nat[x] # "symmetric"
              /\ nat[x] = "port" => nat[p[1]] # "symmetric"
          BY <1>4, <2>1, <3>1, <4>2 DEF PeersCanTalk, OnlyCone
        <4>4. Mapped(x, p[1])' = Mapped(x, p[1])
          BY <2>1 DEF Mapped
        <4> QED
          BY <2>1, <2>4, <4>1, <4>3, <4>4 DEF Passes
      <3>4. (PeersCanTalk /\ OnlyCone)'
        BY <3>3 DEF PeersCanTalk, OnlyCone
      <3> QED
        BY <2>4, <2>5, <3>2, <3>4
    <2> QED
      BY <1>5, <2>6, <2>7
  <1> QED
    BY <1>1, <1>2, <1>3, <1>5

-----------------------------------------------------------------------------
(* Theorems *)

LEMMA InitInv == Init => Inv
  <1> SUFFICES ASSUME Init PROVE Inv
    OBVIOUS
  <1> USE DEF Init
  <1>1. TypeOK
    <2>1. nat \in [Clients -> Kinds] /\ 0 \in 0 .. MaxCmds
      BY HostsAssumption
    <2>2. Nowhere \in Endpoints
      BY DEF Endpoints
    <2>3. Idle \in [cmd : {"none", "punch", "send"}, arg : Endpoints]
      BY <2>2 DEF Idle
    <2> QED
      BY <2>1, <2>2, <2>3 DEF TypeOK
  <1>2. HolesSound /\ NetSound /\ PeersCanTalk /\ OnlyCone
    BY DEF HolesSound, NetSound, PeersCanTalk, OnlyCone
  <1>3. ListsSound
    BY DEF ListsSound, Idle
  <1> QED
    BY <1>1, <1>2, <1>3 DEF Inv

LEMMA NextInv == Inv /\ [Next]_vars => Inv'
  <1> SUFFICES ASSUME Inv, [Next]_vars PROVE Inv'
    OBVIOUS
  <1>1. ASSUME NEW c \in Clients,
               \/ \E type \in {"LOGIN", "LOGOUT", "LIST"} : Ask(c, type)
               \/ Quit(c)
               \/ ConsoleEof(c)
               \/ \E cmd \in {"punch", "send"}, e \in seen[c] : BeginParse(c, cmd, e)
               \/ Punch(c)
               \/ SendText(c)
        PROVE  Inv'
    BY <1>1, ConsoleStep
  <1>2. ASSUME NEW c \in Clients, AnswerCall(c) \/ Keepalive(c)
        PROVE  Inv'
    BY <1>2, ReceiverStep
  <1>3. ASSUME NEW d \in net, Login(d) \/ Logout(d) \/ List(d) \/ RelayPunch(d)
        PROVE  Inv'
    BY <1>3, ServerStep
  <1>4. ASSUME NEW c \in Clients, NEW d \in net,
               BeginCall(c, d) \/ AnswerPeer(c, d) \/ AddPeer(c, d)
        PROVE  Inv'
    BY <1>4, ReceiverStep
  <1>5. CASE UNCHANGED vars
    BY <1>5
    DEF vars, Inv, TypeOK, HolesSound, NetSound, ListsSound, PeersCanTalk, OnlyCone,
        FromServer, FromClient, Mapped, Passes, PortOk
  <1>6. CASE Next
    BY <1>1, <1>2, <1>3, <1>4, <1>6, ZenonT(60) DEF Next
  <1> QED
    BY <1>5, <1>6

\* Every variable keeps its type; among others, no list of peers or pool ever
\* holds 255.255.255.255:0, which a race on strtok may produce.
THEOREM TypeCorrect == Spec => []TypeOK
  <1>1. Inv => TypeOK
    BY DEF Inv
  <1> QED
    BY InitInv, NextInv, <1>1, PTL DEF Spec

\* For any number of clients behind any NATs, and with datagrams lost, late
\* and doubled: who is on a list of peers lets the owner of the list through,
\* and symmetric NATs keep clients off the lists as the README says.
THEOREM PunchSafe == Spec => [](PeersCanTalk /\ OnlyCone)
  <1>1. Inv => PeersCanTalk /\ OnlyCone
    BY DEF Inv
  <1> QED
    BY InitInv, NextInv, <1>1, PTL DEF Spec

\* The second half by itself: a symmetric NAT never gets a peer, and a port
\* restricted one none behind a symmetric NAT (on_message of client.c).
THEOREM SymmetricStaysAlone == Spec => []OnlyCone
  <1>1. PeersCanTalk /\ OnlyCone => OnlyCone
    OBVIOUS
  <1> QED
    BY <1>1, PunchSafe, PTL
=============================================================================
