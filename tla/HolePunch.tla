------------------------------ MODULE HolePunch ------------------------------
(***************************************************************************)
(* p2pchat: clients behind NATs that meet through a server and then talk   *)
(* to each other over UDP.  A client has three threads, which share the    *)
(* socket, the list of peers and the hidden state of strtok: the console,  *)
(* the receiver and the one that keeps the NAT mappings alive.             *)
(*                                                                         *)
(* The network is a set of datagrams: they arrive late, in any order or    *)
(* never, and all but those that pass a call on may arrive again and       *)
(* again.  What nobody acts upon (a text, a PONG, an answer of the server  *)
(* that is only printed) is not kept, but sending it still opens the NAT   *)
(* of the sender.                                                          *)
(***************************************************************************)
EXTENDS Naturals

CONSTANTS
    Clients,
    Server,
    Unknown,    \* a port that no NAT has mapped, a host that does not answer
    Nats,       \* the NATs the clients may be behind
    MaxCmds     \* bound: commands typed at each client

Kinds == {"full", "address", "port", "symmetric"}

ASSUME HostsAssumption ==
    /\ Server \notin Clients
    /\ Unknown \notin Clients \cup {Server}
    /\ Nats \subseteq [Clients -> Kinds]
    /\ MaxCmds \in Nat

\* A port is named after the host that the NAT has mapped it for; a cone NAT
\* keeps the one it mapped for the server.
Ports == Clients \cup {Server, Unknown}
PeerEndpoints == Clients \X Ports
ServerEp == <<Server, Server>>
Nowhere == <<Unknown, Unknown>>  \* 255.255.255.255:0
Endpoints == PeerEndpoints \cup {ServerEp, Nowhere}

Datagrams == [type : {"LOGIN", "LOGOUT", "LIST", "PUNCH", "REPLY", "PING"},
              from : Endpoints, to : Endpoints, arg : Endpoints]

Idle == [cmd |-> "none", arg |-> Nowhere]

VARIABLES
    nat,      \* nat[c]: the kind of the NAT that c is behind
    open,     \* open[c]: <<port, endpoint>> that c has sent through its NAT
    net,      \* datagrams that may still arrive
    pool,     \* g_client_pool of the server
    seen,     \* seen[c]: endpoints listed at c's console
    g_peers,  \* g_peers[c]: peers that have replied to c
    run,      \* run[c]: "on", "eof" (the console has ended) or "off" (quit)
    con,      \* con[c]: the command whose endpoint the console is parsing
    rcv,      \* rcv[c]: the endpoint the receiver is parsing, or Nowhere
    strtok,   \* strtok[c]: the thread whose string strtok is in
    jumbled,  \* a thread has gone on in the string of the other one
    cmds      \* cmds[c]: commands typed so far

vars == <<nat, open, net, pool, seen, g_peers, run, con, rcv, strtok, jumbled, cmds>>

TypeOK ==
    /\ nat \in [Clients -> Kinds]
    /\ open \in [Clients -> SUBSET (Ports \X Endpoints)]
    /\ net \subseteq Datagrams
    /\ pool \subseteq PeerEndpoints
    /\ seen \in [Clients -> SUBSET PeerEndpoints]
    /\ g_peers \in [Clients -> SUBSET PeerEndpoints]
    /\ run \in [Clients -> {"on", "eof", "off"}]
    /\ con \in [Clients -> [cmd : {"none", "punch", "send"}, arg : Endpoints]]
    /\ rcv \in [Clients -> Endpoints]
    /\ strtok \in [Clients -> {"console", "receiver"}]
    /\ jumbled \in BOOLEAN
    /\ cmds \in [Clients -> 0 .. MaxCmds]

Init ==
    /\ nat \in Nats
    /\ open = [c \in Clients |-> {}]
    /\ net = {}
    /\ pool = {}
    /\ seen = [c \in Clients |-> {}]
    /\ g_peers = [c \in Clients |-> {}]
    /\ run = [c \in Clients |-> "on"]
    /\ con = [c \in Clients |-> Idle]
    /\ rcv = [c \in Clients |-> Nowhere]
    /\ strtok = [c \in Clients |-> "console"]
    /\ jumbled = FALSE
    /\ cmds = [c \in Clients |-> 0]

-----------------------------------------------------------------------------
(* NATs *)

\* The endpoint that host h sees c at.
Mapped(c, h) == <<c, IF nat[c] = "symmetric" THEN h ELSE Server>>

\* Whether the NAT of c lets a datagram through to its endpoint to.
Passes(c, from, to) == \E hole \in open[c] :
    /\ hole[1] = to[2]
    /\ CASE nat[c] = "full" -> TRUE
         [] nat[c] = "address" -> hole[2][1] = from[1]
         [] OTHER -> hole[2] = from

\* The holes of c after it has sent to dests; nothing is sent to Nowhere.
Opened(c, dests) ==
    [open EXCEPT ![c] = @ \cup {<<Mapped(c, e[1])[2], e>> : e \in dests \ {Nowhere}}]

\* What c, or the server, puts on the net.
Datagram(c, type, to, arg) ==
    {[type |-> type, from |-> IF c = Server THEN ServerEp ELSE Mapped(c, to[1]),
      to |-> e, arg |-> arg] : e \in {to} \ {Nowhere}}

-----------------------------------------------------------------------------
(* The console *)

\* Every command begins with strtok(line, " ").
Command(c) ==
    /\ run[c] = "on"
    /\ con[c] = Idle
    /\ cmds[c] < MaxCmds
    /\ cmds' = [cmds EXCEPT ![c] = @ + 1]
    /\ strtok' = [strtok EXCEPT ![c] = "console"]

\* login, logout, list
Ask(c, type) ==
    /\ Command(c)
    /\ open' = Opened(c, {ServerEp})
    /\ net' = net \cup Datagram(c, type, ServerEp, Nowhere)
    /\ UNCHANGED <<nat, pool, seen, g_peers, run, con, rcv, jumbled>>

Quit(c) ==
    /\ Command(c)
    /\ open' = Opened(c, {ServerEp})
    /\ net' = net \cup Datagram(c, "LOGOUT", ServerEp, Nowhere)
    /\ run' = [run EXCEPT ![c] = "off"]
    /\ UNCHANGED <<nat, pool, seen, g_peers, con, rcv, jumbled>>

\* The end of stdin ends the console thread only.
ConsoleEof(c) ==
    /\ run[c] = "on"
    /\ con[c] = Idle
    /\ run' = [run EXCEPT ![c] = "eof"]
    /\ UNCHANGED <<nat, open, net, pool, seen, g_peers, con, rcv, strtok, jumbled, cmds>>

\* punch and send name an endpoint of the list.
BeginParse(c, cmd, e) ==
    /\ Command(c)
    /\ e \in seen[c]
    /\ e[1] # c
    /\ con' = [con EXCEPT ![c] = [cmd |-> cmd, arg |-> e]]
    /\ UNCHANGED <<nat, open, net, pool, seen, g_peers, run, rcv, jumbled>>

\* ep_fromstring, called by thread t with endpoint e: the port is looked for
\* in the string of the other thread, if that has called strtok meanwhile.
Parsed(c, t, e) ==
    IF strtok[c] = t THEN {e} ELSE {e, <<e[1], Unknown>>, Nowhere}

EndStrtok(c, t) ==
    /\ jumbled' = (jumbled \/ strtok[c] # t)
    /\ strtok' = [strtok EXCEPT ![c] = t]

\* Mutant: only the server is told, so the caller's own NAT stays closed.
PunchThroughServer(c) ==
    /\ con[c].cmd = "punch"
    /\ EndStrtok(c, "console")
    /\ open' = Opened(c, {ServerEp})
    /\ net' = net \cup Datagram(c, "PUNCH", ServerEp, con[c].arg)
    /\ con' = [con EXCEPT ![c] = Idle]
    /\ UNCHANGED <<nat, pool, seen, g_peers, run, rcv, cmds>>

\* The peer is sent a datagram, which opens the own NAT, and the server the
\* text of the endpoint, which the race may have lost as well.
Punch(c) ==
    /\ con[c].cmd = "punch"
    /\ EndStrtok(c, "console")
    /\ \E typed \in IF strtok[c] = "console" THEN {con[c].arg} ELSE {con[c].arg, Nowhere} :
          \E peer \in IF typed = Nowhere THEN {Nowhere} ELSE Parsed(c, "console", typed) :
              /\ open' = Opened(c, {peer, ServerEp})
              /\ net' = net \cup Datagram(c, "PUNCH", peer, Nowhere)
                            \cup Datagram(c, "PUNCH", ServerEp, typed)
    /\ con' = [con EXCEPT ![c] = Idle]
    /\ UNCHANGED <<nat, pool, seen, g_peers, run, rcv, cmds>>

\* A text to a peer.
SendText(c) ==
    /\ con[c].cmd = "send"
    /\ EndStrtok(c, "console")
    /\ \E peer \in Parsed(c, "console", con[c].arg) : open' = Opened(c, {peer})
    /\ con' = [con EXCEPT ![c] = Idle]
    /\ UNCHANGED <<nat, net, pool, seen, g_peers, run, rcv, cmds>>

-----------------------------------------------------------------------------
(* The server *)

AtServer(d, type) == d \in net /\ d.to = ServerEp /\ d.type = type

Login(d) ==
    /\ AtServer(d, "LOGIN")
    /\ pool' = pool \cup {d.from}
    /\ UNCHANGED <<nat, open, net, seen, g_peers, run, con, rcv, strtok, jumbled, cmds>>

Logout(d) ==
    /\ AtServer(d, "LOGOUT")
    /\ pool' = pool \ {d.from}
    /\ UNCHANGED <<nat, open, net, seen, g_peers, run, con, rcv, strtok, jumbled, cmds>>

\* The answer is read at the console as soon as it is sent.
List(d) ==
    /\ AtServer(d, "LIST")
    /\ seen' = [seen EXCEPT ![d.from[1]] = @ \cup pool]
    /\ UNCHANGED <<nat, open, net, pool, g_peers, run, con, rcv, strtok, jumbled, cmds>>

\* The peer is told of the caller, whether it is logged in or not.
RelayPunch(d) ==
    /\ AtServer(d, "PUNCH")
    /\ net' = (net \ {d}) \cup Datagram(Server, "PUNCH", d.arg, d.from)
    /\ UNCHANGED <<nat, open, pool, seen, g_peers, run, con, rcv, strtok, jumbled, cmds>>

-----------------------------------------------------------------------------
(* The receiver and the keepalive thread *)

\* The receiver of c gets d.
Receives(c, d) ==
    /\ run[c] # "off"
    /\ rcv[c] = Nowhere
    /\ d \in net
    /\ d.to[1] = c
    /\ Passes(c, d.from, d.to)

\* The server tells of a caller: its endpoint is parsed.
BeginCall(c, d) ==
    /\ Receives(c, d)
    /\ d.from = ServerEp
    /\ d.type = "PUNCH"
    /\ net' = net \ {d}
    /\ rcv' = [rcv EXCEPT ![c] = d.arg]
    /\ strtok' = [strtok EXCEPT ![c] = "receiver"]
    /\ UNCHANGED <<nat, open, pool, seen, g_peers, run, con, jumbled, cmds>>

\* Mutant: the caller counts as a peer at once.
AnswerCallAdds(c) ==
    /\ rcv[c] # Nowhere
    /\ EndStrtok(c, "receiver")
    /\ \E peer \in Parsed(c, "receiver", rcv[c]) :
          /\ open' = Opened(c, {peer})
          /\ net' = net \cup Datagram(c, "REPLY", peer, Nowhere)
          /\ g_peers' = [g_peers EXCEPT ![c] = @ \cup {peer}]
    /\ rcv' = [rcv EXCEPT ![c] = Nowhere]
    /\ UNCHANGED <<nat, pool, seen, run, con, cmds>>

\* The caller is answered.
AnswerCall(c) ==
    /\ rcv[c] # Nowhere
    /\ EndStrtok(c, "receiver")
    /\ \E peer \in Parsed(c, "receiver", rcv[c]) :
          /\ open' = Opened(c, {peer})
          /\ net' = net \cup Datagram(c, "REPLY", peer, Nowhere)
    /\ rcv' = [rcv EXCEPT ![c] = Nowhere]
    /\ UNCHANGED <<nat, pool, seen, g_peers, run, con, cmds>>

\* A PUNCH or PING of a peer: a text or PONG goes back.
AnswerPeer(c, d) ==
    /\ Receives(c, d)
    /\ d.from # ServerEp
    /\ d.type \in {"PUNCH", "PING"}
    /\ open' = Opened(c, {d.from})
    /\ UNCHANGED <<nat, net, pool, seen, g_peers, run, con, rcv, strtok, jumbled, cmds>>

\* The peer has replied: it is added, and a text goes back.
AddPeer(c, d) ==
    /\ Receives(c, d)
    /\ d.from # ServerEp
    /\ d.type = "REPLY"
    /\ g_peers' = [g_peers EXCEPT ![c] = @ \cup {d.from}]
    /\ open' = Opened(c, {d.from})
    /\ UNCHANGED <<nat, net, pool, seen, run, con, rcv, strtok, jumbled, cmds>>

Keepalive(c) ==
    /\ run[c] # "off"
    /\ open' = Opened(c, {ServerEp} \cup g_peers[c])
    /\ net' = net \cup UNION {Datagram(c, "PING", e, Nowhere) : e \in g_peers[c]}
    /\ UNCHANGED <<nat, pool, seen, g_peers, run, con, rcv, strtok, jumbled, cmds>>

-----------------------------------------------------------------------------
Next ==
    \/ \E c \in Clients :
          \/ \E type \in {"LOGIN", "LOGOUT", "LIST"} : Ask(c, type)
          \/ Quit(c)
          \/ ConsoleEof(c)
          \/ \E cmd \in {"punch", "send"}, e \in seen[c] : BeginParse(c, cmd, e)
          \/ Punch(c)
          \/ SendText(c)
          \/ AnswerCall(c)
          \/ Keepalive(c)
    \/ \E d \in net : Login(d) \/ Logout(d) \/ List(d) \/ RelayPunch(d)
    \/ \E c \in Clients, d \in net : BeginCall(c, d) \/ AnswerPeer(c, d) \/ AddPeer(c, d)

\* Threads run on, and the network delivers each datagram of a punch at least
\* once: without that nothing is promised, and the code retries nothing.
Fairness ==
    /\ \A c \in Clients :
          /\ WF_vars(AnswerCall(c))
          /\ WF_vars(\E d \in net : d.from[1] = c /\ RelayPunch(d))
    /\ \A c \in Clients : \A p \in Clients \ {c} :
          /\ SF_vars(\E d \in net : d.arg[1] = p /\ BeginCall(c, d))
          /\ SF_vars(\E d \in net : d.from[1] = p /\ AddPeer(c, d))

Spec == Init /\ [][Next]_vars
FairSpec == Spec /\ Fairness

-----------------------------------------------------------------------------
(* Properties *)

\* "Peer replied, you can talk now" is true: what c sends to an endpoint of
\* its list passes the NAT of that peer, whatever was lost, late or doubled
\* before and whatever strtok did (on_message of client.c).
PeersCanTalk ==
    \A c \in Clients : \A p \in g_peers[c] : Passes(p[1], Mapped(c, p[1]), p)

\* Punching works on cone NATs only, as the README says: a client behind a
\* symmetric NAT gets no peer, and one behind a port restricted NAT gets none
\* that is behind a symmetric NAT (on_message of client.c and server.c).
OnlyCone ==
    \A c \in Clients : \A p \in g_peers[c] :
        /\ nat[c] # "symmetric"
        /\ nat[c] = "port" => nat[p[1]] # "symmetric"

\* c has asked the server to call p.
Called(c, p) ==
    [type |-> "PUNCH", from |-> Mapped(c, Server), to |-> ServerEp,
     arg |-> Mapped(p, Server)] \in net

Cone(c) == nat[c] # "symmetric"

\* A punch between cone NATs gives the caller its peer, as long as both
\* clients run and strtok is not called by two threads at once (console_loop,
\* on_message).
PunchSucceeds ==
    \A c \in Clients : \A p \in Clients \ {c} :
        [](Cone(c) /\ Cone(p) /\ run[c] # "off" /\ run[p] # "off" /\ ~jumbled)
            => (Called(c, p) ~> Mapped(p, c) \in g_peers[c])
=============================================================================
