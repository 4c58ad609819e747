------------------------------ MODULE Recovery ------------------------------
(***************************************************************************)
(* How the processes come back: the guard program looks for the TCP server *)
(* and the WS server in turn and starts the one that is missing, the WS    *)
(* server and the home device connect to the TCP server again whenever     *)
(* their link breaks, and both servers give up when the database is away   *)
(* at their start.  A server that runs while the database stops has lost   *)
(* its session with it: nothing opens it again before the server dies.     *)
(*                                                                         *)
(* A connection ends with its process, or when the network breaks it; its  *)
(* other end learns of that later.  What is sent on a connection is the    *)
(* subject of StreamLink and TcpServer.                                    *)
(***************************************************************************)
EXTENDS Integers, Sequences

CONSTANTS
    LastFd,     \* bound: the last descriptor the TCP server may open
    Backlog,    \* connections that wait to be accepted, listen(s, 32)
    MaxFaults   \* bound: faults in a behaviour

ASSUME BoundsAssumption ==
    /\ LastFd \in Nat
    /\ Backlog \in Nat
    /\ MaxFaults \in Nat

Peers == {"ws", "device"}
Servers == {"tcp", "ws"}
Fds == 7 .. LastFd

\* A connection as the TCP server has it: who made it, and whether that end
\* is still there.
Connections == [of : Peers, live : BOOLEAN]
Live(p) == [of |-> p, live |-> TRUE]
Dead(p) == [of |-> p, live |-> FALSE]
Free == [of |-> "nobody", live |-> FALSE]

VARIABLES
    gpc,            \* the guard: which program it looks for next
    tcp,            \* the TCP server: "down", "starting" or "up"
    ws,             \* the WS server: "down", "connecting" (for the first
                    \* time), "starting" or "up"
    link,           \* link[p]: whether p believes it is connected
    backlog,        \* connections the TCP server has not accepted
    fd,             \* fd[f]: the connection on descriptor f, or Free
    WS_TCP_CON_ID,  \* the descriptor frames are relayed to
    db,             \* the database answers
    session,        \* session[s]: the MySQL session of server s, "none",
                    \* "open" or "lost"
    faults          \* faults so far

server == <<backlog, fd, WS_TCP_CON_ID>>
vars == <<gpc, tcp, ws, link, server, db, session, faults>>

TypeOK ==
    /\ gpc \in {"tcp", "ws"}
    /\ tcp \in {"down", "starting", "up"}
    /\ ws \in {"down", "connecting", "starting", "up"}
    /\ link \in [Peers -> BOOLEAN]
    /\ backlog \in Seq(Connections)
    /\ fd \in [Fds -> Connections \cup {Free}]
    /\ WS_TCP_CON_ID \in Fds \cup {0}
    /\ db \in BOOLEAN
    /\ session \in [Servers -> {"none", "open", "lost"}]
    /\ faults \in 0 .. MaxFaults

NoConnections ==
    /\ backlog' = <<>>
    /\ fd' = [f \in Fds |-> Free]
    /\ WS_TCP_CON_ID' = 0

Init ==
    /\ gpc = "tcp"
    /\ tcp = "down"
    /\ ws = "down"
    /\ link = [p \in Peers |-> FALSE]
    /\ backlog = <<>>
    /\ fd = [f \in Fds |-> Free]
    /\ WS_TCP_CON_ID = 0
    /\ db \in BOOLEAN
    /\ session = [s \in Servers |-> "none"]
    /\ faults = 0

-----------------------------------------------------------------------------
(* The guard *)

GuardTcp ==
    /\ gpc = "tcp"
    /\ tcp' = IF tcp = "down" THEN "starting" ELSE tcp
    /\ gpc' = "ws"
    /\ UNCHANGED <<ws, link, server, db, session, faults>>

\* Mutant: a WS server that could not be started is waited for.
GuardWsInsists ==
    /\ gpc = "ws"
    /\ ws' = IF ws = "down" THEN "connecting" ELSE ws
    /\ gpc' = "ws"
    /\ UNCHANGED <<tcp, link, server, db, session, faults>>

GuardWs ==
    /\ gpc = "ws"
    /\ ws' = IF ws = "down" THEN "connecting" ELSE ws
    /\ gpc' = "tcp"
    /\ UNCHANGED <<tcp, link, server, db, session, faults>>

-----------------------------------------------------------------------------
(* The TCP server *)

\* Without a database the process exits.
TcpStart ==
    /\ tcp = "starting"
    /\ \/ /\ db
          /\ tcp' = "up"
          /\ session' = [session EXCEPT !["tcp"] = "open"]
       \/ /\ ~db
          /\ tcp' = "down"
          /\ UNCHANGED session
    /\ UNCHANGED <<gpc, ws, link, server, db, faults>>

Accept ==
    /\ tcp = "up"
    /\ backlog # <<>>
    /\ \E f \in Fds :
          /\ fd[f] = Free
          /\ \A g \in Fds : fd[g] = Free => f <= g
          /\ fd' = [fd EXCEPT ![f] = Head(backlog)]
          /\ WS_TCP_CON_ID' = IF Head(backlog).of = "ws" THEN f ELSE WS_TCP_CON_ID
    /\ backlog' = Tail(backlog)
    /\ UNCHANGED <<gpc, tcp, ws, link, db, session, faults>>

\* Mutant: the id is reset when a WS server has left, whichever it was.
RecvEndResets(f) ==
    /\ tcp = "up"
    /\ \E p \in Peers :
          /\ fd[f] = Dead(p)
          /\ WS_TCP_CON_ID' = IF p = "ws" THEN -1 ELSE WS_TCP_CON_ID
    /\ fd' = [fd EXCEPT ![f] = Free]
    /\ UNCHANGED <<gpc, tcp, ws, link, backlog, db, session, faults>>

\* The peer on descriptor f has left.
RecvEnd(f) ==
    /\ tcp = "up"
    /\ \E p \in Peers : fd[f] = Dead(p)
    /\ fd' = [fd EXCEPT ![f] = Free]
    /\ UNCHANGED <<gpc, tcp, ws, link, backlog, WS_TCP_CON_ID, db, session, faults>>

-----------------------------------------------------------------------------
(* The WS server and the device *)

\* The connection of p, wherever it is.
Linked(p) == (\E f \in Fds : fd[f] = Live(p)) \/ \E i \in 1 .. Len(backlog) : backlog[i] = Live(p)

\* The end of p is gone; the TCP server has not noticed yet.
Gone(p, c) == IF c = Live(p) THEN Dead(p) ELSE c
Hangup(p) ==
    /\ backlog' = [i \in 1 .. Len(backlog) |-> Gone(p, backlog[i])]
    /\ fd' = [f \in Fds |-> Gone(p, fd[f])]
    /\ UNCHANGED WS_TCP_CON_ID

\* connect, tried again and again: before anything else in the WS server, and
\* in the receiving thread of both.
Connect(p) ==
    /\ tcp = "up"
    /\ p = "ws" => ws # "down"
    /\ ~link[p]
    /\ link' = [link EXCEPT ![p] = TRUE]
    /\ Len(backlog) < Backlog
    /\ backlog' = Append(backlog, Live(p))
    /\ ws' = IF p = "ws" /\ ws = "connecting" THEN "starting" ELSE ws
    /\ UNCHANGED <<gpc, tcp, fd, WS_TCP_CON_ID, db, session, faults>>

\* Mutant: the thread connects anew though the link lives, and forgets to
\* close the old socket.
NoticesTooEarly(p) ==
    /\ link[p]
    /\ link' = [link EXCEPT ![p] = FALSE]
    /\ UNCHANGED <<gpc, tcp, ws, server, db, session, faults>>

\* recv returns nothing any more: the socket is closed.
Notices(p) ==
    /\ link[p]
    /\ ~Linked(p)
    /\ link' = [link EXCEPT ![p] = FALSE]
    /\ UNCHANGED <<gpc, tcp, ws, server, db, session, faults>>

\* The process ends, and with it its end of the link and its session.
WsEnds ==
    /\ ws' = "down"
    /\ link' = [link EXCEPT !["ws"] = FALSE]
    /\ session' = [session EXCEPT !["ws"] = "none"]
    /\ Hangup("ws")

\* The WS server listens for pages only now.
WsStart ==
    /\ ws = "starting"
    /\ \/ /\ db
          /\ ws' = "up"
          /\ session' = [session EXCEPT !["ws"] = "open"]
          /\ UNCHANGED <<link, server>>
       \/ ~db /\ WsEnds
    /\ UNCHANGED <<gpc, tcp, db, faults>>

-----------------------------------------------------------------------------
(* Faults *)

Fault == faults < MaxFaults /\ faults' = faults + 1

TcpDies ==
    /\ Fault
    /\ tcp # "down"
    /\ tcp' = "down"
    /\ NoConnections
    /\ session' = [session EXCEPT !["tcp"] = "none"]
    /\ UNCHANGED <<gpc, ws, link, db>>

WsDies ==
    /\ Fault
    /\ ws # "down"
    /\ WsEnds
    /\ UNCHANGED <<gpc, tcp, db>>

\* popen fails and the guard begins anew.
WsNotStarted ==
    /\ Fault
    /\ gpc = "ws"
    /\ ws = "down"
    /\ gpc' = "tcp"
    /\ UNCHANGED <<tcp, ws, link, server, db, session>>

\* The network drops the link of the device, or the device restarts.
DeviceBreaks ==
    /\ Fault
    /\ Linked("device")
    /\ Hangup("device")
    /\ UNCHANGED <<gpc, tcp, ws, link, db, session>>

\* Every query of a server that runs fails from now on (exeSQL); initDB is
\* called at the start of the server and nowhere else.
DbStops ==
    /\ Fault
    /\ db
    /\ db' = FALSE
    /\ session' = [s \in Servers |-> IF session[s] = "open" THEN "lost" ELSE session[s]]
    /\ UNCHANGED <<gpc, tcp, ws, link, server>>

DbStarts ==
    /\ ~db
    /\ db' = TRUE
    /\ UNCHANGED <<gpc, tcp, ws, link, server, session, faults>>

-----------------------------------------------------------------------------
Next ==
    \/ GuardTcp \/ GuardWs
    \/ TcpStart \/ Accept \/ \E f \in Fds : RecvEnd(f)
    \/ \E p \in Peers : Connect(p) \/ Notices(p)
    \/ WsStart
    \/ TcpDies \/ WsDies \/ WsNotStarted \/ DeviceBreaks \/ DbStops
    \/ DbStarts

\* Processes are scheduled, the loop of the TCP server turns, and somebody
\* starts the database again.
Fairness ==
    /\ WF_vars(GuardTcp) /\ WF_vars(GuardWs)
    /\ WF_vars(TcpStart) /\ WF_vars(WsStart)
    /\ WF_vars(Accept)
    /\ \A f \in Fds : WF_vars(RecvEnd(f))
    /\ \A p \in Peers : WF_vars(Connect(p)) /\ WF_vars(Notices(p))
    /\ WF_vars(DbStarts)

Spec == Init /\ [][Next]_vars
FairSpec == Spec /\ Fairness

-----------------------------------------------------------------------------
(* Properties *)

\* Frames are relayed to the WS server that runs as soon as its link is
\* accepted, though older links of it may be accepted or closed just then
\* (accept_socket_cb, recv_socket_cb_local).
RelayFindsWs == \A f \in Fds : fd[f] = Live("ws") => WS_TCP_CON_ID = f

\* Where the connections of p are whose other end is p, as it is now.
Places(p) ==
    {<<"fd", f>> : f \in {g \in Fds : fd[g] = Live(p)}}
        \cup {<<"backlog", i>> : i \in {j \in 1 .. Len(backlog) : backlog[j] = Live(p)}}

\* However often a peer connects anew, the TCP server never has two live
\* connections of it, accepted or waiting, and none of a peer that has no
\* socket: what is relayed or sent back reaches whoever reads, and everything
\* else on a descriptor is closed in time (reconnect_tcp_server and
\* connect_remote_server against accept_socket_cb).
OneLivePerPeer ==
    \A p \in Peers :
        /\ \A x, y \in Places(p) : x = y
        /\ ~link[p] => Places(p) = {}

\* Everybody is up and linked, and the TCP server has no connection but these.
Connected ==
    /\ tcp = "up"
    /\ ws = "up"
    /\ \E f, g \in Fds :
          /\ fd[f] = Live("ws") /\ WS_TCP_CON_ID = f
          /\ fd[g] = Live("device")
          /\ \A h \in Fds \ {f, g} : fd[h] = Free
    /\ backlog = <<>>

\* Pages are registered, and frames relayed to the pages of those registered.
Relaying == Connected /\ \A s \in Servers : session[s] = "open"

\* After the last fault everybody is up and linked again by himself, whichever
\* processes died or links broke in whichever order, and frames are relayed
\* again; unless the database stopped under a server that ran and has not died
\* since: it is linked, but without a session, so no user is online to it, and
\* stays so (main of guard.c, reconnect_tcp_server, connect_remote_server,
\* initDB, exeSQL).
Recovers ==
    /\ <>[]Connected
    /\ <>[]Relaying \/ <>[](\E s \in Servers : session[s] = "lost")
=============================================================================
