----------------------------- MODULE StreamLink -----------------------------
(***************************************************************************)
(* The link to the TCP server as a stream of bytes.  A frame is a head of  *)
(* fixed length, which names the length of the data behind it, and the     *)
(* data.  The peer is the WS server or a device; each has a thread that    *)
(* receives, and that closes and replaces the socket when the link breaks, *)
(* and a thread that sends on whatever socket there is at the moment.      *)
(*                                                                         *)
(* A stream is counted in units: a head is one unit, the data are K units. *)
(* So the phase of a unit is 0 for a head and 1 .. K for data.  A head is  *)
(* never cut; data may be.  What the two receivers of the TCP server do    *)
(* with a frame is the subject of TcpServer.                               *)
(***************************************************************************)
EXTENDS Naturals

CONSTANTS
    K,           \* units of data behind a head
    Ends,        \* which peers are looked at, of "ws" and "device"
    MaxConns,    \* bound: connections the peer makes
    MaxFrames    \* bound: frames sent in each direction

ASSUME StreamAssumption ==
    /\ K \in Nat \ {0}
    /\ Ends \subseteq {"ws", "device"}
    /\ MaxConns \in Nat \ {0}
    /\ MaxFrames \in Nat

Conns == 1 .. MaxConns
Phases == 0 .. K

\* A length above MAX_BUF_LEN, and the phase of a head that is left over.
TooLong == K + 1
Stale == K + 1

Streams == [phase : Phases, left : Nat]
Frames == [head : 0 .. Stale, at : Phases, n : Nat, conn : Conns]
NoFrame == [head |-> 0, at |-> 1, n |-> K, conn |-> 1]

VARIABLES
    end,        \* the peer
    sock,       \* its socket, 0 while there is none that is connected
    last,       \* connections made so far
    broken,     \* broken[c]: no more bytes enter connection c
    up, down,   \* per connection, the phase of the next byte to read and how
                \* much is left, towards the server and towards the peer
    spc,        \* the sending thread: between a head and its data, or idle
    rpc, rnext, \* the receiving thread, and where it goes on once connected
    rlen, rhead,\* the length of the last head, and where that was read
    tst,        \* what the server knows of a connection
    tpc, tc,    \* the server's loop, and the connection whose callback runs
    tlen, thead,
    upFrame, downFrame,   \* the last frame the server, the peer, handled
    ups, downs            \* frames sent so far

peer == <<sock, last, spc, rpc, rnext, rlen, rhead>>
server == <<tst, tpc, tc, tlen, thead>>
handled == <<upFrame, downFrame>>
vars == <<end, peer, broken, up, down, server, handled, ups, downs>>

TypeOK ==
    /\ end \in Ends
    /\ sock \in 0 .. last
    /\ last \in Conns
    /\ broken \in [Conns -> BOOLEAN]
    /\ up \in [Conns -> Streams] /\ down \in [Conns -> Streams]
    /\ spc \in {"idle", "data"}
    /\ rpc \in {"head", "check", "data", "connect"}
    /\ rpc # "connect" => sock # 0
    /\ rnext \in {"head", "check", "data"}
    /\ rlen \in 0 .. TooLong
    /\ rhead \in 0 .. Stale
    /\ tst \in [Conns -> {"none", "backlog", "open", "closed"}]
    /\ tpc \in {"loop", "data"}
    /\ tc \in Conns
    /\ tlen \in 0 .. TooLong
    /\ thead \in 0 .. Stale
    /\ upFrame \in Frames /\ downFrame \in Frames
    /\ ups \in Nat /\ downs \in Nat

\* Both threads start once the first connect has succeeded; data_len has no
\* initial value.
Init ==
    /\ end \in Ends
    /\ sock = 1
    /\ last = 1
    /\ broken = [c \in Conns |-> FALSE]
    /\ up = [c \in Conns |-> [phase |-> 0, left |-> 0]]
    /\ down = [c \in Conns |-> [phase |-> 0, left |-> 0]]
    /\ spc = "idle"
    /\ rpc = "head"
    /\ rnext = "head"
    /\ rlen \in 0 .. TooLong
    /\ rhead = Stale
    /\ tst = [c \in Conns |-> IF c = 1 THEN "backlog" ELSE "none"]
    /\ tpc = "loop"
    /\ tc = 1
    /\ tlen = 0
    /\ thead = Stale
    /\ upFrame = NoFrame /\ downFrame = NoFrame
    /\ ups = 0 /\ downs = 0

-----------------------------------------------------------------------------
(* Streams *)

Advance(p, n) == IF p + n <= K THEN p + n ELSE p + n - (K + 1)

Read(s, n) == [phase |-> Advance(s.phase, n), left |-> s.left - n]

\* What n units written to connection c leave in stream s.
Written(s, c, n) == IF broken[c] THEN s ELSE [s EXCEPT !.left = @ + n]

\* Where a break or a reset may cut a stream off.
Cuts(s) == {[s EXCEPT !.left = k] : k \in 0 .. s.left}

\* The length a head names: anything, when the bytes are not a head.
LengthsAt(p) == IF p = 0 THEN {K} ELSE 0 .. TooLong

\* recv with MSG_WAITALL returns at all, and then so many units.
CanRecv(s, c, n) == s.left >= n \/ broken[c]
Received(s, n) == IF s.left >= n THEN n ELSE s.left

-----------------------------------------------------------------------------
(* The sending thread of the peer *)

\* A thread that sends while the other one connects sends to nobody.
Send(n) ==
    IF sock = 0 THEN up' = up ELSE up' = [up EXCEPT ![sock] = Written(@, sock, n)]

\* ImmediateTranspond sends the head and the data one after the other.
WsSendHead ==
    /\ end = "ws"
    /\ spc = "idle"
    /\ ups < MaxFrames
    /\ Send(1)
    /\ spc' = "data"
    /\ ups' = ups + 1
    /\ UNCHANGED <<end, sock, last, rpc, rnext, rlen, rhead, broken, down, server,
                   handled, downs>>

\* Mutant: the length counts the final zero, which is not sent.
WsSendDataShort ==
    /\ end = "ws"
    /\ spc = "data"
    /\ Send(K - 1)
    /\ spc' = "idle"
    /\ UNCHANGED <<end, sock, last, rpc, rnext, rlen, rhead, broken, down, server,
                   handled, ups, downs>>

WsSendData ==
    /\ end = "ws"
    /\ spc = "data"
    /\ Send(K)
    /\ spc' = "idle"
    /\ UNCHANGED <<end, sock, last, rpc, rnext, rlen, rhead, broken, down, server,
                   handled, ups, downs>>

\* The device sends head and data in one piece.
DevSend ==
    /\ end = "device"
    /\ ups < MaxFrames
    /\ Send(K + 1)
    /\ ups' = ups + 1
    /\ UNCHANGED <<end, peer, broken, down, server, handled, downs>>

-----------------------------------------------------------------------------
(* The receiving thread of the peer *)

\* close: what was sent may still arrive, or be cut off by a reset.
CloseSocket ==
    /\ broken' = [broken EXCEPT ![sock] = TRUE]
    /\ \E s \in Cuts(up[sock]) : up' = [up EXCEPT ![sock] = s]
    /\ sock' = 0
    /\ rpc' = "connect"

WsReadHead ==
    /\ end = "ws"
    /\ rpc = "head"
    /\ CanRecv(down[sock], sock, 1)
    /\ IF down[sock].left > 0
         THEN /\ rlen' \in LengthsAt(down[sock].phase)
              /\ rhead' = down[sock].phase
              /\ down' = [down EXCEPT ![sock] = Read(@, 1)]
              /\ rpc' = "check"
              /\ UNCHANGED <<sock, rnext, broken, up>>
         ELSE /\ CloseSocket
              /\ rnext' = "check"
              /\ rhead' = Stale
              /\ UNCHANGED <<rlen, down>>
    /\ UNCHANGED <<end, last, spc, server, handled, ups, downs>>

\* The length is compared with MAX_BUF_LEN, whether the head is new or not.
WsCheck ==
    /\ end = "ws"
    /\ rpc = "check"
    /\ IF rlen = TooLong
         THEN CloseSocket /\ rnext' = "data" /\ rhead' = Stale
         ELSE rpc' = "data" /\ UNCHANGED <<sock, rnext, rhead, broken, up>>
    /\ UNCHANGED <<end, last, spc, rlen, down, server, handled, ups, downs>>

\* Mutant: the device does as the WS server does: it connects at once when
\* the head has failed, and goes on to the data.
DevReadHeadReconnects ==
    /\ end = "device"
    /\ rpc = "head"
    /\ CanRecv(down[sock], sock, 1)
    /\ IF down[sock].left > 0
         THEN /\ rlen' \in LengthsAt(down[sock].phase)
              /\ rhead' = down[sock].phase
              /\ down' = [down EXCEPT ![sock] = Read(@, 1)]
              /\ rpc' = "data"
              /\ UNCHANGED <<sock, rnext, broken, up>>
         ELSE CloseSocket /\ rnext' = "data" /\ rhead' = Stale /\ UNCHANGED <<rlen, down>>
    /\ UNCHANGED <<end, last, spc, server, handled, ups, downs>>

\* The device does not look whether it got a head.
DevReadHead ==
    /\ end = "device"
    /\ rpc = "head"
    /\ CanRecv(down[sock], sock, 1)
    /\ IF down[sock].left > 0
         THEN /\ rlen' \in LengthsAt(down[sock].phase)
              /\ rhead' = down[sock].phase
              /\ down' = [down EXCEPT ![sock] = Read(@, 1)]
         ELSE rhead' = Stale /\ UNCHANGED <<rlen, down>>
    /\ rpc' = "data"
    /\ UNCHANGED <<end, sock, last, spc, rnext, broken, up, server, handled, ups, downs>>

\* Mutant: only -1 counts as a broken link.
ReadDataIgnoresEnd ==
    /\ rpc = "data"
    /\ CanRecv(down[sock], sock, rlen)
    /\ LET n == Received(down[sock], rlen)
       IN /\ downFrame' = IF n > 0
                            THEN [head |-> rhead, at |-> down[sock].phase, n |-> n, conn |-> sock]
                            ELSE downFrame
          /\ down' = [down EXCEPT ![sock] = Read(@, n)]
          /\ rpc' = "head"
    /\ UNCHANGED <<end, sock, last, spc, rnext, rlen, rhead, broken, up, server, upFrame,
                   ups, downs>>

\* No data at all means a broken link to both peers.
ReadData ==
    /\ rpc = "data"
    /\ CanRecv(down[sock], sock, rlen)
    /\ LET n == Received(down[sock], rlen)
       IN IF n > 0
            THEN /\ downFrame' = [head |-> rhead, at |-> down[sock].phase, n |-> n,
                                  conn |-> sock]
                 /\ down' = [down EXCEPT ![sock] = Read(@, n)]
                 /\ rpc' = "head"
                 /\ UNCHANGED <<sock, rnext, broken, up>>
            ELSE CloseSocket /\ rnext' = "head" /\ UNCHANGED <<downFrame, down>>
    /\ UNCHANGED <<end, last, spc, rlen, rhead, server, upFrame, ups, downs>>

\* Mutant: the thread goes on though connect has failed.
ConnectFails ==
    /\ rpc = "connect"
    /\ rpc' = rnext
    /\ UNCHANGED <<end, sock, last, spc, rnext, rlen, rhead, broken, up, down, server,
                   handled, ups, downs>>

\* reconnect_tcp_server, connect_remote_server: the next byte sent on the new
\* connection is whatever the other thread sends next.
Connect ==
    /\ rpc = "connect"
    /\ last < MaxConns
    /\ last' = last + 1
    /\ sock' = last + 1
    /\ up' = [up EXCEPT ![last + 1].phase = IF spc = "data" THEN 1 ELSE 0]
    /\ tst' = [tst EXCEPT ![last + 1] = "backlog"]
    /\ rpc' = rnext
    /\ UNCHANGED <<end, spc, rnext, rlen, rhead, broken, down, tpc, tc, tlen, thead,
                   handled, ups, downs>>

-----------------------------------------------------------------------------
(* The TCP server *)

Accept(c) ==
    /\ tpc = "loop"
    /\ tst[c] = "backlog"
    /\ \A d \in Conns : d < c => tst[d] # "backlog"
    /\ tst' = [tst EXCEPT ![c] = "open"]
    /\ UNCHANGED <<end, peer, broken, up, down, tpc, tc, tlen, thead, handled, ups, downs>>

\* close(w->fd): what was sent may still arrive, or be cut off by a reset.
CloseAccepted(c) ==
    /\ tst' = [tst EXCEPT ![c] = "closed"]
    /\ broken' = [broken EXCEPT ![c] = TRUE]
    /\ \E s \in Cuts(down[c]) : down' = [down EXCEPT ![c] = s]
    /\ tpc' = "loop"

\* recv_socket_cb_local, recv_socket_cb_net: the head.
RecvHead(c) ==
    /\ tpc = "loop"
    /\ tst[c] = "open"
    /\ CanRecv(up[c], c, 1)
    /\ IF up[c].left = 0
         THEN CloseAccepted(c) /\ UNCHANGED <<up, tc, tlen, thead>>
         ELSE \E len \in LengthsAt(up[c].phase) :
              /\ up' = [up EXCEPT ![c] = Read(@, 1)]
              /\ IF len = TooLong
                   THEN CloseAccepted(c) /\ UNCHANGED <<tc, tlen, thead>>
                   ELSE /\ tpc' = "data"
                        /\ tc' = c
                        /\ tlen' = len
                        /\ thead' = up[c].phase
                        /\ UNCHANGED <<tst, broken, down>>
    /\ UNCHANGED <<end, peer, handled, ups, downs>>

\* Mutant: recv without MSG_WAITALL takes what has arrived.
RecvDataAtOnce ==
    /\ tpc = "data"
    /\ \E n \in 1 .. Received(up[tc], tlen) :
          /\ upFrame' = [head |-> thead, at |-> up[tc].phase, n |-> n, conn |-> tc]
          /\ up' = [up EXCEPT ![tc] = Read(@, n)]
    /\ tpc' = "loop"
    /\ UNCHANGED <<end, peer, tst, broken, down, tc, tlen, thead, downFrame, ups, downs>>

\* The data; the loop waits for them.
RecvData ==
    /\ tpc = "data"
    /\ CanRecv(up[tc], tc, tlen)
    /\ LET n == Received(up[tc], tlen)
       IN IF n > 0
            THEN /\ upFrame' = [head |-> thead, at |-> up[tc].phase, n |-> n, conn |-> tc]
                 /\ up' = [up EXCEPT ![tc] = Read(@, n)]
                 /\ tpc' = "loop"
                 /\ UNCHANGED <<tst, broken, down>>
            ELSE CloseAccepted(tc) /\ UNCHANGED <<up, upFrame>>
    /\ UNCHANGED <<end, peer, tc, tlen, thead, downFrame, ups, downs>>

\* A frame for the WS server goes to the connection it made last; frames for
\* a device to any connection it has here.
Forward(c) ==
    /\ tpc = "loop"
    /\ tst[c] = "open"
    /\ end = "ws" => \A d \in Conns : d > c => tst[d] \in {"none", "backlog"}
    /\ downs < MaxFrames
    /\ down' = [down EXCEPT ![c] = Written(@, c, K + 1)]
    /\ downs' = downs + 1
    /\ UNCHANGED <<end, peer, broken, up, server, handled, ups>>

-----------------------------------------------------------------------------
(* Faults *)

\* The network drops the connection of a device; the WS server is on the
\* machine of the TCP server.
Break(c) ==
    /\ end = "device"
    /\ tst[c] # "none"
    /\ ~broken[c]
    /\ broken' = [broken EXCEPT ![c] = TRUE]
    /\ \E s \in Cuts(up[c]) : up' = [up EXCEPT ![c] = s]
    /\ \E s \in Cuts(down[c]) : down' = [down EXCEPT ![c] = s]
    /\ UNCHANGED <<end, peer, server, handled, ups, downs>>

\* The TCP server dies and the guard starts it again.
Die ==
    /\ sock # 0
    /\ ~broken[sock]
    /\ broken' = [c \in Conns |-> tst[c] # "none"]
    /\ tst' = [c \in Conns |-> IF tst[c] = "none" THEN "none" ELSE "closed"]
    /\ \E s \in Cuts(down[sock]) : down' = [down EXCEPT ![sock] = s]
    /\ tpc' = "loop"
    /\ UNCHANGED <<end, peer, up, tc, tlen, thead, handled, ups, downs>>

-----------------------------------------------------------------------------
Receiver == WsReadHead \/ WsCheck \/ DevReadHead \/ ReadData \/ Connect

Next ==
    \/ WsSendHead \/ WsSendData \/ DevSend
    \/ Receiver
    \/ RecvData
    \/ \E c \in Conns : Accept(c) \/ RecvHead(c) \/ Forward(c) \/ Break(c)
    \/ Die

\* Threads are scheduled, a sender that has begun a frame goes on with it, and
\* a callback that has begun runs on as soon as recv lets it.
Fairness ==
    /\ WF_vars(Receiver)
    /\ WF_vars(WsSendData)
    /\ WF_vars(RecvData)

Spec == Init /\ [][Next]_vars
FairSpec == Spec /\ Fairness

-----------------------------------------------------------------------------
(* Properties *)

\* The frame was taken from a head and from the data right behind that head,
\* and it is complete unless the connection broke within it.
Intact(frame) ==
    /\ frame.head = 0
    /\ frame.at = 1
    /\ frame.n = K \/ broken[frame.conn]

\* The callback of the TCP server keeps in step with the frames of the peer
\* (recv_socket_cb_local: "receive the tcp stream and solve the problem of
\* packets that stick together").
UpIntact == Intact(upFrame)

\* The WS server has had to connect anew.
WsReconnected == end = "ws" /\ last > 1

\* The TCP server keeps in step with a device, wherever links break and
\* whatever the two threads of the device do meanwhile, and with the WS server
\* on its first connection (recv_socket_cb_net, recv_socket_cb_local).
UpInStep == WsReconnected \/ UpIntact

\* So does the receiving thread of the peer with the frames of the server
\* (recv_function, recvInfo_from_TcpServer).
DownInStep == WsReconnected \/ Intact(downFrame)

\* The only thread of the TCP server never waits for ever for the rest of a
\* frame, although recv has no timeout: whoever has sent a head sends the data
\* or breaks the link.
LoopReturns == tpc = "data" ~> tpc = "loop" \/ WsReconnected

\* A peer whose connection is broken notices, and drops the socket.
BreakIsNoticed == \A c \in Conns : sock = c /\ broken[c] ~> sock # c
=============================================================================
