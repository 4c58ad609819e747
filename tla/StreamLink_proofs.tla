-------------------------- MODULE StreamLink_proofs --------------------------
(***************************************************************************)
(* Proofs about StreamLink, for frames of every length and any number of   *)
(* connections and frames.  The invariant says of every reader at which    *)
(* place in a frame it is: between two of them, right behind a head, or at *)
(* the end of a connection that has broken within one.                     *)
(***************************************************************************)
EXTENDS StreamLink, TLAPS

\* The next byte is that of a head, or no byte follows any more.
AtHead(s, c) == s.phase = 0 \/ (broken[c] /\ s.left = 0)

\* A head of this stream has just been read.
BehindHead(s, head, len) == head = 0 /\ len = K /\ s.phase = 1

ServerInStep ==
    /\ \A c \in Conns : tst[c] \in {"backlog", "open"} =>
          (tpc = "data" /\ tc = c) \/ AtHead(up[c], c)
    /\ tpc = "data" => BehindHead(up[tc], thead, tlen)
    /\ Intact(upFrame)

PeerInStep ==
    /\ rpc = "head" => AtHead(down[sock], sock)
    /\ rpc = "check" => BehindHead(down[sock], rhead, rlen)
    /\ rpc = "data" => \/ BehindHead(down[sock], rhead, rlen)
                       \/ broken[sock] /\ down[sock].left = 0
    /\ Intact(downFrame)

\* Connections not yet made have not been used, a callback runs for one that
\* the server has.
Fresh ==
    /\ tpc = "data" => tst[tc] = "open"
    /\ \A c \in Conns :
        /\ tst[c] = "none" => ~broken[c]
        /\ tst[c] = "none" => up[c] = [phase |-> 0, left |-> 0]
        /\ tst[c] = "none" => down[c] = [phase |-> 0, left |-> 0]
        /\ c > last <=> tst[c] = "none"

\* Only the WS server sends in two pieces, and only it goes on to the data
\* when it has connected.
DeviceIsSimple == end = "device" => spc = "idle" /\ rnext = "head" /\ rpc # "check"

Inv ==
    /\ TypeOK
    /\ Fresh
    /\ DeviceIsSimple
    /\ WsReconnected \/ (ServerInStep /\ PeerInStep)

-----------------------------------------------------------------------------

LEMMA AdvanceStays ==
    ASSUME NEW p \in Phases, NEW n \in 0 .. TooLong
    PROVE  Advance(p, n) \in Phases
  BY StreamAssumption DEF Advance, Phases, TooLong

LEMMA ReadType ==
    ASSUME NEW s \in Streams, NEW n \in 0 .. TooLong, n <= s.left
    PROVE  Read(s, n) \in Streams
  BY AdvanceStays, StreamAssumption DEF Read, Streams, TooLong

LEMMA ReceivedType ==
    ASSUME NEW s \in Streams, NEW n \in 0 .. TooLong
    PROVE  Received(s, n) \in 0 .. TooLong /\ Received(s, n) <= s.left
  BY StreamAssumption DEF Received, Streams, TooLong

LEMMA WrittenType ==
    ASSUME NEW s \in Streams, NEW c \in Conns, NEW n \in Nat
    PROVE  Written(s, c, n) \in Streams /\ Written(s, c, n).phase = s.phase
  BY DEF Written, Streams

LEMMA CutsType ==
    ASSUME NEW s \in Streams, NEW t \in Cuts(s)
    PROVE  t \in Streams /\ t.phase = s.phase /\ t.left <= s.left
  BY DEF Cuts, Streams

LEMMA LengthType ==
    ASSUME NEW p \in Phases
    PROVE  LengthsAt(p) \subseteq 0 .. TooLong /\ (p = 0 => LengthsAt(p) = {K})
  BY StreamAssumption DEF LengthsAt, TooLong

\* Reading the data right behind a head leads to the next head, or to the end
\* of a broken connection.
LEMMA DataLeadToHead ==
    ASSUME NEW s \in Streams, NEW c \in Conns, s.phase = 1, CanRecv(s, c, K)
    PROVE  /\ Received(s, K) = K \/ broken[c]
           /\ AtHead(Read(s, Received(s, K)), c)
  BY StreamAssumption DEF CanRecv, Received, Read, AtHead, Advance, Streams

\* Reading a head leads right behind it.
LEMMA HeadLeadsToData ==
    ASSUME NEW s \in Streams, s.phase = 0
    PROVE  Read(s, 1).phase = 1
  BY StreamAssumption DEF Read, Advance

-----------------------------------------------------------------------------
(* Types *)

LEMMA CloseSocketType ==
    ASSUME TypeOK, sock # 0, CloseSocket
    PROVE  /\ broken' \in [Conns -> BOOLEAN]
           /\ up' \in [Conns -> Streams]
           /\ sock' = 0
           /\ rpc' = "connect"
  <1>1. sock \in Conns
    BY StreamAssumption DEF TypeOK, Conns
  <1>2. PICK s \in Cuts(up[sock]) : up' = [up EXCEPT ![sock] = s]
    BY DEF CloseSocket
  <1>3. s \in Streams
    BY <1>1, CutsType DEF TypeOK
  <1> QED
    BY <1>1, <1>2, <1>3 DEF TypeOK, CloseSocket

LEMMA CloseAcceptedType ==
    ASSUME TypeOK, NEW c \in Conns, CloseAccepted(c)
    PROVE  /\ tst' \in [Conns -> {"none", "backlog", "open", "closed"}]
           /\ broken' \in [Conns -> BOOLEAN]
           /\ down' \in [Conns -> Streams]
           /\ tpc' = "loop"
  <1>1. PICK s \in Cuts(down[c]) : down' = [down EXCEPT ![c] = s]
    BY DEF CloseAccepted
  <1>2. s \in Streams
    BY CutsType DEF TypeOK
  <1> QED
    BY <1>1, <1>2 DEF TypeOK, CloseAccepted

LEMMA SendType ==
    ASSUME TypeOK, NEW n \in Nat, Send(n)
    PROVE  up' \in [Conns -> Streams]
  <1>1. CASE sock = 0
    BY <1>1 DEF Send, TypeOK
  <1>2. CASE sock # 0
    <2>1. sock \in Conns
      BY <1>2, StreamAssumption DEF TypeOK, Conns
    <2>2. Written(up[sock], sock, n) \in Streams
      BY <2>1, WrittenType DEF TypeOK
    <2> QED
      BY <1>2, <2>1, <2>2 DEF Send, TypeOK
  <1> QED
    BY <1>1, <1>2

LEMMA TypeStep == ASSUME TypeOK, [Next]_vars PROVE TypeOK'
  <1> USE StreamAssumption
  <1>0. /\ \A c \in Conns : up[c] \in Streams /\ down[c] \in Streams
        /\ sock # 0 => sock \in Conns
        /\ \A x \in Streams : x.phase \in Phases /\ x.left \in Nat
        /\ K \in Nat /\ K - 1 \in Nat /\ K + 1 \in Nat /\ 1 \in 0 .. TooLong
    BY DEF TypeOK, Conns, Streams, TooLong
  <1>1. ASSUME WsSendHead PROVE TypeOK'
    BY <1>0, <1>1, SendType DEF WsSendHead, TypeOK, server, handled
  <1>2. ASSUME WsSendData PROVE TypeOK'
    BY <1>0, <1>2, SendType DEF WsSendData, TypeOK, server, handled
  <1>3. ASSUME DevSend PROVE TypeOK'
    BY <1>0, <1>3, SendType DEF DevSend, TypeOK, peer, server, handled
  <1>4. ASSUME down[sock].left > 0, rpc # "connect"
        PROVE  /\ \A len \in LengthsAt(down[sock].phase) : len \in 0 .. TooLong
               /\ down[sock].phase \in 0 .. Stale
               /\ Read(down[sock], 1) \in Streams
    <2>1. sock \in Conns /\ down[sock] \in Streams
      BY <1>0, <1>4 DEF TypeOK
    <2>2. 1 <= down[sock].left
      BY <1>4, <2>1 DEF Streams
    <2> QED
      BY <1>0, <2>1, <2>2, LengthType, ReadType DEF Phases, Stale
  <1>5. ASSUME WsReadHead PROVE TypeOK'
    <2>1. CASE down[sock].left > 0
      BY <1>4, <1>5, <2>1 DEF WsReadHead, TypeOK, server, handled
    <2>2. CASE ~(down[sock].left > 0)
      <3>1. sock # 0 /\ CloseSocket
        BY <1>5, <2>2 DEF WsReadHead, TypeOK
      <3>2. Stale \in 0 .. Stale /\ 0 \in 0 .. last
        BY DEF Stale, TypeOK, Conns
      <3> QED
        BY <1>5, <2>2, <3>1, <3>2, CloseSocketType DEF WsReadHead, TypeOK, server, handled
    <2> QED
      BY <2>1, <2>2
  <1>6. ASSUME WsCheck PROVE TypeOK'
    <2>1. CASE rlen = TooLong
      <3>1. sock # 0 /\ CloseSocket
        BY <1>6, <2>1 DEF WsCheck, TypeOK
      <3>2. Stale \in 0 .. Stale /\ 0 \in 0 .. last
        BY DEF Stale, TypeOK, Conns
      <3> QED
        BY <1>6, <2>1, <3>1, <3>2, CloseSocketType DEF WsCheck, TypeOK, server, handled
    <2>2. CASE rlen # TooLong
      BY <1>6, <2>2 DEF WsCheck, TypeOK, server, handled
    <2> QED
      BY <2>1, <2>2
  <1>7. ASSUME DevReadHead PROVE TypeOK'
    <2>1. CASE down[sock].left > 0
      BY <1>4, <1>7, <2>1 DEF DevReadHead, TypeOK, server, handled
    <2>2. CASE ~(down[sock].left > 0)
      <3>1. Stale \in 0 .. Stale
        BY DEF Stale
      <3> QED
        BY <1>7, <2>2, <3>1 DEF DevReadHead, TypeOK, server, handled
    <2> QED
      BY <2>1, <2>2
  <1>8. ASSUME ReadData PROVE TypeOK'
    <2> DEFINE n == Received(down[sock], rlen)
    <2>1. sock \in Conns /\ down[sock] \in Streams /\ rlen \in 0 .. TooLong
      BY <1>0, <1>8 DEF ReadData, TypeOK
    <2>2. n \in 0 .. TooLong /\ n <= down[sock].left
      BY <2>1, ReceivedType
    <2>3. Read(down[sock], n) \in Streams
      BY <2>1, <2>2, ReadType
    <2>4. CASE n > 0
      <3>1. [head |-> rhead, at |-> down[sock].phase, n |-> n, conn |-> sock] \in Frames
        BY <1>0, <2>1, <2>2 DEF Frames, TypeOK
      <3>2. /\ downFrame' = [head |-> rhead, at |-> down[sock].phase, n |-> n, conn |-> sock]
            /\ down' = [down EXCEPT ![sock] = Read(@, n)]
            /\ rpc' = "head"
            /\ UNCHANGED <<sock, rnext, broken, up>>
        BY <1>8, <2>4 DEF ReadData
      <3> QED
        BY <1>8, <2>1, <2>3, <3>1, <3>2 DEF ReadData, TypeOK, server
    <2>5. CASE ~(n > 0)
      <3>1. CloseSocket /\ rnext' = "head" /\ UNCHANGED <<downFrame, down>>
        BY <1>8, <2>5 DEF ReadData
      <3>2. 0 \in 0 .. last /\ sock # 0
        BY <1>8 DEF TypeOK, Conns, ReadData
      <3> QED
        BY <1>8, <3>1, <3>2, CloseSocketType DEF ReadData, TypeOK, server
    <2> QED
      BY <2>4, <2>5
  <1>9. ASSUME Connect PROVE TypeOK'
    <2>1. last + 1 \in Conns /\ 0 \in Phases /\ 1 \in Phases
      BY <1>9 DEF Connect, TypeOK, Conns, Phases
    <2> DEFINE p == IF spc = "data" THEN 1 ELSE 0
    <2>2. [up[last + 1] EXCEPT !.phase = p] \in Streams
      BY <1>0, <2>1 DEF Streams
    <2>3. up' \in [Conns -> Streams]
      BY <1>9, <2>1, <2>2 DEF Connect, TypeOK
    <2>4. sock' \in 0 .. last' /\ sock' # 0 /\ last' \in Conns
      BY <1>9, <2>1 DEF Connect, TypeOK, Conns
    <2> QED
      BY <1>9, <2>3, <2>4 DEF Connect, TypeOK, handled
  <1>10. ASSUME NEW c \in Conns, Accept(c) PROVE TypeOK'
    BY <1>10 DEF Accept, TypeOK, peer, handled
  <1>11. ASSUME NEW c \in Conns, RecvHead(c) PROVE TypeOK'
    <2>1. up[c] \in Streams
      BY <1>0
    <2>2. CASE up[c].left = 0
      BY <1>11, <2>2, CloseAcceptedType DEF RecvHead, TypeOK, peer, handled
    <2>3. CASE up[c].left # 0
      <3>1. Read(up[c], 1) \in Streams
        BY <1>0, <2>1, <2>3, ReadType DEF Streams
      <3>2. up[c].phase \in 0 .. Stale
        BY <1>0, <2>1 DEF Phases, Stale
      <3>3. PICK len \in LengthsAt(up[c].phase) :
               /\ up' = [up EXCEPT ![c] = Read(@, 1)]
               /\ IF len = TooLong
                    THEN CloseAccepted(c) /\ UNCHANGED <<tc, tlen, thead>>
                    ELSE /\ tpc' = "data"
                         /\ tc' = c
                         /\ tlen' = len
                         /\ thead' = up[c].phase
                         /\ UNCHANGED <<tst, broken, down>>
        BY <1>11, <2>3 DEF RecvHead
      <3>4. len \in 0 .. TooLong
        BY <1>0, <2>1, LengthType
      <3>5. up' \in [Conns -> Streams]
        BY <3>1, <3>3 DEF TypeOK
      <3>6. CASE len = TooLong
        BY <1>11, <3>3, <3>5, <3>6, CloseAcceptedType DEF RecvHead, TypeOK, peer, handled
      <3>7. CASE len # TooLong
        BY <1>11, <3>2, <3>3, <3>4, <3>5, <3>7 DEF RecvHead, TypeOK, peer, handled
      <3> QED
        BY <3>6, <3>7
    <2> QED
      BY <2>2, <2>3
  <1>12. ASSUME RecvData PROVE TypeOK'
    <2> DEFINE n == Received(up[tc], tlen)
    <2>1. tc \in Conns /\ up[tc] \in Streams /\ tlen \in 0 .. TooLong
      BY <1>0, <1>12 DEF RecvData, TypeOK
    <2>2. n \in 0 .. TooLong /\ n <= up[tc].left
      BY <2>1, ReceivedType
    <2>3. Read(up[tc], n) \in Streams
      BY <2>1, <2>2, ReadType
    <2>4. CASE n > 0
      <3>1. [head |-> thead, at |-> up[tc].phase, n |-> n, conn |-> tc] \in Frames
        BY <1>0, <2>1, <2>2 DEF Frames, TypeOK
      <3>2. /\ upFrame' = [head |-> thead, at |-> up[tc].phase, n |-> n, conn |-> tc]
            /\ up' = [up EXCEPT ![tc] = Read(@, n)]
            /\ tpc' = "loop"
            /\ UNCHANGED <<tst, broken, down>>
        BY <1>12, <2>4 DEF RecvData
      <3> QED
        BY <1>12, <2>1, <2>3, <3>1, <3>2 DEF RecvData, TypeOK, peer
    <2>5. CASE ~(n > 0)
      BY <1>12, <2>1, <2>5, CloseAcceptedType DEF RecvData, TypeOK, peer
    <2> QED
      BY <2>4, <2>5
  <1>13. ASSUME NEW c \in Conns, Forward(c) PROVE TypeOK'
    <2>1. Written(down[c], c, K + 1) \in Streams
      BY <1>0, WrittenType
    <2>2. down' \in [Conns -> Streams] /\ downs' \in Nat
      BY <1>13, <2>1 DEF Forward, TypeOK
    <2> QED
      BY <1>13, <2>2 DEF Forward, TypeOK, peer, server, handled
  <1>14. ASSUME NEW c \in Conns, Break(c) PROVE TypeOK'
    <2>1. PICK s \in Cuts(up[c]) : up' = [up EXCEPT ![c] = s]
      BY <1>14 DEF Break
    <2>2. PICK t \in Cuts(down[c]) : down' = [down EXCEPT ![c] = t]
      BY <1>14 DEF Break
    <2>3. s \in Streams /\ t \in Streams
      BY <1>0, CutsType
    <2> QED
      BY <1>14, <2>1, <2>2, <2>3 DEF Break, TypeOK, peer, server, handled
  <1>15. ASSUME Die PROVE TypeOK'
    <2>1. PICK s \in Cuts(down[sock]) : down' = [down EXCEPT ![sock] = s]
      BY <1>15 DEF Die
    <2>2. s \in Streams
      BY <1>0, <1>15, CutsType DEF Die
    <2> QED
      BY <1>15, <2>1, <2>2 DEF Die, TypeOK, peer, handled
  <1>16. CASE UNCHANGED vars
    BY <1>16 DEF vars, TypeOK, peer, server, handled
  <1> QED
    BY <1>1, <1>2, <1>3, <1>5, <1>6, <1>7, <1>8, <1>9, <1>10, <1>11, <1>12, <1>13, <1>14,
       <1>15, <1>16 DEF Next, Receiver

-----------------------------------------------------------------------------
(* Keeping in step *)

LEMMA SocketIsMade ==
    ASSUME TypeOK, Fresh, sock # 0
    PROVE  sock \in Conns /\ tst[sock] # "none"
  BY StreamAssumption DEF TypeOK, Fresh, Conns

LEMMA FreshStep == ASSUME TypeOK, Fresh, [Next]_vars PROVE Fresh'
  <1> USE StreamAssumption
  <1>1. ASSUME WsSendHead \/ WsSendData \/ DevSend PROVE Fresh'
    <2>1. PICK n \in {1, K, K + 1} : Send(n)
      BY <1>1 DEF WsSendHead, WsSendData, DevSend
    <2>2. UNCHANGED <<tst, last, broken, down, tpc, tc>>
      BY <1>1 DEF WsSendHead, WsSendData, DevSend, peer, server
    <2>3. \A c \in Conns : tst[c] = "none" => up'[c] = up[c]
      BY <2>1, SocketIsMade DEF Send, TypeOK
    <2> QED
      BY <2>2, <2>3 DEF Fresh
  <1>2. ASSUME sock # 0, CloseSocket
        PROVE  \A c \in Conns : tst[c] = "none" => up'[c] = up[c] /\ broken'[c] = broken[c]
    BY <1>2, SocketIsMade DEF CloseSocket, TypeOK
  <1>3. ASSUME WsReadHead \/ WsCheck \/ DevReadHead \/ ReadData PROVE Fresh'
    <2>1. UNCHANGED <<tst, last, tpc, tc>> /\ rpc # "connect" /\ sock # 0
      BY <1>3 DEF WsReadHead, WsCheck, DevReadHead, ReadData, server, TypeOK
    <2>2. \A c \in Conns : tst[c] = "none" => down'[c] = down[c]
      BY <1>3, <2>1, SocketIsMade DEF WsReadHead, WsCheck, DevReadHead, ReadData, TypeOK
    <2>3. \A c \in Conns : tst[c] = "none" => up'[c] = up[c] /\ broken'[c] = broken[c]
      BY <1>2, <1>3, <2>1 DEF WsReadHead, WsCheck, DevReadHead, ReadData
    <2> QED
      BY <2>1, <2>2, <2>3 DEF Fresh
  <1>4. ASSUME Connect PROVE Fresh'
    <2>1. last + 1 \in Conns /\ last \in Nat
      BY <1>4 DEF Connect, TypeOK, Conns
    <2>2. \A c \in Conns : c # last + 1 => up'[c] = up[c] /\ tst'[c] = tst[c]
      BY <1>4 DEF Connect, TypeOK
    <2>3. tst'[last + 1] = "backlog" /\ last' = last + 1
      BY <1>4, <2>1 DEF Connect, TypeOK
    <2>4. \A c \in Conns : c > last + 1 <=> (c > last /\ c # last + 1)
      BY <2>1 DEF Conns
    <2>5. UNCHANGED <<broken, down, tpc, tc>>
      BY <1>4 DEF Connect
    <2>6. tpc = "data" => tc # last + 1
      BY <2>1 DEF Fresh, TypeOK
    <2> QED
      BY <2>1, <2>2, <2>3, <2>4, <2>5, <2>6 DEF Fresh, TypeOK
  <1>5. ASSUME NEW c \in Conns, Accept(c) PROVE Fresh'
    BY <1>5 DEF Accept, Fresh, TypeOK, peer
  <1>6. ASSUME NEW c \in Conns, tst[c] = "open", CloseAccepted(c), UNCHANGED last,
               up' = up \/ up' = [up EXCEPT ![c] = Read(@, 1)]
        PROVE  Fresh'
    BY <1>6 DEF CloseAccepted, Fresh, TypeOK
  <1>7. ASSUME NEW c \in Conns, RecvHead(c) PROVE Fresh'
    <2>1. tst[c] = "open" /\ UNCHANGED last
      BY <1>7 DEF RecvHead, peer
    <2>2. CASE CloseAccepted(c)
      BY <1>6, <1>7, <2>1, <2>2 DEF RecvHead
    <2>3. CASE ~CloseAccepted(c)
      <3>1. tpc' = "data" /\ tc' = c /\ UNCHANGED <<tst, broken, down>>
        BY <1>7, <2>3 DEF RecvHead
      <3>2. up' = [up EXCEPT ![c] = Read(@, 1)]
        BY <1>7, <2>3 DEF RecvHead
      <3> QED
        BY <2>1, <3>1, <3>2 DEF Fresh, TypeOK
    <2> QED
      BY <2>2, <2>3
  <1>8. ASSUME RecvData PROVE Fresh'
    <2>1. tc \in Conns /\ tst[tc] = "open" /\ UNCHANGED last
      BY <1>8 DEF RecvData, Fresh, TypeOK, peer
    <2>2. CASE CloseAccepted(tc)
      <3>1. tst' # tst
        BY <2>1, <2>2 DEF CloseAccepted, TypeOK
      <3> QED
        BY <1>6, <1>8, <2>1, <2>2, <3>1 DEF RecvData
    <2>3. CASE ~CloseAccepted(tc)
      <3>1. up' = [up EXCEPT ![tc] = Read(@, Received(up[tc], tlen))]
        BY <1>8, <2>3 DEF RecvData
      <3> QED
        BY <1>8, <2>1, <2>3, <3>1 DEF RecvData, Fresh, TypeOK
    <2> QED
      BY <2>2, <2>3
  <1>9. ASSUME NEW c \in Conns, Forward(c) \/ Break(c) PROVE Fresh'
    <2>1. tst[c] # "none" /\ UNCHANGED <<tst, last, tpc, tc>>
      BY <1>9 DEF Forward, Break, peer, server
    <2>2. \A d \in Conns :
             d # c => up'[d] = up[d] /\ down'[d] = down[d] /\ broken'[d] = broken[d]
      BY <1>9 DEF Forward, Break, TypeOK
    <2> QED
      BY <2>1, <2>2 DEF Fresh
  <1>10. ASSUME Die PROVE Fresh'
    <2>1. \A c \in Conns : tst[c] = "none" => down'[c] = down[c] /\ up'[c] = up[c]
      BY <1>10, SocketIsMade DEF Die, TypeOK
    <2>2. \A c \in Conns : tst'[c] = "none" <=> tst[c] = "none"
      BY <1>10 DEF Die
    <2>3. last' = last /\ tpc' = "loop"
      BY <1>10 DEF Die, peer
    <2>4. \A c \in Conns : tst[c] = "none" => ~broken'[c]
      BY <1>10 DEF Die
    <2> QED
      BY <2>1, <2>2, <2>3, <2>4 DEF Fresh
  <1>11. CASE UNCHANGED vars
    BY <1>11 DEF vars, peer, server, Fresh
  <1> QED
    BY <1>1, <1>3, <1>4, <1>5, <1>7, <1>8, <1>9, <1>10, <1>11 DEF Next, Receiver

LEMMA DeviceStep ==
    ASSUME TypeOK, DeviceIsSimple, [Next]_vars PROVE DeviceIsSimple'
  <1> USE DEF DeviceIsSimple
  <1>1. ASSUME Receiver PROVE DeviceIsSimple'
    BY <1>1 DEF Receiver, WsReadHead, WsCheck, DevReadHead, ReadData, Connect, CloseSocket
  <1> QED
    BY <1>1 DEF Next, vars, peer, WsSendHead, WsSendData, DevSend, Accept, RecvHead, RecvData,
       Forward, Break, Die

\* The streams of set S are read by nobody in this step: more may be written
\* to one that is whole, and one that breaks may be cut.
OnlyWrittenOrCut(stream, S) ==
    /\ \A c \in Conns : broken[c] => broken'[c]
    /\ \A c \in S :
        /\ stream'[c].phase = stream[c].phase
        /\ broken[c] => stream'[c].left <= stream[c].left

LEMMA ServerFrame ==
    ASSUME TypeOK, TypeOK', ServerInStep, UNCHANGED <<tst, tpc, tc, tlen, thead, upFrame>>,
           Fresh, OnlyWrittenOrCut(up, {c \in Conns : tst[c] # "none"})
    PROVE  ServerInStep'
  <1>1. \A c \in Conns : up[c].left \in Nat /\ up'[c].left \in Nat
    BY DEF TypeOK, Streams
  <1>2. \A c \in Conns : tst[c] # "none" /\ AtHead(up[c], c) => AtHead(up[c], c)'
    BY <1>1 DEF AtHead, OnlyWrittenOrCut
  <1>3. Intact(upFrame)'
    <2>1. upFrame.conn \in Conns
      BY DEF TypeOK, Frames
    <2> QED
      BY <2>1 DEF Intact, ServerInStep, OnlyWrittenOrCut
  <1> QED
    BY <1>2, <1>3 DEF ServerInStep, BehindHead, Fresh, OnlyWrittenOrCut, TypeOK

LEMMA PeerFrame ==
    ASSUME TypeOK, TypeOK', PeerInStep, UNCHANGED <<sock, rpc, rhead, rlen, downFrame>>,
           OnlyWrittenOrCut(down, {sock} \ {0})
    PROVE  PeerInStep'
  <1>0. sock # 0 => sock \in Conns
    BY StreamAssumption DEF TypeOK, Conns
  <1>1. \A c \in Conns : down[c].left \in Nat /\ down'[c].left \in Nat
    BY DEF TypeOK, Streams
  <1>2. sock # 0 /\ AtHead(down[sock], sock) => AtHead(down[sock], sock)'
    BY <1>0, <1>1 DEF AtHead, OnlyWrittenOrCut, TypeOK
  <1>3. sock # 0 /\ broken[sock] /\ down[sock].left = 0 => broken'[sock] /\ down'[sock].left = 0
    BY <1>0, <1>1 DEF OnlyWrittenOrCut
  <1>4. Intact(downFrame)'
    <2>1. downFrame.conn \in Conns
      BY DEF TypeOK, Frames
    <2> QED
      BY <2>1 DEF Intact, PeerInStep, OnlyWrittenOrCut
  <1> QED
    BY <1>2, <1>3, <1>4 DEF PeerInStep, BehindHead, OnlyWrittenOrCut, TypeOK

LEMMA WriteFrame ==
    ASSUME TypeOK, NEW n \in Nat, Send(n), broken' = broken
    PROVE  OnlyWrittenOrCut(up, {c \in Conns : tst[c] # "none"})
  <1>1. \A c \in Conns : Written(up[c], c, n).phase = up[c].phase
    BY WrittenType DEF TypeOK
  <1> QED
    BY <1>1 DEF Send, OnlyWrittenOrCut, Written, TypeOK, Streams

LEMMA CloseFrame ==
    ASSUME TypeOK, sock # 0, CloseSocket
    PROVE  OnlyWrittenOrCut(up, {c \in Conns : tst[c] # "none"})
  <1>1. sock \in Conns
    BY StreamAssumption DEF TypeOK, Conns
  <1>2. PICK s \in Cuts(up[sock]) : up' = [up EXCEPT ![sock] = s]
    BY DEF CloseSocket
  <1>3. s.phase = up[sock].phase /\ s.left <= up[sock].left
    BY <1>1, CutsType DEF TypeOK
  <1> QED
    BY <1>1, <1>2, <1>3 DEF CloseSocket, OnlyWrittenOrCut, TypeOK, Streams

LEMMA CloseAcceptedFrame ==
    ASSUME TypeOK, NEW c \in Conns, CloseAccepted(c)
    PROVE  OnlyWrittenOrCut(down, Conns)
  <1>2. PICK s \in Cuts(down[c]) : down' = [down EXCEPT ![c] = s]
    BY DEF CloseAccepted
  <1>3. s.phase = down[c].phase /\ s.left <= down[c].left
    BY CutsType DEF TypeOK
  <1> QED
    BY <1>2, <1>3 DEF CloseAccepted, OnlyWrittenOrCut, TypeOK, Streams

LEMMA ServerStep ==
    ASSUME TypeOK, TypeOK', Fresh, DeviceIsSimple, ~WsReconnected', ServerInStep,
           [Next]_vars
    PROVE  ServerInStep'
  <1> USE StreamAssumption
  <1>0. \A c \in Conns : up[c] \in Streams /\ up[c].left \in Nat /\ up[c].phase \in Phases
    BY DEF TypeOK, Streams
  <1>1. ASSUME WsSendHead \/ WsSendData \/ DevSend PROVE ServerInStep'
    <2>1. PICK n \in {1, K, K + 1} : Send(n) /\ broken' = broken
      BY <1>1 DEF WsSendHead, WsSendData, DevSend
    <2>2. OnlyWrittenOrCut(up, {c \in Conns : tst[c] # "none"})
      BY <2>1, WriteFrame
    <2> QED
      BY <1>1, <2>2, ServerFrame DEF WsSendHead, WsSendData, DevSend, server, handled
  <1>2. ASSUME UNCHANGED <<up, broken>> PROVE OnlyWrittenOrCut(up, {c \in Conns : tst[c] # "none"})
    BY <1>0, <1>2 DEF OnlyWrittenOrCut
  <1>3. ASSUME WsReadHead \/ WsCheck \/ DevReadHead \/ ReadData PROVE ServerInStep'
    <2>1. sock # 0
      BY <1>3 DEF WsReadHead, WsCheck, DevReadHead, ReadData, TypeOK
    <2>2. CloseSocket \/ UNCHANGED <<up, broken>>
      BY <1>3 DEF WsReadHead, WsCheck, DevReadHead, ReadData
    <2> QED
      BY <1>2, <1>3, <2>1, <2>2, CloseFrame, ServerFrame
         DEF WsReadHead, WsCheck, DevReadHead, ReadData, server, handled
  <1>4. ASSUME Connect PROVE ServerInStep'
    <2>1. last + 1 \in Conns /\ last' = last + 1 /\ end' = end /\ last \in Nat \ {0}
      BY <1>4 DEF Connect, TypeOK, Conns
    <2>2. spc = "idle"
      BY <2>1 DEF WsReconnected, DeviceIsSimple, TypeOK
    <2>3. up'[last + 1].phase = 0
      BY <1>4, <2>1, <2>2 DEF Connect, TypeOK, Streams
    <2>4. \A c \in Conns : c # last + 1 => up'[c] = up[c] /\ tst'[c] = tst[c]
      BY <1>4 DEF Connect, TypeOK
    <2>5. tpc = "data" => tc # last + 1
      BY <2>1 DEF Fresh, TypeOK
    <2> QED
      BY <1>4, <2>3, <2>4, <2>5 DEF Connect, ServerInStep, AtHead, BehindHead, Intact, handled,
         TypeOK
  <1>5. ASSUME NEW c \in Conns, Accept(c) PROVE ServerInStep'
    BY <1>5 DEF Accept, ServerInStep, AtHead, Intact, handled, TypeOK
  <1>6. ASSUME NEW c \in Conns, tpc = "loop" \/ tc = c, CloseAccepted(c), upFrame' = upFrame,
               \A d \in Conns : d # c => up'[d] = up[d]
        PROVE  ServerInStep'
    <2>1. tpc' = "loop" /\ \A d \in Conns : broken[d] => broken'[d]
      BY <1>6 DEF CloseAccepted, TypeOK
    <2>2. \A d \in Conns : d # c => tst'[d] = tst[d] /\ broken'[d] = broken[d]
      BY <1>6 DEF CloseAccepted, TypeOK
    <2>3. tst'[c] = "closed"
      BY <1>6 DEF CloseAccepted, TypeOK
    <2>4. Intact(upFrame)'
      BY <1>6, <2>1 DEF Intact, ServerInStep, TypeOK, Frames
    <2> QED
      BY <1>6, <2>1, <2>2, <2>3, <2>4 DEF ServerInStep, AtHead
  <1>7. ASSUME NEW c \in Conns, RecvHead(c) PROVE ServerInStep'
    <2>1. tpc = "loop" /\ tst[c] = "open" /\ upFrame' = upFrame
      BY <1>7 DEF RecvHead, handled
    <2>2. CASE CloseAccepted(c)
      <3>1. \A d \in Conns : d # c => up'[d] = up[d]
        BY <1>7 DEF RecvHead, TypeOK
      <3> QED
        BY <1>6, <2>1, <2>2, <3>1
    <2>3. CASE ~CloseAccepted(c)
      <3>1. up[c].left # 0 /\ up[c].phase = 0
        BY <1>7, <2>1, <2>3 DEF RecvHead, ServerInStep, AtHead
      <3>2. PICK len \in LengthsAt(up[c].phase) :
               /\ up' = [up EXCEPT ![c] = Read(@, 1)]
               /\ tpc' = "data" /\ tc' = c /\ tlen' = len /\ thead' = up[c].phase
               /\ UNCHANGED <<tst, broken, down>>
        BY <1>7, <2>3, <3>1 DEF RecvHead
      <3>3. BehindHead(up[tc], thead, tlen)'
        <4>1. len = K
          BY <3>1, <3>2, LengthType DEF Phases
        <4>2. up'[c] = Read(up[c], 1)
          BY <3>2 DEF TypeOK
        <4>3. up'[c].phase = 1
          BY <1>0, <3>1, <4>2, HeadLeadsToData
        <4> QED
          BY <3>1, <3>2, <4>1, <4>3 DEF BehindHead
      <3> QED
        BY <2>1, <3>2, <3>3 DEF ServerInStep, AtHead, Intact, TypeOK
    <2> QED
      BY <2>2, <2>3
  <1>8. ASSUME RecvData PROVE ServerInStep'
    <2>1. tpc = "data" /\ tc \in Conns /\ tst[tc] = "open" /\ CanRecv(up[tc], tc, K)
      BY <1>8 DEF RecvData, Fresh, ServerInStep, BehindHead, TypeOK
    <2>2. thead = 0 /\ tlen = K /\ up[tc].phase = 1
      BY <2>1 DEF ServerInStep, BehindHead
    <2> DEFINE n == Received(up[tc], K)
    <2>3. CASE n > 0
      <3>1. /\ upFrame' = [head |-> 0, at |-> 1, n |-> n, conn |-> tc]
            /\ up' = [up EXCEPT ![tc] = Read(@, n)]
            /\ tpc' = "loop"
            /\ UNCHANGED <<tst, broken, down, tc>>
        BY <1>8, <2>2, <2>3 DEF RecvData
      <3>2. n = K \/ broken[tc]
        BY <1>0, <2>1, <2>2, DataLeadToHead
      <3>3. AtHead(Read(up[tc], n), tc)
        BY <1>0, <2>1, <2>2, DataLeadToHead
      <3>4. up'[tc] = Read(up[tc], n) /\ \A d \in Conns : d # tc => up'[d] = up[d]
        BY <2>1, <3>1 DEF TypeOK
      <3>5. Intact(upFrame)'
        BY <3>1, <3>2 DEF Intact
      <3> QED
        BY <2>1, <3>1, <3>3, <3>4, <3>5 DEF ServerInStep, AtHead
    <2>4. CASE ~(n > 0)
      <3>1. CloseAccepted(tc) /\ UNCHANGED <<up, upFrame>>
        BY <1>8, <2>2, <2>4 DEF RecvData
      <3> QED
        BY <1>6, <2>1, <3>1
    <2> QED
      BY <2>3, <2>4
  <1>9. ASSUME NEW c \in Conns, Forward(c) PROVE ServerInStep'
    BY <1>2, <1>9, ServerFrame DEF Forward, server, handled
  <1>10. ASSUME NEW c \in Conns, Break(c) PROVE ServerInStep'
    <2>1. PICK s \in Cuts(up[c]) : up' = [up EXCEPT ![c] = s]
      BY <1>10 DEF Break
    <2>2. s.phase = up[c].phase /\ s.left <= up[c].left
      BY <1>0, <2>1, CutsType
    <2>3. OnlyWrittenOrCut(up, {d \in Conns : tst[d] # "none"})
      BY <1>0, <1>10, <2>1, <2>2 DEF Break, OnlyWrittenOrCut, TypeOK
    <2> QED
      BY <1>10, <2>3, ServerFrame DEF Break, server, handled
  <1>11. ASSUME Die PROVE ServerInStep'
    <2>1. \A c \in Conns : tst'[c] \notin {"backlog", "open"}
      BY <1>11 DEF Die
    <2>2. tpc' = "loop" /\ upFrame' = upFrame
      BY <1>11 DEF Die, handled
    <2>3. \A c \in Conns : broken[c] => broken'[c]
      <3> SUFFICES ASSUME NEW c \in Conns, Intact(upFrame) PROVE broken[c] => broken'[c]
        BY DEF ServerInStep
      <3> QED
        BY <1>11 DEF Die, Fresh, TypeOK
    <2> QED
      BY <2>1, <2>2, <2>3 DEF ServerInStep, Intact, TypeOK, Frames
  <1>12. CASE UNCHANGED vars
    BY <1>2, <1>12, ServerFrame DEF vars, server, handled
  <1> QED
    BY <1>1, <1>3, <1>4, <1>5, <1>7, <1>8, <1>9, <1>10, <1>11, <1>12 DEF Next, Receiver

LEMMA PeerStep ==
    ASSUME TypeOK, TypeOK', Fresh, DeviceIsSimple, ~WsReconnected', PeerInStep,
           [Next]_vars
    PROVE  PeerInStep'
  <1> USE StreamAssumption
  <1>0. \A c \in Conns :
           down[c] \in Streams /\ down[c].left \in Nat /\ down[c].phase \in Phases
    BY DEF TypeOK, Streams
  <1>1. ASSUME UNCHANGED <<sock, rpc, rhead, rlen, downFrame, down, broken>> PROVE PeerInStep'
    BY <1>1 DEF PeerInStep, AtHead, BehindHead, Intact
  <1>2. ASSUME WsSendHead \/ WsSendData \/ DevSend PROVE PeerInStep'
    BY <1>1, <1>2 DEF WsSendHead, WsSendData, DevSend, peer, handled
  <1>3. ASSUME rpc # "connect", CloseSocket, downFrame' = downFrame PROVE PeerInStep'
    <2>1. \A c \in Conns : broken[c] => broken'[c]
      BY <1>3 DEF CloseSocket, TypeOK
    <2>2. downFrame.conn \in Conns
      BY DEF TypeOK, Frames
    <2> QED
      BY <1>3, <2>1, <2>2 DEF CloseSocket, PeerInStep, Intact
  \* What the two peers do with a head.
  <1>4. ASSUME rpc = "head", down[sock].left > 0, down' = [down EXCEPT ![sock] = Read(@, 1)],
               rlen' \in LengthsAt(down[sock].phase), rhead' = down[sock].phase
        PROVE  BehindHead(down[sock], rhead, rlen)' \/ sock' # sock
    <2>1. sock \in Conns
      BY <1>4, SocketIsMade DEF TypeOK
    <2>2. down[sock].phase = 0
      BY <1>0, <1>4, <2>1 DEF PeerInStep, AtHead
    <2>3. rlen' = K /\ rhead' = 0
      BY <1>4, <2>2, LengthType DEF Phases
    <2>4. down'[sock].phase = 1
      <3>1. Read(down[sock], 1).phase = 1
        BY <1>0, <2>1, <2>2, HeadLeadsToData
      <3>2. down'[sock] = Read(down[sock], 1)
        BY <1>4, <2>1 DEF TypeOK
      <3> QED
        BY <3>1, <3>2
    <2> QED
      BY <2>3, <2>4 DEF BehindHead
  <1>5. ASSUME WsReadHead PROVE PeerInStep'
    <2>1. CASE down[sock].left > 0
      BY <1>4, <1>5, <2>1 DEF WsReadHead, PeerInStep, Intact, handled
    <2>2. CASE ~(down[sock].left > 0)
      BY <1>3, <1>5, <2>2 DEF WsReadHead, handled
    <2> QED
      BY <2>1, <2>2
  <1>6. ASSUME WsCheck PROVE PeerInStep'
    <2>1. CASE rlen = TooLong
      BY <1>3, <1>6, <2>1 DEF WsCheck, handled
    <2>2. CASE rlen # TooLong
      BY <1>6, <2>2 DEF WsCheck, PeerInStep, BehindHead, Intact, handled
    <2> QED
      BY <2>1, <2>2
  <1>7. ASSUME DevReadHead PROVE PeerInStep'
    <2>1. CASE down[sock].left > 0
      BY <1>4, <1>7, <2>1 DEF DevReadHead, PeerInStep, Intact, handled
    <2>2. CASE ~(down[sock].left > 0)
      <3>1. sock \in Conns
        BY <1>7, SocketIsMade DEF DevReadHead, TypeOK
      <3>2. broken[sock] /\ down[sock].left = 0
        BY <1>0, <1>7, <2>2, <3>1 DEF DevReadHead, CanRecv
      <3> QED
        BY <1>7, <2>2, <3>2 DEF DevReadHead, PeerInStep, Intact, handled
    <2> QED
      BY <2>1, <2>2
  <1>8. ASSUME ReadData PROVE PeerInStep'
    <2> DEFINE n == Received(down[sock], rlen)
    <2>1. sock \in Conns /\ rpc = "data" /\ rlen \in 0 .. TooLong
      BY <1>8, SocketIsMade DEF ReadData, TypeOK
    <2>2. CASE n > 0
      <3>1. /\ downFrame' = [head |-> rhead, at |-> down[sock].phase, n |-> n, conn |-> sock]
            /\ down' = [down EXCEPT ![sock] = Read(@, n)]
            /\ rpc' = "head"
            /\ UNCHANGED <<sock, rnext, broken, up>>
        BY <1>8, <2>2 DEF ReadData
      <3>2. down[sock].left # 0
        BY <1>0, <2>1, <2>2 DEF Received, TooLong
      <3>3. BehindHead(down[sock], rhead, rlen)
        BY <2>1, <3>2 DEF PeerInStep
      <3>4. CanRecv(down[sock], sock, K) /\ n = Received(down[sock], K)
        BY <1>8, <3>3 DEF ReadData, BehindHead
      <3>5. (n = K \/ broken[sock]) /\ AtHead(Read(down[sock], n), sock)
        BY <1>0, <2>1, <3>3, <3>4, DataLeadToHead DEF BehindHead
      <3>6. down'[sock] = Read(down[sock], n)
        BY <2>1, <3>1 DEF TypeOK
      <3>7. Intact(downFrame)'
        BY <3>1, <3>3, <3>5 DEF Intact, BehindHead
      <3> QED
        BY <3>1, <3>5, <3>6, <3>7 DEF PeerInStep, AtHead
    <2>3. CASE ~(n > 0)
      BY <1>3, <1>8, <2>1, <2>3 DEF ReadData
    <2> QED
      BY <2>2, <2>3
  <1>9. ASSUME Connect PROVE PeerInStep'
    <2>1. last + 1 \in Conns /\ last' = last + 1 /\ end' = end /\ last \in Nat \ {0}
      BY <1>9 DEF Connect, TypeOK, Conns
    <2>2. end = "device" /\ rnext = "head"
      BY <2>1 DEF WsReconnected, DeviceIsSimple, TypeOK
    <2>3. down[last + 1].phase = 0
      BY <2>1 DEF Fresh
    <2> QED
      BY <1>9, <2>2, <2>3 DEF Connect, PeerInStep, AtHead, Intact, handled
  <1>10. ASSUME NEW c \in Conns, Accept(c) PROVE PeerInStep'
    BY <1>1, <1>10 DEF Accept, peer, handled
  <1>11. ASSUME NEW c \in Conns, CloseAccepted(c), UNCHANGED <<sock, rpc, rhead, rlen, downFrame>>
         PROVE  PeerInStep'
    <2>1. OnlyWrittenOrCut(down, {sock} \ {0})
      <3>1. sock # 0 => sock \in Conns
        BY SocketIsMade
      <3> QED
        BY <1>11, <3>1, CloseAcceptedFrame DEF OnlyWrittenOrCut
    <2> QED
      BY <1>11, <2>1, PeerFrame
  <1>12. ASSUME NEW c \in Conns, RecvHead(c) PROVE PeerInStep'
    BY <1>1, <1>11, <1>12 DEF RecvHead, peer, handled
  <1>13. ASSUME RecvData PROVE PeerInStep'
    <2>1. tc \in Conns
      BY DEF TypeOK
    <2> QED
      BY <1>1, <1>11, <1>13, <2>1 DEF RecvData, peer
  <1>14. ASSUME NEW c \in Conns, Forward(c) PROVE PeerInStep'
    <2>1. Written(down[c], c, K + 1).phase = down[c].phase
      BY <1>0, WrittenType
    <2>2. broken[c] => Written(down[c], c, K + 1) = down[c]
      BY DEF Written
    <2>3. OnlyWrittenOrCut(down, {sock} \ {0})
      <3>1. sock # 0 => sock \in Conns
        BY SocketIsMade
      <3> QED
        BY <1>0, <1>14, <2>1, <2>2, <3>1 DEF Forward, OnlyWrittenOrCut, TypeOK
    <2> QED
      BY <1>14, <2>3, PeerFrame DEF Forward, peer, handled
  <1>15. ASSUME NEW c \in Conns, Break(c) PROVE PeerInStep'
    <2>1. PICK s \in Cuts(down[c]) : down' = [down EXCEPT ![c] = s]
      BY <1>15 DEF Break
    <2>2. s.phase = down[c].phase /\ s.left <= down[c].left
      BY <1>0, <2>1, CutsType
    <2>3. OnlyWrittenOrCut(down, {sock} \ {0})
      <3>1. sock # 0 => sock \in Conns
        BY SocketIsMade
      <3> QED
        BY <1>0, <1>15, <2>1, <2>2, <3>1 DEF Break, OnlyWrittenOrCut, TypeOK
    <2> QED
      BY <1>15, <2>3, PeerFrame DEF Break, peer, handled
  <1>16. ASSUME Die PROVE PeerInStep'
    <2>0. sock \in Conns
      BY <1>16, SocketIsMade DEF Die
    <2>1. PICK s \in Cuts(down[sock]) : down' = [down EXCEPT ![sock] = s]
      BY <1>16 DEF Die
    <2>2. s.phase = down[sock].phase /\ s.left <= down[sock].left
      BY <1>0, <2>0, <2>1, CutsType
    <2>3. \A c \in Conns : broken[c] => broken'[c]
      BY <1>16 DEF Die, Fresh
    <2>4. OnlyWrittenOrCut(down, {sock} \ {0})
      BY <1>0, <2>0, <2>1, <2>2, <2>3 DEF OnlyWrittenOrCut, TypeOK
    <2> QED
      BY <1>16, <2>4, PeerFrame DEF Die, peer, handled
  <1>17. CASE UNCHANGED vars
    BY <1>1, <1>17 DEF vars, peer, handled
  <1> QED
    BY <1>2, <1>5, <1>6, <1>7, <1>8, <1>9, <1>10, <1>12, <1>13, <1>14, <1>15, <1>16, <1>17
       DEF Next, Receiver

LEMMA InvInit == Init => Inv
  <1> SUFFICES ASSUME Init PROVE Inv
    OBVIOUS
  <1> USE StreamAssumption DEF Init
  <1>1. TypeOK
    <2>1. 1 \in Conns /\ 0 \in Phases /\ 1 \in Phases /\ 0 \in 0 .. Stale /\ Stale \in 0 .. Stale
      BY DEF Conns, Phases, Stale
    <2>2. [phase |-> 0, left |-> 0] \in Streams
      BY <2>1 DEF Streams
    <2>3. NoFrame \in Frames
      BY <2>1 DEF NoFrame, Frames
    <2>4. 0 \in 0 .. TooLong
      BY DEF TooLong
    <2> QED
      BY <2>1, <2>2, <2>3, <2>4 DEF TypeOK
  <1>2. Fresh
    BY DEF Fresh, Conns
  <1>3. DeviceIsSimple
    BY DEF DeviceIsSimple
  <1>4. ServerInStep /\ PeerInStep
    BY DEF ServerInStep, PeerInStep, AtHead, Intact, NoFrame, Conns
  <1> QED
    BY <1>1, <1>2, <1>3, <1>4 DEF Inv

LEMMA InvStep == Inv /\ [Next]_vars => Inv'
  <1> SUFFICES ASSUME Inv, [Next]_vars PROVE Inv'
    OBVIOUS
  <1>1. TypeOK' /\ Fresh' /\ DeviceIsSimple'
    BY TypeStep, FreshStep, DeviceStep DEF Inv
  <1>2. WsReconnected => WsReconnected'
    <2>1. end' = end /\ (last' = last \/ last' = last + 1)
      BY DEF Next, Receiver, vars, peer, WsSendHead, WsSendData,
         DevSend, WsReadHead, WsCheck, DevReadHead, ReadData, Connect, Accept, RecvHead,
         RecvData, Forward, Break, Die
    <2>2. last \in Nat
      BY StreamAssumption DEF Inv, TypeOK, Conns
    <2> QED
      BY <2>1, <2>2 DEF WsReconnected
  <1>3. WsReconnected' \/ (ServerInStep' /\ PeerInStep')
    BY <1>1, <1>2, ServerStep, PeerStep DEF Inv
  <1> QED
    BY <1>1, <1>3 DEF Inv

-----------------------------------------------------------------------------

THEOREM TypeCorrect == Spec => []TypeOK
  <1>1. Inv => TypeOK
    BY DEF Inv
  <1> QED
    BY <1>1, InvInit, InvStep, PTL DEF Spec

\* Whatever the length of the frames, and however often and wherever links
\* break and the TCP server dies, both sides read frames of a device from
\* their head to their end, and so do the two servers on their first
\* connection (recv_socket_cb_net, recv_socket_cb_local, recv_function,
\* recvInfo_from_TcpServer).
THEOREM InStepSafe == Spec => [](UpInStep /\ DownInStep)
  <1>1. Inv => UpInStep /\ DownInStep
    BY DEF Inv, UpInStep, DownInStep, UpIntact, ServerInStep, PeerInStep
  <1> QED
    BY <1>1, InvInit, InvStep, PTL DEF Spec

\* The half of the receiving threads by itself: what they hand on was read
\* from its head to its end (recv_function, recvInfo_from_TcpServer).
THEOREM PeerReadsInStep == Spec => []DownInStep
  <1>1. UpInStep /\ DownInStep => DownInStep
    OBVIOUS
  <1> QED
    BY <1>1, InStepSafe, PTL
=============================================================================
