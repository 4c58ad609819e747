-------------------------- MODULE Recovery_proofs --------------------------
(***************************************************************************)
(* Proofs about Recovery, for any number of faults, descriptors and        *)
(* connections that wait.  The WS server makes one connection after the    *)
(* other and the backlog keeps their order, so no connection of it waits   *)
(* behind the one that lives.                                              *)
(***************************************************************************)
EXTENDS Recovery, SequenceTheorems, TLAPS

\* A connection lives only while its end believes in it.
LiveIsBelieved == ~link["ws"] => ~Linked("ws")

LastWaits ==
    \A i, j \in 1 .. Len(backlog) :
        backlog[i] = Live("ws") /\ i < j => backlog[j].of # "ws"

AcceptedIsLast ==
    \A f \in Fds : fd[f] = Live("ws") => \A j \in 1 .. Len(backlog) : backlog[j].of # "ws"

Order == LiveIsBelieved /\ LastWaits /\ AcceptedIsLast /\ RelayFindsWs

Inv == TypeOK /\ Order

-----------------------------------------------------------------------------

LEMMA Kinds ==
    ASSUME NEW p \in Peers
    PROVE  /\ Live(p) \in Connections /\ Dead(p) \in Connections
           /\ Live(p).of = p /\ Dead(p).of = p /\ Live(p) # Dead(p)
           /\ Live(p) # Free /\ Dead(p) # Free
           /\ \A q \in Peers : Live(p) # Dead(q)
           /\ \A q \in Peers : Live(p) = Live(q) => p = q
  BY DEF Live, Dead, Free, Connections, Peers

LEMMA GoneIs ==
    ASSUME NEW p \in Peers, NEW c \in Connections \cup {Free}
    PROVE  /\ Gone(p, c) \in Connections \cup {Free}
           /\ c \in Connections => Gone(p, c) \in Connections
           /\ Gone(p, c).of = c.of
           /\ Gone(p, c) # Live(p)
           /\ \A q \in Peers : Gone(p, c) = Live(q) => c = Live(q)
  BY Kinds DEF Gone

\* Where the connections of p are after its end has gone.
LEMMA HangupIs ==
    ASSUME TypeOK, NEW p \in Peers, Hangup(p)
    PROVE  /\ backlog' \in Seq(Connections)
           /\ fd' \in [Fds -> Connections \cup {Free}]
           /\ Len(backlog') = Len(backlog)
           /\ \A i \in 1 .. Len(backlog) : backlog'[i] = Gone(p, backlog[i])
           /\ \A f \in Fds : fd'[f] = Gone(p, fd[f])
           /\ WS_TCP_CON_ID' = WS_TCP_CON_ID
  <1>1. \A i \in 1 .. Len(backlog) : backlog[i] \in Connections
    BY DEF TypeOK
  <1>2. \A i \in 1 .. Len(backlog) : Gone(p, backlog[i]) \in Connections
    BY <1>1, GoneIs
  <1>3. Len(backlog) \in Nat
    BY DEF TypeOK
  <1>4. backlog' = [i \in 1 .. Len(backlog) |-> Gone(p, backlog[i])]
    BY DEF Hangup
  <1>5. backlog' \in Seq(Connections) /\ Len(backlog') = Len(backlog)
    BY <1>2, <1>3, <1>4
  <1>6. \A f \in Fds : Gone(p, fd[f]) \in Connections \cup {Free}
    BY GoneIs DEF TypeOK
  <1> QED
    BY <1>4, <1>5, <1>6 DEF Hangup

\* The order of the connections outlasts a hangup, and whoever hangs up has
\* no connection that lives.
LEMMA HangupKeepsOrder ==
    ASSUME Inv, NEW p \in Peers, Hangup(p),
           link' = link \/ (p = "ws" /\ link' = [link EXCEPT !["ws"] = FALSE])
    PROVE  Order'
  <1>1. /\ Len(backlog') = Len(backlog)
        /\ \A i \in 1 .. Len(backlog) : backlog'[i] = Gone(p, backlog[i])
        /\ \A f \in Fds : fd'[f] = Gone(p, fd[f])
        /\ WS_TCP_CON_ID' = WS_TCP_CON_ID
    BY HangupIs DEF Inv
  <1>2. \A i \in 1 .. Len(backlog) :
          /\ backlog'[i].of = backlog[i].of
          /\ backlog'[i] # Live(p)
          /\ backlog'[i] = Live("ws") => backlog[i] = Live("ws")
    <2>1. \A i \in 1 .. Len(backlog) : backlog[i] \in Connections
      BY DEF Inv, TypeOK
    <2> QED
      BY <1>1, <2>1, GoneIs DEF Peers
  <1>3. \A f \in Fds :
          /\ fd'[f] # Live(p)
          /\ fd'[f] = Live("ws") => fd[f] = Live("ws")
    <2>1. \A f \in Fds : fd[f] \in Connections \cup {Free}
      BY DEF Inv, TypeOK
    <2> QED
      BY <1>1, <2>1, GoneIs DEF Peers
  <1>4. LiveIsBelieved'
    <2>1. CASE p = "ws"
      BY <1>1, <1>2, <1>3, <2>1 DEF LiveIsBelieved, Linked, Live
    <2>2. CASE p # "ws"
      BY <1>1, <1>2, <1>3, <2>2 DEF Inv, Order, LiveIsBelieved, Linked, Live
    <2> QED
      BY <2>1, <2>2
  <1>5. LastWaits' /\ AcceptedIsLast' /\ RelayFindsWs'
    BY <1>1, <1>2, <1>3 DEF Inv, Order, LastWaits, AcceptedIsLast, RelayFindsWs, Live
  <1> QED
    BY <1>4, <1>5 DEF Order

-----------------------------------------------------------------------------
(* Steps *)

LEMMA FaultsBounded ==
    ASSUME TypeOK, Fault
    PROVE  faults' \in 0 .. MaxFaults
  BY BoundsAssumption DEF TypeOK, Fault

LEMMA StepType == Inv /\ [Next]_vars => TypeOK'
  <1> SUFFICES ASSUME Inv, [Next]_vars PROVE TypeOK'
    OBVIOUS
  <1> USE DEF Inv
  <1>1. CASE GuardTcp \/ GuardWs \/ TcpStart \/ WsNotStarted \/ DbStops \/ DbStarts
    <2>1. UNCHANGED server
      BY <1>1 DEF GuardTcp, GuardWs, TcpStart, WsNotStarted, DbStops, DbStarts
    <2>2. CASE GuardTcp \/ GuardWs
      BY <2>1, <2>2 DEF GuardTcp, GuardWs, TypeOK, server
    <2>3. CASE TcpStart \/ DbStarts
      BY <2>1, <2>3 DEF TcpStart, DbStarts, TypeOK, server
    <2>4. CASE WsNotStarted
      <3>1. faults' \in 0 .. MaxFaults
        BY <2>4, FaultsBounded DEF WsNotStarted
      <3> QED
        BY <2>1, <2>4, <3>1 DEF WsNotStarted, TypeOK, server
    <2>5. CASE DbStops
      <3>1. faults' \in 0 .. MaxFaults
        BY <2>5, FaultsBounded DEF DbStops
      <3> QED
        BY <2>1, <2>5, <3>1 DEF DbStops, TypeOK, server
    <2> QED
      BY <1>1, <2>2, <2>3, <2>4, <2>5
  <1>2. CASE Accept
    <2>1. PICK f \in Fds :
            /\ fd' = [fd EXCEPT ![f] = Head(backlog)]
            /\ WS_TCP_CON_ID' = IF Head(backlog).of = "ws" THEN f ELSE WS_TCP_CON_ID
      BY <1>2 DEF Accept
    <2>2. Head(backlog) \in Connections /\ Tail(backlog) \in Seq(Connections)
      BY <1>2, HeadTailProperties DEF Accept, TypeOK
    <2> QED
      BY <1>2, <2>1, <2>2 DEF Accept, TypeOK
  <1>3. ASSUME NEW f \in Fds, RecvEnd(f) PROVE TypeOK'
    BY <1>3 DEF RecvEnd, TypeOK
  <1>4. ASSUME NEW p \in Peers, Connect(p) PROVE TypeOK'
    <2>1. Append(backlog, Live(p)) \in Seq(Connections)
      BY Kinds, AppendProperties DEF TypeOK
    <2> QED
      BY <1>4, <2>1 DEF Connect, TypeOK
  <1>5. ASSUME NEW p \in Peers, Notices(p) PROVE TypeOK'
    BY <1>5 DEF Notices, TypeOK, server
  <1>6. CASE WsStart
    <2>1. CASE WsEnds
      <3>1. "ws" \in Peers /\ Hangup("ws")
        BY <2>1 DEF Peers, WsEnds
      <3>2. /\ backlog' \in Seq(Connections)
            /\ fd' \in [Fds -> Connections \cup {Free}]
            /\ WS_TCP_CON_ID' = WS_TCP_CON_ID
        BY <3>1, HangupIs
      <3> QED
        BY <1>6, <2>1, <3>2 DEF WsStart, WsEnds, TypeOK
    <2>2. CASE ~WsEnds
      BY <1>6, <2>2 DEF WsStart, TypeOK, server
    <2> QED
      BY <2>1, <2>2
  <1>7. CASE TcpDies
    <2>1. /\ backlog' \in Seq(Connections)
          /\ fd' \in [Fds -> Connections \cup {Free}]
          /\ WS_TCP_CON_ID' = 0
      BY <1>7 DEF TcpDies, NoConnections
    <2>2. session' \in [Servers -> {"none", "open", "lost"}]
      BY <1>7 DEF TcpDies, TypeOK
    <2>3. faults' \in 0 .. MaxFaults
      BY <1>7, FaultsBounded DEF TcpDies
    <2> QED
      BY <1>7, <2>1, <2>2, <2>3 DEF TcpDies, TypeOK
  <1>8. CASE WsDies
    <2>1. "ws" \in Peers /\ Hangup("ws")
      BY <1>8 DEF Peers, WsDies, WsEnds
    <2>2. /\ backlog' \in Seq(Connections)
          /\ fd' \in [Fds -> Connections \cup {Free}]
          /\ WS_TCP_CON_ID' = WS_TCP_CON_ID
      BY <2>1, HangupIs
    <2> QED
      <3>1. faults' \in 0 .. MaxFaults
        BY <1>8, FaultsBounded DEF WsDies
      <3>2. /\ link' \in [Peers -> BOOLEAN] /\ ws' = "down"
            /\ session' \in [Servers -> {"none", "open", "lost"}]
        BY <1>8 DEF WsDies, WsEnds, TypeOK
      <3>3. UNCHANGED <<gpc, tcp, db>>
        BY <1>8 DEF WsDies
      <3> QED
        BY <2>2, <3>1, <3>2, <3>3 DEF TypeOK
  <1>9. CASE DeviceBreaks
    <2>1. "device" \in Peers /\ Hangup("device")
      BY <1>9 DEF Peers, DeviceBreaks
    <2>2. /\ backlog' \in Seq(Connections)
          /\ fd' \in [Fds -> Connections \cup {Free}]
          /\ WS_TCP_CON_ID' = WS_TCP_CON_ID
      BY <2>1, HangupIs
    <2> QED
      BY <1>9, <2>2, BoundsAssumption DEF DeviceBreaks, Fault, TypeOK
  <1>10. CASE UNCHANGED vars
    BY <1>10 DEF vars, server, TypeOK
  <1> QED
    BY <1>1, <1>2, <1>3, <1>4, <1>5, <1>6, <1>7, <1>8, <1>9, <1>10 DEF Next

LEMMA StepOrder == Inv /\ [Next]_vars => Order'
  <1> SUFFICES ASSUME Inv, [Next]_vars PROVE Order'
    OBVIOUS
  <1> USE DEF Inv
  <1>0. Len(backlog) \in Nat
    BY DEF TypeOK
  <1>1. CASE UNCHANGED <<link, server>>
    BY <1>1
    DEF server, Order, LiveIsBelieved, Linked, LastWaits, AcceptedIsLast, RelayFindsWs, Live
  <1>2. CASE Accept
    <2>1. PICK f \in Fds :
            /\ fd[f] = Free
            /\ fd' = [fd EXCEPT ![f] = Head(backlog)]
            /\ WS_TCP_CON_ID' = IF Head(backlog).of = "ws" THEN f ELSE WS_TCP_CON_ID
      BY <1>2 DEF Accept
    <2>2. /\ backlog # <<>> /\ backlog' = Tail(backlog) /\ link' = link
          /\ backlog \in Seq(Connections)
      BY <1>2 DEF Accept, TypeOK
    <2>3. /\ Len(backlog) >= 1
          /\ Head(backlog) = backlog[1]
          /\ Len(backlog') = Len(backlog) - 1
          /\ \A i \in 1 .. Len(backlog') : backlog'[i] = backlog[i + 1]
      BY <2>2, HeadTailProperties, EmptySeq
    <2>4. \A g \in Fds : fd'[g] = IF g = f THEN backlog[1] ELSE fd[g]
      BY <2>1, <2>3 DEF TypeOK
    <2>5. \A i \in 1 .. Len(backlog') : i + 1 \in 1 .. Len(backlog)
      BY <1>0, <2>3
    <2>6. 1 \in 1 .. Len(backlog)
      BY <1>0, <2>3
    <2>7. LiveIsBelieved'
      BY <2>2, <2>3, <2>4, <2>5, <2>6 DEF Order, LiveIsBelieved, Linked, Live
    <2>8. LastWaits'
      <3>1. ASSUME NEW i \in 1 .. Len(backlog'), NEW j \in 1 .. Len(backlog'),
                   backlog'[i] = Live("ws"), i < j
            PROVE  backlog'[j].of # "ws"
        <4>1. i + 1 \in 1 .. Len(backlog) /\ j + 1 \in 1 .. Len(backlog) /\ i + 1 < j + 1
          BY <2>5, <3>1
        <4> QED
          BY <2>3, <3>1, <4>1 DEF Order, LastWaits
      <3> QED
        BY <3>1 DEF LastWaits, Live
    <2>9. AcceptedIsLast'
      <3>1. ASSUME NEW g \in Fds, fd'[g] = Live("ws"), NEW j \in 1 .. Len(backlog')
            PROVE  backlog'[j].of # "ws"
        <4>1. j + 1 \in 1 .. Len(backlog) /\ 1 < j + 1
          BY <2>5
        <4>2. CASE g = f
          BY <2>3, <2>4, <2>6, <3>1, <4>1, <4>2 DEF Order, LastWaits
        <4>3. CASE g # f
          BY <2>3, <2>4, <3>1, <4>1, <4>3 DEF Order, AcceptedIsLast
        <4> QED
          BY <4>2, <4>3
      <3> QED
        BY <3>1 DEF AcceptedIsLast, Live
    <2>10. RelayFindsWs'
      <3>1. ASSUME NEW g \in Fds, fd'[g] = Live("ws")
            PROVE  WS_TCP_CON_ID' = g
        <4>1. CASE g = f
          <5>1. backlog[1].of = "ws"
            BY <2>4, <3>1, <4>1 DEF Live
          <5> QED
            BY <2>1, <2>3, <4>1, <5>1
        <4>2. CASE g # f
          <5>1. fd[g] = Live("ws")
            BY <2>4, <3>1, <4>2
          <5>2. backlog[1].of # "ws"
            BY <2>6, <5>1 DEF Order, AcceptedIsLast
          <5> QED
            BY <2>1, <2>3, <5>1, <5>2 DEF Order, RelayFindsWs
        <4> QED
          BY <4>1, <4>2
      <3> QED
        BY <3>1 DEF RelayFindsWs, Live
    <2> QED
      BY <2>7, <2>8, <2>9, <2>10 DEF Order
  <1>3. ASSUME NEW f \in Fds, RecvEnd(f) PROVE Order'
    <2>1. /\ \A g \in Fds : fd'[g] = Live("ws") => fd[g] = Live("ws")
          /\ backlog' = backlog /\ link' = link /\ WS_TCP_CON_ID' = WS_TCP_CON_ID
      BY <1>3 DEF RecvEnd, TypeOK, Live, Free
    <2> QED
      BY <2>1
      DEF Order, LiveIsBelieved, Linked, LastWaits, AcceptedIsLast, RelayFindsWs, Live
  <1>4. ASSUME NEW p \in Peers, Connect(p) PROVE Order'
    <2>1. /\ backlog \in Seq(Connections)
          /\ backlog' = Append(backlog, Live(p)) /\ ~link[p]
          /\ link' = [link EXCEPT ![p] = TRUE]
          /\ fd' = fd /\ WS_TCP_CON_ID' = WS_TCP_CON_ID
      BY <1>4 DEF Connect, TypeOK
    <2>2. /\ Len(backlog') = Len(backlog) + 1
          /\ backlog'[Len(backlog) + 1] = Live(p)
          /\ \A i \in 1 .. Len(backlog) : backlog'[i] = backlog[i]
      BY <2>1
    <2>3. \A i \in 1 .. Len(backlog') : i \in 1 .. Len(backlog) \/ i = Len(backlog) + 1
      BY <1>0, <2>2
    <2>4. CASE p = "ws"
      <3>1. ~Linked("ws")
        BY <2>1, <2>4 DEF Order, LiveIsBelieved
      <3>2. /\ \A i \in 1 .. Len(backlog) : backlog'[i] # Live("ws")
            /\ \A f \in Fds : fd'[f] # Live("ws")
        BY <2>1, <2>2, <3>1 DEF Linked
      <3>3. link'["ws"]
        BY <2>1, <2>4 DEF TypeOK, Peers
      <3>4. LastWaits'
        <4>1. ASSUME NEW i \in 1 .. Len(backlog'), NEW j \in 1 .. Len(backlog'),
                     backlog'[i] = Live("ws"), i < j
              PROVE  FALSE
          <5>1. i \notin 1 .. Len(backlog)
            BY <3>2, <4>1
          <5>2. i = Len(backlog) + 1
            BY <2>3, <5>1
          <5> QED
            BY <1>0, <2>2, <4>1, <5>2
        <4> QED
          BY <4>1 DEF LastWaits, Live
      <3> QED
        BY <3>2, <3>3, <3>4 DEF Order, LiveIsBelieved, AcceptedIsLast, RelayFindsWs, Live
    <2>5. CASE p # "ws"
      <3>1. Live(p).of # "ws" /\ Live(p) # Live("ws")
        BY <2>5 DEF Live
      <3>2. link'["ws"] = link["ws"]
        BY <2>1, <2>5 DEF TypeOK, Peers
      <3>3. LiveIsBelieved'
        BY <2>1, <2>2, <2>3, <3>1, <3>2 DEF Order, LiveIsBelieved, Linked, Live
      <3>4. LastWaits'
        BY <1>0, <2>2, <2>3, <3>1 DEF Order, LastWaits, Live
      <3>5. AcceptedIsLast' /\ RelayFindsWs'
        BY <2>1, <2>2, <2>3, <3>1 DEF Order, AcceptedIsLast, RelayFindsWs, Live
      <3> QED
        BY <3>3, <3>4, <3>5 DEF Order
    <2> QED
      BY <2>4, <2>5
  <1>5. ASSUME NEW p \in Peers, Notices(p) PROVE Order'
    <2>1. ~Linked(p) /\ UNCHANGED server /\ link' = [link EXCEPT ![p] = FALSE]
      BY <1>5 DEF Notices
    <2>2. LiveIsBelieved'
      <3>1. CASE p = "ws"
        BY <2>1, <3>1 DEF server, LiveIsBelieved, Linked, Live
      <3>2. CASE p # "ws"
        BY <2>1, <3>2 DEF server, Order, LiveIsBelieved, Linked, Live, TypeOK, Peers
      <3> QED
        BY <3>1, <3>2
    <2> QED
      BY <2>1, <2>2 DEF server, Order, LastWaits, AcceptedIsLast, RelayFindsWs, Live
  <1>6. CASE WsEnds
    <2>1. "ws" \in Peers /\ Hangup("ws") /\ link' = [link EXCEPT !["ws"] = FALSE]
      BY <1>6 DEF Peers, WsEnds
    <2> QED
      BY <2>1, HangupKeepsOrder
  <1>7. CASE TcpDies
    BY <1>7
    DEF TcpDies, NoConnections, Order, LiveIsBelieved, Linked, LastWaits, AcceptedIsLast,
        RelayFindsWs, Live, Free
  <1>8. CASE DeviceBreaks
    <2>1. "device" \in Peers /\ Hangup("device") /\ link' = link
      BY <1>8 DEF Peers, DeviceBreaks
    <2> QED
      BY <2>1, HangupKeepsOrder
  <1>9. CASE GuardTcp \/ GuardWs \/ TcpStart \/ WsNotStarted \/ DbStops \/ DbStarts
    BY <1>1, <1>9 DEF GuardTcp, GuardWs, TcpStart, WsNotStarted, DbStops, DbStarts
  <1>10. CASE WsStart
    BY <1>1, <1>6, <1>10 DEF WsStart
  <1>11. CASE WsDies
    BY <1>6, <1>11 DEF WsDies
  <1>12. CASE UNCHANGED vars
    BY <1>1, <1>12 DEF vars
  <1> QED
    BY <1>2, <1>3, <1>4, <1>5, <1>7, <1>8, <1>9, <1>10, <1>11, <1>12 DEF Next

-----------------------------------------------------------------------------
(* Theorems *)

LEMMA InitInv == Init => Inv
  <1> SUFFICES ASSUME Init PROVE Inv
    OBVIOUS
  <1> USE DEF Init
  <1>1. <<>> \in Seq(Connections) /\ Len(<<>>) = 0 /\ 0 \in 0 .. MaxFaults
    BY BoundsAssumption
  <1>2. TypeOK
    BY <1>1 DEF TypeOK
  <1>3. Order
    BY DEF Order, LiveIsBelieved, Linked, LastWaits, AcceptedIsLast, RelayFindsWs, Live, Free
  <1> QED
    BY <1>2, <1>3 DEF Inv

LEMMA NextInv == Inv /\ [Next]_vars => Inv'
  BY StepType, StepOrder DEF Inv

\* Every variable keeps its type.
THEOREM TypeCorrect == Spec => []TypeOK
  <1>1. Inv => TypeOK
    BY DEF Inv
  <1> QED
    BY InitInv, NextInv, <1>1, PTL DEF Spec

\* However many processes die and links break: the link of the WS server that
\* runs is the one that frames are relayed to, from its accept on.
THEOREM RelayFound == Spec => []RelayFindsWs
  <1>1. Inv => RelayFindsWs
    BY DEF Inv, Order
  <1> QED
    BY InitInv, NextInv, <1>1, PTL DEF Spec

-----------------------------------------------------------------------------
(* One live connection per peer *)

OneInv == TypeOK /\ OneLivePerPeer

\* Whatever only takes live connections away keeps at most one.
LEMMA FewerPlaces ==
    ASSUME OneInv, link' \in [Peers -> BOOLEAN],
           \A p \in Peers : /\ Places(p)' \subseteq Places(p)
                            /\ ~link'[p] => ~link[p] \/ Places(p)' = {}
    PROVE  OneLivePerPeer'
  <1> SUFFICES ASSUME NEW p \in Peers
               PROVE  /\ \A x, y \in Places(p)' : x = y
                      /\ ~link'[p] => Places(p)' = {}
    BY DEF OneLivePerPeer
  <1>1. Places(p)' \subseteq Places(p)
    OBVIOUS
  <1> QED
    BY <1>1 DEF OneInv, OneLivePerPeer

LEMMA HangupPlaces ==
    ASSUME TypeOK, NEW p \in Peers, Hangup(p)
    PROVE  /\ Places(p)' = {}
           /\ \A q \in Peers : Places(q)' \subseteq Places(q)
  <1>1. /\ Len(backlog') = Len(backlog)
        /\ \A i \in 1 .. Len(backlog) : backlog'[i] = Gone(p, backlog[i])
        /\ \A f \in Fds : fd'[f] = Gone(p, fd[f])
    BY HangupIs
  <1>2. \A i \in 1 .. Len(backlog) : backlog[i] \in Connections \cup {Free}
    BY DEF TypeOK
  <1>3. \A f \in Fds : fd[f] \in Connections \cup {Free}
    BY DEF TypeOK
  <1>4. /\ \A i \in 1 .. Len(backlog) :
              /\ backlog'[i] # Live(p)
              /\ \A q \in Peers : backlog'[i] = Live(q) => backlog[i] = Live(q)
        /\ \A f \in Fds :
              /\ fd'[f] # Live(p)
              /\ \A q \in Peers : fd'[f] = Live(q) => fd[f] = Live(q)
    BY <1>1, <1>2, <1>3, GoneIs
  <1> QED
    BY <1>1, <1>4 DEF Places, Live

\* The oldest connection moves from the backlog to a descriptor.
LEMMA AcceptOne ==
    ASSUME OneInv, Accept
    PROVE  OneLivePerPeer'
  <1>1. PICK f \in Fds : fd[f] = Free /\ fd' = [fd EXCEPT ![f] = Head(backlog)]
    BY DEF Accept
  <1>2. /\ backlog # <<>> /\ backlog' = Tail(backlog) /\ link' = link
        /\ backlog \in Seq(Connections)
    BY DEF Accept, OneInv, TypeOK
  <1>3. /\ Len(backlog) \in Nat /\ Len(backlog) >= 1
        /\ Head(backlog) = backlog[1]
        /\ Len(backlog') = Len(backlog) - 1
        /\ \A i \in 1 .. Len(backlog') : backlog'[i] = backlog[i + 1]
    BY <1>2, HeadTailProperties, EmptySeq, LenProperties
  <1>4. \A g \in Fds : fd'[g] = IF g = f THEN backlog[1] ELSE fd[g]
    BY <1>1, <1>3 DEF OneInv, TypeOK
  <1> SUFFICES ASSUME NEW p \in Peers
               PROVE  /\ \A x, y \in Places(p)' : x = y
                      /\ ~link'[p] => Places(p)' = {}
    BY DEF OneLivePerPeer
  <1>5. \A x, y \in Places(p) : x = y
    BY DEF OneInv, OneLivePerPeer
  <1>6. 1 \in 1 .. Len(backlog)
    BY <1>3
  <1>7. ASSUME NEW x \in Places(p)'
        PROVE  \/ x = <<"fd", f>> /\ <<"backlog", 1>> \in Places(p)
               \/ /\ x # <<"fd", f>>
                  /\ \E g \in Fds : x = <<"fd", g>> /\ x \in Places(p)
               \/ \E i \in 1 .. Len(backlog') :
                     x = <<"backlog", i>> /\ <<"backlog", i + 1>> \in Places(p)
    <2>1. CASE \E g \in Fds : x = <<"fd", g>> /\ fd'[g] = Live(p)
      BY <1>4, <1>6, <2>1 DEF Places
    <2>2. CASE \E i \in 1 .. Len(backlog') : x = <<"backlog", i>> /\ backlog'[i] = Live(p)
      <3>1. PICK i \in 1 .. Len(backlog') : x = <<"backlog", i>> /\ backlog'[i] = Live(p)
        BY <2>2
      <3>2. i + 1 \in 1 .. Len(backlog) /\ backlog[i + 1] = Live(p)
        BY <1>3, <3>1
      <3> QED
        BY <3>1, <3>2 DEF Places
    <2> QED
      BY <2>1, <2>2 DEF Places, Live
  <1>8. ASSUME NEW x \in Places(p)', NEW y \in Places(p)' PROVE x = y
    <2> DEFINE Was(z) == IF z = <<"fd", f>> THEN <<"backlog", 1>>
                         ELSE IF z[1] = "fd" THEN z ELSE <<"backlog", z[2] + 1>>
    <2>1. ASSUME NEW z \in Places(p)'
          PROVE  /\ Was(z) \in Places(p)
                 /\ \/ z = <<"fd", f>>
                    \/ z # <<"fd", f>> /\ \E g \in Fds : z = <<"fd", g>>
                    \/ \E i \in 1 .. Len(backlog') : z = <<"backlog", i>>
      <3>1. CASE z = <<"fd", f>> /\ <<"backlog", 1>> \in Places(p)
        BY <3>1
      <3>2. CASE z # <<"fd", f>> /\ \E g \in Fds : z = <<"fd", g>> /\ z \in Places(p)
        BY <3>2
      <3>3. CASE \E i \in 1 .. Len(backlog') :
                   z = <<"backlog", i>> /\ <<"backlog", i + 1>> \in Places(p)
        <4>1. PICK i \in 1 .. Len(backlog') :
                z = <<"backlog", i>> /\ <<"backlog", i + 1>> \in Places(p)
          BY <3>3
        <4>2. z # <<"fd", f>> /\ z[1] # "fd" /\ z[2] = i
          BY <4>1
        <4> QED
          BY <4>1, <4>2
      <3> QED
        BY <3>1, <3>2, <3>3, <1>7
    <2>2. Was(x) = Was(y)
      BY <1>5, <2>1
    <2>3. \A i \in 1 .. Len(backlog') : i \in Int /\ i + 1 # 1
      BY <1>3
    <2> QED
      BY <2>1, <2>2, <2>3
  <1>9. ASSUME ~link'[p] PROVE Places(p)' = {}
    BY <1>2, <1>7, <1>9 DEF OneInv, OneLivePerPeer
  <1> QED
    BY <1>8, <1>9

\* A peer connects only when it has no socket, and then none of its old
\* connections lives.
LEMMA ConnectOne ==
    ASSUME OneInv, NEW q \in Peers, Connect(q)
    PROVE  OneLivePerPeer'
  <1>1. /\ backlog' = Append(backlog, Live(q)) /\ ~link[q] /\ fd' = fd
        /\ link' = [link EXCEPT ![q] = TRUE] /\ backlog \in Seq(Connections)
    BY DEF Connect, OneInv, TypeOK
  <1>2. /\ Len(backlog) \in Nat
        /\ Len(backlog') = Len(backlog) + 1
        /\ backlog'[Len(backlog) + 1] = Live(q)
        /\ \A i \in 1 .. Len(backlog) : backlog'[i] = backlog[i]
    BY <1>1, LenProperties
  <1>3. ASSUME NEW p \in Peers
        PROVE  Places(p)' \subseteq
                 Places(p) \cup (IF p = q THEN {<<"backlog", Len(backlog) + 1>>} ELSE {})
    <2>1. \A i \in 1 .. Len(backlog') : i \in 1 .. Len(backlog) \/ i = Len(backlog) + 1
      BY <1>2
    <2> QED
      BY <1>1, <1>2, <2>1, Kinds DEF Places
  <1> SUFFICES ASSUME NEW p \in Peers
               PROVE  /\ \A x, y \in Places(p)' : x = y
                      /\ ~link'[p] => Places(p)' = {}
    BY DEF OneLivePerPeer
  <1>4. CASE p = q
    <2>1. Places(p) = {} /\ link'[p]
      BY <1>1, <1>4 DEF OneInv, OneLivePerPeer, TypeOK
    <2> QED
      BY <1>3, <1>4, <2>1
  <1>5. CASE p # q
    <2>1. Places(p)' \subseteq Places(p) /\ link'[p] = link[p]
      BY <1>1, <1>3, <1>5 DEF OneInv, TypeOK
    <2> QED
      BY <2>1 DEF OneInv, OneLivePerPeer
  <1> QED
    BY <1>4, <1>5

LEMMA StepOne == Inv /\ OneInv /\ [Next]_vars => OneInv'
  <1> SUFFICES ASSUME Inv, OneInv, [Next]_vars PROVE OneLivePerPeer'
    BY StepType DEF OneInv
  <1> USE DEF OneInv
  <1>0. link' \in [Peers -> BOOLEAN]
    BY StepType DEF TypeOK
  <1>1. CASE UNCHANGED <<link, server>>
    BY <1>0, <1>1, FewerPlaces DEF Places, server
  <1>2. CASE GuardTcp \/ GuardWs \/ TcpStart \/ WsNotStarted \/ DbStops \/ DbStarts
    BY <1>1, <1>2 DEF GuardTcp, GuardWs, TcpStart, WsNotStarted, DbStops, DbStarts
  <1>3. CASE Accept
    BY <1>3, AcceptOne
  <1>4. ASSUME NEW f \in Fds, RecvEnd(f) PROVE OneLivePerPeer'
    <2>1. /\ \A p \in Peers, g \in Fds : fd'[g] = Live(p) => fd[g] = Live(p)
          /\ UNCHANGED <<link, backlog>>
      BY <1>4, Kinds DEF RecvEnd, TypeOK
    <2>2. \A p \in Peers : Places(p)' \subseteq Places(p)
      BY <2>1 DEF Places
    <2> QED
      BY <1>0, <2>1, <2>2, FewerPlaces
  <1>5. ASSUME NEW p \in Peers, Connect(p) PROVE OneLivePerPeer'
    BY <1>5, ConnectOne
  <1>6. ASSUME NEW p \in Peers, Notices(p) PROVE OneLivePerPeer'
    <2>1. UNCHANGED server /\ ~Linked(p) /\ link' = [link EXCEPT ![p] = FALSE]
      BY <1>6 DEF Notices
    <2>2. Places(p) = {}
      BY <2>1 DEF Linked, Places
    <2>3. \A q \in Peers : Places(q)' = Places(q)
      BY <2>1 DEF Places, server
    <2>4. \A q \in Peers : q # p => link'[q] = link[q]
      BY <2>1 DEF TypeOK
    <2> QED
      BY <1>0, <2>2, <2>3, <2>4, FewerPlaces
  <1>7. CASE WsEnds
    <2>1. "ws" \in Peers /\ Hangup("ws") /\ link' = [link EXCEPT !["ws"] = FALSE]
      BY <1>7 DEF Peers, WsEnds
    <2>2. Places("ws")' = {} /\ \A q \in Peers : Places(q)' \subseteq Places(q)
      BY <2>1, HangupPlaces
    <2>3. \A q \in Peers : q # "ws" => link'[q] = link[q]
      BY <2>1 DEF TypeOK
    <2> QED
      BY <1>0, <2>2, <2>3, FewerPlaces
  <1>8. CASE WsStart \/ WsDies
    BY <1>1, <1>7, <1>8 DEF WsStart, WsDies
  <1>9. CASE TcpDies
    <2>1. fd' = [f \in Fds |-> Free] /\ backlog' = <<>>
      BY <1>9 DEF TcpDies, NoConnections
    <2>2. \A p \in Peers : Places(p)' = {}
      BY <2>1, Kinds DEF Places
    <2> QED
      BY <1>0, <2>2, FewerPlaces
  <1>10. CASE DeviceBreaks
    <2>1. "device" \in Peers /\ Hangup("device") /\ link' = link
      BY <1>10 DEF Peers, DeviceBreaks
    <2> QED
      BY <1>0, <2>1, HangupPlaces, FewerPlaces
  <1> QED
    BY <1>1, <1>2, <1>3, <1>4, <1>5, <1>6, <1>8, <1>9, <1>10 DEF Next, vars

LEMMA InitOne == Init => OneInv
  <1> SUFFICES ASSUME Init PROVE OneLivePerPeer
    BY InitInv DEF Inv, OneInv
  <1>1. \A p \in Peers : Places(p) = {}
    BY Kinds DEF Init, Places
  <1> QED
    BY <1>1 DEF OneLivePerPeer

\* However often the processes die and the links break: the TCP server has at
\* most one live connection of each peer, and none of a peer without a socket.
THEOREM OneLive == Spec => []OneLivePerPeer
  <1>1. Inv /\ OneInv /\ [Next]_vars => Inv' /\ OneInv'
    BY NextInv, StepOne
  <1>2. OneInv => OneLivePerPeer
    BY DEF OneInv
  <1> QED
    BY InitInv, InitOne, <1>1, <1>2, PTL DEF Spec
=============================================================================
