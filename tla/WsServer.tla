------------------------------ MODULE WsServer ------------------------------
(***************************************************************************)
(* WS_SERVER: the process that browsers reach over WebSocket.  Two threads *)
(* share connect_id without a lock: the asio thread runs OnOpen, OnClose   *)
(* and OnMessage; the thread recvInfo_from_TcpServer takes the frames that *)
(* the TCP server relays and sends each to the connection its id names.    *)
(* The ids reach the TCP server through table user_info of the database,   *)
(* which outlives the process.                                             *)
(*                                                                         *)
(* The link between the servers is a FIFO of whole frames in each          *)
(* direction that does not break while the process lives.  Both servers    *)
(* write to it with a blocking send: the one whose frame does not fit into *)
(* the buffer waits in send, and its other handlers wait with it.          *)
(***************************************************************************)
EXTENDS Naturals, Sequences, FiniteSets

CONSTANTS
    Users,        \* rows of table user_info
    Conns,        \* websocket connections, each opened at most once
    PageUser,     \* PageUser[c]: the user whose page opened connection c
    PageKind,     \* PageKind[c]: what the page shows on it, camera or console
    MAX_WSCON,    \* bound of the connection ids
    DbMayFail,    \* whether an UPDATE may fail (its result is ignored)
    Absent,       \* connect_id has no entry for the id
    EmptyHdl,     \* the null connection_hdl that operator[] inserts
    MaxRestarts,  \* bound: restarts of the process
    MaxQueue      \* bound: frames, and commands, that the link buffers

Kinds == {"photo", "txt"}

\* 0 is the value of a row that no page has linked yet.
WsIds == 0 .. (MAX_WSCON - 1)

Frames == [kind : Kinds, ws_id : WsIds, user : Users]
NoFrame == <<>>

ASSUME SizesAssumption ==
    /\ MAX_WSCON \in Nat \ {0}
    /\ MaxRestarts \in Nat
    /\ MaxQueue \in Nat \ {0}
    /\ DbMayFail \in BOOLEAN

ASSUME PagesAssumption ==
    /\ IsFiniteSet(Conns)
    /\ PageUser \in [Conns -> Users]
    /\ PageKind \in [Conns -> Kinds]

ASSUME MarkersAssumption ==
    /\ Absent \notin Conns
    /\ EmptyHdl \notin Conns
    /\ Absent # EmptyHdl

VARIABLES
    up,          \* the process runs
    st,          \* st[c]: "idle", "open", "closing" (no longer open, OnClose
                 \* still to run) or "gone"
    connect_id,  \* id -> connection, Absent or EmptyHdl
    loc_id,      \* next id
    OffLine_id,  \* ids saved by OnClose
    row,         \* row[u]: the ws columns of user_info
    inflight,    \* frames on their way from the TCP server
    uplink,      \* commands on their way to the TCP server
    rpc,         \* where the receiving thread is
    cur,         \* the frame it handles
    ws_hdl,      \* the handle it has looked up
    got,         \* got[c]: <<user, kind>> of the frames written to c
    restarts

registry == <<connect_id, loc_id, OffLine_id>>
thread == <<rpc, cur, ws_hdl>>
vars == <<up, st, registry, row, inflight, uplink, thread, got, restarts>>

TypeOK ==
    /\ up \in BOOLEAN
    /\ st \in [Conns -> {"idle", "open", "closing", "gone"}]
    /\ connect_id \in [WsIds -> Conns \cup {Absent, EmptyHdl}]
    /\ loc_id \in 1 .. MAX_WSCON
    /\ OffLine_id \subseteq WsIds
    /\ row \in [Users -> [ws_photo : WsIds, ws_txt : WsIds, ws_status : BOOLEAN]]
    /\ inflight \in Seq(Frames)
    /\ uplink \in Seq([con : {8}, user : Users])
    /\ rpc \in {"head", "count", "lookup", "send"}
    /\ cur \in Frames \cup {NoFrame}
    /\ rpc # "head" => cur \in Frames
    /\ ws_hdl \in Conns \cup {EmptyHdl}
    /\ got \in [Conns -> SUBSET (Users \X Kinds)]
    /\ restarts \in 0 .. MaxRestarts

Init ==
    /\ up = TRUE
    /\ st = [c \in Conns |-> "idle"]
    /\ connect_id = [i \in WsIds |-> Absent]
    /\ loc_id = 1
    /\ OffLine_id = {}
    /\ row = [u \in Users |-> [ws_photo |-> 0, ws_txt |-> 0, ws_status |-> FALSE]]
    /\ inflight = <<>>
    /\ uplink = <<>>
    /\ rpc = "head"
    /\ cur = NoFrame
    /\ ws_hdl = EmptyHdl
    /\ got = [c \in Conns |-> {}]
    /\ restarts = 0

-----------------------------------------------------------------------------
(* Helpers *)

IdsOf(c) == {i \in WsIds : connect_id[i] = c}

\* Mutant: the comparison of the handles is lost, the first entry matches.
GetWsIdFirstEntry(c) ==
    LET used == {i \in WsIds : connect_id[i] # Absent}
    IN IF used = {} THEN WsIds ELSE {i \in used : \A j \in used : i <= j}

\* The values GetWsId may return: the first id that holds the connection, in
\* the order of the map, and any value at all when the search falls off the
\* end of the function.
GetWsId(c) ==
    IF IdsOf(c) = {}
      THEN WsIds
      ELSE {i \in IdsOf(c) : \A j \in IdsOf(c) : i <= j}

\* std::map::insert leaves an existing entry alone.
Insert(i, h) ==
    IF connect_id[i] = Absent THEN [connect_id EXCEPT ![i] = h] ELSE connect_id

\* Mutant: the second half of the WHERE clause is lost.
MarkedOfflinePhotoOnly(id) ==
    [u \in Users |->
        IF id = row[u].ws_photo THEN [row[u] EXCEPT !.ws_status = FALSE] ELSE row[u]]

\* The rows after the UPDATE that OnClose issues.
MarkedOffline(id) ==
    [u \in Users |->
        IF id \in {row[u].ws_txt, row[u].ws_photo}
          THEN [row[u] EXCEPT !.ws_status = FALSE]
          ELSE row[u]]

\* The row of user u after the UPDATE that a link message issues.
Linked(u, kind, id) ==
    IF kind = "photo"
      THEN [row[u] EXCEPT !.ws_photo = id, !.ws_status = TRUE]
      ELSE [row[u] EXCEPT !.ws_txt = id, !.ws_status = TRUE]

\* exeSQL reports a failure that neither handler looks at.
Update(newRow) ==
    \/ row' = newRow
    \/ DbMayFail /\ row' = row

\* The last frame of a queue that is longer than the buffer is still in the
\* hands of its sender: the asio thread, or the TCP server's loop.
AsioBlocked == Len(uplink) > MaxQueue
TcpBlocked == Len(inflight) > MaxQueue

-----------------------------------------------------------------------------
(* The asio thread *)

\* Mutant: the counter advances in both branches.
OnOpenCountsAll(c) ==
    /\ up
    /\ ~AsioBlocked
    /\ st[c] = "idle"
    /\ st' = [st EXCEPT ![c] = "open"]
    /\ connect_id' = IF loc_id < MAX_WSCON THEN Insert(loc_id, c) ELSE connect_id
    /\ loc_id' = loc_id + 1
    /\ UNCHANGED <<up, OffLine_id, row, inflight, uplink, thread, got, restarts>>

\* Mutant: closed ids are used again, as the comment in the else branch plans.
OnOpenReusing(c) ==
    /\ up
    /\ ~AsioBlocked
    /\ st[c] = "idle"
    /\ st' = [st EXCEPT ![c] = "open"]
    /\ IF OffLine_id = {}
         THEN /\ connect_id' = Insert(loc_id, c)
              /\ loc_id' = loc_id + 1
              /\ UNCHANGED OffLine_id
         ELSE \E i \in OffLine_id :
              /\ connect_id' = [connect_id EXCEPT ![i] = c]
              /\ OffLine_id' = OffLine_id \ {i}
              /\ UNCHANGED loc_id
    /\ UNCHANGED <<up, row, inflight, uplink, thread, got, restarts>>

OnOpen(c) ==
    /\ up
    /\ ~AsioBlocked
    /\ st[c] = "idle"
    /\ st' = [st EXCEPT ![c] = "open"]
    /\ IF loc_id < MAX_WSCON
         THEN /\ connect_id' = Insert(loc_id, c)
              /\ loc_id' = loc_id + 1
         ELSE UNCHANGED <<connect_id, loc_id>>
    /\ UNCHANGED <<up, OffLine_id, row, inflight, uplink, thread, got, restarts>>

\* The browser leaves or the network drops it; websocketpp closes the
\* connection before it calls the close handler.
Lose(c) ==
    /\ up
    /\ ~AsioBlocked
    /\ st[c] = "open"
    /\ st' = [st EXCEPT ![c] = "closing"]
    /\ UNCHANGED <<up, registry, row, inflight, uplink, thread, got, restarts>>

\* Mutant: the entry of the closed connection stays.
OnCloseKeepsEntry(c) ==
    /\ up
    /\ ~AsioBlocked
    /\ st[c] = "closing"
    /\ \E ws_id \in GetWsId(c) :
          Update(MarkedOffline(ws_id)) /\ OffLine_id' = OffLine_id \cup {ws_id}
    /\ st' = [st EXCEPT ![c] = "gone"]
    /\ UNCHANGED <<up, connect_id, loc_id, inflight, uplink, thread, got, restarts>>

\* Mutant: closing gives the newest id back to the counter.
OnCloseGivesBack(c) ==
    /\ up
    /\ ~AsioBlocked
    /\ st[c] = "closing"
    /\ \E ws_id \in GetWsId(c) :
          /\ Update(MarkedOffline(ws_id))
          /\ OffLine_id' = OffLine_id \cup {ws_id}
          /\ connect_id' = [connect_id EXCEPT ![ws_id] = Absent]
    /\ loc_id' = IF loc_id > 1 THEN loc_id - 1 ELSE 1
    /\ st' = [st EXCEPT ![c] = "gone"]
    /\ UNCHANGED <<up, inflight, uplink, thread, got, restarts>>

\* Mutant: the entry is erased before the UPDATE asks for its id.
OnCloseEraseFirst(c) ==
    /\ up
    /\ ~AsioBlocked
    /\ st[c] = "closing"
    /\ \E off_id \in GetWsId(c), ws_id \in WsIds :
          /\ Update(MarkedOffline(ws_id))
          /\ OffLine_id' = OffLine_id \cup {off_id}
          /\ connect_id' = [connect_id EXCEPT ![off_id] = Absent]
    /\ st' = [st EXCEPT ![c] = "gone"]
    /\ UNCHANGED <<up, loc_id, inflight, uplink, thread, got, restarts>>

OnClose(c) ==
    /\ up
    /\ ~AsioBlocked
    /\ st[c] = "closing"
    /\ \E ws_id \in GetWsId(c) : Update(MarkedOffline(ws_id))
    /\ \E off_id \in GetWsId(c) :
          /\ OffLine_id' = OffLine_id \cup {off_id}
          /\ connect_id' = [connect_id EXCEPT ![off_id] = Absent]
    /\ st' = [st EXCEPT ![c] = "gone"]
    /\ UNCHANGED <<up, loc_id, inflight, uplink, thread, got, restarts>>

\* link_photo and link_txt: a page links its camera or its console.
OnLink(c) ==
    /\ up
    /\ ~AsioBlocked
    /\ st[c] = "open"
    /\ \E id \in GetWsId(c) :
          Update([row EXCEPT ![PageUser[c]] = Linked(PageUser[c], PageKind[c], id)])
    /\ UNCHANGED <<up, st, registry, inflight, uplink, thread, got, restarts>>

\* Every other message is passed to the TCP server for connection 8.
OnCommand(c) ==
    /\ up
    /\ ~AsioBlocked
    /\ st[c] = "open"
    /\ PageKind[c] = "txt"
    /\ uplink' = Append(uplink, [con |-> 8, user |-> PageUser[c]])
    /\ UNCHANGED <<up, st, registry, row, inflight, thread, got, restarts>>

-----------------------------------------------------------------------------
(* The receiving thread *)

Idle ==
    /\ rpc' = "head"
    /\ cur' = NoFrame
    /\ ws_hdl' = EmptyHdl

\* The process is gone: its sockets close and its memory is lost, no close
\* handler runs, and the rows stay as they are.
Die ==
    /\ up' = FALSE
    /\ st' = [c \in Conns |-> IF st[c] = "idle" THEN "idle" ELSE "gone"]
    /\ connect_id' = [i \in WsIds |-> Absent]
    /\ loc_id' = 1
    /\ OffLine_id' = {}
    /\ inflight' = <<>>
    /\ uplink' = <<>>
    /\ Idle
    /\ UNCHANGED <<row, got, restarts>>

\* Mutant: the frames are received on the asio thread.
RecvFrameOnAsio ==
    /\ up
    /\ ~AsioBlocked
    /\ rpc = "head"
    /\ inflight # <<>>
    /\ cur' = Head(inflight)
    /\ inflight' = Tail(inflight)
    /\ rpc' = "count"
    /\ UNCHANGED <<up, st, registry, row, uplink, ws_hdl, got, restarts>>

RecvFrame ==
    /\ up
    /\ rpc = "head"
    /\ inflight # <<>>
    /\ cur' = Head(inflight)
    /\ inflight' = Tail(inflight)
    /\ rpc' = "count"
    /\ UNCHANGED <<up, st, registry, row, uplink, ws_hdl, got, restarts>>

\* connect_id.count(ws_id)
Count ==
    /\ up
    /\ rpc = "count"
    /\ IF connect_id[cur.ws_id] # Absent
         THEN rpc' = "lookup" /\ UNCHANGED <<cur, ws_hdl>>
         ELSE Idle
    /\ UNCHANGED <<up, st, registry, row, inflight, uplink, got, restarts>>

\* ws_hdl = connect_id[ws_id]: inserts a null handle when the entry has gone.
Lookup ==
    /\ up
    /\ rpc = "lookup"
    /\ connect_id' = Insert(cur.ws_id, EmptyHdl)
    /\ ws_hdl' = connect_id'[cur.ws_id]
    /\ rpc' = "send"
    /\ UNCHANGED <<up, st, loc_id, OffLine_id, row, inflight, uplink, cur, got, restarts>>

CanSend == ws_hdl \in Conns /\ st[ws_hdl] = "open"

Send ==
    /\ up
    /\ rpc = "send"
    /\ CanSend
    /\ got' = [got EXCEPT ![ws_hdl] = @ \cup {<<cur.user, cur.kind>>}]
    /\ Idle
    /\ UNCHANGED <<up, st, registry, row, inflight, uplink, restarts>>

\* send throws on an expired handle and on a connection that is not open;
\* nothing in the thread catches it.
SendThrows ==
    /\ up
    /\ rpc = "send"
    /\ ~CanSend
    /\ Die

\* The thread walks the tree of the map while OnOpen or OnClose rebalances it.
MapRace ==
    /\ up
    /\ ~AsioBlocked
    /\ rpc \in {"count", "lookup"}
    /\ \E c \in Conns : st[c] \in {"idle", "closing"}
    /\ Die

-----------------------------------------------------------------------------
(* The environment: the TCP server and the guard program *)

\* Mutant: the test for a user who is offline is lost.
ForwardToOffline(u, kind) ==
    /\ up
    /\ ~TcpBlocked
    /\ LET id == IF kind = "photo" THEN row[u].ws_photo ELSE row[u].ws_txt
       IN inflight' = Append(inflight, [kind |-> kind, ws_id |-> id, user |-> u])
    /\ UNCHANGED <<up, st, registry, row, uplink, thread, got, restarts>>

\* A frame of user u's device, stamped with the id in the row of a user who
\* is marked online.
Forward(u, kind) ==
    /\ up
    /\ row[u].ws_status
    /\ ~TcpBlocked
    /\ LET id == IF kind = "photo" THEN row[u].ws_photo ELSE row[u].ws_txt
       IN inflight' = Append(inflight, [kind |-> kind, ws_id |-> id, user |-> u])
    /\ UNCHANGED <<up, st, registry, row, uplink, thread, got, restarts>>

\* The TCP server's loop comes to the link and reads a command.
TakeCommand ==
    /\ up
    /\ ~TcpBlocked
    /\ uplink # <<>>
    /\ uplink' = Tail(uplink)
    /\ UNCHANGED <<up, st, registry, row, inflight, thread, got, restarts>>

\* The guard starts the process again; its statics have their initial values.
Restart ==
    /\ ~up
    /\ restarts < MaxRestarts
    /\ up' = TRUE
    /\ restarts' = restarts + 1
    /\ UNCHANGED <<st, registry, row, inflight, uplink, thread, got>>

-----------------------------------------------------------------------------
RecvThread ==
    \/ RecvFrame
    \/ Count
    \/ Lookup
    \/ Send
    \/ SendThrows

Next ==
    \/ \E c \in Conns :
          \/ OnOpen(c)
          \/ Lose(c)
          \/ OnClose(c)
          \/ OnLink(c)
          \/ OnCommand(c)
    \/ RecvThread
    \/ MapRace
    \/ \E u \in Users, kind \in Kinds : Forward(u, kind)
    \/ TakeCommand
    \/ Restart

\* websocketpp calls the close handler of every connection it closes, and asio
\* runs handlers in the order they became ready; the receiving thread is a loop
\* that the system scheduler runs; libev calls the callback of every descriptor
\* that is ready before it polls again.
Fairness ==
    /\ \A c \in Conns : SF_vars(OnClose(c))
    /\ WF_vars(RecvThread)
    /\ SF_vars(TakeCommand)

Spec == Init /\ [][Next]_vars
FairSpec == Spec /\ Fairness
-----------------------------------------------------------------------------
(* Properties *)

\* c exists for the server: its close handler has not run.
Live(c) == st[c] \in {"open", "closing"}

\* Id i is registered for a connection that still exists.
Holds(i) == connect_id[i] \in Conns

\* An id names at most one connection and a connection has at most one id,
\* and an entry never outlives its connection (OnOpen, OnClose, GetWsId).
OneIdPerConnection ==
    /\ \A i, j \in WsIds : Holds(i) /\ connect_id[i] = connect_id[j] => i = j
    /\ \A i \in WsIds : Holds(i) => Live(connect_id[i])

\* Within one life of the process an id that OnClose has saved is never given
\* to another connection, and the id that OnOpen hands out next has no entry,
\* not even one the receiving thread left behind, that would make insert
\* drop the connection.
DeadIdsStayDead ==
    /\ \A i \in OffLine_id : ~Holds(i)
    /\ \A i \in WsIds : i >= loc_id => connect_id[i] = Absent

\* With an id for everybody, a connection can be reached from its OnOpen to
\* its OnClose, whatever the other connections do.
LiveIsRegistered ==
    Cardinality(Conns) < MAX_WSCON => \A c \in Conns : Live(c) => IdsOf(c) # {}

\* Every frame is written to a page of the user whose device sent it, and to
\* the page that shows frames of its kind: an id that was read from a row, put
\* on the wire and looked up later never names somebody else's page.
NoMisdelivery ==
    \A c \in Conns : got[c] \subseteq {<<PageUser[c], PageKind[c]>>}

\* A user who is marked online has a page that the server still knows under an
\* id of the row; so frames of a user who has left are not forwarded.
OnlineHasPage ==
    up => \A u \in Users : row[u].ws_status =>
        \E i \in {row[u].ws_photo, row[u].ws_txt} :
            Holds(i) /\ PageUser[connect_id[i]] = u

\* Within one life, the mark of a user is taken away only by the close handler
\* of one of the user's own pages: the id that OnClose looks up and the UPDATE
\* compares with both columns of every row is never another user's, not even
\* one that a row has kept from an earlier page (OnClose, OnMessage).
OnlyOwnPageMarksOffline ==
    [][\A u \in Users : row[u].ws_status /\ ~row'[u].ws_status =>
          \E c \in Conns : /\ PageUser[c] = u
                           /\ st[c] = "closing"
                           /\ st'[c] = "gone"]_vars

\* Each server writes to the other with a blocking send and without a timeout,
\* and a user's commands go out on the thread that also closes connections.
\* Still the two never wait for each other for ever (OnMessage and
\* ImmediateTranspond against recv_socket_cb_net).
NobodyWaitsForEver ==
    /\ AsioBlocked ~> ~AsioBlocked
    /\ TcpBlocked ~> ~TcpBlocked

\* The frames the relay has accepted and not yet dealt with, without their ids.
Unsettled == IF rpc = "head" THEN inflight ELSE <<cur>> \o inflight
Stripped(s) == [i \in 1 .. Len(s) |-> [kind |-> s[i].kind, user |-> s[i].user]]
Pending == Stripped(Unsettled)

Presence == [c \in Conns |->
    IF st[c] = "open" THEN "here" ELSE IF st[c] = "closing" THEN "leaving" ELSE "away"]

Promise == INSTANCE Routing WITH
    Pages <- Conns, presence <- Presence, pending <- Pending, shown <- got

\* Within one life the ids, the rows, the link and the two threads together
\* are a relay that shows each frame at most once, in order, to a page of its
\* owner that is there, and that takes no frame of a user without a page.
ImplementsRouting == Promise!Spec

\* A user whose pages have all left, while the server keeps running, is marked
\* offline in the end and stays so.
LeftIsMarkedOffline ==
    \A u \in Users :
        <>[](up /\ \A c \in Conns : PageUser[c] = u => st[c] # "open")
            => <>[](~row[u].ws_status)
=============================================================================
