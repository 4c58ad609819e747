--------------------------- MODULE WsServer_proofs ---------------------------
(***************************************************************************)
(* Proofs about WsServer.  RegistryInv is the inductive invariant of every *)
(* life of the process, whatever the number of connections, so it covers   *)
(* the junk that GetWsId returns once the ids have run out.                *)
(***************************************************************************)
EXTENDS WsServer, FiniteSetTheorems, TLAPS

\* A connection without an id exists only once the ids have run out.
UnregisteredOnlyAtMax ==
    \A c \in Conns : Live(c) /\ IdsOf(c) = {} => loc_id = MAX_WSCON

\* An id saved by OnClose has been handed out, or the ids have run out.
OffLineIdsAreUsed == \A i \in OffLine_id : i < loc_id \/ loc_id = MAX_WSCON

\* Once count has found the id of the frame, the id is one that was handed
\* out, so the entry that operator[] may insert is behind the counter.
CountedIdIsUsed == rpc \in {"lookup", "send"} => cur.ws_id < loc_id

RegistryInv ==
    /\ TypeOK
    /\ OneIdPerConnection
    /\ DeadIdsStayDead
    /\ UnregisteredOnlyAtMax
    /\ OffLineIdsAreUsed
    /\ CountedIdIsUsed

-----------------------------------------------------------------------------

\* What GetWsId promises its callers: an id in any case, and the id of the
\* connection when it has one.
LEMMA GetWsIdFindsHolder ==
    ASSUME NEW c \in Conns, NEW i \in GetWsId(c)
    PROVE  i \in WsIds /\ (IdsOf(c) # {} => connect_id[i] = c)
  BY DEF GetWsId, IdsOf

\* Erasing an entry or inserting one keeps connect_id a map of its type.
LEMMA InsertType ==
    ASSUME TypeOK, NEW i \in WsIds, NEW h \in Conns \cup {EmptyHdl}
    PROVE  Insert(i, h) \in [WsIds -> Conns \cup {Absent, EmptyHdl}]
  BY DEF Insert, TypeOK

LEMMA LinkedType ==
    ASSUME TypeOK, NEW u \in Users, NEW kind \in Kinds, NEW id \in WsIds
    PROVE  Linked(u, kind, id) \in
              [ws_photo : WsIds, ws_txt : WsIds, ws_status : BOOLEAN]
  BY DEF Linked, TypeOK

LEMMA MarkedOfflineType ==
    ASSUME TypeOK, NEW id \in WsIds
    PROVE  MarkedOffline(id) \in
              [Users -> [ws_photo : WsIds, ws_txt : WsIds, ws_status : BOOLEAN]]
  BY DEF MarkedOffline, TypeOK

\* Init establishes the invariant.
LEMMA InitRegistry == Init => RegistryInv
  <1> SUFFICES ASSUME Init PROVE RegistryInv
    OBVIOUS
  <1>1. TypeOK
    BY SizesAssumption, PagesAssumption DEF Init, TypeOK, WsIds, NoFrame
  <1>2. \A i \in WsIds : ~Holds(i)
    BY MarkersAssumption DEF Init, Holds
  <1>3. \A c \in Conns : ~Live(c)
    BY DEF Init, Live
  <1> QED
    BY <1>1, <1>2, <1>3 DEF Init, RegistryInv, OneIdPerConnection, DeadIdsStayDead,
       UnregisteredOnlyAtMax, OffLineIdsAreUsed, CountedIdIsUsed

-----------------------------------------------------------------------------
(* Type correctness *)

\* Every action keeps the variables in their types.
LEMMA TypeStep == TypeOK /\ [Next]_vars => TypeOK'
  <1> SUFFICES ASSUME TypeOK, [Next]_vars PROVE TypeOK'
    OBVIOUS
  <1> USE SizesAssumption, PagesAssumption DEF TypeOK
  <1>1. ASSUME NEW c \in Conns, OnOpen(c) PROVE TypeOK'
    <2>1. CASE loc_id < MAX_WSCON
      <3>1. loc_id \in WsIds
        BY <2>1 DEF WsIds
      <3>2. connect_id' \in [WsIds -> Conns \cup {Absent, EmptyHdl}]
        BY <1>1, <2>1, <3>1, InsertType DEF OnOpen
      <3>3. loc_id' \in 1 .. MAX_WSCON
        BY <1>1, <2>1 DEF OnOpen
      <3> QED
        BY <1>1, <3>2, <3>3 DEF OnOpen, thread
    <2>2. CASE ~(loc_id < MAX_WSCON)
      BY <1>1, <2>2 DEF OnOpen, thread
    <2> QED
      BY <2>1, <2>2
  <1>2. ASSUME NEW c \in Conns, Lose(c) PROVE TypeOK'
    BY <1>2 DEF Lose, registry, thread
  <1>3. ASSUME NEW c \in Conns, OnClose(c) PROVE TypeOK'
    <2>1. row' \in [Users -> [ws_photo : WsIds, ws_txt : WsIds, ws_status : BOOLEAN]]
      <3>1. PICK ws_id \in GetWsId(c) : Update(MarkedOffline(ws_id))
        BY <1>3 DEF OnClose
      <3>2. ws_id \in WsIds
        BY GetWsIdFindsHolder
      <3>3. MarkedOffline(ws_id) \in
               [Users -> [ws_photo : WsIds, ws_txt : WsIds, ws_status : BOOLEAN]]
        BY <3>2, MarkedOfflineType
      <3> QED
        BY <3>1, <3>3 DEF Update
    <2>2. /\ OffLine_id' \subseteq WsIds
          /\ connect_id' \in [WsIds -> Conns \cup {Absent, EmptyHdl}]
      BY <1>3, GetWsIdFindsHolder DEF OnClose
    <2> QED
      BY <1>3, <2>1, <2>2 DEF OnClose, thread
  <1>4. ASSUME NEW c \in Conns, OnLink(c) PROVE TypeOK'
    <2>1. PageUser[c] \in Users /\ PageKind[c] \in Kinds
      OBVIOUS
    <2>2. row' \in [Users -> [ws_photo : WsIds, ws_txt : WsIds, ws_status : BOOLEAN]]
      <3>1. PICK id \in GetWsId(c) :
               Update([row EXCEPT ![PageUser[c]] = Linked(PageUser[c], PageKind[c], id)])
        BY <1>4 DEF OnLink
      <3>2. id \in WsIds
        BY GetWsIdFindsHolder
      <3>3. Linked(PageUser[c], PageKind[c], id) \in
               [ws_photo : WsIds, ws_txt : WsIds, ws_status : BOOLEAN]
        BY <2>1, <3>2, LinkedType
      <3> QED
        BY <2>1, <3>1, <3>3 DEF Update
    <2> QED
      BY <1>4, <2>2 DEF OnLink, registry, thread
  <1>5. ASSUME NEW c \in Conns, OnCommand(c) PROVE TypeOK'
    BY <1>5 DEF OnCommand, registry, thread
  <1>6. ASSUME RecvFrame PROVE TypeOK'
    <2>1. Head(inflight) \in Frames /\ Tail(inflight) \in Seq(Frames)
      BY <1>6 DEF RecvFrame
    <2> QED
      BY <1>6, <2>1 DEF RecvFrame, registry
  <1>7. ASSUME Count PROVE TypeOK'
    BY <1>7 DEF Count, registry, Idle, NoFrame
  <1>8. ASSUME Lookup PROVE TypeOK'
    <2>1. cur.ws_id \in WsIds
      BY <1>8 DEF Lookup, Frames
    <2>2. connect_id' \in [WsIds -> Conns \cup {Absent, EmptyHdl}]
      BY <1>8, <2>1, InsertType DEF Lookup
    <2>3. ws_hdl' \in Conns \cup {EmptyHdl}
      BY <1>8, <2>1, MarkersAssumption DEF Lookup, Insert
    <2> QED
      BY <1>8, <2>2, <2>3 DEF Lookup
  <1>9. ASSUME Send PROVE TypeOK'
    <2>1. cur.user \in Users /\ cur.kind \in Kinds
      BY <1>9 DEF Send, Frames
    <2> QED
      BY <1>9, <2>1 DEF Send, CanSend, registry, Idle, NoFrame
  <1>10. ASSUME Die PROVE TypeOK'
    <2>1. /\ st' \in [Conns -> {"idle", "open", "closing", "gone"}]
          /\ connect_id' \in [WsIds -> Conns \cup {Absent, EmptyHdl}]
      BY <1>10 DEF Die
    <2>2. inflight' \in Seq(Frames) /\ uplink' \in Seq([con : {8}, user : Users])
      BY <1>10 DEF Die
    <2>3. /\ rpc' = "head"
          /\ cur' \in Frames \cup {NoFrame}
          /\ ws_hdl' \in Conns \cup {EmptyHdl}
      BY <1>10 DEF Die, Idle
    <2>4. loc_id' \in 1 .. MAX_WSCON
      BY <1>10 DEF Die
    <2>5. OffLine_id' \subseteq WsIds
      BY <1>10 DEF Die
    <2>6. up' \in BOOLEAN /\ row' = row /\ got' = got /\ restarts' = restarts
      BY <1>10 DEF Die
    <2> QED
      BY <2>1, <2>2, <2>3, <2>4, <2>5, <2>6
  <1>11. ASSUME NEW u \in Users, NEW kind \in Kinds, Forward(u, kind) PROVE TypeOK'
    <2> DEFINE id == IF kind = "photo" THEN row[u].ws_photo ELSE row[u].ws_txt
    <2>1. [kind |-> kind, ws_id |-> id, user |-> u] \in Frames
      BY DEF Frames
    <2>2. inflight' \in Seq(Frames)
      BY <1>11, <2>1 DEF Forward
    <2> QED
      BY <1>11, <2>2 DEF Forward, registry, thread
  <1>12. ASSUME TakeCommand PROVE TypeOK'
    BY <1>12 DEF TakeCommand, registry, thread
  <1>13. ASSUME Restart PROVE TypeOK'
    BY <1>13 DEF Restart, registry, thread
  <1>14. CASE UNCHANGED vars
    BY <1>14 DEF vars, registry, thread
  <1> QED
    BY <1>1, <1>2, <1>3, <1>4, <1>5, <1>6, <1>7, <1>8, <1>9, <1>10, <1>11, <1>12,
       <1>13, <1>14 DEF Next, RecvThread, SendThrows, MapRace

\* The variables keep their types in every behaviour.
THEOREM TypeCorrect == Spec => []TypeOK
  <1>1. Init => TypeOK
    BY InitRegistry DEF RegistryInv
  <1> QED
    BY <1>1, TypeStep, PTL DEF Spec

-----------------------------------------------------------------------------
(* The registry *)

\* A step that leaves the registry and the connections alone, and does not
\* look up an id, keeps the invariant.
LEMMA RegistryFrame ==
    ASSUME RegistryInv, TypeOK', UNCHANGED <<st, connect_id, loc_id, OffLine_id>>,
           rpc' \in {"lookup", "send"} => rpc \in {"lookup", "send"} /\ cur' = cur
    PROVE  RegistryInv'
  BY DEF RegistryInv, OneIdPerConnection, DeadIdsStayDead, UnregisteredOnlyAtMax,
         OffLineIdsAreUsed, CountedIdIsUsed, Holds, Live, IdsOf

\* A new connection gets an id that nothing holds.
LEMMA OnOpenRegistry ==
    ASSUME RegistryInv, TypeOK', NEW c \in Conns, OnOpen(c)
    PROVE  RegistryInv'
  <1> USE DEF RegistryInv, TypeOK
  <1>1. \A i \in WsIds : connect_id[i] # c
    BY DEF OnOpen, OneIdPerConnection, Holds, Live
  <1>2. CASE loc_id < MAX_WSCON
    <2>1. /\ loc_id \in WsIds
          /\ connect_id[loc_id] = Absent
      BY <1>2, SizesAssumption DEF WsIds, DeadIdsStayDead
    <2>2. /\ connect_id' = [connect_id EXCEPT ![loc_id] = c]
          /\ loc_id' = loc_id + 1
      BY <1>2, <2>1 DEF OnOpen, Insert
    <2>3. OneIdPerConnection'
      BY <1>1, <2>1, <2>2 DEF OnOpen, OneIdPerConnection, Holds, Live
    <2>4. DeadIdsStayDead'
      <3>1. \A i \in OffLine_id : i # loc_id
        BY <1>2, SizesAssumption DEF OffLineIdsAreUsed, WsIds
      <3>2. \A i \in WsIds : i >= loc_id + 1 => i >= loc_id /\ i # loc_id
        BY SizesAssumption DEF WsIds
      <3> QED
        BY <2>1, <2>2, <3>1, <3>2 DEF OnOpen, DeadIdsStayDead, Holds
    <2>5. UnregisteredOnlyAtMax'
      <3> SUFFICES ASSUME NEW d \in Conns, Live(d)', IdsOf(d)' = {} PROVE FALSE
        BY DEF UnregisteredOnlyAtMax
      <3>1. Live(d) /\ IdsOf(d) = {}
        BY <2>1, <2>2, MarkersAssumption DEF OnOpen, Live, IdsOf
      <3>2. loc_id = MAX_WSCON
        BY <3>1 DEF UnregisteredOnlyAtMax
      <3> QED
        BY <1>2, <3>2, SizesAssumption
    <2>6. OffLineIdsAreUsed' /\ CountedIdIsUsed'
      <3>1. \A i \in WsIds : i < loc_id => i < loc_id + 1
        BY SizesAssumption DEF WsIds
      <3>2. OffLineIdsAreUsed'
        BY <1>2, <2>2, <3>1, SizesAssumption DEF OnOpen, OffLineIdsAreUsed
      <3>3. rpc \in {"lookup", "send"} => cur.ws_id \in WsIds
        BY DEF Frames
      <3> QED
        BY <2>2, <3>1, <3>2, <3>3 DEF OnOpen, thread, CountedIdIsUsed
    <2> QED
      BY <2>3, <2>4, <2>5, <2>6
  <1>3. CASE ~(loc_id < MAX_WSCON)
    <2>1. loc_id = MAX_WSCON /\ UNCHANGED <<connect_id, loc_id, OffLine_id, rpc, cur>>
      BY <1>3, SizesAssumption DEF OnOpen, thread
    <2>2. OneIdPerConnection'
      BY <1>1, <2>1 DEF OnOpen, OneIdPerConnection, Holds, Live
    <2> QED
      BY <2>1, <2>2 DEF DeadIdsStayDead, UnregisteredOnlyAtMax, OffLineIdsAreUsed,
         CountedIdIsUsed, Holds
  <1> QED
    BY <1>2, <1>3

\* A connection on its way out stays registered until its handler runs.
LEMMA LoseRegistry ==
    ASSUME RegistryInv, TypeOK', NEW c \in Conns, Lose(c)
    PROVE  RegistryInv'
  <1>1. /\ UNCHANGED <<connect_id, loc_id, OffLine_id, rpc, cur>>
        /\ \A d \in Conns : Live(d)' <=> Live(d)
    BY DEF RegistryInv, TypeOK, Lose, registry, thread, Live
  <1> QED
    BY <1>1 DEF RegistryInv, OneIdPerConnection, DeadIdsStayDead,
       UnregisteredOnlyAtMax, OffLineIdsAreUsed, CountedIdIsUsed, Holds, IdsOf, TypeOK

\* The close handler removes what the connection holds; when it holds nothing
\* it removes some entry, but then the ids have run out.
LEMMA OnCloseRegistry ==
    ASSUME RegistryInv, TypeOK', NEW c \in Conns, OnClose(c)
    PROVE  RegistryInv'
  <1> USE DEF RegistryInv, TypeOK
  <1>1. PICK off_id \in GetWsId(c) :
           /\ OffLine_id' = OffLine_id \cup {off_id}
           /\ connect_id' = [connect_id EXCEPT ![off_id] = Absent]
    BY DEF OnClose
  <1>2. off_id \in WsIds /\ (IdsOf(c) # {} => connect_id[off_id] = c)
    BY GetWsIdFindsHolder
  <1>3. /\ st' = [st EXCEPT ![c] = "gone"]
        /\ Live(c)
        /\ UNCHANGED <<loc_id, rpc, cur>>
    BY DEF OnClose, Live, thread
  <1>4. IdsOf(c) = {} => loc_id = MAX_WSCON
    BY <1>3 DEF UnregisteredOnlyAtMax
  <1>5. \A i \in WsIds : connect_id'[i] # c
    BY <1>1, <1>2, MarkersAssumption DEF IdsOf, OneIdPerConnection, Holds
  <1>6. \A i \in WsIds : connect_id'[i] # Absent =>
           i # off_id /\ connect_id'[i] = connect_id[i]
    BY <1>1, <1>2
  <1>7. OneIdPerConnection'
    <2>1. \A d \in Conns : d # c => (Live(d)' <=> Live(d))
      BY <1>3 DEF Live
    <2> QED
      BY <1>5, <1>6, <2>1, MarkersAssumption DEF OneIdPerConnection, Holds
  <1>8. DeadIdsStayDead'
    BY <1>1, <1>2, <1>3, <1>6, MarkersAssumption DEF DeadIdsStayDead, Holds
  <1>9. UnregisteredOnlyAtMax'
    <2> SUFFICES ASSUME NEW d \in Conns, Live(d)', IdsOf(d)' = {}
                 PROVE  loc_id = MAX_WSCON
      BY <1>3 DEF UnregisteredOnlyAtMax
    <2>1. d # c /\ Live(d)
      BY <1>3 DEF Live
    <2>2. CASE IdsOf(c) = {}
      BY <1>4, <2>2
    <2>3. CASE IdsOf(c) # {}
      <3>1. connect_id[off_id] = c
        BY <1>2, <2>3
      <3>2. IdsOf(d) = {}
        BY <1>1, <1>2, <2>1, <3>1 DEF IdsOf
      <3> QED
        BY <2>1, <3>2 DEF UnregisteredOnlyAtMax
    <2> QED
      BY <2>2, <2>3
  <1>10. OffLineIdsAreUsed'
    <2>1. off_id < loc_id \/ loc_id = MAX_WSCON
      <3>1. CASE IdsOf(c) = {}
        BY <1>4, <3>1
      <3>2. CASE IdsOf(c) # {}
        <4>1. connect_id[off_id] # Absent
          BY <1>2, <3>2, MarkersAssumption
        <4>2. ~(off_id >= loc_id)
          BY <1>2, <4>1 DEF DeadIdsStayDead
        <4> QED
          BY <1>2, <4>2, SizesAssumption DEF WsIds
      <3> QED
        BY <3>1, <3>2
    <2> QED
      BY <1>1, <1>3, <2>1 DEF OffLineIdsAreUsed
  <1>11. CountedIdIsUsed'
    BY <1>3 DEF CountedIdIsUsed
  <1> QED
    BY <1>7, <1>8, <1>9, <1>10, <1>11

\* The null entry that operator[] may insert is behind the counter, and no
\* connection loses its entry to it.
LEMMA LookupRegistry ==
    ASSUME RegistryInv, TypeOK', Lookup
    PROVE  RegistryInv'
  <1> USE DEF RegistryInv, TypeOK
  <1>1. cur.ws_id \in WsIds /\ cur.ws_id < loc_id
    BY DEF Lookup, CountedIdIsUsed, Frames
  <1>2. /\ UNCHANGED <<st, loc_id, OffLine_id, cur>>
        /\ connect_id' = Insert(cur.ws_id, EmptyHdl)
    BY DEF Lookup
  <1>3. \A i \in WsIds : \/ connect_id'[i] = connect_id[i]
                         \/ /\ i = cur.ws_id
                            /\ connect_id[i] = Absent
                            /\ connect_id'[i] = EmptyHdl
    BY <1>1, <1>2 DEF Insert
  <1>4. OneIdPerConnection'
    <2>1. \A i \in WsIds : connect_id'[i] \in Conns =>
             connect_id[i] \in Conns /\ connect_id'[i] = connect_id[i]
      BY <1>3, MarkersAssumption
    <2>2. \A i, j \in WsIds : Holds(i)' /\ connect_id'[i] = connect_id'[j] => i = j
      BY <2>1 DEF OneIdPerConnection, Holds
    <2>3. \A i \in WsIds : Holds(i)' => st[connect_id[i]] \in {"open", "closing"}
      BY <2>1 DEF OneIdPerConnection, Holds, Live
    <2> QED
      BY <1>2, <2>1, <2>2, <2>3 DEF OneIdPerConnection, Holds, Live
  <1>5. DeadIdsStayDead'
    <2>1. \A i \in OffLine_id' : ~Holds(i)'
      BY <1>2, <1>3, MarkersAssumption DEF DeadIdsStayDead, Holds
    <2>2. \A i \in WsIds : i >= loc_id => i # cur.ws_id
      BY <1>1, SizesAssumption DEF WsIds
    <2> QED
      BY <1>2, <1>3, <2>1, <2>2 DEF DeadIdsStayDead
  <1>6. UnregisteredOnlyAtMax'
    <2> SUFFICES ASSUME NEW d \in Conns, Live(d)', IdsOf(d)' = {}
                 PROVE  loc_id = MAX_WSCON
      BY <1>2 DEF UnregisteredOnlyAtMax
    <2>1. Live(d) /\ IdsOf(d) = {}
      BY <1>2, <1>3, MarkersAssumption DEF Live, IdsOf
    <2> QED
      BY <2>1 DEF UnregisteredOnlyAtMax
  <1>7. OffLineIdsAreUsed' /\ CountedIdIsUsed'
    BY <1>1, <1>2 DEF OffLineIdsAreUsed, CountedIdIsUsed
  <1> QED
    BY <1>4, <1>5, <1>6, <1>7

\* A dead process has forgotten everything.
LEMMA DieRegistry ==
    ASSUME RegistryInv, TypeOK', Die
    PROVE  RegistryInv'
  <1>1. \A i \in WsIds : connect_id'[i] = Absent /\ ~Holds(i)'
    BY MarkersAssumption DEF Die, Holds
  <1>2. \A c \in Conns : ~Live(c)'
    BY DEF Die, Live
  <1>3. OffLine_id' = {} /\ rpc' = "head"
    BY DEF Die, Idle
  <1> QED
    BY <1>1, <1>2, <1>3 DEF RegistryInv, OneIdPerConnection, DeadIdsStayDead,
       UnregisteredOnlyAtMax, OffLineIdsAreUsed, CountedIdIsUsed

\* Count lets through only an id that has an entry.
LEMMA CountRegistry ==
    ASSUME RegistryInv, TypeOK', Count
    PROVE  RegistryInv'
  <1> USE DEF RegistryInv, TypeOK
  <1>1. UNCHANGED <<st, connect_id, loc_id, OffLine_id>>
    BY DEF Count, registry
  <1>2. CountedIdIsUsed'
    <2>1. cur.ws_id \in WsIds
      BY DEF Count, Frames
    <2>2. CASE connect_id[cur.ws_id] # Absent
      <3>1. ~(cur.ws_id >= loc_id)
        BY <2>1, <2>2 DEF DeadIdsStayDead
      <3> QED
        BY <1>1, <2>1, <2>2, <3>1, SizesAssumption DEF Count, CountedIdIsUsed, WsIds
    <2>3. CASE connect_id[cur.ws_id] = Absent
      BY <2>3 DEF Count, Idle, CountedIdIsUsed
    <2> QED
      BY <2>2, <2>3
  <1> QED
    BY <1>1, <1>2 DEF OneIdPerConnection, DeadIdsStayDead, UnregisteredOnlyAtMax,
       OffLineIdsAreUsed, Holds, Live, IdsOf

\* Every step keeps the invariant.
LEMMA RegistryStep == RegistryInv /\ [Next]_vars => RegistryInv'
  <1> SUFFICES ASSUME RegistryInv, [Next]_vars PROVE RegistryInv'
    OBVIOUS
  <1>0. TypeOK'
    BY TypeStep DEF RegistryInv
  <1>1. ASSUME NEW c \in Conns, OnOpen(c) PROVE RegistryInv'
    BY <1>0, <1>1, OnOpenRegistry
  <1>2. ASSUME NEW c \in Conns, Lose(c) PROVE RegistryInv'
    BY <1>0, <1>2, LoseRegistry
  <1>3. ASSUME NEW c \in Conns, OnClose(c) PROVE RegistryInv'
    BY <1>0, <1>3, OnCloseRegistry
  <1>4. ASSUME NEW c \in Conns, OnLink(c) PROVE RegistryInv'
    BY <1>0, <1>4, RegistryFrame DEF OnLink, registry, thread
  <1>5. ASSUME NEW c \in Conns, OnCommand(c) PROVE RegistryInv'
    BY <1>0, <1>5, RegistryFrame DEF OnCommand, registry, thread
  <1>6. ASSUME RecvFrame PROVE RegistryInv'
    BY <1>0, <1>6, RegistryFrame DEF RecvFrame, registry
  <1>7. ASSUME Count PROVE RegistryInv'
    BY <1>0, <1>7, CountRegistry
  <1>8. ASSUME Lookup PROVE RegistryInv'
    BY <1>0, <1>8, LookupRegistry
  <1>9. ASSUME Send PROVE RegistryInv'
    BY <1>0, <1>9, RegistryFrame DEF Send, registry, Idle
  <1>10. ASSUME Die PROVE RegistryInv'
    BY <1>0, <1>10, DieRegistry
  <1>11. ASSUME NEW u \in Users, NEW kind \in Kinds, Forward(u, kind) PROVE RegistryInv'
    BY <1>0, <1>11, RegistryFrame DEF Forward, registry, thread
  <1>12. ASSUME TakeCommand PROVE RegistryInv'
    BY <1>0, <1>12, RegistryFrame DEF TakeCommand, registry, thread
  <1>13. ASSUME Restart PROVE RegistryInv'
    BY <1>0, <1>13, RegistryFrame DEF Restart, registry, thread
  <1>14. CASE UNCHANGED vars
    BY <1>0, <1>14, RegistryFrame DEF vars, registry, thread
  <1> QED
    BY <1>1, <1>2, <1>3, <1>4, <1>5, <1>6, <1>7, <1>8, <1>9, <1>10, <1>11, <1>12,
       <1>13, <1>14 DEF Next, RecvThread, SendThrows, MapRace

\* In every life of the process an id names at most one connection, no entry
\* outlives its connection, and no id is handed out twice.
THEOREM RegistrySafe == Spec => [](OneIdPerConnection /\ DeadIdsStayDead)
  <1>1. RegistryInv => OneIdPerConnection /\ DeadIdsStayDead
    BY DEF RegistryInv
  <1> QED
    BY <1>1, InitRegistry, RegistryStep, PTL DEF Spec

\* The second half by itself: an id that was closed is never given out again,
\* in spite of null entries, crashes and ids that run out (OnOpen, OnClose).
THEOREM DeadStayDead == Spec => []DeadIdsStayDead
  <1>1. OneIdPerConnection /\ DeadIdsStayDead => DeadIdsStayDead
    OBVIOUS
  <1> QED
    BY <1>1, RegistrySafe, PTL

-----------------------------------------------------------------------------
(***************************************************************************)
(* Delivery.  A frame is addressed by an id that was read from a row some  *)
(* time ago.  The invariant says what such an id is worth: whoever holds   *)
(* it now, if anybody, is a page of the frame's user and kind.  It needs   *)
(* an id for every connection, and one life of the process: a restart      *)
(* counts from 1 again while the rows keep their ids.                      *)
(***************************************************************************)
EnoughIds == Cardinality(Conns) < MAX_WSCON

\* Id i stands for the page of this kind of user u, or for nobody any more.
Names(i, u, kind) ==
    /\ i < loc_id
    /\ Holds(i) => PageUser[connect_id[i]] = u /\ PageKind[connect_id[i]] = kind

Opened == {c \in Conns : st[c] # "idle"}

\* The counter never runs ahead of the connections opened so far, and a
\* connection that exists has an id.
EveryoneHasId ==
    /\ loc_id <= Cardinality(Opened) + 1
    /\ \A c \in Conns : Live(c) => IdsOf(c) # {}

RowsName ==
    up => \A u \in Users, i \in WsIds :
              /\ row[u].ws_photo = i => Names(i, u, "photo")
              /\ row[u].ws_txt = i => Names(i, u, "txt")

FramesName ==
    \A f \in Frames : (\E k \in 1 .. Len(inflight) : inflight[k] = f)
        => Names(f.ws_id, f.user, f.kind)

CurName ==
    \A f \in Frames : rpc # "head" /\ cur = f => Names(f.ws_id, f.user, f.kind)

HdlName ==
    rpc = "send" /\ ws_hdl \in Conns =>
        PageUser[ws_hdl] = cur.user /\ PageKind[ws_hdl] = cur.kind

DeliveryInv ==
    /\ RegistryInv
    /\ restarts = 0
    /\ EveryoneHasId
    /\ RowsName
    /\ FramesName
    /\ CurName
    /\ HdlName
    /\ NoMisdelivery

\* No id that was handed out passes to another connection in this step.
HoldersKept ==
    /\ loc_id' >= loc_id
    /\ \A i \in WsIds : i < loc_id /\ connect_id'[i] \in Conns =>
          connect_id'[i] = connect_id[i]

LEMMA NamesKept ==
    ASSUME RegistryInv, TypeOK', HoldersKept
    PROVE  \A i \in WsIds, u \in Users, kind \in Kinds :
              Names(i, u, kind) => Names(i, u, kind)'
  <1> SUFFICES ASSUME NEW i \in WsIds, NEW u \in Users, NEW kind \in Kinds,
                      Names(i, u, kind)
               PROVE  Names(i, u, kind)'
    OBVIOUS
  <1>1. i < loc_id'
    BY SizesAssumption DEF RegistryInv, TypeOK, HoldersKept, Names, WsIds
  <1> QED
    BY <1>1 DEF Names, HoldersKept, Holds

LEMMA HoldersKeptStep ==
    ASSUME RegistryInv, [Next]_vars, ~Die
    PROVE  HoldersKept
  <1> USE SizesAssumption DEF RegistryInv, TypeOK
  <1>1. CASE UNCHANGED <<connect_id, loc_id>>
    BY <1>1 DEF HoldersKept
  <1>2. ASSUME NEW c \in Conns, OnOpen(c) PROVE HoldersKept
    BY <1>2 DEF OnOpen, Insert, HoldersKept, WsIds
  <1>3. ASSUME NEW c \in Conns, OnClose(c) PROVE HoldersKept
    BY <1>3, MarkersAssumption, GetWsIdFindsHolder DEF OnClose, HoldersKept
  <1>4. ASSUME Lookup PROVE HoldersKept
    <2>1. cur.ws_id \in WsIds
      BY <1>4 DEF Lookup, Frames
    <2> QED
      BY <1>4, <2>1, MarkersAssumption DEF Lookup, Insert, HoldersKept
  <1> QED
    BY <1>1, <1>2, <1>3, <1>4 DEF Next, vars, registry, RecvThread, Lose, OnLink,
       OnCommand, RecvFrame, Count, Send, SendThrows, MapRace, Forward, TakeCommand,
       Restart

\* As long as the process lives and the ids suffice, a new connection gets
\* one, and a connection keeps its id until its close handler runs.
LEMMA EveryoneHasIdStep ==
    ASSUME EnoughIds, RegistryInv, TypeOK', EveryoneHasId, [Next]_vars
    PROVE  EveryoneHasId'
  <1> USE SizesAssumption, PagesAssumption DEF RegistryInv, TypeOK
  <1>1. ASSUME NEW c \in Conns, OnOpen(c) PROVE EveryoneHasId'
    <2>1. Opened' = Opened \cup {c} /\ c \notin Opened
      BY <1>1 DEF OnOpen, Opened
    <2>2. IsFiniteSet(Opened) /\ IsFiniteSet(Opened \cup {c})
      <3>1. Opened \subseteq Conns /\ Opened \cup {c} \subseteq Conns
        BY DEF Opened
      <3> QED
        BY <3>1, FS_Subset
    <2>3. Cardinality(Opened') = Cardinality(Opened) + 1
      BY <2>1, <2>2, FS_AddElement
    <2>4. Cardinality(Opened') <= Cardinality(Conns)
      <3>1. Opened' \subseteq Conns
        BY <2>1 DEF Opened
      <3> QED
        BY <3>1, FS_Subset
    <2>5. Cardinality(Opened) \in Nat /\ Cardinality(Conns) \in Nat
      BY <2>2, FS_CardinalityType
    <2>6. loc_id < MAX_WSCON
      BY <1>1, <2>3, <2>4, <2>5 DEF OnOpen, EveryoneHasId, EnoughIds
    <2>7. loc_id \in WsIds /\ connect_id[loc_id] = Absent
      BY <2>6 DEF WsIds, DeadIdsStayDead
    <2>8. /\ connect_id' = [connect_id EXCEPT ![loc_id] = c]
          /\ loc_id' = loc_id + 1
          /\ st' = [st EXCEPT ![c] = "open"]
          /\ up
      BY <1>1, <2>6, <2>7 DEF OnOpen, Insert
    <2>9. \A d \in Conns : Live(d)' => IdsOf(d)' # {}
      <3> SUFFICES ASSUME NEW d \in Conns, Live(d)' PROVE \E i \in WsIds : connect_id'[i] = d
        BY DEF IdsOf
      <3>1. CASE d = c
        BY <2>7, <2>8, <3>1
      <3>2. CASE d # c
        <4>1. Live(d)
          BY <2>8, <3>2 DEF Live
        <4>2. PICK i \in WsIds : connect_id[i] = d
          BY <2>8, <4>1 DEF EveryoneHasId, IdsOf
        <4> QED
          BY <2>7, <2>8, <4>2, MarkersAssumption
      <3> QED
        BY <3>1, <3>2
    <2>10. loc_id' <= Cardinality(Opened') + 1
      BY <2>3, <2>5, <2>8 DEF EveryoneHasId
    <2> QED
      BY <2>9, <2>10 DEF EveryoneHasId
  <1>2. ASSUME NEW c \in Conns, Lose(c) PROVE EveryoneHasId'
    <2>1. Opened' = Opened /\ UNCHANGED <<up, loc_id, connect_id>>
      BY <1>2 DEF Lose, Opened, registry
    <2>2. \A d \in Conns : Live(d)' => Live(d)
      BY <1>2 DEF Lose, Live
    <2> QED
      BY <2>1, <2>2 DEF EveryoneHasId, IdsOf
  <1>3. ASSUME NEW c \in Conns, OnClose(c) PROVE EveryoneHasId'
    <2>1. Opened' = Opened /\ UNCHANGED <<up, loc_id>> /\ up /\ Live(c)
      BY <1>3 DEF OnClose, Opened, Live
    <2>2. PICK off_id \in GetWsId(c) : connect_id' = [connect_id EXCEPT ![off_id] = Absent]
      BY <1>3 DEF OnClose
    <2>3. off_id \in WsIds /\ connect_id[off_id] = c
      BY <2>1, GetWsIdFindsHolder DEF EveryoneHasId
    <2>4. ASSUME NEW d \in Conns, Live(d)' PROVE IdsOf(d)' # {}
      <3>1. d # c /\ Live(d)
        BY <1>3, <2>4 DEF OnClose, Live
      <3>2. PICK i \in WsIds : connect_id[i] = d
        BY <2>1, <3>1 DEF EveryoneHasId, IdsOf
      <3>3. connect_id'[i] = d
        BY <2>2, <2>3, <3>1, <3>2
      <3> QED
        BY <3>2, <3>3 DEF IdsOf
    <2> QED
      BY <2>1, <2>4 DEF EveryoneHasId
  <1>4. ASSUME Lookup PROVE EveryoneHasId'
    <2>1. Opened' = Opened /\ UNCHANGED <<up, loc_id, st>>
      BY <1>4 DEF Lookup, Opened
    <2>2. \A i \in WsIds : connect_id[i] \in Conns => connect_id'[i] = connect_id[i]
      BY <1>4, MarkersAssumption DEF Lookup, Insert, Frames
    <2>3. \A d \in Conns : Live(d)' => Live(d)
      BY <2>1 DEF Live
    <2>4. \A d \in Conns : IdsOf(d) # {} => IdsOf(d)' # {}
      BY <2>2 DEF IdsOf
    <2> QED
      BY <2>1, <2>3, <2>4 DEF EveryoneHasId
  <1>5. CASE Die
    <2>1. Opened' = Opened /\ loc_id' = 1 /\ \A c \in Conns : ~Live(c)'
      BY <1>5 DEF Die, Opened, Live
    <2>2. Cardinality(Opened) \in Nat
      <3>1. Opened \subseteq Conns
        BY DEF Opened
      <3> QED
        BY <3>1, FS_Subset, FS_CardinalityType
    <2> QED
      BY <2>1, <2>2 DEF EveryoneHasId
  <1>6. CASE UNCHANGED <<st, connect_id, loc_id>>
    BY <1>6 DEF EveryoneHasId, Opened, Live, IdsOf
  <1> QED
    BY <1>1, <1>2, <1>3, <1>4, <1>5, <1>6 DEF Next, vars, registry, RecvThread, OnLink,
       OnCommand, RecvFrame, Count, Send, SendThrows, MapRace, Forward, TakeCommand,
       Restart

\* A page that links writes its own id into the row of its own user, and no
\* other step gives a row an id; closing changes the status only.
LEMMA RowsNameStep ==
    ASSUME RegistryInv, TypeOK', HoldersKept, EveryoneHasId, RowsName, [Next]_vars, ~Die,
           restarts' = 0
    PROVE  RowsName'
  <1> USE SizesAssumption, PagesAssumption DEF RegistryInv, TypeOK
  <1>1. up' => up
    <2>1. ~Restart
      BY DEF Restart
    <2> QED
      BY <2>1 DEF Next, vars, registry, RecvThread, OnOpen, Lose, OnClose, OnLink,
         OnCommand, RecvFrame, Count, Lookup, Send, SendThrows, MapRace, Forward,
         TakeCommand
  <1>2. ASSUME NEW u \in Users, NEW i \in WsIds, up',
               row'[u].ws_photo = row[u].ws_photo, row'[u].ws_photo = i
        PROVE  Names(i, u, "photo")'
    <2>1. Names(i, u, "photo")
      BY <1>1, <1>2 DEF RowsName
    <2> QED
      BY <2>1, NamesKept DEF Kinds
  <1>3. ASSUME NEW u \in Users, NEW i \in WsIds, up',
               row'[u].ws_txt = row[u].ws_txt, row'[u].ws_txt = i
        PROVE  Names(i, u, "txt")'
    <2>1. Names(i, u, "txt")
      BY <1>1, <1>3 DEF RowsName
    <2> QED
      BY <2>1, NamesKept DEF Kinds
  <1>4. ASSUME row' = row \/ \E id \in WsIds : row' = MarkedOffline(id)
        PROVE  RowsName'
    <2>1. \A u \in Users : /\ row'[u].ws_photo = row[u].ws_photo
                           /\ row'[u].ws_txt = row[u].ws_txt
      BY <1>4 DEF MarkedOffline
    <2> QED
      BY <2>1, <1>2, <1>3 DEF RowsName
  <1>5. ASSUME NEW c \in Conns, OnClose(c) PROVE RowsName'
    <2>1. PICK ws_id \in GetWsId(c) : Update(MarkedOffline(ws_id))
      BY <1>5 DEF OnClose
    <2>2. ws_id \in WsIds
      BY GetWsIdFindsHolder
    <2> QED
      BY <1>4, <2>1, <2>2 DEF Update
  <1>6. ASSUME NEW c \in Conns, OnLink(c) PROVE RowsName'
    <2> DEFINE v == PageUser[c]
    <2>1. v \in Users /\ PageKind[c] \in {"photo", "txt"}
      BY DEF Kinds
    <2>2. PICK id \in GetWsId(c) :
             Update([row EXCEPT ![v] = Linked(v, PageKind[c], id)])
      BY <1>6 DEF OnLink
    <2>3. id \in WsIds /\ connect_id[id] = c /\ up
      BY <1>6, GetWsIdFindsHolder DEF OnLink, EveryoneHasId, Live
    <2>4. id < loc_id
      <3>1. ~(id >= loc_id)
        BY <2>3, MarkersAssumption DEF DeadIdsStayDead
      <3> QED
        BY <2>3, <3>1 DEF WsIds
    <2>5. UNCHANGED <<connect_id, loc_id, up>>
      BY <1>6 DEF OnLink, registry
    <2>6. Names(id, v, PageKind[c])'
      BY <2>3, <2>4, <2>5 DEF Names, Holds
    <2>7. CASE row' = row
      BY <1>4, <2>7
    <2>8. CASE row' = [row EXCEPT ![v] = Linked(v, PageKind[c], id)]
      <3>1. ASSUME NEW u \in Users, NEW i \in WsIds, up'
            PROVE  /\ row'[u].ws_photo = i => Names(i, u, "photo")'
                   /\ row'[u].ws_txt = i => Names(i, u, "txt")'
        <4>1. CASE u # v
          <5>1. row'[u] = row[u]
            BY <2>8, <4>1
          <5> QED
            BY <5>1, <3>1, <1>2, <1>3
        <4>2. CASE u = v /\ PageKind[c] = "photo"
          <5>1. row'[u] = [row[u] EXCEPT !.ws_photo = id, !.ws_status = TRUE]
            BY <2>8, <2>1, <4>2 DEF Linked
          <5>2. row'[u].ws_photo = id /\ row'[u].ws_txt = row[u].ws_txt
            BY <5>1
          <5> QED
            BY <5>2, <2>6, <3>1, <4>2, <1>3
        <4>3. CASE u = v /\ PageKind[c] = "txt"
          <5>1. row'[u] = [row[u] EXCEPT !.ws_txt = id, !.ws_status = TRUE]
            BY <2>8, <2>1, <4>3 DEF Linked
          <5>2. row'[u].ws_txt = id /\ row'[u].ws_photo = row[u].ws_photo
            BY <5>1
          <5> QED
            BY <5>2, <2>6, <3>1, <4>3, <1>2
        <4> QED
          BY <2>1, <4>1, <4>2, <4>3
      <3> QED
        BY <3>1 DEF RowsName
    <2> QED
      BY <2>2, <2>7, <2>8 DEF Update
  <1>7. CASE row' = row
    BY <1>4, <1>7
  <1> QED
    BY <1>5, <1>6, <1>7 DEF Next, vars, RecvThread, OnOpen, Lose, OnCommand, RecvFrame,
       Count, Lookup, Send, SendThrows, MapRace, Forward, TakeCommand, Restart

\* The TCP server stamps a frame with an id of the user's row, so the frame
\* inherits what the row's id was worth.
LEMMA FramesNameStep ==
    ASSUME RegistryInv, TypeOK', HoldersKept, RowsName, FramesName, [Next]_vars, ~Die
    PROVE  FramesName'
  <1> USE DEF RegistryInv, TypeOK
  <1>1. ASSUME NEW f \in Frames, Names(f.ws_id, f.user, f.kind)
        PROVE  Names(f.ws_id, f.user, f.kind)'
    BY <1>1, NamesKept DEF Frames
  <1>2. ASSUME \A f \in Frames : (\E k \in 1 .. Len(inflight') : inflight'[k] = f) =>
                                    (\E k \in 1 .. Len(inflight) : inflight[k] = f)
        PROVE  FramesName'
    BY <1>1, <1>2 DEF FramesName
  <1>3. ASSUME RecvFrame PROVE FramesName'
    <2>1. /\ inflight' = Tail(inflight)
          /\ inflight # <<>>
      BY <1>3 DEF RecvFrame
    <2>2. /\ Len(inflight') = Len(inflight) - 1
          /\ \A k \in 1 .. Len(inflight') : inflight'[k] = inflight[k + 1]
      BY <2>1
    <2>3. \A k \in 1 .. Len(inflight') : k + 1 \in 1 .. Len(inflight)
      BY <2>1, <2>2
    <2> QED
      BY <1>2, <2>2, <2>3
  <1>4. ASSUME NEW u \in Users, NEW kind \in Kinds, Forward(u, kind) PROVE FramesName'
    <2> DEFINE g == [kind |-> kind,
                     ws_id |-> IF kind = "photo" THEN row[u].ws_photo ELSE row[u].ws_txt,
                     user |-> u]
    <2>1. inflight' = Append(inflight, g) /\ g \in Frames /\ up
      BY <1>4 DEF Forward, Frames
    <2>2. \A f \in Frames : (\E k \in 1 .. Len(inflight') : inflight'[k] = f) =>
             f = g \/ \E k \in 1 .. Len(inflight) : inflight[k] = f
      <3> SUFFICES ASSUME NEW f \in Frames, NEW k \in 1 .. Len(inflight'), inflight'[k] = f
                   PROVE  f = g \/ \E j \in 1 .. Len(inflight) : inflight[j] = f
        OBVIOUS
      <3>1. CASE k = Len(inflight) + 1
        BY <2>1, <3>1
      <3>2. CASE k # Len(inflight) + 1
        <4>1. k \in 1 .. Len(inflight) /\ inflight'[k] = inflight[k]
          BY <2>1, <3>2
        <4> QED
          BY <4>1
      <3> QED
        BY <3>1, <3>2
    <2>3. \A f \in Frames : f = g => Names(f.ws_id, f.user, f.kind)
      BY <2>1 DEF RowsName, Kinds
    <2> QED
      BY <1>1, <2>2, <2>3 DEF FramesName
  <1>5. CASE inflight' = inflight
    BY <1>2, <1>5
  <1> QED
    BY <1>3, <1>4, <1>5 DEF Next, vars, RecvThread, OnOpen, Lose, OnClose, OnLink,
       OnCommand, Count, Lookup, Send, SendThrows, MapRace, TakeCommand, Restart

\* The receiving thread looks up the id of the frame it has read, and writes
\* to the handle it has looked up.
LEMMA CurNameStep ==
    ASSUME RegistryInv, TypeOK', HoldersKept, FramesName, CurName, [Next]_vars, ~Die
    PROVE  CurName'
  <1> USE DEF RegistryInv, TypeOK
  <1>1. ASSUME NEW f \in Frames, Names(f.ws_id, f.user, f.kind)
        PROVE  Names(f.ws_id, f.user, f.kind)'
    BY <1>1, NamesKept DEF Frames
  <1>2. ASSUME rpc' # "head" => rpc # "head" /\ cur' = cur PROVE CurName'
    BY <1>1, <1>2 DEF CurName
  <1>3. ASSUME RecvFrame PROVE CurName'
    <2>1. cur' = inflight[1] /\ 1 \in 1 .. Len(inflight)
      BY <1>3 DEF RecvFrame
    <2> QED
      BY <1>1, <2>1 DEF FramesName, CurName
  <1> QED
    BY <1>2, <1>3 DEF Next, vars, thread, RecvThread, OnOpen, Lose, OnClose, OnLink,
       OnCommand, Count, Idle, Lookup, Send, SendThrows, MapRace, Forward, TakeCommand,
       Restart

LEMMA HdlNameStep ==
    ASSUME RegistryInv, TypeOK', CurName, HdlName, [Next]_vars, ~Die
    PROVE  HdlName'
  <1> USE DEF RegistryInv, TypeOK
  <1>1. ASSUME Lookup PROVE HdlName'
    <2>1. cur \in Frames /\ cur.ws_id \in WsIds
      BY <1>1 DEF Lookup, Frames
    <2>2. Names(cur.ws_id, cur.user, cur.kind)
      BY <1>1, <2>1 DEF Lookup, CurName
    <2>3. ws_hdl' \in Conns => ws_hdl' = connect_id[cur.ws_id]
      BY <1>1, <2>1, MarkersAssumption DEF Lookup, Insert
    <2> QED
      BY <1>1, <2>2, <2>3 DEF Lookup, HdlName, Names, Holds
  <1>2. ASSUME rpc' = "send" => rpc = "send" /\ UNCHANGED <<cur, ws_hdl>> PROVE HdlName'
    BY <1>2 DEF HdlName
  <1> QED
    BY <1>1, <1>2 DEF Next, vars, thread, RecvThread, OnOpen, Lose, OnClose, OnLink,
       OnCommand, RecvFrame, Count, Idle, Send, SendThrows, MapRace, Forward,
       TakeCommand, Restart

LEMMA NoMisdeliveryStep ==
    ASSUME RegistryInv, HdlName, NoMisdelivery, [Next]_vars
    PROVE  NoMisdelivery'
  <1> USE DEF RegistryInv, TypeOK
  <1>1. ASSUME Send PROVE NoMisdelivery'
    <2>1. PageUser[ws_hdl] = cur.user /\ PageKind[ws_hdl] = cur.kind
      BY <1>1 DEF Send, CanSend, HdlName
    <2>2. got' = [got EXCEPT ![ws_hdl] = @ \cup {<<cur.user, cur.kind>>}]
      BY <1>1 DEF Send
    <2> QED
      BY <2>1, <2>2 DEF NoMisdelivery
  <1>2. CASE got' = got
    BY <1>2 DEF NoMisdelivery
  <1> QED
    BY <1>1, <1>2 DEF Next, vars, RecvThread, OnOpen, Lose, OnClose, OnLink, OnCommand,
       RecvFrame, Count, Lookup, SendThrows, Die, MapRace, Forward, TakeCommand, Restart

LEMMA DeliveryStep ==
    ASSUME MaxRestarts = 0, EnoughIds
    PROVE  DeliveryInv /\ [Next]_vars => DeliveryInv'
  <1> SUFFICES ASSUME DeliveryInv, [Next]_vars PROVE DeliveryInv'
    OBVIOUS
  <1>1. RegistryInv /\ RegistryInv' /\ TypeOK'
    BY RegistryStep DEF DeliveryInv, RegistryInv
  <1>2. restarts' = 0
    BY <1>1 DEF TypeOK
  <1>3. EveryoneHasId'
    BY <1>1, EveryoneHasIdStep DEF DeliveryInv
  <1>4. NoMisdelivery'
    BY <1>1, NoMisdeliveryStep DEF DeliveryInv
  <1>5. CASE Die
    <2>1. up' = FALSE /\ inflight' = <<>> /\ rpc' = "head"
      BY <1>5 DEF Die, Idle
    <2>2. RowsName' /\ FramesName' /\ CurName' /\ HdlName'
      BY <2>1 DEF RowsName, FramesName, CurName, HdlName
    <2> QED
      BY <1>1, <1>2, <1>3, <1>4, <2>2 DEF DeliveryInv
  <1>6. CASE ~Die
    <2>1. HoldersKept
      BY <1>1, <1>6, HoldersKeptStep
    <2>2. RowsName'
      BY <1>1, <1>2, <1>6, <2>1, RowsNameStep DEF DeliveryInv
    <2>3. FramesName'
      BY <1>1, <1>6, <2>1, FramesNameStep DEF DeliveryInv
    <2>4. CurName' /\ HdlName'
      BY <1>1, <1>6, <2>1, CurNameStep, HdlNameStep DEF DeliveryInv
    <2> QED
      BY <1>1, <1>2, <1>3, <1>4, <2>2, <2>3, <2>4 DEF DeliveryInv
  <1> QED
    BY <1>5, <1>6

LEMMA InitDelivery == Init => DeliveryInv
  <1> SUFFICES ASSUME Init PROVE DeliveryInv
    OBVIOUS
  <1>1. Opened = {} /\ Cardinality(Opened) = 0
    <2>1. Opened = {}
      BY DEF Init, Opened
    <2> QED
      BY <2>1, FS_EmptySet
  <1>2. EveryoneHasId
    BY <1>1 DEF Init, EveryoneHasId, Live
  <1>3. RowsName
    BY MarkersAssumption DEF Init, RowsName, Names, Holds
  <1>4. FramesName /\ CurName /\ HdlName /\ NoMisdelivery
    BY DEF Init, FramesName, CurName, HdlName, NoMisdelivery
  <1> QED
    BY <1>2, <1>3, <1>4, InitRegistry DEF Init, DeliveryInv

\* In one life of the process, with an id for every connection, every frame is
\* written to a page of its own user and kind (OnMessage, recvInfo_from_TcpServer).
THEOREM DeliverySafe ==
    ASSUME MaxRestarts = 0, EnoughIds
    PROVE  Spec => []NoMisdelivery
  <1>1. DeliveryInv => NoMisdelivery
    BY DEF DeliveryInv
  <1> QED
    BY <1>1, InitDelivery, DeliveryStep, PTL DEF Spec

\* With an id for every connection, a connection that exists can be reached,
\* in every life of the process (OnOpen, OnClose).
THEOREM LiveReachable == Spec => []LiveIsRegistered
  <1> DEFINE Inv == RegistryInv /\ (EnoughIds => EveryoneHasId)
  <1>1. Init => Inv
    BY InitRegistry, InitDelivery DEF DeliveryInv
  <1>2. Inv /\ [Next]_vars => Inv'
    BY RegistryStep, EveryoneHasIdStep DEF RegistryInv, EnoughIds
  <1>3. Inv => LiveIsRegistered
    BY DEF LiveIsRegistered, EnoughIds, EveryoneHasId
  <1> QED
    BY <1>1, <1>2, <1>3, PTL DEF Spec

-----------------------------------------------------------------------------
(* The online mark *)

\* A step that keeps the rows, and every entry that holds a connection, keeps
\* the property.
LEMMA OnlineFrame ==
    ASSUME TypeOK, TypeOK', OnlineHasPage, row' = row, up' => up,
           \A i \in WsIds : Holds(i) => connect_id'[i] = connect_id[i]
    PROVE  OnlineHasPage'
  <1> SUFFICES ASSUME up', NEW u \in Users, row'[u].ws_status
               PROVE  \E i \in {row'[u].ws_photo, row'[u].ws_txt} :
                         Holds(i)' /\ PageUser[connect_id'[i]] = u
    BY DEF OnlineHasPage
  <1>1. PICK i \in {row[u].ws_photo, row[u].ws_txt} :
           Holds(i) /\ PageUser[connect_id[i]] = u
    BY DEF OnlineHasPage
  <1>2. i \in WsIds
    BY DEF TypeOK
  <1> QED
    BY <1>1, <1>2 DEF Holds

LEMMA OnlineStep ==
    ASSUME MaxRestarts = 0, DbMayFail = FALSE, EnoughIds, DeliveryInv, OnlineHasPage,
           [Next]_vars
    PROVE  OnlineHasPage'
  <1>1. RegistryInv /\ EveryoneHasId /\ TypeOK'
    BY TypeStep DEF DeliveryInv, RegistryInv
  <1> USE SizesAssumption, PagesAssumption, <1>1 DEF RegistryInv, TypeOK
  <1>2. up' => up
    <2>1. ~Restart
      BY DEF Restart
    <2> QED
      BY <2>1 DEF Next, vars, registry, RecvThread, OnOpen, Lose, OnClose, OnLink,
         OnCommand, RecvFrame, Count, Lookup, Send, SendThrows, Die, MapRace, Forward,
         TakeCommand
  <1>3. ASSUME NEW c \in Conns, OnOpen(c) PROVE OnlineHasPage'
    <2>1. \A i \in WsIds : Holds(i) => connect_id'[i] = connect_id[i]
      BY <1>3, MarkersAssumption DEF OnOpen, Insert, Holds
    <2> QED
      BY <1>2, <1>3, <2>1, OnlineFrame DEF OnOpen
  <1>4. ASSUME Lookup PROVE OnlineHasPage'
    <2>1. \A i \in WsIds : Holds(i) => connect_id'[i] = connect_id[i]
      BY <1>4, MarkersAssumption DEF Lookup, Insert, Holds
    <2> QED
      BY <1>2, <1>4, <2>1, OnlineFrame DEF Lookup
  <1>5. ASSUME NEW c \in Conns, OnClose(c) PROVE OnlineHasPage'
    <2>1. IdsOf(c) # {}
      BY <1>5 DEF OnClose, EveryoneHasId, Live
    <2>2. PICK ws_id \in GetWsId(c) : row' = MarkedOffline(ws_id)
      BY <1>5 DEF OnClose, Update
    <2>3. PICK off_id \in GetWsId(c) : connect_id' = [connect_id EXCEPT ![off_id] = Absent]
      BY <1>5 DEF OnClose
    <2>4. /\ ws_id \in WsIds /\ connect_id[ws_id] = c
          /\ off_id \in WsIds /\ connect_id[off_id] = c
      BY <2>1, GetWsIdFindsHolder
    <2>5. ws_id = off_id
      BY <2>4 DEF OneIdPerConnection, Holds
    <2> SUFFICES ASSUME NEW u \in Users, row'[u].ws_status
                 PROVE  \E i \in {row'[u].ws_photo, row'[u].ws_txt} :
                           Holds(i)' /\ PageUser[connect_id'[i]] = u
      BY DEF OnlineHasPage
    <2>6. ws_id \notin {row[u].ws_txt, row[u].ws_photo}
      <3> SUFFICES ASSUME ws_id \in {row[u].ws_txt, row[u].ws_photo} PROVE FALSE
        OBVIOUS
      <3>1. row'[u] = [row[u] EXCEPT !.ws_status = FALSE]
        BY <2>2 DEF MarkedOffline
      <3> QED
        BY <3>1
    <2>7. row'[u] = row[u]
      BY <2>2, <2>6 DEF MarkedOffline
    <2>8. PICK i \in {row[u].ws_photo, row[u].ws_txt} :
             Holds(i) /\ PageUser[connect_id[i]] = u
      BY <1>5, <2>7 DEF OnClose, OnlineHasPage
    <2>9. i \in WsIds /\ i # off_id
      BY <2>5, <2>6, <2>8
    <2>10. connect_id'[i] = connect_id[i]
      BY <2>3, <2>9
    <2> QED
      BY <2>7, <2>8, <2>10 DEF Holds
  <1>6. ASSUME NEW c \in Conns, OnLink(c) PROVE OnlineHasPage'
    <2> DEFINE v == PageUser[c]
    <2>1. v \in Users /\ PageKind[c] \in {"photo", "txt"}
      BY DEF Kinds
    <2>2. PICK id \in GetWsId(c) : row' = [row EXCEPT ![v] = Linked(v, PageKind[c], id)]
      BY <1>6 DEF OnLink, Update
    <2>3. id \in WsIds /\ connect_id[id] = c /\ up /\ connect_id' = connect_id
      BY <1>6, GetWsIdFindsHolder DEF OnLink, EveryoneHasId, Live, registry
    <2> SUFFICES ASSUME NEW u \in Users, row'[u].ws_status
                 PROVE  \E i \in {row'[u].ws_photo, row'[u].ws_txt} :
                           Holds(i)' /\ PageUser[connect_id'[i]] = u
      BY DEF OnlineHasPage
    <2>4. CASE u = v
      <3>1. id \in {row'[v].ws_photo, row'[v].ws_txt}
        <4>1. row'[v] = Linked(v, PageKind[c], id)
          BY <2>1, <2>2
        <4>2. CASE PageKind[c] = "photo"
          <5>1. row'[v] = [row[v] EXCEPT !.ws_photo = id, !.ws_status = TRUE]
            BY <4>1, <4>2 DEF Linked
          <5>2. row'[v].ws_photo = id
            BY <5>1, <2>1
          <5> QED
            BY <5>2
        <4>3. CASE PageKind[c] = "txt"
          <5>1. row'[v] = [row[v] EXCEPT !.ws_txt = id, !.ws_status = TRUE]
            BY <4>1, <4>3 DEF Linked
          <5>2. row'[v].ws_txt = id
            BY <5>1, <2>1
          <5> QED
            BY <5>2
        <4> QED
          BY <2>1, <4>2, <4>3
      <3> QED
        BY <2>3, <2>4, <3>1 DEF Holds
    <2>5. CASE u # v
      <3>1. row'[u] = row[u]
        BY <2>2, <2>5
      <3> QED
        BY <2>3, <3>1 DEF OnlineHasPage, Holds
    <2> QED
      BY <2>4, <2>5
  <1>7. CASE UNCHANGED <<row, connect_id>>
    BY <1>2, <1>7, OnlineFrame
  <1>8. CASE Die
    BY <1>8 DEF Die, OnlineHasPage
  <1> QED
    BY <1>3, <1>4, <1>5, <1>6, <1>7, <1>8 DEF Next, vars, registry, RecvThread, Lose,
       OnCommand, RecvFrame, Count, Send, SendThrows, MapRace, Forward, TakeCommand,
       Restart

\* In one life of the process, with an id for every connection and no failing
\* UPDATE, a user who is marked online has a page that still holds one of the
\* ids of the row (OnMessage, OnClose).
THEOREM OnlineSafe ==
    ASSUME MaxRestarts = 0, DbMayFail = FALSE, EnoughIds
    PROVE  Spec => []OnlineHasPage
  <1> DEFINE Inv == DeliveryInv /\ OnlineHasPage
  <1>1. Init => Inv
    <2>1. Init => OnlineHasPage
      BY DEF Init, OnlineHasPage
    <2> QED
      BY <2>1, InitDelivery
  <1>2. Inv /\ [Next]_vars => Inv'
    BY DeliveryStep, OnlineStep
  <1>3. Inv => OnlineHasPage
    OBVIOUS
  <1> QED
    BY <1>1, <1>2, <1>3, PTL DEF Spec

\* The UPDATE of a close handler clears the mark of a row that has the id of
\* the closed connection, and by RowsName that is a row of the page's user.
LEMMA OfflineStep ==
    ASSUME EnoughIds, DeliveryInv, TypeOK', [Next]_vars,
           NEW u \in Users, row[u].ws_status, ~row'[u].ws_status
    PROVE  \E c \in Conns : PageUser[c] = u /\ st[c] = "closing" /\ st'[c] = "gone"
  <1> USE SizesAssumption, PagesAssumption DEF DeliveryInv, RegistryInv, TypeOK
  <1>1. ASSUME NEW c \in Conns, OnClose(c)
        PROVE  PageUser[c] = u /\ st[c] = "closing" /\ st'[c] = "gone"
    <2>1. PICK ws_id \in GetWsId(c) : row' = MarkedOffline(ws_id)
      BY <1>1 DEF OnClose, Update
    <2>2. ws_id \in WsIds /\ connect_id[ws_id] = c
      BY <1>1, GetWsIdFindsHolder DEF OnClose, EveryoneHasId, Live
    <2>3. ws_id \in {row[u].ws_txt, row[u].ws_photo}
      BY <2>1 DEF MarkedOffline
    <2>4. up /\ (Names(ws_id, u, "photo") \/ Names(ws_id, u, "txt"))
      BY <1>1, <2>2, <2>3 DEF OnClose, RowsName
    <2>5. PageUser[c] = u
      BY <2>2, <2>4 DEF Names, Holds
    <2> QED
      BY <1>1, <2>5 DEF OnClose
  <1>2. ASSUME NEW c \in Conns, OnLink(c) PROVE FALSE
    <2> DEFINE v == PageUser[c]
    <2>1. v \in Users
      OBVIOUS
    <2>2. PICK id \in GetWsId(c) : row' = [row EXCEPT ![v] = Linked(v, PageKind[c], id)]
      BY <1>2 DEF OnLink, Update
    <2>3. Linked(v, PageKind[c], id).ws_status
      BY <2>1 DEF Linked
    <2> QED
      BY <2>1, <2>2, <2>3
  <1>3. row' # row
    OBVIOUS
  <1> QED
    BY <1>1, <1>2, <1>3 DEF Next, vars, RecvThread, OnOpen, Lose, OnCommand, RecvFrame,
       Count, Lookup, Send, SendThrows, Die, MapRace, Forward, TakeCommand, Restart

\* In one life of the process, with an id for every connection, a user is
\* marked offline by the close handler of one of the user's own pages and by
\* nothing else, whether or not an UPDATE fails (OnClose).
THEOREM OfflineByOwnPage ==
    ASSUME MaxRestarts = 0, EnoughIds
    PROVE  Spec => OnlyOwnPageMarksOffline
  <1> DEFINE Own == \A u \in Users : row[u].ws_status /\ ~row'[u].ws_status =>
                      \E c \in Conns : /\ PageUser[c] = u
                                       /\ st[c] = "closing"
                                       /\ st'[c] = "gone"
  <1>1. DeliveryInv /\ DeliveryInv' /\ [Next]_vars => [Own]_vars
    BY OfflineStep DEF DeliveryInv, RegistryInv
  <1> QED
    BY <1>1, InitDelivery, DeliveryStep, PTL DEF Spec, OnlyOwnPageMarksOffline

-----------------------------------------------------------------------------
(* The relay implements Routing *)

LEMMA StrippedAppend ==
    ASSUME NEW s \in Seq(Frames), NEW f \in Frames
    PROVE  Stripped(Append(s, f)) = Append(Stripped(s), [kind |-> f.kind, user |-> f.user])
  BY DEF Stripped

LEMMA StrippedTail ==
    ASSUME NEW s \in Seq(Frames), s # <<>>
    PROVE  /\ Stripped(Tail(s)) = Tail(Stripped(s))
           /\ Stripped(s) # <<>>
           /\ Head(Stripped(s)) = [kind |-> Head(s).kind, user |-> Head(s).user]
  BY DEF Stripped

LEMMA UnsettledIs ==
    ASSUME TypeOK
    PROVE  /\ Unsettled \in Seq(Frames)
           /\ rpc # "head" => /\ Unsettled # <<>>
                              /\ Head(Unsettled) = cur
                              /\ Tail(Unsettled) = inflight
  BY DEF TypeOK, Unsettled

\* Every step of one life is a step of the promise, or changes nothing of it.
LEMMA RoutingStep ==
    ASSUME MaxRestarts = 0, TypeOK, TypeOK', HdlName, OnlineHasPage, restarts = 0,
           OneIdPerConnection, [Next]_vars
    PROVE  Promise!Next \/ UNCHANGED <<Presence, Pending, got>>
  <1> USE SizesAssumption, PagesAssumption
  <1>1. Unsettled \in Seq(Frames)
    BY UnsettledIs
  <1>2. ASSUME NEW c \in Conns, OnOpen(c) PROVE Promise!Come(c)
    <2>1. Presence[c] = "away" /\ Presence' = [Presence EXCEPT ![c] = "here"]
      BY <1>2 DEF OnOpen, Presence, TypeOK
    <2>2. UNCHANGED <<Pending, got>>
      BY <1>2 DEF OnOpen, thread, Pending, Unsettled, Stripped
    <2> QED
      BY <2>1, <2>2 DEF Promise!Come
  <1>3. ASSUME NEW c \in Conns, Lose(c) PROVE Promise!Leave(c)
    <2>1. Presence[c] = "here" /\ Presence' = [Presence EXCEPT ![c] = "leaving"]
      BY <1>3 DEF Lose, Presence, TypeOK
    <2>2. UNCHANGED <<Pending, got>>
      BY <1>3 DEF Lose, thread, Pending, Unsettled, Stripped
    <2> QED
      BY <2>1, <2>2 DEF Promise!Leave
  <1>4. ASSUME NEW c \in Conns, OnClose(c) PROVE Promise!Forget(c)
    <2>1. Presence[c] = "leaving" /\ Presence' = [Presence EXCEPT ![c] = "away"]
      BY <1>4 DEF OnClose, Presence, TypeOK
    <2>2. UNCHANGED <<Pending, got>>
      BY <1>4 DEF OnClose, thread, Pending, Unsettled, Stripped
    <2> QED
      BY <2>1, <2>2 DEF Promise!Forget
  <1>5. ASSUME NEW c \in Conns, OnLink(c) \/ OnCommand(c)
        PROVE  UNCHANGED <<Presence, Pending, got>>
    BY <1>5 DEF OnLink, OnCommand, thread, Presence, Pending, Unsettled, Stripped
  <1>6. ASSUME RecvFrame PROVE UNCHANGED <<Presence, Pending, got>>
    <2>1. Unsettled' = Unsettled
      BY <1>6 DEF RecvFrame, Unsettled, TypeOK
    <2> QED
      BY <1>6, <2>1 DEF RecvFrame, Presence, Pending, Stripped
  <1>7. ASSUME rpc # "head", Idle, UNCHANGED inflight
        PROVE  /\ Pending # <<>>
               /\ Head(Pending) = [kind |-> cur.kind, user |-> cur.user]
               /\ Pending' = Tail(Pending)
    <2>1. Unsettled' = Tail(Unsettled)
      BY <1>7, UnsettledIs DEF Idle, Unsettled
    <2> QED
      BY <1>7, <2>1, UnsettledIs, StrippedTail DEF Pending, Stripped
  <1>8. ASSUME Count PROVE Promise!Drop \/ UNCHANGED <<Presence, Pending, got>>
    <2>1. UNCHANGED <<Presence, got>>
      BY <1>8 DEF Count, Presence
    <2>2. CASE connect_id[cur.ws_id] = Absent
      BY <1>7, <1>8, <2>1, <2>2 DEF Count, Promise!Drop
    <2>3. CASE connect_id[cur.ws_id] # Absent
      BY <1>8, <2>1, <2>3 DEF Count, Pending, Unsettled, Stripped
    <2> QED
      BY <2>2, <2>3
  <1>9. ASSUME Lookup PROVE UNCHANGED <<Presence, Pending, got>>
    BY <1>9 DEF Lookup, Presence, Pending, Unsettled, Stripped
  <1>10. ASSUME Send PROVE \E c \in Conns : Promise!Show(c)
    <2>1. ws_hdl \in Conns /\ st[ws_hdl] = "open" /\ rpc = "send"
      BY <1>10 DEF Send, CanSend
    <2>2. PageUser[ws_hdl] = cur.user /\ PageKind[ws_hdl] = cur.kind
      BY <2>1 DEF HdlName
    <2>3. UNCHANGED Presence /\ Presence[ws_hdl] = "here"
      BY <1>10, <2>1 DEF Send, Presence
    <2>4. got' = [got EXCEPT ![ws_hdl] = @ \cup {<<PageUser[ws_hdl], PageKind[ws_hdl]>>}]
      BY <1>10, <2>2 DEF Send
    <2>5. Promise!Show(ws_hdl)
      BY <1>7, <1>10, <2>1, <2>2, <2>3, <2>4 DEF Send, Promise!Show
    <2> QED
      BY <2>1, <2>5
  <1>11. ASSUME Die PROVE Promise!Stop
    <2>1. Presence' = [c \in Conns |-> "away"]
      BY <1>11 DEF Die, Presence, TypeOK
    <2>2. Pending' = <<>>
      BY <1>11 DEF Die, Idle, Pending, Unsettled, Stripped
    <2> QED
      BY <1>11, <2>1, <2>2 DEF Die, Promise!Stop
  <1>12. ASSUME NEW u \in Users, NEW kind \in Kinds, Forward(u, kind)
         PROVE  Promise!AcceptFrame(u, kind)
    <2> DEFINE id == IF kind = "photo" THEN row[u].ws_photo ELSE row[u].ws_txt
               f == [kind |-> kind, ws_id |-> id, user |-> u]
    <2>1. id \in WsIds /\ f \in Frames
      BY DEF TypeOK, Frames
    <2>2. UNCHANGED <<Presence, got>>
      BY <1>12 DEF Forward, Presence
    <2>3. Unsettled' = Append(Unsettled, f)
      BY <1>12 DEF Forward, Unsettled, thread, TypeOK
    <2>4. Pending' = Append(Pending, [kind |-> kind, user |-> u])
      <3>1. Stripped(Append(Unsettled, f))
              = Append(Stripped(Unsettled), [kind |-> f.kind, user |-> f.user])
        BY <1>1, <2>1, StrippedAppend
      <3>2. Pending' = Stripped(Append(Unsettled, f))
        BY <2>3 DEF Pending, Stripped
      <3> QED
        BY <3>1, <3>2 DEF Pending
    <2>5. \E c \in Conns : PageUser[c] = u /\ Presence[c] # "away"
      <3>1. PICK i \in {row[u].ws_photo, row[u].ws_txt} :
               Holds(i) /\ PageUser[connect_id[i]] = u
        BY <1>12 DEF Forward, OnlineHasPage
      <3>2. i \in WsIds
        BY DEF TypeOK
      <3>3. Live(connect_id[i])
        BY <3>1, <3>2 DEF OneIdPerConnection
      <3> QED
        BY <3>1, <3>3 DEF Holds, Live, Presence
    <2> QED
      BY <2>2, <2>4, <2>5 DEF Promise!AcceptFrame
  <1>13. ASSUME TakeCommand PROVE UNCHANGED <<Presence, Pending, got>>
    BY <1>13 DEF TakeCommand, thread, Presence, Pending, Unsettled, Stripped
  <1>14. ~Restart
    BY DEF Restart
  <1>15. CASE UNCHANGED vars
    BY <1>15 DEF vars, thread, Presence, Pending, Unsettled, Stripped
  <1>16. CASE Next
    BY <1>2, <1>3, <1>4, <1>5, <1>6, <1>8, <1>9, <1>10, <1>11, <1>12, <1>13, <1>14, <1>16
       DEF Next, RecvThread, SendThrows, MapRace, Promise!Next
  <1> QED
    BY <1>15, <1>16

\* In one life of the process, with an id for every connection and no failing
\* UPDATE, the relay keeps its promise: frames are shown in order, at most
\* once, and to their owner, and only an owner with a page is sent any
\* (OnMessage, OnClose, recvInfo_from_TcpServer).
THEOREM RoutingRefined ==
    ASSUME MaxRestarts = 0, DbMayFail = FALSE, EnoughIds
    PROVE  Spec => ImplementsRouting
  <1> DEFINE Inv == DeliveryInv /\ OnlineHasPage
  <1>1. Init => Inv /\ Promise!Init
    <2>1. Init => OnlineHasPage
      BY DEF Init, OnlineHasPage
    <2>2. Init => Promise!Init
      BY DEF Init, Promise!Init, Presence, Pending, Unsettled, Stripped
    <2> QED
      BY <2>1, <2>2, InitDelivery
  <1>2. Inv /\ [Next]_vars => Inv'
    BY DeliveryStep, OnlineStep
  <1>3. Inv /\ Inv' /\ [Next]_vars => [Promise!Next]_(Promise!rvars)
    <2> SUFFICES ASSUME Inv, Inv', [Next]_vars
                 PROVE  Promise!Next \/ UNCHANGED <<Presence, Pending, got>>
      BY DEF Promise!rvars
    <2> QED
      BY RoutingStep DEF DeliveryInv, RegistryInv
  <1> QED
    BY <1>1, <1>2, <1>3, PTL DEF Spec, ImplementsRouting, Promise!Spec
=============================================================================
