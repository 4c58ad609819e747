# A verification of the family relay

The repository connects the devices of a home (an ARM board with a camera and
lamps) to the browsers of their owners. These TLA+ modules model the two relay
servers, the links between them and to the devices, the guard that brings them
back, and the demonstration of UDP hole punching that the repository contains;
TLC checks them on small instances and TLAPS proves the central results for all
instances.

    device --TCP--> TCP_SERVER --TCP, localhost--> WS_SERVER --WebSocket--> browser
                        |                              |
                        +-------- MySQL: user_info, video_info -------- web/*.php
    guard_program starts both servers and starts them again when they are gone

## 1. Inventory

### The relay

| component | state | operations | talks to |
|---|---|---|---|
| `WS_SERVER/src/ws_server.cpp` | `connect_id` (id -> connection), `loc_id`, `OffLine_id`, `clientSocket_fd`; all static, shared by two threads without a lock | asio thread: `OnOpen`, `OnClose`, `OnMessage`; thread `recvInfo_from_TcpServer` | browsers; the TCP server over one link; `user_info` (`ws_photo`, `ws_txt`, `ws_status`) |
| `TCP_SERVER/src/ev_tcpServer.cpp` | per descriptor a watcher with `watcher_data` (user, directories, picture number); `WS_TCP_CON_ID`; files; `video_info` | libev callbacks `accept_socket_cb`, `recv_socket_cb_net`, `recv_socket_cb_local`, each running to its end | devices, the WS server, both on one port; `user_info` (`tcp_id`, `ws_*`); ffmpeg |
| `*/src/MyDB.cpp` | one connection and one result pointer per process | `exeSQL` | MySQL |
| `guard_program/guard.c` | none that matters | poll with `ps`, `popen` what is missing | both servers |
| `web/client.php` and the other pages | per page: a camera and a console socket | link, command, quit, reconnect; login, registration, list of videos | WS server; MySQL |
| `client/client.c`, `client2.c` | `clientSocket`, shared by two threads | send frames, receive commands, reconnect | TCP server |
| `client/AES.cpp`, `control_car.cpp`, `MyJson.cpp` | - | cipher and hex codec; frame parser of a car (only constructed); JSON to action | - |

What makes each correct, and what makes that hard:

- **WS server.** A frame is for a user's page; it finds the page by an id that
  was assigned in `OnOpen`, stored in a row by a link message, read by another
  process, put on the wire and looked up by another thread. Connections close
  at any moment in between, the two threads interleave inside a lookup, an
  exception in the thread ends the process, and the rows outlive it. Correct
  means: an id is never ambiguous, a frame is never shown to somebody else, a
  user who is marked online can be reached, one who has left is marked offline.
- **TCP server.** One thread, but peers come and go in any order and their
  descriptor numbers, which identify them, are reused. Files, ffmpeg and
  the database fail independently. Correct means: descriptors and watchers
  match connections, frames go to the WS server as long as its link lives, a
  session's pictures are numbered without a gap and stay under the session's own
  link, and a video that is made is left alone.
- **Between them.** Each blocks when it writes to the other; the address of
  commands (descriptor 8) and of relayed frames (`WS_TCP_CON_ID`) are
  conventions about the order of connections.
- **Guard, pages, device client.** Crashes, reloads, lost links, retries.

### P2P chat, STUN, live-camera

`P2P-Over-MiddleBoxes-Demo-master` is a demonstration of UDP hole punching of
its own: `p2pchat/server.c` (a list of logged-in endpoints, a loop over
datagrams), `p2pchat/client.c` (three threads: console, receiver, keepalive; the
list of peers is shared), the message codec, a STUN client and test tools.
`live-camera` holds the start scripts of a vendored framework. cryptopp, jsoncpp,
websocketpp and jQuery are third-party.

- **Server.** Datagrams come late, twice or not at all; the list must not matter
  to peers that have found each other.
- **Client.** Three threads share the peer list and, without knowing, the state
  of `strtok`. Correct means: who is on the list of peers can be talked to, and
  a punch between NATs that allow it succeeds.
- **STUN client.** Correct means: the report does not promise more than the NAT
  allows, whatever is lost or late.

## 2. Plan

Done, in this order, the most important behaviour first:

1. `WsServer` - registry, receiving thread, rows, crash and restart;
   `WsServer_proofs` - type correctness, registry, delivery, the refinement.
2. `TcpServer` - descriptors, sessions, relay, pictures and videos;
   `TcpServer_proofs` - type correctness and every safety property.
3. `Routing` - what the relay promises its users; `WsServer` implements it.
4. `StreamLink` - one link as a stream of bytes: head and data, blocking
   receives, breaks and reconnects, the two threads of a peer;
   `StreamLink_proofs`.
5. `Recovery` - guard, starts, reconnects and the database together;
   `Recovery_proofs`.
6. `HolePunch` - chat server and clients behind NATs; `HolePunch_proofs`.
7. `NatTest` - the STUN client; `NatTest_proofs`.
8. `Recorder` - what the sessions of the TCP server promise; `TcpServer` implements it.

Who uses whom: `WsServer` instantiates `Routing`, and `TcpServer` `Recorder`, under a refinement mapping; the
`_proofs` modules extend the module they are about. The other modules stand side
by side, and what one assumes another shows: `WsServer` and `TcpServer` take
frames whole and in order, which `StreamLink` shows for a link that does not
break and, for devices, for every link; `WsServer` lets the process start again, and
`Recovery` shows that it does; `HolePunch` takes the kind of a NAT as given and
`NatTest` finds it out.

Left for later: the byte conversions (`intToBytes`, `msg_pack`) and
the hex codec of `AES.cpp`; `Routing` for restarts, which needs rows that are
reset at the start first; the proof that `StreamLink` without breaks is a queue
of frames.

## 3. The modules

### WsServer

One action per handler, one per step of the receiving thread that another thread
can get between:

| code (`ws_server.cpp`) | action |
|---|---|
| `OnOpen` 14-26 | `OnOpen(c)` |
| a connection breaks; websocketpp then calls `OnClose` 28-40 | `Lose(c)`, `OnClose(c)` |
| `OnMessage` 42-69, `link_photo`, `link_txt` | `OnLink(c)` |
| `OnMessage` 70-82, commands, with `ImmediateTranspond` 323-346 | `OnCommand(c)` |
| `recvInfo_from_TcpServer` 180-205 | `RecvFrame` |
| `connect_id.count` 209, `connect_id[ws_id]` 211, `send` 216-218 | `Count`, `Lookup`, `Send`, `SendThrows` |
| both threads in the map at once | `MapRace` |
| the guard starts the process again | `Restart` |
| the relay of `ev_tcpServer.cpp` 285-310; its reading of commands | `Forward(u, kind)`, `TakeCommand` |

`GetWsId` is the set of values the function may return; when the connection has
no entry it falls off its end and may return anything, which the model bounds to
the ids. The rows of `user_info` survive `Die`; everything else is lost.
`inflight` and `uplink` are the two directions of the link. A queue that is longer
than the buffer (`MaxQueue`) has its last frame still in the hands of the sender:
`AsioBlocked` stops every handler of the asio thread, `TcpBlocked` the
loop of the TCP server.
`MapRace` gives the data race its fatal outcome; a walk that misses an entry is
not distinguished, one that never ends is not modelled. `Kinds` are the two
sockets of `client.php`; a page sends link messages of its own kind and only
under its own user, as the page does. The branch that answers a message without
an action (85-95) changes nothing the properties see and is left out.
`OffLine_id` is a set: the code appends to it and never reads it.

### TcpServer

A callback is one action: the loop runs it to its end. `fd` is the kernel's table
as far as connections use it; a new connection gets the lowest free descriptor.

| code (`ev_tcpServer.cpp`) | action |
|---|---|
| `accept_socket_cb` 73-114 with `init_watcher_data` 589-623 | `Accept(k)` |
| its loop when `accept` fails 79-88 | `AcceptSpins` |
| `recv_socket_cb_net` 224-298, type 99 | `RecvPhoto(f)` |
| 299-316, type 100 | `RecvText(f)` |
| 257-261, 332-334 | `RecvBadLength(f)` |
| 243-247 with `SaveImageToVideo` 624-660 | `RecvEnd(f)` |
| `recv_socket_cb_local` 164-223 | `RecvCommand(f)`, `RecvLocalBadLength(f)`, `RecvLocalEnd(f)` |
| peers, pages, the clock | `Connect(k)`, `Leave(k)`, `PagesChange(u)`, `Tick` |

`TcpId` is the column `tcp_id` of `user_info`: nothing in the repository writes it
when a device connects, so it is a constant. A descriptor without a row, and any
descriptor when the query fails, gets an uninitialised `user_id`: any user or none,
and no directory (`StartSession`). `SaveImageToVideo` needs a first picture and does
not replace a video; ffmpeg then leaves no file, an empty or truncated one
(`Cut`), or one that shows the pictures up to the first number that is missing (`Leading`), and
whenever there is a file a row may be inserted. `got` keeps the kinds of the messages
written to a link: relayed frames, and what is meant for a device, echoes and commands.
Frames are whole and none is in flight across actions. Messages written to a
descriptor that nobody is on are lost. A type that is neither 99 nor 100 has no
effect and has no action.

### Routing

What users may rely on, without ids, rows, threads or links: frames are accepted
while the user has a page (`AcceptFrame`), dealt with one after the other in that
order, each shown to one page of that user and kind which is still there (`Show`)
or dropped (`Drop`). `WsServer` maps to it by `Presence` (a connection that is
open, lost, or neither), `Pending` (the frame in the thread and those on the
link, without their ids) and `got`. So `ImplementsRouting` says at once that no
frame is shown twice, out of order, to another user or on the wrong kind of page, and
that frames are accepted for users with a page only.

### Recorder

What a recording promises, without descriptors, users, counters or a clock: a link has one
session at a time (`Begin`), which only puts its own frames into its directory, each as the
next picture or in place of one that is there (`Take`), which may be another session's: its
picture is lost then. Its end may make a video that shows all the
directory then holds, or a cut one, once for all, and list it if there is a file (`End`), or
leave it at the pictures (`BreakOff`). `TcpServer` maps to it by `Recording`, the links and
directories of the descriptors in use; files and the list are the same. So
`ImplementsRecorder` says that descriptors that are used again, watchers that are reset and
directories that sessions of the same second share never make a session record under
another link, leave a gap, or touch a video that is made, and that a video ffmpeg
finishes leaves out no picture that is there.

### StreamLink

One peer (`end`, the WS server or a device) and the TCP server. A stream is
counted in units, one for a head and `K` for the data, so the phase of a unit says
what a receiver that is in step takes it for. A receiver that is not in step
reads any length (`LengthsAt`).

| code | action |
|---|---|
| `ImmediateTranspond` (ws_server.cpp 323-346), two sends | `WsSendHead`, `WsSendData` |
| sending loop of `client.c` 290-327, one send | `DevSend` |
| `recvInfo_from_TcpServer` 180-194, 198-203 | `WsReadHead`, `WsCheck` |
| `recv_function` (client.c 156-157) | `DevReadHead` |
| data: ws_server.cpp 205-224, client.c 158-175 | `ReadData` |
| `reconnect_tcp_server`, `connect_remote_server` | `Connect` |
| `accept_socket_cb`; head and data of both callbacks | `Accept(c)`, `RecvHead(c)`, `RecvData` |
| relayed and returned frames | `Forward(c)` |
| a link drops; the TCP server dies | `Break(c)`, `Die` |

`Forward` writes head and data at once: the server has one thread, and nobody else
writes to that connection between its two sends. A close or break cuts what is
under way anywhere (`Cuts`). A head is never cut: seven bytes that travel in one
segment. What a thread sends while the other one is between `close` and the end of
`connect` goes to nobody; that the descriptor's number may belong to a browser then is left
out. `Break` is for devices only, as the two servers are on one machine.

### Recovery

| code | action |
|---|---|
| `guard.c` 55-84, 86-119 | `GuardTcp`, `GuardWs` |
| `popen` of the second program fails, 99-102 | `WsNotStarted` |
| `ev_tcpServer` constructor and `start_server`; exit without a database | `TcpStart` |
| `accept_socket_cb`; a peer has left | `Accept`, `RecvEnd(f)` |
| `reconnect_tcp_server`, `connect_remote_server`, until they succeed | `Connect(p)` |
| `recv` finds the link broken | `Notices(p)` |
| `init_ws_server` and `ws_run`; exit without a database | `WsStart` |
| processes die, links break | `TcpDies`, `WsDies`, `DeviceBreaks` |
| `initDB` and `exeSQL` of both `MyDB.cpp`: the database stops and starts | `DbStops`, `DbStarts` |

`session[s]` is the MySQL session of a server. `initDB` opens it at the start of the
process and is called nowhere else, so a server that runs while the database stops
has lost it for the rest of its life: it lives and is linked, and every query fails.
Frames are relayed to a user whom a query says to be online, so such a server
relays none (`Relaying`).

The order in the WS server's `main` is kept: connect first, then the database, then
listen. Connections wait in a backlog in the order they were made. `Accept` waits
for a free descriptor where the program spins; the instances never run out. What the guard
sees is what runs.

### HolePunch

Clients, each behind a NAT of one of four kinds, and the server. The network is a
set of datagrams that may arrive late, in any order, repeatedly or never; those that
pass a call on are taken out on arrival, which only bounds the number of calls. What nobody acts
upon is not kept, but sending it opens the sender's NAT. Mappings of a NAT do not
expire.

| code (`p2pchat`) | action |
|---|---|
| `console_loop` of client.c: list, login, logout; quit; end of stdin | `Ask(c, type)`, `Quit(c)`, `ConsoleEof(c)` |
| punch and send: `strtok` ... `ep_fromstring` ... the sends | `BeginParse`, then `Punch` or `SendText` |
| `on_message` of server.c | `Login`, `Logout`, `List`, `RelayPunch` |
| `on_message` of client.c: a call by the server | `BeginCall`, `AnswerCall` |
| ... PUNCH and PING, REPLY of a peer | `AnswerPeer`, `AddPeer` |
| `keepalive_loop` | `Keepalive` |

`strtok[c]` is the thread whose string strtok's hidden static is in; when a
thread goes on in the other's string, the endpoint may lose its port or both parts
(`Parsed`), and `jumbled` records that it happened.

### NatTest

`Ask` sends the request of the test the client is at, `Receive` takes any answer that
passes the NAT and goes down the decision tree of `test_nat`, `TimeOut` does so
without one. An answer stays in flight after it has arrived, as UDP may deliver a copy,
and the client compares neither sender nor transaction id. `taken` are the tests
whose answers have arrived, and `copied` records that one of them came again and was
taken for the answer to another test. Whether an answer passes is asked when it arrives, so a late answer may
come through a hole that a later request has opened.

`MCWsServer`, `MCTcpServer`, `MCStreamLink`, `MCRecovery` and `MCHolePunch` name the
users, connections, ends and NATs of the instances; `NatTest` has no constants.

## 4. The runs

Passing runs:

| run | instance | shows |
|---|---|---|
| `ws_one_life` | 3 connections of 2 users (camera and console of one, camera of the other), 3 ids to give, one frame in the buffer, no restart, UPDATEs succeed | `LiveIsRegistered`, `NoMisdelivery`, `OnlineHasPage`, `OnlyOwnPageMarksOffline`, `ImplementsRouting` |
| `ws_restarts` | one user reloading the camera page three times, 2 ids to give, one restart, UPDATEs may fail | `TypeOK`, `OneIdPerConnection`, `DeadIdsStayDead` |
| `ws_left` | camera and console of one user, two frames in each buffer, fairness | `NobodyWaitsForEver`, `LeftIsMarkedOffline` |
| `tcp_record` | the WS server and a device that connects twice, two descriptors, of which the first has no row, queries that may fail, two seconds, two pictures, fairness | `TypeOK`, `FdTableSound`, `ImagesSequential`, `RelayWhileWsStays`, `ImplementsRecorder`, `LinkSettles` |
| `stream_link` | a device or the WS server, two connections, two frames each way, data of two units, breaks and a restart, fairness | `TypeOK`, `UpInStep`, `DownInStep`, `LoopReturns`, `BreakIsNoticed` |
| `recovery` | four faults, four descriptors, three places in the backlog, fairness | `TypeOK`, `RelayFindsWs`, `OneLivePerPeer`, `Recovers` |
| `punch` | two clients behind every pair of NAT kinds, three commands each, fairness | `TypeOK`, `PeersCanTalk`, `OnlyCone`, `PunchSucceeds` |
| `nat_test` | every kind of NAT, with and without a known local address | `TypeOK`, `NeverOverstated`, `ReportRight` |

Why the bounds suffice. Misdelivery needs an id, a frame that carries it and a
second connection that might take it: two users and three connections show every
relation between two pages, of one user or of two; a frame in the buffer, one in its
sender's hands and one in the thread are three at different stages. With three connections and two ids to give,
ids run out and a connection without one closes while others are open. One
restart shows what a row of an earlier life does; a second life forgets the same
things again. In `tcp_record` two descriptors serve three links, so numbers are
reused and run out, and two sessions share a directory when they
begin in one second and have two otherwise. In `stream_link` two units of data are enough to
cut a frame at every kind of place and to read data as a head, and a second connection to
have the first one's leftovers arrive next to it. Four faults let both servers die
and the database stop around any one of the steps by which they come back. Two
clients suffice for a punch, which concerns a pair; three commands are
login, list and punch, or a logout or quit at any point between them.
The proofs below cover the safety properties for every size.

Runs that are expected to find a violation, each a place where the program
differs from what it says of itself (see `findings` in PROJECT.json):

| run | what happens |
|---|---|
| `ws_misdelivery` | ids restart at 1 while the rows keep the old ones: another user's page gets the frames |
| `tcp_stale_ws` | a device gets the descriptor that `WS_TCP_CON_ID` still names |
| `tcp_cut_video` | ffmpeg fails after it has created its output; the file is there, so a video that does not play is listed |
| `link_out_of_step` | the TCP server restarts between the two sends of a command: the data open the new connection and are read as a head |

More follows from the models without a run of its own. `MAX_WSCON` bounds the
connections ever opened, not those that exist, because ids are used up
(`OnOpen`). `OnClose` may erase an id between `count` and `operator[]`, and the null
handle reaches `send` (`Lookup`). A command that is parsed while a call is answered
may punch nowhere (`jumbled`): `PunchSucceeds` excludes it. A late answer makes
the NAT test report a port restricted NAT as address restricted (`untimely`), and a
second copy of the first answer, taken for the answer to the second test, makes it report any NAT as
full cone, or a firewall as a public host (`copied`).
A server whose MySQL session is lost relays nothing until it dies (`Recovers`
states it as the one exception). A second session of the same user and second
replaces the pictures of the first (`Recorder!Take`).
After a crash a
user without a page stays online in `user_info` (no `OnClose` runs and no start
resets the rows), so the relay does not notice that the user is offline. A device without a row, or whose query fails, is
relayed under an uninitialised `user_id` and shares the empty directory with its like (`StartSession`). And when a device
connects before the WS server does, descriptor 8, where all commands go, is
the WS server itself (`RecvCommand`).

The runs that end by their bounds (connections made once, frames, commands, faults, the
end of the NAT test) do not check deadlock; `recovery` does.

### Fairness

`WsServer!Fairness`: websocketpp calls the close handler of every connection it
closes, and asio runs handlers in the order they became ready, so one that is
ready whenever the thread is free is run (strong fairness of `OnClose(c)`);
the receiving thread is an endless loop that the system schedules; libev calls
the callback of every ready descriptor before it polls again, so the TCP server, whenever it is not
blocked in a send, comes to the commands (strong fairness of
`TakeCommand`). Nothing is assumed of browsers, devices or the guard.
`NobodyWaitsForEver` also holds when the process dies: the link is gone then.
`TcpServer!Fairness`: libev calls the callback of every descriptor that is
ready, again and again, and a callback that has begun runs on, the loop in
`accept_socket_cb` included (weak fairness of `AcceptSpins`). That loop never ends once
descriptors have run out, so `LinkSettles` is about behaviours that do not come to it. Peers, pages
and the clock have no fairness.

`StreamLink!Fairness`: threads are scheduled (`Receiver`, and `WsSendData` of a
sender that has begun a frame), and the server's callback returns from a `recv` that can
(`RecvData`). Nothing is assumed of links, of the start of frames or of accepts.

`Recovery!Fairness`: guard and processes are scheduled, the loop turns, a `connect`
that is tried without end succeeds once there is room, and somebody starts the database again.
Faults have none, and there are finitely many.

`HolePunch!Fairness`: the receiver finishes an answer it has begun, and the three datagrams
a punch needs - the request to the server, the call, the reply - arrive if they could arrive again
and again (strong fairness: they compete with others for the receiver). The code
retries nothing, so nothing weaker gives anything. Keepalive, console and all other
datagrams have no fairness.

## 5. The proofs

`WsServer_proofs` proves, from the assumptions on the constants that `WsServer` states:

- `TypeCorrect`: `Spec => []TypeOK`.
- `RegistrySafe`: `OneIdPerConnection` and `DeadIdsStayDead` always, with
  restarts, failing UPDATEs and ids that run out. Neither is inductive. A
  connection without an id makes `OnClose` erase an arbitrary entry, so
  `RegistryInv` adds `UnregisteredOnlyAtMax` (a connection has no entry only once the
  counter is at its end); `operator[]` may insert at the id of a frame, so it adds
  `CountedIdIsUsed` (an id that has passed `count` is behind the counter, so the
  null entry can never stand in the way of `OnOpen`); and `OffLineIdsAreUsed`
  keeps the saved ids behind the counter too.
- `LiveReachable`: with more ids than connections, `LiveIsRegistered`.
- `DeliverySafe`: within one life of the process and with ids to spare,
  `NoMisdelivery`. The argument follows an id: a row, a frame in flight, the frame in the
  thread and the handle looked up each name only connections of the right user and kind
  (`RowsName`, `FramesName`, `CurName`, `HdlName`), because an id
  that was ever given out is never given to another connection.
- `OnlineSafe`: with UPDATEs that succeed too, `OnlineHasPage`.
- `OfflineByOwnPage`: the converse, for which UPDATEs may fail: only the close
  handler of one of a user's own pages takes the user's mark away
  (`OnlyOwnPageMarksOffline`), because what `OnClose` compares with the columns is the id of a
  connection that exists (`EveryoneHasId`), and a column with that id names a page of its
  own row's user (`RowsName`).
- `RoutingRefined`: with UPDATEs that succeed, `ImplementsRouting`. The initial
  states map to initial states; then one step per action shows the step of `Routing` it is:
  `Send` is `Show` or `Drop`, `Forward` is `AcceptFrame`, for which `OnlineHasPage` gives the
  page, `Lose` is `Leave`. `DeliveryInv` gives that `Send` shows the frame to a page of its user.
- `DeadStayDead`: the second half of `RegistrySafe`, by itself.

The hypotheses are needed: `ws_misdelivery` is what happens without the first, and a
connection without an id lets `OnClose` erase another user's entry and reset that
user's row.

`TcpServer_proofs` proves, from the assumptions of `TcpServer`:

- `TcpTypeCorrect` and `FdTableCorrect`: `TypeOK`; `FdTableSound`, which is
  inductive with the types.
- `FilesCorrect`: `ImagesSequential`, with files failing at will. It needs
  `SessionsBehind`: every session's next number is behind a directory that has all
  numbers before it, which survives a second session in the same directory
  because a picture is replaced and never removed.
- `RelaySafe`: `RelayWhileWsStays`, the half of `RelayOnlyToWs` that is true: a behaviour in
  which no link of the WS server has ended so far relays frames to it alone. Links that have ended
  stay so (`EndedStays`), so the hypothesis holds all the way back, and `RelayInv` carries that
  `WS_TCP_CON_ID` is then the descriptor of a link from the WS server. `tcp_stale_ws` shows
  what happens afterwards.
- `RecorderRefined`: `ImplementsRecorder`, with no hypothesis. `RecorderInv` is `FdTableSound`
  with the invariant of `FilesCorrect`: the first makes a close the end of exactly one
  session and an accept the begin of one whose link had none, the second makes a picture the next
  one or one that is there. `LeadingAll` has it that in a directory without gaps the pictures before
  the first missing number are all there are, so `SaveFilms` can say that a finished video shows the directory.

`StreamLink_proofs` proves, for frames of any length and any number of connections and
frames:

- `TypeCorrect`.
- `InStepSafe`: `UpInStep` and `DownInStep`; `PeerReadsInStep` is the latter. `Inv` carries (`Fresh`,
  `ServerInStep`, `PeerInStep`), for each connection, that what has been read and what is left
  add up to whole frames as long as nothing cut them, that a connection which is cut is broken, and
  that a receiver between head and data stands right behind the head. For a device a
  head that was not read is followed by data that are not there either, so the
  stale length does no harm; for the WS server the same holds until it reconnects
  in the middle of a round, and the theorem says so (`WsReconnected`).

`Recovery_proofs` proves for any number of faults, descriptors and waiting connections:

- `TypeCorrect`.
- `RelayFound`: `RelayFindsWs`. The invariant `Order` says why an older link of the WS
  server cannot take `WS_TCP_CON_ID` later: the link that lives is believed in
  (`LiveIsBelieved`), so there is one at most, it is the last in the backlog (`LastWaits`), and
  none waits behind one that is accepted (`AcceptedIsLast`).
- `OneLive`: `OneLivePerPeer`, for the device as well: a peer gives up its socket before it
  connects again, and what it gives up is live nowhere from then on (`HangupPlaces`).

`HolePunch_proofs` proves for any number of clients behind any NATs:

- `TypeCorrect`.
- `PunchSafe`: `PeersCanTalk` and `OnlyCone`; `SymmetricStaysAlone` is the latter. The invariant (`HolesSound`,
  `NetSound`, `ListsSound`) follows a REPLY: whoever sent it has opened
  its NAT towards where it was sent, and it arrives only where the own NAT is open.
  Holes are never closed, so both last.

`NatTest_proofs` proves, with all answers lost, late, copied or in any order:

- `TypeCorrect`.
- `ReportSafe`: `NeverOverstated`; and `ReportCorrect`: `ReportRight`. The module has no
  constants, so TLC visits all of its states too; the proof says why both hold. `Inv` has,
  test by test, what is in flight (`FlightSound`: answers to tests that were asked, which stay), whose
  answers can have arrived (`TakenSound`; so a first arrival that is not the answer to the present test
  is an answer given up as late), where the client has sent to, which is what its NAT lets
  in (`SentSound`), and what it knows of its NAT when it gets that far (`Learned`). What a copy spoils
  is the step from the first answer to the second test, so the parts of `Learned` and
  `NeverOverstated` that rest on it are for behaviours without one.

Only model-checked: the liveness properties (`NobodyWaitsForEver`,
`LeftIsMarkedOffline`, `LinkSettles`, `LoopReturns`, `BreakIsNoticed`, `Recovers`,
`PunchSucceeds`), which the prover does not handle. Every other property of a passing
run is stated by a theorem.

## 6. What is not modelled

- The conversion of numbers to bytes and back, the cipher, the bytes of messages
  and lists of `p2pchat` (`msg_pack`, `ep_tostring`): no property looks at them, and what a
  wrong length does is in `StreamLink`.
- A write to a descriptor blocking for want of buffer, except on the link to the
  WS server (`MaxQueue`). A device that vanishes without its connection ever
  breaking: the server's loop then waits in `recv` for as long as TCP does.
- A broken map that is not noticed (see `MapRace`), a `GetWsId` that returns
  a value that is no id.
- MySQL itself, its result objects and memory (that its sessions are lost with it is in
  `Recovery`); the file handles of the guard.
- Login, registration and video pages: single requests that leave all state to the
  database. `control_car.cpp`: never called. `logging.c`, `tools`, `libevdemo`:
  output and manual tests.
- Third-party code: cryptopp, jsoncpp, websocketpp, jQuery, Workerman. It is by
  far the most of the repository's lines; the modules model the program's own
  code, and of websocketpp, libev, ffmpeg, TCP, UDP, NATs and STUN servers what that
  code relies on.
