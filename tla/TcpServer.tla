------------------------------ MODULE TcpServer ------------------------------
(***************************************************************************)
(* TCP_SERVER: one thread, a libev loop.  It accepts the home devices and  *)
(* the WS server on the same port, tells them apart by the peer address,   *)
(* and keeps one watcher per descriptor.  A camera frame of a device is    *)
(* stored in a directory of its session and relayed to the WS server; a    *)
(* text frame is relayed and echoed; a command of the WS server is sent to *)
(* the descriptor that it names.  The end of a session turns its pictures  *)
(* into a video.                                                           *)
(*                                                                         *)
(* A callback runs to its end without interruption, so it is one action.   *)
(* A frame is taken in the same action that sends it: a peer's bytes are   *)
(* not visible to anybody before the callback reads them.                  *)
(***************************************************************************)
EXTENDS Integers, FiniteSets

CONSTANTS
    Users,      \* rows of table user_info
    Links,      \* TCP connections, each made at most once
    Peer,       \* Peer[k]: the user whose device made link k, or Ws
    Ws,         \* the WS server, which connects from 127.0.0.1
    NoUser,     \* no user: what GetUserID reports as RES_UNEXIST
    Free,       \* descriptor not in use, picture not stored
    NoFile,     \* the video file does not exist
    Cut,        \* the video file is empty or truncated
    TcpId,      \* TcpId[f]: the user whose row has tcp_id = f, or NoUser
    LastFd,     \* bound: the last descriptor the process may open
    MaxTime,    \* bound: seconds that pass
    MaxImages   \* bound: pictures per session

\* Descriptors 0 to 6 belong to the process itself; ev_tcpServer.h takes 7
\* for the first connection and ws_server.cpp 8 for the second.
Fds == 7 .. LastFd
ArmFd == 8

Times == 0 .. MaxTime

\* The directory of a session is named after the user and the second it
\* started in; a session without a user has empty names, NoDir.
NoDir == <<>>
Dirs == (Users \X Times) \cup {NoDir}

\* Watcher data of a descriptor.
Sessions == [user : Users \cup {NoUser}, dir : Dirs, image_id : 1 .. (MaxImages + 1)]

\* What is written to a link, by its kind: a frame that is relayed, or what is
\* meant for a device, the echo of its text or a command.
Messages == {"frame", "reply"}

\* The pictures that a directory holds or a video shows.
Pictures == [1 .. MaxImages -> Links \cup {Free}]
NoPictures == [i \in 1 .. MaxImages |-> Free]

ASSUME BoundsAssumption ==
    /\ LastFd \in Nat
    /\ LastFd >= ArmFd
    /\ MaxTime \in Nat
    /\ MaxImages \in Nat

ASSUME PeersAssumption ==
    /\ Ws \notin Users
    /\ NoUser \notin Users
    /\ Free \notin Links
    /\ Peer \in [Links -> Users \cup {Ws}]
    /\ TcpId \in [Fds -> Users \cup {NoUser}]

ASSUME VideosAssumption == NoFile # Cut /\ NoFile \notin Pictures /\ Cut \notin Pictures

VARIABLES
    st,             \* st[k]: "idle", "pending" (in the backlog), "open",
                    \* "left" (the peer has closed) or "gone"
    fd,             \* fd[f]: the link on descriptor f, or Free
    sess,           \* sess[f]: the watcher data of descriptor f
    WS_TCP_CON_ID,  \* descriptor that relayed frames are written to
    stuck,          \* accept_socket_cb fails for ever
    clock,          \* the second GetTime reports
    online,         \* online[u]: ws_status of the user's row
    images,         \* images[d][i]: the link whose frame is image i of d
    videos,         \* videos[d]: what the video file of d shows
    listed,         \* d with a row in video_info
    got             \* got[k]: the kinds of message written to link k

files == <<images, videos, listed>>
vars == <<st, fd, sess, WS_TCP_CON_ID, stuck, clock, online, files, got>>

NoSession == [user |-> NoUser, dir |-> NoDir, image_id |-> 1]

TypeOK ==
    /\ st \in [Links -> {"idle", "pending", "open", "left", "gone"}]
    /\ fd \in [Fds -> Links \cup {Free}]
    /\ sess \in [Fds -> Sessions]
    /\ WS_TCP_CON_ID \in Fds \cup {0}
    /\ stuck \in BOOLEAN
    /\ clock \in Times
    /\ online \in [Users -> BOOLEAN]
    /\ images \in [Dirs -> Pictures]
    /\ videos \in [Dirs -> Pictures \cup {NoFile, Cut}]
    /\ listed \subseteq Dirs
    /\ got \in [Links -> SUBSET Messages]

Init ==
    /\ st = [k \in Links |-> "idle"]
    /\ fd = [f \in Fds |-> Free]
    /\ sess = [f \in Fds |-> NoSession]
    /\ WS_TCP_CON_ID = 0
    /\ stuck = FALSE
    /\ clock = 0
    /\ online = [u \in Users |-> FALSE]
    /\ images = [d \in Dirs |-> NoPictures]
    /\ videos = [d \in Dirs |-> NoFile]
    /\ listed = {}
    /\ got = [k \in Links |-> {}]

-----------------------------------------------------------------------------
(* Helpers *)

FreeFds == {f \in Fds : fd[f] = Free}

\* The kernel hands out the lowest free descriptor.
IsLowest(f, free) == f \in free /\ \A g \in free : f <= g

\* The session that init_watcher_data sets up on descriptor f.  When no row
\* names f, or the query fails, it returns early and user_id stays
\* uninitialised: any value.
StartSession(f, s) ==
    \/ /\ TcpId[f] # NoUser
       /\ s = [user |-> TcpId[f], dir |-> <<TcpId[f], clock>>, image_id |-> 1]
    \/ s \in [user : Users \cup {NoUser}, dir : {NoDir}, image_id : {1}]

IsOnline(u) == u \in Users /\ online[u]

\* Writes to descriptors: writes is a set of <<descriptor, kind>>.  One to
\* a descriptor without a peer is lost.
Write(writes) ==
    got' = [k \in Links |->
        IF st[k] = "open"
          THEN got[k] \cup {w[2] : w \in {x \in writes : x[1] \in Fds /\ fd[x[1]] = k}}
          ELSE got[k]]

\* A relay to the WS server, unless the user is offline.
Relay(f) ==
    IF IsOnline(sess[f].user) THEN {<<WS_TCP_CON_ID, "frame">>} ELSE {}

\* The watcher is stopped and its descriptor closed.
Close(f) ==
    /\ st' = [st EXCEPT ![fd[f]] = "gone"]
    /\ fd' = [fd EXCEPT ![f] = Free]
    /\ sess' = [sess EXCEPT ![f] = NoSession]

\* What the pattern image%d.jpg gives ffmpeg: the pictures before the first
\* number that is missing.
Leading(d) ==
    [i \in 1 .. MaxImages |->
        IF \A j \in 1 .. i : images[d][j] # Free THEN images[d][i] ELSE Free]

\* Mutant: a video of that name is made anew.
SaveImageToVideoOverwrites(d) ==
    /\ \/ videos' = videos
       \/ /\ 1 <= MaxImages
          /\ images[d][1] # Free
          /\ \E v \in {Leading(d), Cut} : videos' = [videos EXCEPT ![d] = v]
    /\ \/ listed' = listed
       \/ videos'[d] # NoFile /\ listed' = listed \cup {d}

\* SaveImageToVideo: ffmpeg finds no first picture or a video of that name and
\* stops; otherwise it makes the video, or fails, before it has created the
\* file or in the middle of it.  When there is a file, whatever is in it, a row
\* is inserted, if the database takes it.
SaveImageToVideo(d) ==
    /\ \/ videos' = videos
       \/ /\ 1 <= MaxImages
          /\ images[d][1] # Free
          /\ videos[d] = NoFile
          /\ \E v \in {Leading(d), Cut} : videos' = [videos EXCEPT ![d] = v]
    /\ \/ listed' = listed
       \/ videos'[d] # NoFile /\ listed' = listed \cup {d}

-----------------------------------------------------------------------------
(* The peers and the rest of the world *)

Connect(k) ==
    /\ st[k] = "idle"
    /\ st' = [st EXCEPT ![k] = "pending"]
    /\ UNCHANGED <<fd, sess, WS_TCP_CON_ID, stuck, clock, online, files, got>>

Leave(k) ==
    /\ st[k] = "open"
    /\ st' = [st EXCEPT ![k] = "left"]
    /\ UNCHANGED <<fd, sess, WS_TCP_CON_ID, stuck, clock, online, files, got>>

\* The pages of user u link or leave: the WS server writes ws_status.
PagesChange(u) ==
    /\ online' = [online EXCEPT ![u] = ~@]
    /\ UNCHANGED <<st, fd, sess, WS_TCP_CON_ID, stuck, clock, files, got>>

Tick ==
    /\ clock < MaxTime
    /\ clock' = clock + 1
    /\ UNCHANGED <<st, fd, sess, WS_TCP_CON_ID, stuck, online, files, got>>

-----------------------------------------------------------------------------
(* The callbacks *)

\* Mutant: the test of the peer address is lost.
AcceptNoAddressTest(k) ==
    /\ ~stuck
    /\ st[k] = "pending"
    /\ \E f \in FreeFds, s \in Sessions :
          /\ IsLowest(f, FreeFds)
          /\ StartSession(f, s)
          /\ fd' = [fd EXCEPT ![f] = k]
          /\ sess' = [sess EXCEPT ![f] = s]
          /\ WS_TCP_CON_ID' = f
    /\ st' = [st EXCEPT ![k] = "open"]
    /\ UNCHANGED <<stuck, clock, online, files, got>>

Accept(k) ==
    /\ ~stuck
    /\ st[k] = "pending"
    /\ \E f \in FreeFds, s \in Sessions :
          /\ IsLowest(f, FreeFds)
          /\ StartSession(f, s)
          /\ fd' = [fd EXCEPT ![f] = k]
          /\ sess' = [sess EXCEPT ![f] = s]
          /\ WS_TCP_CON_ID' = IF Peer[k] = Ws THEN f ELSE WS_TCP_CON_ID
    /\ st' = [st EXCEPT ![k] = "open"]
    /\ UNCHANGED <<stuck, clock, online, files, got>>

\* accept fails, for want of a descriptor, and is tried again in the callback
\* without end: the loop does not turn any more, so nobody frees one.
AcceptSpins ==
    /\ ~stuck
    /\ FreeFds = {}
    /\ \E k \in Links : st[k] = "pending"
    /\ stuck' = TRUE
    /\ UNCHANGED <<st, fd, sess, WS_TCP_CON_ID, clock, online, files, got>>

\* f is served by recv_socket_cb_net, or by recv_socket_cb_local.
IsNet(f) == fd[f] # Free /\ Peer[fd[f]] # Ws
IsLocal(f) == fd[f] # Free /\ Peer[fd[f]] = Ws

\* Mutant: the picture is counted though its file could not be opened.
RecvPhotoCountsAlways(f) ==
    /\ ~stuck
    /\ IsNet(f)
    /\ st[fd[f]] = "open"
    /\ sess[f].image_id <= MaxImages
    /\ \/ images' = [images EXCEPT ![sess[f].dir][sess[f].image_id] = fd[f]]
       \/ images' = images
    /\ sess' = [sess EXCEPT ![f].image_id = @ + 1]
    /\ Write(Relay(f))
    /\ UNCHANGED <<st, fd, WS_TCP_CON_ID, stuck, clock, online, videos, listed>>

\* A camera frame, type 99.
RecvPhoto(f) ==
    /\ ~stuck
    /\ IsNet(f)
    /\ st[fd[f]] = "open"
    /\ sess[f].image_id <= MaxImages
    /\ \/ /\ images' = [images EXCEPT ![sess[f].dir][sess[f].image_id] = fd[f]]
          /\ sess' = [sess EXCEPT ![f].image_id = @ + 1]
       \/ UNCHANGED <<images, sess>>  \* the file could not be opened
    /\ Write(Relay(f))
    /\ UNCHANGED <<st, fd, WS_TCP_CON_ID, stuck, clock, online, videos, listed>>

\* A text frame, type 100: relayed and echoed, both only to a user who is
\* online.
RecvText(f) ==
    /\ ~stuck
    /\ IsNet(f)
    /\ st[fd[f]] = "open"
    /\ IsOnline(sess[f].user)
    /\ Write(Relay(f) \cup {<<f, "reply">>})
    /\ UNCHANGED <<st, fd, sess, WS_TCP_CON_ID, stuck, clock, online, files>>

\* Mutant: the watcher goes, its descriptor stays.
RecvBadLengthLeaksFd(f) ==
    /\ ~stuck
    /\ IsNet(f)
    /\ st[fd[f]] = "open"
    /\ st' = [st EXCEPT ![fd[f]] = "gone"]
    /\ UNCHANGED <<fd, sess, WS_TCP_CON_ID, stuck, clock, online, files, got>>

\* A head that announces too much or an empty body: the link is closed and no
\* video is made.
RecvBadLength(f) ==
    /\ ~stuck
    /\ IsNet(f)
    /\ st[fd[f]] = "open"
    /\ Close(f)
    /\ UNCHANGED <<WS_TCP_CON_ID, stuck, clock, online, files, got>>

\* Mutant: a return in place of the break, so the link is not closed.
RecvEndReturns(f) ==
    /\ ~stuck
    /\ IsNet(f)
    /\ st[fd[f]] = "left"
    /\ SaveImageToVideo(sess[f].dir)
    /\ UNCHANGED <<st, fd, sess, WS_TCP_CON_ID, stuck, clock, online, images, got>>

\* The device has closed its end.
RecvEnd(f) ==
    /\ ~stuck
    /\ IsNet(f)
    /\ st[fd[f]] = "left"
    /\ SaveImageToVideo(sess[f].dir)
    /\ Close(f)
    /\ UNCHANGED <<WS_TCP_CON_ID, stuck, clock, online, images, got>>

\* A command of the WS server goes to the descriptor it names, always ArmFd.
RecvCommand(f) ==
    /\ ~stuck
    /\ IsLocal(f)
    /\ st[fd[f]] = "open"
    /\ Write({<<ArmFd, "reply">>})
    /\ UNCHANGED <<st, fd, sess, WS_TCP_CON_ID, stuck, clock, online, files>>

\* A head that announces too much or an empty command.
RecvLocalBadLength(f) ==
    /\ ~stuck
    /\ IsLocal(f)
    /\ st[fd[f]] = "open"
    /\ Close(f)
    /\ UNCHANGED <<WS_TCP_CON_ID, stuck, clock, online, files, got>>

\* Mutant: the id is reset to a value that is no descriptor.
RecvLocalEndResets(f) ==
    /\ ~stuck
    /\ IsLocal(f)
    /\ st[fd[f]] = "left"
    /\ Close(f)
    /\ WS_TCP_CON_ID' = -1
    /\ UNCHANGED <<stuck, clock, online, files, got>>

\* The WS server has closed its end; WS_TCP_CON_ID keeps its value.
RecvLocalEnd(f) ==
    /\ ~stuck
    /\ IsLocal(f)
    /\ st[fd[f]] = "left"
    /\ Close(f)
    /\ UNCHANGED <<WS_TCP_CON_ID, stuck, clock, online, files, got>>

-----------------------------------------------------------------------------
Next ==
    \/ \E k \in Links : Connect(k) \/ Leave(k) \/ Accept(k)
    \/ AcceptSpins
    \/ \E f \in Fds :
          \/ RecvPhoto(f)
          \/ RecvText(f)
          \/ RecvBadLength(f)
          \/ RecvEnd(f)
          \/ RecvCommand(f)
          \/ RecvLocalBadLength(f)
          \/ RecvLocalEnd(f)
    \/ \E u \in Users : PagesChange(u)
    \/ Tick

\* libev calls the callback of every descriptor that is ready, again and again.
Fairness ==
    /\ \A k \in Links : WF_vars(Accept(k))
    /\ WF_vars(AcceptSpins)
    /\ \A f \in Fds : WF_vars(RecvEnd(f)) /\ WF_vars(RecvLocalEnd(f))

Spec == Init /\ [][Next]_vars
FairSpec == Spec /\ Fairness

-----------------------------------------------------------------------------
(* Properties *)

\* A link is on exactly one descriptor from its accept to its close, whatever
\* the order in which peers come and go: none is lost to the loop while it is
\* served, and no descriptor stays taken after it.
FdTableSound ==
    /\ \A k \in Links : st[k] \in {"open", "left"} <=> \E f \in Fds : fd[f] = k
    /\ \A f, g \in Fds : fd[f] # Free /\ fd[f] = fd[g] => f = g

\* The pictures of a directory are numbered without a gap, which the pattern
\* image%d.jpg of the video needs, even when files cannot be opened and when
\* two sessions share a directory because they began in the same second.
ImagesSequential ==
    \A d \in Dirs, i \in 1 .. MaxImages :
        images[d][i] # Free => \A j \in 1 .. i : images[d][j] # Free

\* The comment on the test after ffmpeg says that it judges whether the video
\* was generated (SaveImageToVideo, line 632), and only then is the video
\* listed: so every listed video is complete.
ListedVideosPlay == \A d \in listed : videos[d] \in Pictures

\* The devices' frames are relayed to the WS server and to nobody else.
RelayOnlyToWs ==
    \A k \in Links : "frame" \in got[k] => Peer[k] = Ws

\* The same, as long as no link of the WS server has ended: the descriptor set
\* at its accept goes on naming it, in whatever order the devices come, go and
\* take each other's descriptors.
RelayWhileWsStays ==
    (\A k \in Links : Peer[k] = Ws => st[k] \notin {"left", "gone"}) => RelayOnlyToWs

\* The sessions in progress: a link and the directory it records into.
Recording == {<<fd[f], sess[f].dir>> : f \in {g \in Fds : fd[g] # Free}}

Promise == INSTANCE Recorder WITH
    sessions <- Recording, pictures <- images, films <- videos, listing <- listed

\* The descriptors, which are used again and again, the watchers' counters and
\* the directories that sessions of the same second share are together a
\* recorder: a picture is the next one of its directory or takes the place of
\* one that is there, under the link that sent it, a video that ffmpeg finishes
\* shows every picture its directory holds, and no video is touched again.
ImplementsRecorder == Promise!Spec

\* Nobody waits for ever: a peer in the backlog is accepted and a peer that
\* has closed is closed on this side too, unless the descriptors run out and
\* accept_socket_cb never returns.
LinkSettles ==
    \A k \in Links : st[k] \in {"pending", "left"} ~> stuck \/ st[k] \in {"open", "gone"}
=============================================================================
