-------------------------- MODULE TcpServer_proofs --------------------------
(***************************************************************************)
(* Theorems about TcpServer: its variables keep their types, descriptors   *)
(* match links, pictures are numbered without a gap, the whole implements  *)
(* Recorder, and, while the WS server's links last, frames are relayed to  *)
(* them alone.                                                             *)
(***************************************************************************)
EXTENDS TcpServer, TLAPS

USE DEF Fds, ArmFd

\* A relay writes frames and nothing else.
LEMMA RelayType ==
    ASSUME NEW f \in Fds
    PROVE  \A w \in Relay(f) : w[2] = "frame" /\ w[1] = WS_TCP_CON_ID
  BY DEF Relay

\* What is written is added to what links have received.
LEMMA WriteType ==
    ASSUME TypeOK, NEW writes, \A w \in writes : w[2] \in Messages, Write(writes)
    PROVE  got' \in [Links -> SUBSET Messages]
  BY DEF Write, TypeOK

LEMMA NoSessionType == NoSession \in Sessions
  BY BoundsAssumption DEF NoSession, Sessions, Dirs

\* Closing a descriptor keeps the table and the sessions in their types.
LEMMA CloseType ==
    ASSUME TypeOK, NEW f \in Fds, fd[f] # Free, Close(f)
    PROVE  /\ st' \in [Links -> {"idle", "pending", "open", "left", "gone"}]
           /\ fd' \in [Fds -> Links \cup {Free}]
           /\ sess' \in [Fds -> Sessions]
  BY NoSessionType DEF Close, TypeOK

\* The type of a session with one more picture.
LEMMA NextImageType ==
    ASSUME TypeOK, NEW f \in Fds, sess[f].image_id <= MaxImages
    PROVE  [sess EXCEPT ![f].image_id = @ + 1] \in [Fds -> Sessions]
  <1>1. /\ sess[f] \in Sessions
        /\ sess[f].image_id + 1 \in 1 .. (MaxImages + 1)
    BY BoundsAssumption DEF TypeOK, Sessions
  <1>2. [sess[f] EXCEPT !.image_id = @ + 1] \in Sessions
    BY <1>1 DEF Sessions
  <1> QED
    BY <1>2 DEF TypeOK

\* A picture is stored under the number that the session has reached.
LEMMA StoreType ==
    ASSUME TypeOK, NEW f \in Fds, fd[f] # Free, sess[f].image_id <= MaxImages
    PROVE  /\ sess[f].dir \in Dirs
           /\ sess[f].image_id \in 1 .. MaxImages
           /\ [images EXCEPT ![sess[f].dir][sess[f].image_id] = fd[f]] \in [Dirs -> Pictures]
  <1>1. sess[f].dir \in Dirs /\ sess[f].image_id \in 1 .. MaxImages /\ fd[f] \in Links
    BY BoundsAssumption DEF TypeOK, Sessions
  <1>2. images \in [Dirs -> Pictures]
    BY DEF TypeOK
  <1>3. [images[sess[f].dir] EXCEPT ![sess[f].image_id] = fd[f]] \in Pictures
    BY <1>1, <1>2 DEF Pictures
  <1> QED
    BY <1>1, <1>2, <1>3

LEMMA SaveType ==
    ASSUME TypeOK, NEW d \in Dirs, SaveImageToVideo(d)
    PROVE  videos' \in [Dirs -> Pictures \cup {NoFile, Cut}] /\ listed' \subseteq Dirs
  <1>1. Leading(d) \in Pictures
    <2>1. \A i \in 1 .. MaxImages : images[d][i] \in Links \cup {Free}
      BY DEF Pictures, TypeOK
    <2> QED
      BY <2>1 DEF Leading, Pictures
  <1> QED
    BY <1>1 DEF SaveImageToVideo, TypeOK

-----------------------------------------------------------------------------
(* Type correctness *)

\* Init has the types.
LEMMA InitType == Init => TypeOK
  <1> SUFFICES ASSUME Init PROVE TypeOK
    OBVIOUS
  <1>1. NoPictures \in Pictures
    BY DEF NoPictures, Pictures
  <1>2. 0 \in Times
    BY BoundsAssumption DEF Times
  <1> QED
    BY <1>1, <1>2, NoSessionType DEF Init, TypeOK

\* Every action keeps the variables in their types.
LEMMA TypeStep == TypeOK /\ [Next]_vars => TypeOK'
  <1> SUFFICES ASSUME TypeOK, [Next]_vars PROVE TypeOK'
    OBVIOUS
  <1>1. ASSUME NEW k \in Links, Connect(k) \/ Leave(k) PROVE TypeOK'
    BY <1>1 DEF Connect, Leave, TypeOK, files
  <1>2. ASSUME NEW k \in Links, Accept(k) PROVE TypeOK'
    BY <1>2 DEF Accept, TypeOK, files, FreeFds, IsLowest
  <1>3. CASE AcceptSpins
    BY <1>3 DEF AcceptSpins, TypeOK, files
  <1>4. ASSUME NEW f \in Fds, RecvPhoto(f) PROVE TypeOK'
    <2>1. /\ got' \in [Links -> SUBSET Messages]
      BY <1>4, RelayType, WriteType DEF RecvPhoto, Messages
    <2>2. images' \in [Dirs -> Pictures] /\ sess' \in [Fds -> Sessions]
      <3>1. fd[f] # Free /\ sess[f].image_id <= MaxImages
        BY <1>4 DEF RecvPhoto, IsNet
      <3>2. [images EXCEPT ![sess[f].dir][sess[f].image_id] = fd[f]] \in [Dirs -> Pictures]
        BY <3>1, StoreType
      <3>3. [sess EXCEPT ![f].image_id = @ + 1] \in [Fds -> Sessions]
        BY <3>1, NextImageType
      <3>4. images \in [Dirs -> Pictures] /\ sess \in [Fds -> Sessions]
        BY DEF TypeOK
      <3>5. CASE UNCHANGED <<images, sess>>
        BY <3>4, <3>5
      <3>6. CASE /\ images' = [images EXCEPT ![sess[f].dir][sess[f].image_id] = fd[f]]
                 /\ sess' = [sess EXCEPT ![f].image_id = @ + 1]
        BY <3>2, <3>3, <3>6
      <3> QED
        BY <1>4, <3>5, <3>6 DEF RecvPhoto
    <2> QED
      BY <1>4, <2>1, <2>2 DEF RecvPhoto, TypeOK
  <1>5. ASSUME NEW f \in Fds, RecvText(f) PROVE TypeOK'
    <2>1. \A w \in Relay(f) \cup {<<f, "reply">>} : w[2] \in Messages
      BY RelayType DEF Messages
    <2>2. got' \in [Links -> SUBSET Messages]
      BY <1>5, <2>1, WriteType DEF RecvText
    <2> QED
      BY <1>5, <2>2 DEF RecvText, TypeOK, files
  <1>6. ASSUME NEW f \in Fds, RecvBadLength(f) \/ RecvLocalBadLength(f) \/ RecvLocalEnd(f)
        PROVE TypeOK'
    BY <1>6, CloseType DEF RecvBadLength, RecvLocalBadLength, RecvLocalEnd, IsNet, IsLocal,
       TypeOK, files
  <1>7. ASSUME NEW f \in Fds, RecvEnd(f) PROVE TypeOK'
    <2>1. sess[f].dir \in Dirs
      BY DEF TypeOK, Sessions
    <2> QED
      BY <1>7, <2>1, CloseType, SaveType DEF RecvEnd, IsNet, TypeOK
  <1>8. ASSUME NEW f \in Fds, RecvCommand(f) PROVE TypeOK'
    <2>1. \A w \in {<<ArmFd, "reply">>} : w[2] \in Messages
      BY DEF Messages
    <2>2. got' \in [Links -> SUBSET Messages]
      BY <1>8, <2>1, WriteType DEF RecvCommand
    <2> QED
      BY <1>8, <2>2 DEF RecvCommand, TypeOK, files
  <1>9. ASSUME NEW u \in Users, PagesChange(u) PROVE TypeOK'
    BY <1>9 DEF PagesChange, TypeOK, files
  <1>10. CASE Tick
    BY <1>10, BoundsAssumption DEF Tick, TypeOK, files, Times
  <1>11. CASE UNCHANGED vars
    BY <1>11 DEF vars, TypeOK, files
  <1> QED
    BY <1>1, <1>2, <1>3, <1>4, <1>5, <1>6, <1>7, <1>8, <1>9, <1>10, <1>11 DEF Next

\* The variables of the TCP server keep their types in every behaviour.
THEOREM TcpTypeCorrect == Spec => []TypeOK
  BY InitType, TypeStep, PTL DEF Spec

-----------------------------------------------------------------------------
(* Descriptors *)

\* Closing a descriptor frees exactly the link that was on it.
LEMMA CloseTable ==
    ASSUME TypeOK, FdTableSound, NEW f \in Fds, fd[f] # Free, Close(f)
    PROVE  FdTableSound'
  <1>1. fd[f] \in Links /\ (\A g \in Fds : g # f => fd[g] # fd[f])
    BY DEF TypeOK, FdTableSound
  <1>2. /\ \A k \in Links : st'[k] = IF k = fd[f] THEN "gone" ELSE st[k]
        /\ \A g \in Fds : fd'[g] = IF g = f THEN Free ELSE fd[g]
    BY <1>1 DEF Close, TypeOK
  <1> QED
    BY <1>1, <1>2, PeersAssumption DEF FdTableSound, TypeOK

\* A link that is accepted was on no descriptor, and gets one that was free.
LEMMA AcceptTable ==
    ASSUME TypeOK, FdTableSound, NEW k \in Links, Accept(k)
    PROVE  FdTableSound'
  <1>1. PICK f \in Fds : fd[f] = Free /\ fd' = [fd EXCEPT ![f] = k]
    BY DEF Accept, FreeFds
  <1>2. /\ st[k] = "pending"
        /\ \A j \in Links : st'[j] = IF j = k THEN "open" ELSE st[j]
        /\ \A g \in Fds : fd'[g] = IF g = f THEN k ELSE fd[g]
    BY <1>1 DEF Accept, TypeOK
  <1>3. \A g \in Fds : fd[g] # k
    BY <1>2 DEF FdTableSound
  <1> QED
    BY <1>1, <1>2, <1>3, PeersAssumption DEF FdTableSound, TypeOK

\* Every step keeps the table sound.
LEMMA TableStep == TypeOK /\ FdTableSound /\ [Next]_vars => FdTableSound'
  <1> SUFFICES ASSUME TypeOK, FdTableSound, [Next]_vars PROVE FdTableSound'
    OBVIOUS
  <1>1. ASSUME NEW k \in Links, Connect(k) \/ Leave(k) PROVE FdTableSound'
    <2>1. fd' = fd /\ \A j \in Links :
             st'[j] \in {"open", "left"} <=> st[j] \in {"open", "left"}
      BY <1>1 DEF Connect, Leave, TypeOK
    <2> QED
      BY <2>1 DEF FdTableSound
  <1>2. ASSUME NEW k \in Links, Accept(k) PROVE FdTableSound'
    BY <1>2, AcceptTable
  <1>3. ASSUME NEW f \in Fds,
               RecvBadLength(f) \/ RecvEnd(f) \/ RecvLocalBadLength(f) \/ RecvLocalEnd(f)
        PROVE FdTableSound'
    BY <1>3, CloseTable DEF RecvBadLength, RecvEnd, RecvLocalBadLength, RecvLocalEnd, IsNet,
       IsLocal
  <1>4. ASSUME NEW f \in Fds, RecvPhoto(f) \/ RecvText(f) \/ RecvCommand(f)
        PROVE FdTableSound'
    BY <1>4 DEF RecvPhoto, RecvText, RecvCommand, FdTableSound
  <1>5. ASSUME AcceptSpins \/ Tick \/ \E u \in Users : PagesChange(u)
        PROVE FdTableSound'
    BY <1>5 DEF AcceptSpins, Tick, PagesChange, FdTableSound
  <1>6. CASE UNCHANGED vars
    BY <1>6 DEF vars, FdTableSound
  <1> QED
    BY <1>1, <1>2, <1>3, <1>4, <1>5, <1>6 DEF Next

LEMMA InitTable == Init => FdTableSound
  BY PeersAssumption DEF Init, FdTableSound

\* A link is on exactly one descriptor from its accept to its close.
THEOREM FdTableCorrect == Spec => []FdTableSound
  BY InitTable, InitType, TypeStep, TableStep, PTL DEF Spec

-----------------------------------------------------------------------------
(* Pictures *)

\* Every session is behind what its directory holds: all pictures before the
\* next one are there.  Two sessions may share a directory, so the directory
\* may hold more.
SessionsBehind ==
    \A f \in Fds : \A j \in 1 .. MaxImages :
        j < sess[f].image_id => images[sess[f].dir][j] # Free

FilesInv == TypeOK /\ ImagesSequential /\ SessionsBehind

\* Sessions that start or end are behind any directory.
LEMMA NewSessionBehind ==
    ASSUME TypeOK, SessionsBehind, images' = images, NEW f \in Fds, NEW s \in Sessions,
           s.image_id = 1, sess' = [sess EXCEPT ![f] = s]
    PROVE  SessionsBehind'
  <1>1. \A g \in Fds : sess'[g] = IF g = f THEN s ELSE sess[g]
    BY DEF TypeOK
  <1> QED
    BY <1>1 DEF SessionsBehind

\* The next picture closes up with the ones before it, also in the eyes of
\* other sessions that use the directory.
LEMMA PhotoFiles ==
    ASSUME FilesInv, NEW f \in Fds, RecvPhoto(f)
    PROVE  ImagesSequential' /\ SessionsBehind'
  <1> DEFINE d == sess[f].dir
             n == sess[f].image_id
  <1>1. /\ fd[f] \in Links /\ fd[f] # Free
        /\ n \in 1 .. MaxImages /\ d \in Dirs
        /\ MaxImages \in Nat
    BY StoreType, BoundsAssumption DEF RecvPhoto, IsNet, FilesInv, TypeOK
  <1>2. CASE UNCHANGED <<images, sess>>
    BY <1>2 DEF FilesInv, ImagesSequential, SessionsBehind
  <1>3. CASE /\ images' = [images EXCEPT ![d][n] = fd[f]]
             /\ sess' = [sess EXCEPT ![f].image_id = n + 1]
    <2>1. \A e \in Dirs, i \in 1 .. MaxImages :
             images'[e][i] = IF e = d /\ i = n THEN fd[f] ELSE images[e][i]
      BY <1>1, <1>3 DEF FilesInv, TypeOK, Pictures
    <2>2. \A j \in 1 .. MaxImages : j < n => images[d][j] # Free
      BY DEF FilesInv, SessionsBehind
    <2>3. ImagesSequential'
      <3> SUFFICES ASSUME NEW e \in Dirs, NEW i \in 1 .. MaxImages, images'[e][i] # Free,
                          NEW j \in 1 .. i
                   PROVE  images'[e][j] # Free
        BY DEF ImagesSequential
      <3>0. j \in 1 .. MaxImages
        BY <1>1
      <3>1. CASE e = d /\ i = n
        BY <3>0, <3>1, <2>1, <2>2, <1>1
      <3>2. CASE ~(e = d /\ i = n)
        BY <3>0, <3>2, <2>1, <1>1 DEF FilesInv, ImagesSequential
      <3> QED
        BY <3>1, <3>2
    <2>4. \A g \in Fds : /\ sess[g].dir \in Dirs
                         /\ sess'[g].dir = sess[g].dir
                         /\ sess'[g].image_id = IF g = f THEN n + 1 ELSE sess[g].image_id
      BY <1>3 DEF FilesInv, TypeOK, Sessions
    <2>5. SessionsBehind'
      <3> SUFFICES ASSUME NEW g \in Fds, NEW j \in 1 .. MaxImages, j < sess'[g].image_id
                   PROVE  images'[sess[g].dir][j] # Free
        BY <2>4 DEF SessionsBehind
      <3>1. CASE g = f /\ j = n
        BY <3>1, <2>1, <2>4, <1>1
      <3>2. CASE ~(g = f /\ j = n)
        <4>1. j < sess[g].image_id
          BY <3>2, <2>4, <1>1
        <4> QED
          BY <4>1, <2>1, <2>4, <1>1 DEF FilesInv, SessionsBehind
      <3> QED
        BY <3>1, <3>2
    <2> QED
      BY <2>3, <2>5
  <1> QED
    BY <1>2, <1>3 DEF RecvPhoto

\* Every step keeps what holds of the files.
LEMMA FilesStep == FilesInv /\ [Next]_vars => FilesInv'
  <1> SUFFICES ASSUME FilesInv, [Next]_vars PROVE FilesInv'
    OBVIOUS
  <1>0. TypeOK'
    BY TypeStep DEF FilesInv
  <1>1. ASSUME NEW f \in Fds, RecvPhoto(f) PROVE FilesInv'
    BY <1>0, <1>1, PhotoFiles DEF FilesInv
  <1>2. ASSUME NEW k \in Links, Accept(k) PROVE FilesInv'
    <2>1. PICK f \in FreeFds, s \in Sessions :
             StartSession(f, s) /\ sess' = [sess EXCEPT ![f] = s]
      BY <1>2 DEF Accept
    <2>2. f \in Fds /\ s.image_id = 1
      BY <2>1 DEF StartSession, FreeFds
    <2>3. SessionsBehind'
      BY <1>2, <2>1, <2>2, NewSessionBehind DEF Accept, files, FilesInv
    <2> QED
      BY <1>0, <1>2, <2>3 DEF Accept, files, FilesInv, ImagesSequential
  <1>3. ASSUME NEW f \in Fds, Close(f), images' = images
        PROVE FilesInv'
    <2>1. SessionsBehind'
      BY <1>3, NoSessionType, NewSessionBehind DEF Close, NoSession, FilesInv
    <2> QED
      BY <1>0, <1>3, <2>1 DEF FilesInv, ImagesSequential
  <1>4. ASSUME NEW f \in Fds,
               RecvBadLength(f) \/ RecvEnd(f) \/ RecvLocalBadLength(f) \/ RecvLocalEnd(f)
        PROVE FilesInv'
    <2>1. Close(f) /\ images' = images
      BY <1>4 DEF RecvBadLength, RecvEnd, RecvLocalBadLength, RecvLocalEnd, files
    <2> QED
      BY <2>1, <1>3
  <1>5. ASSUME UNCHANGED <<sess, files>> PROVE FilesInv'
    BY <1>0, <1>5 DEF files, FilesInv, ImagesSequential, SessionsBehind
  <1> QED
    BY <1>1, <1>2, <1>4, <1>5 DEF Next, vars, Connect, Leave, AcceptSpins, RecvText,
       RecvCommand, PagesChange, Tick

\* There are no pictures at first.
LEMMA InitFiles == Init => FilesInv
  <1> SUFFICES ASSUME Init PROVE FilesInv
    OBVIOUS
  <1>1. TypeOK
    BY InitType
  <1>2. \A f \in Fds : sess[f].image_id = 1
    BY DEF Init, NoSession
  <1>3. \A d \in Dirs, i \in 1 .. MaxImages : images[d][i] = Free
    BY DEF Init, NoPictures
  <1> QED
    BY <1>1, <1>2, <1>3 DEF FilesInv, ImagesSequential, SessionsBehind

\* The pictures of every directory are numbered without a gap, for every number
\* of links, descriptors and pictures (recv_socket_cb_net, type 99).
THEOREM FilesCorrect == Spec => []ImagesSequential
  <1>1. FilesInv => ImagesSequential
    BY DEF FilesInv
  <1> QED
    BY <1>1, InitFiles, FilesStep, PTL DEF Spec

-----------------------------------------------------------------------------
(***************************************************************************)
(* TcpServer implements Recorder.  A step that opens, closes or fills a    *)
(* session is the step of the recorder that the descriptor table says it   *)
(* is; all others stutter.                                                 *)
(***************************************************************************)
RecorderInv == FdTableSound /\ FilesInv

\* The sessions in progress are those of the descriptors in use.
LEMMA RecordingIs ==
    ASSUME NEW s
    PROVE  s \in Recording <=> \E f \in Fds : fd[f] # Free /\ s = <<fd[f], sess[f].dir>>
  BY DEF Recording

LEMMA RecordingNext ==
    ASSUME NEW s
    PROVE  s \in Recording' <=>
              \E f \in Fds : fd'[f] # Free /\ s = <<fd'[f], sess'[f].dir>>
  BY DEF Recording

\* A new link begins a session and had none.
LEMMA AcceptBegins ==
    ASSUME RecorderInv, NEW k \in Links, Accept(k)
    PROVE  \E d \in Dirs : Promise!Begin(k, d)
  <1> USE DEF RecorderInv, FilesInv, TypeOK
  <1>1. PICK f \in Fds, s \in Sessions : /\ fd[f] = Free
                                        /\ fd' = [fd EXCEPT ![f] = k]
                                        /\ sess' = [sess EXCEPT ![f] = s]
    BY DEF Accept, FreeFds
  <1>2. s.dir \in Dirs /\ k # Free
    BY PeersAssumption DEF Sessions
  <1>3. \A g \in Fds : /\ fd'[g] = IF g = f THEN k ELSE fd[g]
                       /\ sess'[g] = IF g = f THEN s ELSE sess[g]
    BY <1>1
  <1>4. \A g \in Fds : fd[g] # k
    BY DEF Accept, FdTableSound
  <1>5. \A r \in Recording : r[1] # k
    BY <1>4, RecordingIs
  <1>6. Recording' = Recording \cup {<<k, s.dir>>}
    <2>1. ASSUME NEW r PROVE r \in Recording' <=> r \in Recording \cup {<<k, s.dir>>}
      <3>1. CASE r \in Recording'
        <4>1. PICK g \in Fds : fd'[g] # Free /\ r = <<fd'[g], sess'[g].dir>>
          BY <3>1, RecordingNext
        <4>2. CASE g = f
          <5>1. r = <<k, s.dir>>
            BY <4>1, <4>2, <1>3
          <5> QED
            BY <5>1, <3>1
        <4>3. CASE g # f
          <5>1. fd[g] # Free /\ r = <<fd[g], sess[g].dir>>
            BY <4>1, <4>3, <1>3
          <5>2. r \in Recording
            BY ONLY <5>1, RecordingIs
          <5> QED
            BY ONLY <5>2, <3>1
        <4> QED
          BY <4>2, <4>3
      <3>2. CASE r = <<k, s.dir>>
        <4>1. fd'[f] # Free /\ r = <<fd'[f], sess'[f].dir>>
          BY <3>2, <1>2, <1>3
        <4> QED
          BY <4>1, <3>2, RecordingNext
      <3>3. CASE r \in Recording
        <4>1. PICK g \in Fds : fd[g] # Free /\ r = <<fd[g], sess[g].dir>>
          BY <3>3, RecordingIs
        <4>2. fd'[g] # Free /\ r = <<fd'[g], sess'[g].dir>>
          BY <4>1, <1>1, <1>3
        <4> QED
          BY <4>2, <3>3, RecordingNext
      <3> QED
        BY <3>1, <3>2, <3>3
    <2> QED
      BY <2>1
  <1>7. UNCHANGED files
    BY DEF Accept
  <1> QED
    BY <1>2, <1>5, <1>6, <1>7 DEF Promise!Begin, files

\* Closing a descriptor takes away the session of its link and no other.
LEMMA CloseEnds ==
    ASSUME RecorderInv, NEW f \in Fds, fd[f] # Free, Close(f)
    PROVE  /\ <<fd[f], sess[f].dir>> \in Recording
           /\ Recording' = Recording \ {<<fd[f], sess[f].dir>>}
  <1> USE DEF RecorderInv, FilesInv, TypeOK
  <1>1. \A g \in Fds : /\ fd'[g] = IF g = f THEN Free ELSE fd[g]
                       /\ g # f => sess'[g] = sess[g]
    BY DEF Close
  <1>2. ASSUME NEW r
        PROVE  r \in Recording' <=> r \in Recording \ {<<fd[f], sess[f].dir>>}
    <2>1. CASE r \in Recording'
      <3>1. PICK g \in Fds : fd'[g] # Free /\ r = <<fd'[g], sess'[g].dir>>
        BY <2>1, RecordingNext
      <3>2. g # f /\ fd[g] # Free /\ r = <<fd[g], sess[g].dir>>
        BY <3>1, <1>1
      <3>3. fd[g] # fd[f]
        BY <3>2 DEF FdTableSound
      <3>4. r # <<fd[f], sess[f].dir>>
        BY ONLY <3>2, <3>3
      <3>5. r \in Recording
        BY ONLY <3>2, RecordingIs
      <3> QED
        BY ONLY <3>4, <3>5, <2>1
    <2>2. CASE r \in Recording \ {<<fd[f], sess[f].dir>>}
      <3>1. PICK g \in Fds : fd[g] # Free /\ r = <<fd[g], sess[g].dir>>
        BY <2>2, RecordingIs
      <3>2. g # f
        BY <3>1, <2>2
      <3>3. fd'[g] # Free /\ r = <<fd'[g], sess'[g].dir>>
        BY <3>1, <3>2, <1>1
      <3>4. r \in Recording'
        BY ONLY <3>3, RecordingNext
      <3> QED
        BY ONLY <3>4, <2>2
    <2> QED
      BY <2>1, <2>2
  <1>3. <<fd[f], sess[f].dir>> \in Recording
    BY RecordingIs
  <1> QED
    BY <1>2, <1>3

\* A camera frame is the next picture of its session, replaces one, or is
\* dropped.
LEMMA PhotoTakes ==
    ASSUME RecorderInv, NEW f \in Fds, RecvPhoto(f)
    PROVE  \/ \E k \in Links, d \in Dirs, n \in 1 .. MaxImages : Promise!Take(k, d, n)
           \/ UNCHANGED <<Recording, files>>
  <1> USE DEF RecorderInv, FilesInv
  <1> DEFINE d == sess[f].dir
             n == sess[f].image_id
  <1>1. /\ fd[f] \in Links /\ fd[f] # Free
        /\ n \in 1 .. MaxImages /\ d \in Dirs
        /\ MaxImages \in Nat
    BY StoreType, BoundsAssumption DEF RecvPhoto, IsNet, TypeOK
  <1>2. \A g \in Fds : sess'[g].dir = sess[g].dir
    <2>1. CASE sess' = sess
      BY <2>1
    <2>2. CASE sess' = [sess EXCEPT ![f].image_id = sess[f].image_id + 1]
      BY <2>2 DEF TypeOK, Sessions
    <2> QED
      BY <2>1, <2>2 DEF RecvPhoto
  <1>3. Recording' = Recording
    <2>1. fd' = fd
      BY DEF RecvPhoto
    <2>2. ASSUME NEW r PROVE r \in Recording' <=> r \in Recording
      BY <1>2, <2>1, RecordingIs, RecordingNext
    <2> QED
      BY <2>2
  <1>4. UNCHANGED <<videos, listed>>
    BY DEF RecvPhoto
  <1>5. CASE images' = images
    BY <1>3, <1>4, <1>5 DEF files
  <1>6. CASE images' = [images EXCEPT ![d][n] = fd[f]]
    <2>1. \A m \in 1 .. (n - 1) : images[d][m] # Free
      BY <1>1 DEF SessionsBehind
    <2>2. <<fd[f], d>> \in Recording
      BY <1>1, RecordingIs
    <2>3. Promise!Take(fd[f], d, n)
      BY <2>1, <2>2, <1>3, <1>4, <1>6 DEF Promise!Take
    <2> QED
      BY <2>3, <1>1
  <1> QED
    BY <1>5, <1>6 DEF RecvPhoto

\* Without a gap before them, the pictures that ffmpeg finds are all there are.
LEMMA LeadingAll ==
    ASSUME TypeOK, ImagesSequential, NEW d \in Dirs
    PROVE  Leading(d) = images[d]
  <1>1. images[d] \in Pictures
    BY DEF TypeOK
  <1>2. ASSUME NEW i \in 1 .. MaxImages PROVE Leading(d)[i] = images[d][i]
    <2>1. CASE images[d][i] = Free
      BY <2>1 DEF Leading
    <2>2. CASE images[d][i] # Free
      BY <2>2 DEF Leading, ImagesSequential
    <2> QED
      BY <2>1, <2>2
  <1> QED
    BY <1>1, <1>2 DEF Leading, Pictures

\* SaveImageToVideo makes and lists the video of its directory as promised:
\* what it makes is cut or shows the whole directory.
LEMMA SaveFilms ==
    ASSUME TypeOK, ImagesSequential, NEW d \in Dirs, SaveImageToVideo(d)
    PROVE  Promise!Film(d) /\ Promise!List(d)
  <1>1. Promise!List(d)
    BY DEF SaveImageToVideo, Promise!List
  <1>2. CASE videos' = videos
    BY <1>1, <1>2 DEF Promise!Film
  <1>3. CASE /\ 1 <= MaxImages
             /\ images[d][1] # Free
             /\ videos[d] = NoFile
             /\ \E v \in {Leading(d), Cut} : videos' = [videos EXCEPT ![d] = v]
    <2>1. Promise!Blank[1] = Free
      BY <1>3, BoundsAssumption DEF Promise!Blank, Promise!Numbers
    <2>2. images[d] # Promise!Blank
      BY <1>3, <2>1
    <2> QED
      BY <1>1, <1>3, <2>2, LeadingAll DEF Promise!Film
  <1> QED
    BY <1>2, <1>3 DEF SaveImageToVideo

\* Every step is one of the recorder, or none.
LEMMA RecorderStep ==
    ASSUME RecorderInv, [Next]_vars
    PROVE  Promise!Next \/ UNCHANGED <<Recording, files>>
  <1>1. ASSUME NEW k \in Links, Accept(k) PROVE Promise!Next
    BY <1>1, AcceptBegins DEF Promise!Next
  <1>2. ASSUME NEW f \in Fds, RecvPhoto(f)
        PROVE  Promise!Next \/ UNCHANGED <<Recording, files>>
    BY <1>2, PhotoTakes DEF Promise!Next, Promise!Numbers
  <1>3. ASSUME NEW f \in Fds, fd[f] # Free, Close(f)
        PROVE  /\ fd[f] \in Links /\ sess[f].dir \in Dirs
               /\ <<fd[f], sess[f].dir>> \in Recording
               /\ Recording' = Recording \ {<<fd[f], sess[f].dir>>}
    BY <1>3, CloseEnds DEF RecorderInv, FilesInv, TypeOK, Sessions
  <1>4. ASSUME NEW f \in Fds, RecvBadLength(f) \/ RecvLocalBadLength(f) \/ RecvLocalEnd(f)
        PROVE  Promise!Next
    <2>1. fd[f] # Free /\ Close(f) /\ UNCHANGED files
      BY <1>4 DEF RecvBadLength, RecvLocalBadLength, RecvLocalEnd, IsNet, IsLocal
    <2>2. Promise!BreakOff(fd[f], sess[f].dir)
      BY <2>1, <1>3 DEF Promise!BreakOff, files
    <2> QED
      BY <2>1, <2>2, <1>3 DEF Promise!Next
  <1>5. ASSUME NEW f \in Fds, RecvEnd(f) PROVE Promise!Next
    <2>1. /\ fd[f] # Free /\ Close(f) /\ images' = images
          /\ SaveImageToVideo(sess[f].dir)
      BY <1>5 DEF RecvEnd, IsNet
    <2>2. Promise!End(fd[f], sess[f].dir)
      BY <2>1, <1>3, SaveFilms DEF Promise!End, RecorderInv, FilesInv
    <2> QED
      BY <2>1, <2>2, <1>3 DEF Promise!Next
  <1>6. ASSUME UNCHANGED <<fd, sess, files>> PROVE UNCHANGED <<Recording, files>>
    BY <1>6 DEF Recording
  <1> QED
    BY <1>1, <1>2, <1>4, <1>5, <1>6 DEF Next, vars, Connect, Leave, AcceptSpins, RecvText,
       RecvCommand, PagesChange, Tick

\* The sessions record as promised, for every number of links, descriptors and
\* pictures (accept_socket_cb, recv_socket_cb_net, SaveImageToVideo).
THEOREM RecorderRefined == Spec => ImplementsRecorder
  <1>1. Init => RecorderInv /\ Promise!Init
    <2>1. Init => Promise!Init
      <3> SUFFICES ASSUME Init PROVE Promise!Init
        OBVIOUS
      <3>1. Recording = {}
        BY DEF Init, Recording
      <3> QED
        BY <3>1 DEF Init, Promise!Init, Promise!Blank, Promise!Numbers, NoPictures
    <2> QED
      BY <2>1, InitTable, InitFiles DEF RecorderInv
  <1>2. RecorderInv /\ [Next]_vars => RecorderInv'
    BY TableStep, FilesStep DEF RecorderInv, FilesInv
  <1>3. RecorderInv /\ [Next]_vars => [Promise!Next]_(Promise!rvars)
    BY RecorderStep DEF Promise!rvars, files
  <1> QED
    BY <1>1, <1>2, <1>3, PTL DEF Spec, ImplementsRecorder, Promise!Spec

-----------------------------------------------------------------------------
(* The relay *)

\* No link of the WS server has ended.
WsStays == \A k \in Links : Peer[k] = Ws => st[k] \notin {"left", "gone"}

\* While the links of the WS server last, WS_TCP_CON_ID is the descriptor of
\* one, or no descriptor before the first has come.
RelayInv ==
    /\ TypeOK
    /\ FdTableSound
    /\ WsStays => /\ WS_TCP_CON_ID \in Fds => IsLocal(WS_TCP_CON_ID)
                  /\ RelayOnlyToWs

\* A relay writes nowhere but to WS_TCP_CON_ID, and a write reaches the link
\* that is on its descriptor.
LEMMA WriteReaches ==
    ASSUME TypeOK, NEW writes, Write(writes), NEW k \in Links, NEW m \in got'[k], m \notin got[k]
    PROVE  \E w \in writes : w[2] = m /\ w[1] \in Fds /\ fd[w[1]] = k
  BY DEF Write, TypeOK

\* A link that has ended never comes back.
LEMMA EndedStays ==
    ASSUME TypeOK, [Next]_vars, WsStays'
    PROVE  WsStays
  <1>1. ASSUME NEW k \in Links, st[k] \in {"left", "gone"}
        PROVE  st'[k] \in {"left", "gone"}
    <2>1. ASSUME NEW j \in Links, Connect(j) \/ Leave(j) \/ Accept(j)
          PROVE  st'[k] \in {"left", "gone"}
      BY <1>1, <2>1 DEF Connect, Leave, Accept, TypeOK
    <2>2. ASSUME NEW f \in Fds, Close(f) PROVE st'[k] \in {"left", "gone"}
      BY <1>1, <2>2 DEF Close, TypeOK
    <2>3. CASE st' = st
      BY <1>1, <2>3
    <2> QED
      BY <2>1, <2>2, <2>3 DEF Next, vars, AcceptSpins, RecvPhoto, RecvText, RecvBadLength,
         RecvEnd, RecvCommand, RecvLocalBadLength, RecvLocalEnd, PagesChange, Tick
  <1> QED
    BY <1>1 DEF WsStays

\* A close on another descriptor leaves WS_TCP_CON_ID with its link.
LEMMA CloseRelay ==
    ASSUME RelayInv, WsStays, TypeOK', FdTableSound', NEW f \in Fds, fd[f] # Free,
           f # WS_TCP_CON_ID, Close(f), UNCHANGED <<WS_TCP_CON_ID, got>>
    PROVE  RelayInv'
  <1>1. \A g \in Fds : g # f => fd'[g] = fd[g]
    BY DEF Close, RelayInv, TypeOK
  <1> QED
    BY <1>1 DEF RelayInv, RelayOnlyToWs, IsLocal

\* Every step keeps the relay on the WS server's link, if none has ended.
LEMMA RelayStep ==
    ASSUME RelayInv, [Next]_vars
    PROVE  RelayInv'
  <1>0. TypeOK' /\ FdTableSound'
    BY TypeStep, TableStep DEF RelayInv
  <1> SUFFICES ASSUME WsStays' PROVE RelayInv'
    BY <1>0 DEF RelayInv
  <1>00. WsStays
    BY EndedStays DEF RelayInv
  <1>1. ASSUME NEW k \in Links, Connect(k) \/ Leave(k) PROVE RelayInv'
    BY <1>0, <1>00, <1>1 DEF Connect, Leave, RelayInv, IsLocal, RelayOnlyToWs
  <1>2. ASSUME NEW k \in Links, Accept(k) PROVE RelayInv'
    <2>1. PICK f \in Fds : /\ fd[f] = Free
                           /\ fd' = [fd EXCEPT ![f] = k]
                           /\ WS_TCP_CON_ID' = IF Peer[k] = Ws THEN f ELSE WS_TCP_CON_ID
      BY <1>2 DEF Accept, FreeFds
    <2>2. /\ \A g \in Fds : fd'[g] = IF g = f THEN k ELSE fd[g]
          /\ k # Free
          /\ got' = got
      BY <1>2, <2>1, PeersAssumption DEF Accept, RelayInv, TypeOK
    <2>3. WS_TCP_CON_ID' \in Fds => IsLocal(WS_TCP_CON_ID)'
      BY <1>00, <2>1, <2>2 DEF RelayInv, IsLocal
    <2> QED
      BY <1>0, <1>00, <2>2, <2>3 DEF RelayInv, RelayOnlyToWs
  <1>3. ASSUME NEW f \in Fds, RecvPhoto(f) \/ RecvText(f) PROVE RelayInv'
    <2>1. Write(Relay(f)) \/ Write(Relay(f) \cup {<<f, "reply">>})
      BY <1>3 DEF RecvPhoto, RecvText
    <2>2. UNCHANGED <<fd, WS_TCP_CON_ID>>
      BY <1>3 DEF RecvPhoto, RecvText
    <2>3. ASSUME NEW k \in Links, "frame" \in got'[k], "frame" \notin got[k]
          PROVE  Peer[k] = Ws
      <3>1. PICK w \in Relay(f) \cup {<<f, "reply">>} :
               w[2] = "frame" /\ w[1] \in Fds /\ fd[w[1]] = k
        BY <2>1, <2>3, WriteReaches DEF RelayInv
      <3>2. w[1] = WS_TCP_CON_ID
        BY <3>1, RelayType
      <3> QED
        BY <1>00, <3>1, <3>2 DEF RelayInv, IsLocal
    <2> QED
      BY <1>0, <1>00, <2>2, <2>3 DEF RelayInv, RelayOnlyToWs, IsLocal
  <1>4. ASSUME NEW f \in Fds, RecvCommand(f) PROVE RelayInv'
    <2>1. UNCHANGED <<fd, WS_TCP_CON_ID>> /\ Write({<<ArmFd, "reply">>})
      BY <1>4 DEF RecvCommand
    <2>2. ASSUME NEW k \in Links, "frame" \in got'[k] PROVE "frame" \in got[k]
      <3> SUFFICES ASSUME "frame" \notin got[k] PROVE FALSE
        OBVIOUS
      <3>1. PICK w \in {<<ArmFd, "reply">>} : w[2] = "frame"
        BY <2>1, <2>2, WriteReaches DEF RelayInv
      <3> QED
        BY <3>1
    <2> QED
      BY <1>0, <1>00, <2>1, <2>2 DEF RelayInv, RelayOnlyToWs, IsLocal
  <1>5. ASSUME NEW f \in Fds, RecvBadLength(f) \/ RecvEnd(f) PROVE RelayInv'
    <2>1. /\ Close(f)
          /\ fd[f] # Free
          /\ Peer[fd[f]] # Ws
          /\ UNCHANGED <<WS_TCP_CON_ID, got>>
      BY <1>5 DEF RecvBadLength, RecvEnd, IsNet
    <2>2. f # WS_TCP_CON_ID
      BY <1>00, <2>1 DEF RelayInv, IsLocal
    <2> QED
      BY <1>0, <1>00, <2>1, <2>2, CloseRelay
  <1>6. ASSUME NEW f \in Fds, RecvLocalBadLength(f) \/ RecvLocalEnd(f) PROVE FALSE
    <2>1. fd[f] \in Links /\ Peer[fd[f]] = Ws /\ st' = [st EXCEPT ![fd[f]] = "gone"]
      BY <1>6 DEF RecvLocalBadLength, RecvLocalEnd, IsLocal, Close, RelayInv, TypeOK
    <2>2. st'[fd[f]] = "gone"
      BY <2>1 DEF RelayInv, TypeOK
    <2> QED
      BY <2>1, <2>2 DEF WsStays
  <1>7. ASSUME UNCHANGED <<fd, WS_TCP_CON_ID, got>> PROVE RelayInv'
    BY <1>0, <1>00, <1>7 DEF RelayInv, RelayOnlyToWs, IsLocal
  <1> QED
    BY <1>1, <1>2, <1>3, <1>4, <1>5, <1>6, <1>7 DEF Next, vars, AcceptSpins, PagesChange, Tick

\* Until a link of the WS server ends, what devices send is relayed to it and to
\* nobody else, for every number of links and descriptors (accept_socket_cb,
\* recv_socket_cb_net).
THEOREM RelaySafe == Spec => []RelayWhileWsStays
  <1>1. Init => RelayInv
    <2> SUFFICES ASSUME Init PROVE RelayInv
      OBVIOUS
    <2>1. TypeOK /\ FdTableSound
      BY InitType, InitTable
    <2> QED
      BY <2>1 DEF Init, RelayInv, RelayOnlyToWs
  <1>2. RelayInv /\ [Next]_vars => RelayInv'
    BY RelayStep
  <1>3. RelayInv => RelayWhileWsStays
    BY DEF RelayInv, WsStays, RelayWhileWsStays
  <1> QED
    BY <1>1, <1>2, <1>3, PTL DEF Spec

=============================================================================
