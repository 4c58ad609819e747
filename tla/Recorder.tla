------------------------------ MODULE Recorder ------------------------------
(***************************************************************************)
(* What the recorder promises, without descriptors, watchers or counters.  *)
(* A link records in one session at a time, into one directory, which it   *)
(* may share with the sessions of others.  A session only ever puts its    *)
(* own frames there, each as the next picture or in place of one that is   *)
(* there already, perhaps another session's: no number is left out, and    *)
(* none is ever emptied.  Only the end of a session makes a video.  If it  *)
(* succeeds the video shows all that the directory holds; if it fails      *)
(* there is no video or a cut one.  What was made stays as it is, and it   *)
(* is listed, if at all, at the end of a session and when there is a file. *)
(***************************************************************************)
EXTENDS Naturals

CONSTANTS
    Links, Dirs, MaxImages,
    Free,      \* no picture
    NoFile,    \* no video
    Cut        \* a video that is not complete

VARIABLES
    sessions,  \* <<k, d>>: link k records into directory d
    pictures,  \* pictures[d][n]: the link whose frame is picture n of d, or Free
    films,     \* films[d]: the pictures that the video of d shows, NoFile or Cut
    listing    \* the directories with a video that is listed

rvars == <<sessions, pictures, films, listing>>

Numbers == 1 .. MaxImages
Blank == [n \in Numbers |-> Free]

Init ==
    /\ sessions = {}
    /\ pictures = [d \in Dirs |-> Blank]
    /\ films = [d \in Dirs |-> NoFile]
    /\ listing = {}

Begin(k, d) ==
    /\ \A s \in sessions : s[1] # k
    /\ sessions' = sessions \cup {<<k, d>>}
    /\ UNCHANGED <<pictures, films, listing>>

Take(k, d, n) ==
    /\ <<k, d>> \in sessions
    /\ \A m \in 1 .. (n - 1) : pictures[d][m] # Free
    /\ pictures' = [pictures EXCEPT ![d][n] = k]
    /\ UNCHANGED <<sessions, films, listing>>

\* The video and the list each may fail.
Film(d) ==
    \/ films' = films
    \/ /\ films[d] = NoFile
       /\ pictures[d] # Blank
       /\ \E v \in {pictures[d], Cut} : films' = [films EXCEPT ![d] = v]

List(d) ==
    \/ listing' = listing
    \/ films'[d] # NoFile /\ listing' = listing \cup {d}

End(k, d) ==
    /\ <<k, d>> \in sessions
    /\ sessions' = sessions \ {<<k, d>>}
    /\ Film(d)
    /\ List(d)
    /\ UNCHANGED pictures

\* The session ends without a video.
BreakOff(k, d) ==
    /\ <<k, d>> \in sessions
    /\ sessions' = sessions \ {<<k, d>>}
    /\ UNCHANGED <<pictures, films, listing>>

Next ==
    \E k \in Links, d \in Dirs :
        \/ Begin(k, d)
        \/ \E n \in Numbers : Take(k, d, n)
        \/ End(k, d)
        \/ BreakOff(k, d)

Spec == Init /\ [][Next]_rvars
=============================================================================
