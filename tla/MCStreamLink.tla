---------------------------- MODULE MCStreamLink ----------------------------
(***************************************************************************)
(* StreamLink with frames of one head and two units of data, which is      *)
(* enough to cut one in two and to read one at the wrong place.            *)
(***************************************************************************)
EXTENDS StreamLink

BothEnds == {"ws", "device"}
WsEnd == {"ws"}
=============================================================================
