----------------------------- MODULE MCWsServer -----------------------------
(* Instances of WsServer for TLC. *)
EXTENDS WsServer, TLC

CONSTANTS u1, u2, c1, c2, c3

\* A user with a camera and a console page, and a second user's camera page.
ThreePagesUser == c1 :> u1 @@ c2 :> u1 @@ c3 :> u2
ThreePagesKind == c1 :> "photo" @@ c2 :> "txt" @@ c3 :> "photo"

\* One user, who opens the camera page again and again.
ReloadUser == c1 :> u1 @@ c2 :> u1 @@ c3 :> u1
ReloadKind == c1 :> "photo" @@ c2 :> "photo" @@ c3 :> "photo"

\* One user with a camera and a console page.
TwoPagesUser == c1 :> u1 @@ c2 :> u1
TwoPagesKind == c1 :> "photo" @@ c2 :> "txt"
=============================================================================
