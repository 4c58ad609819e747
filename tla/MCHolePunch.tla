---------------------------- MODULE MCHolePunch ----------------------------
(***************************************************************************)
(* HolePunch with two clients.  They are alike, so each pair of kinds of   *)
(* NAT is looked at in one order.                                          *)
(***************************************************************************)
EXTENDS HolePunch, TLC

CONSTANTS a, b

Behind(x, y) == a :> x @@ b :> y

Pairs ==
    {Behind("full", y) : y \in Kinds}
        \cup {Behind("address", y) : y \in Kinds \ {"full"}}
        \cup {Behind("port", y) : y \in {"port", "symmetric"}}
        \cup {Behind("symmetric", "symmetric")}
=============================================================================
