------------------------------- MODULE Routing -------------------------------
(***************************************************************************)
(* What the relay promises its users, without ids, rows, links or threads. *)
(* A frame of a user's device is accepted while the user has a page there; *)
(* accepted frames are dealt with one after the other, in the order in     *)
(* which they were accepted; each is shown at most once, to one page of    *)
(* that user which shows frames of that kind and is still there, or is     *)
(* dropped.  When the relay stops, all pages and all pending frames are    *)
(* lost with it.                                                           *)
(***************************************************************************)
EXTENDS Naturals, Sequences

CONSTANTS Users, Kinds, Pages, PageUser, PageKind

VARIABLES
    presence,  \* presence[p]: "away", "here", or "leaving": gone, but not yet
               \* known to have gone
    pending,   \* frames accepted and not yet dealt with, the oldest first
    shown      \* shown[p]: <<user, kind>> of what page p was given

rvars == <<presence, pending, shown>>

Init ==
    /\ presence = [p \in Pages |-> "away"]
    /\ pending = <<>>
    /\ shown = [p \in Pages |-> {}]

Come(p) ==
    /\ presence[p] = "away"
    /\ presence' = [presence EXCEPT ![p] = "here"]
    /\ UNCHANGED <<pending, shown>>

Leave(p) ==
    /\ presence[p] = "here"
    /\ presence' = [presence EXCEPT ![p] = "leaving"]
    /\ UNCHANGED <<pending, shown>>

Forget(p) ==
    /\ presence[p] = "leaving"
    /\ presence' = [presence EXCEPT ![p] = "away"]
    /\ UNCHANGED <<pending, shown>>

\* A frame of user u's device, who has a page, of whatever kind.
AcceptFrame(u, kind) ==
    /\ \E p \in Pages : PageUser[p] = u /\ presence[p] # "away"
    /\ pending' = Append(pending, [kind |-> kind, user |-> u])
    /\ UNCHANGED <<presence, shown>>

Show(p) ==
    /\ pending # <<>>
    /\ presence[p] = "here"
    /\ Head(pending) = [kind |-> PageKind[p], user |-> PageUser[p]]
    /\ shown' = [shown EXCEPT ![p] = @ \cup {<<PageUser[p], PageKind[p]>>}]
    /\ pending' = Tail(pending)
    /\ UNCHANGED presence

Drop ==
    /\ pending # <<>>
    /\ pending' = Tail(pending)
    /\ UNCHANGED <<presence, shown>>

Stop ==
    /\ presence' = [p \in Pages |-> "away"]
    /\ pending' = <<>>
    /\ UNCHANGED shown

Next ==
    \/ \E p \in Pages : Come(p) \/ Leave(p) \/ Forget(p) \/ Show(p)
    \/ \E u \in Users, kind \in Kinds : AcceptFrame(u, kind)
    \/ Drop
    \/ Stop

Spec == Init /\ [][Next]_rvars
=============================================================================
