------------------------------ MODULE NatTest ------------------------------
(***************************************************************************)
(* classic_stun_client: finds out the kind of NAT it is behind by asking a *)
(* STUN server, which has two addresses with two ports each, to answer     *)
(* from one or another of them.  An answer may get lost, come when the     *)
(* client has given up the test it belongs to, or come again; the client   *)
(* takes the first datagram that arrives for the answer to the test it is  *)
(* at.                                                                     *)
(***************************************************************************)
EXTENDS Naturals

\* What the client may report, named after the NATs it should report.
Kinds == {"blocked", "public", "firewall", "full", "address", "port", "symmetric"}

Tests == {"I", "II", "I2", "III"}

\* Endpoints are an address and a port.
Server == <<1, 1>>
OtherPort == <<1, 2>>
Changed == <<2, 2>>
Endpoints == {Server, OtherPort, Changed}

Local == <<0, 0>>
NoAddress == <<0, 1>>

\* test: the one the answer belongs to, mapped: MAPPED_ADDRESS.
Answers == [test : Tests, from : Endpoints, mapped : Endpoints \cup {Local}]

VARIABLES
    nat,      \* the NAT or firewall the client is behind
    told,     \* whether the client is told its local address
    test,     \* the test it is at, or "done"
    asked,    \* whether it has sent the request of that test
    sent,     \* endpoints it has sent to
    flight,   \* answers on their way, any of which may arrive again and again
    taken,    \* the tests whose answers have arrived
    m1,       \* the address of the first answer
    result,   \* what it reports: a kind, "error", or "none" so far
    untimely, \* an answer did not come within its test
    copied    \* an answer came again and was taken for that to another test

vars == <<nat, told, test, asked, sent, flight, taken, m1, result, untimely, copied>>

TypeOK ==
    /\ nat \in Kinds
    /\ told \in BOOLEAN
    /\ test \in Tests \cup {"done"}
    /\ asked \in BOOLEAN
    /\ sent \subseteq Endpoints
    /\ flight \subseteq Answers
    /\ taken \subseteq Tests
    /\ m1 \in Endpoints \cup {Local, NoAddress}
    /\ m1 = NoAddress => test = "I" \/ result = "blocked"
    /\ result \in Kinds \cup {"error", "none"}
    /\ result = "none" <=> test # "done"
    /\ untimely \in BOOLEAN
    /\ copied \in BOOLEAN

Init ==
    /\ nat \in Kinds
    /\ told \in BOOLEAN
    /\ test = "I"
    /\ asked = FALSE
    /\ sent = {}
    /\ flight = {}
    /\ taken = {}
    /\ m1 = NoAddress
    /\ result = "none"
    /\ untimely = FALSE
    /\ copied = FALSE

-----------------------------------------------------------------------------
(* The NAT and the server *)

\* The address that the server at e sees.
Mapped(e) ==
    CASE nat \in {"public", "firewall"} -> Local
      [] nat = "symmetric" -> e
      [] OTHER -> Server

Passes(a) ==
    CASE nat \in {"public", "full"} -> TRUE
      [] nat = "blocked" -> FALSE
      [] nat = "address" -> \E e \in sent : e[1] = a.from[1]
      [] nat = "symmetric" -> a.from = a.mapped
      [] OTHER -> a.from \in sent

AskedAt(t) == IF t = "I2" THEN Changed ELSE Server

\* Mutant: test II does not ask for a change.
AnswersFromUnchanged(t) == IF t = "III" THEN OtherPort ELSE AskedAt(t)

\* Mutant: CHANGE_REQUEST carries the flag of the address twice.
AnswersFromFlagTwice(t) == IF t = "II" THEN Changed ELSE AskedAt(t)

\* Where the server answers from: test II asks it to change address and port,
\* test III the port.
AnswersFrom(t) ==
    CASE t = "II" -> Changed
      [] t = "III" -> OtherPort
      [] OTHER -> AskedAt(t)

-----------------------------------------------------------------------------
(* The client *)

Ask ==
    /\ test # "done"
    /\ ~asked
    /\ asked' = TRUE
    /\ sent' = sent \cup {AskedAt(test)}
    /\ flight' = flight \cup
         {[test |-> test, from |-> AnswersFrom(test), mapped |-> Mapped(AskedAt(test))]}
    /\ UNCHANGED <<nat, told, test, taken, m1, result, untimely, copied>>

GoOn(t) == test' = t /\ asked' = FALSE /\ UNCHANGED result
Report(kind) == test' = "done" /\ asked' = FALSE /\ result' = kind

\* Neither the sender nor the transaction id is looked at.
Receive(a) ==
    /\ asked
    /\ a \in flight
    /\ Passes(a)
    /\ taken' = taken \cup {a.test}
    /\ m1' = IF test = "I" THEN a.mapped ELSE m1
    /\ CASE test = "I" -> GoOn("II")
         [] test = "II" -> Report(IF told /\ m1 = Local THEN "public" ELSE "full")
         [] test = "I2" -> IF a.mapped = m1 THEN GoOn("III") ELSE Report("symmetric")
         [] test = "III" -> Report("address")
    /\ untimely' = (untimely \/ a.test # test)
    /\ copied' = (copied \/ a.test \in taken)
    /\ UNCHANGED <<nat, told, sent, flight>>

\* Mutant: no answer to the first request leads on to the next test.
TimeOutGoesOn ==
    /\ asked
    /\ CASE test = "I" -> GoOn("II")
         [] test = "II" -> IF told /\ m1 = Local THEN Report("firewall") ELSE GoOn("I2")
         [] test = "I2" -> Report("error")
         [] test = "III" -> Report("port")
    /\ untimely' = (untimely \/ \E a \in flight : a.test = test /\ Passes(a))
    /\ UNCHANGED <<nat, told, sent, flight, taken, m1, copied>>

\* recvfrom gives up after three seconds; the second time test I must be
\* answered, or an assertion fails.
TimeOut ==
    /\ asked
    /\ CASE test = "I" -> Report("blocked")
         [] test = "II" -> IF told /\ m1 = Local THEN Report("firewall") ELSE GoOn("I2")
         [] test = "I2" -> Report("error")
         [] test = "III" -> Report("port")
    /\ untimely' = (untimely \/ \E a \in flight : a.test = test /\ Passes(a))
    /\ UNCHANGED <<nat, told, sent, flight, taken, m1, copied>>

Next == Ask \/ (\E a \in flight : Receive(a)) \/ TimeOut

Spec == Init /\ [][Next]_vars

-----------------------------------------------------------------------------
(* Properties *)

\* Whatever answers are lost, late, copied or taken for others: only a client
\* without a NAT is reported to have none, and only a symmetric NAT as such.
\* And, until a copy of an answer is taken for the answer to a later test, the
\* report never promises more openness than is there: a symmetric NAT is not
\* reported as a cone, and only what lets everybody through as open (test_nat).
NeverOverstated ==
    /\ result \in {"public", "firewall"} => nat \in {"public", "firewall"}
    /\ result = "symmetric" => nat = "symmetric"
    /\ ~copied =>
         /\ result = "full" => nat \in {"full", "public"}
         /\ result = "public" => nat = "public"
         /\ result \in {"address", "port"} => nat # "symmetric"

\* A client that is not told its address takes itself to be behind a NAT.
Kind ==
    CASE nat = "public" /\ ~told -> "full"
      [] nat = "firewall" /\ ~told -> "port"
      [] OTHER -> nat

\* If every answer that can pass comes within its test and no copy later, the
\* report is right (test_nat).
ReportRight == test = "done" /\ ~untimely => result = Kind
=============================================================================
