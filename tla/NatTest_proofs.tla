--------------------------- MODULE NatTest_proofs ---------------------------
(***************************************************************************)
(* Proofs about NatTest.  The invariant says, test by test, what can be on *)
(* its way to the client, where the client has sent to, which is what its  *)
(* NAT lets in, and what it has learned when it gets that far.             *)
(***************************************************************************)
EXTENDS NatTest, TLAPS

\* The one answer to test t.
AnswerTo(t) ==
    [test |-> t, from |-> AnswersFrom(t), mapped |-> Mapped(AskedAt(t))]

\* What is in flight are answers to tests that were asked, the present one
\* and earlier ones, which may come again.
FlightSound ==
    /\ \A a \in flight : a = AnswerTo(a.test)
    /\ test = "I" => \A a \in flight : a.test = "I"
    /\ test = "II" => \A a \in flight : a.test \in {"I", "II"}
    /\ test = "I2" => \A a \in flight : a.test \in {"I", "II", "I2"}
    /\ asked => test # "done" /\ AnswerTo(test) \in flight

\* Nobody has the answer to a test before he is at it, and a copy is late.
TakenSound ==
    /\ test = "I" => taken = {}
    /\ test \in {"II", "I2"} => taken = {"I"}
    /\ test = "III" => taken \subseteq {"I", "II", "I2"} /\ "I" \in taken
    /\ copied => untimely

SentSound ==
    /\ test = "I" => sent = IF asked THEN {Server} ELSE {}
    /\ test = "II" => sent = {Server}
    /\ test = "I2" => sent = IF asked THEN {Server, Changed} ELSE {Server}
    /\ test = "III" => sent = {Server, Changed}

\* A client that is past the first test knows its mapped address; one at the
\* last test is behind no symmetric NAT, unless a copy has led it there; and if
\* no answer was late the second test has ruled out a NAT that lets everybody
\* in.
Learned ==
    /\ test # "I" /\ result # "blocked" => m1 = Mapped(Server)
    /\ test \in {"II", "I2", "III"} => nat # "blocked"
    /\ ~copied /\ test = "III" => nat # "symmetric"
    /\ test \in {"I2", "III"} => ~(told /\ m1 = Local)
    /\ ~untimely /\ test \in {"I2", "III"} => nat \notin {"public", "full"}

Inv ==
    /\ TypeOK
    /\ FlightSound /\ SentSound /\ TakenSound /\ Learned
    /\ NeverOverstated /\ ReportRight

-----------------------------------------------------------------------------
(* The NAT *)

\* Which NATs let the answer to a test in that comes while the client is at
\* that test.
LEMMA TimelyPasses ==
    ASSUME Inv, asked
    PROVE  /\ test = "I" => (Passes(AnswerTo("I")) <=> nat # "blocked")
           /\ test = "II" => (Passes(AnswerTo("II")) <=> nat \in {"public", "full"})
           /\ test = "I2" => (Passes(AnswerTo("I2")) <=> nat # "blocked")
           /\ test = "III" => (Passes(AnswerTo("III")) <=> nat \in {"public", "full", "address"})
  <1> USE DEF Inv, TypeOK, SentSound, Kinds, Passes, AnswerTo, AnswersFrom, AskedAt, Mapped,
              Server, Changed, OtherPort, Local
  <1>1. CASE test = "I"
    BY <1>1
  <1>2. CASE test = "II"
    BY <1>2
  <1>3. CASE test = "I2"
    BY <1>3
  <1>4. CASE test = "III"
    <2>1. sent = {Server, Changed}
      BY <1>4
    <2>2. CASE nat = "symmetric"
      <3>1. AnswerTo("III").from = OtherPort /\ AnswerTo("III").mapped = Server
        BY <2>2
      <3>2. ~Passes(AnswerTo("III"))
        BY <2>2, <3>1
      <3> QED
        BY <1>4, <2>2, <3>2
    <2>3. CASE nat # "symmetric"
      BY <1>4, <2>1, <2>3
    <2> QED
      BY <2>2, <2>3
  <1> QED
    BY <1>1, <1>2, <1>3, <1>4

\* No answer that was meant for another address gets through a symmetric NAT.
LEMMA SymmetricPasses ==
    ASSUME nat = "symmetric", NEW t \in Tests, Passes(AnswerTo(t))
    PROVE  t \in {"I", "I2"}
  BY DEF Tests, Passes, AnswerTo, AnswersFrom, AskedAt, Mapped, Server, Changed, OtherPort,
         Local

LEMMA AnswerType ==
    ASSUME NEW t \in Tests, nat \in Kinds
    PROVE  AnswerTo(t) \in Answers
  BY DEF Tests, Kinds, Answers, AnswerTo, AnswersFrom, AskedAt, Mapped, Endpoints, Server,
         Changed, OtherPort, Local

\* The mapped address of a first answer tells open hosts from NATs.
LEMMA MappedTells ==
    ASSUME nat \in Kinds
    PROVE  /\ Mapped(Server) = Local <=> nat \in {"public", "firewall"}
           /\ Mapped(Changed) = Mapped(Server) <=> nat # "symmetric"
           /\ Mapped(Server) # NoAddress
           /\ Mapped(Server) \in Endpoints \cup {Local}
  <1>1. /\ Server # Changed /\ Local # Server /\ NoAddress # Local /\ NoAddress # Server
        /\ Server \in Endpoints
    BY DEF Server, Changed, Local, NoAddress, Endpoints
  <1>2. CASE nat \in {"public", "firewall"}
    <2>1. \A e : Mapped(e) = Local
      BY <1>2 DEF Mapped
    <2> QED
      BY <1>1, <1>2, <2>1
  <1>3. CASE nat = "symmetric"
    <2>1. \A e : Mapped(e) = e
      BY <1>3 DEF Mapped
    <2> QED
      BY <1>1, <1>3, <2>1
  <1>4. CASE nat \notin {"public", "firewall", "symmetric"}
    <2>1. \A e : Mapped(e) = Server
      BY <1>4 DEF Mapped
    <2> QED
      BY <1>1, <1>4, <2>1
  <1> QED
    BY <1>2, <1>3, <1>4

-----------------------------------------------------------------------------
(* Steps *)

LEMMA AskStep ==
    ASSUME Inv, Ask
    PROVE  Inv'
  <1>1. /\ test \in Tests /\ ~asked /\ asked' = TRUE
        /\ sent' = sent \cup {AskedAt(test)}
        /\ flight' = flight \cup {AnswerTo(test)}
        /\ UNCHANGED <<nat, told, test, taken, m1, result, untimely, copied>>
    BY DEF Ask, Inv, TypeOK, AnswerTo
  <1>2. AskedAt(test) \in Endpoints /\ AnswerTo(test) \in Answers
    BY <1>1, AnswerType DEF AskedAt, Endpoints, Inv, TypeOK
  <1>3. TypeOK'
    BY <1>1, <1>2 DEF Inv, TypeOK
  <1>4. \A t : AnswerTo(t)' = AnswerTo(t)
    BY <1>1 DEF AnswerTo, AnswersFrom, AskedAt, Mapped
  <1>5. FlightSound'
    <2>1. AnswerTo(test).test = test /\ test # "done"
      BY <1>1 DEF AnswerTo, Tests
    <2>2. \A a \in flight' : a = AnswerTo(a.test)
      BY <1>1, <2>1 DEF Inv, FlightSound
    <2>3. \A a \in flight' : a \in flight \/ a.test = test
      BY <1>1, <2>1
    <2> QED
      BY <1>1, <1>4, <2>1, <2>2, <2>3 DEF Inv, FlightSound
  <1>6. SentSound'
    BY <1>1 DEF Inv, SentSound, AskedAt, Tests
  <1>7. TakenSound' /\ Learned' /\ NeverOverstated' /\ ReportRight'
    BY <1>1 DEF Inv, TakenSound, Learned, Mapped, NeverOverstated, ReportRight, Kind
  <1> QED
    BY <1>3, <1>5, <1>6, <1>7 DEF Inv

\* An answer leads on, or to the report, whichever test it belongs to.
LEMMA ReceiveStep ==
    ASSUME Inv, NEW a \in flight, Receive(a)
    PROVE  Inv'
  <1>0. /\ asked /\ test \in Tests /\ Passes(a) /\ a.test \in Tests /\ a = AnswerTo(a.test)
        /\ UNCHANGED <<nat, told, sent, flight>> /\ nat \in Kinds
        /\ m1' = IF test = "I" THEN a.mapped ELSE m1
        /\ taken' = taken \cup {a.test} /\ taken \subseteq Tests
        /\ untimely' = (untimely \/ a.test # test) /\ copied' = (copied \/ a.test \in taken)
        /\ untimely \in BOOLEAN /\ copied \in BOOLEAN /\ told \in BOOLEAN
        /\ result = "none" /\ flight \subseteq Answers /\ sent \subseteq Endpoints
    BY DEF Receive, Inv, TypeOK, FlightSound, Answers
  <1>1. \A t : AnswerTo(t)' = AnswerTo(t)
    BY <1>0 DEF AnswerTo, AnswersFrom, AskedAt, Mapped
  <1>2. Mapped(Server)' = Mapped(Server)
    BY <1>0 DEF Mapped
  <1>3. nat # "blocked"
    BY <1>0 DEF Passes
  <1>4. CASE test = "I"
    <2>1. a.test = "I" /\ a = AnswerTo("I") /\ a.mapped = Mapped(Server)
      BY <1>0, <1>4 DEF Inv, FlightSound, AnswerTo, AskedAt
    <2>2. test' = "II" /\ asked' = FALSE /\ result' = result /\ m1' = Mapped(Server)
      BY <1>0, <1>4, <2>1 DEF Receive, GoOn
    <2>3. taken' = {"I"} /\ copied' = copied /\ untimely' = untimely
      BY <1>0, <1>4, <2>1 DEF Inv, TakenSound
    <2>4. TypeOK'
      BY <1>0, <2>2, <2>3, MappedTells DEF TypeOK, Tests
    <2>5. FlightSound' /\ SentSound' /\ TakenSound'
      BY <1>0, <1>1, <1>4, <2>2, <2>3 DEF Inv, FlightSound, SentSound, TakenSound
    <2>6. Learned' /\ NeverOverstated' /\ ReportRight'
      BY <1>0, <1>2, <1>3, <2>2, <2>3 DEF Learned, NeverOverstated, ReportRight
    <2> QED
      BY <2>4, <2>5, <2>6 DEF Inv
  <1>5. CASE test = "II"
    <2>1. m1 = Mapped(Server)
      BY <1>0, <1>5 DEF Inv, Learned
    <2>2. ~copied' => a = AnswerTo("II")
      BY <1>0, <1>5 DEF Inv, FlightSound, TakenSound
    <2>3. ~copied' => nat \in {"public", "full"}
      BY <1>0, <1>5, <2>2, TimelyPasses
    <2>4. /\ test' = "done" /\ asked' = FALSE /\ m1' = m1
          /\ result' = IF told /\ m1 = Local THEN "public" ELSE "full"
      BY <1>0, <1>5 DEF Receive, Report
    <2>5. TypeOK'
      BY <1>0, <2>1, <2>4, MappedTells DEF Inv, TypeOK, Kinds
    <2>6. FlightSound' /\ SentSound' /\ TakenSound' /\ Learned'
      BY <1>0, <1>1, <1>2, <1>5, <2>1, <2>4
      DEF Inv, FlightSound, SentSound, TakenSound, Learned
    <2>7. copied' => untimely'
      BY <2>6 DEF TakenSound
    <2>8. NeverOverstated' /\ ReportRight'
      BY <1>0, <2>1, <2>3, <2>4, <2>7, MappedTells DEF NeverOverstated, ReportRight, Kind
    <2> QED
      BY <2>5, <2>6, <2>8 DEF Inv
  <1>6. CASE test = "I2"
    <2>1. a = AnswerTo("I") \/ a = AnswerTo("II") \/ a = AnswerTo("I2")
      BY <1>0, <1>6 DEF Inv, FlightSound
    <2>2. m1 = Mapped(Server) /\ ~(told /\ m1 = Local)
      BY <1>0, <1>6 DEF Inv, Learned
    <2>3. /\ asked' = FALSE /\ m1' = m1
          /\ \/ a.mapped = m1 /\ test' = "III" /\ result' = "none"
             \/ a.mapped # m1 /\ test' = "done" /\ result' = "symmetric"
      BY <1>0, <1>6 DEF Receive, GoOn, Report
    <2>4. /\ a.mapped # m1 => nat = "symmetric"
          /\ ~copied' => (a.mapped = m1 <=> nat # "symmetric")
      <3>1. CASE a = AnswerTo("I")
        <4>1. a.mapped = Mapped(Server) /\ a.test = "I"
          BY <3>1 DEF AnswerTo, AskedAt
        <4> QED
          BY <1>0, <1>6, <2>2, <4>1 DEF Inv, TakenSound
      <3>2. CASE a = AnswerTo("II")
        <4>1. nat # "symmetric"
          BY <1>0, <3>2, SymmetricPasses DEF Tests
        <4>2. a.mapped = Mapped(Server)
          BY <3>2 DEF AnswerTo, AskedAt
        <4> QED
          BY <2>2, <4>1, <4>2
      <3>3. CASE a = AnswerTo("I2")
        <4>1. a.mapped = Mapped(Changed)
          BY <3>3 DEF AnswerTo, AskedAt
        <4> QED
          BY <1>0, <2>2, <4>1, MappedTells
      <3> QED
        BY <2>1, <3>1, <3>2, <3>3
    <2>5. TypeOK'
      BY <1>0, <2>2, <2>3, MappedTells DEF Inv, TypeOK, Kinds, Tests
    <2>6. FlightSound' /\ SentSound'
      BY <1>0, <1>1, <1>6, <2>3 DEF Inv, FlightSound, SentSound
    <2>7. TakenSound'
      <3>1. a.test \in {"I", "II", "I2"}
        BY <1>0, <1>6 DEF Inv, FlightSound
      <3> QED
        BY <1>0, <1>6, <2>3, <3>1 DEF Inv, TakenSound
    <2>8. Learned'
      BY <1>0, <1>2, <1>3, <1>6, <2>2, <2>3, <2>4 DEF Inv, Learned
    <2>9. NeverOverstated' /\ ReportRight'
      BY <1>0, <2>3, <2>4 DEF NeverOverstated, ReportRight, Kind
    <2> QED
      BY <2>5, <2>6, <2>7, <2>8, <2>9 DEF Inv
  <1>7. CASE test = "III"
    <2>1. /\ m1 = Mapped(Server) /\ ~(told /\ m1 = Local)
          /\ ~copied => nat # "symmetric"
      BY <1>0, <1>7 DEF Inv, Learned
    <2>2. /\ asked' = FALSE /\ m1' = m1
          /\ test' = "done" /\ result' = "address"
      BY <1>0, <1>7 DEF Receive, Report
    <2>3. ~untimely' => nat = "address"
      <3>1. ~untimely' => nat \in {"public", "full", "address"}
        BY <1>0, <1>7, TimelyPasses
      <3> QED
        BY <1>0, <1>7, <3>1 DEF Inv, Learned
    <2>4. TypeOK'
      BY <1>0, <2>1, <2>2, MappedTells DEF Inv, TypeOK, Kinds
    <2>5. TakenSound'
      BY <1>0, <1>7, <2>2 DEF Inv, TakenSound
    <2>6. FlightSound' /\ SentSound' /\ Learned'
      BY <1>0, <1>1, <1>2, <2>1, <2>2 DEF Inv, FlightSound, SentSound, Learned
    <2>7. NeverOverstated' /\ ReportRight'
      BY <1>0, <2>1, <2>2, <2>3 DEF NeverOverstated, ReportRight, Kind
    <2> QED
      BY <2>4, <2>5, <2>6, <2>7 DEF Inv
  <1> QED
    BY <1>0, <1>4, <1>5, <1>6, <1>7 DEF Tests

\* A test that ends without its answer although the answer could pass makes
\* the result untimely.
LEMMA TimeOutStep ==
    ASSUME Inv, TimeOut
    PROVE  Inv'
  <1>0. /\ asked /\ test \in Tests /\ UNCHANGED <<nat, told, sent, flight, taken, m1, copied>> /\ nat \in Kinds
        /\ result = "none" /\ told \in BOOLEAN /\ untimely' \in BOOLEAN
        /\ untimely => untimely' /\ taken \subseteq Tests /\ copied \in BOOLEAN
        /\ AnswerTo(test) \in flight /\ AnswerTo(test).test = test
    BY DEF TimeOut, Inv, TypeOK, FlightSound, AnswerTo
  <1>1. \A t : AnswerTo(t)' = AnswerTo(t)
    BY <1>0 DEF AnswerTo, AnswersFrom, AskedAt, Mapped
  <1>2. Mapped(Server)' = Mapped(Server)
    BY <1>0 DEF Mapped
  <1>3. Passes(AnswerTo(test)) => untimely'
    BY <1>0 DEF TimeOut
  <1>4. CASE test = "I"
    <2>1. test' = "done" /\ asked' = FALSE /\ result' = "blocked"
      BY <1>0, <1>4 DEF TimeOut, Report
    <2>2. ~untimely' => nat = "blocked"
      BY <1>0, <1>3, <1>4, TimelyPasses
    <2>3. TypeOK'
      BY <1>0, <2>1 DEF Inv, TypeOK, Kinds
    <2>4. FlightSound' /\ SentSound' /\ TakenSound' /\ Learned'
      BY <1>0, <1>1, <2>1 DEF Inv, FlightSound, SentSound, TakenSound, Learned
    <2>5. NeverOverstated' /\ ReportRight'
      BY <1>0, <2>1, <2>2 DEF NeverOverstated, ReportRight, Kind
    <2> QED
      BY <2>3, <2>4, <2>5 DEF Inv
  <1>5. CASE test = "II"
    <2>1. m1 = Mapped(Server) /\ nat # "blocked"
      BY <1>0, <1>5 DEF Inv, Learned
    <2>2. ~untimely' => nat \notin {"public", "full"}
      BY <1>0, <1>3, <1>5, TimelyPasses
    <2>3. CASE told /\ m1 = Local
      <3>1. test' = "done" /\ asked' = FALSE /\ result' = "firewall"
        BY <1>0, <1>5, <2>3 DEF TimeOut, Report
      <3>2. nat \in {"public", "firewall"}
        BY <1>0, <2>1, <2>3, MappedTells
      <3>3. TypeOK'
        BY <1>0, <2>1, <3>1, MappedTells DEF Inv, TypeOK, Kinds
      <3>4. FlightSound' /\ SentSound' /\ TakenSound' /\ Learned'
        BY <1>0, <1>1, <1>2, <2>1, <3>1 DEF Inv, FlightSound, SentSound, TakenSound, Learned
      <3>5. NeverOverstated' /\ ReportRight'
        BY <1>0, <2>2, <2>3, <3>1, <3>2 DEF NeverOverstated, ReportRight, Kind
      <3> QED
        BY <3>3, <3>4, <3>5 DEF Inv
    <2>4. CASE ~(told /\ m1 = Local)
      <3>1. test' = "I2" /\ asked' = FALSE /\ result' = "none"
        BY <1>0, <1>5, <2>4 DEF TimeOut, GoOn
      <3>2. TypeOK'
        BY <1>0, <2>1, <3>1, MappedTells DEF Inv, TypeOK, Tests
      <3>3. FlightSound' /\ SentSound' /\ TakenSound'
        BY <1>0, <1>1, <1>5, <3>1 DEF Inv, FlightSound, SentSound, TakenSound
      <3>4. Learned'
        BY <1>0, <1>2, <2>1, <2>2, <2>4, <3>1 DEF Learned
      <3>5. NeverOverstated' /\ ReportRight'
        BY <3>1 DEF NeverOverstated, ReportRight
      <3> QED
        BY <3>2, <3>3, <3>4, <3>5 DEF Inv
    <2> QED
      BY <2>3, <2>4
  <1>6. CASE test = "I2"
    <2>1. m1 = Mapped(Server) /\ nat # "blocked"
      BY <1>0, <1>6 DEF Inv, Learned
    <2>2. test' = "done" /\ asked' = FALSE /\ result' = "error"
      BY <1>0, <1>6 DEF TimeOut, Report
    <2>3. untimely'
      BY <1>0, <1>3, <1>6, <2>1, TimelyPasses
    <2>4. TypeOK'
      BY <1>0, <2>1, <2>2, MappedTells DEF Inv, TypeOK, Kinds
    <2>5. FlightSound' /\ SentSound' /\ TakenSound' /\ Learned'
      BY <1>0, <1>1, <1>2, <2>1, <2>2 DEF Inv, FlightSound, SentSound, TakenSound, Learned
    <2>6. NeverOverstated' /\ ReportRight'
      BY <2>2, <2>3 DEF NeverOverstated, ReportRight
    <2> QED
      BY <2>4, <2>5, <2>6 DEF Inv
  <1>7. CASE test = "III"
    <2>1. /\ m1 = Mapped(Server) /\ ~(told /\ m1 = Local)
          /\ nat # "blocked" /\ (~copied => nat # "symmetric")
      BY <1>0, <1>7 DEF Inv, Learned
    <2>2. test' = "done" /\ asked' = FALSE /\ result' = "port"
      BY <1>0, <1>7 DEF TimeOut, Report
    <2>3. ~untimely' => nat \in {"port", "firewall"}
      BY <1>0, <1>3, <1>7, <2>1, TimelyPasses DEF Inv, TakenSound, Kinds
    <2>4. nat = "firewall" => ~told
      BY <1>0, <2>1, MappedTells
    <2>5. TypeOK'
      BY <1>0, <2>1, <2>2, MappedTells DEF Inv, TypeOK, Kinds
    <2>6. FlightSound' /\ SentSound' /\ TakenSound' /\ Learned'
      BY <1>0, <1>1, <1>2, <2>1, <2>2 DEF Inv, FlightSound, SentSound, TakenSound, Learned
    <2>7. NeverOverstated' /\ ReportRight'
      BY <1>0, <2>1, <2>2, <2>3, <2>4 DEF NeverOverstated, ReportRight, Kind
    <2> QED
      BY <2>5, <2>6, <2>7 DEF Inv
  <1> QED
    BY <1>0, <1>4, <1>5, <1>6, <1>7 DEF Tests

-----------------------------------------------------------------------------
(* Theorems *)

LEMMA InitInv == Init => Inv
  BY DEF Init, Inv, TypeOK, FlightSound, SentSound, TakenSound, Learned, NeverOverstated,
         ReportRight, Tests, Kinds, Endpoints, NoAddress

LEMMA NextInv == Inv /\ [Next]_vars => Inv'
  <1>1. ASSUME Inv, UNCHANGED vars PROVE Inv'
    BY <1>1
    DEF vars, Inv, TypeOK, FlightSound, SentSound, TakenSound, Learned, NeverOverstated,
        ReportRight, Kind, AnswerTo, AnswersFrom, AskedAt, Mapped
  <1> QED
    BY <1>1, AskStep, ReceiveStep, TimeOutStep DEF Next

\* Every variable keeps its type, and an address is known from the first
\* answer on.
THEOREM TypeCorrect == Spec => []TypeOK
  <1>1. Inv => TypeOK
    BY DEF Inv
  <1> QED
    BY InitInv, NextInv, <1>1, PTL DEF Spec

\* Lost, late and copied answers, of whatever test, never make the client report
\* no NAT behind a NAT, or a symmetric NAT behind another; and they never make
\* it report more openness than there is before a copy of an answer is taken
\* for that to a later test.
THEOREM ReportSafe == Spec => []NeverOverstated
  <1>1. Inv => NeverOverstated
    BY DEF Inv
  <1> QED
    BY InitInv, NextInv, <1>1, PTL DEF Spec

\* The four tests tell all kinds of NAT apart when no answer is lost, late
\* or copied.
THEOREM ReportCorrect == Spec => []ReportRight
  <1>1. Inv => ReportRight
    BY DEF Inv
  <1> QED
    BY InitInv, NextInv, <1>1, PTL DEF Spec
=============================================================================
