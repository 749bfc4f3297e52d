-------------------------- MODULE OwnerFrames_proofs --------------------------
(***************************************************************************)
(* Every request of a language server is answered once, in its turn, and   *)
(* every edit it had applied is reported to whoever sent the command, for  *)
(* any number of requests, identifiers, clients and limits.  The proof     *)
(* follows a request through its three places: the pipe, the table of the  *)
(* Owner, and the one process.                                             *)
(*                                                                         *)
(* Most of it is about ServerRequests alone.  Then these promises are      *)
(* carried over to the composition: whatever the Documents and their       *)
(* diagnostics do, the loop that serves them all is that of ServerRequests. *)
(* The last part is about the diagnostics: a client that is told that they *)
(* are fresh is told those of the text it asked about, by an invariant of  *)
(* the Owner's cache, of the copies of the clients and of the report under *)
(* way.                                                                    *)
(***************************************************************************)
EXTENDS OwnerFrames, FoldTheorems

Request == [id : Ids \cup {NoId}, what : Kinds, during : Nat]
Code == {NoReply, "invalid_request", "client_busy", "request_cancelled", "invalid_params",
         "not_applied", "answered", "applied"}
Frame == [kind : {"request"}, serial : Nat] \cup [kind : {"cancel"}, id : Ids]
         \cup [kind : {"response"}, query : Nat]
Edit == [serial : Nat \ {0}, query : Nat \ {0}, cost : Nat]

\* What TypeOK leaves open.
MoreTypes ==
    /\ answers \in Seq(Seq(Code)) /\ pipe \in Seq(Frame) /\ result \in Code
    /\ replies \in [DOMAIN plot.queries -> Seq(Entry)]
    /\ applied \subseteq Edit

Alive == at \notin Over

\* The serial numbers of the requests in a list of frames.
RequestsIn(q) == {q[i].serial : i \in {j \in DOMAIN q : q[j].kind = "request"}}
EachOnce(q) ==
    \A i, j \in DOMAIN q :
        q[i].kind = "request" /\ q[j].kind = "request" /\ q[i].serial = q[j].serial => i = j

\* A request that has no answer is in one place, and none that has one is.
PlacesInv ==
    /\ Alive => \A s \in Serials :
        /\ s \in Travelling => s \notin Waiting /\ s \notin InProcess
        /\ s \in Waiting => s \notin InProcess
        /\ answers[s] = <<>> <=> s \in Travelling \cup Waiting \cup InProcess
    /\ \A s \in Serials : Len(answers[s]) <= 1
    /\ EachOnce(pipe) /\ Travelling \subseteq Serials

\* The table is what the order queue leads to, within its limit.
TableInv ==
    /\ \A id \in Busy : asked[pending[id]].id = id
    /\ Busy \subseteq Range(order)
    /\ IsFiniteSet(Busy)
    /\ Cardinality(Busy) + (IF processing = 0 THEN 0 ELSE 1) <= RequestLimit

\* Edits, the answers to them and the reports of them go together.
HasEdit(s) == \E edit \in applied : edit.serial = s
EditsInv ==
    /\ active < next
    /\ \A edit \in applied : edit.serial \in Serials /\ edit.query < next /\ edit.query \in DOMAIN plot.queries
    /\ \A edit, other \in applied : edit.serial = other.serial => edit = other
    /\ \A edit \in applied :
          Reported(edit, IF edit.query = active THEN ledger ELSE replies[edit.query])
    /\ Alive => \A s \in Travelling \cup Waiting : ~HasEdit(s)
    /\ at \in {"drain", "write"} => (result = "applied" <=> HasEdit(processing))
    /\ \A s \in Serials : Answered(s) => (answers[s][1] = "applied" <=> HasEdit(s))

IInv == TypeOK /\ MoreTypes /\ PlacesInv /\ TableInv /\ EditsInv

-----------------------------------------------------------------------------
(* Sequences of frames and of answers *)

LEMMA SentFrame ==
    ASSUME NEW q \in Seq(Frame), NEW f \in Frame
    PROVE  /\ Append(q, f) \in Seq(Frame)
           /\ RequestsIn(Append(q, f)) = RequestsIn(q) \cup (IF f.kind = "request" THEN {f.serial} ELSE {})
           /\ EachOnce(q) /\ (f.kind = "request" => f.serial \notin RequestsIn(q)) => EachOnce(Append(q, f))
  <1>. DEFINE n == Append(q, f)
  <1>1. n \in Seq(Frame) /\ DOMAIN q = 1..Len(q) /\ DOMAIN n = 1..Len(q) + 1 /\ Len(q) \in Nat
    OBVIOUS
  <1>2. n[Len(q) + 1] = f /\ \A i \in 1..Len(q) : n[i] = q[i]
    OBVIOUS
  <1>. HIDE DEF n
  <1>3. RequestsIn(n) = RequestsIn(q) \cup (IF f.kind = "request" THEN {f.serial} ELSE {})
    <2>1. ASSUME NEW s \in RequestsIn(n) PROVE s \in RequestsIn(q) \cup (IF f.kind = "request" THEN {f.serial} ELSE {})
      <3>1. PICK i \in 1..Len(q) + 1 : n[i].kind = "request" /\ n[i].serial = s BY <1>1, <2>1 DEF RequestsIn
      <3>2. CASE i = Len(q) + 1 BY <1>2, <3>1, <3>2
      <3>3. CASE i \in 1..Len(q) BY <1>1, <1>2, <3>1, <3>3 DEF RequestsIn
      <3>. QED BY <1>1, <3>1, <3>2, <3>3
    <2>2. RequestsIn(q) \subseteq RequestsIn(n) BY <1>1, <1>2 DEF RequestsIn
    <2>3. f.kind = "request" => f.serial \in RequestsIn(n) BY <1>1, <1>2 DEF RequestsIn
    <2>. QED BY <2>1, <2>2, <2>3
  <1>4. ASSUME EachOnce(q), f.kind = "request" => f.serial \notin RequestsIn(q) PROVE EachOnce(n)
    BY <1>1, <1>2, <1>4 DEF EachOnce, RequestsIn
  <1>. QED BY <1>1, <1>3, <1>4 DEF n

LEMMA TakenFrame ==
    ASSUME NEW q \in Seq(Frame), q # <<>>, EachOnce(q)
    PROVE  /\ Head(q) \in Frame /\ Tail(q) \in Seq(Frame) /\ EachOnce(Tail(q))
           /\ Head(q).kind = "request" =>
                Head(q).serial \in RequestsIn(q) /\ RequestsIn(Tail(q)) = RequestsIn(q) \ {Head(q).serial}
           /\ Head(q).kind # "request" => RequestsIn(Tail(q)) = RequestsIn(q)
  <1>. DEFINE t == Tail(q)
  <1>1. /\ Len(q) \in Nat \ {0} /\ Head(q) = q[1] /\ Head(q) \in Frame
        /\ t \in Seq(Frame) /\ Len(t) = Len(q) - 1
        /\ DOMAIN q = 1..Len(q) /\ DOMAIN t = 1..Len(q) - 1
        /\ \A i \in 1..Len(q) - 1 : t[i] = q[i + 1]
    OBVIOUS
  <1>. HIDE DEF t
  <1>2. EachOnce(t)
    <2>. SUFFICES ASSUME NEW i \in 1..Len(q) - 1, NEW j \in 1..Len(q) - 1,
                         t[i].kind = "request", t[j].kind = "request", t[i].serial = t[j].serial
                  PROVE  i = j
      BY <1>1 DEF EachOnce
    <2>1. i + 1 \in 1..Len(q) /\ j + 1 \in 1..Len(q) /\ t[i] = q[i + 1] /\ t[j] = q[j + 1] BY <1>1
    <2>2. i + 1 = j + 1 BY <1>1, <2>1 DEF EachOnce
    <2>. QED BY <2>2
  <1>3. \A s : s \in RequestsIn(q) <=> s \in RequestsIn(t) \/ (Head(q).kind = "request" /\ s = Head(q).serial)
    <2>. TAKE s
    <2>1. ASSUME s \in RequestsIn(q) PROVE s \in RequestsIn(t) \/ (Head(q).kind = "request" /\ s = Head(q).serial)
      <3>1. PICK i \in 1..Len(q) : q[i].kind = "request" /\ q[i].serial = s BY <1>1, <2>1 DEF RequestsIn
      <3>2. CASE i = 1 BY <1>1, <3>1, <3>2
      <3>3. CASE i # 1
        <4>1. i - 1 \in 1..Len(q) - 1 /\ t[i - 1] = q[i] BY <1>1, <3>3
        <4>. QED BY <1>1, <3>1, <4>1 DEF RequestsIn
      <3>. QED BY <3>2, <3>3
    <2>2. ASSUME s \in RequestsIn(t) PROVE s \in RequestsIn(q)
      <3>1. PICK i \in 1..Len(q) - 1 : t[i].kind = "request" /\ t[i].serial = s BY <1>1, <2>2 DEF RequestsIn
      <3>2. i + 1 \in 1..Len(q) /\ t[i] = q[i + 1] BY <1>1
      <3>. QED BY <1>1, <3>1, <3>2 DEF RequestsIn
    <2>3. ASSUME Head(q).kind = "request", s = Head(q).serial PROVE s \in RequestsIn(q)
      <3>1. 1 \in DOMAIN q BY <1>1
      <3>. QED BY <1>1, <2>3, <3>1 DEF RequestsIn
    <2>. QED BY <2>1, <2>2, <2>3
  <1>4. Head(q).kind = "request" => Head(q).serial \notin RequestsIn(t)
    <2>. SUFFICES ASSUME Head(q).kind = "request", Head(q).serial \in RequestsIn(t) PROVE FALSE
      OBVIOUS
    <2>1. PICK i \in 1..Len(q) - 1 : t[i].kind = "request" /\ t[i].serial = Head(q).serial BY <1>1 DEF RequestsIn
    <2>2. i + 1 \in 1..Len(q) /\ 1 \in 1..Len(q) /\ t[i] = q[i + 1] BY <1>1
    <2>3. i + 1 = 1 BY <1>1, <2>1, <2>2 DEF EachOnce
    <2>. QED BY <2>3
  <1>. QED BY <1>1, <1>2, <1>3, <1>4 DEF t

\* The one answer to a request that had none.
LEMMA GivenAnswer ==
    ASSUME NEW r \in Seq(Seq(Code)), NEW s \in 1..Len(r), r[s] = <<>>, NEW c \in Code
    PROVE  /\ [r EXCEPT ![s] = Append(@, c)] \in Seq(Seq(Code))
           /\ Len([r EXCEPT ![s] = Append(@, c)]) = Len(r)
           /\ [r EXCEPT ![s] = Append(@, c)][s] = <<c>>
           /\ \A other \in 1..Len(r) \ {s} : [r EXCEPT ![s] = Append(@, c)][other] = r[other]
  <1>1. Append(r[s], c) = <<c>> OBVIOUS
  <1>2. <<c>> \in Seq(Code) OBVIOUS
  <1>3. [r EXCEPT ![s] = Append(@, c)] = [r EXCEPT ![s] = <<c>>] BY <1>1
  <1>. QED BY <1>2, <1>3

LEMMA Ranges ==
    ASSUME NEW S, NEW q \in Seq(S)
    PROVE  /\ \A e \in S : Range(Append(q, e)) = Range(q) \cup {e}
           /\ q # <<>> => Range(q) = Range(Tail(q)) \cup {Head(q)}
  <1>1. ASSUME NEW e \in S PROVE Range(Append(q, e)) = Range(q) \cup {e}
    <2>. DEFINE n == Append(q, e)
    <2>1. /\ Len(q) \in Nat /\ DOMAIN q = 1..Len(q) /\ DOMAIN n = 1..Len(q) + 1
          /\ n[Len(q) + 1] = e /\ \A i \in 1..Len(q) : n[i] = q[i]
      OBVIOUS
    <2>. HIDE DEF n
    <2>2. Range(n) = Range(q) \cup {e} BY <2>1 DEF Range
    <2>. QED BY <2>2 DEF n
  <1>2. ASSUME q # <<>> PROVE Range(q) = Range(Tail(q)) \cup {Head(q)}
    <2>. DEFINE t == Tail(q)
    <2>1. /\ Len(q) \in Nat \ {0} /\ Head(q) = q[1]
          /\ DOMAIN q = 1..Len(q) /\ DOMAIN t = 1..Len(q) - 1
          /\ \A i \in 1..Len(q) - 1 : t[i] = q[i + 1]
      BY <1>2
    <2>. HIDE DEF t
    <2>2. ASSUME NEW i \in 1..Len(q), i # 1 PROVE q[i] \in Range(t)
      <3>1. i - 1 \in 1..Len(q) - 1 /\ t[i - 1] = q[i] BY <2>1, <2>2
      <3>. QED BY <2>1, <3>1 DEF Range
    <2>3. Range(t) \subseteq Range(q)
      <3>1. \A i \in 1..Len(q) - 1 : i + 1 \in 1..Len(q) BY <2>1
      <3>. QED BY <2>1, <3>1 DEF Range
    <2>4. Range(q) = Range(t) \cup {Head(q)} BY <2>1, <2>2, <2>3 DEF Range
    <2>. QED BY <2>4 DEF t
  <1>. QED BY <1>1, <1>2

-----------------------------------------------------------------------------
(* The invariant *)

\* What the types say of lengths and places.
LEMMA Shapes ==
    ASSUME IInv
    PROVE  /\ Len(asked) \in Nat /\ Len(answers) = Len(asked) /\ DOMAIN answers = Serials
           /\ plot.queries \in Seq(BOOLEAN) /\ DOMAIN plot.queries = 1..Len(plot.queries)
           /\ Len(plot.queries) \in Nat
           /\ asked \in Seq(Request)
           /\ Travelling = RequestsIn(pipe)
           /\ \A s \in Serials : answers[s] \in Seq(Code) /\ asked[s] \in Request
           /\ Waiting = {pending[id] : id \in Busy}
           /\ Busy = {asked[s].id : s \in Waiting}
  <1>1. /\ Len(asked) \in Nat /\ Len(answers) = Len(asked) /\ asked \in Seq(Request)
        /\ answers \in Seq(Seq(Code))
    BY DEF IInv, TypeOK, MoreTypes, Request
  <1>2. plot.queries \in Seq(BOOLEAN) BY RequestAssumption DEF IInv, TypeOK
  <1>3. \A id \in Busy : pending[id] \in Serials /\ asked[pending[id]].id = id /\ id # NoId
    BY <1>1, RequestAssumption DEF IInv, TypeOK, TableInv, Busy, Serials
  <1>4. \A s \in Waiting : asked[s].id \in Busy /\ pending[asked[s].id] = s
    <2>0. \A s \in Serials : asked[s] \in Request BY <1>1 DEF Serials
    <2>1. \A s \in Serials : asked[s].id \in Ids \cup {NoId} BY <2>0 DEF Request
    <2>. QED BY <2>1 DEF Waiting, Busy, Serials
  <1>5. Waiting = {pending[id] : id \in Busy} BY <1>3, <1>4 DEF Waiting
  <1>6. Busy = {asked[s].id : s \in Waiting} BY <1>3, <1>4, <1>5
  <1>7. \A s \in Serials : answers[s] \in Seq(Code) /\ asked[s] \in Request BY <1>1 DEF Serials
  <1>8. DOMAIN answers = Serials /\ DOMAIN plot.queries = 1..Len(plot.queries) /\ Len(plot.queries) \in Nat
    BY <1>1, <1>2 DEF Serials
  <1>9. Travelling = RequestsIn(pipe) BY DEF Travelling, RequestsIn
  <1>. QED BY <1>1, <1>2, <1>5, <1>6, <1>7, <1>8, <1>9

LEMMA InitIInv == Init => IInv
  <1>. SUFFICES ASSUME Init PROVE IInv
    OBVIOUS
  <1>1. plot.queries \in Seq(BOOLEAN) /\ plot.cancels \in Nat
    BY RequestAssumption DEF Init
  <1>2. TypeOK BY <1>1, RequestAssumption DEF Init, TypeOK, Over, NoReply
  <1>3. MoreTypes BY <1>1 DEF Init, MoreTypes, Code
  <1>4. Busy = {} /\ Serials = {} /\ Waiting = {} /\ Travelling = {}
    BY DEF Init, Busy, Serials, Waiting, Travelling
  <1>5. PlacesInv BY <1>4 DEF Init, PlacesInv, EachOnce
  <1>6. TableInv BY <1>4, FS_EmptySet, RequestAssumption DEF Init, TableInv
  <1>7. EditsInv BY <1>4 DEF Init, EditsInv, HasEdit
  <1>. QED BY <1>2, <1>3, <1>5, <1>6, <1>7 DEF IInv

LEMMA AskStep ==
    ASSUME IInv, NEW id \in Ids \cup {NoId}, NEW what \in Kinds, Ask(id, what)
    PROVE  IInv'
  <1>. DEFINE s == Len(asked) + 1
              f == [kind |-> "request", serial |-> Len(asked) + 1]
              r == [id |-> id, what |-> what, during |-> serving]
  <1>. USE Shapes
  <1>1. r \in Request /\ f \in Frame BY DEF Request, Frame, IInv, TypeOK
  <1>2. /\ asked' \in Seq(Request) /\ Len(asked') = s
        /\ asked'[s] = r /\ \A t \in Serials : asked'[t] = asked[t]
    BY <1>1 DEF Ask, Serials
  <1>3. /\ answers' \in Seq(Seq(Code)) /\ Len(answers') = s
        /\ answers'[s] = <<>> /\ \A t \in Serials : answers'[t] = answers[t]
    BY DEF Ask, Serials, IInv, MoreTypes
  <1>4. Serials' = Serials \cup {s} /\ s \notin Serials BY <1>2 DEF Serials
  <1>5. pipe' \in Seq(Frame) /\ Travelling' = Travelling \cup {s} /\ EachOnce(pipe')
    <2>1. pipe' = Append(pipe, f) /\ f.kind = "request" /\ f.serial = s BY DEF Ask
    <2>2. s \notin Travelling BY <1>4 DEF IInv, PlacesInv
    <2>3. Travelling' = RequestsIn(pipe') BY DEF Travelling, RequestsIn
    <2>. QED BY <1>1, <2>1, <2>2, <2>3, SentFrame DEF IInv, MoreTypes, PlacesInv
  <1>6. TypeOK' BY <1>2, <1>3 DEF Ask, IInv, TypeOK, Request, query, queue
  <1>7. MoreTypes' BY <1>3, <1>5 DEF Ask, IInv, MoreTypes, query
  <1>8. Busy' = Busy /\ Waiting' = Waiting /\ InProcess' = InProcess
    <2>1. Busy' = Busy /\ InProcess' = InProcess BY DEF Ask, queue, Busy, InProcess
    <2>2. \A t \in Serials : t \in Waiting' <=> t \in Waiting
      BY <1>2, <1>4 DEF Ask, queue, Waiting
    <2>3. s \notin Waiting' BY <1>4 DEF Ask, queue, Waiting, IInv, TypeOK, Serials, Request
    <2>. QED BY <1>4, <2>1, <2>2, <2>3 DEF Waiting
  <1>9. PlacesInv'
    <2>1. InProcess \subseteq Serials BY DEF InProcess, IInv, TypeOK, Serials, Over
    <2>2. Waiting \subseteq Serials BY DEF Waiting
    <2>3. Alive /\ at' = at BY DEF Ask, Alive
    <2>4. \A t \in Serials' :
            /\ t \in Travelling' => t \notin Waiting' /\ t \notin InProcess'
            /\ t \in Waiting' => t \notin InProcess'
            /\ answers'[t] = <<>> <=> t \in Travelling' \cup Waiting' \cup InProcess'
            /\ Len(answers'[t]) <= 1
      <3>1. ASSUME NEW t \in Serials
            PROVE  /\ t \in Travelling => t \notin Waiting /\ t \notin InProcess
                   /\ t \in Waiting => t \notin InProcess
                   /\ answers[t] = <<>> <=> t \in Travelling \cup Waiting \cup InProcess
                   /\ Len(answers[t]) <= 1
        BY <2>3 DEF IInv, PlacesInv
      <3>2. ASSUME NEW t \in Serials
            PROVE  /\ t \in Travelling' => t \notin Waiting' /\ t \notin InProcess'
                   /\ t \in Waiting' => t \notin InProcess'
                   /\ answers'[t] = <<>> <=> t \in Travelling' \cup Waiting' \cup InProcess'
                   /\ Len(answers'[t]) <= 1
        <4>1. t # s /\ answers'[t] = answers[t] BY <1>3, <1>4
        <4>2. t \in Travelling' <=> t \in Travelling BY <1>5, <4>1
        <4>. QED BY <1>8, <3>1, <4>1, <4>2
      <3>3. s \in Travelling' /\ s \notin Waiting' /\ s \notin InProcess'
        BY <1>4, <1>5, <1>8, <2>1, <2>2
      <3>4. answers'[s] = <<>> /\ Len(answers'[s]) <= 1
        BY <1>3
      <3>. QED BY <1>4, <3>2, <3>3, <3>4
    <2>. QED BY <1>4, <1>5, <2>4 DEF IInv, PlacesInv
  <1>10. TableInv'
    <2>1. UNCHANGED queue /\ processing' = processing BY DEF Ask
    <2>2. \A i \in Busy : pending[i] \in Serials BY DEF IInv, TypeOK, Busy, Serials
    <2>. QED BY <1>2, <1>8, <2>1, <2>2 DEF queue, IInv, TableInv
  <1>11. EditsInv'
    <2>1. UNCHANGED <<active, next, ledger, replies, applied, at, result, processing, plot>>
      BY DEF Ask, query
    <2>2. ~HasEdit(s) BY <1>4 DEF IInv, EditsInv, HasEdit
    <2>3. \A t : HasEdit(t)' <=> HasEdit(t) BY <2>1 DEF HasEdit
    <2>4. Alive => \A t \in Travelling' \cup Waiting' : ~HasEdit(t)
      BY <1>5, <1>8, <2>2 DEF IInv, EditsInv
    <2>5. \A t \in Serials' : answers'[t] # <<>> => (answers'[t][1] = "applied" <=> HasEdit(t))
      BY <1>3, <1>4 DEF IInv, EditsInv, Answered
    <2>6. \A edit \in applied : Reported(edit, IF edit.query = active THEN ledger ELSE replies[edit.query])'
      BY <2>1 DEF IInv, EditsInv, Reported
    <2>. QED BY <1>4, <2>1, <2>3, <2>4, <2>5, <2>6 DEF IInv, EditsInv, Alive, Answered
  <1>. QED BY <1>6, <1>7, <1>9, <1>10, <1>11 DEF IInv

\* What leaves the requests where they are.
LEMMA QuietPlaces ==
    ASSUME IInv, UNCHANGED <<asked, answers, order, pending>>, processing' \in {processing, 0},
           EachOnce(pipe'), Travelling' = Travelling, InProcess' = InProcess, Alive' => Alive
    PROVE  PlacesInv' /\ TableInv'
  <1>1. Serials' = Serials /\ Waiting' = Waiting /\ Busy' = Busy BY DEF Serials, Waiting, Busy
  <1>2. PlacesInv' BY <1>1 DEF IInv, PlacesInv
  <1>3. TableInv'
    <2>1. Cardinality(Busy) \in Nat /\ RequestLimit \in Nat
      BY FS_CardinalityType, RequestAssumption DEF IInv, TableInv
    <2>2. Cardinality(Busy) + (IF processing' = 0 THEN 0 ELSE 1) <= RequestLimit
      BY <2>1 DEF IInv, TableInv
    <2>. QED BY <1>1, <2>2 DEF IInv, TableInv
  <1>. QED BY <1>2, <1>3

LEMMA QuietEdits ==
    ASSUME IInv, UNCHANGED <<plot, asked, answers, pending, active, next, ledger, replies, applied>>,
           Travelling' = Travelling, Alive' => Alive,
           at' \in {"drain", "write"} => at \in {"drain", "write"} /\ UNCHANGED <<processing, result>>
    PROVE  EditsInv'
  <1>1. Serials' = Serials /\ Waiting' = Waiting BY DEF Serials, Waiting
  <1>2. \A s : HasEdit(s)' <=> HasEdit(s) BY DEF HasEdit
  <1>3. \A edit \in applied : Reported(edit, IF edit.query = active THEN ledger ELSE replies[edit.query])'
    BY DEF IInv, EditsInv, Reported
  <1>4. Alive' => \A s \in Travelling' \cup Waiting' : ~HasEdit(s) BY <1>1 DEF IInv, EditsInv
  <1>5. at' \in {"drain", "write"} => (result' = "applied" <=> HasEdit(processing'))
    BY DEF IInv, EditsInv
  <1>6. \A s \in Serials : (Answered(s) => (answers[s][1] = "applied" <=> HasEdit(s)))'
    BY <1>1, <1>2 DEF IInv, EditsInv, Answered
  <1>7. HasEdit(processing)' <=> HasEdit(processing') BY DEF HasEdit
  <1>. QED BY <1>1, <1>2, <1>3, <1>4, <1>5, <1>6, <1>7 DEF IInv, EditsInv

\* Frames that are no requests.
LEMMA OtherFrameStep ==
    ASSUME IInv, (\E s \in Serials : CancelAsked(s)) \/ Respond
    PROVE  IInv'
  <1>. USE Shapes
  <1>1. PICK f \in Frame : f.kind # "request" /\ pipe' = Append(pipe, f)
    <2>1. CASE Respond
      <3>1. [kind |-> "response", query |-> serving] \in Frame BY DEF Frame, IInv, TypeOK
      <3>. QED BY <2>1, <3>1 DEF Respond
    <2>2. ASSUME NEW s \in Serials, CancelAsked(s) PROVE \E f \in Frame : f.kind # "request" /\ pipe' = Append(pipe, f)
      <3>1. asked[s].id \in Ids BY <2>2 DEF CancelAsked, Request
      <3>2. [kind |-> "cancel", id |-> asked[s].id] \in Frame BY <3>1 DEF Frame
      <3>. QED BY <2>2, <3>2 DEF CancelAsked
    <2>. QED BY <2>1, <2>2
  <1>2. pipe' \in Seq(Frame) /\ EachOnce(pipe') /\ RequestsIn(pipe') = RequestsIn(pipe)
    BY <1>1, SentFrame DEF IInv, MoreTypes, PlacesInv
  <1>3. Travelling' = Travelling BY <1>2 DEF Travelling, RequestsIn
  <1>4. UNCHANGED <<plot, asked, answers, at, mode, queue, processing, result, drained, query>>
    BY DEF CancelAsked, Respond
  <1>5. TypeOK'
    <2>0. /\ cancels' = cancels \/ (cancels < plot.cancels /\ cancels' = cancels + 1)
          /\ serving' = serving \/ serving' = 0
      BY DEF CancelAsked, Respond
    <2>1. plot.cancels \in Nat /\ cancels \in 0..plot.cancels BY RequestAssumption DEF IInv, TypeOK
    <2>2. cancels' \in 0..plot.cancels BY <2>0, <2>1
    <2>3. serving' \in 0..Len(plot.queries)
      <3>1. serving \in 0..Len(plot.queries) BY DEF IInv, TypeOK
      <3>2. Len(plot.queries) \in Nat BY RequestAssumption DEF IInv, TypeOK
      <3>. QED BY <2>0, <3>1, <3>2
    <2>. QED BY <1>4, <2>2, <2>3 DEF IInv, TypeOK, queue, query
  <1>6. MoreTypes' BY <1>2, <1>4 DEF IInv, MoreTypes, query
  <1>7. PlacesInv' /\ TableInv'
    BY <1>2, <1>3, <1>4, QuietPlaces DEF queue, Alive, InProcess
  <1>8. EditsInv' BY <1>3, <1>4, QuietEdits DEF queue, query, Alive
  <1>. QED BY <1>5, <1>6, <1>7, <1>8 DEF IInv

\* The active query gets its ledger, and with it every edit that was made for it.
LEMMA SettledEdits ==
    ASSUME IInv, replies' = (IF active = 0 THEN replies ELSE [replies EXCEPT ![active] = ledger])
    PROVE  /\ replies' \in [DOMAIN plot.queries -> Seq(Entry)]
           /\ \A edit \in applied : Reported(edit, replies'[edit.query])
  <1>. USE Shapes
  <1>1. replies \in [DOMAIN plot.queries -> Seq(Entry)] /\ ledger \in Seq(Entry)
    BY DEF IInv, MoreTypes, TypeOK
  <1>2. active \in 0..Len(plot.queries) BY DEF IInv, TypeOK
  <1>3. replies' \in [DOMAIN plot.queries -> Seq(Entry)] BY <1>1, <1>2
  <1>4. ASSUME NEW edit \in applied PROVE Reported(edit, replies'[edit.query])
    <2>1. edit.query \in DOMAIN plot.queries /\ edit.query # 0 BY DEF IInv, EditsInv
    <2>2. CASE edit.query = active
      <3>1. replies'[edit.query] = ledger BY <1>1, <2>1, <2>2
      <3>2. Reported(edit, ledger) BY <2>2 DEF IInv, EditsInv
      <3>. QED BY <3>1, <3>2
    <2>3. CASE edit.query # active
      <3>1. replies'[edit.query] = replies[edit.query] BY <1>1, <2>1, <2>3
      <3>2. Reported(edit, replies[edit.query]) BY <2>3 DEF IInv, EditsInv
      <3>. QED BY <3>1, <3>2
    <2>. QED BY <2>2, <2>3
  <1>. QED BY <1>3, <1>4

\* Whatever ends the Session leaves no request anywhere and tells whoever waits.
LEMMA TerminateStep ==
    ASSUME IInv, Terminate
    PROVE  IInv'
  <1>. USE Shapes
  <1>1. /\ replies' = (IF active = 0 THEN replies ELSE [replies EXCEPT ![active] = ledger])
        /\ active' = 0 /\ ledger' = <<>> /\ usage' = 0 /\ UNCHANGED <<next, applied, plot, server, mode>>
        /\ at' = "dead" /\ pipe' = <<>> /\ order' = <<>> /\ pending' = [id \in Ids |-> 0]
        /\ processing' = 0 /\ result' = NoReply /\ drained' = 0
    BY DEF Terminate, FailActive
  <1>2. TypeOK' BY <1>1, RequestAssumption DEF IInv, TypeOK, server, Over
  <1>3. MoreTypes' BY <1>1, SettledEdits DEF IInv, MoreTypes, server, Code
  <1>4. Busy' = {} /\ Travelling' = {} /\ Serials' = Serials /\ ~Alive'
    BY <1>1 DEF Busy, Travelling, Serials, Alive, Over, server
  <1>5. PlacesInv' BY <1>1, <1>4 DEF IInv, PlacesInv, EachOnce, server
  <1>6. TableInv' BY <1>1, <1>4, FS_EmptySet, RequestAssumption DEF TableInv
  <1>7. EditsInv'
    <2>1. active' < next' BY <1>1 DEF IInv, TypeOK
    <2>2. \A edit \in applied : Reported(edit, IF edit.query = active THEN ledger ELSE replies[edit.query])'
      <3>1. \A edit \in applied : edit.query # 0 BY DEF IInv, EditsInv
      <3>. QED BY <1>1, <3>1, SettledEdits DEF Reported
    <2>3. \A s : HasEdit(s)' <=> HasEdit(s) BY <1>1 DEF HasEdit
    <2>4. \A s \in Serials : (Answered(s) => (answers[s][1] = "applied" <=> HasEdit(s)))'
      BY <1>1, <2>3 DEF IInv, EditsInv, Answered, server
    <2>. QED BY <1>1, <1>4, <2>1, <2>2, <2>4 DEF IInv, EditsInv
  <1>. QED BY <1>2, <1>3, <1>5, <1>6, <1>7 DEF IInv

\* An answer that is written, the queue being dealt with elsewhere.
LEMMA AnswerStep ==
    ASSUME IInv, NEW s \in Serials, answers[s] = <<>>, NEW c \in Code, Answer(s, c), asked' = asked
    PROVE  /\ answers' \in Seq(Seq(Code)) /\ Len(answers') = Len(answers) /\ Serials' = Serials
           /\ answers'[s] = <<c>> /\ \A t \in Serials \ {s} : answers'[t] = answers[t]
  <1>1. answers \in Seq(Seq(Code)) /\ s \in 1..Len(answers) BY Shapes DEF IInv, MoreTypes, Serials
  <1>2. answers' = [answers EXCEPT ![s] = Append(@, c)] BY DEF Answer
  <1>3. Serials' = Serials /\ Serials = 1..Len(answers) BY Shapes DEF Serials
  <1>. QED BY <1>1, <1>2, <1>3, GivenAnswer

\* The edits are as they were, and whatever was answered now had none.
LEMMA AnsweredEdits ==
    ASSUME IInv, UNCHANGED <<plot, asked, active, next, ledger, replies, applied, processing, result, at>>,
           NEW s \in Serials, NEW c \in Code, c # "applied",
           answers' = answers \/ (answers'[s] = <<c>> /\ ~HasEdit(s) /\ \A t \in Serials \ {s} : answers'[t] = answers[t]),
           Travelling' \cup Waiting' \subseteq Travelling \cup Waiting
    PROVE  EditsInv'
  <1>1. Serials' = Serials BY DEF Serials
  <1>2. \A t : HasEdit(t)' <=> HasEdit(t) BY DEF HasEdit
  <1>3. \A edit \in applied : Reported(edit, IF edit.query = active THEN ledger ELSE replies[edit.query])'
    BY DEF IInv, EditsInv, Reported
  <1>4. Alive' => \A t \in Travelling' \cup Waiting' : ~HasEdit(t) BY DEF IInv, EditsInv, Alive
  <1>5. at' \in {"drain", "write"} => (result' = "applied" <=> HasEdit(processing)')
    BY <1>2 DEF IInv, EditsInv
  <1>6. \A t \in Serials : answers'[t] # <<>> => (answers'[t][1] = "applied" <=> HasEdit(t))
    <2>. TAKE t \in Serials
    <2>1. CASE answers'[t] = answers[t] BY <2>1 DEF IInv, EditsInv, Answered
    <2>2. CASE answers'[t] # answers[t]
      <3>1. t = s /\ answers'[t] = <<c>> /\ ~HasEdit(t) BY <2>2
      <3>. QED BY <3>1
    <2>. QED BY <2>1, <2>2
  <1>. QED BY <1>1, <1>2, <1>3, <1>4, <1>5, <1>6 DEF IInv, EditsInv, Answered

\* A request is refused, or enters the table (queue_server_request).
LEMMA RequestFrameStep ==
    ASSUME IInv, at \in {"select"} \cup Draining, pipe # <<>>, pipe' = Tail(pipe),
           Head(pipe).kind = "request", ~Reused(Head(pipe).serial), QueueRequest(Head(pipe).serial),
           drained' \in 0..RequestLimit,
           UNCHANGED <<plot, asked, serving, cancels, at, mode, processing, result>>
    PROVE  IInv'
  <1>. DEFINE s == Head(pipe).serial  id == asked[Head(pipe).serial].id
  <1>. USE Shapes
  <1>1. /\ pipe' \in Seq(Frame) /\ EachOnce(pipe') /\ s \in Travelling
        /\ Travelling' = Travelling \ {s}
    <2>1. Travelling' = RequestsIn(pipe') BY DEF Travelling, RequestsIn
    <2>. QED BY <2>1, TakenFrame DEF IInv, MoreTypes, PlacesInv
  <1>2. Alive BY DEF Alive, Over, Draining
  <1>3. /\ s \in Serials /\ s \notin Waiting /\ s \notin InProcess /\ answers[s] = <<>> /\ ~HasEdit(s)
    BY <1>1, <1>2 DEF IInv, PlacesInv, EditsInv
  <1>4. id \in Ids \cup {NoId} BY <1>3 DEF Request
  <1>5. CASE \/ id = NoId /\ Answer(s, "invalid_request") /\ UNCHANGED queue
             \/ id # NoId /\ ~Room /\ Answer(s, "client_busy") /\ UNCHANGED queue
    <2>1. PICK c \in Code : c # "applied" /\ Answer(s, c) BY <1>5 DEF Code
    <2>2. /\ answers' \in Seq(Seq(Code)) /\ Len(answers') = Len(answers) /\ Serials' = Serials
          /\ answers'[s] = <<c>> /\ \A t \in Serials \ {s} : answers'[t] = answers[t]
      BY <1>3, <2>1, AnswerStep
    <2>3. UNCHANGED queue /\ UNCHANGED query BY <1>5 DEF QueueRequest
    <2>4. Waiting' = Waiting /\ Busy' = Busy /\ InProcess' = InProcess
      BY <2>2, <2>3 DEF Waiting, Busy, InProcess, queue
    <2>5. TypeOK' BY <2>2, <2>3 DEF IInv, TypeOK, queue, query
    <2>6. MoreTypes' BY <1>1, <2>2, <2>3 DEF IInv, MoreTypes, query
    <2>7. PlacesInv'
      <3>1. <<c>> # <<>> /\ Len(<<c>>) = 1 OBVIOUS
      <3>2. \A t \in Serials :
              /\ t \in Travelling' => t \notin Waiting /\ t \notin InProcess
              /\ t \in Waiting => t \notin InProcess
              /\ answers'[t] = <<>> <=> t \in Travelling' \cup Waiting \cup InProcess
              /\ Len(answers'[t]) <= 1
        <4>. TAKE t \in Serials
        <4>1. CASE t = s
          <5>1. t \notin Travelling' /\ t \notin Waiting /\ t \notin InProcess BY <1>1, <1>3, <4>1
          <5>2. answers'[t] = <<c>> BY <2>2, <4>1
          <5>3. answers'[t] # <<>> /\ Len(answers'[t]) <= 1 BY <3>1, <5>2
          <5>. QED BY <5>1, <5>3
        <4>2. CASE t # s BY <1>1, <1>2, <2>2, <4>2 DEF IInv, PlacesInv
        <4>. QED BY <4>1, <4>2
      <3>. QED BY <1>1, <2>2, <2>4, <3>2 DEF IInv, PlacesInv
    <2>8. TableInv' BY <2>3, <2>4 DEF IInv, TableInv, queue
    <2>9. EditsInv'
      BY <1>1, <1>3, <2>1, <2>2, <2>3, <2>4, AnsweredEdits DEF query
    <2>. QED BY <2>5, <2>6, <2>7, <2>8, <2>9 DEF IInv
  <1>6. CASE /\ id # NoId /\ Room
             /\ order' = Append(order, id) /\ pending' = [pending EXCEPT ![id] = s]
             /\ UNCHANGED answers
    <2>1. UNCHANGED query BY DEF QueueRequest
    <2>2. id \in Ids /\ id \notin Busy BY <1>4, <1>6 DEF Reused
    <2>3. pending \in [Ids -> 0..Len(asked)] /\ order \in Seq(Ids) BY DEF IInv, TypeOK
    <2>4. pending'[id] = s /\ \A i \in Ids \ {id} : pending'[i] = pending[i] BY <1>6, <2>2, <2>3
    <2>5. s # 0 BY <1>3 DEF Serials
    <2>6. Busy' = Busy \cup {id} BY <2>2, <2>4, <2>5 DEF Busy
    <2>7. Waiting' = Waiting \cup {s}
      <3>1. \A t \in Serials \ {s} : t \in Waiting' <=> t \in Waiting
        <4>. TAKE t \in Serials \ {s}
        <4>1. CASE asked[t].id = id
          <5>1. t \notin Waiting' BY <2>4, <4>1 DEF Waiting
          <5>2. t \notin Waiting BY <2>2, <4>1 DEF Waiting, Busy, Serials
          <5>. QED BY <5>1, <5>2
        <4>2. CASE asked[t].id # id
          <5>1. asked[t].id # NoId => asked[t].id \in Ids \ {id} BY <4>2 DEF Request
          <5>. QED BY <2>4, <5>1 DEF Waiting, Serials
        <4>. QED BY <4>1, <4>2
      <3>2. s \in Waiting' BY <1>3, <1>6, <2>4 DEF Waiting, Serials
      <3>. QED BY <1>3, <3>1, <3>2 DEF Waiting, Serials
    <2>8. InProcess' = InProcess /\ Serials' = Serials BY DEF InProcess, Serials
    <2>9. TypeOK'
      <3>1. order' \in Seq(Ids) /\ pending' \in [Ids -> 0..Len(asked)] BY <1>3, <1>6, <2>2, <2>3 DEF Serials
      <3>. QED BY <1>6, <2>1, <3>1 DEF IInv, TypeOK, query
    <2>10. MoreTypes' BY <1>1, <1>6, <2>1 DEF IInv, MoreTypes, query
    <2>11. PlacesInv'
      <3>1. \A t \in Serials :
              /\ t \in Travelling' => t \notin Waiting' /\ t \notin InProcess
              /\ t \in Waiting' => t \notin InProcess
              /\ answers[t] = <<>> <=> t \in Travelling' \cup Waiting' \cup InProcess
        BY <1>1, <1>2, <1>3, <2>7 DEF IInv, PlacesInv
      <3>. QED BY <1>1, <1>6, <2>8, <3>1 DEF IInv, PlacesInv
    <2>12. TableInv'
      <3>1. \A i \in Busy' : asked'[pending'[i]].id = i
        BY <2>4, <2>6 DEF IInv, TableInv, Busy
      <3>2. Range(order') = Range(order) \cup {id} BY <1>6, <2>2, <2>3, Ranges
      <3>3. Cardinality(Busy') = Cardinality(Busy) + 1 /\ IsFiniteSet(Busy') /\ Cardinality(Busy) \in Nat
        <4>1. IsFiniteSet(Busy) /\ Cardinality(Busy) \in Nat BY FS_CardinalityType DEF IInv, TableInv
        <4>. QED BY <2>2, <2>6, <4>1, FS_AddElement
      <3>4. Cardinality(Busy) + (IF processing = 0 THEN 0 ELSE 1) < RequestLimit BY <1>6 DEF Room
      <3>5. Cardinality(Busy') + (IF processing' = 0 THEN 0 ELSE 1) <= RequestLimit
        BY <3>3, <3>4, RequestAssumption
      <3>. QED BY <2>6, <3>1, <3>2, <3>3, <3>5 DEF IInv, TableInv
    <2>13. EditsInv'
      BY <1>1, <1>3, <1>6, <2>1, <2>7, AnsweredEdits DEF query, Code
    <2>. QED BY <2>9, <2>10, <2>11, <2>12, <2>13 DEF IInv
  <1>. QED BY <1>5, <1>6 DEF QueueRequest

\* One identifier leaves the table.
LEMMA LeavesTable ==
    ASSUME IInv, NEW id \in Ids, pending' = [pending EXCEPT ![id] = 0], asked' = asked
    PROVE  /\ Busy' = Busy \ {id} /\ Serials' = Serials
           /\ pending' \in [Ids -> 0..Len(asked)]
           /\ \A i \in Busy' : asked'[pending'[i]].id = i /\ pending'[i] = pending[i]
           /\ Waiting' = IF id \in Busy THEN Waiting \ {pending[id]} ELSE Waiting
           /\ IsFiniteSet(Busy') /\ Cardinality(Busy) \in Nat
           /\ Cardinality(Busy') = IF id \in Busy THEN Cardinality(Busy) - 1 ELSE Cardinality(Busy)
           /\ id \in Busy => pending[id] \in Waiting
  <1>. USE Shapes
  <1>1. pending \in [Ids -> 0..Len(asked)] BY DEF IInv, TypeOK
  <1>2. pending'[id] = 0 /\ \A i \in Ids \ {id} : pending'[i] = pending[i] BY <1>1
  <1>3. Busy' = Busy \ {id} BY <1>2 DEF Busy
  <1>4. \A i \in Busy' : asked'[pending'[i]].id = i /\ pending'[i] = pending[i]
    BY <1>2, <1>3 DEF IInv, TableInv, Busy
  <1>5. Serials' = Serials BY DEF Serials
  <1>6. \A t \in Serials : t \in Waiting' <=> t \in Waiting /\ asked[t].id # id
    <2>. TAKE t \in Serials
    <2>1. asked[t].id # NoId /\ asked[t].id # id => pending'[asked[t].id] = pending[asked[t].id]
      BY <1>2 DEF Request
    <2>2. asked[t].id = id => pending'[asked[t].id] # t BY <1>2 DEF Serials
    <2>. QED BY <1>5, <2>1, <2>2 DEF Waiting
  <1>7. \A t \in Waiting : asked[t].id = id <=> id \in Busy /\ t = pending[id]
    BY DEF Waiting, IInv, TableInv, Busy, Serials
  <1>8. Waiting' = IF id \in Busy THEN Waiting \ {pending[id]} ELSE Waiting
    <2>1. Waiting \subseteq Serials /\ Waiting' \subseteq Serials BY <1>5 DEF Waiting
    <2>2. \A t \in Serials : t \in Waiting' <=> t \in Waiting /\ ~(id \in Busy /\ t = pending[id])
      BY <1>6, <1>7
    <2>. QED BY <2>1, <2>2
  <1>9. IsFiniteSet(Busy') /\ Cardinality(Busy) \in Nat
        /\ Cardinality(Busy') = IF id \in Busy THEN Cardinality(Busy) - 1 ELSE Cardinality(Busy)
    BY <1>3, FS_RemoveElement, FS_CardinalityType DEF IInv, TableInv
  <1>10. pending' \in [Ids -> 0..Len(asked)] BY <1>1 DEF IInv, TypeOK
  <1>. QED BY <1>3, <1>4, <1>5, <1>8, <1>9, <1>10

\* A queued request is answered as cancelled, any other cancellation is ignored.
LEMMA CancelFrameStep ==
    ASSUME IInv, at \in {"select"} \cup Draining, pipe # <<>>, pipe' = Tail(pipe),
           Head(pipe).kind = "cancel", CancelRequest(Head(pipe).id),
           drained' \in 0..RequestLimit,
           UNCHANGED <<plot, asked, serving, cancels, at, mode, processing, result>>
    PROVE  IInv'
  <1>. DEFINE id == Head(pipe).id
  <1>. USE Shapes
  <1>1. pipe' \in Seq(Frame) /\ EachOnce(pipe') /\ Travelling' = Travelling
    <2>1. Travelling' = RequestsIn(pipe') BY DEF Travelling, RequestsIn
    <2>. QED BY <2>1, TakenFrame DEF IInv, MoreTypes, PlacesInv
  <1>2. id \in Ids
    <2>1. Head(pipe) \in Frame BY TakenFrame DEF IInv, MoreTypes, PlacesInv
    <2>. QED BY <2>1 DEF Frame
  <1>3. Alive BY DEF Alive, Over, Draining
  <1>4. pending' = [pending EXCEPT ![id] = 0] /\ order' = order /\ UNCHANGED query BY DEF CancelRequest
  <1>5. /\ Busy' = Busy \ {id} /\ Serials' = Serials
        /\ pending' \in [Ids -> 0..Len(asked)]
        /\ \A i \in Busy' : asked'[pending'[i]].id = i
        /\ Waiting' = IF id \in Busy THEN Waiting \ {pending[id]} ELSE Waiting
        /\ IsFiniteSet(Busy') /\ Cardinality(Busy') \in Nat /\ Cardinality(Busy') <= Cardinality(Busy)
        /\ id \in Busy => pending[id] \in Waiting
    <2>. HIDE DEF id
    <2>1. /\ Busy' = Busy \ {id} /\ Serials' = Serials
          /\ pending' \in [Ids -> 0..Len(asked)]
          /\ \A i \in Busy' : asked'[pending'[i]].id = i
          /\ Waiting' = IF id \in Busy THEN Waiting \ {pending[id]} ELSE Waiting
          /\ IsFiniteSet(Busy') /\ Cardinality(Busy) \in Nat
          /\ Cardinality(Busy') = IF id \in Busy THEN Cardinality(Busy) - 1 ELSE Cardinality(Busy)
          /\ id \in Busy => pending[id] \in Waiting
      BY <1>2, <1>4, LeavesTable
    <2>2. Cardinality(Busy') \in Nat BY <2>1, FS_CardinalityType
    <2>3. Cardinality(Busy') <= Cardinality(Busy) BY <2>1, <2>2
    <2>. QED BY <2>1, <2>2, <2>3
  <1>6. InProcess' = InProcess BY DEF InProcess
  <1>7. id \in Busy => /\ pending[id] \in Serials /\ answers[pending[id]] = <<>>
                       /\ pending[id] \notin Travelling \cup InProcess /\ ~HasEdit(pending[id])
    BY <1>3, <1>5 DEF IInv, PlacesInv, EditsInv, Waiting
  <1>8. /\ answers' \in Seq(Seq(Code)) /\ Len(answers') = Len(answers)
        /\ IF id \in Busy
           THEN /\ answers'[pending[id]] = <<"request_cancelled">>
                /\ \A t \in Serials \ {pending[id]} : answers'[t] = answers[t]
           ELSE answers' = answers
    <2>1. CASE id \in Busy
      <3>1. Answer(pending[id], "request_cancelled") /\ "request_cancelled" \in Code
        BY <2>1 DEF CancelRequest, Code
      <3>. QED BY <1>7, <2>1, <3>1, AnswerStep
    <2>2. CASE id \notin Busy BY <2>2 DEF CancelRequest, IInv, MoreTypes
    <2>. QED BY <2>1, <2>2
  <1>9. TypeOK' BY <1>4, <1>5, <1>8 DEF IInv, TypeOK, query
  <1>10. MoreTypes' BY <1>1, <1>4, <1>8 DEF IInv, MoreTypes, query
  <1>11. PlacesInv'
    <2>1. <<"request_cancelled">> # <<>> /\ Len(<<"request_cancelled">>) = 1 OBVIOUS
    <2>2. \A t \in Serials :
            /\ t \in Travelling => t \notin Waiting' /\ t \notin InProcess
            /\ t \in Waiting' => t \notin InProcess
            /\ answers'[t] = <<>> <=> t \in Travelling \cup Waiting' \cup InProcess
            /\ Len(answers'[t]) <= 1
      <3>. TAKE t \in Serials
      <3>1. CASE id \in Busy /\ t = pending[id]
        <4>1. t \notin Travelling /\ t \notin Waiting' /\ t \notin InProcess BY <1>5, <1>7, <3>1
        <4>2. answers'[t] = <<"request_cancelled">> BY <1>8, <3>1
        <4>3. answers'[t] # <<>> /\ Len(answers'[t]) <= 1 BY <2>1, <4>2
        <4>. QED BY <4>1, <4>3
      <3>2. CASE ~(id \in Busy /\ t = pending[id])
        <4>1. answers'[t] = answers[t] /\ (t \in Waiting' <=> t \in Waiting) BY <1>5, <1>8, <3>2
        <4>. QED BY <1>3, <4>1 DEF IInv, PlacesInv
      <3>. QED BY <3>1, <3>2
    <2>. QED BY <1>1, <1>5, <1>6, <2>2 DEF IInv, PlacesInv
  <1>12. TableInv'
    <2>1. Cardinality(Busy) \in Nat /\ RequestLimit \in Nat
      BY FS_CardinalityType, RequestAssumption DEF IInv, TableInv
    <2>2. Cardinality(Busy') + (IF processing = 0 THEN 0 ELSE 1) <= RequestLimit
      BY <1>5, <2>1 DEF IInv, TableInv
    <2>. QED BY <1>4, <1>5, <2>2 DEF IInv, TableInv
  <1>13. EditsInv'
    <2>1. UNCHANGED <<active, next, ledger, replies, applied>> BY <1>4 DEF query
    <2>2. Travelling' \cup Waiting' \subseteq Travelling \cup Waiting BY <1>1, <1>5
    <2>3. "request_cancelled" \in Code BY DEF Code
    <2>4. CASE id \in Busy
      BY <1>7, <1>8, <2>1, <2>2, <2>3, <2>4, AnsweredEdits
    <2>5. CASE id \notin Busy
      BY <1>1, <1>4, <1>8, <2>1, <2>5, QuietEdits DEF Alive, Busy, IInv, TypeOK
    <2>. QED BY <2>4, <2>5
  <1>. QED BY <1>9, <1>10, <1>11, <1>12, <1>13 DEF IInv

\* The response of the server to the active query settles it.
LEMMA ResponseFrameStep ==
    ASSUME IInv, at \in {"select"} \cup Draining, pipe # <<>>, pipe' = Tail(pipe),
           Head(pipe).kind = "response", active # 0, Head(pipe).query = active, Settle(Head(pipe).query),
           drained' \in 0..RequestLimit,
           UNCHANGED <<plot, asked, serving, cancels, at, mode, processing, result>>
    PROVE  IInv'
  <1>. USE Shapes
  <1>1. pipe' \in Seq(Frame) /\ EachOnce(pipe') /\ Travelling' = Travelling
    <2>1. Travelling' = RequestsIn(pipe') BY DEF Travelling, RequestsIn
    <2>. QED BY <2>1, TakenFrame DEF IInv, MoreTypes, PlacesInv
  <1>2. /\ replies' = (IF active = 0 THEN replies ELSE [replies EXCEPT ![active] = ledger])
        /\ active' = 0 /\ ledger' = <<>> /\ usage' = 0 /\ UNCHANGED <<next, applied, answers, order, pending>>
    BY DEF Settle, queue
  <1>3. TypeOK' BY <1>2, RequestAssumption DEF IInv, TypeOK
  <1>4. MoreTypes' BY <1>1, <1>2, SettledEdits DEF IInv, MoreTypes
  <1>5. PlacesInv' /\ TableInv' BY <1>1, <1>2, QuietPlaces DEF InProcess, Alive
  <1>6. EditsInv'
    <2>1. active' < next' BY <1>2 DEF IInv, TypeOK
    <2>2. \A edit \in applied : Reported(edit, IF edit.query = active THEN ledger ELSE replies[edit.query])'
      <3>1. \A edit \in applied : edit.query # 0 BY DEF IInv, EditsInv
      <3>. QED BY <1>2, <3>1, SettledEdits DEF Reported
    <2>3. \A s : HasEdit(s)' <=> HasEdit(s) BY <1>2 DEF HasEdit
    <2>4. Serials' = Serials /\ Waiting' = Waiting BY <1>2 DEF Serials, Waiting
    <2>5. Alive' => \A s \in Travelling' \cup Waiting' : ~HasEdit(s)
      BY <1>1, <2>4 DEF IInv, EditsInv, Alive
    <2>6. \A s \in Serials : (Answered(s) => (answers[s][1] = "applied" <=> HasEdit(s)))'
      BY <1>2, <2>3 DEF IInv, EditsInv, Answered
    <2>7. at' \in {"drain", "write"} => (result' = "applied" <=> HasEdit(processing)')
      BY <1>2, <2>3 DEF IInv, EditsInv
    <2>. QED BY <1>2, <2>1, <2>2, <2>3, <2>4, <2>5, <2>6, <2>7 DEF IInv, EditsInv
  <1>. QED BY <1>3, <1>4, <1>5, <1>6 DEF IInv

LEMMA TakeFrameStep ==
    ASSUME IInv, TakeFrame
    PROVE  IInv'
  <1>. DEFINE f == Head(pipe)  count == IF at \in Draining THEN drained + 1 ELSE drained
  <1>1. CASE Terminate BY <1>1, TerminateStep
  <1>2. CASE /\ count <= RequestLimit /\ ~Unexpected(f)
             /\ pipe' = Tail(pipe)
             /\ HandleFrame(f) /\ drained' = count
             /\ UNCHANGED <<plot, asked, serving, cancels, at, mode, processing, result>>
    <2>1. at \in {"select"} \cup Draining /\ pipe # <<>> BY DEF TakeFrame
    <2>2. drained' \in 0..RequestLimit BY <1>2, RequestAssumption DEF IInv, TypeOK
    <2>3. CASE f.kind = "request" /\ QueueRequest(f.serial)
      BY <1>2, <2>1, <2>2, <2>3, RequestFrameStep DEF Unexpected
    <2>4. CASE f.kind = "cancel" /\ CancelRequest(f.id)
      BY <1>2, <2>1, <2>2, <2>4, CancelFrameStep
    <2>5. CASE f.kind = "response" /\ Settle(f.query)
      BY <1>2, <2>1, <2>2, <2>5, ResponseFrameStep DEF Unexpected
    <2>. QED BY <1>2, <2>3, <2>4, <2>5 DEF HandleFrame
  <1>. QED BY <1>1, <1>2 DEF TakeFrame

-----------------------------------------------------------------------------
(* The loop *)

\* The identifier of a cancelled request leaves the order queue.
LEMMA TombstoneStep ==
    ASSUME IInv, ProcessTombstone
    PROVE  IInv'
  <1>. DEFINE id == Head(order)
  <1>. USE Shapes
  <1>1. order \in Seq(Ids) /\ order # <<>> /\ order' = Tail(order) /\ id \in Ids /\ id \notin Busy
    BY DEF ProcessTombstone, IInv, TypeOK, Busy
  <1>2. UNCHANGED <<plot, server, pipe, at, mode, pending, processing, result, drained, query>>
    BY DEF ProcessTombstone
  <1>3. Range(order) = Range(order') \cup {id} BY <1>1, Ranges
  <1>4. Busy' = Busy /\ Waiting' = Waiting /\ Serials' = Serials /\ InProcess' = InProcess
        /\ Travelling' = Travelling
    BY <1>2 DEF Busy, Waiting, Serials, InProcess, Travelling, server
  <1>5. TypeOK'
    <2>1. order' \in Seq(Ids) BY <1>1
    <2>. QED BY <1>2, <2>1 DEF IInv, TypeOK, server, query
  <1>6. MoreTypes' BY <1>2 DEF IInv, MoreTypes, server, query
  <1>7. PlacesInv' BY <1>2, <1>4 DEF IInv, PlacesInv, Alive, server
  <1>8. TableInv' BY <1>1, <1>2, <1>3, <1>4 DEF IInv, TableInv, server
  <1>9. EditsInv' BY <1>2, <1>4, QuietEdits DEF server, query, Alive
  <1>. QED BY <1>5, <1>6, <1>7, <1>8, <1>9 DEF IInv

\* What a request makes of the edits, before its answer is written.
LEMMA HandledEdit ==
    ASSUME IInv, at = "select", NEW s \in Serials, ~HasEdit(s),
           HandleEdit(s) \/ RouteRequest, UNCHANGED <<plot, active, next, replies>>
    PROVE  /\ ledger' \in Seq(Entry) /\ usage' \in 0..MaxEntries /\ result' \in Code
           /\ applied \subseteq applied' /\ applied' \subseteq Edit
           /\ \A edit \in applied' \ applied :
                edit.serial = s /\ edit.query = active /\ active # 0 /\ Reported(edit, ledger')
           /\ \A edit, other \in applied' \ applied : edit = other
           /\ result' = "applied" <=> applied' # applied
           /\ \A edit \in applied : Reported(edit, ledger) => Reported(edit, ledger')
  <1>. USE Shapes
  <1>1. ledger \in Seq(Entry) /\ usage \in 0..MaxEntries /\ MaxEntries \in Nat /\ applied \subseteq Edit
    BY RequestAssumption DEF IInv, TypeOK, MoreTypes
  <1>2. s \in Nat \ {0} BY DEF Serials
  <1>3. ASSUME NEW outcome \in {"applied", "previewed", "rejected"}, Note(s, outcome)
        PROVE  /\ ledger' \in Seq(Entry)
               /\ \A edit : Reported(edit, ledger) => Reported(edit, ledger')
               /\ active # 0 /\ outcome = "applied" =>
                     \A edit : edit.serial = s => Reported(edit, ledger')
    <2>. DEFINE e == [serial |-> s, outcome |-> outcome]
    <2>1. e \in Entry BY <1>2 DEF Entry
    <2>2. CASE active = 0
      BY <1>1, <1>3, <2>2 DEF Note
    <2>3. CASE active # 0
      <3>1. ledger' = Append(ledger, e) BY <1>3, <2>3 DEF Note
      <3>2. /\ ledger' \in Seq(Entry) /\ Len(ledger) \in Nat
            /\ DOMAIN ledger = 1..Len(ledger) /\ DOMAIN ledger' = 1..Len(ledger) + 1
            /\ ledger'[Len(ledger) + 1] = e /\ \A i \in 1..Len(ledger) : ledger'[i] = ledger[i]
        BY <1>1, <2>1, <3>1
      <3>3. \A edit : Reported(edit, ledger) => Reported(edit, ledger') BY <3>2 DEF Reported
      <3>4. outcome = "applied" => \A edit : edit.serial = s => Reported(edit, ledger')
        <4>. SUFFICES ASSUME outcome = "applied", NEW edit, edit.serial = s PROVE Reported(edit, ledger')
          OBVIOUS
        <4>1. e = [serial |-> edit.serial, outcome |-> "applied"] OBVIOUS
        <4>2. Len(ledger) + 1 \in DOMAIN ledger' BY <3>2
        <4>. QED BY <3>2, <4>1, <4>2 DEF Reported
      <3>. QED BY <3>2, <3>3, <3>4
    <2>. QED BY <2>2, <2>3
  <1>4. CASE \E outcome \in {"previewed", "rejected"}, code \in {"invalid_params", "not_applied"} :
                Decline(s, outcome, code)
    BY <1>1, <1>3, <1>4 DEF Decline, Code
  <1>5. CASE MayApply /\ ApplyEdit(s)
    <2>1. active # 0 /\ active \in Nat BY <1>5 DEF MayApply, Preauthorized, IInv, TypeOK
    <2>2. PICK cost \in 1..Remaining :
            /\ usage' = usage + cost
            /\ applied' = applied \cup {[serial |-> s, query |-> active, cost |-> cost]}
            /\ Note(s, "applied") /\ result' = "applied"
      BY <1>5 DEF ApplyEdit
    <2>. DEFINE new == [serial |-> s, query |-> active, cost |-> cost]
    <2>3. cost \in Nat /\ usage' \in 0..MaxEntries BY <1>1, <2>2 DEF Remaining
    <2>4. new \in Edit BY <1>2, <2>1, <2>3 DEF Edit
    <2>5. new \notin applied BY DEF HasEdit
    <2>6. Reported(new, ledger') /\ ledger' \in Seq(Entry)
          /\ \A edit : Reported(edit, ledger) => Reported(edit, ledger')
      BY <1>3, <2>1, <2>2
    <2>. QED BY <1>1, <2>1, <2>2, <2>3, <2>4, <2>5, <2>6 DEF Code
  <1>6. CASE RouteRequest
    BY <1>1, <1>6 DEF RouteRequest, Code
  <1>. QED BY <1>4, <1>5, <1>6 DEF HandleEdit

\* The request at the head of the queue is taken, and handled.
LEMMA ProcessStep ==
    ASSUME IInv, ProcessRequest
    PROVE  IInv'
  <1>. DEFINE id == Head(order)  s == pending[Head(order)]
  <1>. USE Shapes
  <1>1. order \in Seq(Ids) /\ order # <<>> /\ order' = Tail(order) /\ id \in Ids /\ id \in Busy
    BY DEF ProcessRequest, IInv, TypeOK, Busy
  <1>2. /\ at = "select" /\ pending' = [pending EXCEPT ![id] = 0] /\ processing' = s
        /\ at' \in {"drain", "write"}
        /\ HandleEdit(s) \/ RouteRequest
        /\ UNCHANGED <<plot, server, pipe, mode, drained, active, next, replies>>
    BY DEF ProcessRequest
  <1>3. Alive /\ processing = 0 BY <1>2 DEF Alive, Over, IInv, TypeOK
  <1>4. /\ Busy' = Busy \ {id} /\ Serials' = Serials
        /\ pending' \in [Ids -> 0..Len(asked)]
        /\ \A i \in Busy' : asked'[pending'[i]].id = i
        /\ Waiting' = Waiting \ {s} /\ s \in Waiting
        /\ IsFiniteSet(Busy') /\ Cardinality(Busy) \in Nat
        /\ Cardinality(Busy') = Cardinality(Busy) - 1
    <2>. HIDE DEF id
    <2>1. asked' = asked BY <1>2 DEF server
    <2>. QED BY <1>1, <1>2, <2>1, LeavesTable DEF id
  <1>5. s \in Serials /\ s # 0 BY <1>4 DEF Waiting, Serials
  <1>6. InProcess = {} /\ InProcess' = {s} BY <1>2 DEF InProcess
  <1>7. /\ answers[s] = <<>> /\ s \notin Travelling /\ ~HasEdit(s)
    BY <1>3, <1>4, <1>5 DEF IInv, PlacesInv, EditsInv
  <1>8. /\ ledger' \in Seq(Entry) /\ usage' \in 0..MaxEntries /\ result' \in Code
        /\ applied \subseteq applied' /\ applied' \subseteq Edit
        /\ \A edit \in applied' \ applied :
             edit.serial = s /\ edit.query = active /\ active # 0 /\ Reported(edit, ledger')
        /\ \A edit, other \in applied' \ applied : edit = other
        /\ result' = "applied" <=> applied' # applied
        /\ \A edit \in applied : Reported(edit, ledger) => Reported(edit, ledger')
    <2>. HIDE DEF s
    <2>. QED BY <1>2, <1>5, <1>7, HandledEdit
  <1>9. Travelling' = Travelling BY <1>2 DEF Travelling
  <1>10. TypeOK'
    <2>1. order' \in Seq(Ids) BY <1>1
    <2>2. processing' \in 0..Len(asked) /\ processing' # 0 BY <1>2, <1>5 DEF Serials
    <2>. QED BY <1>2, <1>4, <1>8, <2>1, <2>2 DEF IInv, TypeOK, server, Over
  <1>11. MoreTypes' BY <1>2, <1>8 DEF IInv, MoreTypes, server
  <1>12. PlacesInv'
    <2>1. \A t \in Serials :
            /\ t \in Travelling => t \notin Waiting' /\ t \notin InProcess'
            /\ t \in Waiting' => t \notin InProcess'
            /\ answers[t] = <<>> <=> t \in Travelling \cup Waiting' \cup InProcess'
      BY <1>3, <1>4, <1>6, <1>7 DEF IInv, PlacesInv
    <2>. QED BY <1>2, <1>4, <1>9, <2>1 DEF IInv, PlacesInv, server
  <1>13. TableInv'
    <2>1. Range(order) = Range(order') \cup {id} BY <1>1, Ranges
    <2>2. Cardinality(Busy') + 1 <= RequestLimit
      BY <1>3, <1>4, RequestAssumption DEF IInv, TableInv
    <2>3. processing' # 0 BY <1>2, <1>5
    <2>. QED BY <1>4, <2>1, <2>2, <2>3 DEF IInv, TableInv
  <1>14. EditsInv'
    <2>1. \A edit \in applied' \ applied : edit.serial = s /\ edit.query = active /\ active \in 1..Len(plot.queries)
      BY <1>8 DEF IInv, TypeOK
    <2>2. \A edit \in applied' : edit.serial \in Serials /\ edit.query < next /\ edit.query \in DOMAIN plot.queries
      BY <1>5, <2>1 DEF IInv, EditsInv
    <2>3. \A edit \in applied', other \in applied' : edit.serial = other.serial => edit = other
      BY <1>7, <1>8 DEF IInv, EditsInv, HasEdit
    <2>4. \A edit \in applied' : Reported(edit, IF edit.query = active THEN ledger' ELSE replies[edit.query])
      BY <1>8 DEF IInv, EditsInv
    <2>5. \A t : HasEdit(t)' <=> HasEdit(t) \/ (t = s /\ result' = "applied")
      <3>1. applied' # applied => \E edit \in applied' \ applied : edit.serial = s BY <1>8
      <3>. QED BY <1>8, <3>1 DEF HasEdit
    <2>6. \A t \in Travelling' \cup Waiting' : ~HasEdit(t)'
      BY <1>3, <1>4, <1>7, <1>9, <2>5 DEF IInv, EditsInv
    <2>7. result' = "applied" <=> HasEdit(processing)'
      <3>1. HasEdit(processing)' <=> HasEdit(s) \/ result' = "applied"
        <4>1. HasEdit(processing)' <=> \E edit \in applied' : edit.serial = s BY <1>2 DEF HasEdit
        <4>2. applied' # applied => \E edit \in applied' \ applied : edit.serial = s BY <1>8
        <4>. QED BY <1>8, <4>1, <4>2 DEF HasEdit
      <3>. QED BY <1>7, <3>1
    <2>8. \A t \in Serials : answers[t] # <<>> => (answers[t][1] = "applied" <=> HasEdit(t)')
      BY <1>7, <2>5 DEF IInv, EditsInv, Answered
    <2>9. \A edit \in applied' : Reported(edit, IF edit.query = active THEN ledger ELSE replies[edit.query])'
      BY <1>2, <2>4 DEF Reported
    <2>. QED BY <1>2, <1>4, <2>2, <2>3, <2>6, <2>7, <2>8, <2>9 DEF IInv, EditsInv, Answered, server
  <1>. QED BY <1>10, <1>11, <1>12, <1>13, <1>14 DEF IInv

\* The answer of the request in process, which is done with in the next step or
\* after another drain.
LEMMA WriteAnswerStep ==
    ASSUME IInv, WriteAnswer
    PROVE  IInv'
  <1>. DEFINE s == processing
  <1>. USE Shapes
  <1>1. /\ at = "write" /\ Answer(processing, result)
        /\ \/ at' = "redrain" /\ UNCHANGED <<processing, result>>
           \/ at' = "select" /\ processing' = 0 /\ result' = NoReply
        /\ UNCHANGED <<plot, asked, serving, cancels, pipe, mode, queue, drained, query>>
    BY DEF WriteAnswer, Finish
  <1>2. Alive /\ Alive' BY <1>1 DEF Alive, Over
  <1>3. processing \in Serials /\ processing # 0 BY <1>1 DEF IInv, TypeOK, Serials, Over
  <1>4. InProcess = {processing} /\ InProcess' = {} BY <1>1 DEF InProcess
  <1>5. answers[processing] = <<>> /\ processing \notin Travelling \cup Waiting
    BY <1>2, <1>3, <1>4 DEF IInv, PlacesInv
  <1>6. result \in Code BY DEF IInv, MoreTypes
  <1>7. /\ answers' \in Seq(Seq(Code)) /\ Len(answers') = Len(answers) /\ Serials' = Serials
        /\ answers'[processing] = <<result>> /\ \A t \in Serials \ {processing} : answers'[t] = answers[t]
    <2>1. asked' = asked BY <1>1
    <2>. QED BY <1>1, <1>3, <1>5, <1>6, <2>1, AnswerStep
  <1>8. Travelling' = Travelling /\ Waiting' = Waiting /\ Busy' = Busy
    BY <1>1, <1>7 DEF Travelling, Waiting, Busy, queue
  <1>9. TypeOK'
    <2>1. at' \in {"select", "redrain"} /\ processing' \in {processing, 0} /\ (processing' = 0 <=> at' = "select")
      BY <1>1, <1>3
    <2>2. UNCHANGED <<plot, asked, serving, cancels, mode, order, pending, drained, active, next, ledger, usage>>
      BY <1>1 DEF queue, query
    <2>3. TypeOK BY DEF IInv
    <2>4. at' # "dead" => (processing' = 0 <=> at' \in {"select", "ended"}) BY <2>1
    <2>5. processing' \in 0..Len(asked) BY <1>3, <2>1 DEF Serials
    <2>6. Len(answers') = Len(asked) BY <1>7, <2>3 DEF TypeOK
    <2>. QED BY <2>1, <2>2, <2>3, <2>4, <2>5, <2>6 DEF TypeOK
  <1>10. MoreTypes' BY <1>1, <1>7 DEF IInv, MoreTypes, query, Code
  <1>11. PlacesInv'
    <2>1. \A t \in Serials :
            /\ t \in Travelling => t \notin Waiting
            /\ answers'[t] = <<>> <=> t \in Travelling \cup Waiting
            /\ Len(answers'[t]) <= 1
      <3>. TAKE t \in Serials
      <3>1. CASE t = processing
        <4>1. <<result>> # <<>> /\ Len(<<result>>) = 1 OBVIOUS
        <4>2. answers'[t] = <<result>> BY <1>7, <3>1
        <4>3. answers'[t] # <<>> /\ Len(answers'[t]) <= 1 BY <4>1, <4>2
        <4>4. t \notin Travelling /\ t \notin Waiting BY <1>5, <3>1
        <4>. QED BY <4>3, <4>4
      <3>2. CASE t # processing
        <4>1. answers'[t] = answers[t] /\ t \notin InProcess BY <1>4, <1>7, <3>2
        <4>. QED BY <1>2, <4>1 DEF IInv, PlacesInv
      <3>. QED BY <3>1, <3>2
    <2>2. EachOnce(pipe') BY <1>1 DEF IInv, PlacesInv
    <2>. QED BY <1>4, <1>7, <1>8, <2>1, <2>2 DEF IInv, PlacesInv
  <1>12. TableInv'
    <2>1. Cardinality(Busy) \in Nat /\ RequestLimit \in Nat
      BY FS_CardinalityType, RequestAssumption DEF IInv, TableInv
    <2>2. Cardinality(Busy) + (IF processing' = 0 THEN 0 ELSE 1) <= RequestLimit
      BY <1>1, <2>1 DEF IInv, TableInv
    <2>. QED BY <1>1, <1>8, <2>2 DEF IInv, TableInv, queue
  <1>13. EditsInv'
    <2>1. UNCHANGED <<active, next, ledger, replies, applied, plot>> BY <1>1 DEF query
    <2>2. \A t : HasEdit(t)' <=> HasEdit(t) BY <2>1 DEF HasEdit
    <2>3. \A edit \in applied : Reported(edit, IF edit.query = active THEN ledger ELSE replies[edit.query])'
      BY <2>1 DEF IInv, EditsInv, Reported
    <2>4. \A t \in Travelling' \cup Waiting' : ~HasEdit(t) BY <1>2, <1>8 DEF IInv, EditsInv
    <2>5. \A t \in Serials : answers'[t] # <<>> => (answers'[t][1] = "applied" <=> HasEdit(t))
      <3>. TAKE t \in Serials
      <3>1. CASE t = processing
        <4>1. result = "applied" <=> HasEdit(processing) BY <1>1 DEF IInv, EditsInv
        <4>. QED BY <1>7, <3>1, <4>1
      <3>2. CASE t # processing BY <1>7, <3>2 DEF IInv, EditsInv, Answered
      <3>. QED BY <3>1, <3>2
    <2>6. at' \notin {"drain", "write"} BY <1>1
    <2>. QED BY <1>7, <2>1, <2>2, <2>3, <2>4, <2>5, <2>6 DEF IInv, EditsInv, Answered
  <1>. QED BY <1>9, <1>10, <1>11, <1>12, <1>13 DEF IInv

\* The ends of the drains and of the loop.
LEMMA EndStep ==
    ASSUME IInv, EndDrain \/ EndRedrain \/ Shutdown \/ EndShutdown
    PROVE  IInv'
  <1>1. /\ UNCHANGED <<plot, server, pipe, queue, query>>
        /\ processing' \in {processing, 0} /\ drained' \in {drained, 0}
        /\ mode' \in {mode, "closing"} /\ result' \in {result, NoReply}
    BY DEF EndDrain, EndRedrain, Finish, Shutdown, EndShutdown
  <1>2. /\ at # "dead" /\ at' \in {"write", "select", "ended"}
        /\ at' = "write" => at = "drain" /\ UNCHANGED <<processing, result>>
        /\ at' = "select" => at \in {"redrain", "select"} /\ (processing' = 0 \/ (at = "select" /\ processing' = processing))
        /\ at' = "ended" => at = "select" /\ processing' = processing
    BY DEF EndDrain, EndRedrain, Finish, Shutdown, EndShutdown
  <1>3. TypeOK'
    <2>1. at' # "dead" /\ (processing' = 0 <=> at' \in {"select", "ended"})
      BY <1>1, <1>2 DEF IInv, TypeOK, Over
    <2>2. drained' \in 0..RequestLimit /\ processing' \in 0..Len(asked)
      <3>1. drained \in 0..RequestLimit /\ processing \in 0..Len(asked) BY DEF IInv, TypeOK
      <3>2. 0 \in 0..RequestLimit /\ 0 \in 0..Len(asked) BY Shapes, RequestAssumption
      <3>. QED BY <1>1, <3>1, <3>2
    <2>3. UNCHANGED <<plot, asked, answers, serving, cancels, order, pending, active, next, ledger, usage>>
      BY <1>1 DEF server, queue, query
    <2>4. at' \in {"select", "drain", "write", "redrain"} \cup Over /\ mode' \in {"serving", "closing"}
      BY <1>1, <1>2 DEF IInv, TypeOK, Over
    <2>5. TypeOK BY DEF IInv
    <2>. QED BY <2>1, <2>2, <2>3, <2>4, <2>5 DEF TypeOK
  <1>4. MoreTypes' BY <1>1 DEF IInv, MoreTypes, server, query, Code
  <1>5. Travelling' = Travelling /\ InProcess' = InProcess /\ Alive
    BY <1>1, <1>2 DEF Travelling, InProcess, Alive, Over, EndShutdown, EndDrain, EndRedrain, Shutdown
  <1>6. EachOnce(pipe') BY <1>1 DEF IInv, PlacesInv
  <1>7. PlacesInv' /\ TableInv' BY <1>1, <1>5, <1>6, QuietPlaces DEF server, queue
  <1>8. EditsInv' BY <1>1, <1>2, <1>5, QuietEdits DEF server, queue, query
  <1>. QED BY <1>3, <1>4, <1>7, <1>8 DEF IInv

\* The next query becomes the active one: no edit was made for it yet.
LEMMA DispatchStep ==
    ASSUME IInv, Dispatch
    PROVE  IInv'
  <1>. USE Shapes
  <1>1. /\ at = "select" /\ active = 0 /\ next <= Len(plot.queries)
        /\ active' = next /\ next' = next + 1 /\ serving' = next
        /\ UNCHANGED <<plot, asked, answers, cancels, pipe, at, mode, queue, processing, result,
                       drained, ledger, usage, replies, applied>>
    BY DEF Dispatch
  <1>2. next \in 1..Len(plot.queries) BY <1>1 DEF IInv, TypeOK
  <1>3. TypeOK' BY <1>1, <1>2 DEF IInv, TypeOK, queue
  <1>4. MoreTypes' BY <1>1 DEF IInv, MoreTypes
  <1>5. Travelling' = Travelling /\ InProcess' = InProcess /\ EachOnce(pipe') /\ Alive' = Alive
    BY <1>1 DEF Travelling, InProcess, IInv, PlacesInv, Alive
  <1>6. PlacesInv' /\ TableInv' BY <1>1, <1>5, QuietPlaces DEF queue
  <1>7. EditsInv'
    <2>1. \A edit \in applied : edit.query # active /\ edit.query # active' /\ edit.query < next'
      BY <1>1, <1>2 DEF IInv, EditsInv
    <2>2. \A edit \in applied : Reported(edit, IF edit.query = active THEN ledger ELSE replies[edit.query])'
      BY <1>1, <2>1 DEF IInv, EditsInv, Reported
    <2>3. \A t : HasEdit(t)' <=> HasEdit(t) BY <1>1 DEF HasEdit
    <2>4. Serials' = Serials /\ Waiting' = Waiting BY <1>1 DEF Serials, Waiting, queue
    <2>5. Alive' => \A t \in Travelling' \cup Waiting' : ~HasEdit(t)
      BY <1>5, <2>4 DEF IInv, EditsInv
    <2>6. \A t \in Serials : (Answered(t) => (answers[t][1] = "applied" <=> HasEdit(t)))'
      BY <1>1, <2>3 DEF IInv, EditsInv, Answered
    <2>. QED BY <1>1, <1>2, <2>1, <2>2, <2>3, <2>4, <2>5, <2>6 DEF IInv, EditsInv
  <1>. QED BY <1>3, <1>4, <1>6, <1>7 DEF IInv

LEMMA NextIInv == IInv /\ [Next]_vars => IInv'
  <1>. SUFFICES ASSUME IInv, [Next]_vars PROVE IInv'
    OBVIOUS
  <1>1. CASE UNCHANGED vars
    <2>1. UNCHANGED <<plot, server, pipe, at, mode, queue, processing, result, drained, query>>
      BY <1>1 DEF vars
    <2>2. TypeOK' /\ MoreTypes' BY <2>1 DEF IInv, TypeOK, MoreTypes, server, queue, query
    <2>3. Travelling' = Travelling /\ InProcess' = InProcess /\ EachOnce(pipe') /\ Alive' = Alive
      BY <2>1 DEF Travelling, InProcess, IInv, PlacesInv, Alive
    <2>4. PlacesInv' /\ TableInv' BY <2>1, <2>3, QuietPlaces DEF server, queue
    <2>5. EditsInv' BY <2>1, <2>3, QuietEdits DEF server, queue, query
    <2>. QED BY <2>2, <2>4, <2>5 DEF IInv
  <1>2. CASE Server BY <1>2, AskStep, OtherFrameStep DEF Server
  <1>3. CASE Owner BY <1>3, TakeFrameStep, TombstoneStep, ProcessStep, EndStep, WriteAnswerStep DEF Owner
  <1>4. CASE Dispatch \/ Shutdown \/ EndShutdown BY <1>4, DispatchStep, EndStep
  <1>5. CASE SessionLost BY <1>5, TerminateStep DEF SessionLost
  <1>. QED BY <1>1, <1>2, <1>3, <1>4, <1>5 DEF Next

\* Requests, answers and edits stay where IInv says, whatever the server, the
\* clients and the end of the Session do.
THEOREM Invariance == Spec => []IInv
  BY InitIInv, NextIInv, PTL DEF Spec

-----------------------------------------------------------------------------
(* What the server and the clients can rely on *)

LEMMA EachInOnePlaceKept == IInv => EachInOnePlace
  <1>. SUFFICES ASSUME IInv, at \notin Over PROVE EachInOnePlace
    BY DEF EachInOnePlace
  <1>. USE Shapes
  <1>1. ASSUME NEW s \in Serials
        PROVE  Len(answers[s]) + Cardinality({place \in {1, 2, 3} :
                    s \in (<<Travelling, Waiting, InProcess>>)[place]}) = 1
    <2>. DEFINE places == {place \in {1, 2, 3} : s \in (<<Travelling, Waiting, InProcess>>)[place]}
    <2>1. \A place : place \in places <=>
             \/ place = 1 /\ s \in Travelling
             \/ place = 2 /\ s \in Waiting
             \/ place = 3 /\ s \in InProcess
      OBVIOUS
    <2>2. answers[s] \in Seq(Code) /\ Len(answers[s]) <= 1
      BY DEF IInv, PlacesInv
    <2>. SUFFICES Len(answers[s]) + Cardinality(places) = 1
      OBVIOUS
    <2>. HIDE DEF places
    <2>3. CASE answers[s] = <<>>
      <3>1. \E place : places = {place}
        <4>1. CASE s \in Travelling
          <5>1. s \notin Waiting /\ s \notin InProcess BY <4>1 DEF IInv, PlacesInv, Alive
          <5>2. places = {1} BY <2>1, <4>1, <5>1
          <5>. QED BY <5>2
        <4>2. CASE s \in Waiting /\ s \notin Travelling
          <5>1. s \notin InProcess BY <4>2 DEF IInv, PlacesInv, Alive
          <5>2. places = {2} BY <2>1, <4>2, <5>1
          <5>. QED BY <5>2
        <4>3. CASE s \in InProcess /\ s \notin Travelling /\ s \notin Waiting
          <5>1. places = {3} BY <2>1, <4>3
          <5>. QED BY <5>1
        <4>. QED BY <2>3, <4>1, <4>2, <4>3 DEF IInv, PlacesInv, Alive
      <3>2. Cardinality(places) = 1 BY <3>1, FS_Singleton
      <3>3. Len(answers[s]) = 0 BY <2>3
      <3>. QED BY <3>2, <3>3
    <2>4. CASE answers[s] # <<>>
      <3>1. s \notin Travelling \cup Waiting \cup InProcess BY <2>4 DEF IInv, PlacesInv, Alive
      <3>2. places = {} BY <2>1, <3>1
      <3>3. Cardinality(places) = 0 BY <3>2, FS_EmptySet
      <3>4. Len(answers[s]) = 1
        <4>1. Len(answers[s]) \in Nat \ {0} BY <2>2, <2>4, EmptySeq
        <4>2. \A n \in Nat \ {0} : n <= 1 => n = 1 OBVIOUS
        <4>. QED BY <2>2, <4>1, <4>2, Zenon
      <3>. QED BY <3>3, <3>4
    <2>. QED BY <2>3, <2>4
  <1>2. ASSUME NEW s \in Serials, s \in Waiting PROVE asked[s].id \in Range(order)
    BY <1>2 DEF IInv, TableInv
  <1>3. Cardinality(Waiting) + (IF processing = 0 THEN 0 ELSE 1) <= RequestLimit
    <2>. DEFINE f == [id \in Busy |-> pending[id]]
    <2>1. f \in Surjection(Busy, Waiting) BY DEF Surjection
    <2>2. IsFiniteSet(Busy) BY DEF IInv, TableInv
    <2>3. Cardinality(Waiting) <= Cardinality(Busy) /\ IsFiniteSet(Waiting) BY <2>1, <2>2, FS_Surjection
    <2>4. Cardinality(Waiting) \in Nat /\ Cardinality(Busy) \in Nat BY <2>2, <2>3, FS_CardinalityType
    <2>. QED BY <2>3, <2>4, RequestAssumption DEF IInv, TableInv
  <1>. QED BY <1>1, <1>2, <1>3 DEF EachInOnePlace

LEMMA EditsAreReportedKept == IInv => EditsAreReported
  <1>. SUFFICES ASSUME IInv, NEW s \in Serials
                PROVE  LET edits == {edit \in applied : edit.serial = s} IN
                       /\ Cardinality(edits) <= 1
                       /\ \A edit \in edits :
                             Reported(edit, IF edit.query = active THEN ledger ELSE replies[edit.query])
                       /\ Answered(s) => (answers[s] = <<"applied">> <=> edits # {})
    BY DEF EditsAreReported
  <1>. DEFINE edits == {edit \in applied : edit.serial = s}
  <1>1. Cardinality(edits) <= 1
    <2>1. CASE edits = {} BY <2>1, FS_EmptySet
    <2>2. CASE edits # {}
      <3>1. \E edit : edits = {edit} BY <2>2 DEF IInv, EditsInv
      <3>2. Cardinality(edits) = 1 BY <3>1, FS_Singleton
      <3>. QED BY <3>2
    <2>. QED BY <2>1, <2>2
  <1>2. \A edit \in edits : Reported(edit, IF edit.query = active THEN ledger ELSE replies[edit.query])
    BY DEF IInv, EditsInv
  <1>3. ASSUME Answered(s) PROVE answers[s] = <<"applied">> <=> edits # {}
    <2>1. answers[s] \in Seq(Code) /\ answers[s] # <<>> /\ Len(answers[s]) <= 1
      BY <1>3, Shapes DEF Answered, IInv, PlacesInv
    <2>2. answers[s] = <<"applied">> <=> answers[s][1] = "applied"
      BY <2>1
    <2>3. HasEdit(s) <=> edits # {} BY DEF HasEdit
    <2>. QED BY <1>3, <2>2, <2>3 DEF IInv, EditsInv
  <1>. QED BY <1>1, <1>2, <1>3

\* Every request of the server is answered once, in its turn, and the Owner keeps
\* to its limit (queue_server_request, process_next_server_request).
THEOREM EachInOnePlaceHolds == Spec => []EachInOnePlace
  BY EachInOnePlaceKept, Invariance, PTL

\* No edit is applied twice, none is lost between the files, the server and the
\* client of the command (handle_apply_edit_callback, attach_dispatch_evidence).
THEOREM EditsAreReportedHolds == Spec => []EditsAreReported
  BY EditsAreReportedKept, Invariance, PTL

-----------------------------------------------------------------------------
(* The budget of a command *)

\* What edits cost together.
Cost(edits) == SumFunction([edit \in edits |-> edit.cost])

\* The edits applied under the active command are in its ledger, and usage is what
\* they cost; those applied under another have kept within what it preauthorized.
BudgetInv ==
    /\ IsFiniteSet(applied)
    /\ active = 0 => ledger = <<>> /\ usage = 0
    /\ \A q \in DOMAIN plot.queries :
        /\ EditsFor(q) # {} => plot.queries[q]
        /\ Cardinality(EditsFor(q)) <= MaxCallbacks
        /\ Cost(EditsFor(q)) <= MaxEntries
        /\ q = active => Cardinality(EditsFor(q)) <= Len(ledger) /\ Cost(EditsFor(q)) = usage

\* No edits cost nothing.
LEMMA CostOfNone == Cost({}) = 0
  BY SumOfNone DEF Cost

\* One edit more costs what it costs.
LEMMA CostAdded ==
    ASSUME NEW edits, edits \subseteq Edit, IsFiniteSet(edits), NEW e, e \in Edit, e \notin edits
    PROVE  Cost(edits) \in Nat /\ Cost(edits \cup {e}) = Cost(edits) + e.cost
  <1>. DEFINE f == [edit \in edits |-> edit.cost]
              g == [edit \in edits \cup {e} |-> edit.cost]
  <1>1. f \in [edits -> Nat] /\ g \in [edits \cup {e} -> Nat]
    BY DEF Edit
  <1>2. Agree(edits, f, g) /\ g[e] = e.cost
    BY DEF Agree
  <1>3. Cost(edits) = SumFunction(f) /\ Cost(edits \cup {e}) = SumFunction(g)
    BY DEF Cost
  <1>. HIDE DEF f, g
  <1>4. SumFunction(f) \in Nat /\ SumFunction(g) = SumFunction(f) + g[e]
    <2>1. Extends(edits, f, e, g) BY <1>1, <1>2 DEF Extends
    <2>. QED BY <2>1, SumAdded
  <1>. QED BY <1>2, <1>3, <1>4

\* The edits are as they were, and so is the ledger, or its command has ended.
LEMMA QuietBudget ==
    ASSUME IInv, BudgetInv, UNCHANGED <<plot, applied>>,
           UNCHANGED <<active, ledger, usage>> \/ (active' = 0 /\ ledger' = <<>> /\ usage' = 0)
    PROVE  BudgetInv'
  <1>1. \A q : EditsFor(q)' = EditsFor(q) BY DEF EditsFor
  <1>2. DOMAIN plot.queries = 1..Len(plot.queries) BY Shapes DEF IInv, TypeOK
  <1>3. \A q \in DOMAIN plot.queries : q # 0 BY <1>2
  <1>. QED BY <1>1, <1>3 DEF BudgetInv

\* A command begins with no edits and an empty ledger.
LEMMA DispatchBudget ==
    ASSUME IInv, BudgetInv, Dispatch
    PROVE  BudgetInv'
  <1>1. /\ active = 0 /\ active' = next /\ UNCHANGED <<plot, ledger, usage, applied>>
    BY DEF Dispatch
  <1>2. \A q : EditsFor(q)' = EditsFor(q) BY <1>1 DEF EditsFor
  <1>3. EditsFor(next) = {} /\ next # 0
    <2>1. next \in Nat \ {0} BY Shapes DEF IInv, TypeOK
    <2>2. \A edit \in applied : edit.query # next
      BY <2>1 DEF IInv, EditsInv, MoreTypes, Edit
    <2>. QED BY <2>1, <2>2 DEF EditsFor
  <1>4. Cardinality(EditsFor(next)) = 0 /\ Cost(EditsFor(next)) = 0
    BY <1>3, FS_EmptySet, CostOfNone
  <1>5. Len(ledger) = 0 /\ usage = 0 BY <1>1 DEF BudgetInv
  <1>6. active' = 0 => ledger' = <<>> /\ usage' = 0 BY <1>1, <1>3
  <1>7. \A q \in DOMAIN plot.queries :
            q = active' => Cardinality(EditsFor(q)) <= Len(ledger) /\ Cost(EditsFor(q)) = usage
    BY <1>1, <1>4, <1>5
  <1>. QED BY <1>1, <1>2, <1>6, <1>7 DEF BudgetInv

\* A declined edit is noted in the ledger.
LEMMA DeclinedBudget ==
    ASSUME IInv, BudgetInv, UNCHANGED <<plot, active, usage, applied>>,
           ledger' = ledger \/ (active # 0 /\ \E e \in Entry : ledger' = Append(ledger, e))
    PROVE  BudgetInv'
  <1>1. \A q : EditsFor(q)' = EditsFor(q) BY DEF EditsFor
  <1>2. Len(ledger') \in Nat /\ Len(ledger) \in Nat /\ Len(ledger) <= Len(ledger')
    BY DEF IInv, TypeOK
  <1>3. active = 0 => ledger' = <<>> BY DEF BudgetInv
  <1>4. \A q : Cardinality(EditsFor(q)) \in Nat
    <2>1. \A q : IsFiniteSet(EditsFor(q)) BY FS_Subset DEF BudgetInv, EditsFor
    <2>. QED BY <2>1, FS_CardinalityType
  <1>5. \A q \in DOMAIN plot.queries : q = active => Cardinality(EditsFor(q)) <= Len(ledger')
    BY <1>2, <1>4 DEF BudgetInv
  <1>. QED BY <1>1, <1>3, <1>5 DEF BudgetInv

\* An applied edit is one more in the ledger, within what is left of the budget.
LEMMA AppliedBudget ==
    ASSUME IInv, BudgetInv, UNCHANGED <<plot, active>>, NEW s \in Serials, ~HasEdit(s), MayApply, ApplyEdit(s)
    PROVE  BudgetInv'
  <1>1. active \in Nat /\ active # 0 /\ plot.queries[active] /\ Len(ledger) < MaxCallbacks
        /\ ledger \in Seq(Entry) /\ usage \in 0..MaxEntries /\ applied \subseteq Edit
    BY DEF MayApply, Preauthorized, IInv, TypeOK, MoreTypes
  <1>2. PICK cost \in 1..Remaining :
            /\ usage' = usage + cost
            /\ applied' = applied \cup {[serial |-> s, query |-> active, cost |-> cost]}
            /\ Note(s, "applied")
    BY DEF ApplyEdit
  <1>. DEFINE new == [serial |-> s, query |-> active, cost |-> cost]
              mine == EditsFor(active)
  <1>3. /\ MaxEntries \in Nat /\ MaxCallbacks \in Nat /\ cost \in Nat /\ usage' \in 0..MaxEntries
        /\ s \in Nat \ {0}
    BY <1>1, <1>2, RequestAssumption DEF Remaining, Serials
  <1>4. new \in Edit /\ new \notin applied /\ new.cost = cost /\ new.query = active
    BY <1>1, <1>3 DEF Edit, HasEdit
  <1>5. applied' = applied \cup {new} BY <1>2
  <1>. HIDE DEF new
  <1>6. IsFiniteSet(applied') BY <1>5, FS_AddElement DEF BudgetInv
  <1>7. EditsFor(active)' = mine \cup {new} BY <1>4, <1>5 DEF EditsFor
  <1>8. \A q : q # active => EditsFor(q)' = EditsFor(q) BY <1>4, <1>5 DEF EditsFor
  <1>9. IsFiniteSet(mine) /\ mine \subseteq Edit /\ new \notin mine
    BY <1>1, <1>4, FS_Subset DEF BudgetInv, EditsFor
  <1>10. Cardinality(mine \cup {new}) = Cardinality(mine) + 1 /\ Cardinality(mine) \in Nat
    BY <1>9, FS_AddElement, FS_CardinalityType
  <1>11. Cost(mine \cup {new}) = Cost(mine) + cost
    BY <1>4, <1>9, CostAdded
  <1>12. Len(ledger') = Len(ledger) + 1 /\ Len(ledger) \in Nat
    BY <1>1, <1>2 DEF Note
  <1>13. ASSUME active \in DOMAIN plot.queries
         PROVE  /\ Cardinality(EditsFor(active)') <= Len(ledger') /\ Len(ledger') <= MaxCallbacks
                /\ Cost(EditsFor(active)') = usage'
    <2>1. Cardinality(mine) <= Len(ledger) /\ Cost(mine) = usage BY <1>13 DEF BudgetInv
    <2>. HIDE DEF mine
    <2>. QED BY <1>1, <1>2, <1>3, <1>7, <1>10, <1>11, <1>12, <2>1
  <1>14. ASSUME NEW q \in DOMAIN plot.queries
         PROVE  /\ EditsFor(q)' # {} => plot.queries[q]
                /\ Cardinality(EditsFor(q)') <= MaxCallbacks
                /\ Cost(EditsFor(q)') <= MaxEntries
                /\ q = active => Cardinality(EditsFor(q)') <= Len(ledger') /\ Cost(EditsFor(q)') = usage'
    <2>1. CASE q # active BY <1>8, <2>1 DEF BudgetInv
    <2>2. CASE q = active
      <3>1. Cardinality(EditsFor(active)') \in Nat BY <1>7, <1>10
      <3>. QED BY <1>1, <1>3, <1>12, <1>13, <2>2, <3>1
    <2>. QED BY <2>1, <2>2
  <1>. QED BY <1>1, <1>6, <1>14 DEF BudgetInv

\* The request at the head of the queue is handled.
LEMMA ProcessBudget ==
    ASSUME IInv, BudgetInv, ProcessRequest
    PROVE  BudgetInv'
  <1>. DEFINE s == pending[Head(order)]
  <1>1. /\ at = "select" /\ (HandleEdit(s) \/ RouteRequest)
        /\ UNCHANGED <<plot, server, active>>
    BY DEF ProcessRequest
  <1>2. /\ s \in Serials /\ ~HasEdit(s)
    <2>1. Head(order) \in Ids /\ Head(order) \in Busy
      BY DEF ProcessRequest, IInv, TypeOK, Busy
    <2>2. s \in Serials /\ s \in Waiting
      <3>1. s \in Waiting
        BY <2>1, Shapes
      <3>. QED BY <3>1 DEF Waiting
    <2>3. Alive BY <1>1 DEF Alive, Over
    <2>. QED BY <2>2, <2>3 DEF IInv, EditsInv
  <1>. HIDE DEF s
  <1>3. CASE \E outcome \in {"previewed", "rejected"}, code \in {"invalid_params", "not_applied"} :
                Decline(s, outcome, code)
    <2>1. PICK outcome \in {"previewed", "rejected"} : Note(s, outcome) /\ UNCHANGED <<usage, applied>>
      BY <1>3 DEF Decline
    <2>2. [serial |-> s, outcome |-> outcome] \in Entry BY <1>2 DEF Entry, Serials
    <2>. QED BY <1>1, <2>1, <2>2, DeclinedBudget DEF Note
  <1>4. CASE MayApply /\ ApplyEdit(s) BY <1>1, <1>2, <1>4, AppliedBudget
  <1>5. CASE RouteRequest BY <1>1, <1>5, DeclinedBudget DEF RouteRequest
  <1>. QED BY <1>1, <1>3, <1>4, <1>5 DEF HandleEdit

\* The budget holds at first, when nothing has been applied.
LEMMA InitBudget == Init => BudgetInv
  <1>. SUFFICES ASSUME Init PROVE BudgetInv
    OBVIOUS
  <1>1. \A q : EditsFor(q) = {} BY DEF Init, EditsFor
  <1>2. IsFiniteSet({}) /\ Cardinality({}) = 0 /\ Cost({}) = 0 BY FS_EmptySet, CostOfNone
  <1>3. DOMAIN plot.queries = 1..Len(plot.queries) BY RequestAssumption DEF Init
  <1>4. \A q \in DOMAIN plot.queries : q # 0 BY <1>3
  <1>5. MaxCallbacks \in Nat /\ MaxEntries \in Nat BY RequestAssumption
  <1>6. applied = {} /\ active = 0 /\ ledger = <<>> /\ usage = 0 BY DEF Init
  <1>7. ASSUME NEW q \in DOMAIN plot.queries
        PROVE  Cardinality(EditsFor(q)) <= MaxCallbacks /\ Cost(EditsFor(q)) <= MaxEntries
    BY <1>1, <1>2, <1>5
  <1>. QED BY <1>1, <1>2, <1>4, <1>6, <1>7 DEF BudgetInv

\* Every step keeps it: only a request that is processed can change the files, only
\* Dispatch begins a command.
LEMMA NextBudget == IInv /\ BudgetInv /\ [Next]_vars => BudgetInv'
  <1>. SUFFICES ASSUME IInv, BudgetInv, [Next]_vars PROVE BudgetInv'
    OBVIOUS
  <1>1. CASE UNCHANGED vars BY <1>1, QuietBudget DEF vars, query
  <1>2. CASE Server BY <1>2, QuietBudget DEF Server, Ask, CancelAsked, Respond, query
  <1>3. CASE TakeFrame
    <2>1. CASE Terminate BY <2>1, QuietBudget DEF Terminate, FailActive
    <2>2. CASE /\ HandleFrame(Head(pipe)) /\ UNCHANGED plot
      BY <2>2, QuietBudget DEF HandleFrame, QueueRequest, CancelRequest, Settle, query
    <2>. QED BY <1>3, <2>1, <2>2 DEF TakeFrame
  <1>4. CASE ProcessTombstone BY <1>4, QuietBudget DEF ProcessTombstone, query
  <1>5. CASE ProcessRequest BY <1>5, ProcessBudget
  <1>6. CASE EndDrain \/ EndRedrain \/ WriteAnswer
    BY <1>6, QuietBudget DEF EndDrain, EndRedrain, WriteAnswer, Finish, query
  <1>7. CASE Dispatch BY <1>7, DispatchBudget
  <1>8. CASE Shutdown \/ EndShutdown BY <1>8, QuietBudget DEF Shutdown, EndShutdown, query
  <1>9. CASE SessionLost BY <1>9, QuietBudget DEF SessionLost, Terminate, FailActive
  <1>. QED BY <1>1, <1>2, <1>3, <1>4, <1>5, <1>6, <1>7, <1>8, <1>9 DEF Next, Owner

\* What is applied under a command, and what it costs together, stays within what its
\* caller preauthorized, whatever the server asks and however often commands follow
\* one another (handle_apply_edit_callback, preauthorized_usage).
THEOREM WithinPreauthorizationHolds == Spec => []WithinPreauthorization
  <1>1. Spec => []BudgetInv BY InitBudget, NextBudget, Invariance, PTL DEF Spec
  <1>2. BudgetInv => WithinPreauthorization BY DEF BudgetInv, WithinPreauthorization, Cost
  <1>. QED BY <1>1, <1>2, PTL

-----------------------------------------------------------------------------
(* The composition *)


\* Every step of the loop, of its clients and of its server is one of
\* ServerRequests or leaves the requests alone.
LEMMA FramesStep == [FramesNext]_<<vars, diagnostics>> => [Next]_vars
  <1>. SUFFICES ASSUME [FramesNext]_<<vars, diagnostics>> PROVE [Next]_vars
    OBVIOUS
  <1>1. CASE Loop BY <1>1 DEF Loop, Next, Owner
  <1>2. CASE Others BY <1>2 DEF Others, Next
  <1>3. CASE Diagnostics BY <1>3 DEF Diagnostics
  <1>4. CASE UNCHANGED <<vars, diagnostics>> BY <1>4
  <1>. QED BY <1>1, <1>2, <1>3, <1>4 DEF FramesNext

\* The composition refines the component it is built from.
THEOREM FramesImplementRequests == FramesSpec => Spec
  <1>1. FramesInit => Init BY DEF FramesInit
  <1>. QED BY <1>1, FramesStep, PTL DEF FramesSpec, Spec

\* One place and one answer for each request of the server, also where a request
\* empties a cache and where frames of diagnostics come between.
THEOREM EachInOnePlaceInFrames == FramesSpec => []EachInOnePlace
  BY FramesImplementRequests, EachInOnePlaceHolds, PTL

\* And every applied edit is reported to whoever sent the command.
THEOREM EditsAreReportedInFrames == FramesSpec => []EditsAreReported
  BY FramesImplementRequests, EditsAreReportedHolds, PTL

\* And all edits of a command keep within its budget.
THEOREM EditsAreAccountedInFrames == FramesSpec => []EditsAreAccounted
  <1>1. EditsAreReported /\ WithinPreauthorization => EditsAreAccounted
    BY DEF EditsAreAccounted
  <1>. QED BY <1>1, FramesImplementRequests, EditsAreReportedHolds, WithinPreauthorizationHolds, PTL

-----------------------------------------------------------------------------
(* The cache of diagnostics *)

Key == {"push", "pull"} \X D!Doc
Snapshot == [key : Key, text : Texts, id : Nat, version : Nat, received : Nat, closed : BOOLEAN]
Report == [uri : D!Doc, id : Nat, kind : {"full", "unchanged"}, text : Texts \cup {NoText}]
Cache == [entries : Seq(Snapshot), total : Nat]
Left == [versions : Nat, closings : Nat, publications : Nat, copies : Nat, reports : Nat]

\* The snapshots of a cache.
Held(state) == Range(state.entries)

\* A cache holds one snapshot under a key, its total is their size, and it is not too large.
Distinct(list) == \A i, j \in DOMAIN list : list[i].key = list[j].key => i = j
Exact(state) == state \in Cache /\ Distinct(state.entries) /\ state.total = D!Size(state.entries)
Within(state) == state.total <= MaxBytes /\ Len(state.entries) <= MaxSnapshots
Sound(state) == Exact(state) /\ Within(state)

\* A publication for a version is about the text of that version.
Dated(entry) ==
    entry.key[1] = "push" /\ entry.version # 0 =>
        /\ entry.version \in DOMAIN history[entry.key[2]]
        /\ entry.text = history[entry.key[2]][entry.version]

\* A report under the identifier the server gave out last is that result.
IsLast(entry) == entry.key[1] = "pull" /\ entry.id = issued[entry.key[2]].id
Identified(entry) ==
    /\ entry.key[1] = "pull" => entry.id > left.reports
    /\ IsLast(entry) => entry.text = issued[entry.key[2]].text

Faithful(entry) == Dated(entry) /\ Identified(entry)
Honest(state) == \A entry \in Held(state) : Faithful(entry)

\* Where a copy has the last result of a Document, the Owner has it or none.
Follows(state, owner) ==
    \A mine \in Held(state), other \in Held(owner) :
        IsLast(mine) /\ other.key = mine.key => other.id = mine.id

\* What the server reported is its last result, which is named as unchanged only to a
\* client that has it.
Latest(item, state) ==
    /\ item.id = issued[item.uri].id /\ item.id > left.reports
    /\ item.kind = "full" => item.text \in Texts /\ item.text = issued[item.uri].text
    /\ item.kind = "unchanged" =>
        \E mine \in Held(state) : mine.key = D!PullKey(item.uri) /\ mine.id = item.id

DTypes ==
    /\ left \in Left
    /\ history \in [D!Doc -> Seq(Texts)] /\ open \subseteq D!Doc
    /\ \A uri \in D!Doc : history[uri] # <<>>
    /\ issued \in [D!Doc -> [id : Nat, text : Texts \cup {NoText}]]
    /\ copy \in [Clients -> [cache : Cache, uri : D!Doc \cup {NoClient}, version : Nat]]
    /\ asking = D!NotAsking
       \/ asking \in [client : Clients, whole : BOOLEAN, report : Seq(Report), text : Texts]

CacheInv == Sound(cache) /\ Honest(cache)

CopyOk(client) ==
    LET mine == copy[client]
    IN  /\ Sound(mine.cache) /\ Honest(mine.cache) /\ Follows(mine.cache, cache)
        /\ mine # D!EmptyCopy => mine.uri \in D!Doc /\ mine.version \in DOMAIN history[mine.uri]
CopyInv == \A client \in Clients : CopyOk(client)

AskingInv ==
    asking # D!NotAsking =>
        LET mine == copy[asking.client]
        IN  /\ mine # D!EmptyCopy
            /\ issued[mine.uri].text = asking.text
            /\ \E i \in DOMAIN asking.report : asking.report[i].uri = mine.uri
            /\ \A i \in DOMAIN asking.report : Latest(asking.report[i], mine.cache)

ToldInv == told.fresh => told.text = told.current

DInv == DTypes /\ CacheInv /\ CopyInv /\ AskingInv /\ ToldInv

-----------------------------------------------------------------------------
(* The size of a cache *)

\* What snapshots need together.
Weight(snapshots) == SumFunction([entry \in snapshots |-> Bytes[entry.text]])

\* The operators of the library are the same in the component.
LEMMA Library ==
    /\ \A f : D!Range(f) = Range(f) /\ D!SumFunction(f) = SumFunction(f)
    /\ \A s : D!Max(s) = Max(s) /\ D!Min(s) = Min(s)
  <1>1. \A f : D!Range(f) = Range(f)
    BY DEF Range, D!Range
  <1>2. \A f : D!SumFunction(f) = SumFunction(f)
    BY DEF SumFunction, SumFunctionOnSet, FoldFunctionOnSet, MapThenFoldSet,
           D!SumFunction, D!SumFunctionOnSet, D!FoldFunctionOnSet, D!MapThenFoldSet
  <1>3. \A s : D!Max(s) = Max(s) /\ D!Min(s) = Min(s)
    BY DEF Max, Min, D!Max, D!Min
  <1>. QED BY <1>1, <1>2, <1>3

\* The size of a list is that of what it holds.
LEMMA SizeIsWeight == \A list : D!Size(list) = Weight(Range(list))
  <1>. SUFFICES ASSUME NEW list PROVE D!Size(list) = Weight(Range(list))
    OBVIOUS
  <1>1. D!Range(list) = Range(list) BY Library
  <1>2. D!SumFunction([entry \in Range(list) |-> Bytes[entry.text]]) = Weight(Range(list))
    BY Library DEF Weight
  <1>. QED BY <1>1, <1>2 DEF D!Size

\* The size of a snapshot is a number.
LEMMA BytesType ==
    ASSUME NEW e \in Snapshot
    PROVE  Bytes[e.text] \in Nat
  BY SceneAssumption DEF Snapshot

\* Of no snapshots.
LEMMA WeightOfNone == Weight({}) = 0
  BY SumOfNone DEF Weight

\* Of one snapshot more.
LEMMA WeightAdded ==
    ASSUME NEW S, S \subseteq Snapshot, IsFiniteSet(S), NEW e, e \in Snapshot, e \notin S
    PROVE  Weight(S) \in Nat /\ Weight(S \cup {e}) = Weight(S) + Bytes[e.text]
  <1>. DEFINE f == [entry \in S |-> Bytes[entry.text]]
              g == [entry \in S \cup {e} |-> Bytes[entry.text]]
  <1>1. f \in [S -> Nat] /\ g \in [S \cup {e} -> Nat]
    BY BytesType
  <1>2. Agree(S, f, g) /\ g[e] = Bytes[e.text]
    BY DEF Agree
  <1>3. Weight(S) = SumFunction(f) /\ Weight(S \cup {e}) = SumFunction(g)
    BY DEF Weight
  <1>. HIDE DEF f, g
  <1>4. Extends(S, f, e, g) BY <1>1, <1>2 DEF Extends
  <1>5. SumFunction(f) \in Nat /\ SumFunction(g) = SumFunction(f) + g[e]
    BY <1>4, SumAdded
  <1>. QED BY <1>2, <1>3, <1>5

\* What a list holds with one element more.
LEMMA RangeAppend ==
    ASSUME NEW S, NEW q \in Seq(S), NEW e \in S
    PROVE  Range(Append(q, e)) = Range(q) \cup {e}
  <1>1. /\ Len(q) \in Nat /\ DOMAIN q = 1..Len(q) /\ DOMAIN Append(q, e) = 1..(Len(q) + 1)
        /\ Append(q, e)[Len(q) + 1] = e /\ \A i \in 1..Len(q) : Append(q, e)[i] = q[i]
    OBVIOUS
  <1>2. \A i : i \in 1..(Len(q) + 1) <=> i \in 1..Len(q) \/ i = Len(q) + 1
    BY <1>1
  <1>. QED BY <1>1, <1>2 DEF Range

\* Finitely many members of a set.
LEMMA RangeFinite ==
    ASSUME NEW S
    PROVE  \A q \in Seq(S) : IsFiniteSet(Range(q)) /\ Range(q) \subseteq S
  <1>. DEFINE G == {q \in Seq(S) : IsFiniteSet(Range(q)) /\ Range(q) \subseteq S}
  <1>1. <<>> \in G
    <2>1. Range(<<>>) = {} /\ <<>> \in Seq(S) BY DEF Range
    <2>. QED BY <2>1, FS_EmptySet
  <1>2. \A q \in Seq(S), e \in S : q \in G => Append(q, e) \in G
    <2>. SUFFICES ASSUME NEW q \in Seq(S), NEW e \in S, q \in G PROVE Append(q, e) \in G
      OBVIOUS
    <2>1. Range(Append(q, e)) = Range(q) \cup {e} BY RangeAppend
    <2>2. IsFiniteSet(Range(q) \cup {e}) /\ Range(q) \cup {e} \subseteq S BY FS_AddElement
    <2>3. Append(q, e) \in Seq(S) OBVIOUS
    <2>. QED BY <2>1, <2>2, <2>3
  <1>3. Seq(S) \subseteq G
    <2>. HIDE DEF G
    <2>. QED BY <1>1, <1>2, SeqSet
  <1>. QED BY <1>3

\* No snapshot of the list is under the key.
Fresh(list, key) == \A i \in DOMAIN list : list[i].key # key

\* A list of snapshots with one under another key.
LEMMA SizeAppend ==
    ASSUME NEW q \in Seq(Snapshot), NEW e \in Snapshot, Fresh(q, e.key)
    PROVE  /\ D!Size(q) \in Nat /\ D!Size(Append(q, e)) = D!Size(q) + Bytes[e.text]
           /\ Append(q, e) \in Seq(Snapshot) /\ Len(Append(q, e)) = Len(q) + 1
           /\ Distinct(q) => Distinct(Append(q, e))
  <1>1. e \notin Range(q)
    BY DEF Fresh, Range
  <1>2. IsFiniteSet(Range(q)) /\ Range(q) \subseteq Snapshot
    BY RangeFinite
  <1>3. Range(Append(q, e)) = Range(q) \cup {e}
    BY RangeAppend
  <1>4. Weight(Range(q)) \in Nat /\ Weight(Range(Append(q, e))) = Weight(Range(q)) + Bytes[e.text]
    BY <1>1, <1>2, <1>3, WeightAdded
  <1>5. D!Size(q) \in Nat /\ D!Size(Append(q, e)) = D!Size(q) + Bytes[e.text]
    BY <1>4, SizeIsWeight
  <1>6. /\ Len(q) \in Nat /\ DOMAIN q = 1..Len(q) /\ DOMAIN Append(q, e) = 1..(Len(q) + 1)
        /\ Append(q, e)[Len(q) + 1] = e /\ \A i \in 1..Len(q) : Append(q, e)[i] = q[i]
        /\ Append(q, e) \in Seq(Snapshot) /\ Len(Append(q, e)) = Len(q) + 1
    OBVIOUS
  <1>7. \A i : i \in 1..(Len(q) + 1) <=> i \in 1..Len(q) \/ i = Len(q) + 1
    BY <1>6
  <1>8. Distinct(q) => Distinct(Append(q, e))
    BY <1>6, <1>7 DEF Distinct, Fresh
  <1>. QED BY <1>5, <1>6, <1>8

\* An empty list.
LEMMA SizeOfNone == D!Size(<<>>) = 0
  <1>1. Range(<<>>) = {} BY DEF Range
  <1>. QED BY <1>1, WeightOfNone, SizeIsWeight

\* Any list.
LEMMA SizeType ==
    ASSUME NEW q \in Seq(Snapshot)
    PROVE  D!Size(q) \in Nat
  <1>1. IsFiniteSet(Range(q)) /\ Range(q) \subseteq Snapshot
    BY RangeFinite
  <1>2. CASE Range(q) = {}
    <2>1. Weight(Range(q)) = 0 BY <1>2, WeightOfNone
    <2>2. D!Size(q) = 0 BY <2>1, SizeIsWeight
    <2>. QED BY <2>2
  <1>3. CASE Range(q) # {}
    <2>1. PICK e : e \in Range(q) BY <1>3
    <2>2. IsFiniteSet(Range(q) \ {e}) /\ Range(q) \ {e} \subseteq Snapshot /\ e \in Snapshot
      BY <1>1, <2>1, FS_Subset
    <2>3. (Range(q) \ {e}) \cup {e} = Range(q) BY <2>1
    <2>4. Weight(Range(q)) = Weight(Range(q) \ {e}) + Bytes[e.text] /\ Weight(Range(q) \ {e}) \in Nat
      BY <2>2, <2>3, WeightAdded
    <2>. QED BY <2>2, <2>4, BytesType, SizeIsWeight
  <1>. QED BY <1>2, <1>3

\* A list without the snapshot in one place.
LEMMA RemovedFact ==
    ASSUME NEW q \in Seq(Snapshot), Distinct(q), NEW i \in DOMAIN q
    PROVE  /\ D!RemoveAt(q, i) \in Seq(Snapshot) /\ Distinct(D!RemoveAt(q, i))
           /\ Len(D!RemoveAt(q, i)) = Len(q) - 1
           /\ \A j \in DOMAIN D!RemoveAt(q, i) :
                \E k \in DOMAIN q : k # i /\ D!RemoveAt(q, i)[j] = q[k]
           /\ D!Size(q) = D!Size(D!RemoveAt(q, i)) + Bytes[q[i].text]
           /\ D!Size(D!RemoveAt(q, i)) \in Nat
  <1>. DEFINE n == Len(q)
              r == D!RemoveAt(q, i)
              From(j) == IF j < i THEN j ELSE j + 1
  <1>1. n \in Nat /\ DOMAIN q = 1..n /\ i \in 1..n
    OBVIOUS
  <1>2. /\ r \in Seq(Snapshot) /\ Len(r) = n - 1 /\ DOMAIN r = 1..(n - 1)
        /\ \A j \in 1..(n - 1) : r[j] = q[From(j)]
    <2>. DEFINE a == SubSeq(q, 1, i - 1)
                b == SubSeq(q, i + 1, n)
    <2>1. a \in Seq(Snapshot) /\ Len(a) = i - 1 /\ \A j \in 1..(i - 1) : a[j] = q[j]
      BY <1>1
    <2>2. b \in Seq(Snapshot) /\ Len(b) = n - i /\ \A j \in 1..(n - i) : b[j] = q[i + j]
      BY <1>1
    <2>3. r = a \o b
      BY DEF D!RemoveAt
    <2>. HIDE DEF a, b, r, n
    <2>4. r \in Seq(Snapshot) /\ Len(r) = n - 1
      <3>1. a \o b \in Seq(Snapshot) /\ Len(a \o b) = Len(a) + Len(b)
        BY <2>1, <2>2, ConcatProperties
      <3>. QED BY <1>1, <2>1, <2>2, <2>3, <3>1
    <2>5. ASSUME NEW j \in 1..(n - 1) PROVE r[j] = q[From(j)]
      <3>1. CASE j < i
        <4>1. j \in 1..Len(a) BY <1>1, <2>1, <3>1
        <4>. QED BY <2>1, <2>2, <2>3, <3>1, <4>1, ConcatProperties
      <3>2. CASE j >= i
        <4>1. j \in (Len(a) + 1)..(Len(a) + Len(b)) /\ j - Len(a) \in 1..(n - i)
              /\ i + (j - Len(a)) = j + 1
          <5>1. Len(a) = i - 1 /\ Len(b) = n - i BY <2>1, <2>2
          <5>2. i \in Int /\ j \in Int /\ n \in Int /\ j <= n - 1 /\ i <= j BY <1>1, <3>2
          <5>3. /\ j \in (i - 1 + 1)..(i - 1 + (n - i)) /\ j - (i - 1) \in 1..(n - i)
                /\ i + (j - (i - 1)) = j + 1
            BY <5>2
          <5>. QED BY <5>1, <5>3
        <4>2. r[j] = b[j - Len(a)]
          <5>1. a \in Seq(Snapshot) /\ b \in Seq(Snapshot) BY <2>1, <2>2
          <5>2. \A x \in (Len(a) + 1)..(Len(a) + Len(b)) : (a \o b)[x] = b[x - Len(a)]
            BY <5>1
          <5>. QED BY <2>3, <4>1, <5>2
        <4>3. b[j - Len(a)] = q[j + 1] BY <2>2, <4>1
        <4>4. From(j) = j + 1 BY <1>1, <3>2
        <4>. QED BY <4>2, <4>3, <4>4
      <3>. QED BY <1>1, <3>1, <3>2
    <2>. QED BY <1>1, <2>4, <2>5
  <1>. HIDE DEF r, n
  <1>3. \A j \in 1..(n - 1) : From(j) \in 1..n /\ From(j) # i
    BY <1>1
  <1>4. \A j, k \in 1..(n - 1) : From(j) = From(k) => j = k
    BY <1>1
  <1>5. ASSUME NEW k \in 1..n, k # i PROVE \E j \in 1..(n - 1) : From(j) = k
    <2>1. CASE k < i
      <3>1. k \in 1..(n - 1) /\ From(k) = k BY <1>1, <2>1
      <3>. QED BY <3>1
    <2>2. CASE k > i
      <3>1. k - 1 \in 1..(n - 1) /\ From(k - 1) = k BY <1>1, <2>2
      <3>. QED BY <3>1
    <2>. QED BY <1>1, <1>5, <2>1, <2>2
  <1>. HIDE DEF From
  <1>6. \A j \in DOMAIN r : \E k \in DOMAIN q : k # i /\ r[j] = q[k]
    BY <1>1, <1>2, <1>3
  <1>7. Distinct(r)
    BY <1>1, <1>2, <1>3, <1>4 DEF Distinct
  <1>8. \A k \in 1..n : q[k] \in Range(r) \cup {q[i]}
    BY <1>2, <1>5 DEF Range
  <1>9. Range(q) = Range(r) \cup {q[i]}
    BY <1>1, <1>6, <1>8 DEF Range
  <1>10. q[i] \notin Range(r)
    BY <1>1, <1>6 DEF Range, Distinct
  <1>11. IsFiniteSet(Range(r)) /\ Range(r) \subseteq Snapshot /\ q[i] \in Snapshot
    BY <1>1, <1>2, RangeFinite
  <1>12. Weight(Range(r)) \in Nat /\ Weight(Range(q)) = Weight(Range(r)) + Bytes[q[i].text]
    BY <1>9, <1>10, <1>11, WeightAdded
  <1>13. D!Size(q) = D!Size(r) + Bytes[q[i].text] /\ D!Size(r) \in Nat
    BY <1>12, SizeIsWeight
  <1>. QED BY <1>2, <1>6, <1>7, <1>13 DEF r, n

\* The first snapshots of a list and the others.
LEMMA PartsFact ==
    ASSUME NEW q \in Seq(Snapshot), Distinct(q), NEW n \in 0..Len(q)
    PROVE  /\ SubSeq(q, n + 1, Len(q)) \in Seq(Snapshot) /\ Distinct(SubSeq(q, n + 1, Len(q)))
           /\ Len(SubSeq(q, n + 1, Len(q))) = Len(q) - n
           /\ \A j \in DOMAIN SubSeq(q, n + 1, Len(q)) :
                \E k \in DOMAIN q : SubSeq(q, n + 1, Len(q))[j] = q[k]
           /\ SubSeq(q, 1, n) \in Seq(Snapshot)
           /\ D!Size(SubSeq(q, 1, n)) \in Nat /\ D!Size(SubSeq(q, n + 1, Len(q))) \in Nat
           /\ D!Size(q) = D!Size(SubSeq(q, 1, n)) + D!Size(SubSeq(q, n + 1, Len(q)))
  <1>. DEFINE m == Len(q)
              A(k) == SubSeq(q, 1, k)
              B(k) == SubSeq(q, k + 1, m)
              G == {k \in Nat : k <= m => D!Size(q) = D!Size(A(k)) + D!Size(B(k))}
  <1>1. m \in Nat /\ DOMAIN q = 1..m
    OBVIOUS
  <1>2. \A k \in 0..m : /\ A(k) \in Seq(Snapshot) /\ Len(A(k)) = k /\ DOMAIN A(k) = 1..k
                        /\ \A j \in 1..k : A(k)[j] = q[j]
    BY <1>1
  <1>3. \A k \in 0..m : /\ B(k) \in Seq(Snapshot) /\ Len(B(k)) = m - k /\ DOMAIN B(k) = 1..(m - k)
                        /\ \A j \in 1..(m - k) : B(k)[j] = q[k + j]
    <2>. SUFFICES ASSUME NEW k \in 0..m
                  PROVE  /\ B(k) \in Seq(Snapshot) /\ Len(B(k)) = m - k /\ DOMAIN B(k) = 1..(m - k)
                         /\ \A j \in 1..(m - k) : B(k)[j] = q[k + j]
      OBVIOUS
    <2>1. /\ B(k) \in Seq(Snapshot) /\ Len(B(k)) = m - k
          /\ \A j \in 1..(m - (k + 1) + 1) : B(k)[j] = q[(k + 1) + j - 1]
      <3>1. \A j \in (k + 1)..m : q[j] \in Snapshot BY <1>1
      <3>2. k + 1 \in Nat /\ k + 1 <= m + 1 BY <1>1
      <3>. HIDE DEF m
      <3>. QED BY <1>1, <3>1, <3>2, SubSeqProperties
    <2>2. m - (k + 1) + 1 = m - k /\ \A j \in 1..(m - k) : (k + 1) + j - 1 = k + j
      BY <1>1
    <2>. HIDE DEF B, m
    <2>. QED BY <2>1, <2>2
  <1>4. A(0) = <<>> /\ B(0) = q
    BY <1>1
  <1>. HIDE DEF A, B, m
  <1>5. \A k \in 0..m : D!Size(A(k)) \in Nat /\ D!Size(B(k)) \in Nat
    BY <1>2, <1>3, SizeType
  <1>6. 0 \in G
    <2>1. D!Size(q) \in Nat BY SizeType
    <2>. QED BY <1>4, <2>1, SizeOfNone
  <1>7. \A k \in Nat : k \in G => k + 1 \in G
    <2>. SUFFICES ASSUME NEW k \in Nat, k \in G, k + 1 <= m
                  PROVE  D!Size(q) = D!Size(A(k + 1)) + D!Size(B(k + 1))
      OBVIOUS
    <2>. DEFINE e == q[k + 1]
    <2>1. k \in 0..m /\ k + 1 \in 0..m /\ k + 1 \in 1..m /\ e \in Snapshot
      BY <1>1
    <2>2. \A i \in 1..m : q[i] = e => i = k + 1
      BY <1>1, <2>1 DEF Distinct
    <2>. HIDE DEF e
    <2>3. e \notin Range(A(k)) /\ Range(A(k + 1)) = Range(A(k)) \cup {e}
      <3>1. Range(A(k)) = {q[j] : j \in 1..k}
        BY <1>2, <2>1 DEF Range
      <3>2. Range(A(k + 1)) = {q[j] : j \in 1..(k + 1)}
        BY <1>2, <2>1 DEF Range
      <3>3. \A j \in 1..k : j \in 1..m /\ j # k + 1 BY <1>1, <2>1
      <3>4. \A j : j \in 1..(k + 1) <=> j \in 1..k \/ j = k + 1 OBVIOUS
      <3>. QED BY <2>2, <3>1, <3>2, <3>3, <3>4 DEF e
    <2>4. e \notin Range(B(k + 1)) /\ Range(B(k)) = Range(B(k + 1)) \cup {e}
      <3>1. Range(B(k)) = {q[j] : j \in (k + 1)..m}
        <4>1. \A j \in 1..(m - k) : k + j \in (k + 1)..m BY <1>1
        <4>2. \A j \in (k + 1)..m : j - k \in 1..(m - k) /\ k + (j - k) = j BY <1>1
        <4>3. DOMAIN B(k) = 1..(m - k) /\ \A j \in 1..(m - k) : B(k)[j] = q[k + j]
          BY <1>3, <2>1
        <4>4. \A x \in Range(B(k)) : \E j \in (k + 1)..m : x = q[j] BY <4>1, <4>3 DEF Range
        <4>5. \A j \in (k + 1)..m : q[j] \in Range(B(k)) BY <4>2, <4>3 DEF Range
        <4>. QED BY <4>4, <4>5
      <3>2. Range(B(k + 1)) = {q[j] : j \in (k + 2)..m}
        <4>1. \A j \in 1..(m - (k + 1)) : (k + 1) + j \in (k + 2)..m BY <1>1
        <4>2. \A j \in (k + 2)..m : j - (k + 1) \in 1..(m - (k + 1)) /\ (k + 1) + (j - (k + 1)) = j BY <1>1
        <4>3. DOMAIN B(k + 1) = 1..(m - (k + 1)) /\ \A j \in 1..(m - (k + 1)) : B(k + 1)[j] = q[(k + 1) + j]
          BY <1>3, <2>1
        <4>4. \A x \in Range(B(k + 1)) : \E j \in (k + 2)..m : x = q[j] BY <4>1, <4>3 DEF Range
        <4>5. \A j \in (k + 2)..m : q[j] \in Range(B(k + 1)) BY <4>2, <4>3 DEF Range
        <4>. QED BY <4>4, <4>5
      <3>3. \A j \in (k + 2)..m : j \in 1..m /\ j # k + 1 BY <1>1
      <3>4. \A j : j \in (k + 1)..m <=> j \in (k + 2)..m \/ j = k + 1 BY <1>1, <2>1
      <3>. QED BY <2>2, <3>1, <3>2, <3>3, <3>4 DEF e
    <2>5. /\ IsFiniteSet(Range(A(k))) /\ Range(A(k)) \subseteq Snapshot
          /\ IsFiniteSet(Range(B(k + 1))) /\ Range(B(k + 1)) \subseteq Snapshot
      BY <1>2, <1>3, <2>1, RangeFinite
    <2>6. Weight(Range(A(k + 1))) = Weight(Range(A(k))) + Bytes[e.text]
      BY <2>1, <2>3, <2>5, WeightAdded
    <2>7. Weight(Range(B(k))) = Weight(Range(B(k + 1))) + Bytes[e.text]
      BY <2>1, <2>4, <2>5, WeightAdded
    <2>8. D!Size(A(k + 1)) = D!Size(A(k)) + Bytes[e.text] /\ D!Size(B(k)) = D!Size(B(k + 1)) + Bytes[e.text]
      BY <2>6, <2>7, SizeIsWeight
    <2>9. D!Size(q) = D!Size(A(k)) + D!Size(B(k)) BY <2>1
    <2>10. D!Size(A(k)) \in Nat /\ D!Size(B(k + 1)) \in Nat /\ Bytes[e.text] \in Nat
      BY <1>5, <2>1, BytesType
    <2>. QED BY <2>8, <2>9, <2>10
  <1>8. Nat \subseteq G
    <2>. HIDE DEF G
    <2>. QED BY <1>6, <1>7, NatSet
  <1>9. n \in 0..m /\ n \in Nat /\ n <= m
    BY <1>1 DEF m
  <1>10. D!Size(q) = D!Size(A(n)) + D!Size(B(n))
    BY <1>8, <1>9
  <1>11. \A j \in 1..(m - n) : n + j \in 1..m
    BY <1>1, <1>9
  <1>12. Distinct(B(n))
    <2>1. DOMAIN B(n) = 1..(m - n) /\ \A j \in 1..(m - n) : B(n)[j] = q[n + j]
      BY <1>3, <1>9
    <2>2. ASSUME NEW i \in 1..(m - n), NEW j \in 1..(m - n), B(n)[i].key = B(n)[j].key PROVE i = j
      <3>1. n + i = n + j BY <1>1, <1>11, <2>1, <2>2 DEF Distinct
      <3>. QED BY <1>1, <1>9, <3>1
    <2>. QED BY <2>1, <2>2 DEF Distinct
  <1>13. \A j \in DOMAIN B(n) : \E k \in DOMAIN q : B(n)[j] = q[k]
    BY <1>1, <1>3, <1>9, <1>11
  <1>14. /\ B(n) \in Seq(Snapshot) /\ Len(B(n)) = m - n /\ A(n) \in Seq(Snapshot)
         /\ D!Size(A(n)) \in Nat /\ D!Size(B(n)) \in Nat
    BY <1>2, <1>3, <1>5, <1>9
  <1>. QED BY <1>10, <1>12, <1>13, <1>14 DEF A, B, m

\* A sum over one place more has its value more.
LEMMA SumOfOneMore ==
    ASSUME NEW m \in Nat, NEW f \in [1..m -> Nat], NEW n, n = m + 1, NEW g \in [1..n -> Nat],
           \A i \in 1..m : g[i] = f[i]
    PROVE  SumFunction(g) = SumFunction(f) + g[n]
  <1>1. PICK S : S = 1..m OBVIOUS
  <1>2. IsFiniteSet(S) /\ n \notin S /\ 1..n = S \cup {n}
    <2>1. IsFiniteSet(1..m) BY FS_Interval
    <2>2. n \notin 1..m /\ 1..n = 1..m \cup {n} OBVIOUS
    <2>. QED BY <1>1, <2>1, <2>2
  <1>3. f \in [S -> Nat] /\ g \in [S \cup {n} -> Nat] BY <1>1, <1>2
  <1>4. Agree(S, f, g) BY <1>1 DEF Agree
  <1>5. Extends(S, f, n, g) BY <1>2, <1>3, <1>4 DEF Extends
  <1>. QED BY <1>5, SumAdded

\* In a list of snapshots under different keys, each place has its own.
LEMMA SizeByPlace ==
    \A q \in Seq(Snapshot) : Distinct(q) =>
        /\ IsFiniteSet(Range(q)) /\ Cardinality(Range(q)) = Len(q)
        /\ D!Size(q) = SumFunction([i \in 1..Len(q) |-> Bytes[q[i].text]])
  <1>. DEFINE Sizes(q) == [i \in 1..Len(q) |-> Bytes[q[i].text]]
              Good(q) == Distinct(q) => /\ IsFiniteSet(Range(q)) /\ Cardinality(Range(q)) = Len(q)
                                        /\ D!Size(q) = SumFunction(Sizes(q))
              G == {q \in Seq(Snapshot) : Good(q)}
  <1>1. <<>> \in G
    <2>1. Range(<<>>) = {} /\ Len(<<>>) = 0 /\ <<>> \in Seq(Snapshot) BY DEF Range
    <2>2. Sizes(<<>>) \in [{} -> Nat] OBVIOUS
    <2>3. SumFunction(Sizes(<<>>)) = 0 BY <2>2, SumOfNone
    <2>. QED BY <2>1, <2>3, SizeOfNone, FS_EmptySet
  <1>2. \A q \in Seq(Snapshot), e \in Snapshot : q \in G => Append(q, e) \in G
    <2>. SUFFICES ASSUME NEW q \in Seq(Snapshot), NEW e \in Snapshot, Good(q), Distinct(Append(q, e))
                  PROVE  Good(Append(q, e))
      <3>1. \A q \in Seq(Snapshot), e \in Snapshot : Append(q, e) \in Seq(Snapshot) OBVIOUS
      <3>2. \A q : ~Distinct(q) => Good(q) OBVIOUS
      <3>. HIDE DEF Good
      <3>. QED BY <3>1, <3>2
    <2>1. /\ Len(q) \in Nat /\ DOMAIN q = 1..Len(q) /\ DOMAIN Append(q, e) = 1..(Len(q) + 1)
          /\ Append(q, e)[Len(q) + 1] = e /\ \A i \in 1..Len(q) : Append(q, e)[i] = q[i]
          /\ Append(q, e) \in Seq(Snapshot) /\ Len(Append(q, e)) = Len(q) + 1
      OBVIOUS
    <2>2. \A i \in 1..Len(q) : i \in 1..(Len(q) + 1) /\ i # Len(q) + 1
      BY <2>1
    <2>3. Len(q) + 1 \in 1..(Len(q) + 1) /\ 1..(Len(q) + 1) = 1..Len(q) \cup {Len(q) + 1}
      BY <2>1
    <2>4. Distinct(q) /\ Fresh(q, e.key)
      BY <2>1, <2>2, <2>3 DEF Distinct, Fresh
    <2>5. /\ IsFiniteSet(Range(q)) /\ Cardinality(Range(q)) = Len(q)
          /\ D!Size(q) = SumFunction(Sizes(q))
      BY <2>4
    <2>6. e \notin Range(q) /\ Range(Append(q, e)) = Range(q) \cup {e}
      BY <2>4, RangeAppend DEF Fresh, Range
    <2>7. IsFiniteSet(Range(Append(q, e))) /\ Cardinality(Range(Append(q, e))) = Len(q) + 1
      BY <2>5, <2>6, FS_AddElement
    <2>8. D!Size(Append(q, e)) = D!Size(q) + Bytes[e.text]
      BY <2>4, SizeAppend
    <2>9. SumFunction(Sizes(Append(q, e))) = SumFunction(Sizes(q)) + Bytes[e.text]
      <3>. DEFINE f == Sizes(q)
                  g == Sizes(Append(q, e))
                  S == 1..Len(q)
                  n == Len(q) + 1
      <3>1. f \in [S -> Nat]
        <4>1. \A i \in S : q[i] \in Snapshot BY <2>1
        <4>. QED BY <4>1, BytesType
      <3>2. \A i \in 1..n : Append(q, e)[i] \in Snapshot
        BY <2>1, <2>3
      <3>3. g \in [1..n -> Nat] /\ g[n] = Bytes[e.text] /\ \A i \in S : g[i] = f[i]
        BY <2>1, <2>2, <2>3, <3>2, BytesType
      <3>4. n = Len(q) + 1 /\ Len(q) \in Nat
        BY <2>1
      <3>. HIDE DEF f, g, n, Good, Sizes, G
      <3>5. SumFunction(g) = SumFunction(f) + g[n]
        BY <3>1, <3>3, <3>4, SumOfOneMore
      <3>. QED BY <3>3, <3>5 DEF f, g
    <2>. HIDE DEF Sizes
    <2>. QED BY <2>1, <2>5, <2>7, <2>8, <2>9
  <1>3. Seq(Snapshot) \subseteq G
    <2>. HIDE DEF G
    <2>. QED BY <1>1, <1>2, SeqSet
  <1>. QED BY <1>3

\* The same texts in the same places have the same size.
LEMMA SizeSame ==
    ASSUME NEW q \in Seq(Snapshot), NEW r \in Seq(Snapshot), Distinct(q), Distinct(r),
           Len(r) = Len(q), \A i \in 1..Len(q) : r[i].text = q[i].text
    PROVE  D!Size(r) = D!Size(q)
  <1>1. [i \in 1..Len(r) |-> Bytes[r[i].text]] = [i \in 1..Len(q) |-> Bytes[q[i].text]]
    OBVIOUS
  <1>. QED BY <1>1, SizeByPlace

\* Two lists of the same snapshots are as long and as large.
LEMMA SameSnapshots ==
    ASSUME NEW q \in Seq(Snapshot), NEW r \in Seq(Snapshot), Distinct(q), Distinct(r), Range(r) = Range(q)
    PROVE  Len(r) = Len(q) /\ D!Size(r) = D!Size(q)
  BY SizeByPlace, SizeIsWeight

\* What is known under a key.
LEMMA GetFact ==
    ASSUME NEW q \in Seq(Snapshot), Distinct(q), NEW key
    PROVE  /\ D!Known(q, key) => /\ D!Place(q, key) \in DOMAIN q /\ q[D!Place(q, key)] = D!Get(q, key)
                                 /\ D!Get(q, key) \in Range(q) /\ D!Get(q, key).key = key
           /\ \A x \in Range(q) : x.key = key => D!Known(q, key) /\ D!Get(q, key) = x
           /\ D!Known(q, key) <=> ~Fresh(q, key)
  <1>1. D!Known(q, key) <=> \E i \in DOMAIN q : q[i].key = key
    BY DEF D!Known
  <1>2. D!Known(q, key) => D!Place(q, key) \in DOMAIN q /\ q[D!Place(q, key)].key = key
    BY <1>1 DEF D!Place
  <1>3. D!Get(q, key) = q[D!Place(q, key)]
    BY DEF D!Get
  <1>4. \A x \in Range(q) : \E i \in DOMAIN q : q[i] = x
    BY DEF Range
  <1>5. \A i \in DOMAIN q : q[i] \in Range(q)
    BY DEF Range
  <1>6. \A x \in Range(q) : x.key = key => D!Known(q, key) /\ D!Get(q, key) = x
    BY <1>1, <1>2, <1>3, <1>4 DEF Distinct
  <1>7. D!Known(q, key) <=> ~Fresh(q, key)
    BY <1>1 DEF Fresh
  <1>. QED BY <1>2, <1>3, <1>5, <1>6, <1>7

-----------------------------------------------------------------------------
(* What the cache does *)

\* A state without what was known under a key.
LEMMA DroppedFact ==
    ASSUME NEW s, Exact(s), NEW key, NEW r, r = D!Dropped(s, key)
    PROVE  /\ Exact(r) /\ (Within(s) => Within(r))
           /\ \A x \in Held(r) : x \in Held(s) /\ x.key # key
           /\ Fresh(r.entries, key)
  <1>. DEFINE q == s.entries
              i == D!Place(q, key)
  <1>1. q \in Seq(Snapshot) /\ s.total \in Nat /\ Distinct(q) /\ s.total = D!Size(q)
    BY DEF Exact, Cache
  <1>2. Len(q) \in Nat
    BY <1>1
  <1>3. CASE ~D!Known(q, key)
    <2>1. r = s BY <1>3 DEF D!Dropped
    <2>2. Fresh(q, key) BY <1>1, <1>3, GetFact
    <2>3. \A x \in Held(s) : x.key # key BY <2>2 DEF Fresh, Held, Range
    <2>. QED BY <2>1, <2>2, <2>3
  <1>4. CASE D!Known(q, key)
    <2>1. i \in DOMAIN q /\ q[i] = D!Get(q, key) /\ q[i].key = key
      BY <1>1, <1>4, GetFact
    <2>2. r = [entries |-> D!RemoveAt(q, i), total |-> D!Minus(s.total, Bytes[q[i].text])]
      BY <1>4, <2>1 DEF D!Dropped
    <2>. DEFINE p == D!RemoveAt(q, i)
    <2>3. /\ p \in Seq(Snapshot) /\ Distinct(p) /\ Len(p) = Len(q) - 1
          /\ D!Size(q) = D!Size(p) + Bytes[q[i].text] /\ D!Size(p) \in Nat
      BY <1>1, <2>1, RemovedFact
    <2>4. \A j \in DOMAIN p : \E k \in DOMAIN q : k # i /\ p[j] = q[k]
      BY <1>1, <2>1, RemovedFact
    <2>5. q[i] \in Snapshot /\ Bytes[q[i].text] \in Nat
      BY <1>1, <2>1, BytesType
    <2>. HIDE DEF q, i, p
    <2>6. D!Minus(s.total, Bytes[q[i].text]) = D!Size(p)
      BY <1>1, <2>3, <2>5 DEF D!Minus
    <2>7. r.entries = p /\ r.total = D!Size(p) /\ r \in Cache
      BY <2>2, <2>3, <2>6 DEF p, Cache
    <2>8. Exact(r)
      BY <2>3, <2>7 DEF Exact
    <2>9. Within(s) => Within(r)
      <3>1. s.total = D!Size(q) BY <1>1
      <3>2. Len(q) \in Nat /\ MaxSnapshots \in Nat /\ MaxBytes \in Nat BY <1>1, SceneAssumption
      <3>3. D!Size(p) <= s.total /\ Len(p) <= Len(q) BY <2>3, <2>5, <3>1, <3>2
      <3>. QED BY <2>3, <2>5, <2>7, <3>1, <3>2, <3>3 DEF Within, q
    <2>10. \A j \in DOMAIN p : p[j] \in Range(q) /\ p[j].key # key
      BY <1>1, <2>1, <2>4 DEF Range, Distinct
    <2>11. Fresh(p, key) /\ \A x \in Range(p) : x \in Range(q) /\ x.key # key
      BY <2>10 DEF Fresh, Range
    <2>. QED BY <2>7, <2>8, <2>9, <2>11 DEF Held, q
  <1>. QED BY <1>3, <1>4

\* The first place from which a list fits is found.
LEMMA LeastPlace ==
    ASSUME NEW T, T \subseteq Nat, NEW n \in Nat, n \in T
    PROVE  D!Min(T) \in T /\ D!Min(T) <= n
  <1>1. \E x \in T : \A y \in T : x <= y
    BY LeastNumber
  <1>2. D!Min(T) \in T /\ \A y \in T : D!Min(T) <= y
    BY <1>1 DEF D!Min
  <1>. QED BY <1>2

\* The others after the oldest snapshots are gone.
LEMMA EvictedFact ==
    ASSUME NEW s, Exact(s), NEW r, r = D!Evicted(s)
    PROVE  Sound(r) /\ Held(r) \subseteq Held(s)
  <1>. DEFINE q == s.entries
              m == Len(q)
              Rest(n) == D!Minus(s.total, D!Size(SubSeq(q, 1, n)))
              Fits(n) == m - n <= MaxSnapshots /\ Rest(n) <= MaxBytes
              T == {n \in 0..m : Fits(n)} \cup {m}
              k == D!Min(T)
              p == SubSeq(q, k + 1, m)
  <1>1. q \in Seq(Snapshot) /\ s.total \in Nat /\ Distinct(q) /\ s.total = D!Size(q) /\ m \in Nat
    BY DEF Exact, Cache
  <1>2. r = [entries |-> p, total |-> Rest(k)]
    BY DEF D!Evicted
  <1>3. \A n \in 0..m : /\ D!Size(SubSeq(q, 1, n)) \in Nat /\ D!Size(SubSeq(q, n + 1, m)) \in Nat
                        /\ D!Size(q) = D!Size(SubSeq(q, 1, n)) + D!Size(SubSeq(q, n + 1, m))
    BY <1>1, PartsFact
  <1>. HIDE DEF q
  <1>4. \A n \in 0..m : Rest(n) = D!Size(SubSeq(q, n + 1, m)) /\ Rest(n) \in Nat
    BY <1>1, <1>3 DEF D!Minus
  <1>. HIDE DEF Rest
  <1>5. Fits(m)
    <2>1. SubSeq(q, m + 1, m) = <<>> BY <1>1, SubSeqEmpty
    <2>2. m \in 0..m BY <1>1
    <2>3. Rest(m) = D!Size(SubSeq(q, m + 1, m)) BY <1>4, <2>2
    <2>4. m \in 0..m /\ Rest(m) = 0 BY <2>1, <2>2, <2>3, SizeOfNone
    <2>5. m - m = 0 BY <1>1
    <2>. HIDE DEF m
    <2>. QED BY <2>4, <2>5, SceneAssumption
  <1>6. k \in T
    <2>1. T \subseteq Nat /\ m \in T BY <1>1
    <2>. HIDE DEF T, m
    <2>. QED BY <1>1, <2>1, LeastPlace
  <1>7. k \in 0..m /\ Fits(k)
    <2>. HIDE DEF k
    <2>. QED BY <1>1, <1>5, <1>6
  <1>8. p \in Seq(Snapshot) /\ Distinct(p) /\ Len(p) = m - k
    <2>. HIDE DEF k
    <2>. QED BY <1>1, <1>7, PartsFact
  <1>9. Range(p) \subseteq Range(q)
    <2>1. \A j \in DOMAIN p : \E i \in DOMAIN q : p[j] = q[i]
      <3>. HIDE DEF k
      <3>. QED BY <1>1, <1>7, PartsFact
    <2>. HIDE DEF p
    <2>. QED BY <2>1 DEF Range
  <1>10. r.entries = p /\ r.total = D!Size(p) /\ r.total \in Nat /\ r.total <= MaxBytes
         /\ r \in Cache
    <2>1. Rest(k) = D!Size(p) /\ Rest(k) \in Nat /\ Rest(k) <= MaxBytes BY <1>4, <1>7
    <2>. HIDE DEF p, k
    <2>. QED BY <1>2, <1>8, <2>1 DEF Cache
  <1>11. Len(p) <= MaxSnapshots
    BY <1>7, <1>8
  <1>. QED BY <1>8, <1>9, <1>10, <1>11 DEF Sound, Exact, Within, Held, q

\* What is stored replaces what was under its key.
LEMMA StoreFact ==
    ASSUME NEW s, Sound(s), NEW e \in Snapshot, NEW r, r = D!Store(s, e)
    PROVE  /\ Sound(r)
           /\ \A x \in Held(r) : x = e \/ (x \in Held(s) /\ x.key # e.key)
  <1>. DEFINE t == D!Dropped(s, e.key)
              a == [entries |-> Append(t.entries, e), total |-> t.total + Bytes[e.text]]
  <1>1. /\ Exact(t) /\ Within(t) /\ Fresh(t.entries, e.key)
        /\ \A x \in Held(t) : x \in Held(s) /\ x.key # e.key
    <2>1. Exact(s) /\ Within(s) BY DEF Sound
    <2>2. t = D!Dropped(s, e.key) OBVIOUS
    <2>. DEFINE key == e.key
    <2>3. t = D!Dropped(s, key) BY <2>2
    <2>. HIDE DEF t, key
    <2>4. Exact(t) /\ Within(t) /\ Fresh(t.entries, key)
      BY <2>1, <2>3, DroppedFact
    <2>5. \A x \in Held(t) : x \in Held(s) /\ x.key # key
      BY <2>1, <2>3, DroppedFact
    <2>. QED BY <2>4, <2>5 DEF key
  <1>2. CASE r = t
    BY <1>1, <1>2 DEF Sound
  <1>3. CASE r = D!Evicted(a)
    <2>1. t.entries \in Seq(Snapshot) /\ t.total \in Nat /\ Distinct(t.entries)
          /\ t.total = D!Size(t.entries)
      BY <1>1 DEF Exact, Cache
    <2>. HIDE DEF t
    <2>2. /\ Append(t.entries, e) \in Seq(Snapshot) /\ Distinct(Append(t.entries, e))
          /\ D!Size(Append(t.entries, e)) = t.total + Bytes[e.text]
      BY <1>1, <2>1, SizeAppend
    <2>3. t.total + Bytes[e.text] \in Nat BY <2>1, BytesType
    <2>4. Exact(a) BY <2>2, <2>3 DEF Exact, Cache
    <2>5. Held(a) = Held(t) \cup {e} BY <2>1, RangeAppend DEF Held
    <2>. HIDE DEF a
    <2>6. Sound(r) /\ Held(r) \subseteq Held(a) BY <1>3, <2>4, EvictedFact
    <2>. QED BY <1>1, <2>5, <2>6
  <1>4. r = t \/ r = D!Evicted(a)
    BY DEF D!Store
  <1>. QED BY <1>2, <1>3, <1>4

\* Snapshots that say the same.
Alike(x, y) == x.key = y.key /\ x.text = y.text /\ x.id = y.id /\ x.version = y.version

\* A Document that was closed: its snapshots say what they said.
LEMMA ClosedFact ==
    ASSUME NEW s, Sound(s), NEW uri, NEW r, r = D!Closed(s, uri)
    PROVE  Sound(r) /\ \A x \in Held(r) : \E y \in Held(s) : Alike(x, y)
  <1>. DEFINE q == s.entries
              Marked(x) == IF x.key \in {D!PushKey(uri), D!PullKey(uri)}
                           THEN [x EXCEPT !.closed = TRUE, !.received = 0] ELSE x
              p == [i \in DOMAIN q |-> Marked(q[i])]
  <1>1. q \in Seq(Snapshot) /\ s.total \in Nat /\ Distinct(q) /\ s.total = D!Size(q) /\ s \in Cache
    BY DEF Sound, Exact, Cache
  <1>2. r = [s EXCEPT !.entries = p]
    BY DEF D!Closed, D!NoVersion
  <1>. HIDE DEF q
  <1>3. \A x \in Snapshot : Marked(x) \in Snapshot /\ Alike(Marked(x), x)
    BY DEF Snapshot, Alike
  <1>. HIDE DEF Marked
  <1>4. Len(q) \in Nat /\ DOMAIN q = 1..Len(q) /\ \A i \in 1..Len(q) : q[i] \in Snapshot
    BY <1>1
  <1>5. p \in Seq(Snapshot) /\ Len(p) = Len(q) /\ DOMAIN p = 1..Len(q)
        /\ \A i \in 1..Len(q) : p[i] = Marked(q[i])
    BY <1>3, <1>4
  <1>. HIDE DEF p
  <1>6. \A i \in 1..Len(q) : p[i].key = q[i].key /\ p[i].text = q[i].text /\ Alike(p[i], q[i])
    BY <1>3, <1>4, <1>5 DEF Alike
  <1>7. Distinct(p)
    BY <1>1, <1>4, <1>5, <1>6 DEF Distinct
  <1>8. D!Size(p) = D!Size(q)
    BY <1>1, <1>5, <1>6, <1>7, SizeSame
  <1>9. r \in Cache /\ r.entries = p /\ r.total = s.total
    BY <1>1, <1>2, <1>5 DEF Cache
  <1>10. Sound(r)
    BY <1>1, <1>5, <1>7, <1>8, <1>9 DEF Sound, Exact, Within, q
  <1>11. \A x \in Range(p) : \E y \in Range(q) : Alike(x, y)
    BY <1>4, <1>5, <1>6 DEF Range
  <1>. QED BY <1>9, <1>10, <1>11 DEF Held, q

\* A look-up moves a snapshot to the end.
LEMMA TouchedFact ==
    ASSUME NEW s, Sound(s), NEW key, NEW r, r = D!Touched(s, key)
    PROVE  Sound(r) /\ Held(r) \subseteq Held(s)
  <1>. DEFINE q == s.entries
              i == D!Place(q, key)
              p == D!RemoveAt(q, i)
              x == q[i]
  <1>1. q \in Seq(Snapshot) /\ s.total \in Nat /\ Distinct(q) /\ s.total = D!Size(q) /\ s \in Cache
    BY DEF Sound, Exact, Cache
  <1>2. CASE ~D!Known(q, key)
    BY <1>2 DEF D!Touched
  <1>3. CASE D!Known(q, key)
    <2>1. i \in DOMAIN q /\ x = D!Get(q, key)
      BY <1>1, <1>3, GetFact
    <2>2. r = [s EXCEPT !.entries = Append(p, x)]
      BY <1>3, <2>1 DEF D!Touched
    <2>3. /\ p \in Seq(Snapshot) /\ Distinct(p) /\ Len(p) = Len(q) - 1
          /\ D!Size(q) = D!Size(p) + Bytes[q[i].text]
      BY <1>1, <2>1, RemovedFact
    <2>4. \A j \in DOMAIN p : \E k \in DOMAIN q : k # i /\ p[j] = q[k]
      BY <1>1, <2>1, RemovedFact
    <2>5. x \in Snapshot /\ Len(q) \in Nat
      BY <1>1, <2>1
    <2>. HIDE DEF p, i, q
    <2>6. Fresh(p, x.key) /\ Range(p) \subseteq Range(q) /\ x \in Range(q)
      BY <1>1, <2>1, <2>4 DEF Fresh, Range, Distinct
    <2>7. Range(Append(p, x)) = Range(p) \cup {x}
      BY <2>3, <2>5, RangeAppend
    <2>. HIDE DEF x
    <2>8. /\ Append(p, x) \in Seq(Snapshot) /\ Distinct(Append(p, x)) /\ Len(Append(p, x)) = Len(p) + 1
          /\ D!Size(Append(p, x)) = D!Size(p) + Bytes[x.text]
      BY <2>3, <2>5, <2>6, SizeAppend
    <2>9. D!Size(Append(p, x)) = D!Size(q) /\ Len(Append(p, x)) = Len(q)
      BY <2>3, <2>5, <2>8 DEF x
    <2>10. r.entries = Append(p, x) /\ r.total = s.total /\ r \in Cache
      BY <1>1, <2>2, <2>8 DEF Cache
    <2>11. Sound(r)
      BY <1>1, <2>8, <2>9, <2>10 DEF Sound, Exact, Within, q
    <2>. QED BY <2>6, <2>7, <2>10, <2>11 DEF Held, q
  <1>. QED BY <1>2, <1>3

\* Every key has one place in the order.
LEMMA KeysFact ==
    /\ D!PullKeys \in Seq(Key) /\ D!Keys \in Seq(Key)
    /\ \A i, j \in 1..Len(D!Keys) : D!Keys[i] = D!Keys[j] => i = j
    /\ \A key \in Key : \E i \in 1..Len(D!Keys) : D!Keys[i] = key
  <1>. DEFINE n == Len(Uris)
              p == [i \in DOMAIN Uris |-> D!PullKey(Uris[i])]
              q == [i \in DOMAIN Uris |-> D!PushKey(Uris[i])]
  <1>1. n \in Nat /\ DOMAIN Uris = 1..n /\ D!Doc = {Uris[i] : i \in 1..n}
    <2>1. D!Doc = Range(Uris) BY Library DEF D!Doc
    <2>. QED BY <2>1, SceneAssumption DEF Range
  <1>2. \A i, j \in 1..n : Uris[i] = Uris[j] => i = j
    BY <1>1, SceneAssumption DEF IsInjective
  <1>. HIDE DEF n
  <1>3. \A uri \in D!Doc : D!PullKey(uri) \in Key /\ D!PushKey(uri) \in Key
    BY DEF D!PullKey, D!PushKey, Key
  <1>4. /\ p \in Seq(Key) /\ Len(p) = n /\ \A i \in 1..n : p[i] = <<"pull", Uris[i]>>
        /\ q \in Seq(Key) /\ Len(q) = n /\ \A i \in 1..n : q[i] = <<"push", Uris[i]>>
    <2>1. \A i \in 1..n : Uris[i] \in D!Doc BY <1>1
    <2>2. p = [i \in 1..n |-> D!PullKey(Uris[i])] /\ q = [i \in 1..n |-> D!PushKey(Uris[i])]
      BY <1>1
    <2>3. p \in [1..n -> Key] /\ q \in [1..n -> Key] BY <1>3, <2>1, <2>2
    <2>4. /\ \A i \in 1..n : p[i] = D!PullKey(Uris[i])
          /\ \A i \in 1..n : q[i] = D!PushKey(Uris[i])
      BY <2>2
    <2>. HIDE DEF p, q
    <2>5. p \in Seq(Key) /\ Len(p) = n /\ q \in Seq(Key) /\ Len(q) = n BY <1>1, <2>3
    <2>. QED BY <2>4, <2>5 DEF D!PullKey, D!PushKey
  <1>5. D!PullKeys = p /\ D!Keys = p \o q
    BY DEF D!PullKeys, D!Keys
  <1>. HIDE DEF p, q
  <1>6. /\ D!Keys \in Seq(Key) /\ Len(D!Keys) = n + n
        /\ \A i \in 1..n : D!Keys[i] = p[i] /\ D!Keys[n + i] = q[i]
    <2>1. p \o q \in Seq(Key) /\ Len(p \o q) = n + n
      BY <1>1, <1>4, ConcatProperties
    <2>2. \A i \in 1..n : (p \o q)[i] = p[i]
      BY <1>1, <1>4
    <2>3. \A i \in 1..n : (p \o q)[n + i] = q[i]
      BY <1>1, <1>4
    <2>. QED BY <1>5, <2>1, <2>2, <2>3
  <1>7. \A i \in 1..(n + n) : (i \in 1..n) \/ \E k \in 1..n : i = n + k
    <2>1. \A i \in 1..(n + n) : i \notin 1..n => i - n \in 1..n /\ i = n + (i - n) BY <1>1
    <2>. QED BY <2>1
  <1>8. \A i, j \in 1..(n + n) : D!Keys[i] = D!Keys[j] => i = j
    <2>1. \A i, j \in 1..n : p[i] = p[j] => i = j
      BY <1>2, <1>4
    <2>2. \A i, j \in 1..n : q[i] = q[j] => i = j
      BY <1>2, <1>4
    <2>3. \A i, j \in 1..n : p[i] # q[j]
      BY <1>4
    <2>. SUFFICES ASSUME NEW i \in 1..(n + n), NEW j \in 1..(n + n), D!Keys[i] = D!Keys[j]
                  PROVE  i = j
      OBVIOUS
    <2>4. CASE i \in 1..n /\ j \in 1..n
      BY <1>6, <2>1, <2>4
    <2>5. ASSUME NEW k \in 1..n, i = n + k, j \in 1..n PROVE FALSE
      BY <1>6, <2>3, <2>5
    <2>6. ASSUME NEW k \in 1..n, j = n + k, i \in 1..n PROVE FALSE
      BY <1>6, <2>3, <2>6
    <2>7. ASSUME NEW k \in 1..n, NEW m \in 1..n, i = n + k, j = n + m PROVE i = j
      <3>1. q[k] = q[m] BY <1>6, <2>7
      <3>. QED BY <2>2, <2>7, <3>1
    <2>. QED BY <1>7, <2>4, <2>5, <2>6, <2>7
  <1>9. \A key \in Key : \E i \in 1..n : key = <<"pull", Uris[i]>> \/ key = <<"push", Uris[i]>>
    BY <1>1 DEF Key
  <1>10. \A i \in 1..n : i \in 1..(n + n) /\ n + i \in 1..(n + n)
    BY <1>1
  <1>11. \A key \in Key : \E i \in 1..(n + n) : D!Keys[i] = key
    <2>. SUFFICES ASSUME NEW key \in Key PROVE \E i \in 1..(n + n) : D!Keys[i] = key
      OBVIOUS
    <2>1. PICK i \in 1..n : key = <<"pull", Uris[i]>> \/ key = <<"push", Uris[i]>>
      BY <1>9
    <2>2. D!Keys[i] = p[i] /\ D!Keys[n + i] = q[i] /\ p[i] = <<"pull", Uris[i]>> /\ q[i] = <<"push", Uris[i]>>
      BY <1>4, <1>6
    <2>. QED BY <1>10, <2>1, <2>2
  <1>. QED BY <1>4, <1>5, <1>6, <1>8, <1>11

\* The step of a sorting, as a function.
SortedF(list) ==
    [x \in Seq(Snapshot) \X Key |->
        IF D!Known(list, x[2]) THEN Append(x[1], D!Get(list, x[2])) ELSE x[1]]

\* Sorting is that fold.
LEMMA SortedFolded ==
    ASSUME NEW list \in Seq(Snapshot), Distinct(list)
    PROVE  /\ Folds(Seq(Snapshot), Key, SortedF(list), <<>>, D!Keys)
           /\ D!Sorted(list) = Folded(SortedF(list), <<>>, D!Keys)
  <1>. DEFINE F == SortedF(list)
              T == Seq(Snapshot)
              q == D!Keys
              Step(t, key) == IF D!Known(list, key) THEN Append(t, D!Get(list, key)) ELSE t
  <1>1. \A t \in T, key \in Key : Step(t, key) \in T
    <2>1. \A key : D!Known(list, key) => D!Get(list, key) \in Snapshot
      BY GetFact, RangeFinite
    <2>. QED BY <2>1
  <1>2. Folds(T, Key, F, <<>>, q) /\ \A t \in T, key \in Key : F[<<t, key>>] = Step(t, key)
    <2>1. F = [x \in T \X Key |-> Step(x[1], x[2])] BY DEF SortedF
    <2>. HIDE DEF F, Step
    <2>2. F \in [T \X Key -> T] /\ \A t \in T, key \in Key : F[<<t, key>>] = Step(t, key)
      BY <1>1, <2>1
    <2>3. <<>> \in T OBVIOUS
    <2>. QED BY <2>2, <2>3, KeysFact DEF Folds
  <1>. HIDE DEF F, T
  <1>. DEFINE Rec(it) == [x \in SUBSET (1..Len(q)) |->
                            IF x = {} THEN <<>> ELSE Step(it[x \ {Max(x)}], q[Max(x)])]
              I == CHOOSE it : it = Rec(it)
  <1>3. \E it : it = Rec(it)
    <2>1. PICK it : Recursion(T, Key, F, <<>>, q, it)
      BY <1>2, FoldLeftExists
    <2>. HIDE DEF Step
    <2>2. it = Rec(it)
      BY <1>2, <2>1 DEF Recursion
    <2>. QED BY <2>2
  <1>4. I = Rec(I)
    <2>. HIDE DEF Rec
    <2>. QED BY <1>3
  <1>5. D!Sorted(list) = I[1..Len(q)]
    <2>1. DOMAIN q = 1..Len(q)
      BY KeysFact
    <2>2. \A s : D!Max(s) = Max(s) BY Library
    <2>. QED BY <2>1, <2>2, Zenon DEF D!Sorted, D!FoldLeft, D!MapThenFoldSet
  <1>. HIDE DEF I, Step
  <1>6. Iterates(T, Key, F, <<>>, q, I)
    BY <1>2, <1>4 DEF Iterates
  <1>. QED BY <1>2, <1>5, <1>6, FoldedIter DEF F, T

\* A sorted list has the same snapshots, each once.
LEMMA SortedFact ==
    ASSUME NEW list \in Seq(Snapshot), Distinct(list), NEW r, r = D!Sorted(list)
    PROVE  r \in Seq(Snapshot) /\ Distinct(r) /\ Range(r) = Range(list)
  <1>. DEFINE F == SortedF(list)
              T == Seq(Snapshot)
              q == D!Keys
              h == Partial(F, <<>>, q)
              Has(key, x) == D!Known(list, key) /\ x = D!Get(list, key)
              Good(n) == /\ Distinct(h[n])
                         /\ \A x : x \in Range(h[n]) <=> \E j \in 1..n : Has(q[j], x)
              G == {n \in Nat : n \in 0..Len(q) => Good(n)}
  <1>1. Folds(T, Key, F, <<>>, q) /\ r = Folded(F, <<>>, q)
    BY SortedFolded
  <1>2. q \in Seq(Key) /\ Len(q) \in Nat /\ DOMAIN q = 1..Len(q) /\ \A j \in 1..Len(q) : q[j] \in Key
    BY KeysFact
  <1>3. /\ \A i, j \in 1..Len(q) : q[i] = q[j] => i = j
        /\ \A key \in Key : \E i \in 1..Len(q) : q[i] = key
    BY KeysFact
  <1>4. h[0] = <<>> /\ \A n \in 1..Len(q) : h[n] = F[<<h[n - 1], q[n]>>]
    <2>. HIDE DEF F, T, q
    <2>. QED BY <1>1, PartialFact
  <1>5. \A n \in 0..Len(q) : h[n] \in T
    <2>. HIDE DEF F, T, q
    <2>. QED BY <1>1, PartialType
  <1>6. \A t \in T, key \in Key :
           F[<<t, key>>] = IF D!Known(list, key) THEN Append(t, D!Get(list, key)) ELSE t
    BY DEF SortedF
  <1>7. r = h[Len(q)]
    BY <1>1 DEF Folded
  <1>8. \A key, x : Has(key, x) => x \in Snapshot /\ x \in Range(list) /\ x.key = key
    BY GetFact, RangeFinite
  <1>. HIDE DEF F, q, h, Has
  <1>9. 0 \in G
    <2>1. Range(h[0]) = {} /\ Distinct(h[0]) BY <1>4 DEF Range, Distinct
    <2>. QED BY <2>1
  <1>10. \A n \in Nat : n \in G => n + 1 \in G
    <2>. SUFFICES ASSUME NEW n \in Nat, Good(n), n + 1 \in 0..Len(q)
                  PROVE  Good(n + 1)
      <3>1. \A n \in Nat : n + 1 \in 0..Len(q) => n \in 0..Len(q) BY <1>2
      <3>. HIDE DEF Good
      <3>. QED BY <3>1
    <2>. DEFINE key == q[n + 1]
                x == D!Get(list, key)
    <2>1. n \in 0..Len(q) /\ n + 1 \in 1..Len(q) /\ (n + 1) - 1 = n
      BY <1>2
    <2>2. h[n] \in T /\ key \in Key
      BY <1>2, <1>5, <2>1
    <2>3. h[n + 1] = IF D!Known(list, key) THEN Append(h[n], D!Get(list, key)) ELSE h[n]
      <3>1. h[n + 1] = F[<<h[n], key>>] BY <1>4, <2>1
      <3>. QED BY <1>6, <2>2, <3>1
    <2>4. \A j : j \in 1..(n + 1) <=> j \in 1..n \/ j = n + 1
      BY <2>1
    <2>5. Distinct(h[n]) /\ \A y : y \in Range(h[n]) <=> \E j \in 1..n : Has(q[j], y)
      OBVIOUS
    <2>6. CASE ~D!Known(list, key)
      <3>1. h[n + 1] = h[n] BY <2>3, <2>6
      <3>2. \A y : ~Has(key, y) BY <2>6 DEF Has
      <3>3. \A y : (\E j \in 1..(n + 1) : Has(q[j], y)) <=> \E j \in 1..n : Has(q[j], y)
        BY <2>4, <3>2
      <3>. QED BY <2>5, <3>1, <3>3
    <2>7. CASE D!Known(list, key)
      <3>1. h[n + 1] = Append(h[n], x) BY <2>3, <2>7
      <3>2. Has(key, x) /\ \A y : Has(key, y) => y = x BY <2>7 DEF Has
      <3>3. x \in Snapshot /\ x.key = key BY <1>8, <3>2
      <3>. HIDE DEF x
      <3>4. \A y : (\E j \in 1..(n + 1) : Has(q[j], y)) <=> (\E j \in 1..n : Has(q[j], y)) \/ y = x
        BY <2>4, <3>2
      <3>5. Range(h[n + 1]) = Range(h[n]) \cup {x}
        BY <2>2, <3>1, <3>3, RangeAppend
      <3>6. \A j \in 1..n : j \in 1..Len(q) /\ j # n + 1
        BY <1>2, <2>1
      <3>7. \A y \in Range(h[n]) : y.key # key
        BY <1>3, <1>8, <2>1, <2>5, <3>6
      <3>8. Fresh(h[n], x.key)
        BY <3>3, <3>7 DEF Fresh, Range
      <3>9. Distinct(h[n + 1])
        BY <2>2, <2>5, <3>1, <3>3, <3>8, SizeAppend
      <3>. QED BY <2>5, <3>4, <3>5, <3>9
    <2>. QED BY <2>6, <2>7
  <1>11. Nat \subseteq G
    <2>. HIDE DEF G
    <2>. QED BY <1>9, <1>10, NatSet
  <1>12. Good(Len(q)) /\ Len(q) \in 0..Len(q)
    BY <1>2, <1>11
  <1>13. \A y \in Range(list) : \E j \in 1..Len(q) : Has(q[j], y)
    <2>1. Range(list) \subseteq Snapshot BY RangeFinite
    <2>2. \A y \in Range(list) : y.key \in Key BY <2>1 DEF Snapshot
    <2>3. \A y \in Range(list) : Has(y.key, y) BY GetFact DEF Has
    <2>. QED BY <1>3, <2>2, <2>3
  <1>14. Range(r) = Range(list)
    BY <1>7, <1>8, <1>12, <1>13
  <1>. QED BY <1>5, <1>7, <1>12, <1>14

\* What the cache exports says the same, in another order.
LEMMA ExportedFact ==
    ASSUME Sound(cache), NEW r, r = D!Exported
    PROVE  Sound(r) /\ Held(r) = Held(cache)
  <1>. DEFINE q == cache.entries
              p == D!Sorted(q)
  <1>1. q \in Seq(Snapshot) /\ Distinct(q) /\ cache.total \in Nat /\ cache.total = D!Size(q)
        /\ cache \in Cache
    BY DEF Sound, Exact, Cache
  <1>2. r \in [entries : {p}, total : {cache.total}]
    BY <1>1 DEF D!Exported, Cache
  <1>3. p \in Seq(Snapshot) /\ Distinct(p) /\ Range(p) = Range(q)
    BY <1>1, SortedFact
  <1>. HIDE DEF p, q
  <1>4. Len(p) = Len(q) /\ D!Size(p) = D!Size(q)
    BY <1>1, <1>3, SameSnapshots
  <1>5. r.entries = p /\ r.total = cache.total /\ r \in Cache
    BY <1>1, <1>2, <1>3 DEF Cache
  <1>. QED BY <1>1, <1>3, <1>4, <1>5 DEF Sound, Exact, Within, Held, q

-----------------------------------------------------------------------------
(* Many snapshots at once *)

\* What holds of a cache and is kept by each key that is dropped holds in the end.
LEMMA DroppedAll ==
    ASSUME NEW T, NEW s \in T, \A t \in T, key \in Key : D!Dropped(t, key) \in T
    PROVE  D!FoldLeft(D!Dropped, s, D!PullKeys) \in T
  <1>. DEFINE F == [x \in T \X Key |-> D!Dropped(x[1], x[2])]
              q == D!PullKeys
  <1>1. Folds(T, Key, F, s, q) /\ \A t \in T, key \in Key : F[<<t, key>>] = D!Dropped(t, key)
    <2>1. q \in Seq(Key) BY KeysFact
    <2>2. F \in [T \X Key -> T] /\ \A t \in T, key \in Key : F[<<t, key>>] = D!Dropped(t, key)
      <3>. HIDE DEF q
      <3>. QED OBVIOUS
    <2>. HIDE DEF F, q
    <2>. QED BY <2>1, <2>2 DEF Folds
  <1>. HIDE DEF F
  <1>. DEFINE Rec(it) == [x \in SUBSET (1..Len(q)) |->
                            IF x = {} THEN s ELSE D!Dropped(it[x \ {Max(x)}], q[Max(x)])]
              I == CHOOSE it : it = Rec(it)
  <1>2. \E it : it = Rec(it)
    <2>1. PICK it : Recursion(T, Key, F, s, q, it)
      BY <1>1, FoldLeftExists
    <2>2. it = Rec(it)
      BY <1>1, <2>1 DEF Recursion
    <2>. QED BY <2>2
  <1>3. I = Rec(I)
    <2>. HIDE DEF Rec
    <2>. QED BY <1>2
  <1>4. D!FoldLeft(D!Dropped, s, q) = I[1..Len(q)]
    <2>1. DOMAIN q = 1..Len(q)
      BY KeysFact
    <2>2. \A x : D!Max(x) = Max(x) BY Library
    <2>. QED BY <2>1, <2>2, Zenon DEF D!FoldLeft, D!MapThenFoldSet
  <1>. HIDE DEF I
  <1>5. Iterates(T, Key, F, s, q, I)
    BY <1>1, <1>3 DEF Iterates
  <1>6. Folded(F, s, q) \in T /\ I[1..Len(q)] = Folded(F, s, q)
    BY <1>1, <1>5, FoldedIter, FoldedType
  <1>. QED BY <1>4, <1>6

\* What is kept by each snapshot that is imported.
LEMMA ImportedAll ==
    ASSUME NEW T, NEW s \in T, NEW E, NEW q \in Seq(E), \A t \in T, e \in E : D!Import(t, e) \in T
    PROVE  D!FoldLeft(D!Import, s, q) \in T
  <1>. DEFINE F == [x \in T \X E |-> D!Import(x[1], x[2])]
  <1>1. Folds(T, E, F, s, q) /\ \A t \in T, e \in E : F[<<t, e>>] = D!Import(t, e)
    BY DEF Folds
  <1>. HIDE DEF F
  <1>. DEFINE Rec(it) == [x \in SUBSET (1..Len(q)) |->
                            IF x = {} THEN s ELSE D!Import(it[x \ {Max(x)}], q[Max(x)])]
              I == CHOOSE it : it = Rec(it)
  <1>2. \E it : it = Rec(it)
    <2>1. PICK it : Recursion(T, E, F, s, q, it)
      BY <1>1, FoldLeftExists
    <2>2. it = Rec(it)
      BY <1>1, <2>1 DEF Recursion
    <2>. QED BY <2>2
  <1>3. I = Rec(I)
    <2>. HIDE DEF Rec
    <2>. QED BY <1>2
  <1>4. D!FoldLeft(D!Import, s, q) = I[1..Len(q)]
    <2>1. DOMAIN q = 1..Len(q)
      OBVIOUS
    <2>2. \A x : D!Max(x) = Max(x) BY Library
    <2>. QED BY <2>1, <2>2, Zenon DEF D!FoldLeft, D!MapThenFoldSet
  <1>. HIDE DEF I
  <1>5. Iterates(T, E, F, s, q, I)
    BY <1>1, <1>3 DEF Iterates
  <1>6. Folded(F, s, q) \in T /\ I[1..Len(q)] = Folded(F, s, q)
    BY <1>1, <1>5, FoldedIter, FoldedType
  <1>. QED BY <1>4, <1>6

\* What is kept by each report that is stored.
LEMMA AppliedAll ==
    ASSUME NEW T, NEW s \in T, NEW E, NEW q \in Seq(E),
           \A t \in T, item \in E : D!Store(t, D!Resolved(s.entries, item)) \in T
    PROVE  D!Applied(s, q) \in T
  <1>. DEFINE Step(t, item) == D!Store(t, D!Resolved(s.entries, item))
              F == [x \in T \X E |-> Step(x[1], x[2])]
              fold == D!FoldLeft(LAMBDA acc, item : D!Store(acc, D!Resolved(s.entries, item)), s, q)
  <1>1. Folds(T, E, F, s, q) /\ \A t \in T, e \in E : F[<<t, e>>] = Step(t, e)
    BY DEF Folds
  <1>. HIDE DEF F
  <1>. DEFINE Rec(it) == [x \in SUBSET (1..Len(q)) |->
                            IF x = {} THEN s ELSE Step(it[x \ {Max(x)}], q[Max(x)])]
              I == CHOOSE it : it = Rec(it)
  <1>2. \E it : it = Rec(it)
    <2>1. PICK it : Recursion(T, E, F, s, q, it)
      BY <1>1, FoldLeftExists
    <2>. HIDE DEF Step
    <2>2. it = Rec(it)
      BY <1>1, <2>1 DEF Recursion
    <2>. QED BY <2>2
  <1>3. I = Rec(I)
    <2>. HIDE DEF Rec
    <2>. QED BY <1>2
  <1>4. fold = I[1..Len(q)]
    <2>1. DOMAIN q = 1..Len(q)
      OBVIOUS
    <2>2. \A x : D!Max(x) = Max(x) BY Library
    <2>. QED BY <2>1, <2>2, Zenon DEF D!FoldLeft, D!MapThenFoldSet
  <1>. HIDE DEF I, Step
  <1>5. Iterates(T, E, F, s, q, I)
    BY <1>1, <1>3 DEF Iterates
  <1>6. Folded(F, s, q) \in T /\ I[1..Len(q)] = Folded(F, s, q)
    BY <1>1, <1>5, FoldedIter, FoldedType
  <1>7. fold \in T
    BY <1>4, <1>6
  <1>8. D!Applied(s, q) = fold \/ D!Applied(s, q) = s
    BY DEF D!Applied
  <1>. QED BY <1>7, <1>8

\* A record that is imported says what it said.
LEMMA ImportFact ==
    ASSUME NEW s, Sound(s), NEW e \in Snapshot, NEW r, r = D!Import(s, e)
    PROVE  Sound(r) /\ \A x \in Held(r) : (\E y \in Held(s) : Alike(x, y)) \/ Alike(x, e)
  <1>. DEFINE version == IF e.received # 0 THEN e.received ELSE e.version
              f == [e EXCEPT !.closed = FALSE, !.received = version]
              more == D!Store(s, f)
  <1>1. f \in Snapshot /\ Alike(f, e)
    BY DEF Snapshot, Alike
  <1>2. r = more \/ r = D!Closed(more, e.key[2])
    BY DEF D!Import, D!NoVersion
  <1>. DEFINE uri == e.key[2]
  <1>3. r = more \/ r = D!Closed(more, uri)
    BY <1>2
  <1>4. more = D!Store(s, f)
    OBVIOUS
  <1>. HIDE DEF f, more, uri
  <1>5. Sound(more)
    BY <1>1, <1>4, StoreFact
  <1>6. \A x \in Held(more) : x = f \/ x \in Held(s)
    BY <1>1, <1>4, StoreFact
  <1>7. \A x \in Held(more) : (\E y \in Held(s) : Alike(x, y)) \/ Alike(x, e)
    BY <1>1, <1>6 DEF Alike
  <1>8. CASE r = more
    BY <1>5, <1>7, <1>8
  <1>9. CASE r = D!Closed(more, uri)
    <2>1. Sound(r)
      BY <1>5, <1>9, ClosedFact
    <2>2. \A x \in Held(r) : \E y \in Held(more) : Alike(x, y)
      BY <1>5, <1>9, ClosedFact
    <2>. QED BY <1>7, <2>1, <2>2 DEF Alike
  <1>. QED BY <1>3, <1>8, <1>9

-----------------------------------------------------------------------------
(* What a step leaves as it is *)

\* Documents get more versions, and the server gives new identifiers only.
Evolves ==
    /\ left' \in Left /\ left'.reports <= left.reports
    /\ \A uri \in D!Doc :
        /\ \A v \in DOMAIN history[uri] :
              v \in DOMAIN history'[uri] /\ history'[uri][v] = history[uri][v]
        /\ issued'[uri] = issued[uri] \/ issued'[uri].id = left.reports

\* What the Owner has next it had before, or it is what it was just told.
Remembers ==
    \A x \in Held(cache') :
        \/ \E y \in Held(cache) : Alike(x, y)
        \/ Faithful(x)' /\ (x.key[1] = "pull" => IsLast(x)')

\* What was true of a snapshot stays true as Documents and results evolve.
LEMMA FaithfulKept ==
    ASSUME DTypes, Evolves
    PROVE  \A x \in Snapshot : Faithful(x) => Faithful(x)' /\ (IsLast(x)' => IsLast(x))
  <1>. SUFFICES ASSUME NEW x \in Snapshot, Faithful(x)
                PROVE  Faithful(x)' /\ (IsLast(x)' => IsLast(x))
    OBVIOUS
  <1>. DEFINE uri == x.key[2]
  <1>1. uri \in D!Doc /\ x.id \in Nat
    BY DEF Snapshot, Key
  <1>2. left.reports \in Nat /\ left'.reports \in Nat /\ left'.reports <= left.reports
    BY DEF DTypes, Left, Evolves
  <1>3. Dated(x)'
    BY <1>1 DEF Faithful, Dated, Evolves
  <1>4. ASSUME x.key[1] = "pull" PROVE x.id > left.reports
    BY <1>4 DEF Faithful, Identified
  <1>5. issued'[uri] = issued[uri] \/ issued'[uri].id = left.reports
    BY <1>1 DEF Evolves
  <1>. HIDE DEF uri
  <1>6. IsLast(x)' => IsLast(x) /\ issued'[uri] = issued[uri]
    <2>. SUFFICES ASSUME x.key[1] = "pull", x.id = issued'[uri].id
                  PROVE  x.id = issued[uri].id /\ issued'[uri] = issued[uri]
      BY DEF IsLast, uri
    <2>. QED BY <1>1, <1>2, <1>4, <1>5
  <1>7. Identified(x)'
    <2>1. x.key[1] = "pull" => x.id > left'.reports
      BY <1>1, <1>2, <1>4
    <2>2. IsLast(x)' => x.text = issued'[uri].text
      BY <1>6 DEF Faithful, Identified, uri
    <2>. QED BY <2>1, <2>2 DEF Identified, uri
  <1>. QED BY <1>3, <1>6, <1>7 DEF Faithful

\* What says the same is as true.
LEMMA AlikeFaithful ==
    /\ \A x, y : Alike(x, y) /\ Faithful(y) => Faithful(x)
    /\ \A x, y : Alike(x, y) => (IsLast(x) <=> IsLast(y))
  BY DEF Alike, Faithful, Dated, Identified, IsLast

\* A cache holds typed snapshots, one under a key.
LEMMA HeldType ==
    ASSUME NEW s, Sound(s)
    PROVE  /\ Held(s) \subseteq Snapshot /\ s \in Cache
           /\ \A x, y \in Held(s) : x.key = y.key => x = y
  <1>1. s.entries \in Seq(Snapshot) /\ Distinct(s.entries) /\ s \in Cache
    BY DEF Sound, Exact, Cache
  <1>2. \A x, y \in Range(s.entries) : x.key = y.key => x = y
    BY DEF Range, Distinct, Sound, Exact
  <1>. QED BY <1>1, <1>2, RangeFinite DEF Held

\* The cache of the Owner.
LEMMA OwnerKept ==
    ASSUME DInv, Evolves, Remembers, Sound(cache')
    PROVE  CacheInv'
  <1>1. \A y \in Held(cache) : Faithful(y)'
    BY FaithfulKept, HeldType DEF DInv, CacheInv, Honest
  <1>2. \A x, y : Alike(x, y) /\ Faithful(y)' => Faithful(x)'
    BY AlikeFaithful DEF Alike, Faithful, Dated, Identified, IsLast
  <1>3. \A x \in Held(cache') : Faithful(x)'
    BY <1>1, <1>2 DEF Remembers
  <1>. QED BY <1>3 DEF CacheInv, Honest

\* The copy of a client that does not change.
LEMMA ClientKept ==
    ASSUME DInv, Evolves, Remembers, NEW client \in Clients, copy'[client] = copy[client]
    PROVE  CopyOk(client)'
  <1>. DEFINE mine == copy[client]
              s == mine.cache
  <1>1. CopyOk(client)
    BY DEF DInv, CopyInv
  <1>2. /\ Sound(s) /\ Honest(s) /\ Follows(s, cache)
        /\ mine # D!EmptyCopy => mine.uri \in D!Doc /\ mine.version \in DOMAIN history[mine.uri]
    BY <1>1 DEF CopyOk
  <1>. HIDE DEF s
  <1>3. \A x \in Held(s) : Faithful(x) /\ Faithful(x)' /\ (IsLast(x)' => IsLast(x))
    BY <1>2, FaithfulKept, HeldType DEF DInv, Honest
  <1>4. ASSUME NEW x \in Held(s), NEW other \in Held(cache'), IsLast(x)', other.key = x.key
        PROVE  other.id = x.id
    <2>1. CASE \E y \in Held(cache) : Alike(other, y)
      <3>1. PICK y \in Held(cache) : Alike(other, y) BY <2>1
      <3>2. y.key = x.key /\ IsLast(x) BY <1>3, <1>4, <3>1 DEF Alike
      <3>3. y.id = x.id BY <1>2, <3>2 DEF Follows
      <3>. QED BY <3>1, <3>3 DEF Alike
    <2>2. CASE other.key[1] = "pull" => IsLast(other)'
      BY <1>4, <2>2 DEF IsLast
    <2>. QED BY <2>1, <2>2 DEF Remembers
  <1>5. mine # D!EmptyCopy => mine.uri \in D!Doc /\ mine.version \in DOMAIN history'[mine.uri]
    BY <1>2 DEF Evolves
  <1>. HIDE DEF mine
  <1>6. copy'[client] = mine /\ mine.cache = s
    BY DEF mine, s
  <1>7. (D!EmptyCopy)' = D!EmptyCopy
    BY DEF D!EmptyCopy, D!EmptyCache
  <1>. QED BY <1>2, <1>3, <1>4, <1>5, <1>6, <1>7 DEF CopyOk, Honest, Follows

\* The report under way.
LEMMA AskingKept ==
    ASSUME DInv, asking' = asking, issued' = issued, left' \in Left, left'.reports = left.reports,
           asking # D!NotAsking => copy'[asking.client] = copy[asking.client]
    PROVE  AskingInv'
  BY DEF DInv, AskingInv, Latest, D!NotAsking, D!EmptyCopy, D!EmptyCache, Held, D!PullKey

-----------------------------------------------------------------------------
(* Every step keeps the promises of the cache *)

\* What a step takes from the budget.
LEMMA SpendFact ==
    ASSUME left \in Left,
           NEW what \in {"versions", "closings", "publications", "copies", "reports"}, D!Spend(what)
    PROVE  /\ left' \in Left
           /\ what # "reports" => left'.reports = left.reports
           /\ what = "reports" => left.reports > 0 /\ left'.reports = left.reports - 1
  <1>1. left[what] \in Nat /\ left[what] > 0 /\ left[what] - 1 \in Nat
    BY DEF Left, D!Spend
  <1>2. left' = [left EXCEPT ![what] = left[what] - 1]
    BY DEF D!Spend
  <1>3. left' \in Left
    BY <1>1, <1>2 DEF Left
  <1>4. left'.reports = IF what = "reports" THEN left[what] - 1 ELSE left.reports
    BY <1>2 DEF Left
  <1>. QED BY <1>1, <1>3, <1>4

\* A step of the Owner alone.
LEMMA OwnerStep ==
    ASSUME DInv, UNCHANGED <<issued, copy, asking, told>>,
           left' \in Left, left'.reports = left.reports,
           history' \in [D!Doc -> Seq(Texts)], open' \subseteq D!Doc,
           \A uri \in D!Doc : /\ history'[uri] # <<>>
                              /\ \A v \in DOMAIN history[uri] :
                                    v \in DOMAIN history'[uri] /\ history'[uri][v] = history[uri][v],
           Remembers, Sound(cache')
    PROVE  DInv'
  <1>1. Evolves
    BY DEF Evolves, DInv, DTypes, Left
  <1>2. DTypes'
    BY DEF DInv, DTypes, D!NotAsking
  <1>3. CacheInv'
    BY <1>1, OwnerKept
  <1>4. CopyInv'
    BY <1>1, ClientKept DEF CopyInv
  <1>5. AskingInv'
    BY AskingKept
  <1>6. ToldInv'
    BY DEF DInv, ToldInv
  <1>. QED BY <1>2, <1>3, <1>4, <1>5, <1>6 DEF DInv

\* A cache that stays as it is.
LEMMA RemembersSame == cache' = cache => Remembers
  BY DEF Remembers, Alike

\* A Document changes.
LEMMA ChangeStep ==
    ASSUME DInv, NEW uri \in D!Doc, NEW text \in Texts, D!Change(uri, text)
    PROVE  DInv'
  <1>1. UNCHANGED <<cache, issued, copy, asking, told>> /\ D!Spend("versions")
    BY DEF D!Change
  <1>2. left' \in Left /\ left'.reports = left.reports
    BY <1>1, SpendFact DEF DInv, DTypes
  <1>3. history \in [D!Doc -> Seq(Texts)] /\ open \subseteq D!Doc /\ \A u \in D!Doc : history[u] # <<>>
    BY DEF DInv, DTypes
  <1>4. history' = [history EXCEPT ![uri] = Append(history[uri], text)] /\ open' \subseteq D!Doc
    BY <1>3 DEF D!Change
  <1>5. history' \in [D!Doc -> Seq(Texts)]
    BY <1>3, <1>4
  <1>6. ASSUME NEW u \in D!Doc
        PROVE  /\ history'[u] # <<>>
               /\ \A v \in DOMAIN history[u] : v \in DOMAIN history'[u] /\ history'[u][v] = history[u][v]
    <2>. DEFINE q == history[u]
    <2>1. q \in Seq(Texts) /\ q # <<>> BY <1>3
    <2>2. history'[u] = q \/ history'[u] = Append(q, text) BY <1>3, <1>4
    <2>. HIDE DEF q
    <2>3. /\ Append(q, text) # <<>>
          /\ \A v \in DOMAIN q : v \in DOMAIN Append(q, text) /\ Append(q, text)[v] = q[v]
      BY <2>1
    <2>. QED BY <2>1, <2>2, <2>3 DEF q
  <1>7. Remembers /\ Sound(cache')
    BY <1>1, RemembersSame DEF DInv, CacheInv
  <1>. QED BY <1>1, <1>2, <1>4, <1>5, <1>6, <1>7, OwnerStep

\* A step that leaves the Documents as they are.
LEMMA CacheStep ==
    ASSUME DInv, UNCHANGED <<history, issued, copy, asking, told>>, open' \subseteq open,
           left' \in Left, left'.reports = left.reports, Remembers, Sound(cache')
    PROVE  DInv'
  BY OwnerStep DEF DInv, DTypes

\* A Document is closed: its snapshots say what they said.
LEMMA CloseStep ==
    ASSUME DInv, NEW uri \in D!Doc, D!Close(uri)
    PROVE  DInv'
  <1>1. /\ UNCHANGED <<history, issued, copy, asking, told>> /\ D!Spend("closings")
        /\ open' \subseteq open /\ cache' = D!Closed(cache, uri)
    BY DEF D!Close
  <1>2. left' \in Left /\ left'.reports = left.reports
    BY <1>1, SpendFact DEF DInv, DTypes
  <1>3. Sound(cache) BY DEF DInv, CacheInv
  <1>4. Sound(cache') BY <1>1, <1>3, ClosedFact
  <1>5. \A x \in Held(cache') : \E y \in Held(cache) : Alike(x, y) BY <1>1, <1>3, ClosedFact
  <1>6. Remembers BY <1>5 DEF Remembers
  <1>. QED BY <1>1, <1>2, <1>4, <1>6, CacheStep

\* The server publishes: for a version it had, or for none.
LEMMA PublishStep ==
    ASSUME DInv, NEW uri \in D!Doc, NEW version \in DOMAIN history[uri], NEW tagged \in BOOLEAN,
           D!Publish(uri, version, tagged)
    PROVE  DInv'
  <1>. DEFINE t == history[uri][version]
              v == IF tagged THEN version ELSE 0
              c == D!Current(uri)
              k == D!PushKey(uri)
  <1>1. PICK f : f = [D!Entry(k, t) EXCEPT !.version = v, !.received = c]
    OBVIOUS
  <1>2. /\ UNCHANGED <<history, open, issued, copy, asking, told>> /\ D!Spend("publications")
        /\ cache' = D!Store(cache, f)
    BY <1>1 DEF D!Publish, D!NoVersion
  <1>3. left' \in Left /\ left'.reports = left.reports
    BY <1>2, SpendFact DEF DInv, DTypes
  <1>4. history[uri] \in Seq(Texts) BY DEF DInv, DTypes
  <1>5. version \in Nat /\ t \in Texts /\ Len(history[uri]) \in Nat BY <1>4
  <1>6. c \in Nat /\ v \in Nat /\ k = <<"push", uri>> BY <1>5 DEF D!Current, D!NoVersion, D!PushKey
  <1>7. f \in Snapshot /\ f.key[1] = "push" /\ f.key[2] = uri /\ f.version = v /\ f.text = t
    <2>1. k \in Key /\ k[1] = "push" /\ k[2] = uri BY <1>6 DEF Key
    <2>. HIDE DEF t, c, v, k
    <2>2. f.key = k /\ f.text = t /\ f.version = v BY <1>1 DEF D!Entry
    <2>3. f \in Snapshot BY <1>1, <1>5, <1>6, <2>1 DEF Snapshot, D!Entry, D!NoVersion
    <2>. QED BY <2>1, <2>2, <2>3
  <1>8. Faithful(f)'
    <2>1. history'[uri][version] = t /\ version \in DOMAIN history'[uri] BY <1>2
    <2>2. Dated(f)' BY <1>7, <2>1 DEF Dated
    <2>3. Identified(f)' BY <1>7 DEF Identified, IsLast
    <2>. QED BY <2>2, <2>3 DEF Faithful
  <1>9. Sound(cache) BY DEF DInv, CacheInv
  <1>10. Sound(cache') BY <1>2, <1>7, <1>9, StoreFact
  <1>11. \A x \in Held(cache') : x = f \/ x \in Held(cache) BY <1>2, <1>7, <1>9, StoreFact
  <1>12. Remembers
    <2>1. \A x : Alike(x, x) BY DEF Alike
    <2>2. \A x : x = f => Faithful(x)' BY <1>8
    <2>. QED BY <1>7, <1>11, <2>1, <2>2 DEF Remembers
  <1>. QED BY <1>2, <1>3, <1>10, <1>12, CacheStep

\* A refresh only forgets.
LEMMA InvalidateStep ==
    ASSUME DInv, D!Invalidate
    PROVE  DInv'
  <1>1. /\ UNCHANGED <<left, history, open, issued, copy, asking, told>>
        /\ cache' = D!FoldLeft(D!Dropped, cache, D!PullKeys)
    BY DEF D!Invalidate
  <1>. DEFINE T == {t \in Cache : Sound(t) /\ Held(t) \subseteq Held(cache)}
  <1>2. cache \in T BY HeldType DEF DInv, CacheInv
  <1>3. \A t \in T, key \in Key : D!Dropped(t, key) \in T
    <2>. SUFFICES ASSUME NEW t \in T, NEW key \in Key, NEW r, r = D!Dropped(t, key)
                  PROVE  r \in T
      OBVIOUS
    <2>1. Exact(t) /\ Within(t) BY DEF Sound
    <2>2. Exact(r) /\ Within(r) BY <2>1, DroppedFact
    <2>3. \A x \in Held(r) : x \in Held(t) BY <2>1, DroppedFact
    <2>. QED BY <2>2, <2>3, HeldType DEF Sound
  <1>4. cache' \in T
    <2>. HIDE DEF T
    <2>. QED BY <1>1, <1>2, <1>3, DroppedAll
  <1>5. Remembers BY <1>4 DEF Remembers, Alike
  <1>6. left \in Left BY DEF DInv, DTypes
  <1>. QED BY <1>1, <1>4, <1>5, <1>6, CacheStep

\* What is imported is alike what the Owner has, the rest is as it was.
LEMMA ImportedFact ==
    ASSUME Sound(cache), NEW onto, Sound(onto), NEW r, r = D!Imported(onto)
    PROVE  /\ Sound(r)
           /\ \A x \in Held(r) : (\E y \in Held(onto) : Alike(x, y)) \/ \E y \in Held(cache) : Alike(x, y)
  <1>. DEFINE Told(x) == (\E y \in Held(onto) : Alike(x, y)) \/ \E y \in Held(cache) : Alike(x, y)
              T == {t \in Cache : Sound(t) /\ \A x \in Held(t) : Told(x)}
              E == Held(cache)
  <1>1. PICK out : out = D!Exported OBVIOUS
  <1>2. Sound(out) /\ Held(out) = E BY <1>1, ExportedFact
  <1>3. r = D!FoldLeft(D!Import, onto, out.entries) BY <1>1 DEF D!Imported
  <1>4. out.entries \in Seq(E)
    <2>1. out.entries \in Seq(Snapshot) BY <1>2 DEF Sound, Exact, Cache
    <2>2. Range(out.entries) = E BY <1>2 DEF Held
    <2>. HIDE DEF E
    <2>3. \A i \in 1..Len(out.entries) : out.entries[i] \in E BY <2>1, <2>2 DEF Range
    <2>. QED BY <2>1, <2>3
  <1>5. \A x : Alike(x, x) BY DEF Alike
  <1>6. onto \in T BY <1>5, HeldType
  <1>7. \A t \in T, e \in E : D!Import(t, e) \in T
    <2>. SUFFICES ASSUME NEW t \in T, NEW e \in E, NEW s, s = D!Import(t, e)
                  PROVE  s \in T
      OBVIOUS
    <2>1. e \in Snapshot /\ Told(e) BY <1>5, HeldType
    <2>2. Sound(s) BY <2>1, ImportFact
    <2>3. \A x \in Held(s) : (\E y \in Held(t) : Alike(x, y)) \/ Alike(x, e) BY <2>1, ImportFact
    <2>4. \A x, y : Alike(x, y) /\ Told(y) => Told(x) BY DEF Alike
    <2>. HIDE DEF Told
    <2>5. \A x \in Held(s) : Told(x) BY <2>1, <2>3, <2>4
    <2>. QED BY <2>2, <2>5, HeldType
  <1>8. r \in T
    <2>. HIDE DEF T, E
    <2>1. PICK q : q = out.entries OBVIOUS
    <2>2. q \in Seq(E) BY <1>4, <2>1
    <2>3. D!FoldLeft(D!Import, onto, q) \in T BY <1>6, <1>7, <2>2, ImportedAll
    <2>. QED BY <1>3, <2>1, <2>3
  <1>. QED BY <1>8

\* A copy is as true as what it is made from.
LEMMA CopiedFact ==
    ASSUME DInv, UNCHANGED <<history, issued>>, left' \in Left, left'.reports = left.reports,
           Held(cache') = Held(cache),
           NEW onto, Sound(onto), Honest(onto), Follows(onto, cache), NEW r, r = D!Imported(onto)
    PROVE  /\ Sound(r) /\ \A x \in Held(r) : Faithful(x)'
           /\ \A x \in Held(r), other \in Held(cache') :
                IsLast(x)' /\ other.key = x.key => other.id = x.id
  <1>1. Sound(cache) /\ Honest(cache) BY DEF DInv, CacheInv
  <1>2. Sound(r) BY <1>1, ImportedFact
  <1>3. \A x \in Held(r) : (\E y \in Held(onto) : Alike(x, y)) \/ \E y \in Held(cache) : Alike(x, y)
    BY <1>1, ImportedFact
  <1>4. Evolves BY DEF Evolves, DInv, DTypes, Left
  <1>5. \A x \in Held(r) : Faithful(x) BY <1>1, <1>3, AlikeFaithful DEF Honest
  <1>6. \A x \in Held(r) : Faithful(x)' /\ (IsLast(x)' => IsLast(x))
    BY <1>2, <1>4, <1>5, HeldType, FaithfulKept DEF DInv
  <1>7. ASSUME NEW x \in Held(r), NEW other \in Held(cache), IsLast(x), other.key = x.key
        PROVE  other.id = x.id
    <2>1. CASE \E y \in Held(onto) : Alike(x, y)
      <3>1. PICK y \in Held(onto) : Alike(x, y) BY <2>1
      <3>2. IsLast(y) /\ other.key = y.key BY <1>7, <3>1, AlikeFaithful DEF Alike
      <3>. QED BY <3>1, <3>2 DEF Follows, Alike
    <2>2. CASE \E y \in Held(cache) : Alike(x, y)
      <3>1. PICK y \in Held(cache) : Alike(x, y) BY <2>2
      <3>2. y = other BY <1>1, <1>7, <3>1, HeldType DEF Alike
      <3>. QED BY <3>1, <3>2 DEF Alike
    <2>. QED BY <1>3, <2>1, <2>2
  <1>. QED BY <1>2, <1>6, <1>7

\* A step of one client, which does not wait for a report any more.
LEMMA ClientStep ==
    ASSUME DInv, UNCHANGED <<history, open, issued>>, left' \in Left, left'.reports = left.reports,
           Remembers, Sound(cache'), NEW client \in Clients,
           \/ asking' = asking /\ (asking # D!NotAsking => asking.client # client)
           \/ asking' = D!NotAsking,
           NEW mine, copy' = [copy EXCEPT ![client] = mine],
           mine \in [cache : Cache, uri : D!Doc \cup {NoClient}, version : Nat],
           CopyOk(client)', ToldInv'
    PROVE  DInv'
  <1>1. Evolves
    BY DEF Evolves, DInv, DTypes, Left
  <1>2. copy \in [Clients -> [cache : Cache, uri : D!Doc \cup {NoClient}, version : Nat]]
    BY DEF DInv, DTypes
  <1>3. DTypes'
    BY <1>2 DEF DInv, DTypes, D!NotAsking
  <1>4. \A c \in Clients : c # client => copy'[c] = copy[c]
    BY <1>2
  <1>5. CopyInv'
    BY <1>1, <1>4, ClientKept DEF CopyInv
  <1>6. asking # D!NotAsking => asking.client \in Clients
    BY DEF DInv, DTypes
  <1>7. AskingInv'
    <2>1. CASE asking' = asking /\ (asking # D!NotAsking => asking.client # client)
      BY <1>4, <1>6, <2>1, AskingKept
    <2>2. CASE asking' = D!NotAsking
      BY <2>2 DEF AskingInv, D!NotAsking
    <2>. QED BY <2>1, <2>2
  <1>. QED BY <1>1, <1>3, <1>5, <1>7, OwnerKept DEF DInv

\* An empty copy.
LEMMA EmptyFact ==
    /\ D!EmptyCopy = [cache |-> D!EmptyCache, uri |-> NoClient, version |-> 0]
    /\ D!EmptyCopy \in [cache : Cache, uri : D!Doc \cup {NoClient}, version : Nat]
    /\ Sound(D!EmptyCache) /\ Held(D!EmptyCache) = {} /\ D!EmptyCopy.cache = D!EmptyCache
  <1>1. D!EmptyCache.entries = <<>> /\ D!EmptyCache.total = 0 /\ D!EmptyCache \in Cache
    BY DEF D!EmptyCache, Cache
  <1>2. Range(<<>>) = {} /\ Distinct(<<>>) /\ Len(<<>>) = 0 BY DEF Range, Distinct
  <1>3. Sound(D!EmptyCache) /\ Held(D!EmptyCache) = {}
    BY <1>1, <1>2, SizeOfNone, SceneAssumption DEF Sound, Exact, Within, Held
  <1>4. D!EmptyCopy = [cache |-> D!EmptyCache, uri |-> NoClient, version |-> 0]
    BY DEF D!EmptyCopy, D!NoVersion
  <1>. QED BY <1>1, <1>3, <1>4

\* A client without a copy.
LEMMA EmptyOk ==
    ASSUME NEW client \in Clients, copy'[client] = D!EmptyCopy
    PROVE  CopyOk(client)'
  <1>1. PICK r : r = D!EmptyCopy OBVIOUS
  <1>2. Sound(r.cache) /\ Held(r.cache) = {} BY <1>1, EmptyFact
  <1>3. copy'[client] = r /\ (D!EmptyCopy)' = r BY <1>1 DEF D!EmptyCopy, D!EmptyCache
  <1>. QED BY <1>2, <1>3 DEF CopyOk, Honest, Follows

\* A client copies the cache.
LEMMA CopyStateStep ==
    ASSUME DInv, NEW client \in Clients, NEW uri \in D!Doc, D!CopyState(client, uri)
    PROVE  DInv'
  <1>1. /\ copy[client] = D!EmptyCopy /\ uri \in open /\ D!Spend("copies") /\ cache' = D!Exported
        /\ UNCHANGED <<history, open, issued, asking, told>>
    BY DEF D!CopyState
  <1>2. PICK r : r = D!Imported(D!EmptyCache) OBVIOUS
  <1>3. PICK version : version = D!Current(uri) OBVIOUS
  <1>4. PICK mine : mine = [cache |-> r, uri |-> uri, version |-> version] OBVIOUS
  <1>5. copy' = [copy EXCEPT ![client] = mine]
    BY <1>2, <1>3, <1>4 DEF D!CopyState
  <1>6. left' \in Left /\ left'.reports = left.reports
    BY <1>1, SpendFact DEF DInv, DTypes
  <1>7. Sound(cache) BY DEF DInv, CacheInv
  <1>8. Sound(cache') /\ Held(cache') = Held(cache) BY <1>1, <1>7, ExportedFact
  <1>9. Honest(D!EmptyCache) /\ Follows(D!EmptyCache, cache) BY EmptyFact DEF Honest, Follows
  <1>10. Sound(r) /\ \A x \in Held(r) : Faithful(x)'
    BY <1>1, <1>2, <1>6, <1>8, <1>9, EmptyFact, CopiedFact
  <1>11. \A x \in Held(r), other \in Held(cache') : IsLast(x)' /\ other.key = x.key => other.id = x.id
    BY <1>1, <1>2, <1>6, <1>8, <1>9, EmptyFact, CopiedFact
  <1>12. version \in DOMAIN history[uri] /\ version \in Nat
    <2>1. history[uri] \in Seq(Texts) /\ history[uri] # <<>> BY DEF DInv, DTypes
    <2>2. version = Len(history[uri]) BY <1>1, <1>3 DEF D!Current
    <2>. QED BY <2>1, <2>2
  <1>13. mine \in [cache : Cache, uri : D!Doc \cup {NoClient}, version : Nat]
    BY <1>4, <1>10, <1>12, HeldType
  <1>14. copy'[client] = mine BY <1>5 DEF DInv, DTypes
  <1>15. CopyOk(client)'
    BY <1>1, <1>4, <1>10, <1>11, <1>12, <1>14 DEF CopyOk, Honest, Follows
  <1>16. Remembers
    <2>1. \A x : Alike(x, x) BY DEF Alike
    <2>. QED BY <1>8, <2>1 DEF Remembers
  <1>17. ToldInv' BY <1>1 DEF DInv, ToldInv
  <1>18. asking # D!NotAsking => asking.client # client BY <1>1 DEF DInv, AskingInv
  <1>. QED BY <1>1, <1>5, <1>6, <1>8, <1>13, <1>15, <1>16, <1>17, <1>18, ClientStep

\* It copies the cache again, over what it has.
LEMMA PollStateStep ==
    ASSUME DInv, NEW client \in Clients, D!PollState(client)
    PROVE  DInv'
  <1>1. /\ copy[client] # D!EmptyCopy /\ asking.client # client /\ D!Spend("copies") /\ cache' = D!Exported
        /\ UNCHANGED <<history, open, issued, asking, told>>
    BY DEF D!PollState
  <1>2. PICK old : old = copy[client] OBVIOUS
  <1>3. PICK s : s = D!Touched(old.cache, D!PushKey(old.uri)) OBVIOUS
  <1>4. PICK r : r = D!Imported(s) OBVIOUS
  <1>5. PICK mine : mine = [old EXCEPT !.cache = r] OBVIOUS
  <1>6. copy' = [copy EXCEPT ![client] = mine]
    BY <1>3, <1>2, <1>4, <1>5 DEF D!PollState
  <1>7. left' \in Left /\ left'.reports = left.reports
    BY <1>1, SpendFact DEF DInv, DTypes
  <1>8. Sound(cache) BY DEF DInv, CacheInv
  <1>9. Sound(cache') /\ Held(cache') = Held(cache) BY <1>1, <1>8, ExportedFact
  <1>10. /\ Sound(old.cache) /\ Honest(old.cache) /\ Follows(old.cache, cache)
        /\ old.uri \in D!Doc /\ old.version \in DOMAIN history[old.uri]
    BY <1>1, <1>2 DEF DInv, CopyInv, CopyOk
  <1>11. Sound(s) /\ Honest(s) /\ Follows(s, cache)
    <2>1. PICK key : key = D!PushKey(old.uri) OBVIOUS
    <2>2. PICK m : m = old.cache OBVIOUS
    <2>3. Sound(m) /\ s = D!Touched(m, key) BY <1>3, <1>10, <2>1, <2>2
    <2>4. Sound(s) /\ Held(s) \subseteq Held(m) BY <2>3, TouchedFact
    <2>. QED BY <1>10, <2>2, <2>4 DEF Honest, Follows
  <1>12. Sound(r) /\ \A x \in Held(r) : Faithful(x)'
    BY <1>1, <1>4, <1>7, <1>9, <1>11, CopiedFact
  <1>13. \A x \in Held(r), other \in Held(cache') : IsLast(x)' /\ other.key = x.key => other.id = x.id
    BY <1>1, <1>4, <1>7, <1>9, <1>11, CopiedFact
  <1>14. old \in [cache : Cache, uri : D!Doc \cup {NoClient}, version : Nat]
    BY <1>2 DEF DInv, DTypes
  <1>15. mine \in [cache : Cache, uri : D!Doc \cup {NoClient}, version : Nat]
         /\ mine.cache = r /\ mine.uri = old.uri /\ mine.version = old.version
    BY <1>5, <1>12, <1>14, HeldType
  <1>16. copy'[client] = mine BY <1>6 DEF DInv, DTypes
  <1>17. CopyOk(client)'
    BY <1>1, <1>10, <1>12, <1>13, <1>15, <1>16 DEF CopyOk, Honest, Follows
  <1>18. Remembers
    <2>1. \A x : Alike(x, x) BY DEF Alike
    <2>. QED BY <1>9, <2>1 DEF Remembers
  <1>19. ToldInv' BY <1>1 DEF DInv, ToldInv
  <1>. QED BY <1>1, <1>6, <1>7, <1>9, <1>15, <1>17, <1>18, <1>19, ClientStep

\* It reads what was published for its version.
LEMMA ReadPublishedStep ==
    ASSUME DInv, NEW client \in Clients, D!ReadPublished(client)
    PROVE  DInv'
  <1>. DEFINE mine == copy[client]
              q == mine.cache.entries
              key == D!PushKey(mine.uri)
              found == D!Published(client)
  <1>1. /\ mine # D!EmptyCopy /\ asking.client # client
        /\ UNCHANGED <<left, history, open, cache, issued, asking>>
        /\ copy' = [copy EXCEPT ![client] = D!EmptyCopy]
    BY DEF D!ReadPublished
  <1>2. told' = IF D!Exact(client)
                THEN [fresh |-> TRUE, text |-> found.text, current |-> history[mine.uri][mine.version]]
                ELSE D!NotTold
    BY DEF D!ReadPublished
  <1>3. /\ Sound(mine.cache) /\ Honest(mine.cache)
        /\ mine.uri \in D!Doc /\ mine.version \in DOMAIN history[mine.uri]
    BY <1>1 DEF DInv, CopyInv, CopyOk
  <1>4. ASSUME D!Exact(client) PROVE found.text = history[mine.uri][mine.version]
    <2>1. found.text # NoText /\ found.version = mine.version
      BY <1>4 DEF D!Exact
    <2>2. D!Known(q, key)
      <3>1. D!Entry(key, NoText).text = NoText BY DEF D!Entry
      <3>. QED BY <2>1, <3>1 DEF D!Published
    <2>3. found = D!Get(q, key) BY <2>2 DEF D!Published
    <2>4. q \in Seq(Snapshot) /\ Distinct(q) BY <1>3 DEF Sound, Exact, Cache
    <2>5. found \in Range(q) /\ found.key = key
      <3>. HIDE DEF q, key, found
      <3>. QED BY <2>2, <2>3, <2>4, GetFact
    <2>6. Dated(found) BY <1>3, <2>5 DEF Honest, Held, Faithful
    <2>7. history[mine.uri] \in Seq(Texts) BY <1>3 DEF DInv, DTypes
    <2>8. mine.version # 0 BY <1>3, <2>7
    <2>. QED BY <2>1, <2>5, <2>6, <2>8 DEF Dated, D!PushKey
  <1>5. ToldInv'
    <2>. HIDE DEF found, mine
    <2>. QED BY <1>2, <1>4 DEF ToldInv, D!NotTold
  <1>6. copy'[client] = D!EmptyCopy BY <1>1 DEF DInv, DTypes
  <1>7. PICK r : r = D!EmptyCopy OBVIOUS
  <1>8. CopyOk(client)' BY <1>6, EmptyOk
  <1>9. left \in Left /\ Sound(cache) BY DEF DInv, DTypes, CacheInv
  <1>10. asking # D!NotAsking => asking.client # client BY <1>1
  <1>. HIDE DEF mine
  <1>. QED BY <1>1, <1>5, <1>7, <1>8, <1>9, <1>10, EmptyFact, RemembersSame, ClientStep

\* What is asked about a Document, and what the server answers.
LEMMA ItemFact ==
    ASSUME DInv, NEW client \in Clients, NEW uri \in D!Doc,
           NEW item, item = D!Item(uri, D!PreviousId(client, uri), left.reports)
    PROVE  /\ item \in Report /\ item.uri = uri /\ item.kind \in {"full", "unchanged"}
           /\ item.kind = "full" => item.id = left.reports /\ item.text = D!Text(uri)
           /\ item.kind = "unchanged" =>
                /\ issued[uri].id = item.id /\ issued[uri].text = D!Text(uri) /\ item.id > left.reports
                /\ \E mine \in Held(copy[client].cache) : mine.key = D!PullKey(uri) /\ mine.id = item.id
           /\ D!Text(uri) \in Texts
  <1>. DEFINE s == copy[client].cache
              q == s.entries
              key == D!PullKey(uri)
              previous == D!PreviousId(client, uri)
              text == D!Text(uri)
  <1>1. text \in Texts
    <2>1. history[uri] \in Seq(Texts) /\ history[uri] # <<>> BY DEF DInv, DTypes
    <2>. QED BY <2>1 DEF D!Text, D!Last
  <1>2. left.reports \in Nat /\ issued[uri] \in [id : Nat, text : Texts \cup {NoText}]
    BY DEF DInv, DTypes, Left
  <1>3. Sound(s) /\ Honest(s) BY DEF DInv, CopyInv, CopyOk
  <1>4. previous # 0 => D!Known(q, key) /\ previous = D!Get(q, key).id
    BY DEF D!PreviousId
  <1>5. previous # 0 => \E mine \in Held(s) : mine.key = key /\ mine.id = previous
    <2>1. q \in Seq(Snapshot) /\ Distinct(q) BY <1>3 DEF Sound, Exact, Cache
    <2>2. D!Known(q, key) => D!Get(q, key) \in Range(q) /\ D!Get(q, key).key = key
      <3>. HIDE DEF q, key
      <3>. QED BY <2>1, GetFact
    <2>. QED BY <1>4, <2>2 DEF Held
  <1>6. previous # 0 => previous \in Nat /\ previous > left.reports
    <2>1. \A mine \in Held(s) : mine.key = key => mine.id \in Nat /\ mine.id > left.reports
      <3>1. \A mine \in Held(s) : mine \in Snapshot /\ Identified(mine)
        BY <1>3, HeldType DEF Honest, Faithful
      <3>2. key[1] = "pull" BY DEF D!PullKey
      <3>. QED BY <3>1, <3>2 DEF Identified, Snapshot
    <2>. HIDE DEF previous, s, key
    <2>. QED BY <1>5, <2>1
  <1>7. item = IF previous # 0 /\ issued[uri] = [id |-> previous, text |-> text]
               THEN [uri |-> uri, id |-> previous, kind |-> "unchanged", text |-> NoText]
               ELSE [uri |-> uri, id |-> left.reports, kind |-> "full", text |-> text]
    BY DEF D!Item
  <1>. HIDE DEF previous, text, s, key
  <1>8. CASE previous # 0 /\ issued[uri] = [id |-> previous, text |-> text]
    <2>1. item = [uri |-> uri, id |-> previous, kind |-> "unchanged", text |-> NoText]
      BY <1>7, <1>8
    <2>2. item \in Report BY <1>6, <1>8, <2>1 DEF Report
    <2>. QED BY <1>1, <1>5, <1>6, <1>8, <2>1, <2>2 DEF text, s, key
  <1>9. CASE ~(previous # 0 /\ issued[uri] = [id |-> previous, text |-> text])
    <2>1. item = [uri |-> uri, id |-> left.reports, kind |-> "full", text |-> text]
      BY <1>7, <1>9
    <2>2. item \in Report BY <1>1, <1>2, <2>1 DEF Report
    <2>. QED BY <1>1, <2>1, <2>2 DEF text
  <1>. QED BY <1>8, <1>9

\* It asks for a report: the server answers with its last result, under a new identifier or
\* under the one the client has.
LEMMA AskReportStep ==
    ASSUME DInv, NEW client \in Clients, NEW uris \in Seq(D!Doc), NEW whole \in BOOLEAN,
           NEW k \in 1..Len(uris), uris[k] = copy[client].uri, D!Ask(client, uris, whole)
    PROVE  DInv'
  <1>. DEFINE R == left.reports
              mine == copy[client]
              TheItem(uri) == D!Item(uri, D!PreviousId(client, uri), R)
  <1>1. PICK report : report = [i \in DOMAIN uris |-> TheItem(uris[i])] OBVIOUS
  <1>2. /\ mine # D!EmptyCopy /\ D!Spend("reports")
        /\ UNCHANGED <<history, open, cache, copy, told>>
        /\ issued' = [uri \in D!Doc |->
                IF \E i \in DOMAIN report : report[i].uri = uri /\ report[i].kind = "full"
                THEN [id |-> R, text |-> D!Text(uri)] ELSE issued[uri]]
        /\ asking' = [client |-> client, whole |-> whole, report |-> report, text |-> D!Text(mine.uri)]
    BY <1>1 DEF D!Ask
  <1>3. left' \in Left /\ R > 0 /\ left'.reports = R - 1 /\ R \in Nat
    BY <1>2, SpendFact DEF DInv, DTypes, Left
  <1>4. /\ DOMAIN report = 1..Len(uris)
        /\ \A i \in 1..Len(uris) : uris[i] \in D!Doc /\ report[i] = TheItem(uris[i])
    BY <1>1
  <1>5. \A i \in 1..Len(uris) :
            /\ report[i] \in Report /\ report[i].uri = uris[i] /\ report[i].kind \in {"full", "unchanged"}
            /\ report[i].kind = "full" => report[i].id = R /\ report[i].text = D!Text(uris[i])
    BY <1>4, ItemFact
  <1>6. \A i \in 1..Len(uris) : report[i].kind = "unchanged" =>
            /\ issued[uris[i]].id = report[i].id /\ issued[uris[i]].text = D!Text(uris[i])
            /\ report[i].id > R
            /\ \E x \in Held(mine.cache) : x.key = D!PullKey(uris[i]) /\ x.id = report[i].id
    BY <1>4, ItemFact
  <1>7. \A uri \in D!Doc : D!Text(uri) \in Texts
    BY ItemFact
  <1>. HIDE DEF TheItem
  <1>8. \A i \in 1..Len(uris) : report[i].kind = "full" =>
            issued'[uris[i]].id = R /\ issued'[uris[i]].text = D!Text(uris[i])
    BY <1>2, <1>4, <1>5
  <1>9. \A i \in 1..Len(uris) : report[i].kind = "unchanged" => issued'[uris[i]] = issued[uris[i]]
    BY <1>2, <1>4, <1>5
  <1>10. Evolves
    BY <1>2, <1>3 DEF Evolves
  <1>11. Remembers /\ Sound(cache')
    BY <1>2, RemembersSame DEF DInv, CacheInv
  <1>12. CopyInv'
    BY <1>2, <1>10, <1>11, ClientKept DEF CopyInv
  <1>13. issued' \in [D!Doc -> [id : Nat, text : Texts \cup {NoText}]]
    BY <1>2, <1>3, <1>7 DEF DInv, DTypes
  <1>14. asking' \in [client : Clients, whole : BOOLEAN, report : Seq(Report), text : Texts]
    <2>1. report \in Seq(Report)
      <3>1. report \in [1..Len(uris) -> Report] BY <1>1, <1>4, <1>5
      <3>2. Len(uris) \in Nat OBVIOUS
      <3>. QED BY <3>1, <3>2
    <2>2. mine.uri \in D!Doc BY <1>4
    <2>. QED BY <1>2, <1>7, <2>1, <2>2
  <1>15. DTypes'
    BY <1>2, <1>3, <1>13, <1>14 DEF DInv, DTypes
  <1>16. \A i \in 1..Len(uris) : Latest(report[i], mine.cache)'
    <2>. SUFFICES ASSUME NEW i \in 1..Len(uris)
                  PROVE  Latest(report[i], mine.cache)'
      OBVIOUS
    <2>1. copy'[client] = mine BY <1>2
    <2>2. CASE report[i].kind = "full"
      BY <1>3, <1>4, <1>5, <1>7, <1>8, <2>2 DEF Latest
    <2>3. CASE report[i].kind = "unchanged"
      <3>1. report[i].uri = uris[i] /\ report[i].id = issued'[uris[i]].id BY <1>5, <1>6, <1>9, <2>3
      <3>2. report[i].id \in Nat /\ report[i].id > R BY <1>5, <1>6, <2>3 DEF Report
      <3>3. report[i].id > left'.reports BY <1>3, <3>2
      <3>4. \E x \in Held(mine.cache) : x.key = D!PullKey(uris[i]) /\ x.id = report[i].id BY <1>6, <2>3
      <3>. QED BY <1>2, <2>3, <3>1, <3>3, <3>4 DEF Latest, Held, D!PullKey
    <2>. QED BY <1>5, <2>2, <2>3
  <1>17. issued'[mine.uri].text = D!Text(mine.uri)
    BY <1>5, <1>6, <1>8, <1>9
  <1>18. AskingInv'
    <2>1. /\ asking'.client = client /\ asking'.report = report /\ asking'.text = D!Text(mine.uri)
          /\ copy' = copy /\ report[k].uri = mine.uri
      BY <1>2, <1>5
    <2>2. (D!EmptyCopy)' = D!EmptyCopy BY DEF D!EmptyCopy, D!EmptyCache
    <2>3. \A i \in DOMAIN report : Latest(report[i], copy[client].cache)'
      BY <1>4, <1>16
    <2>. QED BY <1>2, <1>4, <1>17, <2>1, <2>2, <2>3 DEF AskingInv
  <1>19. ToldInv' BY <1>2 DEF DInv, ToldInv
  <1>. QED BY <1>10, <1>11, <1>12, <1>15, <1>18, <1>19, OwnerKept DEF DInv

\* What a report of the server says, resolved from a cache which follows the client it is for.
LEMMA ResolvedFact ==
    ASSUME NEW m, NEW s, Sound(s), Honest(s), Follows(m, s), Sound(m), Honest(m),
           NEW item \in Report, Latest(item, m), D!Resolvable(s.entries, item),
           issued \in [D!Doc -> [id : Nat, text : Texts \cup {NoText}]],
           NEW e, e = D!Resolved(s.entries, item)
    PROVE  /\ e \in Snapshot /\ Faithful(e) /\ e.key = D!PullKey(item.uri) /\ IsLast(e)
           /\ e.text = issued[item.uri].text
  <1>. DEFINE q == s.entries
              uri == item.uri
              key == D!PullKey(uri)
              known == D!Get(q, key)
              text == IF item.kind = "full" THEN item.text ELSE known.text
              closed == item.kind = "unchanged" /\ known.closed
  <1>1. uri \in D!Doc /\ item.id \in Nat /\ item.kind \in {"full", "unchanged"}
    BY DEF Report
  <1>2. key \in Key /\ key[1] = "pull" /\ key[2] = uri
    BY <1>1 DEF Key, D!PullKey
  <1>3. e = [D!Entry(key, text) EXCEPT !.id = item.id, !.closed = closed]
    BY DEF D!Resolved
  <1>4. item.kind = "unchanged" => known \in Held(s) /\ known.key = key
    <2>1. q \in Seq(Snapshot) /\ Distinct(q) BY DEF Sound, Exact, Cache
    <2>2. item.kind = "unchanged" => D!Known(q, key) BY DEF D!Resolvable
    <2>. HIDE DEF key, q
    <2>3. D!Known(q, key) => D!Get(q, key) \in Range(q) /\ D!Get(q, key).key = key
      BY <2>1, GetFact
    <2>. QED BY <2>2, <2>3 DEF Held, q
  <1>5. text \in Texts /\ text = issued[uri].text /\ closed \in BOOLEAN
    <2>. HIDE DEF known, key, q
    <2>1. CASE item.kind = "full"
      BY <2>1 DEF Latest
    <2>2. CASE item.kind = "unchanged"
      <3>1. known \in Held(s) /\ known.key = key /\ known \in Snapshot /\ Faithful(known)
        BY <1>4, <2>2, HeldType DEF Honest
      <3>2. PICK mine \in Held(m) : mine.key = key /\ mine.id = item.id
        BY <2>2 DEF Latest, key
      <3>3. item.id = issued[uri].id BY DEF Latest
      <3>4. IsLast(mine) BY <1>2, <3>2, <3>3 DEF IsLast
      <3>5. known.id = mine.id BY <3>1, <3>2, <3>4 DEF Follows
      <3>6. IsLast(known) BY <1>2, <3>1, <3>2, <3>3, <3>5 DEF IsLast
      <3>7. known.text = issued[uri].text BY <1>2, <3>1, <3>6 DEF Faithful, Identified
      <3>. QED BY <2>2, <3>1, <3>7 DEF Snapshot
    <2>. QED BY <1>1, <2>1, <2>2
  <1>. HIDE DEF key, text, closed
  <1>6. e.key = key /\ e.text = text /\ e.id = item.id
    BY <1>3 DEF D!Entry
  <1>7. e \in Snapshot
    <2>1. PICK b : b = D!Entry(key, text) OBVIOUS
    <2>2. b \in Snapshot BY <1>2, <1>5, <2>1 DEF Snapshot, D!Entry, D!NoVersion
    <2>. HIDE DEF q, uri, known
    <2>3. e = [b EXCEPT !.id = item.id, !.closed = closed] BY <1>3, <2>1
    <2>. QED BY <1>1, <1>5, <2>2, <2>3 DEF Snapshot
  <1>8. IsLast(e) /\ e.text = issued[uri].text /\ e.id > left.reports
    BY <1>2, <1>5, <1>6 DEF IsLast, Latest
  <1>9. Faithful(e)
    BY <1>2, <1>6, <1>8 DEF Faithful, Dated, Identified
  <1>. QED BY <1>6, <1>7, <1>8, <1>9 DEF key

\* A report is stored as it was resolved.
LEMMA AppliedFact ==
    ASSUME DInv, asking # D!NotAsking, NEW r, r = D!Applied(cache, asking.report)
    PROVE  /\ Sound(r)
           /\ \A x \in Held(r) : x \in Held(cache) \/ (Faithful(x) /\ (x.key[1] = "pull" => IsLast(x)))
  <1>. DEFINE q == asking.report
              m == copy[asking.client].cache
              Told(x) == x \in Held(cache) \/ (Faithful(x) /\ (x.key[1] = "pull" => IsLast(x)))
              T == {t \in Cache : Sound(t) /\ \A x \in Held(t) : Told(x)}
              E == {item \in Report : Latest(item, m) /\ D!Resolvable(cache.entries, item)}
  <1>1. asking.client \in Clients /\ q \in Seq(Report) BY DEF DInv, DTypes
  <1>2. Sound(cache) /\ Honest(cache) BY DEF DInv, CacheInv
  <1>3. Sound(m) /\ Honest(m) /\ Follows(m, cache) BY <1>1 DEF DInv, CopyInv, CopyOk
  <1>4. \A i \in DOMAIN q : Latest(q[i], m) BY DEF DInv, AskingInv
  <1>5. cache \in T BY <1>2, HeldType
  <1>6. CASE \A i \in DOMAIN q : D!Resolvable(cache.entries, q[i])
    <2>1. \A t \in T, item \in E : D!Store(t, D!Resolved(cache.entries, item)) \in T
      <3>. HIDE DEF m, Told
      <3>. SUFFICES ASSUME NEW t \in T, NEW item \in E,
                           NEW e, e = D!Resolved(cache.entries, item), NEW s, s = D!Store(t, e)
                    PROVE  s \in T
        OBVIOUS
      <3>1. issued \in [D!Doc -> [id : Nat, text : Texts \cup {NoText}]] BY DEF DInv, DTypes
      <3>2. e \in Snapshot /\ Faithful(e) /\ IsLast(e)
        BY <1>2, <1>3, <3>1, ResolvedFact
      <3>3. Sound(s) BY <3>2, StoreFact
      <3>4. \A x \in Held(s) : x = e \/ x \in Held(t) BY <3>2, StoreFact
      <3>5. Told(e) BY <3>2 DEF Told
      <3>. QED BY <3>3, <3>4, <3>5, HeldType
    <2>2. q \in Seq(E)
      <3>. HIDE DEF q, m
      <3>1. \A i \in 1..Len(q) : q[i] \in E BY <1>1, <1>4, <1>6
      <3>. HIDE DEF E
      <3>2. Len(q) \in Nat /\ q \in [1..Len(q) -> E] BY <1>1, <3>1
      <3>. QED BY <3>2
    <2>3. r \in T
      <3>. HIDE DEF T, E, q
      <3>1. D!Applied(cache, q) \in T BY <1>5, <2>1, <2>2, AppliedAll
      <3>. QED BY <3>1 DEF q
    <2>. QED BY <2>3
  <1>7. CASE ~\A i \in DOMAIN q : D!Resolvable(cache.entries, q[i])
    <2>1. r = cache BY <1>7 DEF D!Applied
    <2>. QED BY <1>2, <2>1
  <1>. QED BY <1>6, <1>7

\* The answer is stored by the Owner and given to the client, each resolving it from its own cache.
LEMMA SettleReportStep ==
    ASSUME DInv, D!SettleReport
    PROVE  DInv'
  <1>. DEFINE client == asking.client
              mine == copy[client]
              report == asking.report
              place == CHOOSE i \in DOMAIN report : report[i].uri = mine.uri
              accepted == asking.whole \/ D!StillSame(client)
              resolvable == \A i \in DOMAIN report : D!Resolvable(mine.cache.entries, report[i])
  <1>1. /\ asking # D!NotAsking /\ asking' = D!NotAsking
        /\ copy' = [copy EXCEPT ![client] = D!EmptyCopy]
        /\ cache' = IF accepted THEN D!Applied(cache, report) ELSE cache
        /\ UNCHANGED <<left, history, open, issued>>
    BY DEF D!SettleReport
  <1>2. told' = IF accepted /\ resolvable
                THEN [fresh |-> TRUE, text |-> D!Resolved(mine.cache.entries, report[place]).text,
                      current |-> asking.text]
                ELSE D!NotTold
    BY DEF D!SettleReport
  <1>3. client \in Clients /\ report \in Seq(Report) BY <1>1 DEF DInv, DTypes
  <1>4. /\ issued[mine.uri].text = asking.text
        /\ \E i \in DOMAIN report : report[i].uri = mine.uri
        /\ \A i \in DOMAIN report : Latest(report[i], mine.cache)
    BY <1>1 DEF DInv, AskingInv
  <1>5. Sound(cache) /\ left \in Left BY DEF DInv, DTypes, CacheInv
  <1>6. Sound(cache') /\ Remembers
    <2>1. CASE cache' = cache BY <1>5, <2>1, RemembersSame
    <2>2. CASE cache' = D!Applied(cache, report)
      <3>1. PICK r : r = cache' OBVIOUS
      <3>2. Sound(r) BY <1>1, <2>2, <3>1, AppliedFact
      <3>3. \A x \in Held(r) : x \in Held(cache) \/ (Faithful(x) /\ (x.key[1] = "pull" => IsLast(x)))
        BY <1>1, <2>2, <3>1, AppliedFact
      <3>4. \A x : Alike(x, x) BY DEF Alike
      <3>5. \A x : (Faithful(x) => Faithful(x)') /\ (IsLast(x) => IsLast(x)')
        BY <1>1 DEF Faithful, Dated, Identified, IsLast
      <3>. QED BY <3>1, <3>2, <3>3, <3>4, <3>5 DEF Remembers
    <2>. QED BY <1>1, <2>1, <2>2
  <1>7. ASSUME accepted, resolvable
        PROVE  D!Resolved(mine.cache.entries, report[place]).text = asking.text
    <2>1. PICK m : m = mine.cache OBVIOUS
    <2>2. place \in DOMAIN report /\ report[place].uri = mine.uri BY <1>4
    <2>3. PICK item : item = report[place] OBVIOUS
    <2>4. item \in Report /\ item.uri = mine.uri /\ Latest(item, m) /\ D!Resolvable(m.entries, item)
      BY <1>3, <1>4, <1>7, <2>1, <2>2, <2>3
    <2>5. Sound(m) /\ Honest(m) BY <1>3, <2>1 DEF DInv, CopyInv, CopyOk
    <2>6. Follows(m, m) BY <2>5, HeldType DEF Follows
    <2>7. issued \in [D!Doc -> [id : Nat, text : Texts \cup {NoText}]] BY DEF DInv, DTypes
    <2>. HIDE DEF place
    <2>8. PICK e : e = D!Resolved(m.entries, item) OBVIOUS
    <2>9. e.text = issued[item.uri].text BY <2>4, <2>5, <2>6, <2>7, <2>8, ResolvedFact
    <2>. QED BY <1>4, <2>1, <2>3, <2>4, <2>8, <2>9
  <1>8. ToldInv'
    <2>. HIDE DEF accepted, resolvable, place, mine, report
    <2>. QED BY <1>2, <1>7 DEF ToldInv, D!NotTold
  <1>9. copy'[client] = D!EmptyCopy
    <2>. HIDE DEF client
    <2>. QED BY <1>1, <1>3 DEF DInv, DTypes
  <1>10. PICK r : r = D!EmptyCopy OBVIOUS
  <1>11. PICK c : c = client OBVIOUS
  <1>12. CopyOk(c)' BY <1>3, <1>9, <1>11, EmptyOk
  <1>13. copy' = [copy EXCEPT ![c] = r] /\ c \in Clients BY <1>1, <1>3, <1>10, <1>11
  <1>14. r \in [cache : Cache, uri : D!Doc \cup {NoClient}, version : Nat] BY <1>10, EmptyFact
  <1>. HIDE DEF client, mine, report, accepted, resolvable, place
  <1>. QED BY <1>1, <1>5, <1>6, <1>8, <1>12, <1>13, <1>14, ClientStep

\* At first nobody knows anything.
LEMMA InitDInv == FramesInit => DInv
  <1>. SUFFICES ASSUME FramesInit PROVE DInv
    OBVIOUS
  <1>1. /\ left \in Budgets /\ history = [uri \in D!Doc |-> <<First>>] /\ open = D!Doc
        /\ cache = D!EmptyCache /\ issued = [uri \in D!Doc |-> D!NoResult]
        /\ copy = [client \in Clients |-> D!EmptyCopy] /\ asking = D!NotAsking /\ told = D!NotTold
    BY DEF FramesInit, D!Init
  <1>2. left \in Left BY <1>1, SceneAssumption DEF Left
  <1>3. D!NoResult \in [id : Nat, text : Texts \cup {NoText}] BY DEF D!NoResult
  <1>4. /\ history \in [D!Doc -> Seq(Texts)] /\ open \subseteq D!Doc
        /\ \A uri \in D!Doc : history[uri] # <<>>
    <2>1. <<First>> \in Seq(Texts) /\ <<First>> # <<>> BY SceneAssumption
    <2>. QED BY <1>1, <2>1
  <1>5. DTypes
    <2>. HIDE DEF FramesInit
    <2>1. copy \in [Clients -> [cache : Cache, uri : D!Doc \cup {NoClient}, version : Nat]]
      BY <1>1, EmptyFact
    <2>2. issued \in [D!Doc -> [id : Nat, text : Texts \cup {NoText}]] BY <1>1, <1>3
    <2>. QED BY <1>1, <1>2, <1>4, <2>1, <2>2 DEF DTypes
  <1>6. CacheInv BY <1>1, EmptyFact DEF CacheInv, Honest
  <1>7. CopyInv
    <2>1. \A client \in Clients : copy[client] = D!EmptyCopy BY <1>1
    <2>. QED BY <2>1, EmptyFact DEF CopyInv, CopyOk, Honest, Follows
  <1>8. AskingInv BY <1>1 DEF AskingInv
  <1>9. ToldInv BY <1>1 DEF ToldInv, D!NotTold
  <1>. QED BY <1>5, <1>6, <1>7, <1>8, <1>9 DEF DInv

\* Nothing happens to the diagnostics.
LEMMA StillStep ==
    ASSUME DInv, UNCHANGED diagnostics
    PROVE  DInv'
  <1>1. UNCHANGED <<history, issued, copy, asking, told>> /\ open' = open /\ left' = left /\ cache' = cache
    BY DEF diagnostics
  <1>2. left \in Left /\ Sound(cache) BY DEF DInv, DTypes, CacheInv
  <1>. QED BY <1>1, <1>2, RemembersSame, CacheStep

\* Every step of the composition keeps the promises.
LEMMA NextDInv == DInv /\ [FramesNext]_<<vars, diagnostics>> => DInv'
  <1>. SUFFICES ASSUME DInv, [FramesNext]_<<vars, diagnostics>> PROVE DInv'
    OBVIOUS
  <1>1. CASE UNCHANGED diagnostics
    BY <1>1, StillStep
  <1>2. CASE D!Invalidate
    BY <1>2, InvalidateStep
  <1>3. ASSUME NEW uri \in D!Doc, NEW text \in Texts, D!Change(uri, text) PROVE DInv'
    BY <1>3, ChangeStep
  <1>4. ASSUME NEW uri \in D!Doc, D!Close(uri) PROVE DInv'
    BY <1>4, CloseStep
  <1>5. ASSUME NEW client \in Clients, NEW uri \in D!Doc, D!CopyState(client, uri) PROVE DInv'
    BY <1>5, CopyStateStep
  <1>6. ASSUME NEW client \in Clients, D!PollState(client) PROVE DInv'
    BY <1>6, PollStateStep
  <1>7. ASSUME NEW client \in Clients, D!AskDocument(client) PROVE DInv'
    <2>. DEFINE uri == copy[client].uri
    <2>1. D!Ask(client, <<uri>>, FALSE) /\ copy[client] # D!EmptyCopy
      BY <1>7 DEF D!AskDocument, D!Ask
    <2>2. uri \in D!Doc BY <2>1 DEF DInv, CopyInv, CopyOk
    <2>3. PICK uris : uris = <<uri>> OBVIOUS
    <2>4. uris \in Seq(D!Doc) /\ 1 \in 1..Len(uris) /\ uris[1] = uri BY <2>2, <2>3
    <2>. QED BY <2>1, <2>3, <2>4, AskReportStep
  <1>8. ASSUME NEW client \in Clients, D!AskWorkspace(client) PROVE DInv'
    <2>. DEFINE uri == copy[client].uri
    <2>1. D!Ask(client, Uris, TRUE) /\ copy[client] # D!EmptyCopy
      BY <1>8 DEF D!AskWorkspace, D!Ask
    <2>2. uri \in D!Doc BY <2>1 DEF DInv, CopyInv, CopyOk
    <2>3. D!Doc = Range(Uris) BY Library DEF D!Doc
    <2>4. Uris \in Seq(D!Doc) /\ \E k \in 1..Len(Uris) : Uris[k] = uri
      BY <2>2, <2>3, SceneAssumption DEF Range
    <2>. QED BY <2>1, <2>4, AskReportStep
  <1>9. ASSUME NEW uri \in D!Doc, NEW version \in DOMAIN history[uri], NEW tagged \in BOOLEAN,
               D!Publish(uri, version, tagged)
        PROVE  DInv'
    BY <1>9, PublishStep
  <1>10. CASE D!SettleReport
    BY <1>10, SettleReportStep
  <1>11. ASSUME NEW client \in Clients, D!ReadPublished(client) PROVE DInv'
    BY <1>11, ReadPublishedStep
  <1>12. CASE Loop
    BY <1>1, <1>2, <1>12 DEF Loop, RouteRefresh
  <1>13. CASE Others
    BY <1>1, <1>13 DEF Others
  <1>14. CASE Diagnostics
    BY <1>3, <1>4, <1>5, <1>6, <1>7, <1>8, <1>9, <1>10, <1>11, <1>14 DEF Diagnostics
  <1>. QED BY <1>1, <1>12, <1>13, <1>14 DEF FramesNext

\* They are what a run checks, and more.
LEMMA FreshIsCurrentKept == DInv => FreshIsCurrent
  BY DEF DInv, ToldInv, CacheInv, Sound, Exact, Within, Distinct, FreshIsCurrent, D!FreshIsCurrent

\* What a client is told to be fresh is about the text its Document had when it asked, and the
\* cache keeps to its limits, for any Documents, texts, clients and limits (apply_pull_report).
THEOREM FreshIsCurrentHolds == FramesSpec => []FreshIsCurrent
  <1>1. FramesInit => DInv BY InitDInv
  <1>2. DInv /\ [FramesNext]_<<vars, diagnostics>> => DInv' BY NextDInv
  <1>3. DInv => FreshIsCurrent BY FreshIsCurrentKept
  <1>. QED BY <1>1, <1>2, <1>3, PTL DEF FramesSpec
=============================================================================
