------------------------ MODULE OwnerDispatch_proofs ------------------------
(***************************************************************************)
(* Proofs about OwnerDispatch, for any number of clients and any length of *)
(* the queues.                                                             *)
(***************************************************************************)
EXTENDS OwnerDispatch, FiniteSetTheorems, TLAPS

\* What may still be written to the language server.
Pending == Range(requests) \cup ({current} \ {NoClient})
\* Who asked the loop to stop.
Stops == Range(controls) \cup ({stopper} \ {NoClient})

\* A request is prepared while no query is active, and only then.
Preparing ==
    /\ phase = "dispatching" => current \in Client
    /\ phase # "dispatching" => current = NoClient
    /\ phase # "serving" => active = NoClient
\* A draining Owner waits for its active query with a Stop pending, or has left
\* its loop.
Drained ==
    draining => \/ phase = "serving" /\ stopper # NoClient
                \/ phase \in {"shutdown", "closing", "exiting", "gone"}
LoopInv == Preparing /\ Drained

\* No request is queued twice, and the one in preparation is no longer queued.
NoRepeat(q) == \A i, j \in 1..Len(q) : q[i] = q[j] => i = j
Once == NoRepeat(requests) /\ current \notin Range(requests)
\* What may still be written was never written nor answered.
Unsent == \A c \in Pending : c \notin sent /\ response[c] = "none"
\* A client that has not queued its request yet is unknown to the loop.
Fresh ==
    \A c \in Client : conn[c] \in {"idle", "queueing"} =>
        c \notin sent /\ c \notin Pending /\ response[c] = "none"
QueueInv == Once /\ Unsent /\ Fresh

\* Each queue holds its own kind of requests, and only Queries are written.
Sorted ==
    /\ \A c \in Pending : kind[c] \notin Control
    /\ \A c \in Stops : kind[c] \in Control
    /\ \A c \in sent : kind[c] = "query"

\* The active query was written, and the server has no other one in hand.
InHand ==
    /\ active # NoClient => active \in sent
    /\ server = "up" => sent \ answered \subseteq Active
\* Only what the server answered is read from it.
Framed == Range(frames) \subseteq answered \cup {NoClient}
ServerInv == InHand /\ Framed

AnswerInv == OkMeansAnswered /\ NotSentByOwner

IInv == TypeOK /\ LoopInv /\ QueueInv /\ Sorted /\ ServerInv /\ AnswerInv

-----------------------------------------------------------------------------
(* Queues and frames are sequences *)

LEMMA EmptyQueue ==
    <<>> \in Seq(Client) /\ Len(<<>>) = 0 /\ Range(<<>>) = {} /\ NoRepeat(<<>>)
  BY DEF Range, NoRepeat

LEMMA RangeType ==
    ASSUME NEW S, NEW q \in Seq(S)
    PROVE  Range(q) \subseteq S
  BY DEF Range

\* Taking the first member of a queue.
LEMMA TailType ==
    ASSUME NEW S, NEW q \in Seq(S), q # <<>>
    PROVE  Head(q) \in S /\ Tail(q) \in Seq(S) /\ Len(Tail(q)) = Len(q) - 1 /\ Len(q) \in Nat \ {0}
  OBVIOUS

LEMMA TailRange ==
    ASSUME NEW S, NEW q \in Seq(S), q # <<>>
    PROVE  Head(q) \in Range(q) /\ Range(Tail(q)) \subseteq Range(q)
  BY DEF Range

\* Adding one.
LEMMA AppendType ==
    ASSUME NEW S, NEW q \in Seq(S), NEW e \in S
    PROVE  Append(q, e) \in Seq(S) /\ Len(Append(q, e)) = Len(q) + 1 /\ Len(q) \in Nat
  OBVIOUS

LEMMA AppendRange ==
    ASSUME NEW S, NEW q \in Seq(S), NEW e \in S
    PROVE  Range(Append(q, e)) = Range(q) \cup {e}
  <1>1. /\ DOMAIN q = 1..Len(q)
        /\ DOMAIN Append(q, e) = 1..(Len(q) + 1)
        /\ Len(q) \in Nat
    OBVIOUS
  <1>2. \A i \in 1..Len(q) : Append(q, e)[i] = q[i]
    OBVIOUS
  <1>3. Append(q, e)[Len(q) + 1] = e
    OBVIOUS
  <1>4. Range(Append(q, e)) \subseteq Range(q) \cup {e}
    BY <1>1, <1>2, <1>3 DEF Range
  <1>5. Range(q) \subseteq Range(Append(q, e))
    BY <1>1, <1>2 DEF Range
  <1>6. e \in Range(Append(q, e))
    BY <1>1, <1>3 DEF Range
  <1> QED
    BY <1>4, <1>5, <1>6

LEMMA TailNoRepeat ==
    ASSUME NEW S, NEW q \in Seq(S), q # <<>>, NoRepeat(q)
    PROVE  NoRepeat(Tail(q)) /\ Head(q) \notin Range(Tail(q))
  BY DEF NoRepeat, Range

LEMMA AppendNoRepeat ==
    ASSUME NEW S, NEW q \in Seq(S), NEW e \in S, NoRepeat(q), e \notin Range(q)
    PROVE  NoRepeat(Append(q, e))
  BY DEF NoRepeat, Range

\* Enqueue lengthens the queue of the request's kind, if it changes any.
LEMMA Enqueued ==
    ASSUME LoopOK, NEW c \in Client, Enqueue(c)
    PROVE  /\ requests' \in Seq(Client) /\ controls' \in Seq(Client)
           /\ Len(requests') <= QueueLimit /\ Len(controls') <= QueueLimit
           /\ \A d \in Range(requests') \ Range(requests) : d = c /\ kind[c] \notin Control
           /\ \A d \in Range(controls') \ Range(controls) : d = c /\ kind[c] \in Control
           /\ NoRepeat(requests) /\ c \notin Range(requests) => NoRepeat(requests')
  <1> USE DEF queues
  <1>1. CASE UNCHANGED queues
    BY <1>1 DEF LoopOK
  <1>2. CASE kind[c] \in Control /\ Len(controls) # QueueLimit
    <2>1. controls' = Append(controls, c) /\ UNCHANGED requests
      BY <1>2 DEF Enqueue
    <2>2. /\ controls' \in Seq(Client) /\ Len(controls') <= QueueLimit
      BY <1>2, <2>1, ConstantAssumption DEF LoopOK
    <2>3. Range(controls') = Range(controls) \cup {c}
      BY <2>1, AppendRange DEF LoopOK
    <2> QED
      BY <1>2, <2>1, <2>2, <2>3 DEF LoopOK
  <1>3. CASE kind[c] \notin Control /\ Len(requests) # QueueLimit
    <2>1. requests' = Append(requests, c) /\ UNCHANGED controls
      BY <1>3 DEF Enqueue
    <2>2. /\ requests' \in Seq(Client) /\ Len(requests') <= QueueLimit
      BY <1>3, <2>1, ConstantAssumption DEF LoopOK
    <2>3. Range(requests') = Range(requests) \cup {c}
      BY <2>1, AppendRange DEF LoopOK
    <2>4. NoRepeat(requests) /\ c \notin Range(requests) => NoRepeat(requests')
      BY <2>1, AppendNoRepeat DEF LoopOK
    <2> QED
      BY <1>3, <2>1, <2>2, <2>3, <2>4 DEF LoopOK
  <1> QED
    BY <1>1, <1>2, <1>3 DEF Enqueue

-----------------------------------------------------------------------------
(* Answers *)

\* What the Stop that is taken makes the loop answer, and whom.
LEMMA StopResponse ==
    ASSUME LoopOK, ConnectionsOK, TakeControl
    PROVE  /\ response' \in [Client -> Answer \cup {"none"}]
           /\ \A d \in Client :
                  \/ response'[d] = response[d]
                  \/ /\ Waiting(d)
                     /\ \/ response'[d] = "failed"
                        \/ response'[d] = "ok" /\ d \in Stops
                        \/ response'[d] = "not_sent" /\ d \in Range(requests) \cup Range(controls)
  <1> USE DEF loop, queues, pipe, client, channel, history
  <1> DEFINE h == Head(controls)
  <1>1. h \in Range(controls)
    BY TailRange DEF TakeControl, LoopOK
  <1>2. CASE cancelled[h]
    BY <1>2 DEF TakeControl, ConnectionsOK
  <1>3. CASE ~cancelled[h] /\ kind[h] = "force"
    <2>1. response' = [d \in Client |->
              IF ~Waiting(d) THEN response[d]
              ELSE IF d \in Live(requests) THEN "not_sent"
              ELSE IF d = active THEN "failed"
              ELSE IF d \in {h, stopper} THEN "ok" ELSE response[d]]
      BY <1>3 DEF TakeControl
    <2>2. \A d \in Client : d \in {h, stopper} => d \in Stops
      BY <1>1, ConstantAssumption DEF Stops
    <2>3. response' \in [Client -> Answer \cup {"none"}]
      BY <2>1 DEF ConnectionsOK, Answer
    <2> QED
      BY <2>1, <2>2, <2>3 DEF Live
  <1>4. CASE ~cancelled[h] /\ kind[h] # "force"
    <2>1. Respond(Live(requests), "not_sent") \/ Respond(Live(requests) \cup {h}, "not_sent")
      BY <1>4 DEF TakeControl
    <2> QED
      BY <1>1, <2>1 DEF ConnectionsOK, Answer, Live, Respond
  <1> QED
    BY <1>2, <1>3, <1>4

-----------------------------------------------------------------------------
(* Types *)

LEMMA LoopOKKept ==
    ASSUME LoopOK, ServerOK, Next
    PROVE  LoopOK'
  <1> USE DEF loop, queues, pipe, client, channel, history
  <1>1. CASE StartSucceeds
    BY <1>1 DEF LoopOK, Phase, StartSucceeds
  <1>2. CASE StartFails
    BY <1>2, ConstantAssumption DEF LoopOK, Phase, StartFails
  <1>3. CASE BeginShutdown
    BY <1>3 DEF LoopOK, Phase, BeginShutdown
  <1>4. CASE EndShutdown
    BY <1>4 DEF LoopOK, Phase, EndShutdown
  <1>5. CASE Close
    BY <1>5, ConstantAssumption DEF LoopOK, Phase, Close
  <1>6. CASE Exit
    BY <1>6 DEF LoopOK, Phase, Exit
  <1>7. CASE TakeRequest
    BY <1>7, ConstantAssumption DEF LoopOK, Phase, TakeRequest
  <1>8. CASE AnswerHere
    BY <1>8 DEF LoopOK, Phase, AnswerHere
  <1>9. CASE WriteRequest
    BY <1>9 DEF LoopOK, Phase, WriteRequest
  <1>10. CASE WriteRefused
    BY <1>10 DEF LoopOK, Phase, WriteRefused
  <1>11. CASE Cancel
    BY <1>11 DEF LoopOK, Cancel
  <1>12. CASE GraceExpires
    BY <1>12 DEF LoopOK, Phase, GraceExpires, Leave
  <1>13. CASE ReadFrame
    BY <1>13 DEF LoopOK, Phase, ReadFrame, ResponseWithoutOutcome, Leave
  <1>14. CASE NoticeExit
    <2>1. requests' \in Seq(Client) /\ controls' \in Seq(Client)
      BY <1>14 DEF NoticeExit, LoopOK
    <2>2. Len(requests') <= QueueLimit /\ Len(controls') <= QueueLimit
      BY <1>14, ConstantAssumption DEF NoticeExit, LoopOK
    <2>3. /\ phase' \in Phase /\ draining' \in BOOLEAN /\ cancelling' \in BOOLEAN
          /\ {current', active', stopper'} \subseteq Client \cup {NoClient}
      BY <1>14 DEF NoticeExit, Leave, LoopOK, Phase
    <2> QED
      BY <2>1, <2>2, <2>3 DEF LoopOK
  <1>15. CASE TakeControl
    <2>1. /\ Head(controls) \in Client /\ Tail(controls) \in Seq(Client)
          /\ Len(Tail(controls)) <= QueueLimit
      BY <1>15, ConstantAssumption DEF TakeControl, LoopOK
    <2>2. requests' \in Seq(Client) /\ controls' \in Seq(Client)
      BY <1>15, <2>1, EmptyQueue DEF TakeControl, LoopOK
    <2>3. Len(requests') <= QueueLimit /\ Len(controls') <= QueueLimit
      BY <1>15, <2>1, ConstantAssumption DEF TakeControl, LoopOK
    <2>4. phase' \in Phase /\ draining' \in BOOLEAN /\ cancelling' \in BOOLEAN
      BY <1>15 DEF TakeControl, Leave, LoopOK, Phase
    <2>5. {current', active', stopper'} \subseteq Client \cup {NoClient}
      BY <1>15, <2>1 DEF TakeControl, Leave, LoopOK
    <2> QED
      BY <2>2, <2>3, <2>4, <2>5 DEF LoopOK
  <1>16. CASE WriteAbandoned
    <2>1. requests' \in Seq(Client) /\ controls' \in Seq(Client)
      BY <1>16 DEF WriteAbandoned, Fatal
    <2>2. Len(requests') <= QueueLimit /\ Len(controls') <= QueueLimit
      BY <1>16, ConstantAssumption DEF WriteAbandoned, Fatal
    <2>3. /\ phase' \in Phase /\ draining' \in BOOLEAN /\ cancelling' \in BOOLEAN
          /\ {current', active', stopper'} \subseteq Client \cup {NoClient}
      BY <1>16 DEF WriteAbandoned, Fatal, Leave, Phase
    <2> QED
      BY <2>1, <2>2, <2>3 DEF LoopOK
  <1>17. CASE OtherWriteAbandoned
    <2>1. requests' \in Seq(Client) /\ controls' \in Seq(Client)
      BY <1>17 DEF OtherWriteAbandoned, Fatal
    <2>2. Len(requests') <= QueueLimit /\ Len(controls') <= QueueLimit
      BY <1>17, ConstantAssumption DEF OtherWriteAbandoned, Fatal
    <2>3. /\ phase' \in Phase /\ draining' \in BOOLEAN /\ cancelling' \in BOOLEAN
          /\ {current', active', stopper'} \subseteq Client \cup {NoClient}
      BY <1>17 DEF OtherWriteAbandoned, Fatal, Leave, Phase
    <2> QED
      BY <2>1, <2>2, <2>3 DEF LoopOK
  <1>18. ASSUME NEW c \in Client, Enqueue(c) PROVE LoopOK'
    BY <1>18, Enqueued DEF Enqueue, LoopOK
  <1>19. CASE ServerStrays \/ ServerExits
    BY <1>19 DEF LoopOK, ServerStrays, ServerExits
  <1>20. CASE \E c \in Client : ServerAnswers(c) \/ Connect(c) \/ Receive(c) \/ SeeDispatched(c) \/
           Orphaned(c) \/ QueueDeadline(c) \/ Disconnect(c)
    BY <1>20 DEF LoopOK, ServerAnswers, Connect, Receive, SeeDispatched, Orphaned, QueueDeadline,
       Disconnect
  <1> QED
    BY <1>1, <1>2, <1>3, <1>4, <1>5, <1>6, <1>7, <1>8, <1>9, <1>10, <1>11, <1>12, <1>13, <1>14,
       <1>15, <1>16, <1>17, <1>18, <1>19, <1>20 DEF Next, Owner, OwnerStep, LanguageServer,
       Connection

LEMMA ServerOKKept ==
    ASSUME LoopOK, ServerOK, Preparing, Next
    PROVE  ServerOK'
  <1> USE DEF loop, queues, pipe, client, channel, history
  <1>1. CASE StartFails
    BY <1>1 DEF ServerOK, StartFails, Terminate
  <1>2. CASE EndShutdown
    BY <1>2 DEF ServerOK, EndShutdown, Terminate
  <1>3. CASE WriteRequest
    BY <1>3 DEF ServerOK, Preparing, WriteRequest
  <1>4. CASE GraceExpires
    BY <1>4 DEF ServerOK, GraceExpires, Terminate
  <1>5. CASE ReadFrame
    BY <1>5 DEF ServerOK, ReadFrame, ResponseWithoutOutcome, Terminate
  <1>6. CASE TakeControl
    BY <1>6 DEF ServerOK, TakeControl, Terminate
  <1>7. CASE WriteAbandoned
    BY <1>7 DEF ServerOK, Preparing, WriteAbandoned, Fatal, Terminate
  <1>8. CASE OtherWriteAbandoned
    BY <1>8 DEF ServerOK, OtherWriteAbandoned, Fatal, Terminate
  <1>9. CASE ServerStrays
    BY <1>9, ConstantAssumption DEF ServerOK, ServerStrays
  <1>10. CASE ServerExits
    BY <1>10 DEF ServerOK, ServerExits, Terminate
  <1>11. ASSUME NEW c \in Client, ServerAnswers(c) PROVE ServerOK'
    BY <1>11 DEF ServerOK, ServerAnswers
  <1>12. ASSUME NEW c \in Client, Connect(c) PROVE ServerOK'
    BY <1>12 DEF ServerOK, Connect, Deny
  <1>13. ASSUME NEW c \in Client, Enqueue(c) PROVE ServerOK'
    BY <1>13 DEF ServerOK, Enqueue, Deny
  <1>14. ASSUME NEW c \in Client, Receive(c) PROVE ServerOK'
    BY <1>14 DEF ServerOK, Receive, Deny
  <1>15. ASSUME NEW c \in Client, Orphaned(c) PROVE ServerOK'
    BY <1>15 DEF ServerOK, Orphaned, Deny
  <1>16. ASSUME NEW c \in Client, QueueDeadline(c) PROVE ServerOK'
    BY <1>16 DEF ServerOK, QueueDeadline, Deny
  <1>17. CASE StartSucceeds \/ BeginShutdown \/ Close \/ Exit \/ TakeRequest \/ AnswerHere \/
           WriteRefused \/ Cancel \/ NoticeExit
    BY <1>17 DEF ServerOK, StartSucceeds, BeginShutdown, Close, Exit, TakeRequest, AnswerHere,
       WriteRefused, Cancel, NoticeExit
  <1>18. CASE \E c \in Client : SeeDispatched(c) \/ Disconnect(c)
    BY <1>18 DEF ServerOK, SeeDispatched, Disconnect
  <1> QED
    BY <1>1, <1>2, <1>3, <1>4, <1>5, <1>6, <1>7, <1>8, <1>9, <1>10, <1>11, <1>12, <1>13, <1>14,
       <1>15, <1>16, <1>17, <1>18 DEF Next, Owner, OwnerStep, LanguageServer, Connection

LEMMA ConnectionsOKKept ==
    ASSUME LoopOK, ServerOK, ConnectionsOK, Preparing, Next
    PROVE  ConnectionsOK'
  <1> USE DEF loop, queues, pipe, client, channel, history
  <1>1. CASE StartFails
    BY <1>1 DEF ConnectionsOK, Answer, StartFails, Respond
  <1>2. CASE EndShutdown
    BY <1>2 DEF ConnectionsOK, Answer, EndShutdown, Respond
  <1>3. CASE Close
    BY <1>3 DEF ConnectionsOK, Answer, Close, Respond
  <1>4. CASE TakeRequest
    BY <1>4 DEF ConnectionsOK, TakeRequest, Signal
  <1>5. CASE AnswerHere
    BY <1>5 DEF ConnectionsOK, Answer, AnswerHere, Respond
  <1>6. CASE WriteRefused
    BY <1>6 DEF ConnectionsOK, Answer, WriteRefused, Respond
  <1>7. CASE GraceExpires
    BY <1>7 DEF ConnectionsOK, Answer, GraceExpires, Respond
  <1>8. CASE ReadFrame
    BY <1>8 DEF ConnectionsOK, Answer, ReadFrame, ResponseWithoutOutcome, Respond
  <1>9. CASE NoticeExit
    BY <1>9 DEF ConnectionsOK, Answer, NoticeExit, Respond
  <1>10. CASE TakeControl
    BY <1>10, StopResponse DEF ConnectionsOK, TakeControl, Signal
  <1>11. CASE WriteAbandoned
    BY <1>11 DEF ConnectionsOK, Answer, WriteAbandoned, Fatal, Respond
  <1>12. CASE OtherWriteAbandoned
    BY <1>12 DEF ConnectionsOK, Answer, OtherWriteAbandoned, Fatal, Respond
  <1>13. ASSUME NEW c \in Client, Connect(c) PROVE ConnectionsOK'
    BY <1>13 DEF ConnectionsOK, Connect, Disconnected
  <1>14. ASSUME NEW c \in Client, Enqueue(c) PROVE ConnectionsOK'
    BY <1>14 DEF ConnectionsOK, Enqueue, Disconnected
  <1>15. ASSUME NEW c \in Client, Receive(c) PROVE ConnectionsOK'
    BY <1>15 DEF ConnectionsOK, Receive, Disconnected
  <1>16. ASSUME NEW c \in Client, SeeDispatched(c) PROVE ConnectionsOK'
    BY <1>16 DEF ConnectionsOK, SeeDispatched
  <1>17. ASSUME NEW c \in Client, Orphaned(c) PROVE ConnectionsOK'
    BY <1>17 DEF ConnectionsOK, Orphaned, Disconnected
  <1>18. ASSUME NEW c \in Client, QueueDeadline(c) PROVE ConnectionsOK'
    BY <1>18 DEF ConnectionsOK, QueueDeadline, Withdraw, Disconnected
  <1>19. ASSUME NEW c \in Client, Disconnect(c) PROVE ConnectionsOK'
    BY <1>19 DEF ConnectionsOK, Disconnect, Withdraw, Disconnected
  <1>20. CASE StartSucceeds \/ BeginShutdown \/ Exit \/ WriteRequest \/ Cancel \/ ServerStrays \/
           ServerExits
    BY <1>20 DEF ConnectionsOK, StartSucceeds, BeginShutdown, Exit, WriteRequest, Cancel,
       ServerStrays, ServerExits
  <1>21. CASE \E c \in Client : ServerAnswers(c)
    BY <1>21 DEF ConnectionsOK, ServerAnswers
  <1> QED
    BY <1>1, <1>2, <1>3, <1>4, <1>5, <1>6, <1>7, <1>8, <1>9, <1>10, <1>11, <1>12, <1>13, <1>14,
       <1>15, <1>16, <1>17, <1>18, <1>19, <1>20, <1>21 DEF Next, Owner, OwnerStep, LanguageServer,
       Connection

-----------------------------------------------------------------------------
(* The loop *)

LEMMA PreparingKept ==
    ASSUME LoopOK, Preparing, Next
    PROVE  Preparing'
  <1> USE DEF loop, queues, pipe, client, channel, history
  <1>1. CASE StartSucceeds
    BY <1>1 DEF Preparing, StartSucceeds
  <1>2. CASE StartFails
    BY <1>2 DEF Preparing, StartFails
  <1>3. CASE BeginShutdown
    BY <1>3 DEF Preparing, BeginShutdown
  <1>4. CASE EndShutdown
    BY <1>4 DEF Preparing, EndShutdown
  <1>5. CASE Close
    BY <1>5 DEF Preparing, Close
  <1>6. CASE Exit
    BY <1>6 DEF Preparing, Exit
  <1>7. CASE TakeRequest
    BY <1>7 DEF LoopOK, Preparing, TakeRequest
  <1>8. CASE AnswerHere
    BY <1>8 DEF Preparing, AnswerHere
  <1>9. CASE WriteRequest
    BY <1>9 DEF Preparing, WriteRequest
  <1>10. CASE WriteRefused
    BY <1>10 DEF Preparing, WriteRefused
  <1>11. CASE GraceExpires
    BY <1>11 DEF Preparing, GraceExpires, Leave
  <1>12. CASE ReadFrame
    BY <1>12 DEF Preparing, ReadFrame, ResponseWithoutOutcome, Leave
  <1>13. CASE NoticeExit
    BY <1>13 DEF Preparing, NoticeExit, Leave
  <1>14. CASE TakeControl
    BY <1>14 DEF Preparing, TakeControl, Leave
  <1>15. CASE WriteAbandoned
    BY <1>15 DEF Preparing, WriteAbandoned, Fatal, Leave
  <1>16. CASE OtherWriteAbandoned
    BY <1>16 DEF Preparing, OtherWriteAbandoned, Fatal, Leave
  <1>17. CASE Cancel \/ ServerStrays \/ ServerExits
    BY <1>17 DEF Preparing, Cancel, ServerStrays, ServerExits
  <1>18. CASE \E c \in Client : ServerAnswers(c) \/ Connect(c) \/ Enqueue(c) \/ Receive(c) \/
           SeeDispatched(c) \/ Orphaned(c) \/ QueueDeadline(c) \/ Disconnect(c)
    BY <1>18 DEF Preparing, ServerAnswers, Connect, Enqueue, Receive, SeeDispatched, Orphaned,
       QueueDeadline, Disconnect
  <1> QED
    BY <1>1, <1>2, <1>3, <1>4, <1>5, <1>6, <1>7, <1>8, <1>9, <1>10, <1>11, <1>12, <1>13, <1>14,
       <1>15, <1>16, <1>17, <1>18 DEF Next, Owner, OwnerStep, LanguageServer, Connection

LEMMA DrainedKept ==
    ASSUME LoopOK, ConnectionsOK, Preparing, Drained, Sorted, Next
    PROVE  Drained'
  <1> USE DEF loop, queues, pipe, client, channel, history
  <1>1. CASE StartSucceeds
    BY <1>1 DEF Drained, StartSucceeds
  <1>2. CASE StartFails
    BY <1>2 DEF Drained, StartFails
  <1>3. CASE BeginShutdown
    BY <1>3 DEF Drained, BeginShutdown
  <1>4. CASE EndShutdown
    BY <1>4 DEF Drained, EndShutdown
  <1>5. CASE Close
    BY <1>5 DEF Drained, Close
  <1>6. CASE Exit
    BY <1>6 DEF Drained, Exit
  <1>7. CASE TakeRequest
    BY <1>7 DEF Drained, TakeRequest, Serving, StopDue
  <1>8. CASE AnswerHere
    BY <1>8 DEF Drained, AnswerHere
  <1>9. CASE WriteRequest
    BY <1>9 DEF Drained, WriteRequest
  <1>10. CASE WriteRefused
    BY <1>10 DEF Drained, WriteRefused
  <1>11. CASE GraceExpires
    BY <1>11 DEF Drained, GraceExpires, Leave
  <1>12. CASE ReadFrame
    BY <1>12 DEF Drained, ReadFrame, ResponseWithoutOutcome, Leave
  <1>13. CASE NoticeExit
    BY <1>13 DEF Drained, NoticeExit, Leave
  <1>14. CASE TakeControl
    <2>1. Head(controls) \in Client
      BY <1>14 DEF TakeControl, LoopOK
    <2>2. CASE cancelled[Head(controls)]
      BY <1>14, <2>2 DEF TakeControl, Drained
    <2>3. CASE ~cancelled[Head(controls)]
      BY <1>14, <2>1, <2>3, ConstantAssumption DEF TakeControl, Drained, Serving, Leave
    <2> QED
      BY <2>2, <2>3
  <1>15. CASE WriteAbandoned
    BY <1>15 DEF Drained, WriteAbandoned, Fatal, Leave
  <1>16. CASE OtherWriteAbandoned
    BY <1>16 DEF Drained, OtherWriteAbandoned, Fatal, Leave
  <1>17. CASE Cancel \/ ServerStrays \/ ServerExits
    BY <1>17 DEF Drained, Cancel, ServerStrays, ServerExits
  <1>18. CASE \E c \in Client : ServerAnswers(c) \/ Connect(c) \/ Enqueue(c) \/ Receive(c) \/
           SeeDispatched(c) \/ Orphaned(c) \/ QueueDeadline(c) \/ Disconnect(c)
    BY <1>18 DEF Drained, ServerAnswers, Connect, Enqueue, Receive, SeeDispatched, Orphaned,
       QueueDeadline, Disconnect
  <1> QED
    BY <1>1, <1>2, <1>3, <1>4, <1>5, <1>6, <1>7, <1>8, <1>9, <1>10, <1>11, <1>12, <1>13, <1>14,
       <1>15, <1>16, <1>17, <1>18 DEF Next, Owner, OwnerStep, LanguageServer, Connection

-----------------------------------------------------------------------------
(* The requests that may still be written *)

LEMMA OnceKept ==
    ASSUME LoopOK, Preparing, Once, Fresh, Next
    PROVE  Once'
  <1> USE DEF loop, queues, pipe, client, channel, history
  <1>1. CASE StartFails
    BY <1>1, EmptyQueue DEF Once, StartFails
  <1>2. CASE Close
    BY <1>2, EmptyQueue DEF Once, Close
  <1>3. CASE TakeRequest
    BY <1>3, TailRange, TailNoRepeat DEF LoopOK, Once, TakeRequest
  <1>4. CASE AnswerHere
    BY <1>4, RangeType, ConstantAssumption DEF AnswerHere, LoopOK, Once
  <1>5. CASE WriteRequest
    BY <1>5, RangeType, ConstantAssumption DEF WriteRequest, LoopOK, Once
  <1>6. CASE WriteRefused
    BY <1>6, RangeType, ConstantAssumption DEF WriteRefused, LoopOK, Once
  <1>7. CASE GraceExpires
    BY <1>7, RangeType, ConstantAssumption DEF GraceExpires, Leave, LoopOK, Once
  <1>8. CASE ReadFrame
    BY <1>8, RangeType, ConstantAssumption DEF ReadFrame, ResponseWithoutOutcome, Leave, LoopOK, Once
  <1>9. CASE NoticeExit
    BY <1>9, EmptyQueue DEF Once, NoticeExit
  <1>10. CASE TakeControl
    BY <1>10, EmptyQueue DEF Once, TakeControl
  <1>11. CASE WriteAbandoned
    BY <1>11, EmptyQueue DEF Once, WriteAbandoned, Fatal
  <1>12. CASE OtherWriteAbandoned
    BY <1>12, EmptyQueue DEF Once, OtherWriteAbandoned, Fatal
  <1>13. ASSUME NEW c \in Client, Enqueue(c) PROVE Once'
    BY <1>13, Enqueued, ConstantAssumption DEF Enqueue, Once, Fresh, Pending
  <1>14. CASE StartSucceeds \/ BeginShutdown \/ EndShutdown \/ Exit \/ Cancel \/ ServerStrays \/
           ServerExits
    BY <1>14 DEF Once, StartSucceeds, BeginShutdown, EndShutdown, Exit, Cancel, ServerStrays,
       ServerExits
  <1>15. CASE \E c \in Client : ServerAnswers(c) \/ Connect(c) \/ Receive(c) \/ SeeDispatched(c) \/
           Orphaned(c) \/ QueueDeadline(c) \/ Disconnect(c)
    BY <1>15 DEF Once, ServerAnswers, Connect, Receive, SeeDispatched, Orphaned, QueueDeadline,
       Disconnect
  <1> QED
    BY <1>1, <1>2, <1>3, <1>4, <1>5, <1>6, <1>7, <1>8, <1>9, <1>10, <1>11, <1>12, <1>13, <1>14,
       <1>15 DEF Next, Owner, OwnerStep, LanguageServer, Connection

LEMMA UnsentKept ==
    ASSUME LoopOK, ConnectionsOK, Preparing, Once, Unsent, Fresh, Sorted,
           InHand, Next
    PROVE  Unsent'
  <1> USE DEF loop, queues, pipe, client, channel, history
  <1>1. CASE StartFails
    BY <1>1, EmptyQueue DEF Preparing, Unsent, Pending, StartFails
  <1>2. CASE EndShutdown
    <2>1. Pending \subseteq Client \ {stopper}
      BY RangeType, ConstantAssumption DEF Pending, Stops, LoopOK, Sorted
    <2>2. \A c \in Client \ {stopper} : response'[c] = response[c]
      BY <1>2 DEF EndShutdown, Respond
    <2> QED
      BY <1>2, <2>1, <2>2 DEF EndShutdown, Unsent, Pending
  <1>3. CASE Close
    BY <1>3, EmptyQueue DEF Preparing, Unsent, Pending, Close
  <1>4. CASE TakeRequest
    BY <1>4, TailRange DEF LoopOK, Unsent, Pending, TakeRequest
  <1>5. CASE AnswerHere
    <2>1. Pending' \subseteq Pending \ {current}
      BY <1>5 DEF AnswerHere, Pending, Once
    <2>2. \A c \in Client \ {current} : response'[c] = response[c]
      BY <1>5 DEF AnswerHere, Respond
    <2>3. Pending \subseteq Client
      BY RangeType DEF Pending, LoopOK
    <2> QED
      BY <1>5, <2>1, <2>2, <2>3 DEF AnswerHere, Unsent
  <1>6. CASE WriteRequest
    BY <1>6 DEF Once, Unsent, Pending, WriteRequest
  <1>7. CASE WriteRefused
    <2>1. Pending' \subseteq Pending \ {current}
      BY <1>7 DEF WriteRefused, Pending, Once
    <2>2. \A c \in Client \ {current} : response'[c] = response[c]
      BY <1>7 DEF WriteRefused, Respond
    <2>3. Pending \subseteq Client
      BY RangeType DEF Pending, LoopOK
    <2> QED
      BY <1>7, <2>1, <2>2, <2>3 DEF WriteRefused, Unsent
  <1>8. CASE GraceExpires
    <2>1. Pending \subseteq Client \ {active}
      BY RangeType, ConstantAssumption DEF Pending, LoopOK, Unsent, InHand
    <2>2. \A c \in Client \ {active} : response'[c] = response[c]
      BY <1>8 DEF GraceExpires, Respond, Active
    <2>3. Pending' \subseteq Pending
      BY <1>8 DEF GraceExpires, Leave, Pending
    <2> QED
      BY <1>8, <2>1, <2>2, <2>3 DEF GraceExpires, Unsent
  <1>9. CASE ReadFrame
    <2>1. Pending \subseteq Client \ {active}
      BY RangeType, ConstantAssumption DEF Pending, LoopOK, Unsent, InHand
    <2>2. \A c \in Client \ {active} : response'[c] = response[c]
      BY <1>9 DEF ReadFrame, ResponseWithoutOutcome, Respond, Active
    <2>3. Pending' \subseteq Pending
      BY <1>9 DEF ReadFrame, ResponseWithoutOutcome, Leave, Pending
    <2> QED
      BY <1>9, <2>1, <2>2, <2>3 DEF ReadFrame, ResponseWithoutOutcome, Unsent
  <1>10. CASE NoticeExit
    BY <1>10, EmptyQueue DEF Unsent, Pending, NoticeExit, Leave
  <1>11. CASE TakeControl
    BY <1>11, EmptyQueue DEF Preparing, Unsent, Pending, TakeControl, Serving, Leave
  <1>12. CASE WriteAbandoned
    BY <1>12, EmptyQueue DEF Unsent, Pending, WriteAbandoned, Fatal, Leave
  <1>13. CASE OtherWriteAbandoned
    BY <1>13, EmptyQueue DEF Unsent, Pending, OtherWriteAbandoned, Fatal, Leave
  <1>14. ASSUME NEW c \in Client, Connect(c) PROVE Unsent'
    BY <1>14 DEF ConnectionsOK, Unsent, Fresh, Pending, Connect, Disconnected, Deny
  <1>15. ASSUME NEW c \in Client, Enqueue(c) PROVE Unsent'
    BY <1>15, Enqueued DEF Enqueue, Disconnected, Deny, Unsent, Fresh, Pending, ConnectionsOK
  <1>16. ASSUME NEW c \in Client, Receive(c) PROVE Unsent'
    BY <1>16 DEF Unsent, Pending, Receive, Disconnected, Deny
  <1>17. ASSUME NEW c \in Client, Orphaned(c) PROVE Unsent'
    BY <1>17 DEF Unsent, Pending, Orphaned, Disconnected, Deny
  <1>18. ASSUME NEW c \in Client, QueueDeadline(c) PROVE Unsent'
    BY <1>18 DEF Unsent, Pending, QueueDeadline, Disconnected, Deny
  <1>19. ASSUME NEW c \in Client, Disconnect(c) PROVE Unsent'
    BY <1>19 DEF Unsent, Pending, Disconnect, Disconnected
  <1>20. CASE StartSucceeds \/ BeginShutdown \/ Exit \/ Cancel \/ ServerStrays \/ ServerExits
    BY <1>20 DEF Unsent, Pending, StartSucceeds, BeginShutdown, Exit, Cancel, ServerStrays,
       ServerExits
  <1>21. CASE \E c \in Client : ServerAnswers(c) \/ SeeDispatched(c)
    BY <1>21 DEF Unsent, Pending, ServerAnswers, SeeDispatched
  <1> QED
    BY <1>1, <1>2, <1>3, <1>4, <1>5, <1>6, <1>7, <1>8, <1>9, <1>10, <1>11, <1>12, <1>13, <1>14,
       <1>15, <1>16, <1>17, <1>18, <1>19, <1>20, <1>21 DEF Next, Owner, OwnerStep, LanguageServer,
       Connection

LEMMA FreshKept ==
    ASSUME LoopOK, ConnectionsOK, Preparing, Fresh, Next
    PROVE  Fresh'
  <1> USE DEF loop, queues, pipe, client, channel, history
  <1>1. CASE StartFails
    BY <1>1, EmptyQueue DEF Fresh, Pending, StartFails, Respond, Waiting
  <1>2. CASE EndShutdown
    BY <1>2 DEF Fresh, Pending, EndShutdown, Respond, Waiting
  <1>3. CASE Close
    BY <1>3, EmptyQueue DEF Fresh, Pending, Close, Respond, Waiting
  <1>4. CASE TakeRequest
    BY <1>4, TailRange DEF LoopOK, Fresh, Pending, TakeRequest
  <1>5. CASE AnswerHere
    BY <1>5, ConstantAssumption DEF Fresh, Pending, AnswerHere, Respond
  <1>6. CASE WriteRequest
    BY <1>6, ConstantAssumption DEF Fresh, Pending, WriteRequest
  <1>7. CASE WriteRefused
    BY <1>7, ConstantAssumption DEF Fresh, Pending, WriteRefused, Respond
  <1>8. CASE GraceExpires
    BY <1>8 DEF Fresh, Pending, GraceExpires, Leave, Respond, Waiting
  <1>9. CASE ReadFrame
    BY <1>9 DEF Fresh, Pending, ReadFrame, ResponseWithoutOutcome, Leave, Respond, Waiting
  <1>10. CASE NoticeExit
    BY <1>10, EmptyQueue DEF Fresh, Pending, NoticeExit, Leave, Respond, Waiting
  <1>11. CASE TakeControl
    <2>1. requests' = requests \/ Range(requests') = {}
      BY <1>11, EmptyQueue DEF TakeControl
    <2>2. current' = current \/ current' = NoClient
      BY <1>11 DEF TakeControl, Leave
    <2> QED
      BY <1>11, <2>1, <2>2, StopResponse DEF TakeControl, Fresh, Pending, Waiting
  <1>12. CASE WriteAbandoned
    BY <1>12, ConstantAssumption, EmptyQueue DEF Fresh, Pending, WriteAbandoned, Fatal, Leave,
       Respond, Waiting
  <1>13. CASE OtherWriteAbandoned
    BY <1>13, EmptyQueue DEF Fresh, Pending, OtherWriteAbandoned, Fatal, Leave, Respond, Waiting
  <1>14. ASSUME NEW c \in Client, Connect(c) PROVE Fresh'
    BY <1>14 DEF ConnectionsOK, Fresh, Pending, Connect, Disconnected, Deny
  <1>15. ASSUME NEW c \in Client, Enqueue(c) PROVE Fresh'
    <2>1. conn'[c] \in {"waiting", "awaiting", "closed"} /\ \A d \in Client \ {c} : conn'[d] = conn[d]
      BY <1>15 DEF Enqueue, Disconnected, ConnectionsOK
    <2>2. \A d \in Client \ {c} : response'[d] = response[d]
      BY <1>15 DEF Enqueue, Disconnected, ConnectionsOK
    <2>3. sent' = sent /\ current' = current
      BY <1>15 DEF Enqueue, Deny
    <2> QED
      BY <1>15, <2>1, <2>2, <2>3, Enqueued DEF Fresh, Pending
  <1>16. ASSUME NEW c \in Client, Receive(c) PROVE Fresh'
    BY <1>16 DEF Fresh, Pending, Receive, Disconnected, Deny
  <1>17. ASSUME NEW c \in Client, SeeDispatched(c) PROVE Fresh'
    BY <1>17 DEF Fresh, Pending, SeeDispatched
  <1>18. ASSUME NEW c \in Client, Orphaned(c) PROVE Fresh'
    BY <1>18 DEF Fresh, Pending, Orphaned, Disconnected, Deny
  <1>19. ASSUME NEW c \in Client, QueueDeadline(c) PROVE Fresh'
    BY <1>19 DEF Fresh, Pending, QueueDeadline, Disconnected, Deny
  <1>20. ASSUME NEW c \in Client, Disconnect(c) PROVE Fresh'
    BY <1>20 DEF Fresh, Pending, Disconnect, Disconnected
  <1>21. CASE StartSucceeds \/ BeginShutdown \/ Exit \/ Cancel \/ ServerStrays \/ ServerExits
    BY <1>21 DEF Fresh, Pending, StartSucceeds, BeginShutdown, Exit, Cancel, ServerStrays,
       ServerExits
  <1>22. CASE \E c \in Client : ServerAnswers(c)
    BY <1>22 DEF Fresh, Pending, ServerAnswers
  <1> QED
    BY <1>1, <1>2, <1>3, <1>4, <1>5, <1>6, <1>7, <1>8, <1>9, <1>10, <1>11, <1>12, <1>13, <1>14,
       <1>15, <1>16, <1>17, <1>18, <1>19, <1>20, <1>21, <1>22 DEF Next, Owner, OwnerStep,
       LanguageServer, Connection

LEMMA SortedKept ==
    ASSUME LoopOK, ConnectionsOK, Preparing, Sorted, Next
    PROVE  Sorted'
  <1> USE DEF loop, queues, pipe, client, channel, history
  <1>1. CASE StartFails
    BY <1>1, EmptyQueue DEF Sorted, Pending, Stops, StartFails
  <1>2. CASE EndShutdown
    BY <1>2 DEF Sorted, Pending, Stops, EndShutdown
  <1>3. CASE Close
    BY <1>3, EmptyQueue DEF Sorted, Pending, Stops, Close
  <1>4. CASE TakeRequest
    BY <1>4, TailRange DEF LoopOK, Sorted, Pending, Stops, TakeRequest
  <1>5. CASE AnswerHere
    BY <1>5 DEF Sorted, Pending, Stops, AnswerHere
  <1>6. CASE WriteRequest
    BY <1>6 DEF Sorted, Pending, Stops, WriteRequest
  <1>7. CASE WriteRefused
    BY <1>7 DEF Sorted, Pending, Stops, WriteRefused
  <1>8. CASE GraceExpires
    BY <1>8 DEF Sorted, Pending, Stops, GraceExpires, Leave
  <1>9. CASE ReadFrame
    BY <1>9 DEF Sorted, Pending, Stops, ReadFrame, ResponseWithoutOutcome, Leave
  <1>10. CASE NoticeExit
    BY <1>10, EmptyQueue DEF Sorted, Pending, Stops, NoticeExit, Leave
  <1>11. CASE TakeControl
    BY <1>11, TailRange, EmptyQueue DEF LoopOK, Sorted, Pending, Stops, TakeControl, Leave
  <1>12. CASE WriteAbandoned
    BY <1>12, EmptyQueue DEF Sorted, Pending, Stops, WriteAbandoned, Fatal, Leave
  <1>13. CASE OtherWriteAbandoned
    BY <1>13, EmptyQueue DEF Sorted, Pending, Stops, OtherWriteAbandoned, Fatal, Leave
  <1>14. ASSUME NEW c \in Client, Enqueue(c) PROVE Sorted'
    BY <1>14, Enqueued DEF Enqueue, Disconnected, Deny, Sorted, Pending, Stops
  <1>15. CASE StartSucceeds \/ BeginShutdown \/ Exit \/ Cancel \/ ServerStrays \/ ServerExits
    BY <1>15 DEF Sorted, Pending, Stops, StartSucceeds, BeginShutdown, Exit, Cancel, ServerStrays,
       ServerExits
  <1>16. CASE \E c \in Client : ServerAnswers(c) \/ Connect(c) \/ Receive(c) \/ SeeDispatched(c) \/
           Orphaned(c) \/ QueueDeadline(c) \/ Disconnect(c)
    BY <1>16 DEF Sorted, Pending, Stops, ServerAnswers, Connect, Receive, SeeDispatched, Orphaned,
       QueueDeadline, Disconnect, Disconnected, Deny
  <1> QED
    BY <1>1, <1>2, <1>3, <1>4, <1>5, <1>6, <1>7, <1>8, <1>9, <1>10, <1>11, <1>12, <1>13, <1>14,
       <1>15, <1>16 DEF Next, Owner, OwnerStep, LanguageServer, Connection

-----------------------------------------------------------------------------
(* The language server *)

LEMMA InHandKept ==
    ASSUME LoopOK, ServerOK, Preparing, InHand, Framed, Next
    PROVE  InHand'
  <1> USE DEF loop, queues, pipe, client, channel, history
  <1>1. CASE StartFails
    BY <1>1 DEF InHand, StartFails, Terminate
  <1>2. CASE EndShutdown
    BY <1>2 DEF InHand, EndShutdown, Terminate
  <1>3. CASE WriteRequest
    BY <1>3, ConstantAssumption DEF Preparing, InHand, Active, WriteRequest
  <1>4. CASE GraceExpires
    BY <1>4 DEF InHand, GraceExpires, Leave, Terminate
  <1>5. CASE ReadFrame
    BY <1>5, TailRange DEF ServerOK, InHand, Framed, Active, ReadFrame, ResponseWithoutOutcome, Leave,
       Terminate
  <1>6. CASE NoticeExit
    BY <1>6 DEF InHand, NoticeExit, Leave
  <1>7. CASE TakeControl
    BY <1>7 DEF InHand, Active, TakeControl, Leave, Terminate
  <1>8. CASE WriteAbandoned
    BY <1>8 DEF InHand, WriteAbandoned, Fatal, Leave, Terminate
  <1>9. CASE OtherWriteAbandoned
    BY <1>9 DEF InHand, OtherWriteAbandoned, Fatal, Leave, Terminate
  <1>10. CASE ServerExits
    BY <1>10 DEF InHand, ServerExits, Terminate
  <1>11. ASSUME NEW c \in Client, ServerAnswers(c) PROVE InHand'
    BY <1>11 DEF InHand, Active, ServerAnswers
  <1>12. CASE StartSucceeds \/ BeginShutdown \/ Close \/ Exit \/ TakeRequest \/ AnswerHere \/
           WriteRefused \/ Cancel \/ ServerStrays
    BY <1>12 DEF InHand, Active, StartSucceeds, BeginShutdown, Close, Exit, TakeRequest, AnswerHere,
       WriteRefused, Cancel, ServerStrays
  <1>13. CASE \E c \in Client : Connect(c) \/ Enqueue(c) \/ Receive(c) \/ SeeDispatched(c) \/
           Orphaned(c) \/ QueueDeadline(c) \/ Disconnect(c)
    BY <1>13 DEF InHand, Active, Connect, Enqueue, Receive, SeeDispatched, Orphaned, QueueDeadline,
       Disconnect, Deny
  <1> QED
    BY <1>1, <1>2, <1>3, <1>4, <1>5, <1>6, <1>7, <1>8, <1>9, <1>10, <1>11, <1>12, <1>13 DEF Next,
       Owner, OwnerStep, LanguageServer, Connection

LEMMA FramedKept ==
    ASSUME ServerOK, Framed, Next
    PROVE  Framed'
  <1> USE DEF loop, queues, pipe, client, channel, history
  <1>1. CASE ReadFrame
    BY <1>1, TailRange DEF ServerOK, Framed, ReadFrame, ResponseWithoutOutcome
  <1>2. CASE ServerStrays
    BY <1>2, AppendRange DEF ServerOK, Framed, ServerStrays
  <1>3. ASSUME NEW c \in Client, ServerAnswers(c) PROVE Framed'
    BY <1>3, AppendRange DEF ServerOK, Framed, ServerAnswers
  <1>4. CASE StartSucceeds \/ StartFails \/ BeginShutdown \/ EndShutdown \/ Close \/ Exit \/
           TakeRequest \/ AnswerHere \/ WriteRequest \/ WriteRefused \/ Cancel \/ GraceExpires \/
           NoticeExit \/ TakeControl \/ WriteAbandoned \/ OtherWriteAbandoned \/ ServerExits
    BY <1>4 DEF Framed, StartSucceeds, StartFails, BeginShutdown, EndShutdown, Close, Exit,
       TakeRequest, AnswerHere, WriteRequest, WriteRefused, Cancel, GraceExpires, NoticeExit,
       TakeControl, WriteAbandoned, OtherWriteAbandoned, ServerExits, Fatal
  <1>5. CASE \E c \in Client : Connect(c) \/ Enqueue(c) \/ Receive(c) \/ SeeDispatched(c) \/
           Orphaned(c) \/ QueueDeadline(c) \/ Disconnect(c)
    BY <1>5 DEF Framed, Connect, Enqueue, Receive, SeeDispatched, Orphaned, QueueDeadline,
       Disconnect, Deny
  <1> QED
    BY <1>1, <1>2, <1>3, <1>4, <1>5 DEF Next, Owner, OwnerStep, LanguageServer, Connection

-----------------------------------------------------------------------------
(* The answers *)

LEMMA OkMeansAnsweredKept ==
    ASSUME LoopOK, ServerOK, ConnectionsOK, Preparing, Sorted, InHand,
           Framed, OkMeansAnswered, Next
    PROVE  OkMeansAnswered'
  <1> USE DEF loop, queues, pipe, client, channel, history
  <1>1. CASE StartFails
    BY <1>1 DEF OkMeansAnswered, StartFails, Respond
  <1>2. CASE EndShutdown
    BY <1>2 DEF Sorted, Stops, Control, OkMeansAnswered, EndShutdown, Respond
  <1>3. CASE Close
    BY <1>3 DEF OkMeansAnswered, Close, Respond
  <1>4. CASE AnswerHere
    BY <1>4 DEF OkMeansAnswered, AnswerHere, Respond
  <1>5. CASE WriteRefused
    BY <1>5 DEF OkMeansAnswered, WriteRefused, Respond
  <1>6. CASE GraceExpires
    BY <1>6 DEF OkMeansAnswered, GraceExpires, Respond
  <1>7. CASE ReadFrame
    BY <1>7, TailRange DEF ServerOK, Framed, OkMeansAnswered, ReadFrame, ResponseWithoutOutcome,
       Respond, Active
  <1>8. CASE NoticeExit
    BY <1>8 DEF OkMeansAnswered, NoticeExit, Respond
  <1>9. CASE TakeControl
    BY <1>9, StopResponse DEF Sorted, Control, OkMeansAnswered, TakeControl
  <1>10. CASE WriteAbandoned
    BY <1>10 DEF OkMeansAnswered, WriteAbandoned, Fatal, Respond
  <1>11. CASE OtherWriteAbandoned
    BY <1>11 DEF OkMeansAnswered, OtherWriteAbandoned, Fatal, Respond
  <1>12. ASSUME NEW c \in Client, ServerAnswers(c) PROVE OkMeansAnswered'
    BY <1>12 DEF OkMeansAnswered, ServerAnswers
  <1>13. ASSUME NEW c \in Client, Connect(c) PROVE OkMeansAnswered'
    BY <1>13 DEF ConnectionsOK, OkMeansAnswered, Connect, Disconnected, Deny
  <1>14. ASSUME NEW c \in Client, Enqueue(c) PROVE OkMeansAnswered'
    BY <1>14 DEF ConnectionsOK, OkMeansAnswered, Enqueue, Disconnected, Deny
  <1>15. ASSUME NEW c \in Client, Receive(c) PROVE OkMeansAnswered'
    BY <1>15 DEF OkMeansAnswered, Receive, Disconnected, Deny
  <1>16. ASSUME NEW c \in Client, Orphaned(c) PROVE OkMeansAnswered'
    BY <1>16 DEF OkMeansAnswered, Orphaned, Disconnected, Deny
  <1>17. ASSUME NEW c \in Client, QueueDeadline(c) PROVE OkMeansAnswered'
    BY <1>17 DEF OkMeansAnswered, QueueDeadline, Disconnected, Deny
  <1>18. ASSUME NEW c \in Client, Disconnect(c) PROVE OkMeansAnswered'
    BY <1>18 DEF OkMeansAnswered, Disconnect, Disconnected
  <1>19. CASE StartSucceeds \/ BeginShutdown \/ Exit \/ TakeRequest \/ WriteRequest \/ Cancel \/
           ServerStrays \/ ServerExits
    BY <1>19 DEF OkMeansAnswered, StartSucceeds, BeginShutdown, Exit, TakeRequest, WriteRequest,
       Cancel, ServerStrays, ServerExits
  <1>20. CASE \E c \in Client : SeeDispatched(c)
    BY <1>20 DEF OkMeansAnswered, SeeDispatched
  <1> QED
    BY <1>1, <1>2, <1>3, <1>4, <1>5, <1>6, <1>7, <1>8, <1>9, <1>10, <1>11, <1>12, <1>13, <1>14,
       <1>15, <1>16, <1>17, <1>18, <1>19, <1>20 DEF Next, Owner, OwnerStep, LanguageServer,
       Connection

LEMMA NotSentByOwnerKept ==
    ASSUME LoopOK, ServerOK, ConnectionsOK, Preparing, Sorted, Unsent,
           InHand, Framed, NotSentByOwner, Next
    PROVE  NotSentByOwner'
  <1> USE DEF loop, queues, pipe, client, channel, history
  <1>1. CASE StartFails
    BY <1>1 DEF Control, Sorted, Stops, Pending, Unsent, NotSentByOwner, StartFails, Respond, Live
  <1>2. CASE EndShutdown
    BY <1>2 DEF NotSentByOwner, EndShutdown, Respond
  <1>3. CASE Close
    BY <1>3 DEF NotSentByOwner, Close, Respond
  <1>4. CASE AnswerHere
    <2>1. current \in Pending
      BY <1>4, ConstantAssumption DEF AnswerHere, Preparing, Pending
    <2>2. \A c \in Client : response'[c] = "not_sent" => response[c] = "not_sent" \/ c = current
      BY <1>4 DEF AnswerHere, Respond
    <2> QED
      BY <1>4, <2>1, <2>2 DEF AnswerHere, NotSentByOwner, Unsent
  <1>5. CASE WriteRequest
    <2>1. current \in Pending
      BY <1>5, ConstantAssumption DEF WriteRequest, Preparing, Pending
    <2> QED
      BY <1>5, <2>1 DEF WriteRequest, NotSentByOwner, Unsent
  <1>6. CASE WriteRefused
    BY <1>6 DEF NotSentByOwner, WriteRefused, Respond
  <1>7. CASE GraceExpires
    BY <1>7 DEF NotSentByOwner, GraceExpires, Respond
  <1>8. CASE ReadFrame
    BY <1>8, TailRange DEF ServerOK, Framed, NotSentByOwner, ReadFrame, ResponseWithoutOutcome,
       Respond, Active
  <1>9. CASE NoticeExit
    BY <1>9 DEF NotSentByOwner, NoticeExit, Respond
  <1>10. CASE TakeControl
    BY <1>10 DEF Sorted, Pending, Unsent, NotSentByOwner, TakeControl, Respond, Live
  <1>11. CASE WriteAbandoned
    <2>1. current \in Pending
      BY <1>11, ConstantAssumption DEF WriteAbandoned, Preparing, Pending
    <2>2. sent' \subseteq sent \cup {current} /\ answered' = answered
      BY <1>11 DEF WriteAbandoned
    <2>3. \A c \in Client : response'[c] = "not_sent" => response[c] = "not_sent"
      BY <1>11 DEF WriteAbandoned, Fatal, Respond
    <2> QED
      BY <1>11, <2>1, <2>2, <2>3 DEF NotSentByOwner, Unsent
  <1>12. CASE OtherWriteAbandoned
    BY <1>12 DEF NotSentByOwner, OtherWriteAbandoned, Fatal, Respond
  <1>13. ASSUME NEW c \in Client, Connect(c) PROVE NotSentByOwner'
    BY <1>13 DEF ConnectionsOK, NotSentByOwner, Connect, Disconnected, Deny
  <1>14. ASSUME NEW c \in Client, Enqueue(c) PROVE NotSentByOwner'
    BY <1>14 DEF ConnectionsOK, NotSentByOwner, Enqueue, Disconnected, Deny
  <1>15. ASSUME NEW c \in Client, Receive(c) PROVE NotSentByOwner'
    BY <1>15 DEF NotSentByOwner, Receive, Disconnected, Deny
  <1>16. ASSUME NEW c \in Client, Orphaned(c) PROVE NotSentByOwner'
    BY <1>16 DEF NotSentByOwner, Orphaned, Disconnected, Deny
  <1>17. ASSUME NEW c \in Client, QueueDeadline(c) PROVE NotSentByOwner'
    BY <1>17 DEF NotSentByOwner, QueueDeadline, Disconnected, Deny
  <1>18. ASSUME NEW c \in Client, Disconnect(c) PROVE NotSentByOwner'
    BY <1>18 DEF NotSentByOwner, Disconnect, Disconnected
  <1>19. CASE StartSucceeds \/ BeginShutdown \/ Exit \/ TakeRequest \/ Cancel \/ ServerStrays \/
           ServerExits
    BY <1>19 DEF NotSentByOwner, StartSucceeds, BeginShutdown, Exit, TakeRequest, Cancel,
       ServerStrays, ServerExits
  <1>20. CASE \E c \in Client : ServerAnswers(c) \/ SeeDispatched(c)
    BY <1>20 DEF NotSentByOwner, ServerAnswers, SeeDispatched
  <1> QED
    BY <1>1, <1>2, <1>3, <1>4, <1>5, <1>6, <1>7, <1>8, <1>9, <1>10, <1>11, <1>12, <1>13, <1>14,
       <1>15, <1>16, <1>17, <1>18, <1>19, <1>20 DEF Next, Owner, OwnerStep, LanguageServer,
       Connection

-----------------------------------------------------------------------------
(* The invariant *)

LEMMA InitInv == ASSUME Init PROVE IInv
  <1> USE ConstantAssumption DEF Init
  <1>1. LoopOK
    <2>1. requests \in Seq(Client) /\ controls \in Seq(Client)
      OBVIOUS
    <2>2. Len(requests) <= QueueLimit /\ Len(controls) <= QueueLimit
      OBVIOUS
    <2>3. phase \in Phase
      BY DEF Phase
    <2>4. {current, active, stopper} \subseteq Client \cup {NoClient}
      OBVIOUS
    <2>5. draining \in BOOLEAN /\ cancelling \in BOOLEAN
      OBVIOUS
    <2> QED
      BY <2>1, <2>2, <2>3, <2>4, <2>5 DEF LoopOK
  <1>2. ServerOK
    BY DEF ServerOK
  <1>3. ConnectionsOK
    BY DEF ConnectionsOK
  <1>4. Pending = {} /\ Stops = {} /\ Range(frames) = {}
    BY EmptyQueue DEF Pending, Stops
  <1>5. LoopInv
    BY DEF LoopInv, Preparing, Drained
  <1>6. QueueInv
    BY <1>4, EmptyQueue DEF QueueInv, Once, Unsent, Fresh
  <1>7. Sorted
    BY <1>4 DEF Sorted
  <1>8. ServerInv
    BY <1>4 DEF ServerInv, InHand, Framed
  <1>9. AnswerInv
    BY DEF AnswerInv, OkMeansAnswered, NotSentByOwner
  <1> QED
    BY <1>1, <1>2, <1>3, <1>5, <1>6, <1>7, <1>8, <1>9 DEF IInv, TypeOK

LEMMA StepInv == ASSUME IInv, [Next]_vars PROVE IInv'
  <1> USE DEF IInv, TypeOK, LoopInv, QueueInv, ServerInv, AnswerInv
  <1>1. CASE Next
    BY <1>1, LoopOKKept, ServerOKKept, ConnectionsOKKept, PreparingKept, DrainedKept, OnceKept,
       UnsentKept, FreshKept, SortedKept, InHandKept, FramedKept, OkMeansAnsweredKept,
       NotSentByOwnerKept
  <1>2. CASE UNCHANGED vars
    BY <1>2 DEF vars, loop, queues, pipe, client, channel, history, LoopOK, ServerOK, ConnectionsOK,
       Preparing, Drained, Once, Unsent, Fresh, Sorted, InHand, Framed, OkMeansAnswered,
       NotSentByOwner, Pending, Stops, Active
  <1> QED
    BY <1>1, <1>2

-----------------------------------------------------------------------------
(* What is proved *)

\* Every reachable state of an Owner, its connections and its language server
\* satisfies the invariant.
THEOREM Invariance == Spec => []IInv
  <1>1. Init => IInv
    BY InitInv
  <1>2. IInv /\ [Next]_vars => IInv'
    BY StepInv
  <1> QED
    BY <1>1, <1>2, PTL DEF Spec

\* Every variable of the Owner and its connections keeps its type, and no queue
\* passes its limit.
THEOREM TypeCorrect == Spec => []TypeOK
  <1>1. IInv => TypeOK
    BY DEF IInv
  <1> QED
    BY <1>1, Invariance, PTL

\* The language server never has two requests of the callers in hand.
THEOREM SerialHolds == Spec => []Serial
  <1>1. ASSUME IInv, server = "up" PROVE Cardinality(sent \ answered) <= 1
    <2>1. sent \ answered \subseteq {active}
      BY <1>1 DEF IInv, ServerInv, InHand, Active
    <2>2. IsFiniteSet({active}) /\ Cardinality({active}) = 1
      BY FS_Singleton
    <2>3. Cardinality(sent \ answered) <= Cardinality({active})
      BY <2>1, <2>2, FS_Subset
    <2> QED
      BY <2>2, <2>3
  <1>2. IInv => Serial
    BY <1>1 DEF Serial
  <1> QED
    BY <1>2, Invariance, PTL

\* A successful reply to a Query carries what the language server answered to
\* that Query.
THEOREM OkMeansAnsweredHolds == Spec => []OkMeansAnswered
  <1>1. IInv => OkMeansAnswered
    BY DEF IInv, AnswerInv
  <1> QED
    BY <1>1, Invariance, PTL

\* What the loop answers not_sent is not in the hands of the language server,
\* then or later.
THEOREM NotSentByOwnerHolds == Spec => []NotSentByOwner
  <1>1. IInv => NotSentByOwner
    BY DEF IInv, AnswerInv
  <1> QED
    BY <1>1, Invariance, PTL

\* A request is written only while one is being prepared.
LEMMA OnlyPreparedSent == ASSUME Next, phase # "dispatching" PROVE sent' = sent
  <1> USE DEF loop, queues, pipe, client, channel, history
  <1>1. CASE Owner
    BY <1>1 DEF Owner, OwnerStep, StartSucceeds, StartFails, BeginShutdown, EndShutdown, Close,
       Exit, TakeRequest, AnswerHere, WriteRequest, WriteRefused, WriteAbandoned,
       OtherWriteAbandoned, Cancel, GraceExpires, ReadFrame, ResponseWithoutOutcome, NoticeExit,
       TakeControl
  <1>2. CASE LanguageServer
    BY <1>2 DEF LanguageServer, ServerStrays, ServerExits, ServerAnswers
  <1>3. CASE \E c \in Client : Connect(c) \/ Connection(c) \/ QueueDeadline(c) \/ Disconnect(c)
    BY <1>3 DEF Connect, Connection, QueueDeadline, Disconnect, Enqueue, Receive, SeeDispatched,
       Orphaned, Deny
  <1> QED
    BY <1>1, <1>2, <1>3 DEF Next

\* Once the Owner drains, nothing more is written: a request that was queued
\* past the draining flag is failed, not dispatched.
THEOREM DrainingSendsNothingHolds == Spec => DrainingSendsNothing
  <1>1. ASSUME IInv, [Next]_vars, draining PROVE sent' = sent
    <2>1. phase # "dispatching"
      BY <1>1 DEF IInv, LoopInv, Drained
    <2> QED
      BY <1>1, <2>1, OnlyPreparedSent DEF vars, history
  <1>2. IInv /\ [Next]_vars => [draining => sent' = sent]_vars
    BY <1>1
  <1> QED
    BY <1>2, Invariance, PTL DEF Spec, DrainingSendsNothing

=============================================================================
