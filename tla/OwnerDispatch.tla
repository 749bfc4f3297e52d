--------------------------- MODULE OwnerDispatch ---------------------------
(***************************************************************************)
(* The Owner of one Session: how the requests of CLI processes reach its   *)
(* language server and how their answers come back                         *)
(* (src/src/session/owner_runtime.rs, with the client's half in            *)
(* src/src/session.rs).                                                    *)
(*                                                                         *)
(* The Owner's loop is one task.  Every connection is a task of its own    *)
(* that shares two bounded queues, a draining flag and, per request, three *)
(* channels with the loop: response, dispatched and cancelled.  A client   *)
(* is one connection with one request; a status request is served by its   *)
(* connection alone and changes nothing.                                   *)
(*                                                                         *)
(* Timers (queue deadline, request timeout, cancellation grace, idle and   *)
(* flush timeouts) may fire at any moment.  The arms of the loop's select! *)
(* are polled one after the other while the queues fill, so no arm is      *)
(* given priority here.                                                    *)
(***************************************************************************)
EXTENDS Naturals, Sequences, FiniteSets, Functions

CONSTANTS
    Client,
    NoClient,
    Mixes,          \* the kinds of request the clients may come with
    Deadlined,      \* clients whose request comes with a queue deadline
    QueueLimit,     \* OWNER_QUEUE_LIMIT
    MaxStray        \* bound on frames that answer no request

\* A Query, a request the Owner answers itself, and the two forms of Stop.
Kind    == {"query", "local", "graceful", "force"}
Control == {"graceful", "force"}

ASSUME ConstantAssumption ==
    /\ NoClient \notin Client
    /\ QueueLimit \in Nat \ {0}
    /\ MaxStray \in Nat
    /\ Deadlined \subseteq Client
    /\ Mixes \subseteq [Client -> Kind]

VARIABLES
    \* the Owner's loop
    phase,
    draining,     \* the flag the connections share with the loop
    current,      \* the request start_dispatch is preparing
    active,       \* active_queries, which never has two members
    cancelling,   \* the active query has a QueryCancellation
    stopper,      \* pending_stop
    \* the queues
    requests, controls,
    \* the language server, and the frames of its reader pump
    server, frames, strays,
    \* one connection each
    conn, kind, response, dispatched, cancelled,
    \* history: requests written to, and answered by, the language server, and
    \* those whose CLI process reports them as not_sent
    sent, answered, denied

loop    == <<phase, draining, current, active, cancelling, stopper>>
queues  == <<requests, controls>>
pipe    == <<server, frames, strays>>
client  == <<conn, kind>>
channel == <<response, dispatched, cancelled>>
history == <<sent, answered, denied>>
vars    == <<loop, queues, pipe, client, channel, history>>

-----------------------------------------------------------------------------
(* Data *)

Phase == {"starting", "serving", "dispatching", "shutdown", "closing", "exiting", "gone"}

\* What a response channel carries: a result, a failure that leaves the delivery
\* to the language server open or certain, or one that denies it (not_sent); or
\* it is dropped, and the connection closes without a reply.
Answer == {"ok", "failed", "not_sent", "dropped"}

\* Queued or in hand: the connection has a channel for the response.
Waiting(c) == conn[c] \in {"waiting", "awaiting"}

\* fail_queued_requests passes over the requests that were cancelled.
Live(q) == {c \in Range(q) : ~cancelled[c]}

\* The response channel of every member of S gets the answer, unless its
\* connection is gone.
Respond(S, answer) ==
    response' = [c \in Client |-> IF c \in S /\ Waiting(c) THEN answer ELSE response[c]]

\* Dispatch is signalled to a connection that still waits for it.
Signal(c) == dispatched' = [dispatched EXCEPT ![c] = conn[c] = "waiting"]

Active == {active} \ {NoClient}

-----------------------------------------------------------------------------
(* Connections *)

Init ==
    /\ phase = "starting" /\ draining = FALSE
    /\ current = NoClient /\ active = NoClient /\ cancelling = FALSE /\ stopper = NoClient
    /\ requests = <<>> /\ controls = <<>>
    /\ server = "up" /\ frames = <<>> /\ strays = 0
    /\ conn = [c \in Client |-> "idle"]
    /\ kind \in Mixes
    /\ response = [c \in Client |-> "none"]
    /\ dispatched = [c \in Client |-> FALSE]
    /\ cancelled = [c \in Client |-> FALSE]
    /\ sent = {} /\ answered = {} /\ denied = {}

\* The connection ends, with a reply or without one, and its channels with it.
Disconnected(c) ==
    /\ conn' = [conn EXCEPT ![c] = "closed"]
    /\ response' = [response EXCEPT ![c] = "none"]
    /\ dispatched' = [dispatched EXCEPT ![c] = FALSE]
    /\ UNCHANGED kind
\* The cancelled flag is set as long as the loop has not settled the request.
Withdraw(c) == cancelled' = [cancelled EXCEPT ![c] = response[c] = "none"]
Deny(c) == denied' = denied \cup {c} /\ UNCHANGED <<sent, answered>>

\* A connection is accepted and authenticated while the listener lives; the
\* draining flag is read once ...
Connect(c) ==
    /\ phase \notin {"closing", "exiting", "gone"}
    /\ conn[c] = "idle"
    /\ IF draining /\ kind[c] \notin Control
       THEN Disconnected(c) /\ Deny(c)
       ELSE conn' = [conn EXCEPT ![c] = "queueing"] /\ UNCHANGED <<kind, dispatched, response, history>>
    /\ UNCHANGED <<loop, queues, pipe, cancelled>>

\* Mutant: the queue takes one request more than its limit.
EnqueueOneMore(c) ==
    /\ phase # "gone" /\ conn[c] = "queueing"
    /\ IF Len(IF kind[c] \in Control THEN controls ELSE requests) > QueueLimit
       THEN Disconnected(c) /\ Deny(c) /\ UNCHANGED queues
       ELSE /\ IF kind[c] \in Control
               THEN controls' = Append(controls, c) /\ UNCHANGED requests
               ELSE requests' = Append(requests, c) /\ UNCHANGED controls
            /\ conn' = [conn EXCEPT ![c] = IF c \in Deadlined THEN "waiting" ELSE "awaiting"]
            /\ UNCHANGED <<kind, dispatched, response, history>>
    /\ UNCHANGED <<loop, pipe, cancelled>>
\* ... and the request is queued whatever the flag says by then, unless the
\* queue is full.  With a queue deadline the connection waits for dispatch first.
Enqueue(c) ==
    /\ phase # "gone" /\ conn[c] = "queueing"
    /\ IF Len(IF kind[c] \in Control THEN controls ELSE requests) = QueueLimit
       THEN Disconnected(c) /\ Deny(c) /\ UNCHANGED queues
       ELSE /\ IF kind[c] \in Control
               THEN controls' = Append(controls, c) /\ UNCHANGED requests
               ELSE requests' = Append(requests, c) /\ UNCHANGED controls
            /\ conn' = [conn EXCEPT ![c] = IF c \in Deadlined THEN "waiting" ELSE "awaiting"]
            /\ UNCHANGED <<kind, dispatched, response, history>>
    /\ UNCHANGED <<loop, pipe, cancelled>>

\* A connection that closes without a reply is reported by the client as
\* owner_unavailable: delivery not_sent, retry safe.
Receive(c) ==
    /\ phase # "gone" /\ Waiting(c)
    /\ response[c] # "none"
    /\ Disconnected(c)
    /\ IF response[c] \in {"not_sent", "dropped"} THEN Deny(c) ELSE UNCHANGED history
    /\ UNCHANGED <<loop, queues, pipe, cancelled>>

\* Once dispatch is signalled the queue deadline no longer applies.
SeeDispatched(c) ==
    /\ phase # "gone" /\ conn[c] = "waiting"
    /\ dispatched[c]
    /\ conn' = [conn EXCEPT ![c] = "awaiting"]
    /\ UNCHANGED <<kind, loop, queues, pipe, channel, history>>

\* The arms of this select! have no order either: the sleep may be taken with
\* the dispatched signal already there, or before the loop has sent it.
QueueDeadline(c) ==
    /\ phase # "gone" /\ conn[c] = "waiting"
    /\ Withdraw(c)
    /\ Disconnected(c) /\ Deny(c)
    /\ UNCHANGED <<loop, queues, pipe>>

Disconnect(c) ==
    /\ phase # "gone" /\ Waiting(c)
    /\ Withdraw(c)
    /\ Disconnected(c)
    /\ UNCHANGED <<loop, queues, pipe, history>>

\* The Owner process has exited: the connection closes without a reply.
Orphaned(c) ==
    /\ phase = "gone" /\ conn[c] \notin {"idle", "closed"}
    /\ Disconnected(c) /\ Deny(c)
    /\ UNCHANGED <<loop, queues, pipe, cancelled>>

-----------------------------------------------------------------------------
(* The language server *)

Terminate == server' = "down"

ServerAnswers(c) ==
    /\ server = "up"
    /\ c \in sent \ answered
    /\ answered' = answered \cup {c}
    /\ frames' = Append(frames, c)
    /\ UNCHANGED <<sent, denied, server, strays, loop, queues, client, channel>>

\* A frame with an unknown or used identifier, or one that cannot be read.
ServerStrays ==
    /\ server = "up" /\ strays < MaxStray
    /\ strays' = strays + 1
    /\ frames' = Append(frames, NoClient)
    /\ UNCHANGED <<server, loop, queues, client, channel, history>>

ServerExits ==
    /\ server = "up"
    /\ Terminate
    /\ UNCHANGED <<frames, strays, loop, queues, client, channel, history>>

-----------------------------------------------------------------------------
(* The Owner: start, loop and end *)

StartSucceeds ==
    /\ phase = "starting"
    /\ phase' = "serving"
    /\ UNCHANGED <<draining, current, active, cancelling, stopper, queues, pipe, client, channel, history>>

\* Both queues are failed; what is queued from here on is never looked at.
StartFails ==
    /\ phase = "starting"
    /\ Respond(Live(requests) \cup Live(controls), "not_sent")
    /\ requests' = <<>> /\ controls' = <<>>
    /\ Terminate
    /\ phase' = "exiting"
    /\ UNCHANGED <<draining, current, active, cancelling, stopper, frames, strays, client,
                   dispatched, cancelled, history>>

\* Mutant: the loop goes on with its arms while a graceful stop is pending.
StopDueNever == FALSE
\* The top of the loop turns to a pending graceful stop before anything else.
StopDue == active = NoClient /\ stopper # NoClient
Serving == phase = "serving" /\ ~StopDue

\* The loop is left; the active query, if any, is answered with a failure.
Leave ==
    /\ phase' = "closing"
    /\ active' = NoClient /\ cancelling' = FALSE /\ current' = NoClient

\* Mutant: what could not be written whole is reported as not sent.
FatalDenied(S) ==
    /\ Leave /\ Terminate
    /\ draining' = TRUE
    /\ Respond(S \cup Active \cup Live(requests) \cup Live(controls) \cup ({stopper} \ {NoClient}), "not_sent")
    /\ requests' = <<>> /\ controls' = <<>>
    /\ stopper' = NoClient
    /\ UNCHANGED <<frames, strays, cancelled>>
\* An LSP write was abandoned: nobody uses the Session any more.
Fatal(S) ==
    /\ Leave /\ Terminate
    /\ draining' = TRUE
    /\ Respond(S \cup Active \cup Live(requests) \cup Live(controls) \cup ({stopper} \ {NoClient}), "failed")
    /\ requests' = <<>> /\ controls' = <<>>
    /\ stopper' = NoClient
    /\ UNCHANGED <<frames, strays, cancelled>>

\* Mutant: only an Owner without a pending stop shuts down.
BeginShutdownIdle ==
    /\ phase = "serving" /\ active = NoClient /\ stopper = NoClient
    /\ phase' = "shutdown"
    /\ UNCHANGED <<draining, current, active, cancelling, stopper, queues, pipe, client, channel, history>>
\* graceful_shutdown, for a graceful stop or for an Owner that was idle.
BeginShutdown ==
    /\ phase = "serving" /\ active = NoClient
    /\ phase' = "shutdown"
    /\ UNCHANGED <<draining, current, active, cancelling, stopper, queues, pipe, client, channel, history>>

EndShutdown ==
    /\ phase = "shutdown"
    /\ Terminate
    /\ Respond({stopper} \ {NoClient}, "ok")
    /\ stopper' = NoClient
    /\ phase' = "closing"
    /\ UNCHANGED <<draining, current, active, cancelling, frames, strays, queues, client,
                   dispatched, cancelled, history>>

\* request_cancelled("owner_stopped"), for requests that were never dispatched.
Close ==
    /\ phase = "closing"
    /\ Respond(Live(requests), "failed")
    /\ requests' = <<>>
    /\ phase' = "exiting"
    /\ UNCHANGED <<controls, draining, current, active, cancelling, stopper, pipe, client,
                   dispatched, cancelled, history>>

\* The waits for the responses to be flushed time out, so the Owner's exit does
\* not depend on its connections.
Exit ==
    /\ phase = "exiting"
    /\ phase' = "gone"
    /\ UNCHANGED <<draining, current, active, cancelling, stopper, queues, pipe, client, channel, history>>

-----------------------------------------------------------------------------
(* The Owner: requests *)

\* The cancelled flag is read, then dispatch is signalled, whether or not the
\* connection still listens.
TakeRequest ==
    /\ Serving /\ active = NoClient /\ requests # <<>>
    /\ requests' = Tail(requests)
    /\ LET c == Head(requests)
       IN  IF cancelled[c] THEN UNCHANGED <<loop, channel>>
           ELSE /\ Signal(c)
                /\ current' = c /\ phase' = "dispatching"
                /\ UNCHANGED <<draining, active, cancelling, stopper, response, cancelled>>
    /\ UNCHANGED <<controls, pipe, client, history>>

\* Capabilities, logs, diagnostics and refresh_documents are answered at once;
\* a Query whose Documents cannot be synchronized is answered not_sent.
AnswerHere ==
    /\ phase = "dispatching"
    /\ \/ kind[current] = "local" /\ Respond({current}, "ok")
       \/ Respond({current}, "not_sent")
    /\ current' = NoClient /\ phase' = "serving"
    /\ UNCHANGED <<draining, active, cancelling, stopper, queues, pipe, client,
                   dispatched, cancelled, history>>

WriteRequest ==
    /\ phase = "dispatching" /\ kind[current] = "query"
    /\ sent' = sent \cup {current}
    /\ active' = current /\ current' = NoClient /\ phase' = "serving"
    /\ UNCHANGED <<draining, cancelling, stopper, queues, pipe, client, channel, answered, denied>>

\* The frame was refused before any byte of it was written.
WriteRefused ==
    /\ phase = "dispatching" /\ kind[current] = "query"
    /\ Respond({current}, "failed")
    /\ current' = NoClient /\ phase' = "serving"
    /\ UNCHANGED <<draining, active, cancelling, stopper, queues, pipe, client,
                   dispatched, cancelled, history>>

\* A notification before the request, or the request itself, was cut short.
WriteAbandoned ==
    /\ phase = "dispatching"
    /\ sent' \in {sent, IF kind[current] = "query" THEN sent \cup {current} ELSE sent}
    /\ Fatal({current})
    /\ UNCHANGED <<answered, denied, client, dispatched>>

-----------------------------------------------------------------------------
(* The Owner: the active query *)

\* Mutant: only a caller that left cancels its query.
CancelDisconnected ==
    /\ Serving /\ active # NoClient /\ ~cancelling
    /\ cancelled[active]
    /\ cancelling' = TRUE
    /\ UNCHANGED <<phase, draining, current, active, stopper, queues, pipe, client, channel, history>>

\* Mutant: a cancelled query makes room for the next one at once.
CancelForgets ==
    /\ Serving /\ active # NoClient /\ ~cancelling
    /\ Respond(Active, "failed")
    /\ active' = NoClient
    /\ UNCHANGED <<phase, draining, current, cancelling, stopper, queues, pipe, client,
                   dispatched, cancelled, history>>
\* The caller left, the request timed out or its partial results grew too
\* large: $/cancelRequest is written, and the query stays active until the
\* server settles it.
Cancel ==
    /\ Serving /\ active # NoClient /\ ~cancelling
    /\ cancelling' = TRUE
    /\ UNCHANGED <<phase, draining, current, active, stopper, queues, pipe, client, channel, history>>

\* The grace period passed, or $/cancelRequest could not be written.
GraceExpires ==
    /\ Serving /\ cancelling
    /\ Leave /\ Terminate
    /\ Respond(Active, "failed")
    /\ UNCHANGED <<draining, stopper, queues, frames, strays, client, dispatched, cancelled, history>>

\* A cancellation, a notification of refresh_documents (which is answered ok all
\* the same) or of the validation after a response (which is answered as a
\* failure first), an answer to a request of the server or the shutdown of an
\* idle Session was cut short.
OtherWriteAbandoned ==
    /\ Serving \/ (phase = "shutdown" /\ stopper = NoClient)
    /\ Fatal({})
    /\ UNCHANGED <<client, dispatched, history>>

\* Mutant: any response settles the active query.
ReadFrameUnmatched ==
    /\ Serving /\ frames # <<>>
    /\ frames' = Tail(frames)
    /\ Respond(Active, IF cancelling THEN "failed" ELSE "ok")
    /\ active' = NoClient /\ cancelling' = FALSE
    /\ UNCHANGED <<phase, draining, current, stopper, server, strays, queues, client,
                   dispatched, cancelled, history>>

\* A response with neither a result nor an error: its query, no longer active,
\* loses its channel, and the Session ends.
ResponseWithoutOutcome ==
    /\ ~cancelling
    /\ Leave /\ Terminate
    /\ Respond(Active, "dropped")

\* The response of the active query settles it: as the failure of its
\* cancellation, or with the result or the error of the server.  Before a result
\* is passed on, the query's Documents are refreshed: one that changed is a
\* failure, and one that cannot be read any more is answered as the refresh
\* reports it, not_sent.  Any other response ends the Session.
ReadFrame ==
    /\ Serving /\ frames # <<>>
    /\ frames' = Tail(frames)
    /\ IF Head(frames) \in Active
       THEN \/ /\ \E answer \in {"ok", "failed", "not_sent"} :
                     (cancelling => answer = "failed") /\ Respond(Active, answer)
               /\ active' = NoClient /\ cancelling' = FALSE
               /\ UNCHANGED <<phase, current, server>>
            \/ ResponseWithoutOutcome
       ELSE /\ Leave /\ Terminate
            /\ Respond(Active, "failed")
    /\ UNCHANGED <<draining, stopper, strays, queues, client, dispatched, cancelled, history>>

\* End of file, or the exit status that maintenance polls for: either can be
\* seen first, with frames still unread in the second case.
NoticeExit ==
    /\ Serving /\ server = "down"
    /\ Leave
    /\ Respond(Active \cup Live(requests), "failed")
    /\ requests' = <<>>
    /\ UNCHANGED <<controls, draining, stopper, pipe, client, dispatched, cancelled, history>>

-----------------------------------------------------------------------------
(* The Owner: Stop *)

\* Draining begins: queued requests are failed.  A forced stop fails the active
\* query too, and answers a graceful one that waits; a second graceful one is
\* refused.
TakeControl ==
    /\ Serving /\ controls # <<>>
    /\ controls' = Tail(controls)
    /\ LET c == Head(controls)
       IN  IF cancelled[c] THEN UNCHANGED <<loop, requests, server, channel>>
           ELSE /\ Signal(c)
                /\ draining' = TRUE
                /\ requests' = <<>>
                /\ \/ /\ kind[c] = "force"
                      /\ Leave /\ Terminate
                      /\ stopper' = NoClient
                      /\ response' = [d \in Client |->
                             IF ~Waiting(d) THEN response[d]
                             ELSE IF d \in Live(requests) THEN "not_sent"
                             ELSE IF d = active THEN "failed"
                             ELSE IF d \in {c, stopper} THEN "ok" ELSE response[d]]
                   \/ /\ kind[c] = "graceful" /\ stopper = NoClient
                      /\ stopper' = c
                      /\ Respond(Live(requests), "not_sent")
                      /\ UNCHANGED <<phase, current, active, cancelling, server>>
                   \/ /\ kind[c] = "graceful" /\ stopper # NoClient
                      /\ Respond(Live(requests) \cup {c}, "not_sent")
                      /\ UNCHANGED <<phase, current, active, cancelling, stopper, server>>
                /\ UNCHANGED cancelled
    /\ UNCHANGED <<frames, strays, client, history>>

-----------------------------------------------------------------------------
(* Specification *)

\* A connection's own steps; its client leaving, or its deadline, need not come.
Connection(c) ==
    Enqueue(c) \/ Receive(c) \/ SeeDispatched(c) \/ Orphaned(c)

OwnerStep ==
    \/ StartSucceeds \/ StartFails \/ BeginShutdown \/ EndShutdown \/ Close \/ Exit
    \/ TakeRequest \/ AnswerHere \/ WriteRequest \/ WriteRefused
    \/ Cancel \/ GraceExpires \/ ReadFrame \/ NoticeExit \/ TakeControl
Owner == OwnerStep \/ WriteAbandoned \/ OtherWriteAbandoned

LanguageServer == ServerStrays \/ ServerExits \/ \E c \in Client : ServerAnswers(c)

Next ==
    \/ Owner \/ LanguageServer
    \/ \E c \in Client : Connect(c) \/ Connection(c) \/ QueueDeadline(c) \/ Disconnect(c)

Spec == Init /\ [][Next]_vars

\* The loop takes an arm that is ready, every timer fires in the end, and the
\* runtime polls every connection that can go on.  Nothing is asked of the
\* language server or of the clients, and no write has to fail.
FairSpec == Spec /\ WF_vars(OwnerStep) /\ \A c \in Client : WF_vars(Connection(c))

-----------------------------------------------------------------------------
(* Properties *)

LoopOK ==
    /\ phase \in Phase
    /\ draining \in BOOLEAN /\ cancelling \in BOOLEAN
    /\ {current, active, stopper} \subseteq Client \cup {NoClient}
    /\ requests \in Seq(Client) /\ controls \in Seq(Client)
    /\ Len(requests) <= QueueLimit /\ Len(controls) <= QueueLimit
ServerOK ==
    /\ server \in {"up", "down"}
    /\ frames \in Seq(Client \cup {NoClient})
    /\ strays \in 0..MaxStray
    /\ sent \subseteq Client /\ answered \subseteq sent /\ denied \subseteq Client
ConnectionsOK ==
    /\ conn \in [Client -> {"idle", "queueing", "waiting", "awaiting", "closed"}]
    /\ kind \in [Client -> Kind]
    /\ response \in [Client -> Answer \cup {"none"}]
    /\ dispatched \in [Client -> BOOLEAN] /\ cancelled \in [Client -> BOOLEAN]

\* Types, and the bounds of the queues.
TypeOK == LoopOK /\ ServerOK /\ ConnectionsOK

\* Operations run serially (ADR 0001): however its callers leave, time out or
\* are refused, the language server never has two of their requests in hand.
Serial == server = "up" => Cardinality(sent \ answered) <= 1

\* A result is the one the language server gave to this very request.
OkMeansAnswered ==
    \A c \in Client : kind[c] = "query" /\ response[c] = "ok" => c \in answered

\* Whatever the loop was doing when it gave a request up, one that it answers
\* not_sent, which callers may repeat, is not in the server's hands and never
\* will be: no write of it was begun, or the server has answered it already (and
\* a Document could not be read afterwards).
NotSentByOwner == \A c \in Client : response[c] = "not_sent" => c \notin sent \ answered

\* From the moment a Stop is accepted, or a write to the language server is
\* abandoned, no further request is written: not even one whose connection read
\* the draining flag before it was set and queued the request after it.
DrainingSendsNothing == [][draining => sent' = sent]_vars

\* Every CLI process that is connected gets its reply or sees its connection
\* close, whatever the language server and the other clients do or omit.
CallersEnd == \A c \in Client : conn[c] # "idle" ~> conn[c] = "closed"

\* An Owner that drains exits, even with an active query nobody answers.
StopEnds == draining ~> phase = "gone"

-----------------------------------------------------------------------------
(* What the code says and the protocol does not keep *)

\* "The invocation deadline expired before the operation was dispatched", with
\* delivery not_sent and retry safe: such a request was not written to the
\* language server and is not written later.
NotSentMeansNotSent == denied \cap sent = {}

\* "Keep document_changed_while_reading with delivery: not_sent and retry: safe
\* when only synchronization notifications were sent: the requested semantic
\* Query was not sent" (docs/plans/010): the loop itself never says not_sent of a
\* query it wrote.  ReadFrame does.
NotSentMeansNeverWritten == \A c \in Client : response[c] = "not_sent" => c \notin sent

=============================================================================
