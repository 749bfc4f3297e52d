---------------------------- MODULE ServerRequests ----------------------------
(***************************************************************************)
(* The requests a language server makes of the Owner                       *)
(* (src/src/session/owner_runtime.rs): one loop reads the frames of the    *)
(* server, queues its requests, answers them one at a time, and meanwhile  *)
(* serves the one query of a client that is active.  workspace/applyEdit   *)
(* changes files when that query is a command whose caller preauthorized   *)
(* its edits; otherwise it becomes a Preview.                              *)
(*                                                                         *)
(* The server keeps to the protocol: it uses an identifier again only once *)
(* it has the answer, and its responses have a result or an error.  A      *)
(* write to it arrives at once, what it writes travels through pipe.       *)
(***************************************************************************)
EXTENDS Integers, Sequences, FiniteSets, SequencesExt, FiniteSetsExt, Functions

CONSTANTS
    Ids,            \* identifiers of server requests
    NoId,           \* an identifier of no valid type
    Plots,          \* what may happen in a run: the queries clients send, in order,
                    \* whether each preauthorizes its edits; what the server asks, how
                    \* often; how often it cancels
    RequestLimit,   \* SERVER_REQUEST_LIMIT
    MaxCallbacks,   \* mutation.max_preauthorized_callbacks
    MaxEntries      \* mutation.max_entries, the budget of a command's edits

Kinds == {"edit", "malformed_edit", "refresh", "call"}

ASSUME RequestAssumption ==
    /\ NoId \notin Ids
    /\ RequestLimit \in Nat \ {0} /\ MaxCallbacks \in Nat /\ MaxEntries \in Nat
    /\ \A plot \in Plots :
        /\ plot.queries \in Seq(BOOLEAN) /\ plot.kinds \subseteq Kinds
        /\ plot.asks \in Nat /\ plot.cancels \in Nat

VARIABLES
    plot,
    \* the server
    asked,        \* its requests, the serial number being the index
    answers,      \* what it read in answer to each
    serving,      \* the query it works on, or 0
    cancels,      \* the cancellations it sent
    pipe,         \* the frames it wrote that the Owner has not taken
    \* the Owner
    at,           \* where its task is
    mode,         \* "serving", or "closing" inside graceful_shutdown
    order,        \* server_request_order
    pending,      \* server_requests: the serial number under each identifier, or 0
    processing,   \* processing_server_requests, or 0
    result,       \* the response to be written
    drained,      \* frames taken in this drain
    active,       \* the active query, or 0
    next,         \* the next query in the queue
    ledger,       \* its apply_edit_ledger
    usage,        \* its preauthorized_usage
    replies,      \* the ledger each client was given
    applied       \* history: the edits written to the files, and for which query

server == <<asked, answers, serving, cancels>>
queue == <<order, pending>>
query == <<active, next, ledger, usage, replies, applied>>
vars == <<plot, server, pipe, at, mode, queue, processing, result, drained, query>>

Over == {"dead", "ended"}
Serials == 1..Len(asked)
NoReply == "none"

-----------------------------------------------------------------------------
(* The server                                                              *)

Answered(s) == answers[s] # <<>>

Ask(id, what) ==
    /\ at \notin Over /\ Len(asked) < plot.asks /\ what \in plot.kinds
    /\ \A s \in Serials : asked[s].id = id => Answered(s)
    /\ asked' = Append(asked, [id |-> id, what |-> what, during |-> serving])
    /\ answers' = Append(answers, <<>>)
    /\ pipe' = Append(pipe, [kind |-> "request", serial |-> Len(asked) + 1])
    /\ UNCHANGED <<plot, serving, cancels, at, mode, queue, processing, result, drained, query>>

CancelAsked(s) ==
    /\ at \notin Over /\ cancels < plot.cancels
    /\ ~Answered(s) /\ asked[s].id # NoId
    /\ cancels' = cancels + 1
    /\ pipe' = Append(pipe, [kind |-> "cancel", id |-> asked[s].id])
    /\ UNCHANGED <<plot, asked, answers, serving, at, mode, queue, processing, result, drained, query>>

(* The server answers the query it works on, or the shutdown request. *)
Respond ==
    /\ at \notin Over /\ serving # 0
    /\ serving' = 0
    /\ pipe' = Append(pipe, [kind |-> "response", query |-> serving])
    /\ UNCHANGED <<plot, asked, answers, cancels, at, mode, queue, processing, result, drained, query>>

-----------------------------------------------------------------------------
(* The end of a Session                                                    *)

(* fail_active_queries: whoever waits is told, with the ledger so far. *)
FailActive ==
    /\ replies' = IF active = 0 THEN replies ELSE [replies EXCEPT ![active] = ledger]
    /\ active' = 0 /\ ledger' = <<>> /\ usage' = 0 /\ UNCHANGED <<next, applied>>

(* An error the loop makes of a frame: the process tree is terminated.     *)
(* Inside graceful_shutdown it only ends the wait.                         *)
Terminate ==
    /\ at' = "dead" /\ FailActive
    /\ pipe' = <<>> /\ order' = <<>> /\ pending' = [id \in Ids |-> 0]
    /\ processing' = 0 /\ result' = NoReply /\ drained' = 0
    /\ UNCHANGED <<plot, server, mode>>

(* The server exits, or a write fails, at any moment. *)
SessionLost == at \notin Over /\ Terminate

-----------------------------------------------------------------------------
(* Frames                                                                  *)

Busy == {id \in Ids : pending[id] # 0}
ProcessingId == IF processing = 0 THEN NoId ELSE asked[processing].id

Room == Cardinality(Busy) + (IF processing = 0 THEN 0 ELSE 1) < RequestLimit

Answer(s, code) == answers' = [answers EXCEPT ![s] = Append(@, code)]

(* queue_server_request. *)
Reused(s) == asked[s].id # NoId /\ (asked[s].id \in Busy \/ asked[s].id = ProcessingId)

QueueRequest(s) ==
    LET id == asked[s].id IN
    /\ \/ id = NoId /\ Answer(s, "invalid_request") /\ UNCHANGED queue
       \/ id # NoId /\ ~Room /\ Answer(s, "client_busy") /\ UNCHANGED queue
       \/ /\ id # NoId /\ Room
          /\ order' = Append(order, id) /\ pending' = [pending EXCEPT ![id] = s]
          /\ UNCHANGED answers
    /\ UNCHANGED query

(* Mutant: the cancelled request stays in the table. *)
CancelRequestKept(id) ==
    /\ IF id \in Busy THEN Answer(pending[id], "request_cancelled") ELSE UNCHANGED answers
    /\ UNCHANGED <<queue, query>>

(* Mutant: the answer is left to the turn of the request. *)
CancelRequestUnanswered(id) ==
    /\ UNCHANGED answers
    /\ pending' = [pending EXCEPT ![id] = 0]
    /\ UNCHANGED <<order, query>>

(* cancel_server_request: what is no longer queued is left alone, and the  *)
(* identifier stays in the order queue.                                    *)
CancelRequest(id) ==
    /\ IF id \in Busy THEN Answer(pending[id], "request_cancelled") ELSE UNCHANGED answers
    /\ pending' = [pending EXCEPT ![id] = 0]
    /\ UNCHANGED <<order, query>>

(* The response to the active query settles it, its ledger included. *)
Settle(q) ==
    /\ replies' = [replies EXCEPT ![q] = ledger]
    /\ active' = 0 /\ ledger' = <<>> /\ usage' = 0
    /\ UNCHANGED <<next, applied, answers, queue>>

Unexpected(frame) ==
    \/ frame.kind = "request" /\ Reused(frame.serial)
    \/ frame.kind = "response" /\ (active = 0 \/ frame.query # active)

(* handle_concurrent_frame, and the frames of graceful_shutdown. *)
HandleFrame(frame) ==
    \/ frame.kind = "request" /\ QueueRequest(frame.serial)
    \/ frame.kind = "cancel" /\ CancelRequest(frame.id)
    \/ frame.kind = "response" /\ Settle(frame.query)

Draining == {"drain", "redrain"}

(* One frame of the loop, or of drain_reader_frames, which takes no more   *)
(* of them than the limit.                                                 *)
TakeFrame ==
    /\ at \in {"select"} \cup Draining /\ pipe # <<>>
    /\ LET frame == Head(pipe)
           count == IF at \in Draining THEN drained + 1 ELSE drained
       IN  \/ (count > RequestLimit \/ Unexpected(frame)) /\ Terminate
           \/ /\ count <= RequestLimit /\ ~Unexpected(frame)
              /\ pipe' = Tail(pipe)
              /\ HandleFrame(frame) /\ drained' = count
              /\ UNCHANGED <<plot, asked, serving, cancels, at, mode, processing, result>>

-----------------------------------------------------------------------------
(* The requests of clients                                                 *)

(* start_dispatch: one query at a time. *)
Dispatch ==
    /\ at = "select" /\ mode = "serving" /\ active = 0 /\ next <= Len(plot.queries)
    /\ active' = next /\ next' = next + 1 /\ serving' = next
    /\ UNCHANGED <<plot, asked, answers, cancels, pipe, at, mode, queue, processing, result,
                   drained, ledger, usage, replies, applied>>

(* The idle timer or a Stop: graceful_shutdown. *)
Shutdown ==
    /\ at = "select" /\ mode = "serving" /\ active = 0
    /\ mode' = "closing"
    /\ UNCHANGED <<plot, server, pipe, at, queue, processing, result, drained, query>>

(* The response to shutdown, or its deadline. *)
EndShutdown ==
    /\ at = "select" /\ mode = "closing"
    /\ at' = "ended"
    /\ UNCHANGED <<plot, server, pipe, mode, queue, processing, result, drained, query>>

-----------------------------------------------------------------------------
(* The requests of the server                                              *)

(* handle_apply_edit_callback: the active query is taken for the command   *)
(* that the edit belongs to.                                               *)
Preauthorized == active # 0 /\ plot.queries[active]
MayApply == Preauthorized /\ Len(ledger) < MaxCallbacks

(* Mutant: what earlier edits used up is forgotten. *)
RemainingInitially == MaxEntries
Remaining == MaxEntries - usage

Note(s, outcome) ==
    ledger' = IF active = 0 THEN ledger ELSE Append(ledger, [serial |-> s, outcome |-> outcome])

Decline(s, outcome, code) ==
    /\ Note(s, outcome) /\ result' = code /\ UNCHANGED <<usage, applied>>

ApplyEdit(s) ==
    \E cost \in 1..Remaining :
        /\ usage' = usage + cost
        /\ applied' = applied \cup {[serial |-> s, query |-> active, cost |-> cost]}
        /\ Note(s, "applied") /\ result' = "applied"

HandleEdit(s) ==
    \/ asked[s].what = "malformed_edit" /\ Decline(s, "rejected", "invalid_params")
    \/ /\ asked[s].what = "edit" /\ ~Preauthorized
       /\ \E outcome \in {"previewed", "rejected"} : Decline(s, outcome, "not_applied")
    \/ /\ asked[s].what = "edit" /\ Preauthorized /\ ~MayApply
       /\ Decline(s, "rejected", "not_applied")
    \/ /\ asked[s].what = "edit" /\ MayApply
       /\ ApplyEdit(s) \/ Decline(s, "rejected", "not_applied")

(* route_server_request: everything else is answered from what the Owner   *)
(* has.                                                                    *)
RouteRequest == result' = "answered" /\ UNCHANGED <<ledger, usage, applied>>

(* process_next_server_request up to its first wait. *)
ProcessTombstone ==
    /\ at = "select" /\ order # <<>> /\ pending[Head(order)] = 0
    /\ order' = Tail(order)
    /\ UNCHANGED <<plot, server, pipe, at, mode, pending, processing, result, drained, query>>

ProcessRequest ==
    /\ at = "select" /\ order # <<>> /\ pending[Head(order)] # 0
    /\ LET id == Head(order)  s == pending[Head(order)]
       IN  /\ order' = Tail(order) /\ pending' = [pending EXCEPT ![id] = 0]
           /\ processing' = s
           /\ IF asked[s].what \in {"edit", "malformed_edit"} THEN HandleEdit(s) ELSE RouteRequest
    /\ at' = IF mode = "serving" THEN "drain" ELSE "write"
    /\ UNCHANGED <<plot, server, pipe, mode, drained, active, next, replies>>

(* The reader pump is quiescent: nothing more can be read. *)
EndDrain ==
    /\ at = "drain" /\ pipe = <<>>
    /\ at' = "write" /\ drained' = 0
    /\ UNCHANGED <<plot, server, pipe, mode, queue, processing, result, query>>

Finish == processing' = 0 /\ result' = NoReply /\ at' = "select"

WriteAnswer ==
    /\ at = "write"
    /\ Answer(processing, result)
    /\ IF mode = "serving" THEN at' = "redrain" /\ UNCHANGED <<processing, result>> ELSE Finish
    /\ UNCHANGED <<plot, asked, serving, cancels, pipe, mode, queue, drained, query>>

EndRedrain ==
    /\ at = "redrain" /\ pipe = <<>>
    /\ Finish /\ drained' = 0
    /\ UNCHANGED <<plot, server, pipe, mode, queue, query>>

-----------------------------------------------------------------------------
Init ==
    /\ plot \in Plots
    /\ asked = <<>> /\ answers = <<>> /\ serving = 0 /\ cancels = 0 /\ pipe = <<>>
    /\ at = "select" /\ mode = "serving"
    /\ order = <<>> /\ pending = [id \in Ids |-> 0] /\ processing = 0
    /\ result = NoReply /\ drained = 0
    /\ active = 0 /\ next = 1 /\ ledger = <<>> /\ usage = 0
    /\ replies = [q \in DOMAIN plot.queries |-> <<>>] /\ applied = {}

Server ==
    \/ \E id \in Ids \cup {NoId}, what \in Kinds : Ask(id, what)
    \/ \E s \in Serials : CancelAsked(s)
    \/ Respond

(* What the Owner does by itself, once it can. *)
Owner ==
    \/ TakeFrame \/ ProcessTombstone \/ ProcessRequest
    \/ EndDrain \/ WriteAnswer \/ EndRedrain

Next == Server \/ Owner \/ Dispatch \/ Shutdown \/ EndShutdown \/ SessionLost

Spec == Init /\ [][Next]_vars

-----------------------------------------------------------------------------
(* Properties                                                              *)

Entry == [serial : Nat \ {0}, outcome : {"applied", "previewed", "rejected"}]

(* Types.  At most one request is in process, and only while it is.        *)
TypeOK ==
    /\ plot \in Plots
    /\ asked \in Seq([id : Ids \cup {NoId}, what : Kinds, during : Nat])
    /\ Len(answers) = Len(asked)
    /\ serving \in 0..Len(plot.queries) /\ cancels \in 0..plot.cancels
    /\ at \in {"select", "drain", "write", "redrain"} \cup Over
    /\ mode \in {"serving", "closing"}
    /\ order \in Seq(Ids) /\ pending \in [Ids -> 0..Len(asked)]
    /\ processing \in 0..Len(asked)
    /\ at # "dead" => (processing = 0 <=> at \in {"select", "ended"})
    /\ drained \in 0..RequestLimit
    /\ active \in 0..Len(plot.queries) /\ next \in 1..Len(plot.queries) + 1
    /\ ledger \in Seq(Entry) /\ usage \in 0..MaxEntries

Travelling == {pipe[i].serial : i \in {j \in DOMAIN pipe : pipe[j].kind = "request"}}
Waiting == {s \in Serials : asked[s].id # NoId /\ pending[asked[s].id] = s}
InProcess == IF at \in {"drain", "write"} THEN {processing} ELSE {}

(* Every request of the server is answered once or is in exactly one place *)
(* where its turn still comes: on its way, in the table with its           *)
(* identifier in the order queue, or in process.  Cancellations, answers   *)
(* to invalid or superfluous requests and identifiers used again, also     *)
(* while their tombstone is still queued, leave none behind and answer     *)
(* none twice; and what the Owner holds stays within its limit             *)
(* (queue_server_request, cancel_server_request,                           *)
(* process_next_server_request).                                           *)
EachInOnePlace ==
    at \notin Over =>
        /\ \A s \in Serials :
            /\ Len(answers[s]) + Cardinality({place \in {1, 2, 3} :
                    s \in (<<Travelling, Waiting, InProcess>>)[place]}) = 1
            /\ s \in Waiting => asked[s].id \in Range(order)
        /\ Cardinality(Waiting) + (IF processing = 0 THEN 0 ELSE 1) <= RequestLimit

EditsFor(q) == {edit \in applied : edit.query = q}

Reported(edit, log) == \E i \in DOMAIN log : log[i] = [serial |-> edit.serial, outcome |-> "applied"]

(* Whoever sent the command learns of each edit that was applied under it, *)
(* however its Session ends: the edit is in the ledger that is or will be  *)
(* part of the reply, and the server is never told anything else of it     *)
(* than that it was applied (handle_apply_edit_callback,                   *)
(* attach_dispatch_evidence).                                              *)
EditsAreReported ==
    \A s \in Serials :
        LET edits == {edit \in applied : edit.serial = s} IN
        /\ Cardinality(edits) <= 1
        /\ \A edit \in edits :
            Reported(edit, IF edit.query = active THEN ledger ELSE replies[edit.query])
        /\ Answered(s) => (answers[s] = <<"applied">> <=> edits # {})

(* All edits applied under one command keep within the budget its caller   *)
(* preauthorized: their number and what they cost together.                *)
WithinPreauthorization ==
    \A q \in DOMAIN plot.queries :
        /\ EditsFor(q) # {} => plot.queries[q]
        /\ Cardinality(EditsFor(q)) <= MaxCallbacks
        /\ SumFunction([edit \in EditsFor(q) |-> edit.cost]) <= MaxEntries

(* A caller preauthorizes the "edits requested during one language-server  *)
(* command" (docs/adr/0004): no other edit is applied for it.              *)
EditsOfTheirCommand == \A edit \in applied : asked[edit.serial].during = edit.query
=============================================================================
