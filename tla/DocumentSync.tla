---------------------------- MODULE DocumentSync ----------------------------
(***************************************************************************)
(* The Documents of one Session: the snapshots an Owner keeps              *)
(* (DocumentStore, src/src/workspace.rs), the didOpen and didClose         *)
(* notifications that bring them to the language server, and the requests  *)
(* that need them (src/src/session/owner_runtime.rs).                      *)
(*                                                                         *)
(* The Owner prepares one request at a time.  Files may change between any *)
(* two of its steps.  A notification that cannot be written ends the       *)
(* Session, so a batch of them is delivered whole or never looked at       *)
(* again.  A path names the same file throughout: a Document that becomes  *)
(* a link to another one is left out, and so are servers that negotiated   *)
(* no openClose synchronization, which are sent nothing.                   *)
(***************************************************************************)
EXTENDS Naturals, Sequences, FiniteSets, SequencesExt

CONSTANTS
    Uris,           \* the Documents there may be, in the order of their URIs
    Text,
    Size,           \* the bytes of each text
    Unreadable,     \* missing, not UTF-8, too large or never at rest
    Closed,
    Confused,       \* a Document opened twice, or closed while it was not open
    Language,
    Inputs,         \* the lists of Documents a request may bring
    MaxOpen,        \* max_open_documents
    MaxTotal,       \* max_total_text_bytes
    MaxRequests, MaxChanges, MaxCallbacks

Doc == Range(Uris)

ASSUME ConstantAssumption ==
    /\ Uris \in Seq(Range(Uris)) /\ IsInjective(Uris)
    /\ Size \in [Text -> Nat]
    /\ Unreadable \notin Text
    /\ Closed # Confused
    /\ {Closed, Confused} \cap [text : Text, lang : Language, version : Nat] = {}
    /\ Inputs \subseteq Seq(Doc)
    /\ MaxOpen \in Nat \ {0} /\ MaxTotal \in Nat \ {0}
    /\ {MaxRequests, MaxChanges, MaxCallbacks} \subseteq Nat

VARIABLES
    file,           \* what a stable read of each path returns
    store,          \* the DocumentStore
    copy,           \* the Documents as the language server has them
    phase,
    request,        \* the request in preparation or in hand
    todo,           \* the Documents its current loop has yet to refresh
    outbox,         \* events of a batch of refreshes, not sent yet
    failed,         \* a refresh of the batch failed
    validated,      \* validated_documents of the active query
    \* history: copy when the query was written, unless edits came between, and the
    \* newest version of each Document that was ever opened
    asked, newest,
    requests, changes, callbacks

loop    == <<phase, request, todo, outbox, failed, validated>>
history == <<asked, newest>>
bounds  == <<requests, changes, callbacks>>
vars    == <<file, store, copy, loop, history, bounds>>

-----------------------------------------------------------------------------
(* The DocumentStore *)

Snapshot == [text : Text, lang : Language, version : Nat]
Phase == {"idle", "queued", "batch", "sync", "active", "commit", "validate", "closed", "down"}

\* A synchronization event says what a Document is from now on.
Event == [uri : Doc, now : Snapshot \cup {Closed}]
Closing(d) == [uri |-> d, now |-> Closed]

\* used lists the open Documents, the least recently used one first.
Store == [open : [Doc -> Snapshot \cup {Closed}], used : Seq(Doc), versions : [Doc -> Nat],
          total : Nat, pending : Seq(Event)]

Minus(a, b) == IF a >= b THEN a - b ELSE 0
Bytes(snapshot) == IF snapshot = Closed THEN 0 ELSE Size[snapshot.text]
SumOf(numbers) == FoldLeft(LAMBDA m, n : m + n, 0, numbers)
TotalBytes(open, q) == SumOf([i \in DOMAIN q |-> Bytes(open[q[i]])])

Removed(s, d) ==
    [s EXCEPT !.open[d] = Closed, !.used = RemoveFirst(@, d), !.total = Minus(@, Bytes(s.open[d]))]

CloseFailed(s, d) ==
    IF s.open[d] = Closed THEN s
    ELSE [Removed(s, d) EXCEPT !.pending = Append(@, Closing(d))]

\* Mutant: the most recently used Documents are evicted first.
VictimsLatest(s, keep) ==
    LET others == Reverse(RemoveFirst(s.used, keep))
        Enough(k) ==
            /\ Len(s.used) - k <= MaxOpen
            /\ s.total - TotalBytes(s.open, SubSeq(others, 1, k)) <= MaxTotal
    IN  SubSeq(others, 1, CHOOSE k \in 0..Len(others) : Enough(k) /\ \A j \in 0..(k - 1) : ~Enough(j))
\* Mutant: only the number of Documents is limited.
VictimsByCount(s, keep) ==
    LET others == RemoveFirst(s.used, keep)
    IN  SubSeq(others, 1, Minus(Len(s.used), MaxOpen))
\* evict_to_limits: the fewest, by age, that bring the store within its limits.
\* The Document in use fits on its own, or its refresh would have failed.
Victims(s, keep) ==
    LET others == RemoveFirst(s.used, keep)
        Enough(k) ==
            /\ Len(s.used) - k <= MaxOpen
            /\ s.total - TotalBytes(s.open, SubSeq(others, 1, k)) <= MaxTotal
    IN  SubSeq(others, 1, CHOOSE k \in 0..Len(others) : Enough(k) /\ \A j \in 0..(k - 1) : ~Enough(j))

\* Mutant: a Document that was closed starts again with its first version.
NextVersionRestarts(s, d) == IF s.open[d] = Closed THEN 1 ELSE s.open[d].version + 1
\* Versions outlive the Documents they were given to.
NextVersion(s, d) == s.versions[d] + 1

\* read_document: two attempts to read bytes that are at rest and are text.
Readable(d) == file[d] # Unreadable

Refresh(s, d, lang) ==
    LET text == file[d]
        old == s.open[d]
        same == old # Closed /\ old.text = text /\ old.lang = lang
        new == IF same THEN old ELSE [text |-> text, lang |-> lang, version |-> NextVersion(s, d)]
        entered == [s EXCEPT !.open[d] = new, !.used = Append(RemoveFirst(@, d), d),
                             !.versions[d] = IF same THEN @ ELSE new.version,
                             !.total = Minus(@, Bytes(old)) + Size[text]]
        victims == Victims(entered, d)
        replaced == IF same THEN <<>>
                    ELSE (IF old = Closed THEN <<>> ELSE <<Closing(d)>>) \o <<[uri |-> d, now |-> new]>>
    IN  IF ~(Readable(d) /\ Size[text] <= MaxTotal)
        THEN [ok |-> FALSE, store |-> CloseFailed(s, d), events |-> <<>>]
        ELSE [ok |-> TRUE, store |-> FoldLeft(Removed, entered, victims),
              events |-> replaced \o [i \in 1..Len(victims) |-> Closing(victims[i])]]

Newest(s) == [d \in Doc |-> IF s.open[d] = Closed THEN newest[d] ELSE s.open[d].version]

\* The open Documents, in the order of their URIs.
OpenDocs(open) == FoldLeft(LAMBDA q, d : IF open[d] = Closed THEN q ELSE Append(q, d), <<>>, Uris)
\* The same as the inputs of a refresh or a validation.
OpenInputs ==
    LET open == OpenDocs(store.open)
    IN  [i \in 1..Len(open) |-> [uri |-> open[i], lang |-> store.open[open[i]].lang,
                                 digest |-> store.open[open[i]].text]]
Input == [uri : Doc, lang : Language, digest : Text]

\* The language server's Documents after the notifications it is sent.
Taken(c, e) ==
    [c EXCEPT ![e.uri] = IF (e.now = Closed) # (@ = Closed) THEN e.now ELSE Confused]
After(c, events) == FoldLeft(Taken, c, events)

Request == [kind : {"none", "refresh", "diagnostics", "dispatch"}, inputs : Seq(Input),
            everything : BOOLEAN, raw : BOOLEAN]
NoRequest == [kind |-> "none", inputs |-> <<>>, everything |-> FALSE, raw |-> FALSE]
\* A request is answered, and nothing of it is kept.
Done ==
    /\ phase' = "idle" /\ request' = NoRequest
    /\ todo' = <<>> /\ validated' = <<>> /\ asked' = [d \in Doc |-> Closed]

-----------------------------------------------------------------------------
(* Files and callers *)

Init ==
    /\ file \in [Doc -> Text]
    /\ store = [open |-> [d \in Doc |-> Closed], used |-> <<>>, versions |-> [d \in Doc |-> 0],
                total |-> 0, pending |-> <<>>]
    /\ copy = [d \in Doc |-> Closed] /\ asked = copy /\ newest = [d \in Doc |-> 0]
    /\ phase = "idle"
    /\ request = NoRequest
    /\ todo = <<>> /\ outbox = <<>> /\ failed = FALSE /\ validated = <<>>
    /\ requests = 0 /\ changes = 0 /\ callbacks = 0

\* An editor, or the commit of a Mutation.
Change(d) ==
    /\ phase \notin {"closed", "down"} /\ changes < MaxChanges
    /\ changes' = changes + 1
    /\ \E text \in (Text \cup {Unreadable}) \ {file[d]} : file' = [file EXCEPT ![d] = text]
    /\ UNCHANGED <<store, copy, loop, history, requests, callbacks>>

\* A CLI process has read the Documents it brings; what it read may be stale
\* when the Owner turns to the request.
Submit(kind) ==
    /\ phase = "idle" /\ requests < MaxRequests
    /\ \E docs \in Inputs, lang \in Language, everything, raw \in BOOLEAN :
        /\ \A d \in Range(docs) : Readable(d)
        /\ kind = "refresh" => docs = <<>>
        /\ kind # "dispatch" => everything = (kind = "refresh") /\ ~raw
        /\ request' = [kind |-> kind, everything |-> everything, raw |-> raw,
                       inputs |-> [i \in 1..Len(docs) |->
                           [uri |-> docs[i], lang |-> lang, digest |-> file[docs[i]]]]]
    /\ phase' = "queued"
    /\ requests' = requests + 1
    /\ UNCHANGED <<file, store, copy, todo, outbox, failed, validated, history, changes, callbacks>>

-----------------------------------------------------------------------------
(* The Owner *)

Begin ==
    /\ phase = "queued"
    /\ IF request.everything THEN phase' = "batch" /\ todo' = OpenInputs
       ELSE phase' = "sync" /\ todo' = request.inputs
    /\ UNCHANGED <<file, store, copy, request, outbox, failed, validated, history, bounds>>

\* refresh_open_documents, one Document at a time: events wait in outbox, and
\* the closing of unreadable Documents in the store.
BatchStep ==
    /\ phase \in {"batch", "commit"} /\ todo # <<>>
    /\ LET r == Refresh(store, Head(todo).uri, Head(todo).lang)
       IN  /\ store' = r.store /\ newest' = Newest(r.store)
           /\ outbox' = outbox \o r.events
           /\ failed' = (failed \/ ~r.ok)
    /\ todo' = Tail(todo)
    /\ UNCHANGED <<file, copy, phase, request, validated, asked, bounds>>

\* The events of the batch are sent, then those that are pending.  Failures are
\* reported to the caller and keep a query from being validated against the new
\* state, but they do not stop it.
BatchEnd ==
    /\ phase \in {"batch", "commit"} /\ todo = <<>>
    /\ copy' = After(copy, outbox \o store.pending)
    /\ outbox' = <<>> /\ failed' = FALSE
    /\ store' = [store EXCEPT !.pending = <<>>]
    /\ \/ /\ phase = "commit" /\ phase' = "active"
          /\ validated' = IF failed THEN validated ELSE OpenInputs
          /\ UNCHANGED <<request, todo, asked>>
       \/ /\ phase = "batch" /\ request.kind = "dispatch" /\ phase' = "sync"
          /\ todo' = request.inputs
          /\ UNCHANGED <<request, validated, asked>>
       \/ phase = "batch" /\ request.kind = "refresh" /\ Done
    /\ UNCHANGED <<file, newest, bounds>>

\* Mutant: a text that is not the caller's is refused before it is delivered.
DeliverMatching(r, digest) ==
    IF r.ok
    THEN /\ store' = r.store
         /\ copy' = IF r.store.open[Head(todo).uri].text = digest THEN After(copy, r.events) ELSE copy
    ELSE /\ store' = [r.store EXCEPT !.pending = <<>>]
         /\ copy' = After(copy, r.store.pending)
\* What one refresh changed reaches the server whatever the caller expected.
Deliver(r, digest) ==
    IF r.ok
    THEN store' = r.store /\ copy' = After(copy, r.events)
    ELSE /\ store' = [r.store EXCEPT !.pending = <<>>]
         /\ copy' = After(copy, r.store.pending)

\* Mutant: the text of a Document is not compared.
AcceptableAlways(r, input) == r.ok
\* A raw request reports changes after its response instead of failing.
Acceptable(r, input) ==
    r.ok /\ (r.store.open[input.uri].text = input.digest \/ (phase = "validate" /\ request.raw))

\* synchronize_documents and validate_documents_after_query, one Document at a
\* time; the first failure or difference answers the request.
SyncStep ==
    /\ phase \in {"sync", "validate"} /\ todo # <<>>
    /\ LET input == Head(todo)
           r == Refresh(store, input.uri, input.lang)
       IN  /\ Deliver(r, input.digest)
           /\ newest' = Newest(r.store)
           /\ IF Acceptable(r, input) THEN todo' = Tail(todo) /\ UNCHANGED <<phase, request, validated, asked>>
              ELSE Done
    /\ UNCHANGED <<file, outbox, failed, bounds>>

\* The query is written.
Send ==
    /\ phase = "sync" /\ todo = <<>> /\ request.kind = "dispatch"
    /\ phase' = "active"
    /\ validated' = IF request.everything THEN OpenInputs ELSE request.inputs
    /\ asked' = copy
    /\ UNCHANGED <<file, store, copy, request, todo, outbox, failed, newest, bounds>>

\* The cached diagnostics are answered, or the query is refused as too large.
Answer ==
    /\ phase = "sync" /\ todo = <<>>
    /\ Done
    /\ UNCHANGED <<file, store, copy, outbox, failed, newest, bounds>>

\* The server had a preauthorized edit applied while it works on the query:
\* synchronize_documents_after_commit.
Commit ==
    /\ phase = "active" /\ callbacks < MaxCallbacks
    /\ callbacks' = callbacks + 1
    /\ phase' = "commit" /\ todo' = OpenInputs
    /\ asked' = [d \in Doc |-> Closed]
    /\ UNCHANGED <<file, store, copy, request, outbox, failed, validated, newest, requests, changes>>

\* A result has to be validated; an error or a cancellation has not.
Respond ==
    /\ phase = "active"
    /\ \/ phase' = "validate" /\ todo' = validated /\ UNCHANGED <<request, validated, asked>>
       \/ Done
    /\ UNCHANGED <<file, store, copy, outbox, failed, newest, bounds>>

Succeed ==
    /\ phase = "validate" /\ todo = <<>>
    /\ Done
    /\ UNCHANGED <<file, store, copy, outbox, failed, newest, bounds>>

\* graceful_shutdown closes every Document before the shutdown request.
Shutdown ==
    /\ phase = "idle"
    /\ LET open == OpenDocs(store.open)
       IN  copy' = After(copy, store.pending \o [i \in 1..Len(open) |-> Closing(open[i])])
    /\ store' = [store EXCEPT !.open = [d \in Doc |-> Closed], !.used = <<>>, !.total = 0, !.pending = <<>>]
    /\ phase' = "closed"
    /\ UNCHANGED <<file, request, todo, outbox, failed, validated, history, bounds>>

\* A notification could not be written, or the server exited: the Session ends.
End ==
    /\ phase \notin {"closed", "down"}
    /\ phase' = "down"
    /\ UNCHANGED <<file, store, copy, request, todo, outbox, failed, validated, history, bounds>>

Next ==
    \/ \E d \in Doc : Change(d)
    \/ \E kind \in {"refresh", "diagnostics", "dispatch"} : Submit(kind)
    \/ Begin \/ BatchStep \/ BatchEnd \/ SyncStep \/ Send \/ Answer \/ Commit \/ Respond \/ Succeed
    \/ Shutdown \/ End

Spec == Init /\ [][Next]_vars

-----------------------------------------------------------------------------
(* Properties *)

\* Types, and the bounds of the environment.
TypeOK ==
    /\ file \in [Doc -> Text \cup {Unreadable}]
    /\ store \in Store /\ request \in Request
    /\ copy \in [Doc -> Snapshot \cup {Closed, Confused}] /\ asked \in [Doc -> Snapshot \cup {Closed, Confused}]
    /\ newest \in [Doc -> Nat]
    /\ phase \in Phase
    /\ todo \in Seq(Input) /\ validated \in Seq(Input)
    /\ outbox \in Seq(Event) /\ failed \in BOOLEAN
    /\ requests \in 0..MaxRequests /\ changes \in 0..MaxChanges /\ callbacks \in 0..MaxCallbacks

\* Evictions keep the store within max_open_documents and max_total_text_bytes,
\* and its running total is the size of what it holds, after any sequence of
\* refreshes, failures and evictions; and everything keeps its type.
WithinLimits ==
    /\ TypeOK
    /\ Len(store.used) <= MaxOpen
    /\ store.total <= MaxTotal
    /\ store.total = TotalBytes(store.open, store.used)
    /\ IsInjective(store.used) /\ Range(store.used) = {d \in Doc : store.open[d] # Closed}

\* What the language server has, and will have after the events that are still
\* to be sent, is the store: no transition is lost or sent out of order, nothing
\* is opened twice or closed unopened ("A DocumentStore transition may not
\* survive into another Query unless all of its synchronization events were
\* delivered", docs/plans/010).
ServerSeesStore == phase # "down" => After(copy, outbox \o store.pending) = store.open

\* A list of Documents that fit into the store together.
Fit(inputs) ==
    Len(inputs) <= MaxOpen /\ SumOf([i \in DOMAIN inputs |-> Size[inputs[i].digest]]) <= MaxTotal

\* When a query is written, the server has every Document it came with, with the
\* text and the language of its caller, if they fit.
SentCurrent ==
    LET inputs == request.inputs
    IN  phase = "sync" /\ todo = <<>> /\ Fit(inputs) =>
            \A i \in 1..Len(inputs) :
                /\ copy[inputs[i].uri] \in Snapshot
                /\ copy[inputs[i].uri].text = inputs[i].digest
                /\ copy[inputs[i].uri].lang = inputs[i].lang

\* A named query succeeds only if the server kept the very Documents it was
\* asked about, at the same version, until its answer was accepted (unless it
\* edited them itself).
StableAnswer ==
    phase = "validate" /\ todo = <<>> /\ ~request.raw /\ Fit(validated) =>
        \A i \in 1..Len(validated) :
            LET d == validated[i].uri IN asked[d] # Closed => copy[d] = asked[d]

\* A Document is never opened at a version it had before, nor at an older one, not
\* even after it was closed, evicted or unreadable in between: late diagnostics
\* cannot be taken for those of the new text.
VersionsGrow ==
    [][\A d \in Doc :
           store'.open[d] \notin {store.open[d], Closed} => store'.open[d].version > newest[d]]_vars

=============================================================================
