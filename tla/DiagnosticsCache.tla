--------------------------- MODULE DiagnosticsCache ---------------------------
(***************************************************************************)
(* The diagnostics an Owner remembers (src/src/workspace/diagnostics.rs):  *)
(* a bounded cache of what the server published and of what it reported    *)
(* when it was asked, least recently used out first.  A client copies the  *)
(* cache, asks with the result identifiers of its copy, and both it and    *)
(* the Owner resolve an "unchanged" report from what they have.            *)
(*                                                                         *)
(* A text stands for its digest and for the diagnostics of it.  The server *)
(* answers "unchanged" only to the identifier it gave out last for that    *)
(* Document, as servers with one result per Document do.                   *)
(***************************************************************************)
EXTENDS Integers, Sequences, FiniteSets, SequencesExt, FiniteSetsExt

CONSTANTS
    Uris,           \* the Documents, in the order of their URIs
    Texts, First,   \* texts of Documents, and the one each starts with
    Bytes,          \* serialized_bytes of the report for a text
    MaxSnapshots,   \* synchronization.max_diagnostic_snapshots
    MaxBytes,       \* synchronization.max_diagnostic_bytes
    Clients, NoClient,
    NoText,
    Budgets         \* bounds on the versions, closings, publications, copies and reports

VARIABLES
    left,       \* what is left of the budget
    history,    \* the texts of each Document the server was sent, by version
    open,       \* the Documents that are open in the server
    cache,      \* the DiagnosticCache of the Owner
    issued,     \* the last result the server gave for each Document
    copy,       \* the DiagnosticCache of a client, and the version of its Document
    asking,     \* the report under way, and the client that asked for it
    told        \* what a client was last told of its Document

vars == <<left, history, open, cache, issued, copy, asking, told>>

Doc == Range(Uris)

(* The keys of a cache, in their order.                                    *)
PushKey(uri) == <<"push", uri>>
PullKey(uri) == <<"pull", uri>>
PullKeys == [i \in DOMAIN Uris |-> PullKey(Uris[i])]
Keys == PullKeys \o [i \in DOMAIN Uris |-> PushKey(Uris[i])]

NoResult == [id |-> 0, text |-> NoText]
NoVersion == 0
NotAsking == [client |-> NoClient]
NotTold == [fresh |-> FALSE, text |-> NoText, current |-> NoText]

(* A cache has its snapshots, from the least to the most recently used,    *)
(* and total_bytes.                                                        *)
EmptyCache == [entries |-> <<>>, total |-> 0]
EmptyCopy == [cache |-> EmptyCache, uri |-> NoClient, version |-> NoVersion]

(* The version of an open Document. *)
Current(uri) == IF uri \in open THEN Len(history[uri]) ELSE NoVersion
Text(uri) == Last(history[uri])

Spend(what) == left[what] > 0 /\ left' = [left EXCEPT ![what] = @ - 1]

-----------------------------------------------------------------------------
(* The cache                                                               *)

Entry(key, text) ==
    [key |-> key, text |-> text, id |-> 0, version |-> NoVersion, received |-> NoVersion,
     closed |-> FALSE]

Known(list, key) == \E i \in DOMAIN list : list[i].key = key
Place(list, key) == CHOOSE i \in DOMAIN list : list[i].key = key
Get(list, key) == list[Place(list, key)]
Size(list) == SumFunction([entry \in Range(list) |-> Bytes[entry.text]])
Minus(m, n) == IF m >= n THEN m - n ELSE 0

(* What is known under the key goes. *)
Dropped(state, key) ==
    IF Known(state.entries, key)
    THEN [entries |-> RemoveAt(state.entries, Place(state.entries, key)),
          total |-> Minus(state.total, Bytes[Get(state.entries, key).text])]
    ELSE state

(* The oldest snapshots go until the others fit. *)
Evicted(state) ==
    LET list == state.entries
        Rest(n) == Minus(state.total, Size(SubSeq(list, 1, n)))
        Fits(n) == Len(list) - n <= MaxSnapshots /\ Rest(n) <= MaxBytes
        gone == Min({n \in 0..Len(list) : Fits(n)} \cup {Len(list)})
    IN  [entries |-> SubSeq(list, gone + 1, Len(list)), total |-> Rest(gone)]

(* store: what was known under the key goes, even when the new report is   *)
(* too large to be kept.                                                   *)
Store(state, entry) ==
    LET rest == Dropped(state, entry.key)
    IN  IF Bytes[entry.text] > MaxBytes \/ MaxSnapshots = 0 THEN rest
        ELSE Evicted([entries |-> Append(rest.entries, entry),
                      total |-> rest.total + Bytes[entry.text]])

(* export_state uses every snapshot at once; those used at the same time   *)
(* leave in the order of their keys.                                       *)
Sorted(list) ==
    FoldLeft(LAMBDA sorted, key : IF Known(list, key) THEN Append(sorted, Get(list, key)) ELSE sorted,
             <<>>, Keys)
Exported == [cache EXCEPT !.entries = Sorted(@)]

(* What published looks up is the most recently used. *)
Touched(state, key) ==
    LET list == state.entries
    IN  IF Known(list, key)
        THEN [state EXCEPT !.entries = Append(RemoveAt(list, Place(list, key)), Get(list, key))]
        ELSE state

(* mark_closed. *)
Closed(state, uri) ==
    LET list == state.entries
    IN  [state EXCEPT !.entries = [i \in DOMAIN list |->
            IF list[i].key \in {PushKey(uri), PullKey(uri)}
            THEN [list[i] EXCEPT !.closed = TRUE, !.received = NoVersion] ELSE list[i]]]

-----------------------------------------------------------------------------
(* Documents and publications                                              *)

(* A text the server is sent, with the next version. *)
Change(uri, text) ==
    /\ Spend("versions") /\ history' = [history EXCEPT ![uri] = Append(@, text)]
    /\ open' = open \cup {uri}
    /\ UNCHANGED <<cache, issued, copy, asking, told>>

(* mark_closed at the end of a Document. *)
Close(uri) ==
    /\ uri \in open /\ open' = open \ {uri} /\ Spend("closings")
    /\ cache' = Closed(cache, uri)
    /\ UNCHANGED <<history, issued, copy, asking, told>>

(* Mutant: a publication is taken to be about the current version. *)
PublishAsCurrent(uri, version, tagged) ==
    /\ Spend("publications")
    /\ cache' = Store(cache, [Entry(PushKey(uri), history[uri][version]) EXCEPT
            !.version = Current(uri), !.received = Current(uri)])
    /\ UNCHANGED <<history, open, issued, copy, asking, told>>

(* publish: the diagnostics of some version the server has had, which may  *)
(* be an old one by now, with that version or without any.                 *)
Publish(uri, version, tagged) ==
    /\ Spend("publications")
    /\ cache' = Store(cache, [Entry(PushKey(uri), history[uri][version]) EXCEPT
            !.version = IF tagged THEN version ELSE NoVersion, !.received = Current(uri)])
    /\ UNCHANGED <<history, open, issued, copy, asking, told>>

(* invalidate_pull_result_ids, on workspace/diagnostic/refresh. *)
Invalidate ==
    /\ cache' = FoldLeft(Dropped, cache, PullKeys)
    /\ UNCHANGED <<left, history, open, issued, copy, asking, told>>

-----------------------------------------------------------------------------
(* Clients                                                                 *)

(* import_state: each record is stored over what the copy has, and closes  *)
(* its Document if it was closed.                                          *)
Import(state, record) ==
    LET version == IF record.received # NoVersion THEN record.received ELSE record.version
        more == Store(state, [record EXCEPT !.closed = FALSE, !.received = version])
    IN  IF record.closed THEN Closed(more, record.key[2]) ELSE more

Imported(onto) == FoldLeft(Import, onto, Exported.entries)

(* The Diagnostics request of a client, after its Document is synchronized: *)
(* export_state on one side, import_state on the other.                     *)
CopyState(client, uri) ==
    /\ copy[client] = EmptyCopy /\ uri \in open /\ Spend("copies")
    /\ cache' = Exported
    /\ copy' = [copy EXCEPT ![client] =
            [cache |-> Imported(EmptyCache), uri |-> uri, version |-> Current(uri)]]
    /\ UNCHANGED <<history, open, issued, asking, told>>

Published(client) ==
    LET list == copy[client].cache.entries
        key == PushKey(copy[client].uri)
    IN  IF Known(list, key) THEN Get(list, key) ELSE Entry(key, NoText)

Exact(client) == Published(client).text # NoText /\ Published(client).version = copy[client].version

(* published-diagnostics looks up what was published, and copies the cache *)
(* again until that is for its version, or without one while it was current. *)
PollState(client) ==
    LET mine == copy[client]  found == Published(client)
    IN  /\ mine # EmptyCopy /\ asking.client # client /\ Spend("copies")
        /\ ~Exact(client) /\ ~(found.version = NoVersion /\ found.received = mine.version)
        /\ cache' = Exported
        /\ copy' = [copy EXCEPT ![client].cache = Imported(Touched(@, PushKey(mine.uri)))]
        /\ UNCHANGED <<history, open, issued, asking, told>>

(* What was published for exactly its version is fresh.                    *)
ReadPublished(client) ==
    /\ copy[client] # EmptyCopy /\ asking.client # client
    /\ told' =
        IF Exact(client)
        THEN [fresh |-> TRUE, text |-> Published(client).text,
              current |-> history[copy[client].uri][copy[client].version]]
        ELSE NotTold
    /\ copy' = [copy EXCEPT ![client] = EmptyCopy]
    /\ UNCHANGED <<left, history, open, cache, issued, asking>>

PreviousId(client, uri) ==
    LET list == copy[client].cache.entries
    IN  IF Known(list, PullKey(uri)) THEN Get(list, PullKey(uri)).id ELSE 0

(* The report of the server for one Document: unchanged with respect to    *)
(* the identifier it was asked with, or full under a new one.              *)
Item(uri, previous, id) ==
    IF previous # 0 /\ issued[uri] = [id |-> previous, text |-> Text(uri)]
    THEN [uri |-> uri, id |-> previous, kind |-> "unchanged", text |-> NoText]
    ELSE [uri |-> uri, id |-> id, kind |-> "full", text |-> Text(uri)]

(* The Document of the client is as it was when it was synchronized. *)
StillSame(client) ==
    /\ copy[client].uri \in open
    /\ Text(copy[client].uri) = history[copy[client].uri][copy[client].version]

Ask(client, uris, whole) ==
    LET report == [i \in DOMAIN uris |-> Item(uris[i], PreviousId(client, uris[i]), left.reports)]
    IN  /\ copy[client] # EmptyCopy /\ asking = NotAsking
        /\ Spend("reports")
        /\ issued' = [uri \in Doc |->
                IF \E i \in DOMAIN report : report[i].uri = uri /\ report[i].kind = "full"
                THEN [id |-> left.reports, text |-> Text(uri)] ELSE issued[uri]]
        /\ asking' = [client |-> client, whole |-> whole, report |-> report,
                      text |-> Text(copy[client].uri)]
        /\ UNCHANGED <<history, open, cache, copy, told>>

(* textDocument/diagnostic: the client's Document must still be the same.  *)
AskDocument(client) == StillSame(client) /\ Ask(client, <<copy[client].uri>>, FALSE)

(* workspace/diagnostic: all Documents, with all identifiers of the copy.  *)
AskWorkspace(client) == Ask(client, Uris, TRUE)

(* reconstruct_pull_report: an unchanged report takes the content known of *)
(* its Document, under the identifier it names.                            *)
Resolvable(list, item) == item.kind = "full" \/ Known(list, PullKey(item.uri))

Resolved(list, item) ==
    LET text == IF item.kind = "full" THEN item.text ELSE Get(list, PullKey(item.uri)).text
        closed == item.kind = "unchanged" /\ Get(list, PullKey(item.uri)).closed
    IN  [Entry(PullKey(item.uri), text) EXCEPT !.id = item.id, !.closed = closed]

(* apply_document_pull_report, apply_workspace_pull_report: all or nothing, *)
(* each report resolved from what was known before any of them is stored.   *)
Applied(state, report) ==
    IF \A i \in DOMAIN report : Resolvable(state.entries, report[i])
    THEN FoldLeft(LAMBDA acc, item : Store(acc, Resolved(state.entries, item)), state, report)
    ELSE state

(* The response: refused when the Document of the query changed meanwhile, *)
(* else stored (record_pull_diagnostics) and given to the client, which    *)
(* resolves it from its copy.                                              *)
SettleReport ==
    LET client == asking.client
        mine == copy[client]
        item == CHOOSE i \in DOMAIN asking.report : asking.report[i].uri = mine.uri
        accepted == asking.whole \/ StillSame(client)
        resolvable == \A i \in DOMAIN asking.report : Resolvable(mine.cache.entries, asking.report[i])
    IN  /\ asking # NotAsking /\ asking' = NotAsking
        /\ copy' = [copy EXCEPT ![client] = EmptyCopy]
        /\ cache' = IF accepted THEN Applied(cache, asking.report) ELSE cache
        /\ told' =
            IF accepted /\ resolvable
            THEN [fresh |-> TRUE, text |-> Resolved(mine.cache.entries, asking.report[item]).text,
                  current |-> asking.text]
            ELSE NotTold
        /\ UNCHANGED <<left, history, open, issued>>

Init ==
    /\ left \in Budgets
    /\ history = [uri \in Doc |-> <<First>>] /\ open = Doc
    /\ cache = EmptyCache
    /\ issued = [uri \in Doc |-> NoResult]
    /\ copy = [client \in Clients |-> EmptyCopy] /\ asking = NotAsking
    /\ told = NotTold

Next ==
    \/ \E uri \in Doc, text \in Texts : Change(uri, text)
    \/ \E uri \in Doc : Close(uri)
    \/ \E uri \in Doc : \E version \in DOMAIN history[uri], tagged \in BOOLEAN : Publish(uri, version, tagged)
    \/ \E client \in Clients, uri \in Doc : CopyState(client, uri)
    \/ \E client \in Clients : ReadPublished(client)
    \/ \E client \in Clients : PollState(client) \/ AskDocument(client) \/ AskWorkspace(client)
    \/ SettleReport

Spec == Init /\ [][Next \/ Invalidate]_vars

-----------------------------------------------------------------------------
(* Properties                                                              *)

(* What a client is told to be fresh is about the text its Document had    *)
(* when it asked, whatever other clients, closings, late publications,     *)
(* evictions and refreshes did to the Owner's cache and to the client's    *)
(* copy of it in between.  And the cache keeps to its limits: its running  *)
(* total is the size of what it holds, and no entry is there twice         *)
(* (published, reconstruct_pull_report, store).                            *)
FreshIsCurrent ==
    /\ told.fresh => told.text = told.current
    /\ cache.total = Size(cache.entries)
    /\ cache.total <= MaxBytes /\ Len(cache.entries) <= MaxSnapshots
    /\ \A i, j \in DOMAIN cache.entries : cache.entries[i].key = cache.entries[j].key => i = j
=============================================================================
