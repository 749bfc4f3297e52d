------------------------------ MODULE OwnerFrames ------------------------------
(***************************************************************************)
(* One Owner loop reads the frames of its language server                  *)
(* (src/src/session/owner_runtime.rs): the server's requests and what it   *)
(* reports of Documents.  ServerRequests and DiagnosticsCache share the    *)
(* loop, its one active query, and workspace/diagnostic/refresh, a request *)
(* whose routing empties part of the cache.                                *)
(***************************************************************************)
EXTENDS ServerRequests

CONSTANTS
    Uris, Texts, First, Bytes, MaxSnapshots, MaxBytes, Clients, NoClient, NoText, Budgets,
    Scenes          \* which plots of the one run with which budgets of the other

VARIABLES left, history, open, cache, issued, copy, asking, told

D == INSTANCE DiagnosticsCache

ASSUME SceneAssumption ==
    /\ Scenes \subseteq Plots \X Budgets
    /\ Uris \in Seq(Range(Uris)) /\ IsInjective(Uris)
    /\ Bytes \in [Texts -> Nat] /\ MaxSnapshots \in Nat /\ MaxBytes \in Nat
    /\ First \in Texts /\ NoText \notin Texts /\ NoClient \notin Clients
    /\ Budgets \subseteq [versions : Nat, closings : Nat, publications : Nat, copies : Nat, reports : Nat]

diagnostics == <<left, history, open, cache, issued, copy, asking, told>>

(* The request at the head of the queue asks for a refresh. *)
RefreshNext ==
    /\ order # <<>> /\ pending[Head(order)] # 0
    /\ asked[pending[Head(order)]].what = "refresh"

(* route_server_request. *)
RouteRefresh == IF RefreshNext THEN D!Invalidate ELSE UNCHANGED diagnostics

(* What the loop does of its own accord once it can. *)
Loop ==
    \/ ProcessRequest /\ RouteRefresh
    \/ /\ TakeFrame \/ ProcessTombstone \/ EndDrain \/ WriteAnswer \/ EndRedrain
       /\ UNCHANGED diagnostics

Others ==
    /\ Server \/ Dispatch \/ Shutdown \/ EndShutdown \/ SessionLost
    /\ UNCHANGED diagnostics

(* The loop between two requests. *)
Idle == at = "select" /\ mode = "serving" /\ active = 0

(* Documents change and clients ask when the loop takes their requests;    *)
(* publications and reports are frames, taken in a drain too.              *)
Diagnostics ==
    /\ \/ /\ Idle
          /\ \/ \E uri \in D!Doc, text \in Texts : D!Change(uri, text)
             \/ \E uri \in D!Doc : D!Close(uri)
             \/ \E client \in Clients, uri \in D!Doc : D!CopyState(client, uri)
             \/ \E client \in Clients : D!PollState(client)
             \/ \E client \in Clients : D!AskDocument(client) \/ D!AskWorkspace(client)
       \/ /\ at \in {"select", "drain", "redrain"}
          /\ \/ \E uri \in D!Doc : \E version \in DOMAIN history[uri], tagged \in BOOLEAN :
                    D!Publish(uri, version, tagged)
             \/ D!SettleReport
       \/ \E client \in Clients : D!ReadPublished(client)
    /\ UNCHANGED vars

FramesInit == Init /\ D!Init /\ <<plot, left>> \in Scenes

FramesNext == Loop \/ Others \/ Diagnostics

FramesSpec == FramesInit /\ [][FramesNext]_<<vars, diagnostics>>

(* The loop runs, and every write of it ends or times out.  Nobody has to  *)
(* ask, to answer or to exit.                                              *)
FairFrames == FramesSpec /\ WF_<<vars, diagnostics>>(Loop)

-----------------------------------------------------------------------------
(* Properties                                                              *)

(* A client learns of every edit applied under its command, and all of     *)
(* them keep within what it preauthorized (handle_apply_edit_callback).    *)
EditsAreAccounted == EditsAreReported /\ WithinPreauthorization

(* What a client is told to be fresh is about the text its Document had,   *)
(* and the cache keeps to its limits (store, published, apply_pull_report).*)
FreshIsCurrent == D!FreshIsCurrent

(* As long as the Session lives, no request of the server stays unanswered *)
(* for ever: not a cancelled one, not one whose identifier was used        *)
(* before, not one behind tombstones (process_next_server_request).        *)
AllAnswered == []<>(at \in Over \/ \A s \in Serials : Answered(s))
=============================================================================
