# TLA+ verification of lspctl

`lspctl` is a command-line client for language servers. Every invocation is a
short-lived process. What must outlive it is held in two places: a background
*Owner* process per *Session* that keeps one language server running, and a
store of JSON records through which edits proposed by the server are previewed,
applied, recorded and recovered. This directory models these two in TLA+: the
planning of an edit, its application down to the system calls on the files and
its recovery; how Owners are found, started and stopped under Trust; what an
Owner exchanges with its clients and its server. It checks the models with TLC on
small instances, and proves the most important safety properties with TLAPS for
instances of any size.

All line numbers refer to `src/`; `PROJECT.json` maps each definition to the
lines it stands for.

## 1. Inventory

| Component | State it keeps | Operations | Hard behaviour | What makes it correct |
|---|---|---|---|---|
| Application and Recovery (`mutation/application.rs`) | the transaction journal, `commit-progress.json`, artifacts, the files | stage, commit, apply, rollback, status, recover (rollback, accept-current) | crashes between durable writes and between system calls, failing steps, other processes, editors | at most once; journal before effects; commit and rollback end exactly; no partial state without an open journal; Receipts that tell the truth |
| Mutation state store (`mutation/state.rs`) | Previews, journals, Receipts, one advisory lock per Workspace | reserve, release, retire, discard, write, prune | unlocked reads, expiry during a transaction, count limits | no record lost while it is the only evidence |
| Mutation commands (`mutation.rs`) | none | drive the two above | order of checks and locks | as above |
| Edit planner (`mutation/planner.rs`) | a `VirtualWorkspace` of what it loaded and changed, for one edit | plan text, create, rename and delete operations, finish the two manifests; replay the texts when they are staged | trees loaded lazily and moved virtually, overlapping edits, characters of two units, limits | the plan is what the edit means; nothing legal is refused for a wrong reason |
| Owner loop, connections (`session/owner_runtime.rs`, `owner_protocol.rs`) | two queues, active query, draining flag, pending Stop; per request three channels | dispatch, cancel, read frame, stop, exit | select races, deadlines, abandoned writes, silent servers | serial dispatch; honest delivery; every caller and every Stop ends |
| Session startup (`session.rs`, both ends of `run_owner`) | startup lock, Owner lock, endpoint file, launch file | connect or start, list, stop, restart | several processes start one Owner; stale endpoints; probes that time out; a start that races a Stop | one serving Owner per Session; a Stop and a restart did what they report |
| Documents (`workspace.rs`) | open Documents, versions, sizes, pending events | synchronize, refresh, evict, close | eviction in the middle of a request, changed files | the server's copy is what the digest says |
| Diagnostics cache (`workspace/diagnostics.rs`) | push and pull snapshots | publish, pull, close, export, import | late and versionless reports | a fresh report belongs to the current version |
| Server requests (in `owner_runtime.rs`) | a queue, a set in process, tombstones | queue, cancel, answer, apply edits | identifier reuse, cancellation while in process | every request answered exactly once |
| JSON-RPC transport (`json_rpc_transport.rs`) | one `reusable` bit | write, read a frame | a write cut short by its deadline | nothing follows a partial frame |
| Trust (`configuration/trust.rs`) | the trust file and its lock | grant, deny, revoke, authorize | a start that races a revocation; one file for all Workspaces | no record lost; a revocation stops what it no longer trusts |
| Skill installation (`skill_install.rs`) | a directory, a stage, a backup, a journal | install, upgrade, recover | crash between two renames | old or new installation, never neither |
| Configuration, capabilities, queries, CLI, contract, log, permissions, supervision | none shared, or operating-system calls | | | not protocols |

How they interact: a command resolves configuration and trust, connects to the
Owner or starts it (endpoint file, locks), and exchanges one request with it
over TCP. The Owner synchronizes Documents, writes the request to the language
server and settles it when the response comes. An edit in the answer becomes a
Preview record. `apply` locks the Workspace, journals, changes the files and
writes a Receipt, then asks live Owners to refresh their Documents.

## 2. Modules

    SerialCommits                   what Applications promise of the files (abstract)
    WorkspaceTransaction            Application, Recovery and the state store
      implements SerialCommits      (INSTANCE ... WITH, CommitsAreSerial)
      MCWorkspaceTransaction        instances for TLC
      WorkspaceTransaction_proofs   theorems: transactions, the refinement, records and files
    FileTree                        a small file system and what an edit does to it
      FileEffects                   staging, commit and rollback, system call by system call
        MCFileEffects               instances for TLC
        FileEffects_proofs          theorems
      EditPlanner                   from a WorkspaceEdit to a plan; also EXTENDS TextEdits
        MCEditPlanner               instances for TLC
    TextEdits                       positions, ranges, overlaps, the edited text
    OwnerDispatch                   Owner loop, connections, server
      MCOwnerDispatch               instances for TLC
      OwnerDispatch_proofs          theorems
    ServerRequests                  what the server asks of the Owner, and its edits
    DiagnosticsCache                what the Owner and its clients remember of diagnostics
    OwnerFrames                     the composition of the two in one loop
      MCOwnerFrames                 instances for TLC
      OwnerFrames_proofs            theorems of ServerRequests, and of the composition
    DocumentSync                    the Owner's Documents and the server's copies
      MCDocumentSync                instances for TLC
      DocumentSync_proofs           theorems
    FoldTheorems                    facts about folds and sums, for the proofs of DocumentSync,
                                    OwnerFrames and FileEffects
    OwnerLifecycle                  finding, starting, stopping Owners; Trust
      MCOwnerLifecycle              instances for TLC
      OwnerLifecycle_proofs         theorems
    SkillInstall                    the installation of the companion skill
      MCSkillInstall                instances for TLC
      SkillInstall_proofs           theorems

### WorkspaceTransaction

*State.* `preview`, `journal`, `receipt` and `recovery` are the record files,
one of each per Preview (a Receipt has the Preview's identifier; transactions,
whose identifiers are random, are indexed by the Preview they apply). `fs` is
what an inspection of a Workspace would observe: the base every Preview was
planned against, the result of the first k operations of one Preview, or
anything else. `artifacts` and `progress` are the private directory of a
transaction. `pc`, `target`, `outcome`, `seen`, `supplied` and `left` are the
local state of a process, `lock` the advisory locks. `committed` and `discarded`
are history.

*Actions.* A command is a sequence of actions, cut where it makes a durable
write or takes a lock, for only there can another process, a crash or an editor
make a difference. The labels of `pc` follow the code from `checkReceipt` to
`postCommit` (`apply_preview`, `finish_application_cleanup`,
`synchronize_after_commit`), and from `recoverWait` to `recoverRemove`
(`recover_transaction`). `Crash` ends a process anywhere and frees its lock; it
also stands for the errors that `?` returns. `Fault` is a step that fails and is
handled; a failed `write_progress` may have replaced the record all the same
(`RecordIntent`, `RecordProof`). `ExternalWrite` is an editor, `Expire` the passing of a record's expiry,
`PruneExpired` and `PruneReceipts` what any listing or reading command does to
expired records, `ReconcileStatus` the `recovery status` command.

*Abstractions.* Contents and paths are a manifest; one `Effect` action is one
operation of the plan with all the system calls it makes. Counting the Receipts
and writing one is a single action, as is the removal of a Receipt chain.
`PruneExpired` also stands for a Preview that is merely read after its expiry.
Previews exist from the start: `create_preview` and its capacity are left out,
as are corrupt records and the checks that `mutation::apply` makes once more
before it calls `apply_preview`.

*Abstraction proved against.* `SerialCommits` has no records, locks or processes:
Previews write the files of a Workspace one at a time, each in one period only,
one operation forward or back at a time, and others write what they like. The
mapping: the writer of a Workspace is the Preview whose commit began and whose
journal is not sealed (`Open`, `Writer`), `begun` is `committed`, the files are
`fs`. A begin is the durable step to `Committing`, an end the seal or the removal
of the journal; Receipts, retirement, status and clean-up are stuttering steps.

### FileTree and TextEdits

The common ground of planner and Application. `FileTree` is a finite tree of
files and directories with identities, the effect of each operation on it, and
what the protocol refuses (`CreateRefusal`, `RenameRefusal`, `DeleteRefusal`).
`TextEdits` translates LSP positions to byte offsets in UTF-8 and UTF-16, finds
overlapping ranges and computes the edited text; of a scalar it keeps the two
widths. `EditedText` and `RangesConflict` are the reference: what the Language
Server Protocol says, scalar by scalar and without an order.

### EditPlanner

*State.* `workspace` is the `VirtualWorkspace`: the entries loaded or changed so
far, the before-manifest, the affected paths and the rollback budget.
`operations` are the canonical operations, `problem` the first refusal, `plan`
the two manifests. `tree` is the reference, the disk with the same operations
really performed; no guard of the planner reads it.

*Actions.* One per kind of operation, with everything it calls: the loading of
exact paths and of whole directories, the checks in their order, the move of the
virtual tree. `Finish` writes the manifests, `FinishRefused` is a limit they
exceed. `Staged` is an operator: the replay of the plan's texts by
`visit_canonical_text_outputs`, which keeps books of its own.

*Abstractions.* A digest stands for its content; paths are sequences of names, so
case folding and URI syntax are left out; a link is a kind of node that is refused;
the version a text edit names stands for the text it had then. After a problem the code goes on only to
report more problems; the model stops. Two things a reader may trip over: a
plan that deletes file `e` and renames directory `d` to `e` is refused as
`filesystem_capability_unavailable`, because the members of `d` are looked for
below the file that is still there; and the planner limits the text an edit
inserts, staging the whole text it yields, so an accepted plan may not stage.

### FileEffects

*State.* `tree` is the disk, `backup` what staging copied, `progress` the file
`commit-progress.json` (an effect is there before it is tried and has an `after`
once it is proven), `expected` the manifest in memory, `at`, `number`, `handle`
and `move` the position of the process. `raced` and `interrupted` are history.

*Actions.* Every system call that changes the files is a step: `Truncate` and
`Write`, `Create`, `MoveAside`, `Rename`, `Delete`; between them `Check` records
the intent, `Retain` compares what was opened, `Prove` observes the result and
records it. `Preflight`, `ReverseEffect` and what follows it up to `FinishUndo`
are `rollback_transaction`, `Recover` a later process that rolls back or accepts.
`Crash`, `Fault` and `Stranger` come at any step.

*Abstractions.* Which process may run all this is the subject of
`WorkspaceTransaction`, for which one operation is one step. Permissions,
extended attributes and the synchronization of parent directories are left out.
An overwriting create compares only the identity of the file it truncates
(`application.rs:1538-1552`), as `docs/plans/002` has it, so a write in place
before that call is lost; `Unchecked` names that window. An operation keeps the
permission to ignore a target that is in the way or not there (`Unfit`, `Ignored`). The
planner emits it only where there is nothing to ignore, so a stranger has to have made it
so. A call of the rollback can fail in its checks as well as in its steps; `interrupted`
records that, or a crash half-way through it.

*Plans.* What the planner hands over: a sequence of operations, each legal on the tree it
meets (`OperationFits`: what `CreateRefusal`, `RenameRefusal` and `DeleteRefusal` of
`FileTree` let pass; `EmitsOnlyLegal` and `PlanIsExact` check that `EditPlanner` emits no
other), on a disk that no transaction has touched and where every path of the plan could be
inspected, as the planner did (`DiskFits`, `PlanFits`). Of the model's own making are a
universe of paths that does not end where a subtree is moved to (`SameBelow`, `HasSlots`)
and a text of strangers that no plan writes. These are `PlansAssumption`, `UndoAssumption`
and `NullsAssumption`; TLC evaluates them for every plan of a run.

### OwnerDispatch

*State.* `phase` is where the Owner's task is: starting, in its loop, preparing
a request (`start_dispatch`), in `graceful_shutdown`, past the loop, gone.
`active` is the one member `active_queries` ever has, `cancelling` its
`QueryCancellation`, `stopper` the `pending_stop`. `requests` and `controls` are
the two bounded channels, `response`, `dispatched` and `cancelled` the channels
each queued request carries. `conn` is the connection's task. `frames` is the
channel from the reader pump. `sent`, `answered` and `denied` are history: what
the server may have read, what it answered, and what CLI processes report as
`not_sent`.

*Actions.* Each arm of the loop's `select!` is an action (`TakeControl`,
`TakeRequest`, `ReadFrame`, `NoticeExit`, `BeginShutdown` for the idle timer,
`Cancel` and `GraceExpires` for maintenance), so are the steps of a connection
(`Enqueue`, `SeeDispatched`, `QueueDeadline`, `Receive`, `Disconnect`). What an
arm does between two suspensions is one action; the dispatch of a request is
split where the task waits (`TakeRequest`, then `AnswerHere`, `WriteRequest`,
`WriteRefused` or `WriteAbandoned`). When the result of a query arrives, its Documents are
refreshed before it is passed on; what that yields, and a failure to read one, is one of the
answers `ReadFrame` chooses from (`DocumentSync` has the refresh). A response without result
or error ends the Session and drops the channel of its query (`ResponseWithoutOutcome`). `Fatal` is the check at the end of the loop
body, merged with the step that abandoned the write.

*Abstractions.* A client makes one request. Status requests never reach the
loop and are left out. Authentication and the handshake limit are part of
`Connect`. Timers fire at any moment. The `biased` order of the loop's arms is
dropped: the loop polls them one after the other while the queues fill, so a
lower arm can win, and dropping it only adds behaviours. Waits for a response to be flushed have a timeout, so
`Exit` does not depend on connections. Server requests, publications and
Documents have modules of their own; replies over 64 MiB are not modelled; a frame
that cannot be read is a stray frame.

### ServerRequests, DiagnosticsCache and OwnerFrames

*State.* `pipe` holds the frames the server wrote, `order` and `pending` the
order queue and the table of its requests, `processing` the one being answered,
`at` the step of the loop (in its `select!`, in one of the two drains, in a
write), `active`, `ledger` and `usage` the active query with its apply-edit
ledger and what it used of its preauthorization, `replies` the ledgers clients
were given. `applied` is history. `cache` is the Owner's cache of diagnostics (its
snapshots, from the least to the most recently used, and `total_bytes`), `copy` the
cache a client imported of it, with the same limits, `asking` the pull under way, `told`
what a client was last told.

*Actions.* `Ask`, `CancelAsked` and `Respond` are the server; `TakeFrame` is one
frame with its whole handler, `ProcessRequest` a request up to its first
suspension, `EndDrain`, `WriteAnswer` and `EndRedrain` the rest of its turn,
`Shutdown` and `EndShutdown` the same inside `graceful_shutdown`. In the cache,
`Publish`, `Close`, `Invalidate`, `CopyState`, `AskDocument`, `AskWorkspace` and
`SettleReport` are `publish`, `mark_closed`, `invalidate_pull_result_ids`, export
and import, and the pull reports with eviction; `PollState` is the loop of
`published-diagnostics` that looks in the copy and imports again. `OwnerFrames` composes them: the
refresh a server asks for empties the cache in the step that routes it
(`RouteRefresh`), and Documents and copies move only between two requests (`Idle`).

*Abstractions.* The server uses an identifier again only once it has the answer, and each
of its responses has a result or an error: one with neither ends the Session with its
query's ledger untold (`owner_runtime.rs:1070-1072`), which `EditsAreAccounted` does not cover.
Four things the model has as the code has them and no property objects to: a
server that reuses an identifier as soon as it has the answer, before the second
drain is over, is terminated; tombstones in the order queue do not count against
the limit; an edit asked for by a query that timed out or was cancelled is still
applied within its grace; an edit and the response in one batch of frames leave
the edit a Preview that its client is not told of. `reconstruct_pull_report` never
compares result identifiers, and the import of a closed publication marks the pulled report
closed too. Related Documents, progress and traces are left out.

### DocumentSync

*State.* `store` is the `DocumentStore`: the snapshots, their order of use, the
next versions, the running total of bytes and the pending events. `copy` is what
the language server has after the notifications it was sent, `outbox` the events
of a batch of refreshes that are still to be sent, `request`, `todo`, `validated`
and `failed` the request in preparation and the loop it is in. `asked` and
`newest` are history.

*Actions.* `Refresh` is the function `DocumentStore::refresh` with everything it
calls. `BatchStep` applies it to the open Documents one by one, for
`RefreshDocuments`, best-effort requests and edits applied during a query
(`Commit`), and `BatchEnd` sends what they gave, the outcomes first and the
pending closes after them. `SyncStep` is one turn of `synchronize_documents` or
`validate_documents_after_query`: refresh, send, compare. `Change` alters a file
between any two of these.

*Abstractions.* A text stands for its digest. `Unreadable` is every way in which
reading can fail. A batch of notifications is sent whole, for the Session ends
when one is not (`End`). A path is the same file throughout. If one became a link
to another open Document within a batch, its pending close could follow an
opening of the same URI: `close_failed_document` queues the close, and the
callers send it last. The model leaves that out, and servers without openClose.

### OwnerLifecycle

*State.* Per Session, which is determined by a `Declaration`: the `endpoint` file,
the `startup` lock and the Owner `lock`. `launch` is the set of launch files,
`trust` the Trust file with its `trustLock`, `application` the Application locks
that Trust commands take, `project` what the configuration files declare. Each
Client is a CLI process with one command; `pc` and the variables from `session`
to `copy` are its local state, `outcome` what it reports. `owner` is the phase
of the Owner process a Client started, `stops` its queue of Stops and `stopper`
its `pending_stop`.

*Actions.* One action per system call that another process could see:
`connect_or_start_owner` is `Find`, `Attach` or `Unanswered`, `Reload` and
`Recheck` (`reauthorize_project_launch`), `StartupLock`, `Find` again, `Launch`,
and the waiting loop of `Find` and `Discard`. `live_endpoints` is `List`, `Entry`,
`Live`, `NotLive`, `TryLock`, `Unlock` and `RemoveEntry`, so that its probe, the
instant in which `owner_lock_is_free` holds the lock, and the removal by name
are separate. `Listed` selects, `Send` and `SentAll` are the Stops,
`Replaced` and `Withdrawn` `wait_for_owner_exit`, and the Trust commands go from
`ApplicationLock` to `WriteTrust`. The Owner goes from `ReadLaunch` to `Exit`;
`TakeStop`, `TakeForce` and `Drained` are the control arm of its loop and what
follows it.

*Abstractions.* A Workspace has one server. A Declaration stands for all that
`session_identity` digests, and reading the configuration is one step. A Stop is in the
Owner's queue as soon as it is sent; `OwnerDispatch` has its connection. Requests
other than Stops, and the answers to them, are that module's subject too: here a
query is over when an Owner answers its probe. Everything an Owner does between
two changes of its endpoint is one step. `Disturb` bounds, with one
counter, the edits of the project, the killed processes and the probes a live
Owner answers too late.

### SkillInstall

*State.* `destination`, `stage`, `backup` and `journal` are what lies in the
directory of the skills, `at`, `release`, `replace`, `id`, `was` and `saw` the run
under way. `touched` and `raced` are history: whether the user edited since the
decision the journal records, and since the run began.

*Actions.* The steps of `install_to` and `finish_journal`, cut at every change of
the disk: `Create`, `Write`, `Record`, `Restage`, `MoveAside`, `MoveIn`, `Clean`,
`Unstage`, `Drop`. `Leave` ends a run anywhere: success, a refusal, an error or a
crash. Removals are interrupted half-way (`Remains`). `Edit` is the user.

*Abstractions.* A lock file admits one run at a time. What stays for manual
inspection by design stays here too: a torn stage, a destination beside its backup,
the journal of another release; after an upgrade that was interrupted while it
removed its backup the next run needs `--replace`. An edit during a run is not
promised anything (`docs/plans/001`: "Do not promise immunity to an actively
racing process"), hence `raced`.

## 3. Runs

| Run | Instance | What it shows |
|---|---|---|
| `core` | 2 Previews of one Workspace, 2 processes, plans of 2 operations, 1 crash, 1 external write | `TypeOK`, `OneTransaction`, `WriteAhead`, `AtMostOnce`, `AppliedStays`, and `CommitsAreSerial`, the refinement of `SerialCommits` |
| `faults` | 1 Preview, 2 processes, 2 operations, 1 crash, 1 fault, records that expire, room for one Receipt, fairness | `ReceiptsTellTruth`, `PartialNeedsDecision`, `OutcomeRecorded`, and `CommandsEnd` |
| `planner` | 3 disks of up to 9 paths (with links, hard links and files that cannot be read), every edit of up to 3 operations; 2 texts with every pair of edits of a menu | `PlanIsExact`, `RefusalJustified`, `EmitsOnlyLegal`, `StagedAsPlanned` |
| `effects` | 9 plans of up to 3 operations, 2 writes of strangers, 1 crash, 1 fault | `EvidenceIsTrue`, `EndsAreExact`, `StrangerKept` |
| `dispatch` | 3 clients in five mixes of Queries, local requests and Stops, one with a queue deadline, queues of one, one stray frame, fairness | `TypeOK`, `Serial`, `OkMeansAnswered`, `NotSentByOwner`, `DrainingSendsNothing`, `CallersEnd`, `StopEnds` |
| `frames` | 3 identifiers, room for 2 requests, commands that may make 2 edits of total cost 3; 2 Documents with 2 texts, room for 3 snapshots, 2 clients; six scenes; fairness | `EachInOnePlace`, `EditsAreAccounted`, `FreshIsCurrent`, `AllAnswered` |
| `documents` | 3 Documents of 1 or 2 bytes, room for 2 and for 3 bytes, 2 languages, 2 requests, 2 changes, 1 edit during a query | `WithinLimits` (with `TypeOK`), `ServerSeesStore`, `SentCurrent`, `StableAnswer`, `VersionsGrow` |
| `lifecycle` | 3 CLI processes in five mixes of commands, 2 Workspaces of which one has two Declarations, 1 disturbance | `TypeOK`, `EndpointOfHolder`, `SignalledAreStopped`, `RestartReplaces`, `TrustKept` |
| `skill` | 2 releases, 3 staging directories, 2 edits of the user | `Resumable`, `ConsentNeeded` |
| `find_dirtofile`, `find_preauthorized`, `find_revocation` | the smallest instance with the behaviour | the first three disagreements below |

*Why these bounds.* A transaction of two operations has a first, a last and a
half-done state, in its commit, its undo and its recovery. A second Preview of the same
Workspace is needed for one journal to block another application, a second
process for a race, and a third would wait for the same lock. One crash ends a
command anywhere and its journal is then recovered by commands that can fail or
be raced; that a Recovery itself is cut short is covered by `faults`, where a failed
undo leads to a Recovery that the crash can end; room for one Receipt there makes
the pruning of an expired one matter. In `planner` three operations are what it
takes to move a tree, use a name it left and edit what was moved; the menu of edits
has every relation two ranges can have, line ends and characters of two units. In
`effects` the plans cover each kind of operation as the first, a middle and the last one,
trees that move onto trees, texts edited before and after a move, and slots that take what
was not on the disk; with two writes a stranger can change a file and change it back. In `frames` each scene aims
at one thing, for the two halves share only the loop and the refresh: edits of two
commands, more edits than the budget, a full queue that refuses a third request and a
cancellation, publications
and closings, pulls by two clients, and a refresh between two pulls. Each limit is
reached. In `skill` the second release can meet the journal, the stage and
the backup of the first, and three stages allow two abandoned ones. In `dispatch` three clients allow an active, a
queued and a refused request, or two Stops that outdo each other against a
Query; a queue of one is full when the third arrives. In `documents` two
Documents may or may not fit together and a third evicts one of them; two changes
let a file leave a text and come back to it. In `lifecycle` three processes can
start an Owner, stop it and look for it at once, which is what the locks and the
removals by name are about; a fourth would have to wait for one of them. A single
disturbance suffices to leave a stale endpoint, to free a lock early or to hide an
Owner that lives.
TLC's coverage shows every action of every module taken.

*Fairness.* `WorkspaceTransaction`: weak fairness of the steps of a running
command only. The code is sequential, its loops are over finite plans and its
lock wait times out. Nothing obliges a user to start a command, or a crash, a fault,
a write or an expiry to happen. `OwnerDispatch`: weak fairness of the Owner's
task (a ready arm is taken and its timers fire, the runtime being fair to tasks)
and of each connection's own steps. No fairness is given to the language server, to a
client's leaving or connecting, nor to failing writes. `OwnerFrames`: weak fairness
of the loop, which always has its next step when it is not in its `select!` and
there takes what is ready; nothing obliges the server to ask, answer or exit.

The other modules state no liveness and assume no fairness.

Deadlock is checked in `core` and `faults` only. The Owner of `OwnerDispatch`,
`DocumentSync` and `OwnerFrames` really stops; the commands of `OwnerLifecycle`, a
planned edit, one transaction of `FileEffects` and the bounded sequence of
installations come to an end.

`SentCurrent` and `StableAnswer` are about Documents that fit into the store
together. With more `--sync-file` arguments than `maxOpenDocuments`, or more bytes
than `maxTotalTextBytes` (five files of 16 MiB, by default), the request is written
after its first Documents were evicted again, and nothing tells the caller.

### Disagreements between the code and what it says

Three runs show a disagreement:

1. `find_dirtofile`: a plan may put a file where a directory with listed members
   was. If a later step fails, or the process dies, once the file is there, its paths cannot be inspected, because the walk to a
   member meets the file (`planner.rs:1291`): rollback is refused and so is every
   Recovery, accept-current included, against "exposes Recovery with the exact
   observed state" (ADR 0004).
2. `find_preauthorized`: an edit the server asked for before a command was
   dispatched waits in the queue and is applied under that command's
   preauthorization (`owner_runtime.rs:1364-1390`), against "edits requested during
   one language-server command" (ADR 0004).
3. `find_revocation`: a launch is authorized (`session.rs:491`) before the startup
   lock is waited for and the Owner started (`494-548`); Trust commands take other
   locks and signal the Owners that have an endpoint at that moment
   (`trust.rs:305-316`). An Owner started in between outlives the command, against
   "revoke or Denial stops matching owners" (ADR 0002).

Others are stated in the modules, as properties that the models do not have; no run
is spent on them:

4. `ConflictMeansChange` (`WorkspaceTransaction`): a sealed transaction whose plan
   skipped an operation is refused by Recovery as changed ("The filesystem changed
   after Recovery was recorded.", `application.rs:626`) when nothing changed, because
   the digest that is recorded covers the intended manifest only
   (`application.rs:245-254`) and the one compared covers both manifests (`2386-2411`).
5. `DiscardedStaysGone` (`WorkspaceTransaction`): `discard_preview`
   (`state.rs:323-360`) decides on an unlocked read; the record of a Preview that
   was reserved meanwhile disappears, against "A reserved Preview is owned by an
   active or recoverable Application." (`state.rs:849`).
6. `WriteStopClears` (`WorkspaceTransaction`, under `OperatorSpec`, a user who keeps
   asking for the status and accepting what it reports): a sealed journal is never
   refreshed (`application.rs:490-497`), so an edit after the sealing blocks every
   Recovery, accept-current included.
7. `NotSentMeansNotSent` (`OwnerDispatch`): "The invocation deadline expired before
   the operation was dispatched." with `not_sent` and `retry: safe`
   (`owner_runtime.rs:2692-2705`) may be said of a request that the loop is writing:
   the connection's `select!` (`2637-2664`) and the loop's reading of `cancelled`
   (`367-373`) are not ordered.
8. `NotSentMeansNeverWritten` (`OwnerDispatch`): "Keep `document_changed_while_reading` with
   `delivery: "not_sent"` and `retry: "safe"` when only synchronization notifications were
   sent: the requested semantic Query was not sent" (`docs/plans/010`, line 69). The same
   refresh runs again when the result of a query has come
   (`validate_documents_after_query`, `owner_runtime.rs:1818-1829`), and its failure, of a file
   that changes while it is read, can no longer be read or has become too large
   (`workspace.rs:487`, `792`, `798`), is the answer as it stands, `not_sent` included
   (`owner_runtime.rs:2887`, `2928`, `session.rs:1245-1250`), of a query that the server has
   carried out. TLC finds it in eight states: start, `Connect`, `Enqueue`, `TakeRequest`,
   `WriteRequest`, the server's answer, `ReadFrame`. `NotSentByOwner` shows that this is the
   only such case: of a written query that the server has *not* answered the loop never says
   `not_sent`, whatever becomes of it.
9. `FailureIsOwn` (`OwnerLifecycle`): the waiting loop takes the first endpoint with
   the state "failed" for that of its own Owner, whatever its generation
   (`session.rs:551-567`). After a start whose client gave up or was killed, the next
   invocation starts a new Owner, reports the old failure and removes the file,
   although the change that `retry: "after_change"` asks for has been made
   (`skills/lspctl/SKILL.md:108`).
10. `AlwaysStagedAsPlanned` (`EditPlanner`, on `SwapScenes` of `MCEditPlanner`): a plan
   that exchanges two files through a third name and then edits one does not stage:
   `resolve_physical_path` (`application.rs:2009`) follows the aliases of renames from the last
   to the first without regard to when a name was taken again, and text visits do not
   "borrow the immediately preceding virtual bytes" (`application.rs:1876`). `StagedAsPlanned`
   shows that plans which use no vacated name again are staged as planned.
11. `StrangerAlwaysKept` (`FileEffects`): `rollback_transaction` reports the files as restored
   when every path of the before-manifest is as it was (`application.rs:2063-2068`), and does
   not look at the undo slots, which the clean-up then removes. A plan that renames with
   overwrite onto a free name moves aside whatever is there when it comes to it
   (`1575-1600`; `retain_effect_handles`, `1032-1049`, compares only what was expected to
   exist). A file that somebody puts there after the check goes to the slot, and if the
   operation fails or the process dies before the second rename, "restored" is reported and
   the file destroyed. The same happens to a file at a name that the plan creates and deletes
   again. Against "an uncreated external file both survive failed Application and explicit
   Recovery attempts" (`docs/plans/003-preserve-external-changes-during-rollback.md:183`).
   `EndsAreExact` and `StrangerKept` therefore speak of the slots of those plans only that set
   aside nothing but what was on the disk (`OriginalsAside`); TLC finds the shortest loss in
   nine states of the plan `OntoMissing`.

## 4. Proofs

`WorkspaceTransaction_proofs` proves, for any sets of processes, Previews and
Workspaces, any number of operations and any bounds on the environment, from
`ConstantAssumption` alone (`Ops` is positive, the null values are no members,
the bounds are natural numbers):

| Theorem | Statement |
|---|---|
| `Invariance` | `Spec => []IInv` |
| `TypeCorrect` | `Spec => []TypeOK` |
| `OneTransactionHolds` | `Spec => []OneTransaction` |
| `AtMostOnceHolds` | `Spec => AtMostOnce` |
| `WriteAheadHolds` | `Spec => WriteAhead` |
| `AppliedStaysHolds` | `Spec => AppliedStays` |

*The argument.* None of the properties is inductive. That the operations of a
Preview begin at most once rests on `Spent` (a Preview whose commit began is
never unreserved again) and on `Uncommitted` (a process on its way to the commit
holds a Preview that is not committed). Those need to know who holds which lock
(`LockHeld`: a process past its lock wait holds its Workspace's lock, so two
processes are never both in the protected part), that the journal a process is
about to write is the first of its Workspace (`JournalFree`) and stays until the
process removes it (`JournalKept`), and what the journal says at each label
(`Committing`, `RecoverOpen`). `AppliedInv` says that by the time a Receipt says
applied, or a process is about to write that, the commit is over and the journal
sealed, which is why no Recovery undoes it. `ProgressInv` bounds the progress
record by the plan. `IInv` is the conjunction; the proof takes each conjunct
over each action.

The second part of the module adds to it the refinement, for the same constants:

| Theorem | Statement |
|---|---|
| `FilesBegunHolds` | `Spec => []FilesBegun` |
| `CommitsAreSerialHolds` | `Spec => CommitsAreSerial` |

*The argument.* By `OneTransaction` no two journals of a Workspace are open, so the
choice in `Writer` has one outcome (`WriterIsOpen`). `CommitStart` opens the journal of
a Preview that was never open before and is an abstract `Begin`; every other step
changes at most one journal and opens none (`OthersClose`), so it is an `End` or leaves
the writers alone. That `StageFailed`, `RecoverySeal` and `ReconcileStatus`, which write
an open state too, do not open a journal takes `Uncommitted`, `Begun` and `StagedBefore`.
The files change only in `Effect`, `Undo`, `RecoverUndo` and `ExternalWrite`; the first
three are one abstract `Write` of the Preview that is open. For a Recovery, whose process
did not begin the commit it undoes, this needs `FilesBegun`: what a Preview wrote is found
only after its commit began.

The third part uses both for what the records say of the files, again for the same
constants:

| Theorem | Statement |
|---|---|
| `FilesInvariance` | `Spec => []FInv` |
| `NoResidueHolds` | `Spec => []NoResidue` |
| `AppliedIsCompleteHolds` | `Spec => []AppliedIsComplete` |
| `ReceiptsTellTruthHolds` | `Spec => []ReceiptsTellTruth` |
| `PartialNeedsDecisionHolds` | `Spec => PartialNeedsDecision` |
| `ReceiptsInvariance` | `Spec => [](RecordedInv /\ ProtectedInv)` |
| `OutcomeRecordedHolds` | `Spec => OutcomeRecorded` |

*The argument.* A step changes the files of a Workspace as an editor does or by one
operation of the one Preview that is open there (`FilesChange`), and only an `Effect` puts
contents of a Preview where there were none (`StaysClean`). So what the holder of the lock
found by an inspection stays so until it acts itself, but for editors, who leave no
contents of a Preview behind (`FoundInv`). The seal is what turns such a finding into a
Receipt: `CompleteInv` and `RolledInv` say that a Receipt, a process about to write one,
and one about to write back what it read all tell the truth, for the commit is over by then
and cannot come again. A Recovery can restore a Preview whose commit never began; then
`RestoredInv` has to show that nobody applies it later, because its journal is in the
way or its reservation was never given back. `NoResidue` and `AppliedIsComplete` follow.
For `PartialNeedsDecision` and `OutcomeRecorded`, only `removeJournal`, `cleanJournal` and
`recoverRemove` take a journal away: the first before a commit began, the second after a
finding that `FoundInv` keeps, the third by a decision. `OutcomeRecorded` also needs the
Receipt itself to last. `RecordedInv` says that there is none, nor anybody who read one,
before the commit has ended, and `ProtectedInv` that between the Receipt and the removal of
the journal prunes pass it over and a synchronization that writes back what it read
writes the same outcome, cleanup still pending.

`FileEffects_proofs` proves, for any plans, disks and universes of paths that
`PlansAssumption`, `UndoAssumption`, `NullsAssumption` and `PathsAssumption` allow, any
number of writes of strangers, crashes and faults:

| Theorem | Statement |
|---|---|
| `InvHolds` | `Spec => []Inv` |
| `EvidenceIsTrueHolds` | `Spec => []EvidenceIsTrue` |
| `SlotsHold` | `Spec => [](SlotInv /\ OriginInv)` |
| `EndsAreExactHolds` | `Spec => EndsAreExact` |
| `ChecksHold` | `Spec => [](SourceInv /\ RaceInv /\ DoneInv)` |
| `StrangerKeptHolds` | `Spec => StrangerKept` |

*The argument.* The proof follows, beside the outcomes of the plan, a second sequence of
trees, `ActualOf`: the disk after n operations *with* what they moved to their undo slots, and
with the identities that new files get. `PlanGood` says that it agrees with the outcome
outside the slots, that it stays one tree with no identity twice, and that every slot is
empty until its operation. Then come the manifests. The code computes the one after an
operation from the one before, without a look at the disk (`operation_after`): `AfterTells`
shows for each kind of operation that what it computes describes that second sequence
(`Tells`), memberships of directories included. So whatever is recorded is true of the
plan's trees, whatever strangers do to the files (`RecordInv`). `PlaceInv` and `StepInv` say
how far the evidence goes at each step and what the step has in hand, `FreshInv` that no
file has an identity that is still to be given.

For `EvidenceIsTrue`, `ExactTree` says of every step, as long as no stranger wrote and no
rollback failed or was stopped half-way, which tree of the sequence the files are, the half-written
text and the half-done rename included. Forwards this is what the system calls do.
Backwards `RenameLegs` and `DeleteLegs` show that the legs lead back through the same trees,
`LegIs` that each leg passes its check, and `ChainHolds` that the preflight finds the chain of
evidence whole; so the only rollback that is refused has an uncertain effect before it.

`EndsAreExact` has strangers in it. A last check of a manifest that tells of the plan's tree
gives every touched path, but nothing about the slots. `SlotInv` says that only the slot's own
operation fills it, and `OriginInv` that what was taken from the disk is nowhere else while it is
there: as every touched path is found as it was, identities included, the slot is empty. The
second needs that the subtree was on the disk, `OriginalsAside`; the eleventh disagreement
shows that without it the code does lose files.

For `StrangerKept` each call that could destroy a text is taken by itself. `RaceInv` says that
while nobody writes between a check and its call (`raced`), what is truncated, removed or
overwritten is not a stranger's: a handle is of a file whose content was compared, and its
identity belongs to one file. `SourceInv` excludes that a subtree is moved where the model's
paths end. Moves keep what they move (`KeptMoved`). `DoneInv` says that the slots hold nothing
of a stranger's when the clean-up comes: after a commit because the last proof lists the slots
(`Slots`), after a rollback by `EndsAreExact`. TLC checked the conjuncts of these
invariants on the instance of `effects` before they were proved.

`OwnerDispatch_proofs` proves, for any set of clients, any requests they come
with, any limit of the queues and any number of stray frames, from that module's
`ConstantAssumption`:

| Theorem | Statement |
|---|---|
| `Invariance` | `Spec => []IInv` |
| `TypeCorrect` | `Spec => []TypeOK` |
| `SerialHolds` | `Spec => []Serial` |
| `OkMeansAnsweredHolds` | `Spec => []OkMeansAnswered` |
| `NotSentByOwnerHolds` | `Spec => []NotSentByOwner` |
| `DrainingSendsNothingHolds` | `Spec => DrainingSendsNothing` |

*The argument.* The server's unanswered requests are at most the active query
(`InHand`), which gives `Serial`; that this stays so when a response comes needs
`Framed`, by which the frames hold only answers to what was written, and when a
query is written, that what is still queued or in preparation was neither
written nor answered before (`Unsent`). `Unsent` in turn needs every request to
be queued once (`Once`), by a connection that is new to the loop (`Fresh`). Each
queue holds its own kind of request (`Sorted`), so a Stop that is answered
not_sent is never a written one: this and `Unsent` give `NotSentByOwner`, but for the
query whose answer `ReadFrame` has in hand. A request
is in preparation in one phase only (`Preparing`), and a draining Owner is never
in that phase (`Drained`), which gives `DrainingSendsNothing` even for requests
queued after the flag was set.

`OwnerLifecycle_proofs` proves, for any sets of processes, Workspaces and
Declarations, any commands and any number of disturbances, from that module's
`ConstantAssumption` and `FreeAssumption` (a free lock is told apart from one
that somebody holds):

| Theorem | Statement |
|---|---|
| `Invariance` | `Spec => []IInv` |
| `TypeCorrect` | `Spec => []TypeOK` |
| `EndpointOfHolderHolds` | `Spec => []EndpointOfHolder` |
| `SignalledAreStoppedHolds` | `Spec => []SignalledAreStopped` |
| `RestartReplacesHolds` | `Spec => []RestartReplaces` |
| `TrustKeptHolds` | `Spec => TrustKept` |

*The argument.* An Owner holds its Session's lock from `AcquireLock` to its end
(`OwnerHolds`), and a process that tries a lock holds it for that instant
(`ProbeHolds`), so no two Owners of a Session are past `AcquireLock` (`OneOwner`).
Only such an Owner writes the endpoint, which gives `EndpointOwn`; a removal by name
can make the file disappear but never put another one there. The generation in an endpoint
file was started for that Session and has had its lock (`EndpointPlace`), so a file
that names another generation than a signalled one, when that generation accepts
connections, shows that the signalled one has given up the lock. That and a free
lock are the two ways out of `wait_for_owner_exit`, so a restart looks for a
replacement only when its predecessor is gone (`ReplacedGone`), which cannot answer
a probe: `RestartReplaces`. `TrustKept` rests on `TrustHeld`: between its reading and its
writing of the Trust file a process holds the Trust lock, so that what it writes
back of other Workspaces is what the file says. The remaining conjuncts say what a process
knows at each label (`Places`, `Targets`), for the generation a process starts has its
name and its Session.

The first part of `OwnerFrames_proofs` proves about `ServerRequests`, for any requests,
identifiers, clients, commands and limits, from `RequestAssumption`:

| Theorem | Statement |
|---|---|
| `Invariance` | `Spec => []IInv` |
| `EachInOnePlaceHolds` | `Spec => []EachInOnePlace` |
| `EditsAreReportedHolds` | `Spec => []EditsAreReported` |
| `WithinPreauthorizationHolds` | `Spec => []WithinPreauthorization` |

*The argument.* A request without an answer is in the pipe, in the table or in process,
in one of them only, and a request with an answer in none (`PlacesInv`); that the pipe
holds each request once is part of it. The identifiers that are busy are among those
the order queue leads to, each leads to a request that carries it, and they keep to the
limit with the request in process (`TableInv`): so a tombstone is passed over and a
reused identifier never answers for its predecessor. `EditsInv` ties the edits that were
made to the answers and to the reports: what is applied belongs to a request that is in
process or answered `applied`, stands once in the ledger of the command that is active or
in the reply of one that has ended, and to a request still waiting belongs no edit. This
is the half of `EditsAreAccounted` that is about each edit by itself. The other,
`WithinPreauthorization`, is about all edits of a command together: `BudgetInv` says that
those applied under the active command are no more than its ledger is long and cost
exactly its `usage`, and that those of every other command have kept within its limits. An
edit is compared with what `usage` leaves, so it keeps within them too; that the cost of
a set of edits grows by the cost of the edit that is added, in whatever order the sum is
taken, is `SumAdded` of `FoldTheorems`.

A second part carries these over to the composition:

| Theorem | Statement |
|---|---|
| `FramesImplementRequests` | `FramesSpec => Spec` |
| `EachInOnePlaceInFrames` | `FramesSpec => []EachInOnePlace` |
| `EditsAreReportedInFrames` | `FramesSpec => []EditsAreReported` |
| `EditsAreAccountedInFrames` | `FramesSpec => []EditsAreAccounted` |

*The argument.* The loop of `OwnerFrames` takes each frame once and gives it to both
components, so each of its steps is a step of `ServerRequests` or leaves the requests
alone (`FramesStep`).

The last part is about the diagnostics, for any finite list of Documents without
repetition (in the order of their URIs), any texts and sizes of their reports, any
clients, limits and budgets (`SceneAssumption`):

| Theorem | Statement |
|---|---|
| `FreshIsCurrentHolds` | `FramesSpec => []FreshIsCurrent` |

*The argument.* What a client is told rests on four caches that are not the same: the
server's last result, the Owner's cache, the client's copy of it and the report under
way. `FreshIsCurrent` speaks of none of them but the Owner's, so it says nothing about the
next step; `DInv` says what each of them may hold. A publication that names a version is
about the text of that version (`Dated`), whichever version is current when it comes. A
report under the identifier the server gave out last is that result (`Identified`),
which an "unchanged" report is resolved from; `reconstruct_pull_report` does not compare
identifiers, so what it finds under the key has to be it. This needs that identifiers are
not given out twice, and `Follows`: where a copy has the last result of a Document, the
Owner has the same result or none, for the Owner stores a report under the identifier
that the report names. `Latest` says of the report under way that it is still the server's
last result for each of its Documents, and is called unchanged only where the client that
asked has it: this is what is left of the moment it was asked when the answer comes, after
closings, refreshes and evictions. The copies are caches too and evict, and an import
stores over what the copy has, so each of the lemmas about `Store`, `Touched`, `Closed`
and the folds of import and of a report is proved for any cache (`Sound`, `Honest`), and
the Owner's and the copies' steps cite them. The second half of the property is `Sound`:
the running total, which is kept with saturating subtraction, is the size of what is
held, by sums over the snapshots (`FoldTheorems`), so nothing ever saturates. TLC
checked `DInv` on the instance of `frames` before it was proved.

`SkillInstall_proofs` proves, for any releases, any directories the user may have made,
and any number of stages and edits, from `SkillAssumption`:

| Theorem | Statement |
|---|---|
| `Invariance` | `Spec => []IInv` |
| `ResumableHolds` | `Spec => []Resumable` |
| `ConsentNeededHolds` | `Spec => ConsentNeeded` |

*The argument.* A run has a journal exactly at the labels that move and clean up
(`JournalInv`), a backup belongs to the journal and the run that would drop the journal
knows of it (`BackupInv`), and what a run decided is what it found (`DecisionInv`). As
long as the user leaves the destination alone, stage and destination are in one of two
places, before the second rename or after it (`PlaceInv`); this is what the digest and
the marker in the journal let a later run recognize. `ConsentInv` says that without
consent neither the destination that is moved aside nor the backup that is removed holds
what the user made, and `InstalledInv` that a run undisturbed ends with its bundle in
place.

`DocumentSync_proofs` proves, for any Documents, texts and sizes of texts, any limits of
the store, any lists of Documents a request may bring and any number of requests,
changes and callbacks, from that module's `ConstantAssumption`:

| Theorem | Statement |
|---|---|
| `Invariance` | `Spec => []IInv` |
| `TypeCorrect` | `Spec => []TypeOK` |
| `WithinLimitsHolds` | `Spec => []WithinLimits` |
| `ServerSeesStoreHolds` | `Spec => []ServerSeesStore` |
| `SentCurrentHolds` | `Spec => []SentCurrent` |
| `StableAnswerHolds` | `Spec => []StableAnswer` |
| `VersionsGrowHolds` | `Spec => VersionsGrow` |

*The argument.* `RefreshFact` says once what a refresh does, with everything it calls.
The store it leaves lists what it holds and is within its limits (`StoreInv`), because
eviction takes the fewest of the oldest Documents after which the others fit
(`VictimsFact`), and the Document in use fits alone. The server follows: what waits in a
store are closings of Documents the server has open, and after them it has what the store
holds (`Reaches`). A batch sends its outcomes first and those closings last, so
`ServerSeesStore` needs that no Document whose closing waits is opened again before
(`BatchInv`: a batch refreshes each Document once). That the versions grow rests on
`Dated`: the store remembers a number as great as every version it gave.
`SentCurrent` is about the order of use. The Documents a request has brought so far are
the ones used last, and they are no more and no larger than the inputs they came from
(`Latest`); as long as all inputs fit together, the oldest Documents whose removal is
enough are never among them (`LatestRefreshed`). `Alike` covers a request that names a
Document twice. For `StableAnswer`, the Documents that are validated are those the query
was asked about, at those versions, unless an edit came between (`AnswerInv`); a
refresh that finds text and language unchanged sends nothing and evicts nothing
(`StoreInv` again: a store within its limits needs no victim), and one that finds a
change ends the request.

*Folds.* The store is evicted, the server's Documents follow and sizes are summed by folds
over sequences. What they yield is proved by induction on the sequence, in the one form
the provers can take: an induction about membership in a *set*, from the minimality of
well-founded orders (`FoldTheorems`, `NatSet` and `SeqSet`). `FoldedIter` identifies
the community modules' `FoldLeft` with a sequence of partial results, so that
`FoldedAppend` and `FoldedConcat` can be used of it. `FoldedIter` needs the existence of
the function that `FoldLeft` chooses, which `FoldLeftExists` constructs. Sums over finite
sets need one thing more: the fold takes the members in an order it chooses, and
`SumUnique` shows that the order does not matter.

*Only model-checked.* Liveness (`CommandsEnd`, `CallersEnd`, `StopEnds`, `AllAnswered`)
is out of the prover's reach, and so is ENABLED. The four properties of `EditPlanner`
(`PlanIsExact`, `RefusalJustified`, `StagedAsPlanned`, `EmitsOnlyLegal`) compare what the
planner computes with what the edit means: texts by ranges and the loading of whole trees by
recursion, over inputs that are data. They are checked on bounded inputs. What the proofs of
`FileEffects` need of them is stated as its assumptions.

## 5. Plan

The order in which the modules were written is the order of what a failure would cost:
`WorkspaceTransaction` and the loop of the Owner first, then Sessions, Documents, the plan
of an edit and its effects on the files, what the server asks for, diagnostics, and the
skill. What is worth adding next:

1. A proof that `FileEffects` implements one `Effect` or `Undo` of
   `WorkspaceTransaction` per operation; at present the two meet in their properties
   only (what is proven is there, what is refused stays recorded).
2. The precedence of the configuration's layers, as operators against a reference.

## 6. Not modelled, and why

Configuration merging, capability negotiation, query construction and rendering,
canonical JSON, the command catalog and the CLI compute values and keep no
state. File modes, process groups and the log are operating-system calls or
output nobody reads back; of the JSON-RPC transport the framing of bytes is left out,
its one bit of state is in `OwnerDispatch`. `create_preview` and the capacity of the
store for Previews are left out, as are records that are corrupt. Links and other names
of one file are refused by planner and Application alike; the models have them as
kinds that are refused, or not at all. Records are replaced atomically by rename, so a
torn record is no state of the program; torn texts are (`FileEffects`).

## 7. Running

    tlc -workers 2 -config Transaction_core.cfg MCWorkspaceTransaction
    tlc -workers 2 -config Transaction_faults.cfg MCWorkspaceTransaction
    tlc -workers 2 -config Edit_planner.cfg MCEditPlanner
    tlc -workers 2 -config File_effects.cfg MCFileEffects
    tlc -workers 2 -config Owner_dispatch.cfg MCOwnerDispatch
    tlc -workers 2 -config Owner_frames.cfg MCOwnerFrames
    tlc -workers 2 -config Document_sync.cfg MCDocumentSync
    tlc -workers 2 -config Owner_lifecycle.cfg MCOwnerLifecycle
    tlc -workers 2 -config Skill_install.cfg MCSkillInstall
    tlc -workers 2 -config Find_dirtofile.cfg MCFileEffects
    tlc -workers 2 -config Find_preauthorized.cfg MCOwnerFrames
    tlc -workers 2 -config Find_revocation.cfg MCOwnerLifecycle
    tlapm WorkspaceTransaction_proofs.tla
    tlapm FileEffects_proofs.tla
    tlapm OwnerDispatch_proofs.tla
    tlapm OwnerLifecycle_proofs.tla
    tlapm DocumentSync_proofs.tla
    tlapm FoldTheorems.tla
    tlapm OwnerFrames_proofs.tla
    tlapm SkillInstall_proofs.tla
