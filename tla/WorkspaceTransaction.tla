------------------------ MODULE WorkspaceTransaction ------------------------
(***************************************************************************)
(* The Mutation state store and the Application/Recovery protocol of       *)
(* lspctl (src/src/mutation/application.rs and src/src/mutation/state.rs). *)
(*                                                                         *)
(* Short-lived CLI processes share one store of JSON records, replaced     *)
(* atomically, and one advisory lock file per Workspace.  Each process     *)
(* runs one command at a time; every durable write of a command is one     *)
(* action, so a crash, another process or an editor can come between any   *)
(* two of them.  A crash also stands for an error that a `?` returns: both *)
(* end the command and drop its lock with the durable state as it is.      *)
(*                                                                         *)
(* File contents are abstracted to Manifests: Base (what every Preview of  *)
(* the Workspace was planned against), the result of the first k of the    *)
(* Ops operations of one Preview, and Foreign (anything else).             *)
(***************************************************************************)
EXTENDS Naturals, FiniteSets

CONSTANTS
    Proc,           \* CLI processes
    Preview,        \* persisted Previews; a Preview's id is also its Receipt's
    Workspace,
    WorkspaceOf,    \* the Workspace each Preview is bound to
    Narrow,         \* Previews whose before_manifest has a path the intended
                    \* one lacks (an ignoreIfExists operation that was skipped)
    Expiring,       \* Previews whose records may pass their expiry
    Ops,            \* operations in a Preview's plan
    ReceiptLimit,   \* receipts.max_count
    NoProc, NoPreview,
    MaxCrashes, MaxFaults, MaxWrites    \* bounds on the environment

ASSUME ConstantAssumption ==
    /\ WorkspaceOf \in [Preview -> Workspace]
    /\ Narrow \subseteq Preview /\ Expiring \subseteq Preview
    /\ Ops \in Nat \ {0}
    /\ ReceiptLimit \in Nat
    /\ NoProc \notin Proc
    /\ NoPreview \notin Preview
    /\ MaxCrashes \in Nat /\ MaxFaults \in Nat /\ MaxWrites \in Nat

VARIABLES
    \* durable records of the store
    preview,      \* previews/<id>.json: absent, unreserved or reserved
    journal,      \* transactions/<id>.json, by the Preview it applies
    receipt,      \* receipts/<preview id>.json
    recovery,     \* receipts/rcp_*.json written by Recovery, as a bag
    oldPreviews,  \* Preview records past their expiry
    oldReceipts,  \* Previews whose Receipt records are past their expiry
    \* the Workspace filesystem
    fs,           \* the Manifest an inspection would observe
    artifacts,    \* .lspctl-<transaction>: none, unmarked or marked
    progress,     \* commit-progress.json in that directory
    \* processes
    lock,         \* holder of the Workspace Application lock
    pc, target, outcome, seen, supplied, left,
    \* history: Previews whose commit began; Previews a discard reported gone
    committed, discarded,
    \* what the environment has spent of its bounds
    crashes, faults, writes

records == <<preview, journal, receipt, recovery>>
age     == <<oldPreviews, oldReceipts>>
disk    == <<fs, artifacts, progress>>
locals  == <<target, outcome, seen, supplied, left>>
history == <<committed, discarded>>
budget  == <<crashes, faults, writes>>
vars    == <<records, age, disk, lock, pc, locals, history, budget>>

-----------------------------------------------------------------------------
(* Data *)

Manifest == [by : Preview \cup {NoPreview}, done : 0..Ops]
Base     == [by |-> NoPreview, done |-> 0]
Foreign  == [by |-> NoPreview, done |-> 1]
At(p, k) == IF k = 0 THEN Base ELSE [by |-> p, done |-> k]
Intended(p) == At(p, Ops)

\* A manifest_digest: what was inspected, and whether it covered every path of
\* the before- and the intended manifest or only those of the intended one.
Digest == [at : Manifest, full : BOOLEAN]
Whole(m) == [at |-> m, full |-> TRUE]

JournalState == {"none", "Staged", "Committing", "RecoveryRequired", "CleanupPending"}
Journal   == [state : JournalState, digest : Digest]
NoJournal == [state |-> "none", digest |-> Whole(Base)]

ApplicationOutcome == {"applied", "rolled_back", "recovery_required"}
RecoveryOutcome    == {"restored", "accepted_current"}
Receipt   == [outcome : ApplicationOutcome \cup {"none"}, cleanup : BOOLEAN, synced : BOOLEAN]
NoReceipt == [outcome |-> "none", cleanup |-> FALSE, synced |-> FALSE]

\* A Recovery Receipt, and whether it is linked to the Application's Receipt.
RecoveryReceipt == [outcome : RecoveryOutcome, linked : BOOLEAN]
NoRecovery == [r \in RecoveryReceipt |-> 0]

\* How many effects are proven, and whether the next one is a pending intent.
Progress   == [proven : 0..Ops, pending : BOOLEAN]
NoProgress == [proven |-> 0, pending |-> FALSE]

HasJournal(p) == journal[p].state # "none"
HasReceipt(p) == receipt[p].outcome # "none"
Linked(p)     == {r \in RecoveryReceipt : r.linked /\ recovery[p][r] > 0}
Applied(p)    == receipt[p].outcome = "applied"
Journals(w)   == {p \in Preview : WorkspaceOf[p] = w /\ HasJournal(p)}

\* read_preview deletes an expired unreserved record and reports it unknown.
Readable(p)   == preview[p] # "absent" /\ ~(p \in oldPreviews /\ preview[p] = "unreserved")

-----------------------------------------------------------------------------
(* Receipt retention *)

\* Mutant: a Receipt that awaits cleanup is not protected.
ChainProtectedNever(p) == FALSE
\* The chain of a Receipt is protected while it awaits cleanup and no Recovery
\* linked to it has reached a terminal outcome (receipt_chain_protected).
ChainProtected(p) ==
    /\ receipt[p].cleanup
    /\ Linked(p) = {}

\* The records of prune_expired_records, and what is left once they are gone.
ExpiredPreviews == {p \in oldPreviews : preview[p] = "unreserved"}
ExpiredChains   == {p \in oldReceipts : ~ChainProtected(p)}
PrunedPreview   == [p \in Preview |-> IF p \in ExpiredPreviews THEN "absent" ELSE preview[p]]
PrunedReceipt   == [p \in Preview |-> IF p \in ExpiredChains THEN NoReceipt ELSE receipt[p]]
\* A protected chain has no linked Recovery Receipt, so an old one that is not
\* pruned with its chain is a terminal chain of its own.
PrunedRecovery  == [p \in Preview |-> IF p \in oldReceipts THEN NoRecovery ELSE recovery[p]]

\* The record files under receipts/ after such a prune.
ReceiptFiles ==
    {<<p, NoReceipt, 0>> : p \in {q \in Preview : PrunedReceipt[q] # NoReceipt}}
        \cup UNION {{p} \X {r} \X (1..PrunedRecovery[p][r]) : p \in Preview, r \in RecoveryReceipt}
ReceiptRoom == Cardinality(ReceiptFiles) < ReceiptLimit

-----------------------------------------------------------------------------
(* Processes *)

\* Labels of a process that runs with its Workspace lock held, in four groups:
\* an Application before its commit, its commit and undo, its terminal records,
\* and a Recovery.
Reserving  == {"lockedCheck", "reserveRead"}
PreCommit  == {"reserveWrite", "prepare", "journal", "stageMkdir", "stageMark", "stageCopy",
               "stageCleanup", "removeJournal", "release", "commitStart"}
Committed  == {"intent", "effect", "prove", "inspect", "commitSeal", "rollback", "undo",
               "rolledSeal", "recoverySeal"}
Finishing  == {"writeReceipt", "dropPreview", "cleanArtifacts", "retirePreview",
               "cleanJournal", "clearRead", "clearWrite", "postCommit"}
Recovering == {"recoverCheck", "recoverRollback", "recoverUndo", "recoverReceipt", "recoverRetire",
               "recoverClean", "recoverRemove"}
Holding    == Reserving \cup PreCommit \cup Committed \cup Finishing \cup Recovering \cup {"stageFailed"}
\* Labels that need no lock (a discard of a reserved Preview and a
\* synchronization after the commit do hold it).
Lockless   == {"idle", "checkReceipt", "readPreview", "recheckReceipt", "lockWait",
               "discardRemove", "syncRead", "syncWrite", "recoverWait"}

Goto(a, label) == pc' = [pc EXCEPT ![a] = label]
LockOf(a)      == lock[WorkspaceOf[target[a]]]
Unlocked(a)    == [w \in Workspace |-> IF lock[w] = a THEN NoProc ELSE lock[w]]

\* The command returns: its process ends and its lock is released.
Finish(a) ==
    /\ Goto(a, "idle")
    /\ lock' = Unlocked(a)
    /\ target' = [target EXCEPT ![a] = NoPreview]
    /\ outcome' = [outcome EXCEPT ![a] = "none"]
    /\ seen' = [seen EXCEPT ![a] = NoReceipt]
    /\ supplied' = [supplied EXCEPT ![a] = Whole(Base)]
    /\ left' = [left EXCEPT ![a] = 0]

\* The command goes on to its next step with its own variables as they are.
Continue(a, label) == Goto(a, label) /\ UNCHANGED <<lock, locals>>
\* As Continue, once the outcome to record is known.
Decide(a, o, label) ==
    /\ outcome' = [outcome EXCEPT ![a] = o]
    /\ Goto(a, label)
    /\ UNCHANGED <<lock, target, seen, supplied, left>>

\* One of the environment's MaxFaults input/output errors happens in this step.
Fault == faults < MaxFaults /\ faults' = faults + 1 /\ UNCHANGED <<crashes, writes>>

\* A command starts in an idle process.
Begin(a, p, label) ==
    /\ pc[a] = "idle"
    /\ Goto(a, label)
    /\ target' = [target EXCEPT ![a] = p]
    /\ UNCHANGED <<seen, left>>

Init ==
    /\ preview = [p \in Preview |-> "unreserved"]
    /\ journal = [p \in Preview |-> NoJournal]
    /\ receipt = [p \in Preview |-> NoReceipt]
    /\ recovery = [p \in Preview |-> NoRecovery]
    /\ oldPreviews = {} /\ oldReceipts = {}
    /\ fs = [w \in Workspace |-> Base]
    /\ artifacts = [p \in Preview |-> "none"]
    /\ progress = [p \in Preview |-> NoProgress]
    /\ lock = [w \in Workspace |-> NoProc]
    /\ pc = [a \in Proc |-> "idle"]
    /\ target = [a \in Proc |-> NoPreview]
    /\ outcome = [a \in Proc |-> "none"]
    /\ seen = [a \in Proc |-> NoReceipt]
    /\ supplied = [a \in Proc |-> Whole(Base)]
    /\ left = [a \in Proc |-> 0]
    /\ committed = {} /\ discarded = {}
    /\ crashes = 0 /\ faults = 0 /\ writes = 0

-----------------------------------------------------------------------------
(* apply_preview: reaching the reservation *)

StartApply(a, p) ==
    /\ Begin(a, p, "checkReceipt")
    /\ UNCHANGED <<lock, outcome, supplied, records, age, disk, history, budget>>

\* already_applied and its result: the Receipt of an applied Preview ends the
\* command with already_applied, after the synchronization that apply runs.
AlreadyApplied(a) ==
    /\ IF receipt[target[a]].synced
       THEN Finish(a)
       ELSE /\ Goto(a, "syncRead")
            /\ lock' = Unlocked(a)
            /\ UNCHANGED locals

CheckReceipt(a) ==
    /\ pc[a] = "checkReceipt"
    /\ IF Applied(target[a]) THEN AlreadyApplied(a) ELSE Continue(a, "readPreview")
    /\ UNCHANGED <<records, age, disk, history, budget>>

\* A Preview that is gone may have become a Receipt since CheckReceipt.
ReadPreview(a) ==
    /\ pc[a] = "readPreview"
    /\ IF Readable(target[a])
       THEN Continue(a, "lockWait") /\ UNCHANGED preview
       ELSE /\ Continue(a, "recheckReceipt")
            /\ preview' = [preview EXCEPT ![target[a]] = "absent"]
    /\ UNCHANGED <<journal, receipt, recovery, age, disk, history, budget>>

RecheckReceipt(a) ==
    /\ pc[a] = "recheckReceipt"
    /\ IF Applied(target[a]) THEN AlreadyApplied(a) ELSE Finish(a)
    /\ UNCHANGED <<records, age, disk, history, budget>>

\* lock_workspace_for_application and lock_workspace: the lock is taken once it
\* is free; while it is not, the wait may end in a timeout or the deadline.
TakeLock(a, label) ==
    /\ LockOf(a) = NoProc
    /\ lock' = [lock EXCEPT ![WorkspaceOf[target[a]]] = a]
    /\ Goto(a, label)
    /\ UNCHANGED locals

LockForApplication(a) ==
    /\ pc[a] = "lockWait"
    /\ TakeLock(a, "lockedCheck") \/ (LockOf(a) # NoProc /\ Finish(a))
    /\ UNCHANGED <<records, age, disk, history, budget>>

CheckReceiptLocked(a) ==
    /\ pc[a] = "lockedCheck"
    /\ IF Applied(target[a]) THEN AlreadyApplied(a) ELSE Continue(a, "reserveRead")
    /\ UNCHANGED <<records, age, disk, history, budget>>

\* reserve_preview reads the record, and refuses a reserved one ...
ReserveRead(a) ==
    /\ pc[a] = "reserveRead"
    /\ IF Readable(target[a])
       THEN /\ IF preview[target[a]] = "reserved" THEN Finish(a) ELSE Continue(a, "reserveWrite")
            /\ UNCHANGED preview
       ELSE /\ Finish(a)
            /\ preview' = [preview EXCEPT ![target[a]] = "absent"]
    /\ UNCHANGED <<journal, receipt, recovery, age, disk, history, budget>>

\* ... then writes it back reserved; if that fails, committed or not, the
\* record is written back unreserved.
ReserveWrite(a) ==
    /\ pc[a] = "reserveWrite"
    /\ \/ /\ preview' = [preview EXCEPT ![target[a]] = "reserved"]
          /\ Continue(a, "prepare")
          /\ UNCHANGED budget
       \/ /\ Fault
          /\ \/ preview' = [preview EXCEPT ![target[a]] = "reserved"]
             \/ UNCHANGED preview
          /\ Continue(a, "release")
    /\ UNCHANGED <<journal, receipt, recovery, age, disk, history>>

-----------------------------------------------------------------------------
(* apply_preview: preparation, journal and staging *)

\* Mutant: only a journal of the same Preview stops an Application.
PrepareForOwnJournal(a) ==
    /\ pc[a] = "prepare"
    /\ \/ Continue(a, "release") /\ UNCHANGED records
       \/ /\ ~HasJournal(target[a])
          /\ Continue(a, IF fs[WorkspaceOf[target[a]]] = Base THEN "journal" ELSE "release")
          /\ UNCHANGED records
    /\ UNCHANGED <<age, disk, history, budget>>

\* The preparation closure: the caller's deadline, changed authorization or an
\* error end it early; then the Workspace must have no journal, the Receipts
\* room for one more, and the filesystem the manifest of the plan.
Prepare(a) ==
    /\ pc[a] = "prepare"
    /\ \/ Continue(a, "release") /\ UNCHANGED records
       \/ /\ Journals(WorkspaceOf[target[a]]) = {}
          /\ preview' = PrunedPreview /\ receipt' = PrunedReceipt /\ recovery' = PrunedRecovery
          /\ Continue(a, IF ReceiptRoom /\ fs[WorkspaceOf[target[a]]] = Base
                         THEN "journal" ELSE "release")
          /\ UNCHANGED journal
    /\ UNCHANGED <<age, disk, history, budget>>

\* The first write_transaction, and finish_initial_journal_write: only a journal
\* that is positively absent gives the reservation back.  An error with the
\* journal in place ends the command as a crash at "stageMkdir" does.
WriteJournal(a) ==
    /\ pc[a] = "journal"
    /\ \/ /\ journal' = [journal EXCEPT ![target[a]] = [state |-> "Staged", digest |-> Whole(Base)]]
          /\ Continue(a, "stageMkdir")
          /\ UNCHANGED budget
       \/ /\ Fault
          /\ Continue(a, "release")
          /\ UNCHANGED journal
    /\ UNCHANGED <<preview, receipt, recovery, age, disk, history>>

\* stage_transaction: the private directory, its ownership marker, its contents.
StageMkdir(a) ==
    /\ pc[a] = "stageMkdir"
    /\ \/ /\ artifacts' = [artifacts EXCEPT ![target[a]] = "unmarked"]
          /\ Continue(a, "stageMark")
          /\ UNCHANGED budget
       \/ /\ Fault
          /\ Continue(a, "removeJournal")
          /\ UNCHANGED artifacts
    /\ UNCHANGED <<fs, progress, records, age, history>>

StageMark(a) ==
    /\ pc[a] = "stageMark"
    /\ \/ /\ artifacts' = [artifacts EXCEPT ![target[a]] = "marked"]
          /\ Continue(a, "stageCopy")
          /\ UNCHANGED budget
       \/ /\ Fault
          /\ \/ /\ artifacts' = [artifacts EXCEPT ![target[a]] = "none"]
                /\ Continue(a, "removeJournal")
             \/ /\ UNCHANGED artifacts
                /\ Continue(a, "stageCleanup")
    /\ UNCHANGED <<fs, progress, records, age, history>>

\* Backups and outputs are staged, or that fails or the deadline has passed.
StageCopy(a) ==
    /\ pc[a] = "stageCopy"
    /\ Continue(a, "commitStart") \/ Continue(a, "stageCleanup")
    /\ UNCHANGED <<disk, records, age, history, budget>>

\* cleanup_transaction_artifacts removes only a directory whose marker names
\* the transaction; the recursive removal takes the progress file with it and
\* may fail with the marker already gone.
ArtifactsRemoved(p) ==
    /\ artifacts[p] # "unmarked"
    /\ artifacts' = [artifacts EXCEPT ![p] = "none"]
    /\ progress' = [progress EXCEPT ![p] = NoProgress]
    /\ UNCHANGED budget
ArtifactsKept(p) ==
    \/ artifacts[p] = "unmarked" /\ UNCHANGED <<artifacts, progress, budget>>
    \/ artifacts[p] = "marked" /\ Fault /\ UNCHANGED <<artifacts, progress>>
    \/ /\ artifacts[p] = "marked" /\ Fault
       /\ artifacts' = [artifacts EXCEPT ![p] = "unmarked"]
       /\ progress' = [progress EXCEPT ![p] = NoProgress]

\* Mutant: the removal of the artifacts is retried until it succeeds.
StageCleanupRetried(a) ==
    /\ pc[a] = "stageCleanup"
    /\ \/ ArtifactsRemoved(target[a]) /\ Continue(a, "removeJournal")
       \/ ArtifactsKept(target[a]) /\ Continue(a, "stageCleanup")
    /\ UNCHANGED <<fs, records, age, history>>

StageCleanup(a) ==
    /\ pc[a] = "stageCleanup"
    /\ \/ ArtifactsRemoved(target[a]) /\ Continue(a, "removeJournal")
       \/ ArtifactsKept(target[a]) /\ Continue(a, "stageFailed")
    /\ UNCHANGED <<fs, records, age, history>>

StageFailed(a) ==
    /\ pc[a] = "stageFailed"
    /\ journal' = [journal EXCEPT ![target[a]].state = "RecoveryRequired"]
    /\ Finish(a)
    /\ UNCHANGED <<preview, receipt, recovery, age, disk, history, budget>>

\* remove_transaction and release_preview with their errors ignored: the
\* reservation is given back even if the journal could not be removed.
RemoveJournal(a) ==
    /\ pc[a] = "removeJournal"
    /\ \/ journal' = [journal EXCEPT ![target[a]] = NoJournal] /\ UNCHANGED budget
       \/ Fault /\ UNCHANGED journal
    /\ Continue(a, "release")
    /\ UNCHANGED <<preview, receipt, recovery, age, disk, history>>

\* release_preview writes the whole record, present or not.
Release(a) ==
    /\ pc[a] = "release"
    /\ preview' = [preview EXCEPT ![target[a]] = "unreserved"]
    /\ Finish(a)
    /\ UNCHANGED <<journal, receipt, recovery, age, disk, history, budget>>

-----------------------------------------------------------------------------
(* apply_preview: commit *)

Disk(a)  == fs[WorkspaceOf[target[a]]]
Write(a, m) == fs' = [fs EXCEPT ![WorkspaceOf[target[a]]] = m]
Proven(a) == progress[target[a]].proven
Seal(a, state, digest) ==
    journal' = [journal EXCEPT ![target[a]] = [state |-> state, digest |-> digest]]

\* Mutant: the commit begins without the journal saying so.
CommitStartUnrecorded(a) ==
    /\ pc[a] = "commitStart"
    /\ committed' = committed \cup {target[a]}
    /\ Continue(a, "intent")
    /\ UNCHANGED <<records, age, disk, discarded, budget>>

CommitStart(a) ==
    /\ pc[a] = "commitStart"
    /\ journal' = [journal EXCEPT ![target[a]].state = "Committing"]
    /\ committed' = committed \cup {target[a]}
    /\ Continue(a, "intent")
    /\ UNCHANGED <<preview, receipt, recovery, age, disk, discarded, budget>>

\* write_progress.  When it fails, the new record may be in place all the same:
\* the file is replaced before its permissions and its directory are seen to.
RecordIntent(a) == progress' = [progress EXCEPT ![target[a]].pending = TRUE]
RecordProof(a) == progress' = [progress EXCEPT ![target[a]] = [proven |-> Proven(a) + 1, pending |-> FALSE]]

\* Mutant: an operation that cannot begin gives the reservation back.
IntentFailureReleases(a) ==
    /\ pc[a] = "intent"
    /\ IF Disk(a) = At(target[a], Proven(a))
       THEN \/ RecordIntent(a) /\ Continue(a, "effect") /\ UNCHANGED budget
            \/ Fault /\ Continue(a, "release") /\ (RecordIntent(a) \/ UNCHANGED progress)
       ELSE Continue(a, "release") /\ UNCHANGED <<progress, budget>>
    /\ UNCHANGED <<fs, artifacts, records, age, history>>

\* One operation of commit_operations: the manifest so far is required and the
\* effect is recorded as a pending intent ...
Intent(a) ==
    /\ pc[a] = "intent"
    /\ IF Disk(a) = At(target[a], Proven(a))
       THEN \/ RecordIntent(a) /\ Continue(a, "effect") /\ UNCHANGED budget
            \/ Fault /\ Continue(a, "rollback") /\ (RecordIntent(a) \/ UNCHANGED progress)
       ELSE Continue(a, "rollback") /\ UNCHANGED <<progress, budget>>
    /\ UNCHANGED <<fs, artifacts, records, age, history>>

\* ... the resources are changed if they are still what the plan expects ...
Effect(a) ==
    /\ pc[a] = "effect"
    /\ IF Disk(a) = At(target[a], Proven(a))
       THEN \/ /\ Write(a, At(target[a], Proven(a) + 1))
               /\ Continue(a, "prove")
               /\ UNCHANGED budget
            \/ Fault /\ Continue(a, "rollback") /\ UNCHANGED fs
       ELSE Continue(a, "rollback") /\ UNCHANGED <<fs, budget>>
    /\ UNCHANGED <<artifacts, progress, records, age, history>>

\* Mutant: the loop over the operations does not stop at the last one.
ProvePastLast(a) ==
    /\ pc[a] = "prove"
    /\ RecordProof(a)
    /\ Continue(a, "intent")
    /\ UNCHANGED <<fs, artifacts, records, age, history, budget>>

\* ... and the effect is proven once the result is observed and recorded.
Prove(a) ==
    /\ pc[a] = "prove"
    /\ IF Disk(a) = At(target[a], Proven(a) + 1)
       THEN \/ /\ RecordProof(a)
               /\ Continue(a, IF Proven(a) + 1 < Ops THEN "intent" ELSE "inspect")
               /\ UNCHANGED budget
            \/ Fault /\ Continue(a, "rollback") /\ (RecordProof(a) \/ UNCHANGED progress)
       ELSE Continue(a, "rollback") /\ UNCHANGED <<progress, budget>>
    /\ UNCHANGED <<fs, artifacts, records, age, history>>

\* The intended manifest is inspected once more after the last operation.
Inspect(a) ==
    /\ pc[a] = "inspect"
    /\ IF Disk(a) = Intended(target[a])
       THEN Continue(a, "commitSeal")
       ELSE Continue(a, "rollback")
    /\ UNCHANGED <<records, age, disk, history, budget>>

\* The digest sealed into the journal covers the intended manifest's paths.
CommitSeal(a) ==
    /\ pc[a] = "commitSeal"
    /\ Seal(a, "CleanupPending", [at |-> Intended(target[a]), full |-> target[a] \notin Narrow])
    /\ Decide(a, "applied", "writeReceipt")
    /\ UNCHANGED <<preview, receipt, recovery, age, disk, history, budget>>

-----------------------------------------------------------------------------
(* rollback_transaction, for an Application and for a Recovery *)

\* What it makes of the filesystem it finds: nothing to undo, a chain of proven
\* effects that ends in what is there now, or no proof to act on.
NothingToUndo(a) == Disk(a) = Base
Undoable(a) ==
    /\ ~NothingToUndo(a)
    /\ artifacts[target[a]] = "marked"
    /\ ~progress[target[a]].pending
    /\ Proven(a) > 0
    /\ Disk(a) = At(target[a], Proven(a))

\* The steps of a rollback that runs at labels "start" and "undo" and ends at
\* "ok" or gives up as "Failed" says.  The progress file is not rewritten.
RollbackFrom(a, undo, ok, Failed) ==
    \/ NothingToUndo(a) /\ Continue(a, ok) /\ UNCHANGED budget
    \/ /\ Undoable(a)
       /\ left' = [left EXCEPT ![a] = Proven(a)]
       /\ Goto(a, undo)
       /\ UNCHANGED <<lock, target, outcome, seen, supplied, budget>>
    \/ ~NothingToUndo(a) /\ ~Undoable(a) /\ Failed /\ UNCHANGED budget
    \/ Fault /\ Failed

\* One effect is undone while the filesystem is exactly what it left behind;
\* the last one is followed by an inspection of the whole manifest.
UndoStep(a, ok, Failed) ==
    \/ /\ left[a] > 0
       /\ Disk(a) = At(target[a], left[a])
       /\ Write(a, At(target[a], left[a] - 1))
       /\ left' = [left EXCEPT ![a] = left[a] - 1]
       /\ UNCHANGED <<pc, lock, target, outcome, seen, supplied, budget>>
    \/ /\ left[a] = 0
       /\ IF Disk(a) = Base THEN Continue(a, ok) ELSE Failed
       /\ UNCHANGED <<fs, budget>>
    \/ /\ left[a] > 0 /\ Disk(a) # At(target[a], left[a])
       /\ Failed
       /\ UNCHANGED <<fs, budget>>
    \/ Fault /\ Failed /\ UNCHANGED fs

Rollback(a) ==
    /\ pc[a] = "rollback"
    /\ RollbackFrom(a, "undo", "rolledSeal", Continue(a, "recoverySeal"))
    /\ UNCHANGED <<records, age, disk, history>>

Undo(a) ==
    /\ pc[a] = "undo"
    /\ UndoStep(a, "rolledSeal", Continue(a, "recoverySeal"))
    /\ UNCHANGED <<artifacts, progress, records, age, history>>

RolledSeal(a) ==
    /\ pc[a] = "rolledSeal"
    /\ Seal(a, "CleanupPending", Whole(Base))
    /\ Decide(a, "rolled_back", "writeReceipt")
    /\ UNCHANGED <<preview, receipt, recovery, age, disk, history, budget>>

RecoverySeal(a) ==
    /\ pc[a] = "recoverySeal"
    /\ Seal(a, "RecoveryRequired", Whole(Disk(a)))
    /\ Decide(a, "recovery_required", "writeReceipt")
    /\ UNCHANGED <<preview, receipt, recovery, age, disk, history, budget>>

-----------------------------------------------------------------------------
(* apply_preview: the terminal Receipt and cleanup *)

\* convert_preview_to_receipt: write_receipt prunes, needs room for the record,
\* and writes it; without room the command ends with its journal in place ...
WriteReceipt(a) ==
    /\ pc[a] = "writeReceipt"
    /\ preview' = PrunedPreview /\ recovery' = PrunedRecovery
    /\ IF ReceiptRoom
       THEN /\ receipt' = [PrunedReceipt EXCEPT ![target[a]] =
                               [outcome |-> outcome[a], cleanup |-> TRUE, synced |-> FALSE]]
            /\ oldReceipts' = oldReceipts \ {target[a]}
            /\ Continue(a, "dropPreview")
       ELSE receipt' = PrunedReceipt /\ Finish(a) /\ UNCHANGED oldReceipts
    /\ UNCHANGED <<journal, oldPreviews, disk, history, budget>>

\* ... then removes the Preview (a failure only rewrites cleanup_pending).
DropPreview(a) ==
    /\ pc[a] = "dropPreview"
    /\ \/ preview' = [preview EXCEPT ![target[a]] = "absent"] /\ UNCHANGED budget
       \/ Fault /\ UNCHANGED preview
    /\ IF outcome[a] = "recovery_required" THEN Finish(a) ELSE Continue(a, "cleanArtifacts")
    /\ UNCHANGED <<journal, receipt, recovery, age, disk, history>>

\* finish_terminal_cleanup: each step runs only if the ones before succeeded.
CleanArtifacts(a) ==
    /\ pc[a] = "cleanArtifacts"
    /\ \/ ArtifactsRemoved(target[a]) /\ Continue(a, "retirePreview")
       \/ ArtifactsKept(target[a]) /\ Continue(a, "postCommit")
    /\ UNCHANGED <<fs, records, age, history>>

RetirePreview(a) ==
    /\ pc[a] = "retirePreview"
    /\ \/ /\ preview' = [preview EXCEPT ![target[a]] = "absent"]
          /\ Continue(a, "cleanJournal")
          /\ UNCHANGED budget
       \/ Fault /\ Continue(a, "postCommit") /\ UNCHANGED preview
    /\ UNCHANGED <<journal, receipt, recovery, age, disk, history>>

CleanJournal(a) ==
    /\ pc[a] = "cleanJournal"
    /\ \/ /\ journal' = [journal EXCEPT ![target[a]] = NoJournal]
          /\ Continue(a, "clearRead")
          /\ UNCHANGED budget
       \/ Fault /\ Continue(a, "postCommit") /\ UNCHANGED journal
    /\ UNCHANGED <<preview, receipt, recovery, age, disk, history>>

\* mark_receipt_cleanup_complete reads the Receipt and writes it back whole.
ReadSeen(a, label) ==
    /\ seen' = [seen EXCEPT ![a] = receipt[target[a]]]
    /\ Goto(a, label)
    /\ UNCHANGED <<lock, target, outcome, supplied, left>>

ClearRead(a) ==
    /\ pc[a] = "clearRead"
    /\ IF receipt[target[a]].cleanup THEN ReadSeen(a, "clearWrite") ELSE Continue(a, "postCommit")
    /\ UNCHANGED <<records, age, disk, history, budget>>

ClearWrite(a) ==
    /\ pc[a] = "clearWrite"
    /\ \/ receipt' = [receipt EXCEPT ![target[a]] = [seen[a] EXCEPT !.cleanup = FALSE]]
          /\ UNCHANGED budget
       \/ Fault /\ UNCHANGED receipt
    /\ Continue(a, "postCommit")
    /\ UNCHANGED <<preview, journal, recovery, age, disk, history>>

\* The post_commit hook refreshes the live Owners under the lock; if that fails
\* the command synchronizes once more after apply_preview has returned.
PostCommit(a) ==
    /\ pc[a] = "postCommit"
    /\ IF outcome[a] = "applied"
       THEN /\ Goto(a, "syncRead")
            /\ lock' \in {lock, Unlocked(a)}
            /\ UNCHANGED locals
       ELSE Finish(a)
    /\ UNCHANGED <<records, age, disk, history, budget>>

\* synchronize_application_receipt and mark_receipt_session_synchronized: an
\* unknown Receipt or Owners that cannot refresh end the command.
SyncRead(a) ==
    /\ pc[a] = "syncRead"
    /\ \/ Finish(a)
       \/ HasReceipt(target[a]) /\ ~receipt[target[a]].synced /\ ReadSeen(a, "syncWrite")
    /\ UNCHANGED <<records, age, disk, history, budget>>

SyncWrite(a) ==
    /\ pc[a] = "syncWrite"
    /\ receipt' = [receipt EXCEPT ![target[a]] = [seen[a] EXCEPT !.synced = TRUE]]
    /\ Finish(a)
    /\ UNCHANGED <<preview, journal, recovery, age, disk, history, budget>>

-----------------------------------------------------------------------------
(* discard_preview, and the Preview and Receipt branches of prune_state *)

\* An unreserved Preview is removed without the lock (state prune does the same
\* with the Previews named to it); a reserved one only under the lock and if no
\* journal owns it.
DiscardRead(a, p) ==
    /\ Begin(a, p, "discardRemove")
    /\ Readable(p)
    /\ \/ preview[p] = "unreserved" /\ UNCHANGED lock
       \/ /\ preview[p] = "reserved" /\ ~HasJournal(p)
          /\ lock[WorkspaceOf[p]] = NoProc
          /\ lock' = [lock EXCEPT ![WorkspaceOf[p]] = a]
    /\ UNCHANGED <<outcome, supplied, records, age, disk, history, budget>>

\* The file is removed, whatever it says now.
DiscardRemove(a) ==
    /\ pc[a] = "discardRemove"
    /\ preview' = [preview EXCEPT ![target[a]] = "absent"]
    /\ discarded' = IF preview[target[a]] = "absent" THEN discarded ELSE discarded \cup {target[a]}
    /\ Finish(a)
    /\ UNCHANGED <<journal, receipt, recovery, age, disk, committed, budget>>

\* A Receipt named to state prune goes with its chain unless that is protected.
PruneReceipts(p) ==
    /\ \/ /\ HasReceipt(p) /\ ~ChainProtected(p)
          /\ receipt' = [receipt EXCEPT ![p] = NoReceipt]
          /\ recovery' = [recovery EXCEPT ![p] =
                 [r \in RecoveryReceipt |-> IF r.linked THEN 0 ELSE recovery[p][r]]]
       \/ \E r \in RecoveryReceipt \ Linked(p) :
             /\ recovery[p][r] > 0
             /\ recovery' = [recovery EXCEPT ![p][r] = @ - 1]
             /\ UNCHANGED receipt
    /\ UNCHANGED <<preview, journal, age, disk, lock, pc, locals, history, budget>>

\* state prune without names, and the pruning of list and create commands.
PruneExpired ==
    /\ preview' = PrunedPreview /\ receipt' = PrunedReceipt /\ recovery' = PrunedRecovery
    /\ UNCHANGED <<journal, age, disk, lock, pc, locals, history, budget>>

-----------------------------------------------------------------------------
(* Recovery *)

\* recovery status seals a journal nobody holds the lock for: what is there now
\* becomes the evidence, and anything but an untouched staging needs Recovery.
\* A journal that is already sealed is reported as it was recorded.
ReconcileStatus(p) ==
    LET w == WorkspaceOf[p]
    IN  /\ lock[w] = NoProc
        /\ journal[p].state \in {"Staged", "Committing"}
        /\ journal' = [journal EXCEPT ![p] =
               [state |-> IF journal[p].state = "Committing" \/ fs[w] # Base
                          THEN "RecoveryRequired" ELSE "Staged",
                digest |-> Whole(fs[w])]]
        /\ UNCHANGED <<preview, receipt, recovery, age, disk, lock, pc, locals, history, budget>>

\* recovery rollback and recovery accept-current, with the digest that recovery
\* status reports at the time; "o" is the outcome the user asks for.
StartRecover(a, p, o) ==
    /\ HasJournal(p)
    /\ Begin(a, p, "recoverWait")
    /\ outcome' = [outcome EXCEPT ![a] = o]
    /\ supplied' = [supplied EXCEPT ![a] = journal[p].digest]
    /\ UNCHANGED <<lock, records, age, disk, history, budget>>

LockForRecovery(a) ==
    /\ pc[a] = "recoverWait"
    /\ TakeLock(a, "recoverCheck") \/ (LockOf(a) # NoProc /\ Finish(a))
    /\ UNCHANGED <<records, age, disk, history, budget>>

\* Mutant: a sealed transaction may be rolled back.
RecoveryRefusedUnsealed(a) ==
    \/ ~HasJournal(target[a])
    \/ supplied[a] # journal[target[a]].digest

\* recovery_not_found and recovery_manifest_mismatch.
RecoveryRefused(a) ==
    \/ ~HasJournal(target[a])
    \/ journal[target[a]].state = "CleanupPending" /\ outcome[a] = "restored"
    \/ supplied[a] # journal[target[a]].digest

\* recovery_conflict: what an inspection of every path finds has another digest.
RecoveryConflict(a) == Whole(Disk(a)) # journal[target[a]].digest

RecoverCheck(a) ==
    /\ pc[a] = "recoverCheck"
    /\ IF RecoveryRefused(a)
       THEN Finish(a) /\ UNCHANGED records
       ELSE /\ preview' = PrunedPreview /\ receipt' = PrunedReceipt /\ recovery' = PrunedRecovery
            /\ IF ~ReceiptRoom \/ RecoveryConflict(a)
               THEN Finish(a)
               ELSE Continue(a, IF outcome[a] = "restored" THEN "recoverRollback" ELSE "recoverReceipt")
            /\ UNCHANGED journal
    /\ UNCHANGED <<age, disk, history, budget>>

\* Mutant: a failed rollback is reported as a restored Workspace.
RecoverRollbackAnyway(a) ==
    /\ pc[a] = "recoverRollback"
    /\ RollbackFrom(a, "recoverUndo", "recoverReceipt", Continue(a, "recoverReceipt"))
    /\ UNCHANGED <<records, age, disk, history>>

\* A rollback that fails leaves the journal as it was recorded (recovery_failed).
RecoverRollback(a) ==
    /\ pc[a] = "recoverRollback"
    /\ RollbackFrom(a, "recoverUndo", "recoverReceipt", Finish(a))
    /\ UNCHANGED <<records, age, disk, history>>

RecoverUndo(a) ==
    /\ pc[a] = "recoverUndo"
    /\ UndoStep(a, "recoverReceipt", Finish(a))
    /\ UNCHANGED <<artifacts, progress, records, age, history>>

\* The Recovery Receipt is written before anything else is taken away.
RecoverReceipt(a) ==
    /\ pc[a] = "recoverReceipt"
    /\ preview' = PrunedPreview /\ receipt' = PrunedReceipt
    /\ IF ReceiptRoom
       THEN /\ recovery' = [PrunedRecovery EXCEPT ![target[a]][
                   [outcome |-> outcome[a], linked |-> HasReceipt(target[a])]] = @ + 1]
            /\ oldReceipts' = oldReceipts \ {target[a]}
            /\ Continue(a, "recoverRetire")
       ELSE recovery' = PrunedRecovery /\ Finish(a) /\ UNCHANGED oldReceipts
    /\ UNCHANGED <<journal, oldPreviews, disk, history, budget>>

\* Mutant: a Recovery gives the reservation back instead of retiring the Preview.
RecoverRetireReleases(a) ==
    /\ pc[a] = "recoverRetire"
    /\ preview' = [preview EXCEPT ![target[a]] = "unreserved"]
    /\ Continue(a, "recoverClean")
    /\ UNCHANGED <<journal, receipt, recovery, age, disk, history, budget>>

RecoverRetire(a) ==
    /\ pc[a] = "recoverRetire"
    /\ preview' = [preview EXCEPT ![target[a]] = "absent"]
    /\ Continue(a, "recoverClean")
    /\ UNCHANGED <<journal, receipt, recovery, age, disk, history, budget>>

RecoverClean(a) ==
    /\ pc[a] = "recoverClean"
    /\ \/ ArtifactsRemoved(target[a]) /\ Continue(a, "recoverRemove")
       \/ ArtifactsKept(target[a]) /\ Finish(a)
    /\ UNCHANGED <<fs, records, age, history>>

RecoverRemove(a) ==
    /\ pc[a] = "recoverRemove"
    /\ journal' = [journal EXCEPT ![target[a]] = NoJournal]
    /\ Finish(a)
    /\ UNCHANGED <<preview, receipt, recovery, age, disk, history, budget>>

-----------------------------------------------------------------------------
(* Environment *)

\* A process dies, or an error ends its command.  The recursive removal of an
\* artifact directory may be cut short with the marker already gone.
Crash(a) ==
    /\ pc[a] # "idle"
    /\ crashes < MaxCrashes
    /\ crashes' = crashes + 1
    /\ Finish(a)
    /\ \/ UNCHANGED <<artifacts, progress>>
       \/ /\ pc[a] \in {"stageCleanup", "cleanArtifacts", "recoverClean"}
          /\ artifacts[target[a]] = "marked"
          /\ artifacts' = [artifacts EXCEPT ![target[a]] = "unmarked"]
          /\ progress' = [progress EXCEPT ![target[a]] = NoProgress]
    /\ UNCHANGED <<fs, records, age, history, faults, writes>>

\* An editor or another tool changes the files, or puts them back.
ExternalWrite(w) ==
    /\ writes < MaxWrites
    /\ writes' = writes + 1
    /\ \E m \in {Base, Foreign} : fs[w] # m /\ fs' = [fs EXCEPT ![w] = m]
    /\ UNCHANGED <<records, age, artifacts, progress, lock, pc, locals, history, crashes, faults>>

\* Time passes.
Expire(p) ==
    /\ p \in Expiring
    /\ \/ /\ preview[p] # "absent" /\ p \notin oldPreviews
          /\ oldPreviews' = oldPreviews \cup {p}
          /\ UNCHANGED oldReceipts
       \/ /\ HasReceipt(p) \/ recovery[p] # NoRecovery
          /\ p \notin oldReceipts
          /\ oldReceipts' = oldReceipts \cup {p}
          /\ UNCHANGED oldPreviews
    /\ UNCHANGED <<records, disk, lock, pc, locals, history, budget>>

-----------------------------------------------------------------------------
(* Specification *)

ReserveStep(a) ==
    \/ CheckReceipt(a) \/ ReadPreview(a) \/ RecheckReceipt(a) \/ LockForApplication(a)
    \/ CheckReceiptLocked(a) \/ ReserveRead(a) \/ ReserveWrite(a) \/ Release(a)
StageStep(a) ==
    \/ Prepare(a) \/ WriteJournal(a) \/ StageMkdir(a) \/ StageMark(a) \/ StageCopy(a)
    \/ StageCleanup(a) \/ StageFailed(a) \/ RemoveJournal(a)
CommitStep(a) ==
    \/ CommitStart(a) \/ Intent(a) \/ Effect(a) \/ Prove(a) \/ Inspect(a) \/ CommitSeal(a)
    \/ Rollback(a) \/ Undo(a) \/ RolledSeal(a) \/ RecoverySeal(a)
FinishStep(a) ==
    \/ WriteReceipt(a) \/ DropPreview(a) \/ CleanArtifacts(a) \/ RetirePreview(a)
    \/ CleanJournal(a) \/ ClearRead(a) \/ ClearWrite(a) \/ PostCommit(a)
    \/ SyncRead(a) \/ SyncWrite(a) \/ DiscardRemove(a)
RecoverStep(a) ==
    \/ LockForRecovery(a) \/ RecoverCheck(a) \/ RecoverRollback(a) \/ RecoverUndo(a)
    \/ RecoverReceipt(a) \/ RecoverRetire(a) \/ RecoverClean(a) \/ RecoverRemove(a)
Step(a) == ReserveStep(a) \/ StageStep(a) \/ CommitStep(a) \/ FinishStep(a) \/ RecoverStep(a)

Command(a, p) ==
    \/ StartApply(a, p)
    \/ DiscardRead(a, p)
    \/ \E o \in RecoveryOutcome : StartRecover(a, p, o)

Store(p) == PruneReceipts(p) \/ ReconcileStatus(p) \/ Expire(p)

Next ==
    \/ \E a \in Proc : Step(a) \/ Crash(a)
    \/ \E a \in Proc, p \in Preview : Command(a, p)
    \/ \E p \in Preview : Store(p)
    \/ PruneExpired
    \/ \E w \in Workspace : ExternalWrite(w)

Spec == Init /\ [][Next]_vars

\* Every step of a running command is taken in the end: the code is sequential,
\* its loops are bounded and its lock waits time out.  Nobody has to start a
\* command, and no fault, crash, write or expiry has to happen.
FairSpec == Spec /\ \A a \in Proc : WF_vars(Step(a))

\* A user who keeps asking for the status and accepting what it reports.
Persistent(a, p) == StartRecover(a, p, "accepted_current")
OperatorSpec ==
    /\ FairSpec
    /\ \A p \in Preview : SF_vars(ReconcileStatus(p))
    /\ \A a \in Proc, p \in Preview : SF_vars(Persistent(a, p))

-----------------------------------------------------------------------------
(* Properties *)

Label == Lockless \cup Holding

RecordsOK ==
    /\ preview \in [Preview -> {"absent", "unreserved", "reserved"}]
    /\ journal \in [Preview -> Journal]
    /\ receipt \in [Preview -> Receipt]
    /\ recovery \in [Preview -> [RecoveryReceipt -> Nat]]
    /\ oldPreviews \subseteq Preview /\ oldReceipts \subseteq Preview
DiskOK ==
    /\ fs \in [Workspace -> Manifest]
    /\ artifacts \in [Preview -> {"none", "unmarked", "marked"}]
    /\ progress \in [Preview -> Progress]
LocalsOK ==
    /\ lock \in [Workspace -> Proc \cup {NoProc}]
    /\ pc \in [Proc -> Label]
    /\ target \in [Proc -> Preview \cup {NoPreview}]
    /\ outcome \in [Proc -> ApplicationOutcome \cup RecoveryOutcome \cup {"none"}]
    /\ seen \in [Proc -> Receipt]
    /\ supplied \in [Proc -> Digest]
    /\ left \in [Proc -> 0..Ops]
HistoryOK ==
    /\ committed \subseteq Preview /\ discarded \subseteq Preview
    /\ crashes \in 0..MaxCrashes /\ faults \in 0..MaxFaults /\ writes \in 0..MaxWrites

\* Types, bounds included: the progress of a commit never passes its plan.
TypeOK == RecordsOK /\ DiskOK /\ LocalsOK /\ HistoryOK

\* At-most-once (the comment over apply_preview): however often a Preview is
\* applied, by however many processes, with crashes and failed writes at any
\* point, the operations of its plan are begun at most once.
AtMostOnce ==
    [][\A p \in Preview :
        journal'[p].state = "Committing" /\ journal[p].state # "Committing" => p \notin committed]_vars

\* One Workspace has at most one transaction at a time, crashed ones included:
\* an unresolved journal stops every other Application in its Workspace.
OneTransaction ==
    \A p, q \in Preview :
        HasJournal(p) /\ HasJournal(q) /\ WorkspaceOf[p] = WorkspaceOf[q] => p = q

\* Whatever lspctl itself writes to a Workspace is covered by the durable
\* journal of the one Preview it belongs to, and that journal is still open to
\* Recovery: nothing is written before the journal or after its sealing.
WriteAhead ==
    [][\A w \in Workspace :
        fs'[w] # fs[w] /\ writes' = writes =>
            \E p \in Preview :
                /\ Journals(w) = {p}
                /\ journal[p].state \in {"Committing", "RecoveryRequired"}
                /\ {fs[w].by, fs'[w].by} \subseteq {p, NoPreview}]_vars

\* A Preview that can be applied again, a Receipt that says rolled_back and a
\* Recovery Receipt that says restored all mean that nothing of the Preview's
\* plan is left in the files.
NoResidue ==
    \A p \in Preview :
        fs[WorkspaceOf[p]].by = p =>
            /\ preview[p] # "unreserved"
            /\ receipt[p].outcome # "rolled_back"
            /\ \A r \in RecoveryReceipt : r.outcome = "restored" => recovery[p][r] = 0

\* Evidence of a partly applied Preview goes away only when a user accepted the
\* partial state: no crash or fault lets a cleanup drop it.
PartialNeedsDecision ==
    [][\A p \in Preview :
        HasJournal(p) /\ ~HasJournal(p)' /\ fs[WorkspaceOf[p]].by = p
            /\ fs[WorkspaceOf[p]] # Intended(p) =>
            \E a \in Proc : target[a] = p /\ outcome[a] = "accepted_current"]_vars

\* Once a Receipt says applied, lspctl never undoes what it says: only an
\* external write takes the result away.
AppliedStays ==
    [][\A p \in Preview :
        Applied(p) /\ fs[WorkspaceOf[p]].by = p /\ writes' = writes =>
            fs'[WorkspaceOf[p]] = fs[WorkspaceOf[p]]]_vars

\* The outcome of a commit that was begun is on record when its journal goes: a
\* prune never takes the Application's Receipt before its cleanup is done.
OutcomeRecorded ==
    [][\A p \in committed :
        HasJournal(p) /\ ~HasJournal(p)' =>
            \/ receipt[p].outcome \in {"applied", "rolled_back"}
            \/ \E a \in Proc : target[a] = p /\ outcome[a] \in RecoveryOutcome]_vars

\* The applied Receipt, with no other writer, means the whole plan is there.
AppliedIsComplete ==
    \A p \in Preview :
        Applied(p) /\ writes = 0 => fs[WorkspaceOf[p]] = Intended(p)

\* Every command comes to its end.
CommandsEnd == \A a \in Proc : pc[a] # "idle" ~> pc[a] = "idle"

\* A Receipt says what the files hold, whoever failed or crashed: see its parts.
ReceiptsTellTruth == NoResidue /\ AppliedIsComplete

-----------------------------------------------------------------------------
(* What all of it comes to for the files of a Workspace *)

\* A commit that has begun is open to its own writes until its journal is sealed.
Open(p) == journal[p].state \in {"Committing", "RecoveryRequired"} /\ p \in committed
Writer == [w \in Workspace |->
              IF \E p \in Preview : WorkspaceOf[p] = w /\ Open(p)
              THEN CHOOSE p \in Preview : WorkspaceOf[p] = w /\ Open(p)
              ELSE NoPreview]

Files == INSTANCE SerialCommits WITH writer <- Writer, begun <- committed, files <- fs

\* Records, locks, crashes, faults and Recoveries implement what SerialCommits
\* promises: Previews write a Workspace one at a time, each of them once, along
\* its plan or back, and the seal that ends a commit ends its writes for good.
CommitsAreSerial == Files!Spec

-----------------------------------------------------------------------------
(* What the code or its documents say and the protocol does not keep *)

\* recovery_conflict reports that "The filesystem changed after Recovery was
\* recorded": a Recovery is refused that way only if the files did change.
ConflictMeansChange ==
    \A a \in Proc :
        pc[a] = "recoverCheck" /\ ~RecoveryRefused(a) /\ RecoveryConflict(a) =>
            Disk(a) # journal[target[a]].digest.at

\* A reserved Preview is owned by its Application: one that a discard reported
\* gone is not applied afterwards.
DiscardedStaysGone ==
    [][\A p \in Preview : p \in committed' \ committed => p \notin discarded]_vars

\* The write stop clears: with a user who keeps accepting what recovery status
\* reports, an unresolved journal goes away.
WriteStopClears == \A p \in Preview : HasJournal(p) ~> ~HasJournal(p)

=============================================================================
