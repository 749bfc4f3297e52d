-------------------- MODULE WorkspaceTransaction_proofs --------------------
(***************************************************************************)
(* Proofs about WorkspaceTransaction, for any number of processes,         *)
(* Previews, Workspaces, operations, crashes, faults and external writes.  *)
(*                                                                         *)
(* First, its type invariant, one transaction per Workspace, at-most-once  *)
(* application and write-ahead journaling.                                 *)
(*                                                                         *)
(* Second, the protocol implements SerialCommits.  The mapping of          *)
(* CommitsAreSerial takes the writer of a Workspace from the journals, so  *)
(* most of this is about which steps open a journal to writes and which    *)
(* close it.                                                               *)
(*                                                                         *)
(* Third, what the records say is what the files hold: a Receipt that      *)
(* says applied, one that says rolled_back and a Recovery Receipt that     *)
(* says restored are never wrong, and the evidence of a partly applied     *)
(* Preview goes away by a decision of the user's only.                     *)
(***************************************************************************)
EXTENDS WorkspaceTransaction, TLAPS

-----------------------------------------------------------------------------
(* The inductive invariant *)

\* Labels of a process whose target's journal is there: from the first journal
\* write to the terminal Receipt.
Journaled == {"stageMkdir", "stageMark", "stageCopy", "stageCleanup", "stageFailed",
              "commitStart"} \cup Committed

\* A running command has a target, and knows the kind of outcome it records.
Targets  == \A a \in Proc : pc[a] # "idle" => target[a] \in Preview
Outcomes ==
    \A a \in Proc :
        /\ pc[a] = "writeReceipt" => outcome[a] \in ApplicationOutcome
        /\ pc[a] \in Recovering \cup {"recoverWait"} => outcome[a] \in RecoveryOutcome

\* The advisory lock is what makes the labels in Holding mutually exclusive.
LockHeld == \A a \in Proc : pc[a] \in Holding => LockOf(a) = a

ControlInv == Targets /\ Outcomes /\ LockHeld

\* The journal an Application is about to write is the first of its Workspace;
\* once written it stays until the Application removes it.
JournalFree == \A a \in Proc : pc[a] = "journal" => Journals(WorkspaceOf[target[a]]) = {}
JournalKept == \A a \in Proc : pc[a] \in Journaled => HasJournal(target[a])

\* What the journal says of a commit that runs, and of a rollback by Recovery.
StagedBefore == \A p \in Preview : journal[p].state = "Staged" => p \notin committed
Committing   == \A a \in Proc : pc[a] \in Committed => journal[target[a]].state = "Committing"
RecoverOpen  ==
    \A a \in Proc :
        /\ pc[a] = "recoverRollback" => journal[target[a]].state \notin {"none", "CleanupPending"}
        /\ pc[a] = "recoverUndo" => journal[target[a]].state \in {"Committing", "RecoveryRequired"}

JournalInv == JournalFree /\ JournalKept /\ OneTransaction /\ StagedBefore /\ Committing /\ RecoverOpen

\* A Preview whose commit began is never unreserved again, so that no
\* Application of it gets past its reservation.
Spent       == \A p \in committed : preview[p] # "unreserved"
Reserved    ==
    \A a \in Proc : pc[a] \in PreCommit \ {"reserveWrite", "release"} =>
        preview[target[a]] # "unreserved"
Uncommitted == \A a \in Proc : pc[a] \in PreCommit \cup {"stageFailed"} => target[a] \notin committed
Begun       == \A a \in Proc : pc[a] \in Committed => target[a] \in committed

CommitInv == Spent /\ Reserved /\ Uncommitted /\ Begun

\* A Receipt says applied, or a process is about to write that it does.
SaysApplied(p) ==
    \/ Applied(p)
    \/ \E a \in Proc :
          /\ target[a] = p
          /\ \/ pc[a] = "writeReceipt" /\ outcome[a] = "applied"
             \/ pc[a] \in {"clearWrite", "syncWrite"} /\ seen[a].outcome = "applied"

\* By then the commit is over and its journal, if it is still there, is sealed.
AppliedInv ==
    \A p \in Preview : SaysApplied(p) =>
        p \in committed /\ journal[p].state \in {"none", "CleanupPending"}

\* Effects are counted from zero, and no further than the plan.
Untouched  == \A p \in Preview \ committed : progress[p].proven = 0
Unfinished == \A a \in Proc : pc[a] \in {"intent", "effect", "prove"} => Proven(a) < Ops

ProgressInv == Untouched /\ Unfinished

IInv == TypeOK /\ ControlInv /\ JournalInv /\ CommitInv /\ AppliedInv /\ ProgressInv

-----------------------------------------------------------------------------
(* Types of the values the actions are built from *)

LEMMA NullTypes ==
    /\ Base \in Manifest /\ Foreign \in Manifest
    /\ Whole(Base) \in Digest
    /\ NoJournal \in Journal
    /\ NoReceipt \in Receipt
    /\ NoRecovery \in [RecoveryReceipt -> Nat]
    /\ NoProgress \in Progress
  BY ConstantAssumption DEF Base, Foreign, Manifest, Whole, Digest, NoJournal, Journal, JournalState,
     NoReceipt, Receipt, NoRecovery, NoProgress, Progress

LEMMA AtTypes == \A p \in Preview, k \in 0..Ops : At(p, k) \in Manifest
  BY NullTypes DEF At, Manifest

LEMMA DigestTypes ==
    \A m \in Manifest, b \in BOOLEAN : Whole(m) \in Digest /\ [at |-> m, full |-> b] \in Digest
  BY DEF Digest, Whole

LEMMA JournalTypes ==
    /\ \A s \in JournalState, d \in Digest : [state |-> s, digest |-> d] \in Journal
    /\ \A j \in Journal, s \in JournalState : [j EXCEPT !.state = s] \in Journal
  BY DEF Journal

LEMMA ProgressTypes ==
    /\ \A g \in Progress : g.proven \in 0..Ops /\ [g EXCEPT !.pending = TRUE] \in Progress
    /\ \A k \in 0..Ops : [proven |-> k, pending |-> FALSE] \in Progress
  BY DEF Progress

LEMMA ReceiptTypes ==
    /\ \A r \in Receipt : [r EXCEPT !.cleanup = FALSE] \in Receipt /\ [r EXCEPT !.synced = TRUE] \in Receipt
    /\ \A o \in ApplicationOutcome : [outcome |-> o, cleanup |-> TRUE, synced |-> FALSE] \in Receipt
    /\ \A o \in RecoveryOutcome, b \in BOOLEAN : [outcome |-> o, linked |-> b] \in RecoveryReceipt
  BY DEF Receipt, RecoveryReceipt

LEMMA RecoveryCounted ==
    ASSUME NEW f \in [Preview -> [RecoveryReceipt -> Nat]], NEW p \in Preview, NEW r \in RecoveryReceipt
    PROVE  [f EXCEPT ![p][r] = @ + 1] \in [Preview -> [RecoveryReceipt -> Nat]]
  <1>1. [f[p] EXCEPT ![r] = @ + 1] \in [RecoveryReceipt -> Nat] OBVIOUS
  <1>. QED BY <1>1

\* A prune takes records away and writes none.
LEMMA PrunedTypes ==
    ASSUME RecordsOK
    PROVE  /\ PrunedPreview \in [Preview -> {"absent", "unreserved", "reserved"}]
           /\ \A p \in Preview : PrunedPreview[p] \in {preview[p], "absent"}
           /\ PrunedReceipt \in [Preview -> Receipt]
           /\ \A p \in Preview : PrunedReceipt[p] \in {receipt[p], NoReceipt}
           /\ \A p \in Preview : PrunedReceipt[p].outcome = "applied" => Applied(p)
           /\ PrunedRecovery \in [Preview -> [RecoveryReceipt -> Nat]]
  BY NullTypes DEF RecordsOK, PrunedPreview, PrunedReceipt, PrunedRecovery, Applied, NoReceipt

\* The removal of an artifact directory at most forgets the progress in it.
LEMMA ArtifactsTypes ==
    ASSUME DiskOK, HistoryOK, NEW p \in Preview, ArtifactsRemoved(p) \/ ArtifactsKept(p)
    PROVE  /\ artifacts' \in [Preview -> {"none", "unmarked", "marked"}]
           /\ progress' \in [Preview -> Progress]
           /\ \A q \in Preview : progress'[q].proven \in {progress[q].proven, 0}
           /\ crashes' = crashes /\ writes' = writes /\ faults' \in 0..MaxFaults
  <1>1. progress' = progress \/ progress' = [progress EXCEPT ![p] = NoProgress]
    BY DEF ArtifactsRemoved, ArtifactsKept
  <1>2. progress' \in [Preview -> Progress]
    BY <1>1, NullTypes DEF DiskOK
  <1>5. \A q \in Preview : progress'[q].proven \in {progress[q].proven, 0}
    BY <1>1 DEF DiskOK, NoProgress
  <1>3. artifacts' \in [Preview -> {"none", "unmarked", "marked"}]
    BY DEF DiskOK, ArtifactsRemoved, ArtifactsKept
  <1>4. crashes' = crashes /\ writes' = writes /\ faults' \in 0..MaxFaults
    BY ConstantAssumption DEF HistoryOK, ArtifactsRemoved, ArtifactsKept, Fault, budget
  <1>. QED BY <1>2, <1>3, <1>4, <1>5

-----------------------------------------------------------------------------
(* What the control operators of the specification do to the process state *)

LEMMA FinishLocals ==
    ASSUME LocalsOK, NEW a \in Proc, Finish(a)
    PROVE  LocalsOK'
  BY NullTypes, ConstantAssumption DEF LocalsOK, Finish, Goto, Unlocked, Label, Lockless

LEMMA ContinueLocals ==
    ASSUME LocalsOK, NEW a \in Proc, NEW l \in Label, Continue(a, l)
    PROVE  LocalsOK'
  BY DEF LocalsOK, Continue, Goto, locals

LEMMA TakeLockLocals ==
    ASSUME LocalsOK, NEW a \in Proc, NEW l \in Label, TakeLock(a, l)
    PROVE  LocalsOK'
  BY DEF LocalsOK, TakeLock, Goto, locals

LEMMA GotoLocals ==
    ASSUME LocalsOK, NEW a \in Proc, NEW l \in Label, Goto(a, l),
           lock' \in {lock, Unlocked(a)}, UNCHANGED locals
    PROVE  LocalsOK'
  BY ConstantAssumption DEF LocalsOK, Goto, Unlocked, locals

LEMMA DecideLocals ==
    ASSUME LocalsOK, NEW a \in Proc, NEW l \in Label, NEW o \in ApplicationOutcome, Decide(a, o, l)
    PROVE  LocalsOK'
  BY DEF LocalsOK, Decide, Goto

LEMMA ReadSeenLocals ==
    ASSUME LocalsOK, RecordsOK, NEW a \in Proc, NEW l \in Label, target[a] \in Preview, ReadSeen(a, l)
    PROVE  LocalsOK'
  BY DEF LocalsOK, RecordsOK, ReadSeen, Goto

\* The other processes are where they were.
Others(a) ==
    \A b \in Proc \ {a} :
        pc'[b] = pc[b] /\ target'[b] = target[b] /\ outcome'[b] = outcome[b] /\ seen'[b] = seen[b]

-----------------------------------------------------------------------------
(* Steps that leave a part of the invariant alone, or that disturb it only  *)
(* for the Preview whose Workspace lock they hold                           *)

LEMMA Exclusion ==
    ASSUME IInv, NEW a \in Proc, NEW b \in Proc, pc[a] \in Holding, pc[b] \in Holding,
           WorkspaceOf[target[a]] = WorkspaceOf[target[b]]
    PROVE  a = b
  BY DEF IInv, ControlInv, LockHeld, LockOf

LEMMA JournalFrame ==
    ASSUME IInv, NEW a \in Proc, Others(a), journal' = journal, committed' = committed,
           \/ pc'[a] \notin {"journal", "recoverRollback", "recoverUndo"} \cup Journaled
           \/ /\ target'[a] = target[a]
              /\ \/ pc[a] \in Journaled /\ pc'[a] \in Journaled \ Committed
                 \/ pc[a] \in Committed /\ pc'[a] \in Committed
                 \/ pc[a] = "recoverUndo" /\ pc'[a] = "recoverUndo"
    PROVE  JournalInv'
  <1>. USE DEF IInv, JournalInv, Others
  <1>1. JournalFree' BY DEF JournalFree, Journals, HasJournal, Journaled, Committed
  <1>2. JournalKept' BY DEF JournalKept, HasJournal, Journaled, Committed
  <1>3. OneTransaction' /\ StagedBefore' BY DEF OneTransaction, StagedBefore, HasJournal
  <1>4. Committing' BY DEF Committing, Journaled, Committed
  <1>5. RecoverOpen' BY DEF RecoverOpen, Journaled, Committed
  <1>. QED BY <1>1, <1>2, <1>3, <1>4, <1>5

LEMMA JournalOwner ==
    ASSUME IInv, NEW a \in Proc, Others(a), pc[a] \in Holding,
           target'[a] = target[a] \/ pc'[a] = "idle",
           \A q \in Preview \ {target[a]} : journal'[q] = journal[q],
           committed' \subseteq committed \cup {target[a]},
           journal'[target[a]].state # "none" => HasJournal(target[a]) \/ Journals(WorkspaceOf[target[a]]) = {},
           journal'[target[a]].state = "Staged" => target[a] \notin committed',
           pc'[a] = "journal" => Journals(WorkspaceOf[target[a]]) = {} /\ journal' = journal,
           pc'[a] \in Journaled => journal'[target[a]].state # "none",
           pc'[a] \in Committed => journal'[target[a]].state = "Committing",
           pc'[a] = "recoverRollback" => journal'[target[a]].state \notin {"none", "CleanupPending"},
           pc'[a] = "recoverUndo" => journal'[target[a]].state \in {"Committing", "RecoveryRequired"}
    PROVE  JournalInv'
  <1>. DEFINE p == target[a]
  <1>1. p \in Preview
    BY DEF IInv, ControlInv, Targets, Holding, Reserving, PreCommit, Committed, Finishing, Recovering
  <1>2. \A b \in Proc \ {a} : pc[b] \in Holding =>
            target[b] \in Preview /\ WorkspaceOf[target[b]] # WorkspaceOf[p]
    BY Exclusion DEF IInv, ControlInv, Targets, Holding, Reserving, PreCommit, Committed, Finishing, Recovering
  <1>3. \A b \in Proc \ {a} : pc[b] \in Holding => journal'[target[b]] = journal[target[b]]
    BY <1>2
  <1>4. JournalFree'
    <2>1. ASSUME NEW b \in Proc \ {a}, pc[b] = "journal" PROVE Journals(WorkspaceOf[target[b]])' = {}
      BY <1>2, <2>1 DEF IInv, JournalInv, JournalFree, Journals, HasJournal, Others, Holding, PreCommit
    <2>. QED BY <2>1 DEF JournalFree, Others, Journals, HasJournal
  <1>5. JournalKept'
    BY <1>3 DEF IInv, JournalInv, JournalKept, Others, HasJournal, Journaled, Committed, PreCommit, Holding
  <1>6. OneTransaction'
    <2>1. \A q \in Preview \ {p} : HasJournal(q)' <=> HasJournal(q)
      BY DEF HasJournal
    <2>2. \A q \in Preview \ {p} :
              journal'[p].state # "none" /\ HasJournal(q)' => WorkspaceOf[q] # WorkspaceOf[p]
      BY <1>1, <2>1 DEF IInv, JournalInv, OneTransaction, Journals
    <2>3. ASSUME NEW q \in Preview, NEW r \in Preview, q # r, HasJournal(q)', HasJournal(r)'
          PROVE  WorkspaceOf[q] # WorkspaceOf[r]
      <3>1. CASE q = p BY <2>2, <2>3, <3>1 DEF HasJournal
      <3>2. CASE r = p BY <2>2, <2>3, <3>2 DEF HasJournal
      <3>3. CASE q # p /\ r # p
        BY <2>1, <2>3, <3>3 DEF IInv, JournalInv, OneTransaction
      <3>. QED BY <3>1, <3>2, <3>3
    <2>. QED BY <2>3 DEF OneTransaction
  <1>7. StagedBefore'
    BY <1>1 DEF IInv, JournalInv, StagedBefore
  <1>8. Committing'
    BY <1>3 DEF IInv, JournalInv, Committing, Others, Committed, Holding
  <1>9. RecoverOpen'
    BY <1>3 DEF IInv, JournalInv, RecoverOpen, Others, Recovering, Holding
  <1>. QED BY <1>4, <1>5, <1>6, <1>7, <1>8, <1>9 DEF JournalInv

\* ... and one that removes it, or fails to, on the way to a label that does
\* not count on it.
LEMMA JournalRemoved ==
    ASSUME IInv, NEW a \in Proc, Others(a), pc[a] \in Holding, target[a] \in Preview,
           target'[a] = target[a] \/ pc'[a] = "idle",
           \A q \in Preview \ {target[a]} : journal'[q] = journal[q],
           journal'[target[a]].state \in {journal[target[a]].state, "none"},
           committed' = committed,
           pc'[a] \notin Journaled \cup {"journal", "recoverRollback", "recoverUndo"}
    PROVE  JournalInv'
  <1>1. journal'[target[a]].state # "none" => HasJournal(target[a])
    BY DEF HasJournal
  <1>2. journal'[target[a]].state = "Staged" => target[a] \notin committed'
    BY DEF IInv, JournalInv, StagedBefore
  <1>3. pc'[a] \notin Committed BY DEF Journaled
  <1>. QED BY <1>1, <1>2, <1>3, JournalOwner

LEMMA CommitFrame ==
    ASSUME IInv, NEW a \in Proc, Others(a), committed' = committed,
           \A p \in Preview : preview'[p] = "unreserved" => preview[p] = "unreserved",
           \/ pc'[a] \notin PreCommit \cup Committed \cup {"stageFailed"}
           \/ /\ target'[a] = target[a]
              /\ \/ pc[a] \in PreCommit \ {"reserveWrite", "release"}
                    /\ pc'[a] \in PreCommit \cup {"stageFailed"}
                 \/ pc[a] \in Committed /\ pc'[a] \in Committed
    PROVE  CommitInv'
  <1>. USE DEF IInv, TypeOK, LocalsOK, HistoryOK, CommitInv, ControlInv, Targets, Others
  <1>1. Spent' BY DEF Spent
  <1>2. Reserved' BY DEF Reserved, PreCommit, Committed
  <1>3. Uncommitted' BY DEF Uncommitted, PreCommit, Committed
  <1>4. Begun' BY DEF Begun, PreCommit, Committed
  <1>. QED BY <1>1, <1>2, <1>3, <1>4

LEMMA CommitOwner ==
    ASSUME IInv, NEW a \in Proc, Others(a), pc[a] \in Holding,
           target'[a] = target[a] \/ pc'[a] = "idle",
           committed' = committed \/ committed' = committed \cup {target[a]},
           \A p \in Preview : preview'[p] = "unreserved" => preview[p] = "unreserved" \/ p = target[a],
           target[a] \in committed' => preview'[target[a]] # "unreserved",
           pc'[a] \in PreCommit \ {"reserveWrite", "release"} => preview'[target[a]] # "unreserved",
           pc'[a] \in PreCommit \cup {"stageFailed"} => target[a] \notin committed',
           pc'[a] \in Committed => target[a] \in committed'
    PROVE  CommitInv'
  <1>. DEFINE p == target[a]
  <1>1. \A b \in Proc \ {a} : pc[b] \in Holding => target[b] \in Preview /\ target[b] # p
    BY Exclusion DEF IInv, ControlInv, Targets, Holding, Reserving, PreCommit, Committed, Finishing, Recovering
  <1>2. Spent' BY DEF IInv, TypeOK, HistoryOK, CommitInv, Spent
  <1>3. Reserved' BY <1>1 DEF IInv, CommitInv, Reserved, Others, PreCommit, Holding
  <1>4. Uncommitted' BY <1>1 DEF IInv, CommitInv, Uncommitted, Others, PreCommit, Holding
  <1>5. Begun' BY <1>1 DEF IInv, CommitInv, Begun, Others, Committed, Holding
  <1>. QED BY <1>2, <1>3, <1>4, <1>5 DEF CommitInv

LEMMA AppliedFrame ==
    ASSUME IInv, NEW a \in Proc, Others(a), committed' = committed,
           \A p \in Preview : Applied(p)' => Applied(p),
           \A p \in Preview : journal'[p].state \in {journal[p].state, "none", "CleanupPending"},
           pc'[a] \notin {"writeReceipt", "clearWrite", "syncWrite"}
    PROVE  AppliedInv'
  BY DEF IInv, AppliedInv, SaysApplied, Others

LEMMA AppliedOwner ==
    ASSUME IInv, NEW a \in Proc, Others(a), committed \subseteq committed',
           \A p \in Preview : Applied(p)' => Applied(p) \/ SaysApplied(p),
           \A p \in Preview :
              journal'[p].state \in {journal[p].state, "none", "CleanupPending"} \/ ~SaysApplied(p),
           pc'[a] = "writeReceipt" => outcome'[a] # "applied"
              \/ (target[a] \in committed /\ target'[a] = target[a]
                    /\ journal'[target[a]].state = "CleanupPending"),
           pc'[a] \in {"clearWrite", "syncWrite"} =>
              (seen'[a].outcome = "applied" => Applied(target'[a]))
    PROVE  AppliedInv'
  <1>1. SUFFICES ASSUME NEW p \in Preview, SaysApplied(p)'
                 PROVE  p \in committed' /\ journal'[p].state \in {"none", "CleanupPending"}
    BY DEF AppliedInv
  <1>2. CASE SaysApplied(p)
    BY <1>2 DEF IInv, AppliedInv
  <1>3. CASE ~SaysApplied(p)
    BY <1>1, <1>3 DEF SaysApplied, Others
  <1>. QED BY <1>2, <1>3

LEMMA ProgressFrame ==
    ASSUME IInv, NEW a \in Proc, Others(a), committed' = committed,
           \A p \in Preview : progress'[p].proven \in {progress[p].proven, 0},
           pc'[a] \notin {"intent", "effect", "prove"}
    PROVE  ProgressInv'
  <1>1. Untouched' BY DEF IInv, ProgressInv, Untouched, TypeOK, HistoryOK
  <1>2. Unfinished'
    BY ConstantAssumption
    DEF IInv, TypeOK, DiskOK, ControlInv, Targets, ProgressInv, Unfinished, Proven, Progress, Others
  <1>. QED BY <1>1, <1>2 DEF ProgressInv

-----------------------------------------------------------------------------
(* The steps of a process, one command phase at a time *)

\* From the start of an Application to its reservation, and giving that back.
LEMMA ReserveStepKeeps ==
    ASSUME IInv, NEW a \in Proc, ReserveStep(a)
    PROVE  IInv'
  <1>1. CASE CheckReceipt(a)
    <2>1. LocalsOK'
      BY <1>1, FinishLocals, ContinueLocals, GotoLocals
      DEF CheckReceipt, AlreadyApplied, IInv, TypeOK, locals, Label, Lockless, Holding, Reserving,
         PreCommit, Committed, Finishing, Recovering
    <2>2. RecordsOK'
      BY <1>1
      DEF CheckReceipt, AlreadyApplied, Continue, Finish, Goto, Unlocked, records, age, disk,
         locals, history, budget, IInv, TypeOK, RecordsOK, LocalsOK
    <2>3. DiskOK' /\ HistoryOK'
      BY <1>1, ConstantAssumption
      DEF CheckReceipt, AlreadyApplied, Continue, Finish, Goto, Unlocked, records, age, disk,
         locals, history, budget, IInv, TypeOK, DiskOK, HistoryOK
    <2>4. ControlInv' /\ Others(a)
      BY <1>1, ConstantAssumption
      DEF CheckReceipt, AlreadyApplied, Continue, Finish, Goto, Unlocked, records, age, disk,
         locals, history, budget, IInv, TypeOK, LocalsOK, ControlInv, Targets, Outcomes, LockHeld,
         LockOf, Others, ApplicationOutcome, RecoveryOutcome, Holding, Reserving, PreCommit,
         Committed, Finishing, Recovering
    <2>5. JournalInv'
      BY <1>1, <2>4, JournalFrame
      DEF CheckReceipt, AlreadyApplied, Continue, Finish, Goto, Unlocked, records, age, disk,
         locals, history, budget, IInv, TypeOK, LocalsOK, Journaled, Committed
    <2>6. CommitInv'
      BY <1>1, <2>4, CommitFrame
      DEF CheckReceipt, AlreadyApplied, Continue, Finish, Goto, Unlocked, records, age, disk,
         locals, history, budget, IInv, TypeOK, LocalsOK, PreCommit, Committed, RecordsOK
    <2>7. AppliedInv'
      BY <1>1, <2>4, AppliedFrame
      DEF CheckReceipt, AlreadyApplied, Continue, Finish, Goto, Unlocked, records, age, disk,
         locals, history, budget, IInv, TypeOK, LocalsOK, Applied, RecordsOK
    <2>8. ProgressInv'
      BY <1>1, <2>4, ProgressFrame
      DEF CheckReceipt, AlreadyApplied, Continue, Finish, Goto, Unlocked, records, age, disk,
         locals, history, budget, IInv, TypeOK, LocalsOK
    <2>. QED BY <2>1, <2>2, <2>3, <2>4, <2>5, <2>6, <2>7, <2>8 DEF IInv, TypeOK
  <1>2. CASE ReadPreview(a)
    <2>1. LocalsOK'
      BY <1>2, ContinueLocals
      DEF ReadPreview, IInv, TypeOK, locals, Label, Lockless, Holding, Reserving, PreCommit,
         Committed, Finishing, Recovering
    <2>2. RecordsOK'
      BY <1>2
      DEF ReadPreview, Continue, Goto, age, disk, locals, history, budget, IInv, TypeOK, RecordsOK
    <2>3. DiskOK' /\ HistoryOK'
      BY <1>2, ConstantAssumption
      DEF ReadPreview, Continue, Goto, age, disk, locals, history, budget, IInv, TypeOK, DiskOK,
         HistoryOK
    <2>4. ControlInv' /\ Others(a)
      BY <1>2, ConstantAssumption
      DEF ReadPreview, Continue, Goto, age, disk, locals, history, budget, IInv, TypeOK, LocalsOK,
         ControlInv, Targets, Outcomes, LockHeld, LockOf, Others, ApplicationOutcome,
         RecoveryOutcome, Holding, Reserving, PreCommit, Committed, Finishing, Recovering
    <2>5. JournalInv'
      BY <1>2, <2>4, JournalFrame
      DEF ReadPreview, Continue, Goto, age, disk, locals, history, budget, IInv, TypeOK, LocalsOK,
         Journaled, Committed
    <2>6. CommitInv'
      BY <1>2, <2>4, CommitFrame
      DEF ReadPreview, Continue, Goto, age, disk, locals, history, budget, IInv, TypeOK, LocalsOK,
         PreCommit, Committed, RecordsOK
    <2>7. AppliedInv'
      BY <1>2, <2>4, AppliedFrame
      DEF ReadPreview, Continue, Goto, age, disk, locals, history, budget, IInv, TypeOK, LocalsOK,
         Applied, RecordsOK
    <2>8. ProgressInv'
      BY <1>2, <2>4, ProgressFrame
      DEF ReadPreview, Continue, Goto, age, disk, locals, history, budget, IInv, TypeOK, LocalsOK
    <2>. QED BY <2>1, <2>2, <2>3, <2>4, <2>5, <2>6, <2>7, <2>8 DEF IInv, TypeOK
  <1>3. CASE RecheckReceipt(a)
    <2>1. LocalsOK'
      BY <1>3, FinishLocals, GotoLocals
      DEF RecheckReceipt, AlreadyApplied, IInv, TypeOK, locals, Label, Lockless, Holding, Reserving,
         PreCommit, Committed, Finishing, Recovering
    <2>2. RecordsOK'
      BY <1>3
      DEF RecheckReceipt, AlreadyApplied, Finish, Goto, Unlocked, records, age, disk, locals,
         history, budget, IInv, TypeOK, RecordsOK, LocalsOK
    <2>3. DiskOK' /\ HistoryOK'
      BY <1>3, ConstantAssumption
      DEF RecheckReceipt, AlreadyApplied, Finish, Goto, Unlocked, records, age, disk, locals,
         history, budget, IInv, TypeOK, DiskOK, HistoryOK
    <2>4. ControlInv' /\ Others(a)
      BY <1>3, ConstantAssumption
      DEF RecheckReceipt, AlreadyApplied, Finish, Goto, Unlocked, records, age, disk, locals,
         history, budget, IInv, TypeOK, LocalsOK, ControlInv, Targets, Outcomes, LockHeld, LockOf,
         Others, ApplicationOutcome, RecoveryOutcome, Holding, Reserving, PreCommit, Committed,
         Finishing, Recovering
    <2>5. JournalInv'
      BY <1>3, <2>4, JournalFrame
      DEF RecheckReceipt, AlreadyApplied, Finish, Goto, Unlocked, records, age, disk, locals,
         history, budget, IInv, TypeOK, LocalsOK, Journaled, Committed
    <2>6. CommitInv'
      BY <1>3, <2>4, CommitFrame
      DEF RecheckReceipt, AlreadyApplied, Finish, Goto, Unlocked, records, age, disk, locals,
         history, budget, IInv, TypeOK, LocalsOK, PreCommit, Committed, RecordsOK
    <2>7. AppliedInv'
      BY <1>3, <2>4, AppliedFrame
      DEF RecheckReceipt, AlreadyApplied, Finish, Goto, Unlocked, records, age, disk, locals,
         history, budget, IInv, TypeOK, LocalsOK, Applied, RecordsOK
    <2>8. ProgressInv'
      BY <1>3, <2>4, ProgressFrame
      DEF RecheckReceipt, AlreadyApplied, Finish, Goto, Unlocked, records, age, disk, locals,
         history, budget, IInv, TypeOK, LocalsOK
    <2>. QED BY <2>1, <2>2, <2>3, <2>4, <2>5, <2>6, <2>7, <2>8 DEF IInv, TypeOK
  <1>4. CASE LockForApplication(a)
    <2>1. LocalsOK'
      BY <1>4, FinishLocals, TakeLockLocals
      DEF LockForApplication, IInv, TypeOK, locals, Label, Lockless, Holding, Reserving, PreCommit,
         Committed, Finishing, Recovering
    <2>2. RecordsOK'
      BY <1>4
      DEF LockForApplication, TakeLock, Finish, Goto, Unlocked, records, age, disk, locals, history,
         budget, IInv, TypeOK, RecordsOK, LocalsOK
    <2>3. DiskOK' /\ HistoryOK'
      BY <1>4, ConstantAssumption
      DEF LockForApplication, TakeLock, Finish, Goto, Unlocked, records, age, disk, locals, history,
         budget, IInv, TypeOK, DiskOK, HistoryOK
    <2>4. ControlInv' /\ Others(a)
      BY <1>4, ConstantAssumption
      DEF LockForApplication, TakeLock, Finish, Goto, Unlocked, records, age, disk, locals, history,
         budget, IInv, TypeOK, LocalsOK, ControlInv, Targets, Outcomes, LockHeld, LockOf, Others,
         ApplicationOutcome, RecoveryOutcome, Holding, Reserving, PreCommit, Committed, Finishing,
         Recovering
    <2>5. JournalInv'
      BY <1>4, <2>4, JournalFrame
      DEF LockForApplication, TakeLock, Finish, Goto, Unlocked, records, age, disk, locals, history,
         budget, IInv, TypeOK, LocalsOK, Journaled, Committed
    <2>6. CommitInv'
      BY <1>4, <2>4, CommitFrame
      DEF LockForApplication, TakeLock, Finish, Goto, Unlocked, records, age, disk, locals, history,
         budget, IInv, TypeOK, LocalsOK, PreCommit, Committed, RecordsOK
    <2>7. AppliedInv'
      BY <1>4, <2>4, AppliedFrame
      DEF LockForApplication, TakeLock, Finish, Goto, Unlocked, records, age, disk, locals, history,
         budget, IInv, TypeOK, LocalsOK, Applied, RecordsOK
    <2>8. ProgressInv'
      BY <1>4, <2>4, ProgressFrame
      DEF LockForApplication, TakeLock, Finish, Goto, Unlocked, records, age, disk, locals, history,
         budget, IInv, TypeOK, LocalsOK
    <2>. QED BY <2>1, <2>2, <2>3, <2>4, <2>5, <2>6, <2>7, <2>8 DEF IInv, TypeOK
  <1>5. CASE CheckReceiptLocked(a)
    <2>1. LocalsOK'
      BY <1>5, FinishLocals, ContinueLocals, GotoLocals
      DEF CheckReceiptLocked, AlreadyApplied, IInv, TypeOK, locals, Label, Lockless, Holding,
         Reserving, PreCommit, Committed, Finishing, Recovering
    <2>2. RecordsOK'
      BY <1>5
      DEF CheckReceiptLocked, AlreadyApplied, Continue, Finish, Goto, Unlocked, records, age, disk,
         locals, history, budget, IInv, TypeOK, RecordsOK, LocalsOK
    <2>3. DiskOK' /\ HistoryOK'
      BY <1>5, ConstantAssumption
      DEF CheckReceiptLocked, AlreadyApplied, Continue, Finish, Goto, Unlocked, records, age, disk,
         locals, history, budget, IInv, TypeOK, DiskOK, HistoryOK
    <2>4. ControlInv' /\ Others(a)
      BY <1>5, ConstantAssumption
      DEF CheckReceiptLocked, AlreadyApplied, Continue, Finish, Goto, Unlocked, records, age, disk,
         locals, history, budget, IInv, TypeOK, LocalsOK, ControlInv, Targets, Outcomes, LockHeld,
         LockOf, Others, ApplicationOutcome, RecoveryOutcome, Holding, Reserving, PreCommit,
         Committed, Finishing, Recovering
    <2>5. JournalInv'
      BY <1>5, <2>4, JournalFrame
      DEF CheckReceiptLocked, AlreadyApplied, Continue, Finish, Goto, Unlocked, records, age, disk,
         locals, history, budget, IInv, TypeOK, LocalsOK, Journaled, Committed
    <2>6. CommitInv'
      BY <1>5, <2>4, CommitFrame
      DEF CheckReceiptLocked, AlreadyApplied, Continue, Finish, Goto, Unlocked, records, age, disk,
         locals, history, budget, IInv, TypeOK, LocalsOK, PreCommit, Committed, RecordsOK
    <2>7. AppliedInv'
      BY <1>5, <2>4, AppliedFrame
      DEF CheckReceiptLocked, AlreadyApplied, Continue, Finish, Goto, Unlocked, records, age, disk,
         locals, history, budget, IInv, TypeOK, LocalsOK, Applied, RecordsOK
    <2>8. ProgressInv'
      BY <1>5, <2>4, ProgressFrame
      DEF CheckReceiptLocked, AlreadyApplied, Continue, Finish, Goto, Unlocked, records, age, disk,
         locals, history, budget, IInv, TypeOK, LocalsOK
    <2>. QED BY <2>1, <2>2, <2>3, <2>4, <2>5, <2>6, <2>7, <2>8 DEF IInv, TypeOK
  <1>6. CASE ReserveRead(a)
    <2>1. LocalsOK'
      BY <1>6, FinishLocals, ContinueLocals
      DEF ReserveRead, IInv, TypeOK, locals, Label, Lockless, Holding, Reserving, PreCommit,
         Committed, Finishing, Recovering
    <2>2. RecordsOK'
      BY <1>6
      DEF ReserveRead, Finish, Continue, Goto, Unlocked, age, disk, locals, history, budget, IInv,
         TypeOK, RecordsOK, LocalsOK
    <2>3. DiskOK' /\ HistoryOK'
      BY <1>6, ConstantAssumption
      DEF ReserveRead, Finish, Continue, Goto, Unlocked, age, disk, locals, history, budget, IInv,
         TypeOK, DiskOK, HistoryOK
    <2>4. ControlInv' /\ Others(a)
      BY <1>6, ConstantAssumption
      DEF ReserveRead, Finish, Continue, Goto, Unlocked, age, disk, locals, history, budget, IInv,
         TypeOK, LocalsOK, ControlInv, Targets, Outcomes, LockHeld, LockOf, Others,
         ApplicationOutcome, RecoveryOutcome, Holding, Reserving, PreCommit, Committed, Finishing,
         Recovering
    <2>5. JournalInv'
      BY <1>6, <2>4, JournalFrame
      DEF ReserveRead, Finish, Continue, Goto, Unlocked, age, disk, locals, history, budget, IInv,
         TypeOK, LocalsOK, Journaled, Committed
    <2>6. CommitInv'
      <3>1. pc'[a] = "reserveWrite" => target[a] \notin committed
        BY <1>6, ConstantAssumption DEF ReserveRead, Readable, Continue, Finish, Goto, IInv, TypeOK, RecordsOK, LocalsOK,
           ControlInv, Targets, CommitInv, Spent
      <3>2. pc'[a] \in {"reserveWrite", "idle"} /\ (target'[a] = target[a] \/ pc'[a] = "idle")
        BY <1>6 DEF ReserveRead, Continue, Finish, Goto, locals, IInv, TypeOK, LocalsOK
      <3>3. \A p \in Preview : preview'[p] = "unreserved" => preview[p] = "unreserved"
        BY <1>6 DEF ReserveRead, IInv, TypeOK, RecordsOK
      <3>4. target[a] \in committed => preview'[target[a]] # "unreserved"
        BY <3>3 DEF IInv, TypeOK, HistoryOK, CommitInv, Spent
      <3>. QED BY <1>6, <2>4, <3>1, <3>2, <3>3, <3>4, CommitOwner
        DEF ReserveRead, history, Holding, Reserving, PreCommit, Committed
    <2>7. AppliedInv'
      BY <1>6, <2>4, AppliedFrame
      DEF ReserveRead, Finish, Continue, Goto, Unlocked, age, disk, locals, history, budget, IInv,
         TypeOK, LocalsOK, Applied, RecordsOK
    <2>8. ProgressInv'
      BY <1>6, <2>4, ProgressFrame
      DEF ReserveRead, Finish, Continue, Goto, Unlocked, age, disk, locals, history, budget, IInv,
         TypeOK, LocalsOK
    <2>. QED BY <2>1, <2>2, <2>3, <2>4, <2>5, <2>6, <2>7, <2>8 DEF IInv, TypeOK
  <1>7. CASE ReserveWrite(a)
    <2>1. LocalsOK'
      BY <1>7, ContinueLocals
      DEF ReserveWrite, Fault, IInv, TypeOK, locals, Label, Lockless, Holding, Reserving, PreCommit,
         Committed, Finishing, Recovering
    <2>2. RecordsOK'
      BY <1>7
      DEF ReserveWrite, Continue, Fault, Goto, age, disk, locals, history, budget, IInv, TypeOK,
         RecordsOK
    <2>3. DiskOK' /\ HistoryOK'
      BY <1>7, ConstantAssumption
      DEF ReserveWrite, Continue, Fault, Goto, age, disk, locals, history, budget, IInv, TypeOK,
         DiskOK, HistoryOK
    <2>4. ControlInv' /\ Others(a)
      BY <1>7, ConstantAssumption
      DEF ReserveWrite, Continue, Fault, Goto, age, disk, locals, history, budget, IInv, TypeOK,
         LocalsOK, ControlInv, Targets, Outcomes, LockHeld, LockOf, Others, ApplicationOutcome,
         RecoveryOutcome, Holding, Reserving, PreCommit, Committed, Finishing, Recovering
    <2>5. JournalInv'
      BY <1>7, <2>4, JournalFrame
      DEF ReserveWrite, Continue, Fault, Goto, age, disk, locals, history, budget, IInv, TypeOK,
         LocalsOK, Journaled, Committed
    <2>6. CommitInv'
      BY <1>7, <2>4, CommitOwner
      DEF ReserveWrite, Continue, Fault, Goto, age, disk, locals, history, budget, IInv, TypeOK,
         RecordsOK, LocalsOK, HistoryOK, ControlInv, Targets, CommitInv, Spent, Reserved,
         Uncommitted, Readable, Holding, Reserving, PreCommit, Committed, Finishing, Recovering
    <2>7. AppliedInv'
      BY <1>7, <2>4, AppliedFrame
      DEF ReserveWrite, Continue, Fault, Goto, age, disk, locals, history, budget, IInv, TypeOK,
         LocalsOK, Applied, RecordsOK
    <2>8. ProgressInv'
      BY <1>7, <2>4, ProgressFrame
      DEF ReserveWrite, Continue, Fault, Goto, age, disk, locals, history, budget, IInv, TypeOK,
         LocalsOK
    <2>. QED BY <2>1, <2>2, <2>3, <2>4, <2>5, <2>6, <2>7, <2>8 DEF IInv, TypeOK
  <1>8. CASE Release(a)
    <2>1. LocalsOK'
      BY <1>8, FinishLocals
      DEF Release, IInv, TypeOK, Label, Lockless, Holding, Reserving, PreCommit, Committed,
         Finishing, Recovering
    <2>2. RecordsOK'
      BY <1>8
      DEF Release, Finish, Goto, Unlocked, age, disk, history, budget, IInv, TypeOK, RecordsOK,
         LocalsOK
    <2>3. DiskOK' /\ HistoryOK'
      BY <1>8, ConstantAssumption
      DEF Release, Finish, Goto, Unlocked, age, disk, history, budget, IInv, TypeOK, DiskOK,
         HistoryOK
    <2>4. ControlInv' /\ Others(a)
      BY <1>8, ConstantAssumption
      DEF Release, Finish, Goto, Unlocked, age, disk, history, budget, IInv, TypeOK, LocalsOK,
         ControlInv, Targets, Outcomes, LockHeld, LockOf, Others, ApplicationOutcome,
         RecoveryOutcome, Holding, Reserving, PreCommit, Committed, Finishing, Recovering
    <2>5. JournalInv'
      BY <1>8, <2>4, JournalFrame
      DEF Release, Finish, Goto, Unlocked, age, disk, history, budget, IInv, TypeOK, LocalsOK,
         Journaled, Committed
    <2>6. CommitInv'
      BY <1>8, <2>4, CommitOwner
      DEF Release, Finish, Goto, Unlocked, age, disk, history, budget, IInv, TypeOK, RecordsOK,
         LocalsOK, HistoryOK, ControlInv, Targets, CommitInv, Spent, Reserved, Uncommitted,
         Readable, Holding, Reserving, PreCommit, Committed, Finishing, Recovering
    <2>7. AppliedInv'
      BY <1>8, <2>4, AppliedFrame
      DEF Release, Finish, Goto, Unlocked, age, disk, history, budget, IInv, TypeOK, LocalsOK,
         Applied, RecordsOK
    <2>8. ProgressInv'
      BY <1>8, <2>4, ProgressFrame
      DEF Release, Finish, Goto, Unlocked, age, disk, history, budget, IInv, TypeOK, LocalsOK
    <2>. QED BY <2>1, <2>2, <2>3, <2>4, <2>5, <2>6, <2>7, <2>8 DEF IInv, TypeOK
  <1>. QED BY <1>1, <1>2, <1>3, <1>4, <1>5, <1>6, <1>7, <1>8 DEF ReserveStep

\* Preparation, the journal and staging.
LEMMA StageStepKeeps ==
    ASSUME IInv, NEW a \in Proc, StageStep(a)
    PROVE  IInv'
  <1>1. CASE Prepare(a)
    <2>1. LocalsOK'
      BY <1>1, ContinueLocals
      DEF Prepare, IInv, TypeOK, locals, Label, Lockless, Holding, Reserving, PreCommit, Committed,
         Finishing, Recovering
    <2>2. RecordsOK'
      BY <1>1, PrunedTypes, ReceiptTypes
      DEF Prepare, Continue, Goto, records, age, disk, locals, history, budget, IInv, TypeOK,
         RecordsOK
    <2>3. DiskOK' /\ HistoryOK'
      BY <1>1, ConstantAssumption
      DEF Prepare, Continue, Goto, records, age, disk, locals, history, budget, IInv, TypeOK,
         DiskOK, HistoryOK
    <2>4. ControlInv' /\ Others(a)
      BY <1>1, ConstantAssumption
      DEF Prepare, Continue, Goto, records, age, disk, locals, history, budget, IInv, TypeOK,
         LocalsOK, ControlInv, Targets, Outcomes, LockHeld, LockOf, Others, ApplicationOutcome,
         RecoveryOutcome, Holding, Reserving, PreCommit, Committed, Finishing, Recovering
    <2>5. JournalInv'
      <3>1. target[a] \in Preview BY <1>1 DEF Prepare, IInv, ControlInv, Targets
      <3>2. /\ pc'[a] \in {"journal", "release"} /\ target'[a] = target[a]
            /\ pc'[a] = "journal" => Journals(WorkspaceOf[target[a]]) = {}
        BY <1>1 DEF Prepare, Continue, Goto, locals, IInv, TypeOK, LocalsOK
      <3>3. journal' = journal /\ committed' = committed /\ pc[a] \in Holding
        BY <1>1 DEF Prepare, records, history, Holding, PreCommit
      <3>. QED BY <2>4, <3>1, <3>2, <3>3, JournalOwner
        DEF HasJournal, Journaled, Committed, IInv, JournalInv, StagedBefore
    <2>6. CommitInv'
      BY <1>1, <2>4, CommitFrame, PrunedTypes
      DEF Prepare, Continue, Goto, records, age, disk, locals, history, budget, IInv, TypeOK,
         LocalsOK, PreCommit, Committed
    <2>7. AppliedInv'
      <3>1. \A p \in Preview : Applied(p)' => Applied(p)
        BY <1>1, PrunedTypes DEF Prepare, Applied, records, IInv, TypeOK
      <3>2. pc'[a] \in {"journal", "release"}
        BY <1>1 DEF Prepare, Continue, Finish, Goto, IInv, TypeOK, LocalsOK
      <3>. QED BY <1>1, <2>4, <3>1, <3>2, AppliedFrame DEF Prepare, records, history
    <2>8. ProgressInv'
      BY <1>1, <2>4, ProgressFrame
      DEF Prepare, Continue, Goto, records, age, disk, locals, history, budget, IInv, TypeOK,
         LocalsOK
    <2>. QED BY <2>1, <2>2, <2>3, <2>4, <2>5, <2>6, <2>7, <2>8 DEF IInv, TypeOK
  <1>2. CASE WriteJournal(a)
    <2>1. LocalsOK'
      BY <1>2, ContinueLocals
      DEF WriteJournal, Fault, IInv, TypeOK, locals, Label, Lockless, Holding, Reserving, PreCommit,
         Committed, Finishing, Recovering
    <2>2. RecordsOK'
      <3>1. [state |-> "Staged", digest |-> Whole(Base)] \in Journal
        BY JournalTypes, NullTypes DEF JournalState
      <3>2. journal' \in [Preview -> Journal]
        BY <1>2, <3>1 DEF WriteJournal, IInv, TypeOK, RecordsOK
      <3>3. UNCHANGED <<preview, receipt, recovery, oldPreviews, oldReceipts>>
        BY <1>2 DEF WriteJournal, age
      <3>. QED BY <3>2, <3>3 DEF IInv, TypeOK, RecordsOK
    <2>3. DiskOK' /\ HistoryOK'
      BY <1>2, ConstantAssumption
      DEF WriteJournal, Continue, Fault, Goto, age, disk, locals, history, budget, IInv, TypeOK,
         DiskOK, HistoryOK
    <2>4. ControlInv' /\ Others(a)
      BY <1>2, ConstantAssumption
      DEF WriteJournal, Continue, Fault, Goto, age, disk, locals, history, budget, IInv, TypeOK,
         LocalsOK, ControlInv, Targets, Outcomes, LockHeld, LockOf, Others, ApplicationOutcome,
         RecoveryOutcome, Holding, Reserving, PreCommit, Committed, Finishing, Recovering
    <2>5. JournalInv'
      <3>1. target[a] \in Preview /\ target[a] \notin committed /\ Journals(WorkspaceOf[target[a]]) = {}
        BY <1>2 DEF WriteJournal, PreCommit, IInv, ControlInv, Targets, CommitInv, Uncommitted, JournalInv, JournalFree
      <3>2. journal'[target[a]].state # "none" \/ pc'[a] = "release"
        <4>1. CASE journal' = [journal EXCEPT ![target[a]] = [state |-> "Staged", digest |-> Whole(Base)]]
          <5>1. journal'[target[a]] = [state |-> "Staged", digest |-> Whole(Base)]
            BY <3>1, <4>1 DEF IInv, TypeOK, RecordsOK
          <5>. QED BY <5>1
        <4>2. CASE Continue(a, "release")
          BY <4>2 DEF Continue, Goto, IInv, TypeOK, LocalsOK
        <4>. QED BY <1>2, <4>1, <4>2 DEF WriteJournal
      <3>. QED BY <1>2, <2>4, <3>1, <3>2, JournalOwner
        DEF WriteJournal, Continue, Goto, locals, history, Journaled, Committed, Holding, PreCommit, IInv, TypeOK, RecordsOK, LocalsOK
    <2>6. CommitInv'
      BY <1>2, <2>4, CommitFrame
      DEF WriteJournal, Continue, Fault, Goto, age, disk, locals, history, budget, IInv, TypeOK,
         LocalsOK, PreCommit, Committed, RecordsOK
    <2>7. AppliedInv'
      <3>1. target[a] \in Preview /\ ~SaysApplied(target[a])
        BY <1>2 DEF WriteJournal, PreCommit, IInv, ControlInv, Targets, CommitInv, Uncommitted, AppliedInv
      <3>. QED BY <1>2, <2>4, <3>1, AppliedOwner
        DEF WriteJournal, Continue, Finish, Goto, locals, history, Applied, IInv, TypeOK, LocalsOK, RecordsOK
    <2>8. ProgressInv'
      BY <1>2, <2>4, ProgressFrame
      DEF WriteJournal, Continue, Fault, Goto, age, disk, locals, history, budget, IInv, TypeOK,
         LocalsOK
    <2>. QED BY <2>1, <2>2, <2>3, <2>4, <2>5, <2>6, <2>7, <2>8 DEF IInv, TypeOK
  <1>3. CASE StageMkdir(a)
    <2>1. LocalsOK'
      BY <1>3, ContinueLocals
      DEF StageMkdir, Fault, IInv, TypeOK, locals, Label, Lockless, Holding, Reserving, PreCommit,
         Committed, Finishing, Recovering
    <2>2. RecordsOK'
      BY <1>3
      DEF StageMkdir, Continue, Fault, Goto, records, age, locals, history, budget, IInv, TypeOK,
         RecordsOK
    <2>3. DiskOK' /\ HistoryOK'
      BY <1>3, ConstantAssumption
      DEF StageMkdir, Continue, Fault, Goto, records, age, locals, history, budget, IInv, TypeOK,
         DiskOK, HistoryOK
    <2>4. ControlInv' /\ Others(a)
      BY <1>3, ConstantAssumption
      DEF StageMkdir, Continue, Fault, Goto, records, age, locals, history, budget, IInv, TypeOK,
         LocalsOK, ControlInv, Targets, Outcomes, LockHeld, LockOf, Others, ApplicationOutcome,
         RecoveryOutcome, Holding, Reserving, PreCommit, Committed, Finishing, Recovering
    <2>5. JournalInv'
      BY <1>3, <2>4, JournalFrame
      DEF StageMkdir, Continue, Fault, Goto, records, age, locals, history, budget, IInv, TypeOK,
         LocalsOK, Journaled, Committed
    <2>6. CommitInv'
      BY <1>3, <2>4, CommitFrame
      DEF StageMkdir, Continue, Fault, Goto, records, age, locals, history, budget, IInv, TypeOK,
         LocalsOK, PreCommit, Committed, RecordsOK
    <2>7. AppliedInv'
      BY <1>3, <2>4, AppliedFrame
      DEF StageMkdir, Continue, Fault, Goto, records, age, locals, history, budget, IInv, TypeOK,
         LocalsOK, Applied, RecordsOK
    <2>8. ProgressInv'
      BY <1>3, <2>4, ProgressFrame
      DEF StageMkdir, Continue, Fault, Goto, records, age, locals, history, budget, IInv, TypeOK,
         LocalsOK
    <2>. QED BY <2>1, <2>2, <2>3, <2>4, <2>5, <2>6, <2>7, <2>8 DEF IInv, TypeOK
  <1>4. CASE StageMark(a)
    <2>1. LocalsOK'
      BY <1>4, ContinueLocals
      DEF StageMark, Fault, IInv, TypeOK, locals, Label, Lockless, Holding, Reserving, PreCommit,
         Committed, Finishing, Recovering
    <2>2. RecordsOK'
      BY <1>4
      DEF StageMark, Continue, Fault, Goto, records, age, locals, history, budget, IInv, TypeOK,
         RecordsOK
    <2>3. DiskOK' /\ HistoryOK'
      BY <1>4, ConstantAssumption
      DEF StageMark, Continue, Fault, Goto, records, age, locals, history, budget, IInv, TypeOK,
         DiskOK, HistoryOK
    <2>4. ControlInv' /\ Others(a)
      BY <1>4, ConstantAssumption
      DEF StageMark, Continue, Fault, Goto, records, age, locals, history, budget, IInv, TypeOK,
         LocalsOK, ControlInv, Targets, Outcomes, LockHeld, LockOf, Others, ApplicationOutcome,
         RecoveryOutcome, Holding, Reserving, PreCommit, Committed, Finishing, Recovering
    <2>5. JournalInv'
      BY <1>4, <2>4, JournalFrame
      DEF StageMark, Continue, Fault, Goto, records, age, locals, history, budget, IInv, TypeOK,
         LocalsOK, Journaled, Committed
    <2>6. CommitInv'
      BY <1>4, <2>4, CommitFrame
      DEF StageMark, Continue, Fault, Goto, records, age, locals, history, budget, IInv, TypeOK,
         LocalsOK, PreCommit, Committed, RecordsOK
    <2>7. AppliedInv'
      BY <1>4, <2>4, AppliedFrame
      DEF StageMark, Continue, Fault, Goto, records, age, locals, history, budget, IInv, TypeOK,
         LocalsOK, Applied, RecordsOK
    <2>8. ProgressInv'
      BY <1>4, <2>4, ProgressFrame
      DEF StageMark, Continue, Fault, Goto, records, age, locals, history, budget, IInv, TypeOK,
         LocalsOK
    <2>. QED BY <2>1, <2>2, <2>3, <2>4, <2>5, <2>6, <2>7, <2>8 DEF IInv, TypeOK
  <1>5. CASE StageCopy(a)
    <2>1. LocalsOK'
      BY <1>5, ContinueLocals
      DEF StageCopy, IInv, TypeOK, locals, Label, Lockless, Holding, Reserving, PreCommit,
         Committed, Finishing, Recovering
    <2>2. RecordsOK'
      BY <1>5
      DEF StageCopy, Continue, Goto, records, age, disk, locals, history, budget, IInv, TypeOK,
         RecordsOK
    <2>3. DiskOK' /\ HistoryOK'
      BY <1>5, ConstantAssumption
      DEF StageCopy, Continue, Goto, records, age, disk, locals, history, budget, IInv, TypeOK,
         DiskOK, HistoryOK
    <2>4. ControlInv' /\ Others(a)
      BY <1>5, ConstantAssumption
      DEF StageCopy, Continue, Goto, records, age, disk, locals, history, budget, IInv, TypeOK,
         LocalsOK, ControlInv, Targets, Outcomes, LockHeld, LockOf, Others, ApplicationOutcome,
         RecoveryOutcome, Holding, Reserving, PreCommit, Committed, Finishing, Recovering
    <2>5. JournalInv'
      BY <1>5, <2>4, JournalFrame
      DEF StageCopy, Continue, Goto, records, age, disk, locals, history, budget, IInv, TypeOK,
         LocalsOK, Journaled, Committed
    <2>6. CommitInv'
      BY <1>5, <2>4, CommitFrame
      DEF StageCopy, Continue, Goto, records, age, disk, locals, history, budget, IInv, TypeOK,
         LocalsOK, PreCommit, Committed, RecordsOK
    <2>7. AppliedInv'
      BY <1>5, <2>4, AppliedFrame
      DEF StageCopy, Continue, Goto, records, age, disk, locals, history, budget, IInv, TypeOK,
         LocalsOK, Applied, RecordsOK
    <2>8. ProgressInv'
      BY <1>5, <2>4, ProgressFrame
      DEF StageCopy, Continue, Goto, records, age, disk, locals, history, budget, IInv, TypeOK,
         LocalsOK
    <2>. QED BY <2>1, <2>2, <2>3, <2>4, <2>5, <2>6, <2>7, <2>8 DEF IInv, TypeOK
  <1>6. CASE StageCleanup(a)
    <2>1. LocalsOK'
      BY <1>6, ContinueLocals
      DEF StageCleanup, ArtifactsRemoved, ArtifactsKept, Fault, IInv, TypeOK, locals, Label,
         Lockless, Holding, Reserving, PreCommit, Committed, Finishing, Recovering
    <2>2. RecordsOK'
      BY <1>6
      DEF StageCleanup, ArtifactsRemoved, Continue, ArtifactsKept, Goto, Fault, records, age,
         locals, history, budget, IInv, TypeOK, RecordsOK
    <2>3. DiskOK' /\ HistoryOK'
      BY <1>6, ArtifactsTypes
      DEF StageCleanup, Continue, Goto, records, age, locals, history, budget, IInv, TypeOK, DiskOK,
         HistoryOK, ControlInv, Targets
    <2>4. ControlInv' /\ Others(a)
      BY <1>6, ConstantAssumption
      DEF StageCleanup, ArtifactsRemoved, Continue, ArtifactsKept, Goto, Fault, records, age,
         locals, history, budget, IInv, TypeOK, LocalsOK, ControlInv, Targets, Outcomes, LockHeld,
         LockOf, Others, ApplicationOutcome, RecoveryOutcome, Holding, Reserving, PreCommit,
         Committed, Finishing, Recovering
    <2>5. JournalInv'
      BY <1>6, <2>4, JournalFrame
      DEF StageCleanup, ArtifactsRemoved, Continue, ArtifactsKept, Goto, Fault, records, age,
         locals, history, budget, IInv, TypeOK, LocalsOK, Journaled, Committed
    <2>6. CommitInv'
      BY <1>6, <2>4, CommitFrame
      DEF StageCleanup, ArtifactsRemoved, Continue, ArtifactsKept, Goto, Fault, records, age,
         locals, history, budget, IInv, TypeOK, LocalsOK, PreCommit, Committed, RecordsOK
    <2>7. AppliedInv'
      BY <1>6, <2>4, AppliedFrame
      DEF StageCleanup, ArtifactsRemoved, Continue, ArtifactsKept, Goto, Fault, records, age,
         locals, history, budget, IInv, TypeOK, LocalsOK, Applied, RecordsOK
    <2>8. ProgressInv'
      BY <1>6, <2>4, ProgressFrame, ArtifactsTypes
      DEF StageCleanup, Continue, Goto, records, age, locals, history, budget, IInv, TypeOK,
         LocalsOK, ControlInv, Targets, DiskOK
    <2>. QED BY <2>1, <2>2, <2>3, <2>4, <2>5, <2>6, <2>7, <2>8 DEF IInv, TypeOK
  <1>7. CASE StageFailed(a)
    <2>1. LocalsOK'
      BY <1>7, FinishLocals
      DEF StageFailed, IInv, TypeOK, Label, Lockless, Holding, Reserving, PreCommit, Committed,
         Finishing, Recovering
    <2>2. RecordsOK'
      BY <1>7, JournalTypes, NullTypes
      DEF StageFailed, Finish, Goto, Unlocked, age, disk, history, budget, IInv, TypeOK, RecordsOK,
         JournalState, LocalsOK
    <2>3. DiskOK' /\ HistoryOK'
      BY <1>7, ConstantAssumption
      DEF StageFailed, Finish, Goto, Unlocked, age, disk, history, budget, IInv, TypeOK, DiskOK,
         HistoryOK
    <2>4. ControlInv' /\ Others(a)
      BY <1>7, ConstantAssumption
      DEF StageFailed, Finish, Goto, Unlocked, age, disk, history, budget, IInv, TypeOK, LocalsOK,
         ControlInv, Targets, Outcomes, LockHeld, LockOf, Others, ApplicationOutcome,
         RecoveryOutcome, Holding, Reserving, PreCommit, Committed, Finishing, Recovering
    <2>5. JournalInv'
      BY <1>7, <2>4, JournalOwner
      DEF StageFailed, Finish, Goto, Unlocked, age, disk, history, budget, IInv, TypeOK, RecordsOK,
         LocalsOK, ControlInv, Targets, CommitInv, Uncommitted, JournalInv, JournalKept,
         JournalFree, Committing, HasJournal, Journals, NoJournal, Journal, Journaled, Holding,
         Reserving, PreCommit, Committed, Finishing, Recovering
    <2>6. CommitInv'
      BY <1>7, <2>4, CommitFrame
      DEF StageFailed, Finish, Goto, Unlocked, age, disk, history, budget, IInv, TypeOK, LocalsOK,
         PreCommit, Committed, RecordsOK
    <2>7. AppliedInv'
      <3>1. target[a] \in Preview /\ ~SaysApplied(target[a])
        BY <1>7 DEF StageFailed, PreCommit, IInv, ControlInv, Targets, CommitInv, Uncommitted, AppliedInv
      <3>. QED BY <1>7, <2>4, <3>1, AppliedOwner
        DEF StageFailed, Continue, Finish, Goto, locals, history, Applied, IInv, TypeOK, LocalsOK, RecordsOK
    <2>8. ProgressInv'
      BY <1>7, <2>4, ProgressFrame
      DEF StageFailed, Finish, Goto, Unlocked, age, disk, history, budget, IInv, TypeOK, LocalsOK
    <2>. QED BY <2>1, <2>2, <2>3, <2>4, <2>5, <2>6, <2>7, <2>8 DEF IInv, TypeOK
  <1>8. CASE RemoveJournal(a)
    <2>1. LocalsOK'
      BY <1>8, ContinueLocals
      DEF RemoveJournal, Fault, IInv, TypeOK, locals, Label, Lockless, Holding, Reserving,
         PreCommit, Committed, Finishing, Recovering
    <2>2. RecordsOK'
      BY <1>8, JournalTypes, NullTypes
      DEF RemoveJournal, Fault, Continue, Goto, age, disk, locals, history, budget, IInv, TypeOK,
         RecordsOK, JournalState
    <2>3. DiskOK' /\ HistoryOK'
      BY <1>8, ConstantAssumption
      DEF RemoveJournal, Fault, Continue, Goto, age, disk, locals, history, budget, IInv, TypeOK,
         DiskOK, HistoryOK
    <2>4. ControlInv' /\ Others(a)
      BY <1>8, ConstantAssumption
      DEF RemoveJournal, Fault, Continue, Goto, age, disk, locals, history, budget, IInv, TypeOK,
         LocalsOK, ControlInv, Targets, Outcomes, LockHeld, LockOf, Others, ApplicationOutcome,
         RecoveryOutcome, Holding, Reserving, PreCommit, Committed, Finishing, Recovering
    <2>5. JournalInv'
      <3>1. target[a] \in Preview BY <1>8 DEF RemoveJournal, IInv, ControlInv, Targets
      <3>2. /\ \A p \in Preview \ {target[a]} : journal'[p] = journal[p]
            /\ journal'[target[a]].state \in {journal[target[a]].state, "none"}
        BY <1>8, <3>1 DEF RemoveJournal, NoJournal, IInv, TypeOK, RecordsOK
      <3>3. pc'[a] \in {"release"} /\ (target'[a] = target[a] \/ pc'[a] = "idle")
        BY <1>8 DEF RemoveJournal, Continue, Goto, locals, IInv, TypeOK, LocalsOK
      <3>4. committed' = committed /\ pc[a] \in Holding
        BY <1>8 DEF RemoveJournal, history, Holding, PreCommit
      <3>5. pc'[a] \notin Journaled \cup {"journal", "recoverRollback", "recoverUndo"}
        BY <3>3 DEF Journaled, Committed
      <3>. QED BY <2>4, <3>1, <3>2, <3>3, <3>4, <3>5, JournalRemoved
    <2>6. CommitInv'
      BY <1>8, <2>4, CommitFrame
      DEF RemoveJournal, Fault, Continue, Goto, age, disk, locals, history, budget, IInv, TypeOK,
         LocalsOK, PreCommit, Committed, RecordsOK
    <2>7. AppliedInv'
      <3>1. \A p \in Preview : journal'[p].state \in {journal[p].state, "none"}
        BY <1>8 DEF RemoveJournal, NoJournal, IInv, TypeOK, RecordsOK
      <3>. QED BY <1>8, <2>4, <3>1, AppliedFrame
        DEF RemoveJournal, Continue, Goto, history, Applied, IInv, TypeOK, LocalsOK
    <2>8. ProgressInv'
      BY <1>8, <2>4, ProgressFrame
      DEF RemoveJournal, Fault, Continue, Goto, age, disk, locals, history, budget, IInv, TypeOK,
         LocalsOK
    <2>. QED BY <2>1, <2>2, <2>3, <2>4, <2>5, <2>6, <2>7, <2>8 DEF IInv, TypeOK
  <1>. QED BY <1>1, <1>2, <1>3, <1>4, <1>5, <1>6, <1>7, <1>8 DEF StageStep

\* The commit, its undo and the sealing of the journal.
LEMMA CommitStepKeeps ==
    ASSUME IInv, NEW a \in Proc, CommitStep(a)
    PROVE  IInv'
  <1>1. CASE CommitStart(a)
    <2>1. LocalsOK'
      BY <1>1, ContinueLocals
      DEF CommitStart, IInv, TypeOK, locals, Label, Lockless, Holding, Reserving, PreCommit,
         Committed, Finishing, Recovering
    <2>2. RecordsOK'
      BY <1>1, JournalTypes, NullTypes
      DEF CommitStart, Continue, Goto, age, disk, locals, budget, IInv, TypeOK, RecordsOK,
         JournalState
    <2>3. DiskOK' /\ HistoryOK'
      BY <1>1, ConstantAssumption
      DEF CommitStart, Continue, disk, budget, IInv, TypeOK, DiskOK, HistoryOK, ControlInv, Targets
    <2>4. ControlInv' /\ Others(a)
      BY <1>1, ConstantAssumption
      DEF CommitStart, Continue, Goto, age, disk, locals, budget, IInv, TypeOK, LocalsOK,
         ControlInv, Targets, Outcomes, LockHeld, LockOf, Others, ApplicationOutcome,
         RecoveryOutcome, Holding, Reserving, PreCommit, Committed, Finishing, Recovering
    <2>5. JournalInv'
      BY <1>1, <2>4, JournalOwner
      DEF CommitStart, Continue, Goto, age, disk, locals, budget, IInv, TypeOK, RecordsOK, LocalsOK,
         ControlInv, Targets, CommitInv, Uncommitted, JournalInv, JournalKept, JournalFree,
         Committing, HasJournal, Journals, NoJournal, Journal, Journaled, Holding, Reserving,
         PreCommit, Committed, Finishing, Recovering
    <2>6. CommitInv'
      BY <1>1, <2>4, CommitOwner
      DEF CommitStart, Continue, Goto, age, disk, locals, budget, IInv, TypeOK, RecordsOK, LocalsOK,
         HistoryOK, ControlInv, Targets, CommitInv, Spent, Reserved, Uncommitted, Readable, Holding,
         Reserving, PreCommit, Committed, Finishing, Recovering
    <2>7. AppliedInv'
      <3>1. target[a] \in Preview /\ ~SaysApplied(target[a])
        BY <1>1 DEF CommitStart, PreCommit, IInv, ControlInv, Targets, CommitInv, Uncommitted, AppliedInv
      <3>. QED BY <1>1, <2>4, <3>1, AppliedOwner
        DEF CommitStart, Continue, Finish, Goto, locals, history, Applied, IInv, TypeOK, LocalsOK, RecordsOK
    <2>8. ProgressInv'
      <3>1. target[a] \in Preview /\ Proven(a) = 0
        BY <1>1 DEF CommitStart, Proven, PreCommit, IInv, ControlInv, Targets, CommitInv, Uncommitted, ProgressInv, Untouched
      <3>2. Untouched' BY <1>1 DEF CommitStart, disk, IInv, ProgressInv, Untouched
      <3>3. Unfinished'
        BY <1>1, <2>4, <3>1, ConstantAssumption
        DEF CommitStart, Continue, locals, disk, Others, Proven, IInv, ProgressInv, Unfinished
      <3>. QED BY <3>2, <3>3 DEF ProgressInv
    <2>. QED BY <2>1, <2>2, <2>3, <2>4, <2>5, <2>6, <2>7, <2>8 DEF IInv, TypeOK
  <1>2. CASE Intent(a)
    <2>1. LocalsOK'
      BY <1>2, ContinueLocals
      DEF Intent, RecordIntent, Disk, Fault, IInv, TypeOK, locals, Label, Lockless, Holding, Reserving, PreCommit,
         Committed, Finishing, Recovering
    <2>2. RecordsOK'
      BY <1>2
      DEF Intent, RecordIntent, Disk, Continue, Fault, Goto, records, age, locals, history, budget, IInv, TypeOK,
         RecordsOK
    <2>3. DiskOK' /\ HistoryOK'
      <3>1. target[a] \in Preview BY <1>2 DEF Intent, RecordIntent, IInv, ControlInv, Targets
      <3>2. [progress[target[a]] EXCEPT !.pending = TRUE] \in Progress
        BY <3>1, ProgressTypes DEF IInv, TypeOK, DiskOK
      <3>. QED BY <1>2, <3>1, <3>2, ConstantAssumption
        DEF Intent, RecordIntent, Continue, Fault, budget, history, IInv, TypeOK, DiskOK, HistoryOK
    <2>4. ControlInv' /\ Others(a)
      BY <1>2, ConstantAssumption
      DEF Intent, RecordIntent, Disk, Continue, Fault, Goto, records, age, locals, history, budget, IInv, TypeOK,
         LocalsOK, ControlInv, Targets, Outcomes, LockHeld, LockOf, Others, ApplicationOutcome,
         RecoveryOutcome, Holding, Reserving, PreCommit, Committed, Finishing, Recovering
    <2>5. JournalInv'
      BY <1>2, <2>4, JournalFrame
      DEF Intent, RecordIntent, Disk, Continue, Fault, Goto, records, age, locals, history, budget, IInv, TypeOK,
         LocalsOK, Journaled, Committed
    <2>6. CommitInv'
      BY <1>2, <2>4, CommitFrame
      DEF Intent, RecordIntent, Disk, Continue, Fault, Goto, records, age, locals, history, budget, IInv, TypeOK,
         LocalsOK, PreCommit, Committed, RecordsOK
    <2>7. AppliedInv'
      BY <1>2, <2>4, AppliedFrame
      DEF Intent, RecordIntent, Disk, Continue, Fault, Goto, records, age, locals, history, budget, IInv, TypeOK,
         LocalsOK, Applied, RecordsOK
    <2>8. ProgressInv'
      <3>1. /\ target[a] \in Preview /\ target'[a] = target[a]
            /\ Proven(a) < Ops
        BY <1>2 DEF Intent, RecordIntent, Continue, locals, IInv, ControlInv, Targets, ProgressInv, Unfinished
      <3>2. \A p \in Preview : progress'[p].proven = progress[p].proven
        BY <1>2, <3>1 DEF Intent, RecordIntent, IInv, TypeOK, DiskOK, Progress
      <3>3. Untouched' BY <1>2, <3>2 DEF Intent, RecordIntent, history, IInv, ProgressInv, Untouched
      <3>4. Unfinished'
        BY <1>2, <2>4, <3>1, <3>2
        DEF Intent, RecordIntent, Continue, Others, Proven, IInv, ControlInv, Targets, ProgressInv, Unfinished
      <3>. QED BY <3>3, <3>4 DEF ProgressInv
    <2>. QED BY <2>1, <2>2, <2>3, <2>4, <2>5, <2>6, <2>7, <2>8 DEF IInv, TypeOK
  <1>3. CASE Effect(a)
    <2>1. LocalsOK'
      BY <1>3, ContinueLocals
      DEF Effect, Disk, Write, Fault, IInv, TypeOK, locals, Label, Lockless, Holding, Reserving,
         PreCommit, Committed, Finishing, Recovering
    <2>2. RecordsOK'
      BY <1>3
      DEF Effect, Disk, Write, Continue, Fault, Goto, records, age, locals, history, budget, IInv,
         TypeOK, RecordsOK
    <2>3. DiskOK' /\ HistoryOK'
      <3>1. target[a] \in Preview BY <1>3 DEF Effect, IInv, ControlInv, Targets
      <3>2. Proven(a) + 1 \in 0..Ops
        <4>1. Proven(a) \in 0..Ops BY <3>1, ProgressTypes DEF Proven, IInv, TypeOK, DiskOK
        <4>2. Proven(a) < Ops BY <1>3 DEF Effect, IInv, ProgressInv, Unfinished
        <4>. QED BY <4>1, <4>2, ConstantAssumption
      <3>3. At(target[a], Proven(a) + 1) \in Manifest BY <3>1, <3>2, AtTypes
      <3>. QED BY <1>3, <3>1, <3>3, ConstantAssumption
        DEF Effect, Write, Continue, Fault, budget, history, IInv, TypeOK, DiskOK, HistoryOK
    <2>4. ControlInv' /\ Others(a)
      BY <1>3, ConstantAssumption
      DEF Effect, Disk, Write, Continue, Fault, Goto, records, age, locals, history, budget, IInv,
         TypeOK, LocalsOK, ControlInv, Targets, Outcomes, LockHeld, LockOf, Others,
         ApplicationOutcome, RecoveryOutcome, Holding, Reserving, PreCommit, Committed, Finishing,
         Recovering
    <2>5. JournalInv'
      BY <1>3, <2>4, JournalFrame
      DEF Effect, Disk, Write, Continue, Fault, Goto, records, age, locals, history, budget, IInv,
         TypeOK, LocalsOK, Journaled, Committed
    <2>6. CommitInv'
      BY <1>3, <2>4, CommitFrame
      DEF Effect, Disk, Write, Continue, Fault, Goto, records, age, locals, history, budget, IInv,
         TypeOK, LocalsOK, PreCommit, Committed, RecordsOK
    <2>7. AppliedInv'
      BY <1>3, <2>4, AppliedFrame
      DEF Effect, Disk, Write, Continue, Fault, Goto, records, age, locals, history, budget, IInv,
         TypeOK, LocalsOK, Applied, RecordsOK
    <2>8. ProgressInv'
      <3>1. /\ target[a] \in Preview /\ target'[a] = target[a]
            /\ Proven(a) < Ops
        BY <1>3 DEF Effect, Continue, locals, IInv, ControlInv, Targets, ProgressInv, Unfinished
      <3>2. \A p \in Preview : progress'[p].proven = progress[p].proven
        BY <1>3, <3>1 DEF Effect, IInv, TypeOK, DiskOK, Progress
      <3>3. Untouched' BY <1>3, <3>2 DEF Effect, history, IInv, ProgressInv, Untouched
      <3>4. Unfinished'
        BY <1>3, <2>4, <3>1, <3>2
        DEF Effect, Continue, Others, Proven, IInv, ControlInv, Targets, ProgressInv, Unfinished
      <3>. QED BY <3>3, <3>4 DEF ProgressInv
    <2>. QED BY <2>1, <2>2, <2>3, <2>4, <2>5, <2>6, <2>7, <2>8 DEF IInv, TypeOK
  <1>4. CASE Prove(a)
    <2>1. LocalsOK'
      BY <1>4, ContinueLocals
      DEF Prove, RecordProof, Disk, Fault, IInv, TypeOK, locals, Label, Lockless, Holding, Reserving, PreCommit,
         Committed, Finishing, Recovering
    <2>2. RecordsOK'
      BY <1>4
      DEF Prove, RecordProof, Disk, Continue, Fault, Goto, records, age, locals, history, budget, IInv, TypeOK,
         RecordsOK
    <2>3. DiskOK' /\ HistoryOK'
      <3>1. target[a] \in Preview BY <1>4 DEF Prove, RecordProof, IInv, ControlInv, Targets
      <3>2. Proven(a) + 1 \in 0..Ops
        <4>1. Proven(a) \in 0..Ops BY <3>1, ProgressTypes DEF Proven, IInv, TypeOK, DiskOK
        <4>2. Proven(a) < Ops BY <1>4 DEF Prove, RecordProof, IInv, ProgressInv, Unfinished
        <4>. QED BY <4>1, <4>2, ConstantAssumption
      <3>3. [proven |-> Proven(a) + 1, pending |-> FALSE] \in Progress BY <3>2, ProgressTypes
      <3>. QED BY <1>4, <3>3, ConstantAssumption
        DEF Prove, RecordProof, Continue, Fault, budget, history, IInv, TypeOK, DiskOK, HistoryOK
    <2>4. ControlInv' /\ Others(a)
      BY <1>4, ConstantAssumption
      DEF Prove, RecordProof, Disk, Continue, Fault, Goto, records, age, locals, history, budget, IInv, TypeOK,
         LocalsOK, ControlInv, Targets, Outcomes, LockHeld, LockOf, Others, ApplicationOutcome,
         RecoveryOutcome, Holding, Reserving, PreCommit, Committed, Finishing, Recovering
    <2>5. JournalInv'
      BY <1>4, <2>4, JournalFrame
      DEF Prove, RecordProof, Disk, Continue, Fault, Goto, records, age, locals, history, budget, IInv, TypeOK,
         LocalsOK, Journaled, Committed
    <2>6. CommitInv'
      BY <1>4, <2>4, CommitFrame
      DEF Prove, RecordProof, Disk, Continue, Fault, Goto, records, age, locals, history, budget, IInv, TypeOK,
         LocalsOK, PreCommit, Committed, RecordsOK
    <2>7. AppliedInv'
      BY <1>4, <2>4, AppliedFrame
      DEF Prove, RecordProof, Disk, Continue, Fault, Goto, records, age, locals, history, budget, IInv, TypeOK,
         LocalsOK, Applied, RecordsOK
    <2>8. ProgressInv'
      <3>1. /\ target[a] \in Preview /\ target'[a] = target[a] /\ target[a] \in committed
            /\ \A p \in Preview \ {target[a]} : progress'[p] = progress[p]
        BY <1>4 DEF Prove, RecordProof, Continue, locals, Committed, IInv, TypeOK, DiskOK, ControlInv, Targets, CommitInv, Begun
      <3>2. \A b \in Proc \ {a} : pc[b] \in Committed => target[b] \in Preview \ {target[a]}
        BY <1>4, Exclusion DEF Prove, RecordProof, Committed, Holding, IInv, ControlInv, Targets
      <3>3. pc'[a] = "intent" => Proven(a)' < Ops
        BY <1>4, <3>1, ConstantAssumption DEF Prove, RecordProof, Continue, Goto, Proven, IInv, TypeOK, DiskOK, LocalsOK
      <3>4. pc'[a] \in {"intent", "inspect", "rollback"}
        BY <1>4 DEF Prove, RecordProof, Continue, Goto, IInv, TypeOK, LocalsOK
      <3>5. Untouched' BY <1>4, <3>1 DEF Prove, RecordProof, history, IInv, ProgressInv, Untouched
      <3>6. Unfinished'
        BY <2>4, <3>1, <3>2, <3>3, <3>4 DEF Others, Proven, Committed, IInv, ProgressInv, Unfinished
      <3>. QED BY <3>5, <3>6 DEF ProgressInv
    <2>. QED BY <2>1, <2>2, <2>3, <2>4, <2>5, <2>6, <2>7, <2>8 DEF IInv, TypeOK
  <1>5. CASE Inspect(a)
    <2>1. LocalsOK'
      BY <1>5, ContinueLocals
      DEF Inspect, Disk, IInv, TypeOK, locals, Label, Lockless, Holding, Reserving, PreCommit,
         Committed, Finishing, Recovering
    <2>2. RecordsOK'
      BY <1>5
      DEF Inspect, Disk, Continue, Goto, records, age, disk, locals, history, budget, IInv, TypeOK,
         RecordsOK
    <2>3. DiskOK' /\ HistoryOK'
      BY <1>5, ConstantAssumption
      DEF Inspect, Disk, Continue, Goto, records, age, disk, locals, history, budget, IInv, TypeOK,
         DiskOK, HistoryOK
    <2>4. ControlInv' /\ Others(a)
      BY <1>5, ConstantAssumption
      DEF Inspect, Disk, Continue, Goto, records, age, disk, locals, history, budget, IInv, TypeOK,
         LocalsOK, ControlInv, Targets, Outcomes, LockHeld, LockOf, Others, ApplicationOutcome,
         RecoveryOutcome, Holding, Reserving, PreCommit, Committed, Finishing, Recovering
    <2>5. JournalInv'
      BY <1>5, <2>4, JournalFrame
      DEF Inspect, Disk, Continue, Goto, records, age, disk, locals, history, budget, IInv, TypeOK,
         LocalsOK, Journaled, Committed
    <2>6. CommitInv'
      BY <1>5, <2>4, CommitFrame
      DEF Inspect, Disk, Continue, Goto, records, age, disk, locals, history, budget, IInv, TypeOK,
         LocalsOK, PreCommit, Committed, RecordsOK
    <2>7. AppliedInv'
      BY <1>5, <2>4, AppliedFrame
      DEF Inspect, Disk, Continue, Goto, records, age, disk, locals, history, budget, IInv, TypeOK,
         LocalsOK, Applied, RecordsOK
    <2>8. ProgressInv'
      BY <1>5, <2>4, ProgressFrame
      DEF Inspect, Disk, Continue, Goto, records, age, disk, locals, history, budget, IInv, TypeOK,
         LocalsOK
    <2>. QED BY <2>1, <2>2, <2>3, <2>4, <2>5, <2>6, <2>7, <2>8 DEF IInv, TypeOK
  <1>6. CASE CommitSeal(a)
    <2>1. LocalsOK'
      BY <1>6, DecideLocals
      DEF CommitSeal, Seal, IInv, TypeOK, Label, Lockless, Holding, Reserving, PreCommit, Committed,
         Finishing, Recovering, ApplicationOutcome
    <2>2. RecordsOK'
      <3>1. target[a] \in Preview BY <1>6 DEF CommitSeal, IInv, ControlInv, Targets
      <3>2. Intended(target[a]) \in Manifest BY <3>1, AtTypes, ConstantAssumption DEF Intended
      <3>3. (target[a] \notin Narrow) \in BOOLEAN OBVIOUS
      <3>4. [at |-> Intended(target[a]), full |-> target[a] \notin Narrow] \in Digest
        BY <3>2, <3>3 DEF Digest
      <3>. QED BY <1>6, <3>4, JournalTypes DEF CommitSeal, Seal, JournalState, age, IInv, TypeOK, RecordsOK
    <2>3. DiskOK' /\ HistoryOK'
      BY <1>6, ConstantAssumption
      DEF CommitSeal, Seal, Decide, Goto, age, disk, history, budget, IInv, TypeOK, DiskOK,
         HistoryOK
    <2>4. ControlInv' /\ Others(a)
      BY <1>6, ConstantAssumption
      DEF CommitSeal, Seal, Decide, Goto, age, disk, history, budget, IInv, TypeOK, LocalsOK,
         ControlInv, Targets, Outcomes, LockHeld, LockOf, Others, ApplicationOutcome,
         RecoveryOutcome, Holding, Reserving, PreCommit, Committed, Finishing, Recovering
    <2>5. JournalInv'
      BY <1>6, <2>4, JournalOwner
      DEF CommitSeal, Seal, Decide, Goto, age, disk, history, budget, IInv, TypeOK, RecordsOK,
         LocalsOK, ControlInv, Targets, CommitInv, Uncommitted, JournalInv, JournalKept,
         JournalFree, Committing, HasJournal, Journals, NoJournal, Journal, Journaled, Holding,
         Reserving, PreCommit, Committed, Finishing, Recovering
    <2>6. CommitInv'
      BY <1>6, <2>4, CommitFrame
      DEF CommitSeal, Seal, Decide, Goto, age, disk, history, budget, IInv, TypeOK, LocalsOK,
         PreCommit, Committed, RecordsOK
    <2>7. AppliedInv'
      <3>1. /\ target[a] \in committed /\ target[a] \in Preview
            /\ ~SaysApplied(target[a])
        BY <1>6 DEF CommitSeal, Committed, IInv, ControlInv, Targets, CommitInv, Begun, JournalInv, Committing, AppliedInv
      <3>. QED BY <1>6, <2>4, <3>1, AppliedOwner
        DEF CommitSeal, Seal, Decide, Goto, history, Applied, IInv, TypeOK, LocalsOK, RecordsOK
    <2>8. ProgressInv'
      BY <1>6, <2>4, ProgressFrame
      DEF CommitSeal, Seal, Decide, Goto, age, disk, history, budget, IInv, TypeOK, LocalsOK
    <2>. QED BY <2>1, <2>2, <2>3, <2>4, <2>5, <2>6, <2>7, <2>8 DEF IInv, TypeOK
  <1>7. CASE Rollback(a)
    <2>1. LocalsOK'
      <3>1. CASE Continue(a, "rolledSeal")
        BY <3>1, ContinueLocals DEF IInv, TypeOK, Label, Holding, Committed, Recovering
      <3>2. CASE Continue(a, "recoverySeal")
        BY <3>2, ContinueLocals DEF IInv, TypeOK, Label, Holding, Committed
      <3>3. CASE /\ left' = [left EXCEPT ![a] = Proven(a)]
                 /\ Goto(a, "undo")
                 /\ UNCHANGED <<lock, target, outcome, seen, supplied>>
        <4>1. Proven(a) \in 0..Ops
          BY <1>7, ProgressTypes DEF Rollback, Proven, IInv, TypeOK, DiskOK, ControlInv, Targets
        <4>. QED BY <3>3, <4>1
          DEF Goto, IInv, TypeOK, LocalsOK, Label, Holding, Committed, Recovering
      <3>. QED BY <1>7, <3>1, <3>2, <3>3 DEF Rollback, RollbackFrom
    <2>2. RecordsOK'
      BY <1>7
      DEF Rollback, RollbackFrom, Continue, NothingToUndo, Undoable, Goto, Fault, Disk, records,
         age, disk, locals, history, budget, IInv, TypeOK, RecordsOK, LocalsOK
    <2>3. DiskOK' /\ HistoryOK'
      BY <1>7, ConstantAssumption
      DEF Rollback, RollbackFrom, Continue, NothingToUndo, Undoable, Goto, Fault, Disk, records,
         age, disk, locals, history, budget, IInv, TypeOK, DiskOK, HistoryOK
    <2>4. ControlInv' /\ Others(a)
      BY <1>7, ConstantAssumption
      DEF Rollback, RollbackFrom, Continue, NothingToUndo, Undoable, Goto, Fault, Disk, records,
         age, disk, locals, history, budget, IInv, TypeOK, LocalsOK, ControlInv, Targets, Outcomes,
         LockHeld, LockOf, Others, ApplicationOutcome, RecoveryOutcome, Holding, Reserving,
         PreCommit, Committed, Finishing, Recovering
    <2>5. JournalInv'
      BY <1>7, <2>4, JournalFrame
      DEF Rollback, RollbackFrom, Continue, NothingToUndo, Undoable, Goto, Fault, Disk, records,
         age, disk, locals, history, budget, IInv, TypeOK, LocalsOK, Journaled, Committed
    <2>6. CommitInv'
      BY <1>7, <2>4, CommitFrame
      DEF Rollback, RollbackFrom, Continue, NothingToUndo, Undoable, Goto, Fault, Disk, records,
         age, disk, locals, history, budget, IInv, TypeOK, LocalsOK, PreCommit, Committed, RecordsOK
    <2>7. AppliedInv'
      BY <1>7, <2>4, AppliedFrame
      DEF Rollback, RollbackFrom, Continue, NothingToUndo, Undoable, Goto, Fault, Disk, records,
         age, disk, locals, history, budget, IInv, TypeOK, LocalsOK, Applied, RecordsOK
    <2>8. ProgressInv'
      BY <1>7, <2>4, ProgressFrame
      DEF Rollback, RollbackFrom, Continue, NothingToUndo, Undoable, Goto, Fault, Disk, records,
         age, disk, locals, history, budget, IInv, TypeOK, LocalsOK
    <2>. QED BY <2>1, <2>2, <2>3, <2>4, <2>5, <2>6, <2>7, <2>8 DEF IInv, TypeOK
  <1>8. CASE Undo(a)
    <2>1. LocalsOK'
      <3>1. CASE Continue(a, "rolledSeal")
        BY <3>1, ContinueLocals DEF IInv, TypeOK, Label, Holding, Committed, Recovering
      <3>2. CASE Continue(a, "recoverySeal")
        BY <3>2, ContinueLocals DEF IInv, TypeOK, Label, Holding, Committed
      <3>3. CASE /\ left[a] > 0 /\ left' = [left EXCEPT ![a] = left[a] - 1]
                 /\ UNCHANGED <<pc, lock, target, outcome, seen, supplied>>
        <4>1. left[a] - 1 \in 0..Ops BY <3>3, ConstantAssumption DEF IInv, TypeOK, LocalsOK
        <4>. QED BY <3>3, <4>1 DEF IInv, TypeOK, LocalsOK
      <3>. QED BY <1>8, <3>1, <3>2, <3>3 DEF Undo, UndoStep
    <2>2. RecordsOK'
      BY <1>8
      DEF Undo, UndoStep, Continue, Disk, Write, Fault, Goto, records, age, locals, history, budget,
         IInv, TypeOK, RecordsOK, LocalsOK
    <2>3. DiskOK' /\ HistoryOK'
      <3>1. target[a] \in Preview /\ left[a] \in 0..Ops
        BY <1>8 DEF Undo, IInv, TypeOK, LocalsOK, ControlInv, Targets
      <3>2. left[a] > 0 => At(target[a], left[a] - 1) \in Manifest
        BY <3>1, AtTypes, ConstantAssumption
      <3>3. fs' \in [Workspace -> Manifest]
        BY <1>8, <3>1, <3>2 DEF Undo, UndoStep, Write, IInv, TypeOK, DiskOK
      <3>4. faults' \in 0..MaxFaults /\ crashes' = crashes /\ writes' = writes
        BY <1>8, ConstantAssumption DEF Undo, UndoStep, Fault, budget, IInv, TypeOK, HistoryOK
      <3>. QED BY <1>8, <3>3, <3>4 DEF Undo, history, IInv, TypeOK, DiskOK, HistoryOK
    <2>4. ControlInv' /\ Others(a)
      BY <1>8, ConstantAssumption
      DEF Undo, UndoStep, Continue, Disk, Write, Fault, Goto, records, age, locals, history, budget,
         IInv, TypeOK, LocalsOK, ControlInv, Targets, Outcomes, LockHeld, LockOf, Others,
         ApplicationOutcome, RecoveryOutcome, Holding, Reserving, PreCommit, Committed, Finishing,
         Recovering
    <2>5. JournalInv'
      BY <1>8, <2>4, JournalFrame
      DEF Undo, UndoStep, Continue, Disk, Write, Fault, Goto, records, age, locals, history, budget,
         IInv, TypeOK, LocalsOK, Journaled, Committed
    <2>6. CommitInv'
      BY <1>8, <2>4, CommitFrame
      DEF Undo, UndoStep, Continue, Disk, Write, Fault, Goto, records, age, locals, history, budget,
         IInv, TypeOK, LocalsOK, PreCommit, Committed, RecordsOK
    <2>7. AppliedInv'
      BY <1>8, <2>4, AppliedFrame
      DEF Undo, UndoStep, Continue, Disk, Write, Fault, Goto, records, age, locals, history, budget,
         IInv, TypeOK, LocalsOK, Applied, RecordsOK
    <2>8. ProgressInv'
      BY <1>8, <2>4, ProgressFrame
      DEF Undo, UndoStep, Continue, Disk, Write, Fault, Goto, records, age, locals, history, budget,
         IInv, TypeOK, LocalsOK
    <2>. QED BY <2>1, <2>2, <2>3, <2>4, <2>5, <2>6, <2>7, <2>8 DEF IInv, TypeOK
  <1>9. CASE RolledSeal(a)
    <2>1. LocalsOK'
      BY <1>9, DecideLocals
      DEF RolledSeal, Seal, IInv, TypeOK, Label, Lockless, Holding, Reserving, PreCommit, Committed,
         Finishing, Recovering, ApplicationOutcome
    <2>2. RecordsOK'
      BY <1>9, JournalTypes, NullTypes
      DEF RolledSeal, Seal, Decide, Goto, age, disk, history, budget, IInv, TypeOK, RecordsOK,
         JournalState, LocalsOK
    <2>3. DiskOK' /\ HistoryOK'
      BY <1>9, ConstantAssumption
      DEF RolledSeal, Seal, Decide, Goto, age, disk, history, budget, IInv, TypeOK, DiskOK,
         HistoryOK
    <2>4. ControlInv' /\ Others(a)
      BY <1>9, ConstantAssumption
      DEF RolledSeal, Seal, Decide, Goto, age, disk, history, budget, IInv, TypeOK, LocalsOK,
         ControlInv, Targets, Outcomes, LockHeld, LockOf, Others, ApplicationOutcome,
         RecoveryOutcome, Holding, Reserving, PreCommit, Committed, Finishing, Recovering
    <2>5. JournalInv'
      BY <1>9, <2>4, JournalOwner
      DEF RolledSeal, Seal, Decide, Goto, age, disk, history, budget, IInv, TypeOK, RecordsOK,
         LocalsOK, ControlInv, Targets, CommitInv, Uncommitted, JournalInv, JournalKept,
         JournalFree, Committing, HasJournal, Journals, NoJournal, Journal, Journaled, Holding,
         Reserving, PreCommit, Committed, Finishing, Recovering
    <2>6. CommitInv'
      BY <1>9, <2>4, CommitFrame
      DEF RolledSeal, Seal, Decide, Goto, age, disk, history, budget, IInv, TypeOK, LocalsOK,
         PreCommit, Committed, RecordsOK
    <2>7. AppliedInv'
      <3>1. /\ target[a] \in committed /\ target[a] \in Preview
            /\ ~SaysApplied(target[a])
        BY <1>9 DEF RolledSeal, Committed, IInv, ControlInv, Targets, CommitInv, Begun, JournalInv, Committing, AppliedInv
      <3>. QED BY <1>9, <2>4, <3>1, AppliedOwner
        DEF RolledSeal, Seal, Decide, Goto, history, Applied, IInv, TypeOK, LocalsOK, RecordsOK
    <2>8. ProgressInv'
      BY <1>9, <2>4, ProgressFrame
      DEF RolledSeal, Seal, Decide, Goto, age, disk, history, budget, IInv, TypeOK, LocalsOK
    <2>. QED BY <2>1, <2>2, <2>3, <2>4, <2>5, <2>6, <2>7, <2>8 DEF IInv, TypeOK
  <1>10. CASE RecoverySeal(a)
    <2>1. LocalsOK'
      BY <1>10, DecideLocals
      DEF RecoverySeal, Seal, Disk, IInv, TypeOK, Label, Lockless, Holding, Reserving, PreCommit,
         Committed, Finishing, Recovering, ApplicationOutcome
    <2>2. RecordsOK'
      <3>1. target[a] \in Preview BY <1>10 DEF RecoverySeal, IInv, ControlInv, Targets
      <3>2. Whole(Disk(a)) \in Digest
        BY <3>1, DigestTypes, ConstantAssumption DEF Disk, IInv, TypeOK, DiskOK
      <3>. QED BY <1>10, <3>2, JournalTypes DEF RecoverySeal, Seal, JournalState, age, IInv, TypeOK, RecordsOK
    <2>3. DiskOK' /\ HistoryOK'
      BY <1>10, ConstantAssumption
      DEF RecoverySeal, Seal, Disk, Decide, Goto, age, disk, history, budget, IInv, TypeOK, DiskOK,
         HistoryOK
    <2>4. ControlInv' /\ Others(a)
      BY <1>10, ConstantAssumption
      DEF RecoverySeal, Seal, Disk, Decide, Goto, age, disk, history, budget, IInv, TypeOK,
         LocalsOK, ControlInv, Targets, Outcomes, LockHeld, LockOf, Others, ApplicationOutcome,
         RecoveryOutcome, Holding, Reserving, PreCommit, Committed, Finishing, Recovering
    <2>5. JournalInv'
      BY <1>10, <2>4, JournalOwner
      DEF RecoverySeal, Seal, Disk, Decide, Goto, age, disk, history, budget, IInv, TypeOK,
         RecordsOK, LocalsOK, ControlInv, Targets, CommitInv, Uncommitted, JournalInv, JournalKept,
         JournalFree, Committing, HasJournal, Journals, NoJournal, Journal, Journaled, Holding,
         Reserving, PreCommit, Committed, Finishing, Recovering
    <2>6. CommitInv'
      BY <1>10, <2>4, CommitFrame
      DEF RecoverySeal, Seal, Disk, Decide, Goto, age, disk, history, budget, IInv, TypeOK,
         LocalsOK, PreCommit, Committed, RecordsOK
    <2>7. AppliedInv'
      <3>1. /\ target[a] \in committed /\ target[a] \in Preview
            /\ ~SaysApplied(target[a])
        BY <1>10 DEF RecoverySeal, Committed, IInv, ControlInv, Targets, CommitInv, Begun, JournalInv, Committing, AppliedInv
      <3>. QED BY <1>10, <2>4, <3>1, AppliedOwner
        DEF RecoverySeal, Seal, Decide, Goto, history, Applied, IInv, TypeOK, LocalsOK, RecordsOK
    <2>8. ProgressInv'
      BY <1>10, <2>4, ProgressFrame
      DEF RecoverySeal, Seal, Disk, Decide, Goto, age, disk, history, budget, IInv, TypeOK, LocalsOK
    <2>. QED BY <2>1, <2>2, <2>3, <2>4, <2>5, <2>6, <2>7, <2>8 DEF IInv, TypeOK
  <1>. QED BY <1>1, <1>2, <1>3, <1>4, <1>5, <1>6, <1>7, <1>8, <1>9, <1>10 DEF CommitStep

\* Terminal records, cleanup, synchronization, and the removal by a discard.
LEMMA FinishStepKeeps ==
    ASSUME IInv, NEW a \in Proc, FinishStep(a)
    PROVE  IInv'
  <1>1. CASE WriteReceipt(a)
    <2>1. LocalsOK'
      BY <1>1, FinishLocals, ContinueLocals
      DEF WriteReceipt, IInv, TypeOK, locals, Label, Lockless, Holding, Reserving, PreCommit,
         Committed, Finishing, Recovering
    <2>2. RecordsOK'
      <3>1. [outcome |-> outcome[a], cleanup |-> TRUE, synced |-> FALSE] \in Receipt
        BY <1>1, ReceiptTypes DEF WriteReceipt, IInv, ControlInv, Outcomes
      <3>. QED BY <1>1, <3>1, PrunedTypes DEF WriteReceipt, IInv, TypeOK, RecordsOK
    <2>3. DiskOK' /\ HistoryOK'
      BY <1>1, ConstantAssumption
      DEF WriteReceipt, Continue, Finish, Goto, Unlocked, disk, locals, history, budget, IInv,
         TypeOK, DiskOK, HistoryOK
    <2>4. ControlInv' /\ Others(a)
      BY <1>1, ConstantAssumption
      DEF WriteReceipt, Continue, Finish, Goto, Unlocked, disk, locals, history, budget, IInv,
         TypeOK, LocalsOK, ControlInv, Targets, Outcomes, LockHeld, LockOf, Others,
         ApplicationOutcome, RecoveryOutcome, Holding, Reserving, PreCommit, Committed, Finishing,
         Recovering
    <2>5. JournalInv'
      BY <1>1, <2>4, JournalFrame
      DEF WriteReceipt, Continue, Finish, Goto, Unlocked, disk, locals, history, budget, IInv,
         TypeOK, LocalsOK, Journaled, Committed
    <2>6. CommitInv'
      BY <1>1, <2>4, CommitFrame, PrunedTypes
      DEF WriteReceipt, Continue, Finish, Goto, Unlocked, disk, locals, history, budget, IInv,
         TypeOK, LocalsOK, PreCommit, Committed
    <2>7. AppliedInv'
      <3>1. \A p \in Preview : Applied(p)' => Applied(p) \/ SaysApplied(p)
        BY <1>1, PrunedTypes DEF WriteReceipt, Applied, SaysApplied, IInv, TypeOK
      <3>2. pc'[a] \in {"dropPreview", "idle"}
        BY <1>1 DEF WriteReceipt, Continue, Finish, Goto, IInv, TypeOK, LocalsOK
      <3>. QED BY <1>1, <2>4, <3>1, <3>2, AppliedOwner DEF WriteReceipt, history
    <2>8. ProgressInv'
      BY <1>1, <2>4, ProgressFrame
      DEF WriteReceipt, Continue, Finish, Goto, Unlocked, disk, locals, history, budget, IInv,
         TypeOK, LocalsOK
    <2>. QED BY <2>1, <2>2, <2>3, <2>4, <2>5, <2>6, <2>7, <2>8 DEF IInv, TypeOK
  <1>2. CASE DropPreview(a)
    <2>1. LocalsOK'
      BY <1>2, FinishLocals, ContinueLocals
      DEF DropPreview, Fault, IInv, TypeOK, locals, Label, Lockless, Holding, Reserving, PreCommit,
         Committed, Finishing, Recovering
    <2>2. RecordsOK'
      BY <1>2
      DEF DropPreview, Fault, Finish, Continue, Goto, Unlocked, age, disk, locals, history, budget,
         IInv, TypeOK, RecordsOK, LocalsOK
    <2>3. DiskOK' /\ HistoryOK'
      BY <1>2, ConstantAssumption
      DEF DropPreview, Fault, Finish, Continue, Goto, Unlocked, age, disk, locals, history, budget,
         IInv, TypeOK, DiskOK, HistoryOK
    <2>4. ControlInv' /\ Others(a)
      BY <1>2, ConstantAssumption
      DEF DropPreview, Fault, Finish, Continue, Goto, Unlocked, age, disk, locals, history, budget,
         IInv, TypeOK, LocalsOK, ControlInv, Targets, Outcomes, LockHeld, LockOf, Others,
         ApplicationOutcome, RecoveryOutcome, Holding, Reserving, PreCommit, Committed, Finishing,
         Recovering
    <2>5. JournalInv'
      BY <1>2, <2>4, JournalFrame
      DEF DropPreview, Fault, Finish, Continue, Goto, Unlocked, age, disk, locals, history, budget,
         IInv, TypeOK, LocalsOK, Journaled, Committed
    <2>6. CommitInv'
      BY <1>2, <2>4, CommitFrame
      DEF DropPreview, Fault, Finish, Continue, Goto, Unlocked, age, disk, locals, history, budget,
         IInv, TypeOK, LocalsOK, PreCommit, Committed, RecordsOK
    <2>7. AppliedInv'
      BY <1>2, <2>4, AppliedFrame
      DEF DropPreview, Fault, Finish, Continue, Goto, Unlocked, age, disk, locals, history, budget,
         IInv, TypeOK, LocalsOK, Applied, RecordsOK
    <2>8. ProgressInv'
      BY <1>2, <2>4, ProgressFrame
      DEF DropPreview, Fault, Finish, Continue, Goto, Unlocked, age, disk, locals, history, budget,
         IInv, TypeOK, LocalsOK
    <2>. QED BY <2>1, <2>2, <2>3, <2>4, <2>5, <2>6, <2>7, <2>8 DEF IInv, TypeOK
  <1>3. CASE CleanArtifacts(a)
    <2>1. LocalsOK'
      BY <1>3, ContinueLocals
      DEF CleanArtifacts, ArtifactsRemoved, ArtifactsKept, Fault, IInv, TypeOK, locals, Label,
         Lockless, Holding, Reserving, PreCommit, Committed, Finishing, Recovering
    <2>2. RecordsOK'
      BY <1>3
      DEF CleanArtifacts, ArtifactsRemoved, Continue, ArtifactsKept, Goto, Fault, records, age,
         locals, history, budget, IInv, TypeOK, RecordsOK
    <2>3. DiskOK' /\ HistoryOK'
      BY <1>3, ArtifactsTypes
      DEF CleanArtifacts, Continue, Goto, records, age, locals, history, budget, IInv, TypeOK,
         DiskOK, HistoryOK, ControlInv, Targets
    <2>4. ControlInv' /\ Others(a)
      BY <1>3, ConstantAssumption
      DEF CleanArtifacts, ArtifactsRemoved, Continue, ArtifactsKept, Goto, Fault, records, age,
         locals, history, budget, IInv, TypeOK, LocalsOK, ControlInv, Targets, Outcomes, LockHeld,
         LockOf, Others, ApplicationOutcome, RecoveryOutcome, Holding, Reserving, PreCommit,
         Committed, Finishing, Recovering
    <2>5. JournalInv'
      BY <1>3, <2>4, JournalFrame
      DEF CleanArtifacts, ArtifactsRemoved, Continue, ArtifactsKept, Goto, Fault, records, age,
         locals, history, budget, IInv, TypeOK, LocalsOK, Journaled, Committed
    <2>6. CommitInv'
      BY <1>3, <2>4, CommitFrame
      DEF CleanArtifacts, ArtifactsRemoved, Continue, ArtifactsKept, Goto, Fault, records, age,
         locals, history, budget, IInv, TypeOK, LocalsOK, PreCommit, Committed, RecordsOK
    <2>7. AppliedInv'
      BY <1>3, <2>4, AppliedFrame
      DEF CleanArtifacts, ArtifactsRemoved, Continue, ArtifactsKept, Goto, Fault, records, age,
         locals, history, budget, IInv, TypeOK, LocalsOK, Applied, RecordsOK
    <2>8. ProgressInv'
      BY <1>3, <2>4, ProgressFrame, ArtifactsTypes
      DEF CleanArtifacts, Continue, Goto, records, age, locals, history, budget, IInv, TypeOK,
         LocalsOK, ControlInv, Targets, DiskOK
    <2>. QED BY <2>1, <2>2, <2>3, <2>4, <2>5, <2>6, <2>7, <2>8 DEF IInv, TypeOK
  <1>4. CASE RetirePreview(a)
    <2>1. LocalsOK'
      BY <1>4, ContinueLocals
      DEF RetirePreview, Fault, IInv, TypeOK, locals, Label, Lockless, Holding, Reserving,
         PreCommit, Committed, Finishing, Recovering
    <2>2. RecordsOK'
      BY <1>4
      DEF RetirePreview, Continue, Fault, Goto, age, disk, locals, history, budget, IInv, TypeOK,
         RecordsOK
    <2>3. DiskOK' /\ HistoryOK'
      BY <1>4, ConstantAssumption
      DEF RetirePreview, Continue, Fault, Goto, age, disk, locals, history, budget, IInv, TypeOK,
         DiskOK, HistoryOK
    <2>4. ControlInv' /\ Others(a)
      BY <1>4, ConstantAssumption
      DEF RetirePreview, Continue, Fault, Goto, age, disk, locals, history, budget, IInv, TypeOK,
         LocalsOK, ControlInv, Targets, Outcomes, LockHeld, LockOf, Others, ApplicationOutcome,
         RecoveryOutcome, Holding, Reserving, PreCommit, Committed, Finishing, Recovering
    <2>5. JournalInv'
      BY <1>4, <2>4, JournalFrame
      DEF RetirePreview, Continue, Fault, Goto, age, disk, locals, history, budget, IInv, TypeOK,
         LocalsOK, Journaled, Committed
    <2>6. CommitInv'
      BY <1>4, <2>4, CommitFrame
      DEF RetirePreview, Continue, Fault, Goto, age, disk, locals, history, budget, IInv, TypeOK,
         LocalsOK, PreCommit, Committed, RecordsOK
    <2>7. AppliedInv'
      BY <1>4, <2>4, AppliedFrame
      DEF RetirePreview, Continue, Fault, Goto, age, disk, locals, history, budget, IInv, TypeOK,
         LocalsOK, Applied, RecordsOK
    <2>8. ProgressInv'
      BY <1>4, <2>4, ProgressFrame
      DEF RetirePreview, Continue, Fault, Goto, age, disk, locals, history, budget, IInv, TypeOK,
         LocalsOK
    <2>. QED BY <2>1, <2>2, <2>3, <2>4, <2>5, <2>6, <2>7, <2>8 DEF IInv, TypeOK
  <1>5. CASE CleanJournal(a)
    <2>1. LocalsOK'
      BY <1>5, ContinueLocals
      DEF CleanJournal, Fault, IInv, TypeOK, locals, Label, Lockless, Holding, Reserving, PreCommit,
         Committed, Finishing, Recovering
    <2>2. RecordsOK'
      BY <1>5, JournalTypes, NullTypes
      DEF CleanJournal, Continue, Fault, Goto, age, disk, locals, history, budget, IInv, TypeOK,
         RecordsOK, JournalState
    <2>3. DiskOK' /\ HistoryOK'
      BY <1>5, ConstantAssumption
      DEF CleanJournal, Continue, Fault, Goto, age, disk, locals, history, budget, IInv, TypeOK,
         DiskOK, HistoryOK
    <2>4. ControlInv' /\ Others(a)
      BY <1>5, ConstantAssumption
      DEF CleanJournal, Continue, Fault, Goto, age, disk, locals, history, budget, IInv, TypeOK,
         LocalsOK, ControlInv, Targets, Outcomes, LockHeld, LockOf, Others, ApplicationOutcome,
         RecoveryOutcome, Holding, Reserving, PreCommit, Committed, Finishing, Recovering
    <2>5. JournalInv'
      <3>1. target[a] \in Preview BY <1>5 DEF CleanJournal, IInv, ControlInv, Targets
      <3>2. /\ \A p \in Preview \ {target[a]} : journal'[p] = journal[p]
            /\ journal'[target[a]].state \in {journal[target[a]].state, "none"}
        BY <1>5, <3>1 DEF CleanJournal, NoJournal, IInv, TypeOK, RecordsOK
      <3>3. pc'[a] \in {"clearRead", "postCommit"} /\ (target'[a] = target[a] \/ pc'[a] = "idle")
        BY <1>5 DEF CleanJournal, Continue, Goto, locals, IInv, TypeOK, LocalsOK
      <3>4. committed' = committed /\ pc[a] \in Holding
        BY <1>5 DEF CleanJournal, history, Holding, Finishing
      <3>5. pc'[a] \notin Journaled \cup {"journal", "recoverRollback", "recoverUndo"}
        BY <3>3 DEF Journaled, Committed
      <3>. QED BY <2>4, <3>1, <3>2, <3>3, <3>4, <3>5, JournalRemoved
    <2>6. CommitInv'
      BY <1>5, <2>4, CommitFrame
      DEF CleanJournal, Continue, Fault, Goto, age, disk, locals, history, budget, IInv, TypeOK,
         LocalsOK, PreCommit, Committed, RecordsOK
    <2>7. AppliedInv'
      <3>1. \A p \in Preview : journal'[p].state \in {journal[p].state, "none"}
        BY <1>5 DEF CleanJournal, NoJournal, IInv, TypeOK, RecordsOK
      <3>2. receipt' = receipt /\ committed' = committed BY <1>5 DEF CleanJournal, history
      <3>3. pc'[a] \in {"clearRead", "postCommit"} /\ outcome' = outcome /\ target' = target /\ seen' = seen
        BY <1>5 DEF CleanJournal, Continue, Goto, locals, IInv, TypeOK, LocalsOK
      <3>. QED BY <1>5, <2>4, <3>1, <3>2, <3>3, AppliedFrame DEF Applied
    <2>8. ProgressInv'
      BY <1>5, <2>4, ProgressFrame
      DEF CleanJournal, Continue, Fault, Goto, age, disk, locals, history, budget, IInv, TypeOK,
         LocalsOK
    <2>. QED BY <2>1, <2>2, <2>3, <2>4, <2>5, <2>6, <2>7, <2>8 DEF IInv, TypeOK
  <1>6. CASE ClearRead(a)
    <2>1. LocalsOK'
      BY <1>6, ContinueLocals, ReadSeenLocals
      DEF ClearRead, IInv, TypeOK, locals, ControlInv, Targets, Label, Lockless, Holding, Reserving,
         PreCommit, Committed, Finishing, Recovering
    <2>2. RecordsOK'
      BY <1>6
      DEF ClearRead, ReadSeen, Continue, Goto, records, age, disk, locals, history, budget, IInv,
         TypeOK, RecordsOK, LocalsOK
    <2>3. DiskOK' /\ HistoryOK'
      BY <1>6, ConstantAssumption
      DEF ClearRead, ReadSeen, Continue, Goto, records, age, disk, locals, history, budget, IInv,
         TypeOK, DiskOK, HistoryOK
    <2>4. ControlInv' /\ Others(a)
      BY <1>6, ConstantAssumption
      DEF ClearRead, ReadSeen, Continue, Goto, records, age, disk, locals, history, budget, IInv,
         TypeOK, LocalsOK, ControlInv, Targets, Outcomes, LockHeld, LockOf, Others,
         ApplicationOutcome, RecoveryOutcome, Holding, Reserving, PreCommit, Committed, Finishing,
         Recovering
    <2>5. JournalInv'
      BY <1>6, <2>4, JournalFrame
      DEF ClearRead, ReadSeen, Continue, Goto, records, age, disk, locals, history, budget, IInv,
         TypeOK, LocalsOK, Journaled, Committed
    <2>6. CommitInv'
      BY <1>6, <2>4, CommitFrame
      DEF ClearRead, ReadSeen, Continue, Goto, records, age, disk, locals, history, budget, IInv,
         TypeOK, LocalsOK, PreCommit, Committed, RecordsOK
    <2>7. AppliedInv'
      <3>1. /\ pc'[a] \in {"clearWrite", "postCommit"}
            /\ pc'[a] \in {"clearWrite", "syncWrite"} => seen'[a] = receipt[target'[a]]
        BY <1>6 DEF ClearRead, ReadSeen, Continue, Finish, Goto, IInv, TypeOK, LocalsOK
      <3>. QED BY <1>6, <2>4, <3>1, AppliedOwner DEF ClearRead, records, history, Applied
    <2>8. ProgressInv'
      BY <1>6, <2>4, ProgressFrame
      DEF ClearRead, ReadSeen, Continue, Goto, records, age, disk, locals, history, budget, IInv,
         TypeOK, LocalsOK
    <2>. QED BY <2>1, <2>2, <2>3, <2>4, <2>5, <2>6, <2>7, <2>8 DEF IInv, TypeOK
  <1>7. CASE ClearWrite(a)
    <2>1. LocalsOK'
      BY <1>7, ContinueLocals
      DEF ClearWrite, Fault, IInv, TypeOK, locals, Label, Lockless, Holding, Reserving, PreCommit,
         Committed, Finishing, Recovering
    <2>2. RecordsOK'
      <3>1. [seen[a] EXCEPT !.cleanup = FALSE] \in Receipt
        BY ReceiptTypes DEF IInv, TypeOK, LocalsOK
      <3>. QED BY <1>7, <3>1 DEF ClearWrite, age, IInv, TypeOK, RecordsOK
    <2>3. DiskOK' /\ HistoryOK'
      BY <1>7, ConstantAssumption
      DEF ClearWrite, Fault, Continue, Goto, age, disk, locals, history, budget, IInv, TypeOK,
         DiskOK, HistoryOK
    <2>4. ControlInv' /\ Others(a)
      BY <1>7, ConstantAssumption
      DEF ClearWrite, Fault, Continue, Goto, age, disk, locals, history, budget, IInv, TypeOK,
         LocalsOK, ControlInv, Targets, Outcomes, LockHeld, LockOf, Others, ApplicationOutcome,
         RecoveryOutcome, Holding, Reserving, PreCommit, Committed, Finishing, Recovering
    <2>5. JournalInv'
      BY <1>7, <2>4, JournalFrame
      DEF ClearWrite, Fault, Continue, Goto, age, disk, locals, history, budget, IInv, TypeOK,
         LocalsOK, Journaled, Committed
    <2>6. CommitInv'
      BY <1>7, <2>4, CommitFrame
      DEF ClearWrite, Fault, Continue, Goto, age, disk, locals, history, budget, IInv, TypeOK,
         LocalsOK, PreCommit, Committed, RecordsOK
    <2>7. AppliedInv'
      <3>1. \A p \in Preview : Applied(p)' => Applied(p) \/ SaysApplied(p)
        BY <1>7 DEF ClearWrite, Applied, SaysApplied, IInv, TypeOK, RecordsOK, LocalsOK, Receipt
      <3>2. pc'[a] = "postCommit"
        BY <1>7 DEF ClearWrite, Continue, Finish, Goto, IInv, TypeOK, LocalsOK
      <3>. QED BY <1>7, <2>4, <3>1, <3>2, AppliedOwner DEF ClearWrite, history
    <2>8. ProgressInv'
      BY <1>7, <2>4, ProgressFrame
      DEF ClearWrite, Fault, Continue, Goto, age, disk, locals, history, budget, IInv, TypeOK,
         LocalsOK
    <2>. QED BY <2>1, <2>2, <2>3, <2>4, <2>5, <2>6, <2>7, <2>8 DEF IInv, TypeOK
  <1>8. CASE PostCommit(a)
    <2>1. LocalsOK'
      BY <1>8, FinishLocals, GotoLocals
      DEF PostCommit, IInv, TypeOK, locals, Label, Lockless, Holding, Reserving, PreCommit,
         Committed, Finishing, Recovering
    <2>2. RecordsOK'
      BY <1>8
      DEF PostCommit, Goto, Unlocked, Finish, records, age, disk, locals, history, budget, IInv,
         TypeOK, RecordsOK, LocalsOK
    <2>3. DiskOK' /\ HistoryOK'
      BY <1>8, ConstantAssumption
      DEF PostCommit, Goto, Unlocked, Finish, records, age, disk, locals, history, budget, IInv,
         TypeOK, DiskOK, HistoryOK
    <2>4. ControlInv' /\ Others(a)
      BY <1>8, ConstantAssumption
      DEF PostCommit, Goto, Unlocked, Finish, records, age, disk, locals, history, budget, IInv,
         TypeOK, LocalsOK, ControlInv, Targets, Outcomes, LockHeld, LockOf, Others,
         ApplicationOutcome, RecoveryOutcome, Holding, Reserving, PreCommit, Committed, Finishing,
         Recovering
    <2>5. JournalInv'
      BY <1>8, <2>4, JournalFrame
      DEF PostCommit, Goto, Unlocked, Finish, records, age, disk, locals, history, budget, IInv,
         TypeOK, LocalsOK, Journaled, Committed
    <2>6. CommitInv'
      BY <1>8, <2>4, CommitFrame
      DEF PostCommit, Goto, Unlocked, Finish, records, age, disk, locals, history, budget, IInv,
         TypeOK, LocalsOK, PreCommit, Committed, RecordsOK
    <2>7. AppliedInv'
      BY <1>8, <2>4, AppliedFrame
      DEF PostCommit, Goto, Unlocked, Finish, records, age, disk, locals, history, budget, IInv,
         TypeOK, LocalsOK, Applied, RecordsOK
    <2>8. ProgressInv'
      BY <1>8, <2>4, ProgressFrame
      DEF PostCommit, Goto, Unlocked, Finish, records, age, disk, locals, history, budget, IInv,
         TypeOK, LocalsOK
    <2>. QED BY <2>1, <2>2, <2>3, <2>4, <2>5, <2>6, <2>7, <2>8 DEF IInv, TypeOK
  <1>9. CASE SyncRead(a)
    <2>1. LocalsOK'
      BY <1>9, FinishLocals, ReadSeenLocals
      DEF SyncRead, IInv, TypeOK, ControlInv, Targets, Label, Lockless, Holding, Reserving,
         PreCommit, Committed, Finishing, Recovering
    <2>2. RecordsOK'
      BY <1>9
      DEF SyncRead, Finish, ReadSeen, Goto, Unlocked, records, age, disk, history, budget, IInv,
         TypeOK, RecordsOK, LocalsOK
    <2>3. DiskOK' /\ HistoryOK'
      BY <1>9, ConstantAssumption
      DEF SyncRead, Finish, ReadSeen, Goto, Unlocked, records, age, disk, history, budget, IInv,
         TypeOK, DiskOK, HistoryOK
    <2>4. ControlInv' /\ Others(a)
      BY <1>9, ConstantAssumption
      DEF SyncRead, Finish, ReadSeen, Goto, Unlocked, records, age, disk, history, budget, IInv,
         TypeOK, LocalsOK, ControlInv, Targets, Outcomes, LockHeld, LockOf, Others,
         ApplicationOutcome, RecoveryOutcome, Holding, Reserving, PreCommit, Committed, Finishing,
         Recovering
    <2>5. JournalInv'
      BY <1>9, <2>4, JournalFrame
      DEF SyncRead, Finish, ReadSeen, Goto, Unlocked, records, age, disk, history, budget, IInv,
         TypeOK, LocalsOK, Journaled, Committed
    <2>6. CommitInv'
      BY <1>9, <2>4, CommitFrame
      DEF SyncRead, Finish, ReadSeen, Goto, Unlocked, records, age, disk, history, budget, IInv,
         TypeOK, LocalsOK, PreCommit, Committed, RecordsOK
    <2>7. AppliedInv'
      <3>1. /\ pc'[a] \in {"syncWrite", "idle"}
            /\ pc'[a] \in {"clearWrite", "syncWrite"} => seen'[a] = receipt[target'[a]]
        BY <1>9 DEF SyncRead, ReadSeen, Continue, Finish, Goto, IInv, TypeOK, LocalsOK
      <3>. QED BY <1>9, <2>4, <3>1, AppliedOwner DEF SyncRead, records, history, Applied
    <2>8. ProgressInv'
      BY <1>9, <2>4, ProgressFrame
      DEF SyncRead, Finish, ReadSeen, Goto, Unlocked, records, age, disk, history, budget, IInv,
         TypeOK, LocalsOK
    <2>. QED BY <2>1, <2>2, <2>3, <2>4, <2>5, <2>6, <2>7, <2>8 DEF IInv, TypeOK
  <1>10. CASE SyncWrite(a)
    <2>1. LocalsOK'
      BY <1>10, FinishLocals
      DEF SyncWrite, IInv, TypeOK, Label, Lockless, Holding, Reserving, PreCommit, Committed,
         Finishing, Recovering
    <2>2. RecordsOK'
      BY <1>10, ReceiptTypes
      DEF SyncWrite, Finish, Goto, Unlocked, age, disk, history, budget, IInv, TypeOK, RecordsOK,
         LocalsOK
    <2>3. DiskOK' /\ HistoryOK'
      BY <1>10, ConstantAssumption
      DEF SyncWrite, Finish, Goto, Unlocked, age, disk, history, budget, IInv, TypeOK, DiskOK,
         HistoryOK
    <2>4. ControlInv' /\ Others(a)
      BY <1>10, ConstantAssumption
      DEF SyncWrite, Finish, Goto, Unlocked, age, disk, history, budget, IInv, TypeOK, LocalsOK,
         ControlInv, Targets, Outcomes, LockHeld, LockOf, Others, ApplicationOutcome,
         RecoveryOutcome, Holding, Reserving, PreCommit, Committed, Finishing, Recovering
    <2>5. JournalInv'
      BY <1>10, <2>4, JournalFrame
      DEF SyncWrite, Finish, Goto, Unlocked, age, disk, history, budget, IInv, TypeOK, LocalsOK,
         Journaled, Committed
    <2>6. CommitInv'
      BY <1>10, <2>4, CommitFrame
      DEF SyncWrite, Finish, Goto, Unlocked, age, disk, history, budget, IInv, TypeOK, LocalsOK,
         PreCommit, Committed, RecordsOK
    <2>7. AppliedInv'
      <3>1. \A p \in Preview : Applied(p)' => Applied(p) \/ SaysApplied(p)
        BY <1>10 DEF SyncWrite, Applied, SaysApplied, IInv, TypeOK, RecordsOK, LocalsOK, Receipt
      <3>2. pc'[a] = "idle"
        BY <1>10 DEF SyncWrite, Continue, Finish, Goto, IInv, TypeOK, LocalsOK
      <3>. QED BY <1>10, <2>4, <3>1, <3>2, AppliedOwner DEF SyncWrite, history
    <2>8. ProgressInv'
      BY <1>10, <2>4, ProgressFrame
      DEF SyncWrite, Finish, Goto, Unlocked, age, disk, history, budget, IInv, TypeOK, LocalsOK
    <2>. QED BY <2>1, <2>2, <2>3, <2>4, <2>5, <2>6, <2>7, <2>8 DEF IInv, TypeOK
  <1>11. CASE DiscardRemove(a)
    <2>1. LocalsOK'
      BY <1>11, FinishLocals
      DEF DiscardRemove, IInv, TypeOK, Label, Lockless, Holding, Reserving, PreCommit, Committed,
         Finishing, Recovering
    <2>2. RecordsOK'
      BY <1>11
      DEF DiscardRemove, Finish, Goto, Unlocked, age, disk, budget, IInv, TypeOK, RecordsOK,
         LocalsOK
    <2>3. DiskOK' /\ HistoryOK'
      BY <1>11
      DEF DiscardRemove, disk, budget, IInv, TypeOK, DiskOK, HistoryOK, ControlInv, Targets
    <2>4. ControlInv' /\ Others(a)
      BY <1>11, ConstantAssumption
      DEF DiscardRemove, Finish, Goto, Unlocked, age, disk, budget, IInv, TypeOK, LocalsOK,
         ControlInv, Targets, Outcomes, LockHeld, LockOf, Others, ApplicationOutcome,
         RecoveryOutcome, Holding, Reserving, PreCommit, Committed, Finishing, Recovering
    <2>5. JournalInv'
      BY <1>11, <2>4, JournalFrame
      DEF DiscardRemove, Finish, Goto, Unlocked, age, disk, budget, IInv, TypeOK, LocalsOK,
         Journaled, Committed
    <2>6. CommitInv'
      BY <1>11, <2>4, CommitFrame
      DEF DiscardRemove, Finish, Goto, Unlocked, age, disk, budget, IInv, TypeOK, LocalsOK,
         PreCommit, Committed, RecordsOK
    <2>7. AppliedInv'
      BY <1>11, <2>4, AppliedFrame
      DEF DiscardRemove, Finish, Goto, Unlocked, age, disk, budget, IInv, TypeOK, LocalsOK, Applied,
         RecordsOK
    <2>8. ProgressInv'
      BY <1>11, <2>4, ProgressFrame
      DEF DiscardRemove, Finish, Goto, Unlocked, age, disk, budget, IInv, TypeOK, LocalsOK
    <2>. QED BY <2>1, <2>2, <2>3, <2>4, <2>5, <2>6, <2>7, <2>8 DEF IInv, TypeOK
  <1>. QED BY <1>1, <1>2, <1>3, <1>4, <1>5, <1>6, <1>7, <1>8, <1>9, <1>10, <1>11 DEF FinishStep

\* Recovery under its Workspace lock.
LEMMA RecoverStepKeeps ==
    ASSUME IInv, NEW a \in Proc, RecoverStep(a)
    PROVE  IInv'
  <1>1. CASE LockForRecovery(a)
    <2>1. LocalsOK'
      BY <1>1, FinishLocals, TakeLockLocals
      DEF LockForRecovery, IInv, TypeOK, locals, Label, Lockless, Holding, Reserving, PreCommit,
         Committed, Finishing, Recovering
    <2>2. RecordsOK'
      BY <1>1
      DEF LockForRecovery, TakeLock, Finish, Goto, Unlocked, records, age, disk, locals, history,
         budget, IInv, TypeOK, RecordsOK, LocalsOK
    <2>3. DiskOK' /\ HistoryOK'
      BY <1>1, ConstantAssumption
      DEF LockForRecovery, TakeLock, Finish, Goto, Unlocked, records, age, disk, locals, history,
         budget, IInv, TypeOK, DiskOK, HistoryOK
    <2>4. ControlInv' /\ Others(a)
      BY <1>1, ConstantAssumption
      DEF LockForRecovery, TakeLock, Finish, Goto, Unlocked, records, age, disk, locals, history,
         budget, IInv, TypeOK, LocalsOK, ControlInv, Targets, Outcomes, LockHeld, LockOf, Others,
         ApplicationOutcome, RecoveryOutcome, Holding, Reserving, PreCommit, Committed, Finishing,
         Recovering
    <2>5. JournalInv'
      BY <1>1, <2>4, JournalFrame
      DEF LockForRecovery, TakeLock, Finish, Goto, Unlocked, records, age, disk, locals, history,
         budget, IInv, TypeOK, LocalsOK, Journaled, Committed
    <2>6. CommitInv'
      BY <1>1, <2>4, CommitFrame
      DEF LockForRecovery, TakeLock, Finish, Goto, Unlocked, records, age, disk, locals, history,
         budget, IInv, TypeOK, LocalsOK, PreCommit, Committed, RecordsOK
    <2>7. AppliedInv'
      BY <1>1, <2>4, AppliedFrame
      DEF LockForRecovery, TakeLock, Finish, Goto, Unlocked, records, age, disk, locals, history,
         budget, IInv, TypeOK, LocalsOK, Applied, RecordsOK
    <2>8. ProgressInv'
      BY <1>1, <2>4, ProgressFrame
      DEF LockForRecovery, TakeLock, Finish, Goto, Unlocked, records, age, disk, locals, history,
         budget, IInv, TypeOK, LocalsOK
    <2>. QED BY <2>1, <2>2, <2>3, <2>4, <2>5, <2>6, <2>7, <2>8 DEF IInv, TypeOK
  <1>2. CASE RecoverCheck(a)
    <2>1. LocalsOK'
      BY <1>2, FinishLocals, ContinueLocals
      DEF RecoverCheck, RecoveryRefused, IInv, TypeOK, locals, Label, Lockless, Holding, Reserving,
         PreCommit, Committed, Finishing, Recovering
    <2>2. RecordsOK'
      BY <1>2, PrunedTypes, ReceiptTypes
      DEF RecoverCheck, RecoveryRefused, Finish, Continue, Goto, Unlocked, records, age, disk,
         locals, history, budget, IInv, TypeOK, RecordsOK, LocalsOK
    <2>3. DiskOK' /\ HistoryOK'
      BY <1>2, ConstantAssumption
      DEF RecoverCheck, RecoveryRefused, Finish, Continue, Goto, Unlocked, records, age, disk,
         locals, history, budget, IInv, TypeOK, DiskOK, HistoryOK
    <2>4. ControlInv' /\ Others(a)
      BY <1>2, ConstantAssumption
      DEF RecoverCheck, RecoveryRefused, Finish, Continue, Goto, Unlocked, records, age, disk,
         locals, history, budget, IInv, TypeOK, LocalsOK, ControlInv, Targets, Outcomes, LockHeld,
         LockOf, Others, ApplicationOutcome, RecoveryOutcome, Holding, Reserving, PreCommit,
         Committed, Finishing, Recovering
    <2>5. JournalInv'
      <3>1. CASE Finish(a)
        BY <1>2, <2>4, <3>1, JournalFrame DEF RecoverCheck, Finish, Goto, records, history, Journaled, Committed, IInv, TypeOK, LocalsOK
      <3>2. CASE ~Finish(a)
        <4>1. /\ target[a] \in Preview /\ HasJournal(target[a]) /\ journal' = journal
              /\ pc'[a] = "recoverRollback" => journal[target[a]].state # "CleanupPending"
              /\ pc'[a] \in {"recoverRollback", "recoverReceipt"} /\ target' = target
          BY <1>2, <3>2, ConstantAssumption
          DEF RecoverCheck, RecoveryRefused, Continue, Goto, locals, IInv, TypeOK, LocalsOK, ControlInv, Targets
        <4>. QED BY <1>2, <2>4, <4>1, JournalOwner
          DEF RecoverCheck, history, HasJournal, Holding, Recovering, Journaled, Committed, IInv, JournalInv, StagedBefore
      <3>. QED BY <3>1, <3>2
    <2>6. CommitInv'
      <3>1. \A p \in Preview : preview'[p] = "unreserved" => preview[p] = "unreserved"
        BY <1>2, PrunedTypes DEF RecoverCheck, records, IInv, TypeOK
      <3>2. pc'[a] \in {"recoverRollback", "recoverReceipt", "idle"}
        BY <1>2 DEF RecoverCheck, Continue, Finish, Goto, IInv, TypeOK, LocalsOK
      <3>. QED BY <1>2, <2>4, <3>1, <3>2, CommitFrame DEF RecoverCheck, history, PreCommit, Committed
    <2>7. AppliedInv'
      <3>1. \A p \in Preview : Applied(p)' => Applied(p)
        BY <1>2, PrunedTypes DEF RecoverCheck, Applied, records, IInv, TypeOK
      <3>2. pc'[a] \in {"recoverRollback", "recoverReceipt", "idle"}
        BY <1>2 DEF RecoverCheck, Continue, Finish, Goto, IInv, TypeOK, LocalsOK
      <3>. QED BY <1>2, <2>4, <3>1, <3>2, AppliedFrame DEF RecoverCheck, records, history
    <2>8. ProgressInv'
      BY <1>2, <2>4, ProgressFrame
      DEF RecoverCheck, RecoveryRefused, Finish, Continue, Goto, Unlocked, records, age, disk,
         locals, history, budget, IInv, TypeOK, LocalsOK
    <2>. QED BY <2>1, <2>2, <2>3, <2>4, <2>5, <2>6, <2>7, <2>8 DEF IInv, TypeOK
  <1>3. CASE RecoverRollback(a)
    <2>1. LocalsOK'
      <3>1. CASE Continue(a, "recoverReceipt")
        BY <3>1, ContinueLocals DEF IInv, TypeOK, Label, Holding, Committed, Recovering
      <3>2. CASE Finish(a)
        BY <3>2, FinishLocals DEF IInv, TypeOK, Label, Holding, Committed
      <3>3. CASE /\ left' = [left EXCEPT ![a] = Proven(a)]
                 /\ Goto(a, "recoverUndo")
                 /\ UNCHANGED <<lock, target, outcome, seen, supplied>>
        <4>1. Proven(a) \in 0..Ops
          BY <1>3, ProgressTypes DEF RecoverRollback, Proven, IInv, TypeOK, DiskOK, ControlInv, Targets
        <4>. QED BY <3>3, <4>1
          DEF Goto, IInv, TypeOK, LocalsOK, Label, Holding, Committed, Recovering
      <3>. QED BY <1>3, <3>1, <3>2, <3>3 DEF RecoverRollback, RollbackFrom
    <2>2. RecordsOK'
      BY <1>3
      DEF RecoverRollback, RollbackFrom, Finish, NothingToUndo, Continue, Undoable, Goto, Fault,
         Unlocked, Disk, records, age, disk, locals, history, budget, IInv, TypeOK, RecordsOK,
         LocalsOK
    <2>3. DiskOK' /\ HistoryOK'
      BY <1>3, ConstantAssumption
      DEF RecoverRollback, RollbackFrom, Finish, NothingToUndo, Continue, Undoable, Goto, Fault,
         Unlocked, Disk, records, age, disk, locals, history, budget, IInv, TypeOK, DiskOK,
         HistoryOK
    <2>4. ControlInv' /\ Others(a)
      BY <1>3, ConstantAssumption
      DEF RecoverRollback, RollbackFrom, Finish, NothingToUndo, Continue, Undoable, Goto, Fault,
         Unlocked, Disk, records, age, disk, locals, history, budget, IInv, TypeOK, LocalsOK,
         ControlInv, Targets, Outcomes, LockHeld, LockOf, Others, ApplicationOutcome,
         RecoveryOutcome, Holding, Reserving, PreCommit, Committed, Finishing, Recovering
    <2>5. JournalInv'
      <3>1. target[a] \in Preview BY <1>3 DEF RecoverRollback, IInv, ControlInv, Targets
      <3>2. pc'[a] = "recoverUndo" => journal[target[a]].state \in {"Committing", "RecoveryRequired"}
        <4>1. ASSUME Undoable(a) PROVE target[a] \in committed
          BY <3>1, <4>1 DEF Undoable, Proven, IInv, ProgressInv, Untouched
        <4>2. pc'[a] = "recoverUndo" => Undoable(a)
          BY <1>3 DEF RecoverRollback, RollbackFrom, Continue, Finish, Goto, IInv, TypeOK, LocalsOK
        <4>3. journal[target[a]].state \in JournalState \ {"none", "CleanupPending"}
          BY <1>3, <3>1 DEF RecoverRollback, Journal, IInv, TypeOK, RecordsOK, JournalInv, RecoverOpen
        <4>. QED BY <3>1, <4>1, <4>2, <4>3 DEF JournalState, IInv, JournalInv, StagedBefore
      <3>3. /\ pc'[a] \in {"recoverUndo", "recoverReceipt", "idle"}
            /\ target'[a] = target[a] \/ pc'[a] = "idle"
        BY <1>3 DEF RecoverRollback, RollbackFrom, Continue, Finish, Goto, locals, IInv, TypeOK, LocalsOK
      <3>4. journal' = journal /\ committed' = committed /\ pc[a] \in Holding
        BY <1>3 DEF RecoverRollback, records, history, Holding, Recovering
      <3>. QED BY <2>4, <3>1, <3>2, <3>3, <3>4, JournalOwner
        DEF HasJournal, Journaled, Committed, IInv, JournalInv, StagedBefore
    <2>6. CommitInv'
      BY <1>3, <2>4, CommitFrame
      DEF RecoverRollback, RollbackFrom, Finish, NothingToUndo, Continue, Undoable, Goto, Fault,
         Unlocked, Disk, records, age, disk, locals, history, budget, IInv, TypeOK, LocalsOK,
         PreCommit, Committed, RecordsOK
    <2>7. AppliedInv'
      BY <1>3, <2>4, AppliedFrame
      DEF RecoverRollback, RollbackFrom, Finish, NothingToUndo, Continue, Undoable, Goto, Fault,
         Unlocked, Disk, records, age, disk, locals, history, budget, IInv, TypeOK, LocalsOK,
         Applied, RecordsOK
    <2>8. ProgressInv'
      BY <1>3, <2>4, ProgressFrame
      DEF RecoverRollback, RollbackFrom, Finish, NothingToUndo, Continue, Undoable, Goto, Fault,
         Unlocked, Disk, records, age, disk, locals, history, budget, IInv, TypeOK, LocalsOK
    <2>. QED BY <2>1, <2>2, <2>3, <2>4, <2>5, <2>6, <2>7, <2>8 DEF IInv, TypeOK
  <1>4. CASE RecoverUndo(a)
    <2>1. LocalsOK'
      <3>1. CASE Continue(a, "recoverReceipt")
        BY <3>1, ContinueLocals DEF IInv, TypeOK, Label, Holding, Committed, Recovering
      <3>2. CASE Finish(a)
        BY <3>2, FinishLocals DEF IInv, TypeOK, Label, Holding, Committed
      <3>3. CASE /\ left[a] > 0 /\ left' = [left EXCEPT ![a] = left[a] - 1]
                 /\ UNCHANGED <<pc, lock, target, outcome, seen, supplied>>
        <4>1. left[a] - 1 \in 0..Ops BY <3>3, ConstantAssumption DEF IInv, TypeOK, LocalsOK
        <4>. QED BY <3>3, <4>1 DEF IInv, TypeOK, LocalsOK
      <3>. QED BY <1>4, <3>1, <3>2, <3>3 DEF RecoverUndo, UndoStep
    <2>2. RecordsOK'
      BY <1>4
      DEF RecoverUndo, UndoStep, Finish, Disk, Write, Continue, Fault, Goto, Unlocked, records, age,
         locals, history, budget, IInv, TypeOK, RecordsOK, LocalsOK
    <2>3. DiskOK' /\ HistoryOK'
      <3>1. target[a] \in Preview /\ left[a] \in 0..Ops
        BY <1>4 DEF RecoverUndo, IInv, TypeOK, LocalsOK, ControlInv, Targets
      <3>2. left[a] > 0 => At(target[a], left[a] - 1) \in Manifest
        BY <3>1, AtTypes, ConstantAssumption
      <3>3. fs' \in [Workspace -> Manifest]
        BY <1>4, <3>1, <3>2 DEF RecoverUndo, UndoStep, Write, IInv, TypeOK, DiskOK
      <3>4. faults' \in 0..MaxFaults /\ crashes' = crashes /\ writes' = writes
        BY <1>4, ConstantAssumption DEF RecoverUndo, UndoStep, Fault, budget, IInv, TypeOK, HistoryOK
      <3>. QED BY <1>4, <3>3, <3>4 DEF RecoverUndo, history, IInv, TypeOK, DiskOK, HistoryOK
    <2>4. ControlInv' /\ Others(a)
      BY <1>4, ConstantAssumption
      DEF RecoverUndo, UndoStep, Finish, Disk, Write, Continue, Fault, Goto, Unlocked, records, age,
         locals, history, budget, IInv, TypeOK, LocalsOK, ControlInv, Targets, Outcomes, LockHeld,
         LockOf, Others, ApplicationOutcome, RecoveryOutcome, Holding, Reserving, PreCommit,
         Committed, Finishing, Recovering
    <2>5. JournalInv'
      BY <1>4, <2>4, JournalFrame
      DEF RecoverUndo, UndoStep, Finish, Disk, Write, Continue, Fault, Goto, Unlocked, records, age,
         locals, history, budget, IInv, TypeOK, LocalsOK, Journaled, Committed
    <2>6. CommitInv'
      BY <1>4, <2>4, CommitFrame
      DEF RecoverUndo, UndoStep, Finish, Disk, Write, Continue, Fault, Goto, Unlocked, records, age,
         locals, history, budget, IInv, TypeOK, LocalsOK, PreCommit, Committed, RecordsOK
    <2>7. AppliedInv'
      BY <1>4, <2>4, AppliedFrame
      DEF RecoverUndo, UndoStep, Finish, Disk, Write, Continue, Fault, Goto, Unlocked, records, age,
         locals, history, budget, IInv, TypeOK, LocalsOK, Applied, RecordsOK
    <2>8. ProgressInv'
      BY <1>4, <2>4, ProgressFrame
      DEF RecoverUndo, UndoStep, Finish, Disk, Write, Continue, Fault, Goto, Unlocked, records, age,
         locals, history, budget, IInv, TypeOK, LocalsOK
    <2>. QED BY <2>1, <2>2, <2>3, <2>4, <2>5, <2>6, <2>7, <2>8 DEF IInv, TypeOK
  <1>5. CASE RecoverReceipt(a)
    <2>1. LocalsOK'
      BY <1>5, FinishLocals, ContinueLocals
      DEF RecoverReceipt, IInv, TypeOK, locals, Label, Lockless, Holding, Reserving, PreCommit,
         Committed, Finishing, Recovering
    <2>2. RecordsOK'
      <3>1. [outcome |-> outcome[a], linked |-> HasReceipt(target[a])] \in RecoveryReceipt
        BY <1>5, ReceiptTypes DEF RecoverReceipt, HasReceipt, IInv, ControlInv, Outcomes, Recovering
      <3>. DEFINE r == [outcome |-> outcome[a], linked |-> HasReceipt(target[a])]
      <3>2. [PrunedRecovery EXCEPT ![target[a]][r] = @ + 1] \in [Preview -> [RecoveryReceipt -> Nat]]
        <4>1. target[a] \in Preview BY <1>5 DEF RecoverReceipt, IInv, ControlInv, Targets
        <4>2. PrunedRecovery \in [Preview -> [RecoveryReceipt -> Nat]] BY PrunedTypes DEF IInv, TypeOK
        <4>3. r \in RecoveryReceipt BY <3>1
        <4>. HIDE DEF r
        <4>. QED BY <4>1, <4>2, <4>3, RecoveryCounted
      <3>3. recovery' \in [Preview -> [RecoveryReceipt -> Nat]]
        BY <1>5, <3>2, PrunedTypes DEF RecoverReceipt, IInv, TypeOK
      <3>. QED BY <1>5, <3>3, PrunedTypes DEF RecoverReceipt, IInv, TypeOK, RecordsOK
    <2>3. DiskOK' /\ HistoryOK'
      BY <1>5, ConstantAssumption
      DEF RecoverReceipt, Continue, Finish, Goto, Unlocked, disk, locals, history, budget, IInv,
         TypeOK, DiskOK, HistoryOK
    <2>4. ControlInv' /\ Others(a)
      BY <1>5, ConstantAssumption
      DEF RecoverReceipt, Continue, Finish, Goto, Unlocked, disk, locals, history, budget, IInv,
         TypeOK, LocalsOK, ControlInv, Targets, Outcomes, LockHeld, LockOf, Others,
         ApplicationOutcome, RecoveryOutcome, Holding, Reserving, PreCommit, Committed, Finishing,
         Recovering
    <2>5. JournalInv'
      BY <1>5, <2>4, JournalFrame
      DEF RecoverReceipt, Continue, Finish, Goto, Unlocked, disk, locals, history, budget, IInv,
         TypeOK, LocalsOK, Journaled, Committed
    <2>6. CommitInv'
      <3>1. committed' = committed /\ pc[a] = "recoverReceipt" /\ target'[a] \in {target[a], NoPreview}
        BY <1>5 DEF RecoverReceipt, Continue, Finish, history, locals, IInv, TypeOK, LocalsOK
      <3>2. pc'[a] \in {"recoverRetire", "idle"}
        BY <1>5 DEF RecoverReceipt, Continue, Finish, Goto, IInv, TypeOK, LocalsOK
      <3>3. \A p \in Preview : preview'[p] = "unreserved" => preview[p] = "unreserved"
        BY <1>5, PrunedTypes DEF RecoverReceipt, IInv, TypeOK
      <3>4. pc'[a] \notin PreCommit \cup Committed \cup {"stageFailed"}
        BY <3>2 DEF PreCommit, Committed
      <3>. QED BY <2>4, <3>1, <3>3, <3>4, CommitFrame
    <2>7. AppliedInv'
      <3>1. \A p \in Preview : Applied(p)' => Applied(p)
        BY <1>5, PrunedTypes DEF RecoverReceipt, Applied, records, IInv, TypeOK
      <3>2. pc'[a] \in {"recoverRetire", "idle"}
        BY <1>5 DEF RecoverReceipt, Continue, Finish, Goto, IInv, TypeOK, LocalsOK
      <3>. QED BY <1>5, <2>4, <3>1, <3>2, AppliedFrame DEF RecoverReceipt, records, history
    <2>8. ProgressInv'
      BY <1>5, <2>4, ProgressFrame
      DEF RecoverReceipt, Continue, Finish, Goto, Unlocked, disk, locals, history, budget, IInv,
         TypeOK, LocalsOK
    <2>. QED BY <2>1, <2>2, <2>3, <2>4, <2>5, <2>6, <2>7, <2>8 DEF IInv, TypeOK
  <1>6. CASE RecoverRetire(a)
    <2>1. LocalsOK'
      BY <1>6, ContinueLocals
      DEF RecoverRetire, IInv, TypeOK, locals, Label, Lockless, Holding, Reserving, PreCommit,
         Committed, Finishing, Recovering
    <2>2. RecordsOK'
      BY <1>6
      DEF RecoverRetire, Continue, Goto, age, disk, locals, history, budget, IInv, TypeOK, RecordsOK
    <2>3. DiskOK' /\ HistoryOK'
      BY <1>6, ConstantAssumption
      DEF RecoverRetire, Continue, Goto, age, disk, locals, history, budget, IInv, TypeOK, DiskOK,
         HistoryOK
    <2>4. ControlInv' /\ Others(a)
      BY <1>6, ConstantAssumption
      DEF RecoverRetire, Continue, Goto, age, disk, locals, history, budget, IInv, TypeOK, LocalsOK,
         ControlInv, Targets, Outcomes, LockHeld, LockOf, Others, ApplicationOutcome,
         RecoveryOutcome, Holding, Reserving, PreCommit, Committed, Finishing, Recovering
    <2>5. JournalInv'
      BY <1>6, <2>4, JournalFrame
      DEF RecoverRetire, Continue, Goto, age, disk, locals, history, budget, IInv, TypeOK, LocalsOK,
         Journaled, Committed
    <2>6. CommitInv'
      BY <1>6, <2>4, CommitFrame
      DEF RecoverRetire, Continue, Goto, age, disk, locals, history, budget, IInv, TypeOK, LocalsOK,
         PreCommit, Committed, RecordsOK
    <2>7. AppliedInv'
      BY <1>6, <2>4, AppliedFrame
      DEF RecoverRetire, Continue, Goto, age, disk, locals, history, budget, IInv, TypeOK, LocalsOK,
         Applied, RecordsOK
    <2>8. ProgressInv'
      BY <1>6, <2>4, ProgressFrame
      DEF RecoverRetire, Continue, Goto, age, disk, locals, history, budget, IInv, TypeOK, LocalsOK
    <2>. QED BY <2>1, <2>2, <2>3, <2>4, <2>5, <2>6, <2>7, <2>8 DEF IInv, TypeOK
  <1>7. CASE RecoverClean(a)
    <2>1. LocalsOK'
      BY <1>7, FinishLocals, ContinueLocals
      DEF RecoverClean, ArtifactsRemoved, ArtifactsKept, Fault, IInv, TypeOK, locals, Label,
         Lockless, Holding, Reserving, PreCommit, Committed, Finishing, Recovering
    <2>2. RecordsOK'
      BY <1>7
      DEF RecoverClean, ArtifactsRemoved, Continue, ArtifactsKept, Finish, Goto, Fault, Unlocked,
         records, age, locals, history, budget, IInv, TypeOK, RecordsOK, LocalsOK
    <2>3. DiskOK' /\ HistoryOK'
      BY <1>7, ArtifactsTypes
      DEF RecoverClean, Continue, Finish, Goto, Unlocked, records, age, locals, history, budget,
         IInv, TypeOK, DiskOK, HistoryOK, ControlInv, Targets
    <2>4. ControlInv' /\ Others(a)
      BY <1>7, ConstantAssumption
      DEF RecoverClean, ArtifactsRemoved, Continue, ArtifactsKept, Finish, Goto, Fault, Unlocked,
         records, age, locals, history, budget, IInv, TypeOK, LocalsOK, ControlInv, Targets,
         Outcomes, LockHeld, LockOf, Others, ApplicationOutcome, RecoveryOutcome, Holding,
         Reserving, PreCommit, Committed, Finishing, Recovering
    <2>5. JournalInv'
      BY <1>7, <2>4, JournalFrame
      DEF RecoverClean, ArtifactsRemoved, Continue, ArtifactsKept, Finish, Goto, Fault, Unlocked,
         records, age, locals, history, budget, IInv, TypeOK, LocalsOK, Journaled, Committed
    <2>6. CommitInv'
      BY <1>7, <2>4, CommitFrame
      DEF RecoverClean, ArtifactsRemoved, Continue, ArtifactsKept, Finish, Goto, Fault, Unlocked,
         records, age, locals, history, budget, IInv, TypeOK, LocalsOK, PreCommit, Committed,
         RecordsOK
    <2>7. AppliedInv'
      BY <1>7, <2>4, AppliedFrame
      DEF RecoverClean, ArtifactsRemoved, Continue, ArtifactsKept, Finish, Goto, Fault, Unlocked,
         records, age, locals, history, budget, IInv, TypeOK, LocalsOK, Applied, RecordsOK
    <2>8. ProgressInv'
      BY <1>7, <2>4, ProgressFrame, ArtifactsTypes
      DEF RecoverClean, Continue, Finish, Goto, Unlocked, records, age, locals, history, budget,
         IInv, TypeOK, LocalsOK, ControlInv, Targets, DiskOK
    <2>. QED BY <2>1, <2>2, <2>3, <2>4, <2>5, <2>6, <2>7, <2>8 DEF IInv, TypeOK
  <1>8. CASE RecoverRemove(a)
    <2>1. LocalsOK'
      BY <1>8, FinishLocals
      DEF RecoverRemove, IInv, TypeOK, Label, Lockless, Holding, Reserving, PreCommit, Committed,
         Finishing, Recovering
    <2>2. RecordsOK'
      BY <1>8, JournalTypes, NullTypes
      DEF RecoverRemove, Finish, Goto, Unlocked, age, disk, history, budget, IInv, TypeOK,
         RecordsOK, JournalState, LocalsOK
    <2>3. DiskOK' /\ HistoryOK'
      BY <1>8, ConstantAssumption
      DEF RecoverRemove, Finish, Goto, Unlocked, age, disk, history, budget, IInv, TypeOK, DiskOK,
         HistoryOK
    <2>4. ControlInv' /\ Others(a)
      BY <1>8, ConstantAssumption
      DEF RecoverRemove, Finish, Goto, Unlocked, age, disk, history, budget, IInv, TypeOK, LocalsOK,
         ControlInv, Targets, Outcomes, LockHeld, LockOf, Others, ApplicationOutcome,
         RecoveryOutcome, Holding, Reserving, PreCommit, Committed, Finishing, Recovering
    <2>5. JournalInv'
      <3>1. target[a] \in Preview BY <1>8 DEF RecoverRemove, IInv, ControlInv, Targets
      <3>2. /\ \A p \in Preview \ {target[a]} : journal'[p] = journal[p]
            /\ journal'[target[a]].state \in {journal[target[a]].state, "none"}
        BY <1>8, <3>1 DEF RecoverRemove, NoJournal, IInv, TypeOK, RecordsOK
      <3>3. pc'[a] \in {"idle"} /\ (target'[a] = target[a] \/ pc'[a] = "idle")
        BY <1>8 DEF RecoverRemove, Finish, Goto, locals, IInv, TypeOK, LocalsOK
      <3>4. committed' = committed /\ pc[a] \in Holding
        BY <1>8 DEF RecoverRemove, history, Holding, Recovering
      <3>5. pc'[a] \notin Journaled \cup {"journal", "recoverRollback", "recoverUndo"}
        BY <3>3 DEF Journaled, Committed
      <3>. QED BY <2>4, <3>1, <3>2, <3>3, <3>4, <3>5, JournalRemoved
    <2>6. CommitInv'
      BY <1>8, <2>4, CommitFrame
      DEF RecoverRemove, Finish, Goto, Unlocked, age, disk, history, budget, IInv, TypeOK, LocalsOK,
         PreCommit, Committed, RecordsOK
    <2>7. AppliedInv'
      BY <1>8, <2>4, AppliedFrame
      DEF RecoverRemove, Finish, Goto, history, Applied, NoJournal, IInv, TypeOK, LocalsOK,
         RecordsOK
    <2>8. ProgressInv'
      BY <1>8, <2>4, ProgressFrame
      DEF RecoverRemove, Finish, Goto, Unlocked, age, disk, history, budget, IInv, TypeOK, LocalsOK
    <2>. QED BY <2>1, <2>2, <2>3, <2>4, <2>5, <2>6, <2>7, <2>8 DEF IInv, TypeOK
  <1>. QED BY <1>1, <1>2, <1>3, <1>4, <1>5, <1>6, <1>7, <1>8 DEF RecoverStep

\* A crash ends the command wherever it is.
LEMMA CrashKeeps ==
    ASSUME IInv, NEW a \in Proc, Crash(a)
    PROVE  IInv'
  <1>1. LocalsOK'
    BY FinishLocals DEF Crash, IInv, TypeOK
  <1>2. RecordsOK'
    BY DEF Crash, records, age, IInv, TypeOK, RecordsOK
  <1>3. /\ artifacts' \in [Preview -> {"none", "unmarked", "marked"}]
        /\ progress' \in [Preview -> Progress]
        /\ \A p \in Preview : progress'[p].proven \in {progress[p].proven, 0}
    <2>1. progress' = progress \/ progress' = [progress EXCEPT ![target[a]] = NoProgress]
      BY DEF Crash
    <2>2. progress' \in [Preview -> Progress] BY <2>1, NullTypes DEF IInv, TypeOK, DiskOK
    <2>3. \A p \in Preview : progress'[p].proven \in {progress[p].proven, 0}
      BY <2>1 DEF NoProgress, IInv, TypeOK, DiskOK
    <2>. QED BY <2>2, <2>3 DEF Crash, IInv, TypeOK, DiskOK
  <1>4. DiskOK' /\ HistoryOK'
    BY <1>3, ConstantAssumption DEF Crash, history, IInv, TypeOK, DiskOK, HistoryOK
  <1>5. pc'[a] = "idle" /\ committed' = committed
    BY DEF Crash, Finish, Goto, history, IInv, TypeOK, LocalsOK
  <1>6. ControlInv' /\ Others(a)
    BY ConstantAssumption
    DEF Crash, Finish, Goto, Unlocked, Others, IInv, TypeOK, LocalsOK, ControlInv, Targets, Outcomes, LockHeld, LockOf,
        Holding, Reserving, PreCommit, Committed, Finishing, Recovering
  <1>7. JournalInv'
    BY <1>5, <1>6, JournalFrame DEF Crash, records, Journaled, Committed
  <1>8. CommitInv'
    BY <1>5, <1>6, CommitFrame DEF Crash, records, PreCommit, Committed
  <1>9. AppliedInv'
    BY <1>5, <1>6, AppliedFrame DEF Crash, records, Applied
  <1>10. ProgressInv'
    BY <1>3, <1>5, <1>6, ProgressFrame
  <1>. QED BY <1>1, <1>2, <1>4, <1>6, <1>7, <1>8, <1>9, <1>10 DEF IInv, TypeOK

\* A command that starts has no lock yet, or that of a discard.
LEMMA CommandKeeps ==
    ASSUME IInv, NEW a \in Proc, NEW p \in Preview, Command(a, p)
    PROVE  IInv'
  <1>1. PICK l \in {"checkReceipt", "discardRemove", "recoverWait"} :
            pc[a] = "idle" /\ pc' = [pc EXCEPT ![a] = l] /\ target' = [target EXCEPT ![a] = p]
    BY DEF Command, StartApply, DiscardRead, StartRecover, Begin, Goto
  <1>2. /\ UNCHANGED <<records, age, disk, history, budget, seen, left>>
        /\ \/ outcome' = outcome
           \/ l = "recoverWait" /\ \E o \in RecoveryOutcome : outcome' = [outcome EXCEPT ![a] = o]
        /\ l = "recoverWait" => \E o \in RecoveryOutcome : outcome' = [outcome EXCEPT ![a] = o]
    BY <1>1 DEF Command, StartApply, DiscardRead, StartRecover, Begin, Goto, IInv, TypeOK, LocalsOK
  <1>3. supplied' = supplied \/ supplied' = [supplied EXCEPT ![a] = journal[p].digest]
    BY DEF Command, StartApply, DiscardRead, StartRecover
  <1>4. \/ lock' = lock
        \/ lock[WorkspaceOf[p]] = NoProc /\ lock' = [lock EXCEPT ![WorkspaceOf[p]] = a]
    <2>1. CASE StartApply(a, p) BY <2>1 DEF StartApply
    <2>2. CASE DiscardRead(a, p) BY <2>2 DEF DiscardRead
    <2>3. CASE \E o \in RecoveryOutcome : StartRecover(a, p, o) BY <2>3 DEF StartRecover
    <2>. QED BY <2>1, <2>2, <2>3 DEF Command
  <1>5. LocalsOK'
    <2>1. journal[p].digest \in Digest BY DEF IInv, TypeOK, RecordsOK, Journal
    <2>2. supplied' \in [Proc -> Digest] BY <1>3, <2>1 DEF IInv, TypeOK, LocalsOK
    <2>3. lock' \in [Workspace -> Proc \cup {NoProc}] BY <1>4 DEF IInv, TypeOK, LocalsOK
    <2>4. outcome' \in [Proc -> ApplicationOutcome \cup RecoveryOutcome \cup {"none"}]
      BY <1>2 DEF IInv, TypeOK, LocalsOK
    <2>5. pc' \in [Proc -> Label] BY <1>1 DEF IInv, TypeOK, LocalsOK, Label, Lockless
    <2>. QED BY <1>1, <1>2, <2>2, <2>3, <2>4, <2>5 DEF IInv, TypeOK, LocalsOK
  <1>6. RecordsOK' /\ DiskOK' /\ HistoryOK'
    BY <1>2 DEF records, age, disk, history, budget, IInv, TypeOK, RecordsOK, DiskOK, HistoryOK
  <1>7. pc'[a] = l /\ committed' = committed /\ journal' = journal /\ preview' = preview
          /\ receipt' = receipt /\ progress' = progress
    BY <1>1, <1>2 DEF records, disk, history, IInv, TypeOK, LocalsOK
  <1>8. Others(a)
    BY <1>1, <1>2 DEF Others, IInv, TypeOK, LocalsOK
  <1>9. ControlInv'
    <2>1. Targets' BY <1>1 DEF IInv, TypeOK, LocalsOK, ControlInv, Targets
    <2>2. Outcomes' BY <1>1, <1>2, <1>7, <1>8
      DEF Others, Recovering, IInv, TypeOK, LocalsOK, ControlInv, Outcomes
    <2>3. LockHeld'
      <3>1. pc'[a] \notin Holding
        BY <1>7 DEF Holding, Reserving, PreCommit, Committed, Finishing, Recovering
      <3>2. ASSUME NEW b \in Proc \ {a}, pc[b] \in Holding
            PROVE  lock'[WorkspaceOf[target[b]]] = b
        <4>1. lock[WorkspaceOf[target[b]]] = b /\ b # NoProc
          BY <3>2, ConstantAssumption DEF IInv, ControlInv, LockHeld, LockOf
        <4>2. target[b] \in Preview /\ WorkspaceOf[target[b]] \in Workspace
          BY <3>2, ConstantAssumption
          DEF IInv, ControlInv, Targets, Holding, Reserving, PreCommit, Committed, Finishing,
              Recovering
        <4>. QED BY <1>4, <4>1, <4>2 DEF IInv, TypeOK, LocalsOK
      <3>. QED BY <1>8, <3>1, <3>2 DEF Others, LockHeld, LockOf
    <2>. QED BY <2>1, <2>2, <2>3 DEF ControlInv
  <1>10. JournalInv' BY <1>7, <1>8, JournalFrame DEF Journaled, Committed
  <1>11. CommitInv' BY <1>7, <1>8, CommitFrame DEF PreCommit, Committed
  <1>12. AppliedInv' BY <1>7, <1>8, AppliedFrame DEF Applied
  <1>13. ProgressInv' BY <1>7, <1>8, ProgressFrame
  <1>. QED BY <1>5, <1>6, <1>9, <1>10, <1>11, <1>12, <1>13 DEF IInv, TypeOK

\* Steps that no process's program counter takes: pruning, the sealing done by
\* recovery status, time and editors.
LEMMA QuietKeeps ==
    ASSUME IInv, TypeOK', UNCHANGED <<pc, lock, locals, committed, progress>>,
           \A p \in Preview : preview'[p] = "unreserved" => preview[p] = "unreserved",
           \A p \in Preview : Applied(p)' => Applied(p),
           \A p \in Preview :
              \/ journal'[p] = journal[p]
              \/ /\ lock[WorkspaceOf[p]] = NoProc
                 /\ journal[p].state \in {"Staged", "Committing"}
                 /\ \/ journal'[p].state = "RecoveryRequired"
                    \/ journal[p].state = "Staged" /\ journal'[p].state = "Staged"
    PROVE  IInv'
  <1>. USE DEF IInv, locals
  <1>1. ControlInv' BY DEF ControlInv, Targets, Outcomes, LockHeld, LockOf
  <1>2. \A p \in Preview : HasJournal(p)' <=> HasJournal(p) BY DEF HasJournal
  <1>3. \A a \in Proc : pc[a] \in Holding => target[a] \in Preview /\ journal'[target[a]] = journal[target[a]]
    BY ConstantAssumption
    DEF ControlInv, Targets, LockHeld, LockOf, Holding, Reserving, PreCommit, Committed, Finishing, Recovering
  <1>4. JournalInv'
    <2>1. JournalFree' BY <1>2 DEF JournalInv, JournalFree, Journals
    <2>2. JournalKept'
      BY <1>3 DEF JournalInv, JournalKept, HasJournal, Journaled, Committed, PreCommit, Holding
    <2>3. OneTransaction' BY <1>2 DEF JournalInv, OneTransaction
    <2>4. StagedBefore' BY DEF JournalInv, StagedBefore
    <2>5. Committing' BY <1>3 DEF JournalInv, Committing, Holding
    <2>6. RecoverOpen' BY <1>3 DEF JournalInv, RecoverOpen, Recovering, Holding
    <2>. QED BY <2>1, <2>2, <2>3, <2>4, <2>5, <2>6 DEF JournalInv
  <1>5. CommitInv'
    <2>1. Spent' BY DEF CommitInv, Spent, TypeOK, HistoryOK
    <2>2. Reserved' BY <1>3 DEF CommitInv, Reserved, PreCommit, Holding
    <2>3. Uncommitted' /\ Begun' BY DEF CommitInv, Uncommitted, Begun
    <2>. QED BY <2>1, <2>2, <2>3 DEF CommitInv
  <1>6. AppliedInv' BY DEF AppliedInv, SaysApplied
  <1>7. ProgressInv' BY DEF ProgressInv, Untouched, Unfinished, Proven
  <1>. QED BY <1>1, <1>4, <1>5, <1>6, <1>7

LEMMA StoreKeeps ==
    ASSUME IInv, NEW p \in Preview, Store(p)
    PROVE  IInv'
  <1>1. CASE PruneReceipts(p)
    <2>1. receipt' = receipt \/ receipt' = [receipt EXCEPT ![p] = NoReceipt]
      BY <1>1 DEF PruneReceipts
    <2>2. recovery' \in [Preview -> [RecoveryReceipt -> Nat]]
      <3>1. CASE \E r \in RecoveryReceipt \ Linked(p) :
                    recovery[p][r] > 0 /\ recovery' = [recovery EXCEPT ![p][r] = @ - 1]
        <4>1. PICK r \in RecoveryReceipt :
                  recovery[p][r] > 0 /\ recovery' = [recovery EXCEPT ![p][r] = @ - 1]
          BY <3>1
        <4>2. [recovery[p] EXCEPT ![r] = @ - 1] \in [RecoveryReceipt -> Nat]
          BY <4>1 DEF IInv, TypeOK, RecordsOK
        <4>. QED BY <4>1, <4>2 DEF IInv, TypeOK, RecordsOK
      <3>2. CASE recovery' = [recovery EXCEPT ![p] =
                    [r \in RecoveryReceipt |-> IF r.linked THEN 0 ELSE recovery[p][r]]]
        BY <3>2 DEF IInv, TypeOK, RecordsOK
      <3>. QED BY <1>1, <3>1, <3>2 DEF PruneReceipts
    <2>3. TypeOK'
      BY <1>1, <2>1, <2>2, NullTypes
      DEF PruneReceipts, age, disk, locals, history, budget, IInv, TypeOK, RecordsOK, DiskOK, LocalsOK, HistoryOK
    <2>4. \A q \in Preview : Applied(q)' => Applied(q)
      BY <2>1 DEF Applied, NoReceipt, IInv, TypeOK, RecordsOK
    <2>. QED BY <1>1, <2>3, <2>4, QuietKeeps DEF PruneReceipts, disk, history
  <1>2. CASE ReconcileStatus(p)
    <2>. DEFINE w == WorkspaceOf[p]
                s == IF journal[p].state = "Committing" \/ fs[w] # Base THEN "RecoveryRequired" ELSE "Staged"
    <2>1. [state |-> s, digest |-> Whole(fs[w])] \in Journal
      BY DigestTypes, JournalTypes, ConstantAssumption DEF JournalState, IInv, TypeOK, DiskOK
    <2>2. journal' = [journal EXCEPT ![p] = [state |-> s, digest |-> Whole(fs[w])]]
      BY <1>2 DEF ReconcileStatus
    <2>3. TypeOK'
      <3>. HIDE DEF s
      <3>. QED BY <1>2, <2>1, <2>2
        DEF ReconcileStatus, age, disk, locals, history, budget, IInv, TypeOK, RecordsOK, DiskOK, LocalsOK, HistoryOK
    <2>4. \A q \in Preview \ {p} : journal'[q] = journal[q]
      BY <2>2 DEF IInv, TypeOK, RecordsOK
    <2>5. /\ lock[w] = NoProc /\ journal[p].state \in {"Staged", "Committing"}
          /\ \/ journal'[p].state = "RecoveryRequired"
             \/ journal[p].state = "Staged" /\ journal'[p].state = "Staged"
      BY <1>2, <2>2 DEF ReconcileStatus, IInv, TypeOK, RecordsOK
    <2>. QED BY <1>2, <2>3, <2>4, <2>5, QuietKeeps DEF ReconcileStatus, disk, history, Applied
  <1>3. CASE Expire(p)
    <2>1. TypeOK'
      BY <1>3
      DEF Expire, records, disk, locals, history, budget, IInv, TypeOK, RecordsOK, DiskOK, LocalsOK, HistoryOK
    <2>. QED BY <1>3, <2>1, QuietKeeps DEF Expire, records, disk, history, Applied
  <1>. QED BY <1>1, <1>2, <1>3 DEF Store

LEMMA PruneExpiredKeeps ==
    ASSUME IInv, PruneExpired
    PROVE  IInv'
  <1>1. TypeOK'
    BY PrunedTypes
    DEF PruneExpired, age, disk, locals, history, budget, IInv, TypeOK, RecordsOK, DiskOK, LocalsOK, HistoryOK
  <1>2. \A p \in Preview : /\ preview'[p] = "unreserved" => preview[p] = "unreserved"
                           /\ Applied(p)' => Applied(p)
    BY PrunedTypes DEF PruneExpired, Applied, IInv, TypeOK
  <1>. QED BY <1>1, <1>2, QuietKeeps DEF PruneExpired, disk, history

LEMMA ExternalWriteKeeps ==
    ASSUME IInv, NEW w \in Workspace, ExternalWrite(w)
    PROVE  IInv'
  <1>1. TypeOK'
    BY NullTypes, ConstantAssumption
    DEF ExternalWrite, records, age, locals, history, IInv, TypeOK, RecordsOK, DiskOK, LocalsOK, HistoryOK
  <1>. QED BY <1>1, QuietKeeps DEF ExternalWrite, records, history, Applied

-----------------------------------------------------------------------------
(* The inductive invariant holds *)

LEMMA InitIInv == Init => IInv
  <1>. SUFFICES ASSUME Init PROVE IInv
    OBVIOUS
  <1>. USE DEF Init
  <1>1. TypeOK
    BY NullTypes, ConstantAssumption DEF TypeOK, RecordsOK, DiskOK, LocalsOK, HistoryOK, Label, Lockless
  <1>2. ControlInv
    BY DEF ControlInv, Targets, Outcomes, LockHeld, Holding, Reserving, PreCommit, Committed, Finishing, Recovering
  <1>3. JournalInv
    BY DEF JournalInv, JournalFree, JournalKept, OneTransaction, StagedBefore, Committing, RecoverOpen,
       Journaled, Committed, HasJournal, NoJournal
  <1>4. CommitInv
    BY DEF CommitInv, Spent, Reserved, Uncommitted, Begun, PreCommit, Committed
  <1>5. AppliedInv
    BY DEF AppliedInv, SaysApplied, Applied, NoReceipt
  <1>6. ProgressInv
    BY DEF ProgressInv, Untouched, Unfinished, NoProgress
  <1>. QED BY <1>1, <1>2, <1>3, <1>4, <1>5, <1>6 DEF IInv

LEMMA NextIInv == IInv /\ [Next]_vars => IInv'
  <1>. SUFFICES ASSUME IInv, [Next]_vars PROVE IInv'
    OBVIOUS
  <1>1. ASSUME NEW a \in Proc, Step(a) PROVE IInv'
    BY <1>1, ReserveStepKeeps, StageStepKeeps, CommitStepKeeps, FinishStepKeeps, RecoverStepKeeps DEF Step
  <1>2. CASE UNCHANGED vars
    <2>1. TypeOK'
      BY <1>2
      DEF vars, records, age, disk, locals, history, budget, IInv, TypeOK, RecordsOK, DiskOK, LocalsOK, HistoryOK
    <2>. QED BY <1>2, <2>1, QuietKeeps DEF vars, records, disk, history, Applied
  <1>. QED BY <1>1, <1>2, CrashKeeps, CommandKeeps, StoreKeeps, PruneExpiredKeeps, ExternalWriteKeeps DEF Next

\* The inductive invariant of every behaviour.
THEOREM Invariance == Spec => []IInv
  BY InitIInv, NextIInv, PTL DEF Spec

\* Every record, lock and program counter keeps its type, and no commit counts
\* more effects than its plan has (the loop of commit_operations).
THEOREM TypeCorrect == Spec => []TypeOK
  <1>1. IInv => TypeOK BY DEF IInv
  <1>. QED BY <1>1, Invariance, PTL

\* A Workspace has at most one transaction, whoever crashed in between (the
\* write-stop check of apply_preview, and the Workspace lock).
THEOREM OneTransactionHolds == Spec => []OneTransaction
  <1>1. IInv => OneTransaction BY DEF IInv, JournalInv
  <1>. QED BY <1>1, Invariance, PTL

-----------------------------------------------------------------------------
(* What a step may never do *)

\* Only CommitStart marks a journal as committing.
LEMMA OnlyCommitStartCommits ==
    ASSUME IInv, Next, NEW p \in Preview, journal'[p].state = "Committing", journal[p].state # "Committing"
    PROVE  \E a \in Proc : CommitStart(a) /\ target[a] = p
  <1>. USE DEF IInv, TypeOK, RecordsOK
  <1>1. ASSUME NEW a \in Proc, ReserveStep(a) PROVE journal' = journal
    BY <1>1 DEF ReserveStep, CheckReceipt, ReadPreview, RecheckReceipt, LockForApplication, CheckReceiptLocked,
       ReserveRead, ReserveWrite, Release, records
  <1>2. ASSUME NEW a \in Proc, StageStep(a) PROVE FALSE
    <2>1. CASE WriteJournal(a) BY <2>1 DEF WriteJournal
    <2>2. CASE StageFailed(a) BY <2>2 DEF StageFailed, Journal
    <2>3. CASE RemoveJournal(a) BY <2>3 DEF RemoveJournal, NoJournal
    <2>4. CASE journal' = journal BY <2>4
    <2>. QED BY <1>2, <2>1, <2>2, <2>3, <2>4
      DEF StageStep, Prepare, StageMkdir, StageMark, StageCopy, StageCleanup, records
  <1>3. ASSUME NEW a \in Proc, CommitStep(a) PROVE CommitStart(a) /\ target[a] = p
    BY <1>3 DEF CommitStep, CommitStart, Intent, RecordIntent, Effect, Prove, RecordProof, Inspect, CommitSeal, Rollback, Undo, RolledSeal,
       RecoverySeal, Seal, records
  <1>4. ASSUME NEW a \in Proc, FinishStep(a) PROVE FALSE
    BY <1>4 DEF FinishStep, WriteReceipt, DropPreview, CleanArtifacts, RetirePreview, CleanJournal, ClearRead,
       ClearWrite, PostCommit, SyncRead, SyncWrite, DiscardRemove, NoJournal, records
  <1>5. ASSUME NEW a \in Proc, RecoverStep(a) PROVE FALSE
    BY <1>5 DEF RecoverStep, LockForRecovery, RecoverCheck, RecoverRollback, RecoverUndo, RecoverReceipt,
       RecoverRetire, RecoverClean, RecoverRemove, NoJournal, records
  <1>6. ASSUME NEW a \in Proc, Crash(a) PROVE FALSE
    BY <1>6 DEF Crash, records
  <1>7. ASSUME NEW a \in Proc, NEW q \in Preview, Command(a, q) PROVE FALSE
    BY <1>7 DEF Command, StartApply, DiscardRead, StartRecover, records
  <1>8. ASSUME NEW q \in Preview, Store(q) PROVE FALSE
    BY <1>8 DEF Store, PruneReceipts, ReconcileStatus, Expire, records
  <1>9. CASE PruneExpired BY <1>9 DEF PruneExpired
  <1>10. ASSUME NEW w \in Workspace, ExternalWrite(w) PROVE FALSE
    BY <1>10 DEF ExternalWrite, records
  <1>. QED BY <1>1, <1>2, <1>3, <1>4, <1>5, <1>6, <1>7, <1>8, <1>9, <1>10 DEF Next, Step

\* The operations of a Preview are begun at most once, over any number of
\* Applications, crashes and failed writes (apply_preview, reserve_preview).
THEOREM AtMostOnceHolds == Spec => AtMostOnce
  <1>1. ASSUME IInv, [Next]_vars, NEW p \in Preview,
               journal'[p].state = "Committing", journal[p].state # "Committing"
        PROVE  p \notin committed
    <2>1. CASE Next
      <3>1. PICK a \in Proc : CommitStart(a) /\ target[a] = p
        BY <1>1, <2>1, OnlyCommitStartCommits
      <3>. QED BY <1>1, <3>1 DEF CommitStart, PreCommit, IInv, CommitInv, Uncommitted
    <2>2. CASE UNCHANGED vars
      BY <1>1, <2>2 DEF vars, records
    <2>. QED BY <1>1, <2>1, <2>2
  <1>2. IInv /\ [Next]_vars =>
            \A p \in Preview :
                journal'[p].state = "Committing" /\ journal[p].state # "Committing" => p \notin committed
    BY <1>1
  <1>. QED BY <1>2, Invariance, PTL DEF Spec, AtMostOnce

\* Besides editors, only the effect of a commit and the undo of one effect
\* change the files.
LEMMA WhoWrites ==
    ASSUME Next, fs' # fs
    PROVE  \/ \E a \in Proc : Effect(a) \/ Undo(a) \/ RecoverUndo(a)
           \/ \E w \in Workspace : ExternalWrite(w)
  <1>1. ASSUME NEW a \in Proc, ReserveStep(a) PROVE FALSE
    BY <1>1 DEF ReserveStep, CheckReceipt, ReadPreview, RecheckReceipt, LockForApplication, CheckReceiptLocked,
       ReserveRead, ReserveWrite, Release, disk
  <1>2. ASSUME NEW a \in Proc, StageStep(a) PROVE FALSE
    BY <1>2 DEF StageStep, Prepare, WriteJournal, StageMkdir, StageMark, StageCopy, StageCleanup, StageFailed,
       RemoveJournal, disk
  <1>3. ASSUME NEW a \in Proc, CommitStep(a) PROVE Effect(a) \/ Undo(a)
    BY <1>3 DEF CommitStep, CommitStart, Intent, RecordIntent, Prove, RecordProof, Inspect, CommitSeal, Rollback, RolledSeal, RecoverySeal, disk
  <1>4. ASSUME NEW a \in Proc, FinishStep(a) PROVE FALSE
    BY <1>4 DEF FinishStep, WriteReceipt, DropPreview, CleanArtifacts, RetirePreview, CleanJournal, ClearRead,
       ClearWrite, PostCommit, SyncRead, SyncWrite, DiscardRemove, disk
  <1>5. ASSUME NEW a \in Proc, RecoverStep(a) PROVE RecoverUndo(a)
    BY <1>5 DEF RecoverStep, LockForRecovery, RecoverCheck, RecoverRollback, RecoverReceipt, RecoverRetire,
       RecoverClean, RecoverRemove, disk
  <1>6. ASSUME NEW a \in Proc, Crash(a) PROVE FALSE
    BY <1>6 DEF Crash
  <1>7. ASSUME NEW a \in Proc, NEW q \in Preview, Command(a, q) PROVE FALSE
    BY <1>7 DEF Command, StartApply, DiscardRead, StartRecover, disk
  <1>8. ASSUME NEW q \in Preview, Store(q) PROVE FALSE
    BY <1>8 DEF Store, PruneReceipts, ReconcileStatus, Expire, disk
  <1>9. CASE PruneExpired BY <1>9 DEF PruneExpired, disk
    <1>. QED BY <1>1, <1>2, <1>3, <1>4, <1>5, <1>6, <1>7, <1>8, <1>9 DEF Next, Step

LEMMA OnlyEffectsWrite ==
    ASSUME IInv, Next, fs' # fs, writes' = writes
    PROVE  \E a \in Proc : Effect(a) \/ Undo(a) \/ RecoverUndo(a)
  <1>1. ASSUME NEW w \in Workspace, ExternalWrite(w) PROVE FALSE
    BY <1>1, ConstantAssumption DEF ExternalWrite, IInv, TypeOK, HistoryOK
  <1>. QED BY <1>1, WhoWrites

\* Such a step writes one Workspace, for the Preview whose open journal is the
\* only one there, over a state that the same Preview left behind or Base.
LEMMA EffectsAreCovered ==
    ASSUME IInv, NEW a \in Proc, Effect(a) \/ Undo(a) \/ RecoverUndo(a), fs' # fs
    PROVE  /\ target[a] \in Preview
           /\ journal[target[a]].state \in {"Committing", "RecoveryRequired"}
           /\ \A w \in Workspace : fs'[w] # fs[w] => w = WorkspaceOf[target[a]]
           /\ {fs[WorkspaceOf[target[a]]].by, fs'[WorkspaceOf[target[a]]].by} \subseteq {target[a], NoPreview}
  <1>1. target[a] \in Preview
    BY DEF Effect, Undo, RecoverUndo, IInv, ControlInv, Targets
  <1>2. journal[target[a]].state \in {"Committing", "RecoveryRequired"}
    BY DEF Effect, Undo, RecoverUndo, Committed, IInv, JournalInv, Committing, RecoverOpen
  <1>3. PICK j, k \in Nat : Disk(a) = At(target[a], j) /\ Write(a, At(target[a], k))
    <2>1. CASE Effect(a)
      <3>1. Proven(a) \in 0..Ops
        BY <1>1, ProgressTypes DEF Proven, IInv, TypeOK, DiskOK
      <3>2. Proven(a) \in Nat /\ Proven(a) + 1 \in Nat
        BY <3>1, ConstantAssumption
      <3>. QED BY <2>1, <3>2 DEF Effect, disk
    <2>2. CASE Undo(a) \/ RecoverUndo(a)
      <3>1. left[a] \in Nat BY ConstantAssumption DEF IInv, TypeOK, LocalsOK
      <3>2. left[a] > 0 /\ Disk(a) = At(target[a], left[a]) /\ Write(a, At(target[a], left[a] - 1))
        BY <2>2 DEF Undo, RecoverUndo, UndoStep
      <3>. QED BY <3>1, <3>2
    <2>. QED BY <2>1, <2>2
  <1>4. \A i \in Nat : At(target[a], i).by \in {target[a], NoPreview}
    BY DEF At, Base
  <1>5. WorkspaceOf[target[a]] \in Workspace BY <1>1, ConstantAssumption
  <1>. QED BY <1>1, <1>2, <1>3, <1>4, <1>5 DEF Disk, Write, IInv, TypeOK, DiskOK

\* What lspctl writes to a Workspace is covered by the one journal there, still
\* open to Recovery (apply_preview's Committing record precedes every effect,
\* and no effect follows its sealing).
THEOREM WriteAheadHolds == Spec => WriteAhead
  <1>1. ASSUME IInv, [Next]_vars, NEW w \in Workspace, fs'[w] # fs[w], writes' = writes
        PROVE  \E p \in Preview :
                  /\ Journals(w) = {p}
                  /\ journal[p].state \in {"Committing", "RecoveryRequired"}
                  /\ {fs[w].by, fs'[w].by} \subseteq {p, NoPreview}
    <2>1. Next /\ fs' # fs
      BY <1>1 DEF vars, disk
    <2>2. PICK a \in Proc : Effect(a) \/ Undo(a) \/ RecoverUndo(a)
      BY <1>1, <2>1, OnlyEffectsWrite
    <2>3. /\ target[a] \in Preview /\ w = WorkspaceOf[target[a]]
          /\ journal[target[a]].state \in {"Committing", "RecoveryRequired"}
          /\ {fs[w].by, fs'[w].by} \subseteq {target[a], NoPreview}
      BY <1>1, <2>1, <2>2, EffectsAreCovered
    <2>4. Journals(w) = {target[a]}
      BY <1>1, <2>3 DEF Journals, HasJournal, IInv, JournalInv, OneTransaction
    <2>. QED BY <2>3, <2>4
  <1>2. IInv /\ [Next]_vars =>
            \A w \in Workspace :
                fs'[w] # fs[w] /\ writes' = writes =>
                    \E p \in Preview :
                        /\ Journals(w) = {p}
                        /\ journal[p].state \in {"Committing", "RecoveryRequired"}
                        /\ {fs[w].by, fs'[w].by} \subseteq {p, NoPreview}
    BY <1>1
  <1>. QED BY <1>2, Invariance, PTL DEF Spec, WriteAhead

\* lspctl never undoes what an applied Receipt says (recover_transaction refuses
\* to roll a sealed transaction back, and a sealed one is not written again).
THEOREM AppliedStaysHolds == Spec => AppliedStays
  <1>1. ASSUME IInv, [Next]_vars, NEW p \in Preview, Applied(p), fs[WorkspaceOf[p]].by = p, writes' = writes,
               fs'[WorkspaceOf[p]] # fs[WorkspaceOf[p]]
        PROVE  FALSE
    <2>1. Next /\ fs' # fs
      BY <1>1 DEF vars, disk
    <2>2. PICK a \in Proc : Effect(a) \/ Undo(a) \/ RecoverUndo(a)
      BY <1>1, <2>1, OnlyEffectsWrite
    <2>3. WorkspaceOf[p] \in Workspace /\ p # NoPreview
      BY ConstantAssumption
    <2>4. p = target[a] /\ journal[p].state \in {"Committing", "RecoveryRequired"}
      BY <1>1, <2>1, <2>2, <2>3, EffectsAreCovered
    <2>5. journal[p].state \in {"none", "CleanupPending"}
      BY <1>1 DEF IInv, AppliedInv, SaysApplied
    <2>. QED BY <2>4, <2>5
  <1>2. IInv /\ [Next]_vars =>
            \A p \in Preview :
                Applied(p) /\ fs[WorkspaceOf[p]].by = p /\ writes' = writes =>
                    fs'[WorkspaceOf[p]] = fs[WorkspaceOf[p]]
    BY <1>1
  <1>. QED BY <1>2, Invariance, PTL DEF Spec, AppliedStays

-----------------------------------------------------------------------------
(* The writer of a Workspace *)

\* An open Preview has a journal, so a Workspace has no two of them and the
\* choice in Writer has one outcome.
LEMMA WriterIsOpen ==
    ASSUME OneTransaction, NEW p \in Preview, NEW w \in Workspace, WorkspaceOf[p] = w, Open(p)
    PROVE  Writer[w] = p
  <1>. DEFINE c == CHOOSE q \in Preview : WorkspaceOf[q] = w /\ Open(q)
  <1>1. c \in Preview /\ WorkspaceOf[c] = w /\ Open(c)
    OBVIOUS
  <1>2. HasJournal(c) /\ HasJournal(p) BY <1>1 DEF Open, HasJournal
  <1>3. c = p BY <1>1, <1>2 DEF OneTransaction
  <1>4. Writer[w] = c
    <2>. HIDE DEF c
    <2>1. Writer[w] = IF \E q \in Preview : WorkspaceOf[q] = w /\ Open(q) THEN c ELSE NoPreview
      BY DEF Writer, c
    <2>. QED BY <2>1
  <1>. QED BY <1>3, <1>4

LEMMA NoWriter ==
    ASSUME NEW w \in Workspace, \A p \in Preview : WorkspaceOf[p] = w => ~Open(p)
    PROVE  Writer[w] = NoPreview
  BY DEF Writer

\* The same after a step.
OpenNext(p) == journal'[p].state \in {"Committing", "RecoveryRequired"} /\ p \in committed'

LEMMA WriterIsOpenNext ==
    ASSUME OneTransaction', NEW p \in Preview, NEW w \in Workspace, WorkspaceOf[p] = w, Open(p)'
    PROVE  Writer'[w] = p
  <1>. DEFINE c == CHOOSE q \in Preview : WorkspaceOf[q] = w /\ OpenNext(q)
  <1>1. \A q \in Preview : Open(q)' <=> OpenNext(q) BY DEF Open, OpenNext
  <1>2. c \in Preview /\ WorkspaceOf[c] = w /\ OpenNext(c)
    BY <1>1
  <1>3. \A q \in Preview : WorkspaceOf[q] = w /\ OpenNext(q) => q = p
    BY <1>1 DEF OneTransaction, HasJournal, OpenNext
  <1>4. Writer'[w] = c
    <2>. HIDE DEF c
    <2>1. Writer'[w] = IF \E q \in Preview : WorkspaceOf[q] = w /\ OpenNext(q) THEN c ELSE NoPreview
      BY DEF Writer, c, Open, OpenNext
    <2>. QED BY <1>1, <2>1
  <1>. QED BY <1>2, <1>3, <1>4

LEMMA NoWriterNext ==
    ASSUME NEW w \in Workspace, \A p \in Preview : WorkspaceOf[p] = w => ~Open(p)'
    PROVE  Writer'[w] = NoPreview
  BY DEF Writer

\* What happens to other Workspaces, or to journals that stay as open as they
\* were, does not change the writer.
LEMMA SameWriter ==
    ASSUME OneTransaction, OneTransaction', NEW w \in Workspace,
           \A p \in Preview : WorkspaceOf[p] = w => (Open(p)' <=> Open(p))
    PROVE  Writer'[w] = Writer[w]
  <1>1. CASE \E p \in Preview : WorkspaceOf[p] = w /\ Open(p)
    BY <1>1, WriterIsOpen, WriterIsOpenNext
  <1>2. CASE \A p \in Preview : WorkspaceOf[p] = w => ~Open(p)
    BY <1>2, NoWriter, NoWriterNext
  <1>. QED BY <1>1, <1>2

LEMMA WriterShape ==
    /\ Writer = [w \in Workspace |-> Writer[w]]
    /\ Writer' = [w \in Workspace |-> Writer'[w]]
  BY DEF Writer

-----------------------------------------------------------------------------
(* Which steps open a journal *)

\* Only CommitStart begins a commit; any other step changes at most one journal
\* and opens none.
Closing ==
    /\ committed' = committed
    /\ \/ journal' = journal
       \/ \E p \in Preview :
            /\ \A q \in Preview \ {p} : journal'[q] = journal[q]
            /\ Open(p)' => Open(p)

LEMMA OthersClose ==
    ASSUME IInv, Next
    PROVE  Closing \/ \E a \in Proc : CommitStart(a)
  <1>. USE DEF IInv, TypeOK, RecordsOK
  <1>1. ASSUME NEW a \in Proc, ReserveStep(a) PROVE Closing
    BY <1>1 DEF ReserveStep, CheckReceipt, ReadPreview, RecheckReceipt, LockForApplication, CheckReceiptLocked,
       ReserveRead, ReserveWrite, Release, records, history, Closing
  <1>2. ASSUME NEW a \in Proc, StageStep(a) PROVE Closing
    <2>1. CASE WriteJournal(a)
      <3>1. target[a] \in Preview BY <2>1 DEF WriteJournal, ControlInv, Targets
      <3>. QED BY <2>1, <3>1 DEF WriteJournal, Open, Closing, history
    <2>2. CASE StageFailed(a)
      <3>1. target[a] \in Preview /\ target[a] \notin committed
        BY <2>2 DEF StageFailed, ControlInv, Targets, CommitInv, Uncommitted
      <3>. QED BY <2>2, <3>1 DEF StageFailed, Open, Closing, history
    <2>3. CASE RemoveJournal(a)
      <3>1. target[a] \in Preview BY <2>3 DEF RemoveJournal, ControlInv, Targets
      <3>. QED BY <2>3, <3>1 DEF RemoveJournal, NoJournal, Open, Closing, history
    <2>4. CASE journal' = journal /\ committed' = committed BY <2>4 DEF Closing
    <2>. QED BY <1>2, <2>1, <2>2, <2>3, <2>4
      DEF StageStep, Prepare, StageMkdir, StageMark, StageCopy, StageCleanup, records, history
  <1>3. ASSUME NEW a \in Proc, CommitStep(a) PROVE Closing \/ CommitStart(a)
    <2>1. CASE CommitSeal(a) \/ RolledSeal(a)
      <3>1. target[a] \in Preview BY <2>1 DEF CommitSeal, RolledSeal, ControlInv, Targets
      <3>. QED BY <2>1, <3>1 DEF CommitSeal, RolledSeal, Seal, Open, Closing, history
    <2>2. CASE RecoverySeal(a)
      <3>1. target[a] \in Preview BY <2>2 DEF RecoverySeal, ControlInv, Targets
      <3>2. Open(target[a])
        BY <2>2 DEF RecoverySeal, Open, JournalInv, Committing, CommitInv, Begun, Committed
      <3>. QED BY <2>2, <3>1, <3>2 DEF RecoverySeal, Seal, Closing, history
    <2>3. CASE journal' = journal /\ committed' = committed BY <2>3 DEF Closing
    <2>. QED BY <1>3, <2>1, <2>2, <2>3
      DEF CommitStep, Intent, RecordIntent, Effect, Prove, RecordProof, Inspect, Rollback, Undo, records, history
  <1>4. ASSUME NEW a \in Proc, FinishStep(a) PROVE Closing
    <2>1. CASE CleanJournal(a)
      <3>1. target[a] \in Preview BY <2>1 DEF CleanJournal, ControlInv, Targets
      <3>. QED BY <2>1, <3>1 DEF CleanJournal, NoJournal, Open, Closing, history
    <2>2. CASE journal' = journal /\ committed' = committed BY <2>2 DEF Closing
    <2>. QED BY <1>4, <2>1, <2>2
      DEF FinishStep, WriteReceipt, DropPreview, CleanArtifacts, RetirePreview, ClearRead, ClearWrite, PostCommit,
          SyncRead, SyncWrite, DiscardRemove, records, history
  <1>5. ASSUME NEW a \in Proc, RecoverStep(a) PROVE Closing
    <2>1. CASE RecoverRemove(a)
      <3>1. target[a] \in Preview BY <2>1 DEF RecoverRemove, ControlInv, Targets
      <3>. QED BY <2>1, <3>1 DEF RecoverRemove, NoJournal, Open, Closing, history
    <2>2. CASE journal' = journal /\ committed' = committed BY <2>2 DEF Closing
    <2>. QED BY <1>5, <2>1, <2>2
      DEF RecoverStep, LockForRecovery, RecoverCheck, RecoverRollback, RecoverUndo, RecoverReceipt, RecoverRetire,
          RecoverClean, records, history
  <1>6. ASSUME NEW a \in Proc, Crash(a) PROVE Closing
    BY <1>6 DEF Crash, records, history, Closing
  <1>7. ASSUME NEW a \in Proc, NEW q \in Preview, Command(a, q) PROVE Closing
    BY <1>7 DEF Command, StartApply, DiscardRead, StartRecover, records, history, Closing
  <1>8. ASSUME NEW q \in Preview, Store(q) PROVE Closing
    <2>1. CASE ReconcileStatus(q)
      <3>1. \A r \in Preview \ {q} : journal'[r] = journal[r] BY <2>1 DEF ReconcileStatus
      <3>2. committed' = committed BY <2>1 DEF ReconcileStatus, history
      <3>3. journal[q].state = "Committing" \/ q \notin committed
        BY <2>1 DEF ReconcileStatus, JournalInv, StagedBefore
      <3>. QED BY <3>1, <3>2, <3>3 DEF Open, Closing
    <2>2. CASE journal' = journal /\ committed' = committed BY <2>2 DEF Closing
    <2>. QED BY <1>8, <2>1, <2>2 DEF Store, PruneReceipts, Expire, records, history
  <1>9. CASE PruneExpired BY <1>9 DEF PruneExpired, history, Closing
  <1>10. ASSUME NEW w \in Workspace, ExternalWrite(w) PROVE Closing
    BY <1>10 DEF ExternalWrite, records, history, Closing
  <1>. QED BY <1>1, <1>2, <1>3, <1>4, <1>5, <1>6, <1>7, <1>8, <1>9, <1>10 DEF Next, Step

-----------------------------------------------------------------------------
(* Files that a Preview wrote *)

\* Contents of a Preview are found only after its commit began: they tell a
\* Recovery that undoes them whose they are.
FilesBegun == \A w \in Workspace : fs[w].by # NoPreview => fs[w].by \in committed

\* A write of lspctl is one operation forward or back, along the plan of a
\* Preview that is open.
LEMMA WritesAlongPlan ==
    ASSUME IInv, FilesBegun, NEW a \in Proc, Effect(a) \/ Undo(a) \/ RecoverUndo(a), fs' # fs
    PROVE  /\ target[a] \in Preview /\ Open(target[a])
           /\ \E k \in 0..Ops - 1 :
                 \E change \in {<<k, k + 1>>, <<k + 1, k>>} :
                    /\ fs[WorkspaceOf[target[a]]] = At(target[a], change[1])
                    /\ fs' = [fs EXCEPT ![WorkspaceOf[target[a]]] = At(target[a], change[2])]
           /\ UNCHANGED <<journal, committed>>
  <1>. DEFINE p == target[a]  w == WorkspaceOf[target[a]]
  <1>1. p \in Preview /\ w \in Workspace /\ p # NoPreview
    BY EffectsAreCovered, ConstantAssumption
  <1>2. UNCHANGED <<journal, committed>>
    BY DEF Effect, Undo, RecoverUndo, records, history
  <1>3. CASE Effect(a)
    <2>1. Proven(a) \in 0..Ops - 1
      <3>1. Proven(a) \in 0..Ops BY <1>1, ProgressTypes DEF Proven, IInv, TypeOK, DiskOK
      <3>2. Proven(a) < Ops BY <1>3 DEF Effect, IInv, ProgressInv, Unfinished
      <3>. QED BY <3>1, <3>2, ConstantAssumption
    <2>2. fs[w] = At(p, Proven(a)) /\ fs' = [fs EXCEPT ![w] = At(p, Proven(a) + 1)]
      BY <1>3 DEF Effect, Disk, Write, disk
    <2>3. p \in committed
      BY <1>3 DEF Effect, IInv, CommitInv, Begun, Committed
    <2>. QED BY <1>1, <1>2, <2>1, <2>2, <2>3, EffectsAreCovered DEF Open
  <1>4. CASE Undo(a) \/ RecoverUndo(a)
    <2>1. left[a] \in 0..Ops BY DEF IInv, TypeOK, LocalsOK
    <2>2. left[a] > 0 /\ fs[w] = At(p, left[a]) /\ fs' = [fs EXCEPT ![w] = At(p, left[a] - 1)]
      BY <1>4 DEF Undo, RecoverUndo, UndoStep, Disk, Write
    <2>3. DEFINE k == left[a] - 1
    <2>4. k \in 0..Ops - 1 /\ left[a] = k + 1 BY <2>1, <2>2, ConstantAssumption
    <2>5. p \in committed
      <3>1. fs[w].by = p BY <2>1, <2>2 DEF At
      <3>. QED BY <1>1, <3>1 DEF FilesBegun
    <2>6. \E change \in {<<k, k + 1>>, <<k + 1, k>>} :
              fs[w] = At(p, change[1]) /\ fs' = [fs EXCEPT ![w] = At(p, change[2])]
      <3>. WITNESS <<k + 1, k>> \in {<<k, k + 1>>, <<k + 1, k>>}
      <3>. QED BY <2>2, <2>4
    <2>. QED BY <1>1, <1>2, <2>4, <2>5, <2>6, EffectsAreCovered DEF Open
  <1>. QED BY <1>3, <1>4

LEMMA FilesBegunInit == Init => FilesBegun
  BY DEF Init, FilesBegun, Base

LEMMA FilesBegunNext == IInv /\ FilesBegun /\ [Next]_vars => FilesBegun'
  <1>. SUFFICES ASSUME IInv, FilesBegun, [Next]_vars PROVE FilesBegun'
    OBVIOUS
  <1>1. committed \subseteq committed'
    <2>1. CASE UNCHANGED vars BY <2>1 DEF vars, history
    <2>2. CASE Next BY <2>2, OthersClose DEF Closing, CommitStart
    <2>. QED BY <2>1, <2>2
  <1>2. CASE fs' = fs BY <1>1, <1>2 DEF FilesBegun
  <1>3. CASE fs' # fs
    <2>1. Next BY <1>3 DEF vars, disk
    <2>2. ASSUME NEW a \in Proc, Effect(a) \/ Undo(a) \/ RecoverUndo(a) PROVE FilesBegun'
      <3>1. target[a] \in committed BY <1>3, <2>2, WritesAlongPlan DEF Open
      <3>2. PICK k \in Nat : fs' = [fs EXCEPT ![WorkspaceOf[target[a]]] = At(target[a], k)]
        <4>1. PICK k \in 0..Ops - 1 : \E change \in {<<k, k + 1>>, <<k + 1, k>>} :
                 fs' = [fs EXCEPT ![WorkspaceOf[target[a]]] = At(target[a], change[2])]
          BY <1>3, <2>2, WritesAlongPlan
        <4>2. k \in Nat /\ k + 1 \in Nat BY ConstantAssumption
        <4>. DEFINE m(j) == [fs EXCEPT ![WorkspaceOf[target[a]]] = At(target[a], j)]
        <4>. HIDE DEF m
        <4>3. \E change \in {<<k, k + 1>>, <<k + 1, k>>} : fs' = m(change[2]) BY <4>1 DEF m
        <4>4. fs' = m(k) \/ fs' = m(k + 1) BY <4>3
        <4>. QED BY <4>2, <4>4 DEF m
      <3>3. At(target[a], k).by \in {target[a], NoPreview} BY DEF At, Base
      <3>. QED BY <1>1, <3>1, <3>2, <3>3 DEF FilesBegun, IInv, TypeOK, DiskOK
    <2>3. ASSUME NEW w \in Workspace, ExternalWrite(w) PROVE FilesBegun'
      BY <1>1, <2>3 DEF ExternalWrite, FilesBegun, Base, Foreign, IInv, TypeOK, DiskOK
    <2>. QED BY <1>3, <2>1, <2>2, <2>3, WhoWrites
  <1>. QED BY <1>2, <1>3

THEOREM FilesBegunHolds == Spec => []FilesBegun
  BY FilesBegunInit, FilesBegunNext, Invariance, PTL DEF Spec

-----------------------------------------------------------------------------
(* The refinement *)

\* The names of the abstract specification mean what they mean here.
LEMMA SameContents ==
    /\ Files!Original = Base
    /\ Files!Others = {Base, Foreign}
    /\ \A p, k : Files!Written(p, k) = At(p, k)
  BY DEF Files!Original, Files!Others, Files!Written, Base, Foreign, At

LEMMA InitRefines == Init => Files!Init
  <1>. SUFFICES ASSUME Init PROVE Files!Init
    OBVIOUS
  <1>1. \A w \in Workspace : Writer[w] = NoPreview
    BY NoWriter DEF Init, Open
  <1>2. Writer = [w \in Workspace |-> NoPreview]
    BY <1>1, WriterShape
  <1>. QED BY <1>2, SameContents DEF Init, Files!Init

\* The durable step to Committing begins the period of its Preview.
LEMMA CommitStartRefines ==
    ASSUME IInv, IInv', NEW a \in Proc, CommitStart(a)
    PROVE  Files!Begin(target[a]) /\ target[a] \in Preview
  <1>0. PICK p \in Preview : p = target[a]
    BY DEF CommitStart, IInv, ControlInv, Targets
  <1>. DEFINE w == WorkspaceOf[p]
  <1>1. p \in Preview /\ w \in Workspace
    BY ConstantAssumption
  <1>2. p \notin committed /\ committed' = committed \cup {p} /\ UNCHANGED fs
    BY <1>0 DEF CommitStart, IInv, CommitInv, Uncommitted, PreCommit, disk
  <1>3. HasJournal(p)
    BY <1>0 DEF CommitStart, IInv, JournalInv, JournalKept, Journaled
  <1>4. OneTransaction /\ OneTransaction'
    BY DEF IInv, JournalInv
  <1>5. Writer[w] = NoPreview
    <2>1. ASSUME NEW q \in Preview, WorkspaceOf[q] = w, Open(q) PROVE FALSE
      <3>1. q = p BY <1>1, <1>3, <1>4, <2>1 DEF OneTransaction, HasJournal, Open
      <3>. QED BY <1>2, <2>1, <3>1 DEF Open
    <2>. QED BY <1>1, <2>1, NoWriter
  <1>6. journal'[p].state = "Committing" /\ \A q \in Preview \ {p} : journal'[q] = journal[q]
    BY <1>0 DEF CommitStart, IInv, TypeOK, RecordsOK, Journal
  <1>7. Writer'[w] = p
    <2>1. Open(p)' BY <1>2, <1>6 DEF Open
    <2>. QED BY <1>1, <1>4, <2>1, WriterIsOpenNext
  <1>8. ASSUME NEW v \in Workspace, v # w PROVE Writer'[v] = Writer[v]
    <2>1. \A q \in Preview : WorkspaceOf[q] = v => (Open(q)' <=> Open(q))
      BY <1>2, <1>6, <1>8 DEF Open
    <2>. QED BY <1>4, <2>1, SameWriter
  <1>9. Writer' = [Writer EXCEPT ![w] = p]
    <2>1. \A v \in Workspace : Writer'[v] = [Writer EXCEPT ![w] = p][v]
      BY <1>1, <1>7, <1>8, WriterShape
    <2>2. [Writer EXCEPT ![w] = p] = [v \in Workspace |-> [Writer EXCEPT ![w] = p][v]]
      BY WriterShape
    <2>. QED BY <2>1, <2>2, WriterShape
  <1>. QED BY <1>0, <1>2, <1>5, <1>9 DEF Files!Begin

\* A step that opens no journal leaves the writers alone, or closes one of them.
LEMMA ClosingRefines ==
    ASSUME IInv, IInv', Closing
    PROVE  Writer' = Writer \/ (fs' = fs => \E p \in Preview : Files!End(p))
  <1>1. OneTransaction /\ OneTransaction'
    BY DEF IInv, JournalInv
  <1>2. CASE \A q \in Preview : Open(q)' <=> Open(q)
    <2>1. \A w \in Workspace : Writer'[w] = Writer[w] BY <1>1, <1>2, SameWriter
    <2>. QED BY <2>1, WriterShape
  <1>3. CASE \E q \in Preview : ~(Open(q)' <=> Open(q))
    <2>1. PICK p \in Preview : /\ \A q \in Preview \ {p} : journal'[q] = journal[q]
                               /\ Open(p)' => Open(p)
      BY <1>3 DEF Closing, Open
    <2>2. \A q \in Preview \ {p} : Open(q)' <=> Open(q)
      BY <2>1 DEF Closing, Open
    <2>3. Open(p) /\ ~Open(p)' BY <1>3, <2>1, <2>2
    <2>. DEFINE w == WorkspaceOf[p]
    <2>4. w \in Workspace BY ConstantAssumption
    <2>5. Writer[w] = p BY <1>1, <2>3, <2>4, WriterIsOpen
    <2>6. Writer'[w] = NoPreview
      <3>1. ASSUME NEW q \in Preview, WorkspaceOf[q] = w, Open(q)' PROVE FALSE
        <4>1. q # p /\ Open(q) BY <2>2, <2>3, <3>1
        <4>2. HasJournal(p) /\ HasJournal(q) BY <2>3, <4>1 DEF Open, HasJournal
        <4>. QED BY <1>1, <3>1, <4>1, <4>2 DEF OneTransaction
      <3>. QED BY <2>4, <3>1, NoWriterNext
    <2>7. ASSUME NEW v \in Workspace, v # w PROVE Writer'[v] = Writer[v]
      <3>1. \A q \in Preview : WorkspaceOf[q] = v => (Open(q)' <=> Open(q)) BY <2>2, <2>7
      <3>. QED BY <1>1, <3>1, SameWriter
    <2>8. Writer' = [Writer EXCEPT ![w] = NoPreview]
      <3>1. \A v \in Workspace : Writer'[v] = [Writer EXCEPT ![w] = NoPreview][v]
        BY <2>4, <2>6, <2>7, WriterShape
      <3>2. [Writer EXCEPT ![w] = NoPreview] = [v \in Workspace |-> [Writer EXCEPT ![w] = NoPreview][v]]
        BY WriterShape
      <3>. QED BY <3>1, <3>2, WriterShape
    <2>. QED BY <2>5, <2>8 DEF Files!End, Closing
  <1>. QED BY <1>2, <1>3

\* Where neither journals nor the commits change, writers do not.
LEMMA WriterKept ==
    ASSUME IInv, IInv', UNCHANGED <<journal, committed>>
    PROVE  Writer' = Writer
  <1>1. OneTransaction /\ OneTransaction' BY DEF IInv, JournalInv
  <1>2. \A w \in Workspace : Writer'[w] = Writer[w] BY <1>1, SameWriter DEF Open
  <1>. QED BY <1>2, WriterShape

LEMMA NextRefines ==
    IInv /\ IInv' /\ FilesBegun /\ [Next]_vars => [Files!Next]_(Files!vars)
  <1>. SUFFICES ASSUME IInv, IInv', FilesBegun, [Next]_vars PROVE [Files!Next]_(Files!vars)
    OBVIOUS
  <1>1. CASE UNCHANGED vars
    BY <1>1, WriterKept DEF vars, records, disk, history, Files!vars
  <1>2. CASE Next /\ fs' = fs
    <2>1. ASSUME NEW a \in Proc, CommitStart(a) PROVE Files!Next
      BY <2>1, CommitStartRefines DEF Files!Next
    <2>2. CASE Closing
      <3>1. Writer' = Writer \/ \E p \in Preview : Files!End(p) BY <1>2, <2>2, ClosingRefines
      <3>. QED BY <1>2, <2>2, <3>1 DEF Closing, Files!Next, Files!vars
    <2>. QED BY <1>2, <2>1, <2>2, OthersClose
  <1>3. CASE Next /\ fs' # fs
    <2>1. ASSUME NEW a \in Proc, Effect(a) \/ Undo(a) \/ RecoverUndo(a) PROVE Files!Next
      <3>1. target[a] \in Preview /\ Open(target[a]) /\ UNCHANGED <<journal, committed>>
        BY <1>3, <2>1, WritesAlongPlan
      <3>2. Writer[WorkspaceOf[target[a]]] = target[a]
        BY <3>1, WriterIsOpen, ConstantAssumption DEF IInv, JournalInv
      <3>3. Writer' = Writer BY <3>1, WriterKept
      <3>4. Files!Write(target[a])
        BY <1>3, <2>1, <3>1, <3>2, <3>3, WritesAlongPlan, SameContents DEF Files!Write
      <3>. QED BY <3>1, <3>4 DEF Files!Next
    <2>2. ASSUME NEW w \in Workspace, ExternalWrite(w) PROVE Files!Next
      <3>1. Writer' = Writer /\ committed' = committed
        BY <2>2, WriterKept DEF ExternalWrite, records, history
      <3>2. Files!Outside(w)
        BY <2>2, <3>1, SameContents DEF ExternalWrite, Files!Outside
      <3>. QED BY <3>2 DEF Files!Next
    <2>. QED BY <1>3, <2>1, <2>2, WhoWrites
  <1>. QED BY <1>1, <1>2, <1>3

\* Applications, Recoveries, crashes and editors together write the files of
\* each Workspace as SerialCommits promises: one Preview at a time, each in one
\* period, along its plan or back.
THEOREM CommitsAreSerialHolds == Spec => CommitsAreSerial
  BY InitRefines, NextRefines, Invariance, FilesBegunHolds, PTL DEF Spec, CommitsAreSerial, Files!Spec

-----------------------------------------------------------------------------
(* What a process knows of the files *)


\* Nothing of a Preview is in the files, or its whole plan is.
Clean(p)  == fs[WorkspaceOf[p]].by # p
Entire(p) == Clean(p) \/ fs[WorkspaceOf[p]] = Intended(p)

\* An Application that has its journal, or is about to write it; one that is on
\* its way there or on its way out; the part of a Recovery that takes away.
Advanced  == {"journal", "stageMkdir", "stageMark", "stageCopy", "stageCleanup", "stageFailed",
              "removeJournal", "commitStart"} \cup Committed
Entering  == {"reserveWrite", "prepare", "release"}
Cleaning  == {"cleanArtifacts", "retirePreview", "cleanJournal"}
Restoring == {"recoverReceipt", "recoverRetire", "recoverClean", "recoverRemove"}

\* What a process knows where it takes evidence away.
EndedInv ==
    \A a \in Proc :
        /\ pc[a] \in Finishing => target[a] \in committed /\ outcome[a] \in ApplicationOutcome
        /\ pc[a] \in Cleaning => outcome[a] # "recovery_required"
        /\ pc[a] \in Restoring => HasJournal(target[a])
        /\ pc[a] \in {"recoverClean", "recoverRemove"} => preview[target[a]] # "unreserved"

\* What it found in the files is still so: nobody but an editor has changed them.
FoundInv ==
    \A a \in Proc :
        /\ pc[a] = "commitSeal" \/ (pc[a] \in Finishing /\ outcome[a] = "applied") => Entire(target[a])
        /\ pc[a] = "commitSeal" /\ writes = 0 => ~Clean(target[a])
        /\ pc[a] = "rolledSeal" \/ (pc[a] \in Finishing /\ outcome[a] = "rolled_back") => Clean(target[a])
        /\ pc[a] \in Restoring /\ outcome[a] = "restored" => Clean(target[a])

\* What Receipts say, or a process is about to write in one, or to write back.
Says(p, o) ==
    \/ receipt[p].outcome = o
    \/ \E a \in Proc :
          /\ target[a] = p
          /\ \/ pc[a] = "writeReceipt" /\ outcome[a] = o
             \/ pc[a] \in {"clearWrite", "syncWrite"} /\ seen[a].outcome = o
CompleteInv == \A p \in Preview : Says(p, "applied") /\ writes = 0 => fs[WorkspaceOf[p]] = Intended(p)
RolledInv   == \A p \in Preview : Says(p, "rolled_back") => p \in committed /\ ~Open(p) /\ Clean(p)

\* What a Recovery Receipt says.  Its Preview is not applied again: its commit
\* began before, or its journal is in the way, or its reservation was never given
\* back.
SaysRestored(p) ==
    \/ \E r \in RecoveryReceipt : r.outcome = "restored" /\ recovery[p][r] > 0
    \/ \E a \in Proc : target[a] = p /\ pc[a] = "recoverReceipt" /\ outcome[a] = "restored"
NotAgain(p) ==
    /\ \A a \in Proc : target[a] = p => pc[a] \notin Advanced
    /\ \/ p \in committed \/ HasJournal(p)
       \/ preview[p] # "unreserved" /\ \A a \in Proc : target[a] = p => pc[a] \notin Entering
RestoredInv == \A p \in Preview : SaysRestored(p) => Clean(p) /\ NotAgain(p)

FInv == EndedInv /\ FoundInv /\ CompleteInv /\ RolledInv /\ RestoredInv

-----------------------------------------------------------------------------
(* What a step of a process does to its labels and to the records *)

Moves(a) ==
    /\ pc[a] # "idle" /\ pc'[a] # "idle" => target'[a] = target[a]
    /\ pc'[a] \in Advanced =>
          pc[a] \in Advanced \/ (pc[a] = "prepare" /\ Journals(WorkspaceOf[target[a]]) = {})
    /\ pc'[a] \in Entering =>
          pc[a] \in Entering \cup Advanced \/ (pc[a] = "reserveRead" /\ preview[target[a]] = "unreserved")
    /\ pc'[a] = "commitSeal" => pc[a] = "inspect" /\ Disk(a) = Intended(target[a])
    /\ pc'[a] = "rolledSeal" => pc[a] \in {"rollback", "undo"} /\ Disk(a) = Base
    /\ pc'[a] \in Finishing =>
          \/ pc[a] \in Finishing /\ outcome'[a] = outcome[a] /\ pc'[a] # "writeReceipt"
          \/ pc[a] = "commitSeal" /\ outcome'[a] = "applied"
          \/ pc[a] = "rolledSeal" /\ outcome'[a] = "rolled_back"
          \/ pc[a] = "recoverySeal" /\ outcome'[a] = "recovery_required"
    /\ pc'[a] = "writeReceipt" /\ pc[a] # "recoverySeal" => journal'[target[a]].state = "CleanupPending"
    /\ pc'[a] \in Cleaning => pc[a] \in Cleaning \/ (pc[a] = "dropPreview" /\ outcome[a] # "recovery_required")
    /\ pc'[a] \in {"clearWrite", "syncWrite"} => pc[a] # "idle" /\ seen'[a] = receipt[target[a]]
    /\ pc'[a] \in Restoring =>
          /\ outcome'[a] = outcome[a]
          /\ \/ pc[a] \in Restoring \ {"recoverRemove"} /\ pc'[a] # "recoverReceipt"
             \/ pc[a] = "recoverCheck" /\ HasJournal(target[a]) /\ outcome[a] # "restored"
             \/ pc[a] \in {"recoverRollback", "recoverUndo"} /\ Disk(a) = Base
    /\ pc'[a] \in {"recoverClean", "recoverRemove"} => pc[a] = "recoverClean" \/ preview'[target[a]] = "absent"

Records(a) ==
    \A p \in Preview :
        /\ preview'[p] = "unreserved" => preview[p] = "unreserved" \/ (target[a] = p /\ pc[a] = "release")
        /\ HasJournal(p) => HasJournal(p)'
              \/ (target[a] = p /\ pc[a] \in {"removeJournal", "cleanJournal", "recoverRemove"})
        /\ \/ receipt'[p].outcome \in {receipt[p].outcome, "none"}
           \/ target[a] = p /\ pc[a] = "writeReceipt" /\ receipt'[p].outcome = outcome[a]
           \/ target[a] = p /\ pc[a] \in {"clearWrite", "syncWrite"} /\ receipt'[p].outcome = seen[a].outcome
        /\ \A r \in RecoveryReceipt : recovery'[p][r] > 0 =>
              recovery[p][r] > 0 \/ (target[a] = p /\ pc[a] = "recoverReceipt" /\ r.outcome = outcome[a])

\* Steps of nobody's: time, prunes, recovery status, editors.
Quiet ==
    /\ UNCHANGED <<pc, target, outcome, seen>>
    /\ \A p \in Preview :
        /\ preview'[p] = "unreserved" => preview[p] = "unreserved"
        /\ HasJournal(p) => HasJournal(p)'
        /\ receipt'[p].outcome \in {receipt[p].outcome, "none"}
        /\ \A r \in RecoveryReceipt : recovery'[p][r] > 0 => recovery[p][r] > 0

Stepped == Quiet \/ \E a \in Proc : Others(a) /\ Moves(a) /\ Records(a)

\* A prune takes away records and changes none.
LEMMA PrunedRecords ==
    ASSUME RecordsOK, NEW p \in Preview
    PROVE  /\ PrunedPreview[p] = "unreserved" => preview[p] = "unreserved"
           /\ PrunedReceipt[p].outcome \in {receipt[p].outcome, "none"}
           /\ \A r \in RecoveryReceipt : PrunedRecovery[p][r] > 0 => recovery[p][r] > 0
  BY DEF RecordsOK, PrunedPreview, PrunedReceipt, PrunedRecovery, NoReceipt, NoRecovery

LEMMA ReserveStepped ==
    ASSUME IInv, NEW a \in Proc, ReserveStep(a)
    PROVE  Others(a) /\ Moves(a) /\ Records(a)
  <1>. USE DEF IInv, TypeOK, RecordsOK, LocalsOK
  <1>1. target[a] \in Preview BY DEF ReserveStep, CheckReceipt, ReadPreview, RecheckReceipt, LockForApplication,
          CheckReceiptLocked, ReserveRead, ReserveWrite, Release, ControlInv, Targets
  <1>2. Others(a)
    BY DEF ReserveStep, CheckReceipt, ReadPreview, RecheckReceipt, LockForApplication,
       CheckReceiptLocked, ReserveRead, ReserveWrite, Release, AlreadyApplied, TakeLock, Continue, Finish, Goto, locals, Others
  <1>3. Moves(a)
    BY <1>1 DEF ReserveStep, CheckReceipt, ReadPreview, RecheckReceipt, LockForApplication, Readable,
       CheckReceiptLocked, ReserveRead, ReserveWrite, Release, AlreadyApplied, TakeLock, Continue, Finish, Goto, locals,
       Moves, Advanced, Committed, Entering, Finishing, Cleaning, Restoring
  <1>4. Records(a)
    BY <1>1 DEF ReserveStep, CheckReceipt, ReadPreview, RecheckReceipt, LockForApplication, Readable,
       CheckReceiptLocked, ReserveRead, ReserveWrite, Release, records, Records, HasJournal
  <1>. QED BY <1>2, <1>3, <1>4

LEMMA StageStepped ==
    ASSUME IInv, NEW a \in Proc, StageStep(a)
    PROVE  Others(a) /\ Moves(a) /\ Records(a)
  <1>. USE DEF IInv, TypeOK, RecordsOK, LocalsOK
  <1>1. target[a] \in Preview
    BY DEF StageStep, Prepare, WriteJournal, StageMkdir, StageMark, StageCopy, StageCleanup, StageFailed,
       RemoveJournal, ControlInv, Targets
  <1>2. Others(a)
    BY DEF StageStep, Prepare, WriteJournal, StageMkdir, StageMark, StageCopy, StageCleanup, StageFailed,
       RemoveJournal, Continue, Finish, Goto, locals, Others
  <1>3. Moves(a)
    BY <1>1 DEF StageStep, Prepare, WriteJournal, StageMkdir, StageMark, StageCopy, StageCleanup, StageFailed,
       RemoveJournal, Continue, Finish, Goto, locals, Moves, Advanced, Committed, Entering, Finishing, Cleaning, Restoring
  <1>4. Records(a)
    <2>1. CASE Prepare(a)
      BY <1>1, <2>1, PrunedRecords DEF Prepare, records, Records, HasJournal
    <2>2. CASE WriteJournal(a)
      BY <1>1, <2>2 DEF WriteJournal, Records, HasJournal
    <2>3. CASE StageFailed(a)
      BY <1>1, <2>3 DEF StageFailed, Records, HasJournal, Journal
    <2>4. CASE RemoveJournal(a)
      BY <1>1, <2>4 DEF RemoveJournal, Records, HasJournal
    <2>5. CASE UNCHANGED records
      BY <2>5 DEF records, Records, HasJournal
    <2>6. Prepare(a) \/ WriteJournal(a) \/ StageFailed(a) \/ RemoveJournal(a) \/ UNCHANGED records
      BY DEF StageStep, StageMkdir, StageMark, StageCopy, StageCleanup
    <2>. QED BY <2>1, <2>2, <2>3, <2>4, <2>5, <2>6
  <1>. QED BY <1>2, <1>3, <1>4

LEMMA CommitStepped ==
    ASSUME IInv, NEW a \in Proc, CommitStep(a)
    PROVE  Others(a) /\ Moves(a) /\ Records(a)
  <1>. USE DEF IInv, TypeOK, RecordsOK, LocalsOK
  <1>1. target[a] \in Preview
    BY DEF CommitStep, CommitStart, Intent, RecordIntent, Effect, Prove, RecordProof, Inspect, CommitSeal, Rollback, Undo, RolledSeal,
       RecoverySeal, ControlInv, Targets
  <1>2. Others(a)
    BY DEF CommitStep, CommitStart, Intent, RecordIntent, Effect, Prove, RecordProof, Inspect, CommitSeal, Rollback, Undo, RolledSeal,
       RecoverySeal, RollbackFrom, UndoStep, Continue, Decide, Goto, locals, Others
  <1>3. Moves(a)
    BY <1>1 DEF CommitStep, CommitStart, Intent, RecordIntent, Effect, Prove, RecordProof, Inspect, CommitSeal, Rollback, Undo, RolledSeal,
       RecoverySeal, Seal, RollbackFrom, UndoStep, NothingToUndo, Continue, Decide, Goto, locals,
       Moves, Advanced, Committed, Entering, Finishing, Cleaning, Restoring
  <1>4. Records(a)
    <2>1. /\ preview' = preview /\ receipt' = receipt /\ recovery' = recovery
          /\ \/ journal' = journal
             \/ journal' = [journal EXCEPT ![target[a]].state = "Committing"]
             \/ \E state \in {"CleanupPending", "RecoveryRequired"} : \E d :
                   journal' = [journal EXCEPT ![target[a]] = [state |-> state, digest |-> d]]
      BY DEF CommitStep, CommitStart, Intent, RecordIntent, Effect, Prove, RecordProof, Inspect, CommitSeal, Rollback, Undo, RolledSeal,
         RecoverySeal, Seal, records
    <2>2. ASSUME NEW p \in Preview, HasJournal(p) PROVE HasJournal(p)'
      <3>1. CASE journal' = journal
        BY <2>2, <3>1 DEF HasJournal
      <3>2. CASE journal' = [journal EXCEPT ![target[a]].state = "Committing"]
        BY <2>2, <3>2 DEF HasJournal
      <3>3. ASSUME NEW state \in {"CleanupPending", "RecoveryRequired"}, NEW d,
                   journal' = [journal EXCEPT ![target[a]] = [state |-> state, digest |-> d]]
            PROVE  HasJournal(p)'
        BY <2>2, <3>3 DEF HasJournal
      <3>. QED BY <2>1, <3>1, <3>2, <3>3
    <2>. QED BY <2>1, <2>2 DEF Records
  <1>. QED BY <1>2, <1>3, <1>4

LEMMA FinishStepped ==
    ASSUME IInv, NEW a \in Proc, FinishStep(a)
    PROVE  Others(a) /\ Moves(a) /\ Records(a)
  <1>. USE DEF IInv, TypeOK, RecordsOK, LocalsOK
  <1>1. target[a] \in Preview
    BY DEF FinishStep, WriteReceipt, DropPreview, CleanArtifacts, RetirePreview, CleanJournal, ClearRead,
       ClearWrite, PostCommit, SyncRead, SyncWrite, DiscardRemove, ControlInv, Targets
  <1>2. Others(a)
    BY DEF FinishStep, WriteReceipt, DropPreview, CleanArtifacts, RetirePreview, CleanJournal, ClearRead,
       ClearWrite, PostCommit, SyncRead, SyncWrite, DiscardRemove, ReadSeen, Continue, Finish, Goto, locals, Others
  <1>3. Moves(a)
    BY <1>1 DEF FinishStep, WriteReceipt, DropPreview, CleanArtifacts, RetirePreview, CleanJournal, ClearRead,
       ClearWrite, PostCommit, SyncRead, SyncWrite, DiscardRemove, ReadSeen, Continue, Finish, Goto, locals,
       Moves, Advanced, Committed, Entering, Finishing, Cleaning, Restoring
  <1>4. Records(a)
    <2>1. CASE WriteReceipt(a)
      <3>1. /\ pc[a] = "writeReceipt" /\ UNCHANGED journal
            /\ preview' = PrunedPreview /\ recovery' = PrunedRecovery
            /\ \/ receipt' = PrunedReceipt
               \/ receipt' = [PrunedReceipt EXCEPT ![target[a]] = [outcome |-> outcome[a], cleanup |-> TRUE, synced |-> FALSE]]
        BY <2>1 DEF WriteReceipt
      <3>2. PrunedReceipt \in [Preview -> Receipt] BY PrunedTypes
      <3>3. \A p \in Preview : receipt'[p] = PrunedReceipt[p] \/ (p = target[a] /\ receipt'[p].outcome = outcome[a])
        BY <1>1, <3>1, <3>2
      <3>. QED BY <3>1, <3>3, PrunedRecords DEF Records, HasJournal
    <2>2. CASE ~WriteReceipt(a)
      BY <1>1, <2>2 DEF FinishStep, DropPreview, CleanArtifacts, RetirePreview, CleanJournal, ClearRead,
         ClearWrite, PostCommit, SyncRead, SyncWrite, DiscardRemove, records, Records, HasJournal, Receipt
    <2>. QED BY <2>1, <2>2
  <1>. QED BY <1>2, <1>3, <1>4

LEMMA RecoverStepped ==
    ASSUME IInv, NEW a \in Proc, RecoverStep(a)
    PROVE  Others(a) /\ Moves(a) /\ Records(a)
  <1>. USE DEF IInv, TypeOK, RecordsOK, LocalsOK
  <1>1. target[a] \in Preview
    BY DEF RecoverStep, LockForRecovery, RecoverCheck, RecoverRollback, RecoverUndo, RecoverReceipt, RecoverRetire,
       RecoverClean, RecoverRemove, ControlInv, Targets
  <1>2. Others(a)
    BY DEF RecoverStep, LockForRecovery, RecoverCheck, RecoverRollback, RecoverUndo, RecoverReceipt, RecoverRetire,
       RecoverClean, RecoverRemove, RollbackFrom, UndoStep, TakeLock, Continue, Finish, Goto, locals, Others
  <1>3. Moves(a)
    BY <1>1 DEF RecoverStep, LockForRecovery, RecoverCheck, RecoverRollback, RecoverUndo, RecoverReceipt, RecoverRetire,
       RecoverClean, RecoverRemove, RecoveryRefused, RollbackFrom, UndoStep, NothingToUndo, TakeLock, Continue, Finish,
       Goto, locals, Moves, Advanced, Committed, Entering, Finishing, Cleaning, Restoring
  <1>4. Records(a)
    <2>1. CASE RecoverCheck(a)
      BY <1>1, <2>1, PrunedRecords DEF RecoverCheck, records, Records, HasJournal
    <2>2. CASE RecoverReceipt(a)
      <3>1. /\ pc[a] = "recoverReceipt" /\ preview' = PrunedPreview /\ receipt' = PrunedReceipt /\ journal' = journal
            /\ \/ recovery' = [PrunedRecovery EXCEPT ![target[a]][
                                  [outcome |-> outcome[a], linked |-> HasReceipt(target[a])]] = @ + 1]
               \/ recovery' = PrunedRecovery
        BY <2>2 DEF RecoverReceipt
      <3>2. PrunedRecovery \in [Preview -> [RecoveryReceipt -> Nat]] BY PrunedTypes
      <3>3. ASSUME NEW p \in Preview, NEW r \in RecoveryReceipt
            PROVE  \/ recovery'[p][r] = PrunedRecovery[p][r]
                   \/ p = target[a] /\ r.outcome = outcome[a]
        BY <1>1, <3>1, <3>2
      <3>. QED BY <3>1, <3>3, PrunedRecords DEF Records, HasJournal
    <2>3. CASE ~RecoverCheck(a) /\ ~RecoverReceipt(a)
      BY <1>1, <2>3 DEF RecoverStep, LockForRecovery, RecoverRollback, RecoverUndo, RecoverRetire,
         RecoverClean, RecoverRemove, records, Records, HasJournal
    <2>. QED BY <2>1, <2>2, <2>3
  <1>. QED BY <1>2, <1>3, <1>4

LEMMA NextStepped == IInv /\ Next => Stepped
  <1>. SUFFICES ASSUME IInv, Next PROVE Stepped
    OBVIOUS
  <1>. USE DEF IInv, TypeOK, RecordsOK, LocalsOK
  <1>1. ASSUME NEW a \in Proc, Step(a) PROVE Others(a) /\ Moves(a) /\ Records(a)
    BY <1>1, ReserveStepped, StageStepped, CommitStepped, FinishStepped, RecoverStepped DEF Step
  <1>2. ASSUME NEW a \in Proc, Crash(a) PROVE Others(a) /\ Moves(a) /\ Records(a)
    BY <1>2 DEF Crash, Finish, Goto, records, Others, Moves, Advanced, Committed, Entering, Finishing, Cleaning,
       Restoring, Records, HasJournal
  <1>3. ASSUME NEW a \in Proc, NEW p \in Preview, Command(a, p) PROVE Others(a) /\ Moves(a) /\ Records(a)
    BY <1>3 DEF Command, StartApply, DiscardRead, StartRecover, Begin, Goto, records, Others, Moves, Advanced,
       Committed, Entering, Finishing, Cleaning, Restoring, Records, HasJournal
  <1>4. ASSUME NEW p \in Preview, Store(p) PROVE Quiet
    <2>1. CASE PruneReceipts(p)
      <3>1. \A q \in Preview : receipt'[q] \in {receipt[q], NoReceipt} BY <2>1 DEF PruneReceipts
      <3>2. \A q \in Preview, r \in RecoveryReceipt : recovery'[q][r] > 0 => recovery[q][r] > 0
        <4>1. CASE recovery' = [recovery EXCEPT ![p] =
                      [r \in RecoveryReceipt |-> IF r.linked THEN 0 ELSE recovery[p][r]]]
          BY <4>1
        <4>2. ASSUME NEW r \in RecoveryReceipt, recovery[p][r] > 0, recovery' = [recovery EXCEPT ![p][r] = @ - 1]
              PROVE  \A q \in Preview, t \in RecoveryReceipt : recovery'[q][t] > 0 => recovery[q][t] > 0
          BY <4>2
        <4>. QED BY <2>1, <4>1, <4>2 DEF PruneReceipts
      <3>. QED BY <2>1, <3>1, <3>2 DEF PruneReceipts, Quiet, locals, HasJournal, NoReceipt
    <2>2. CASE ReconcileStatus(p)
      BY <2>2 DEF ReconcileStatus, Quiet, locals, HasJournal
    <2>3. CASE Expire(p)
      BY <2>3 DEF Expire, Quiet, locals, records, HasJournal
    <2>. QED BY <1>4, <2>1, <2>2, <2>3 DEF Store
  <1>5. CASE PruneExpired
    BY <1>5, PrunedRecords DEF PruneExpired, Stepped, Quiet, locals, HasJournal
  <1>6. ASSUME NEW w \in Workspace, ExternalWrite(w) PROVE Quiet
    BY <1>6 DEF ExternalWrite, Quiet, locals, records, HasJournal
  <1>. QED BY <1>1, <1>2, <1>3, <1>4, <1>5, <1>6 DEF Next, Stepped

-----------------------------------------------------------------------------
(* What a step does to the files *)

\* The files change by an editor, or under the lock by one operation of a Preview
\* that is open; only an effect, never an undo, begins a Preview's contents.
LEMMA FilesChange ==
    ASSUME IInv, FilesBegun, Next, NEW w \in Workspace, fs'[w] # fs[w]
    PROVE  \/ fs'[w].by = NoPreview /\ writes' = writes + 1
           \/ \E a \in Proc :
                /\ pc[a] \in {"effect", "undo", "recoverUndo"}
                /\ target[a] \in Preview /\ WorkspaceOf[target[a]] = w /\ Open(target[a])
                /\ {fs[w].by, fs'[w].by} \subseteq {target[a], NoPreview}
                /\ pc[a] # "effect" => fs[w].by = target[a]
  <1>1. fs' # fs OBVIOUS
  <1>2. ASSUME NEW v \in Workspace, ExternalWrite(v) PROVE fs'[w].by = NoPreview /\ writes' = writes + 1
    BY <1>2 DEF ExternalWrite, Base, Foreign, IInv, TypeOK, DiskOK
  <1>3. ASSUME NEW a \in Proc, Effect(a) \/ Undo(a) \/ RecoverUndo(a)
        PROVE  /\ pc[a] \in {"effect", "undo", "recoverUndo"}
               /\ target[a] \in Preview /\ WorkspaceOf[target[a]] = w /\ Open(target[a])
               /\ {fs[w].by, fs'[w].by} \subseteq {target[a], NoPreview}
               /\ pc[a] # "effect" => fs[w].by = target[a]
    <2>1. target[a] \in Preview /\ Open(target[a]) BY <1>1, <1>3, WritesAlongPlan
    <2>2. /\ WorkspaceOf[target[a]] = w
          /\ {fs[w].by, fs'[w].by} \subseteq {target[a], NoPreview}
      BY <1>1, <1>3, EffectsAreCovered
    <2>3. pc[a] \in {"effect", "undo", "recoverUndo"} BY <1>3 DEF Effect, Undo, RecoverUndo
    <2>4. ASSUME pc[a] # "effect" PROVE fs[w].by = target[a]
      <3>1. left[a] \in 0..Ops BY DEF IInv, TypeOK, LocalsOK
      <3>2. left[a] > 0 /\ fs[w] = At(target[a], left[a])
        BY <1>1, <1>3, <2>2, <2>4 DEF Effect, Undo, RecoverUndo, UndoStep, Disk
      <3>. QED BY <3>1, <3>2 DEF At
    <2>. QED BY <2>1, <2>2, <2>3, <2>4
  <1>. QED BY <1>1, <1>2, <1>3, WhoWrites

\* External writes are counted, and nothing else counts as one.
LEMMA WritesCount ==
    ASSUME Next
    PROVE  writes' \in {writes, writes + 1}
  <1>. DEFINE Same == writes' = writes
  <1>1. ASSUME NEW a \in Proc, ReserveStep(a) PROVE Same
    BY <1>1 DEF ReserveStep, CheckReceipt, ReadPreview, RecheckReceipt, LockForApplication, CheckReceiptLocked,
       ReserveRead, ReserveWrite, Release, Fault, budget
  <1>2. ASSUME NEW a \in Proc, StageStep(a) PROVE Same
    BY <1>2 DEF StageStep, Prepare, WriteJournal, StageMkdir, StageMark, StageCopy, StageCleanup, StageFailed,
       RemoveJournal, ArtifactsRemoved, ArtifactsKept, Fault, budget
  <1>3. ASSUME NEW a \in Proc, CommitStep(a) PROVE Same
    BY <1>3 DEF CommitStep, CommitStart, Intent, RecordIntent, Effect, Prove, RecordProof, Inspect, CommitSeal, Rollback, Undo, RolledSeal,
       RecoverySeal, RollbackFrom, UndoStep, Fault, budget
  <1>4. ASSUME NEW a \in Proc, FinishStep(a) PROVE Same
    BY <1>4 DEF FinishStep, WriteReceipt, DropPreview, CleanArtifacts, RetirePreview, CleanJournal, ClearRead,
       ClearWrite, PostCommit, SyncRead, SyncWrite, DiscardRemove, ArtifactsRemoved, ArtifactsKept, Fault, budget
  <1>5. ASSUME NEW a \in Proc, RecoverStep(a) PROVE Same
    BY <1>5 DEF RecoverStep, LockForRecovery, RecoverCheck, RecoverRollback, RecoverUndo, RecoverReceipt,
       RecoverRetire, RecoverClean, RecoverRemove, RollbackFrom, UndoStep, ArtifactsRemoved, ArtifactsKept, Fault, budget
  <1>6. ASSUME NEW a \in Proc, Crash(a) PROVE Same
    BY <1>6 DEF Crash
  <1>7. ASSUME NEW a \in Proc, NEW p \in Preview, Command(a, p) PROVE Same
    BY <1>7 DEF Command, StartApply, DiscardRead, StartRecover, budget
  <1>8. ASSUME NEW p \in Preview, Store(p) PROVE Same
    BY <1>8 DEF Store, PruneReceipts, ReconcileStatus, Expire, budget
  <1>9. CASE PruneExpired BY <1>9 DEF PruneExpired, budget
  <1>10. ASSUME NEW w \in Workspace, ExternalWrite(w) PROVE writes' = writes + 1
    BY <1>10 DEF ExternalWrite
  <1>. QED BY <1>1, <1>2, <1>3, <1>4, <1>5, <1>6, <1>7, <1>8, <1>9, <1>10 DEF Next, Step

\* A Preview that has nothing in the files gets something there by its own commit.
LEMMA StaysClean ==
    ASSUME IInv, FilesBegun, Next, NEW p \in Preview, Clean(p), ~Clean(p)'
    PROVE  \E a \in Proc : target[a] = p /\ pc[a] = "effect" /\ Open(p)
  <1>1. WorkspaceOf[p] \in Workspace /\ p # NoPreview BY ConstantAssumption
  <1>2. fs'[WorkspaceOf[p]] # fs[WorkspaceOf[p]] /\ fs'[WorkspaceOf[p]].by = p /\ fs[WorkspaceOf[p]].by # p
    BY DEF Clean
  <1>. QED BY <1>1, <1>2, FilesChange

\* One that is there completely stays so until an editor or its own undo comes.
LEMMA StaysComplete ==
    ASSUME IInv, FilesBegun, Next, NEW p \in Preview, fs[WorkspaceOf[p]] = Intended(p),
           fs'[WorkspaceOf[p]] # Intended(p)
    PROVE  \/ Clean(p)' /\ writes' = writes + 1
           \/ \E a \in Proc : target[a] = p /\ pc[a] \in {"effect", "undo", "recoverUndo"} /\ Open(p)
  <1>1. WorkspaceOf[p] \in Workspace /\ p # NoPreview BY ConstantAssumption
  <1>2. fs[WorkspaceOf[p]].by = p BY ConstantAssumption DEF Intended, At
  <1>. QED BY <1>1, <1>2, FilesChange DEF Clean

-----------------------------------------------------------------------------
(* The invariant *)

LEMMA InitFInv == Init => FInv
  BY DEF Init, FInv, EndedInv, FoundInv, CompleteInv, RolledInv, RestoredInv, Says, SaysRestored, Finishing,
     Cleaning, Restoring, NoReceipt, NoRecovery

\* Two processes that hold the lock of one Workspace are one process.
LEMMA SameHolder ==
    ASSUME IInv, NEW a \in Proc, NEW b \in Proc, target[a] = target[b],
           pc[a] \in Holding, pc[b] \in Holding
    PROVE  a = b
  BY Exclusion

LEMMA NextEndedInv ==
    ASSUME IInv, FInv, Next
    PROVE  EndedInv'
  <1>. USE DEF FInv
  <1>1. committed \subseteq committed' BY OthersClose DEF Closing, CommitStart
  <1>2. CASE Quiet
    BY <1>1, <1>2 DEF Quiet, EndedInv, IInv, ControlInv, Targets, Finishing, Cleaning, Restoring
  <1>3. ASSUME NEW a \in Proc, Others(a), Moves(a), Records(a) PROVE EndedInv'
    <2>. SUFFICES ASSUME NEW b \in Proc
                  PROVE  /\ pc'[b] \in Finishing => target'[b] \in committed' /\ outcome'[b] \in ApplicationOutcome
                         /\ pc'[b] \in Cleaning => outcome'[b] # "recovery_required"
                         /\ pc'[b] \in Restoring => journal'[target'[b]].state # "none"
                         /\ pc'[b] \in {"recoverClean", "recoverRemove"} => preview'[target'[b]] # "unreserved"
      BY DEF EndedInv, HasJournal
    <2>1. ASSUME pc'[b] \in Finishing PROVE target'[b] \in committed' /\ outcome'[b] \in ApplicationOutcome
      <3>1. CASE a = b
        <4>1. pc[b] \in Finishing \cup {"commitSeal", "rolledSeal", "recoverySeal"} BY <1>3, <2>1, <3>1 DEF Moves
        <4>2. target[b] \in committed
          BY <4>1 DEF EndedInv, IInv, CommitInv, Begun, Committed
        <4>3. target'[b] = target[b] BY <1>3, <2>1, <3>1, <4>1 DEF Moves, Finishing
        <4>. QED BY <1>1, <1>3, <2>1, <3>1, <4>2, <4>3 DEF Moves, EndedInv, ApplicationOutcome
      <3>2. CASE a # b BY <1>1, <1>3, <2>1, <3>2 DEF Others, EndedInv
      <3>. QED BY <3>1, <3>2
    <2>2. ASSUME pc'[b] \in Cleaning PROVE outcome'[b] # "recovery_required"
      <3>1. CASE a = b BY <1>3, <2>2, <3>1 DEF Moves, EndedInv, Cleaning, Finishing
      <3>2. CASE a # b BY <1>3, <2>2, <3>2 DEF Others, EndedInv
      <3>. QED BY <3>1, <3>2
    <2>3. ASSUME pc'[b] \in Restoring PROVE journal'[target'[b]].state # "none"
      <3>1. CASE a = b
        <4>1. \/ pc[b] \in Restoring \ {"recoverRemove"}
              \/ pc[b] = "recoverCheck" /\ HasJournal(target[b])
              \/ pc[b] \in {"recoverRollback", "recoverUndo"}
          BY <1>3, <2>3, <3>1 DEF Moves
        <4>0. pc[b] \in Recovering \ {"recoverRemove"} /\ HasJournal(target[b])
          BY <4>1 DEF EndedInv, Restoring, Recovering, HasJournal, IInv, JournalInv, RecoverOpen
        <4>2. target'[b] = target[b] /\ target[b] \in Preview
          BY <1>3, <2>3, <3>1, <4>0 DEF Moves, Restoring, Recovering, IInv, ControlInv, Targets
        <4>. QED BY <1>3, <3>1, <4>0, <4>2 DEF Records, Recovering, HasJournal
      <3>2. CASE a # b
        <4>1. pc[b] \in Restoring /\ target'[b] = target[b] BY <1>3, <2>3, <3>2 DEF Others
        <4>2. target[b] \in Preview /\ HasJournal(target[b])
          BY <4>1 DEF EndedInv, IInv, ControlInv, Targets, Restoring
        <4>3. ~(target[a] = target[b] /\ pc[a] \in {"removeJournal", "cleanJournal", "recoverRemove"})
          BY <3>2, <4>1, SameHolder DEF Holding, Restoring, Recovering, PreCommit, Finishing
        <4>. QED BY <1>3, <4>1, <4>2, <4>3 DEF Records, HasJournal
      <3>. QED BY <3>1, <3>2
    <2>4. ASSUME pc'[b] \in {"recoverClean", "recoverRemove"} PROVE preview'[target'[b]] # "unreserved"
      <3>1. CASE a = b
        <4>1. pc[b] \in Restoring \cup Recovering BY <1>3, <2>4, <3>1 DEF Moves, Restoring, Recovering
        <4>2. target'[b] = target[b] /\ target[b] \in Preview
          BY <1>3, <2>4, <3>1, <4>1 DEF Moves, Restoring, Recovering, IInv, ControlInv, Targets
        <4>3. pc[b] = "recoverClean" \/ preview'[target[b]] = "absent" BY <1>3, <2>4, <3>1 DEF Moves
        <4>. QED BY <1>3, <3>1, <4>2, <4>3 DEF Records, EndedInv
      <3>2. CASE a # b
        <4>1. pc[b] \in {"recoverClean", "recoverRemove"} /\ target'[b] = target[b] BY <1>3, <2>4, <3>2 DEF Others
        <4>2. target[b] \in Preview /\ preview[target[b]] # "unreserved"
          BY <4>1 DEF EndedInv, IInv, ControlInv, Targets
        <4>3. ~(target[a] = target[b] /\ pc[a] = "release")
          BY <3>2, <4>1, SameHolder DEF Holding, Recovering, PreCommit
        <4>. QED BY <1>3, <4>1, <4>2, <4>3 DEF Records
      <3>. QED BY <3>1, <3>2
    <2>. QED BY <2>1, <2>2, <2>3, <2>4
  <1>. QED BY <1>2, <1>3, NextStepped DEF Stepped

\* While a process has the lock, what it found of its Preview stays so, but for
\* what it does itself and for editors.
LEMMA HolderFinds ==
    ASSUME IInv, FilesBegun, Next, NEW b \in Proc, NEW p \in Preview, target[b] = p, pc[b] \in Holding
    PROVE  /\ pc[b] # "effect" /\ Clean(p) => Clean(p)'
           /\ pc[b] \notin {"effect", "undo", "recoverUndo"} =>
                /\ Entire(p) => Entire(p)'
                /\ fs[WorkspaceOf[p]] = Intended(p) /\ writes' = 0 => fs'[WorkspaceOf[p]] = Intended(p)
  <1>1. {"effect", "undo", "recoverUndo"} \subseteq Holding BY DEF Holding, Committed, Recovering
  <1>2. ASSUME NEW c \in Proc, target[c] = p, pc[c] \in {"effect", "undo", "recoverUndo"} PROVE c = b
    BY <1>1, <1>2, SameHolder
  <1>3. ASSUME pc[b] # "effect", Clean(p) PROVE Clean(p)'
    BY <1>2, <1>3, StaysClean
  <1>4. ASSUME pc[b] \notin {"effect", "undo", "recoverUndo"}, fs[WorkspaceOf[p]] = Intended(p)
        PROVE  Entire(p)' /\ (writes' = 0 => fs'[WorkspaceOf[p]] = Intended(p))
    <2>1. writes + 1 # 0 BY ConstantAssumption DEF IInv, TypeOK, HistoryOK
    <2>2. Entire(p)' <=> Clean(p)' \/ fs'[WorkspaceOf[p]] = Intended(p) BY DEF Entire, Intended, At, Base
    <2>. QED BY <1>2, <1>4, <2>1, <2>2, StaysComplete
  <1>5. Clean(p)' => Entire(p)' BY DEF Entire
  <1>. QED BY <1>3, <1>4, <1>5 DEF Entire

LEMMA NextFoundInv ==
    ASSUME IInv, FilesBegun, FInv, Next
    PROVE  FoundInv'
  <1>. USE DEF FInv
  <1>0. ASSUME NEW b \in Proc, NEW p \in Preview, target[b] = p, target'[b] = p,
               \/ pc'[b] = pc[b] /\ outcome'[b] = outcome[b]
               \/ Moves(b)
        PROVE  /\ pc'[b] = "commitSeal" \/ (pc'[b] \in Finishing /\ outcome'[b] = "applied") => Entire(p)'
               /\ pc'[b] = "commitSeal" /\ writes' = 0 => ~Clean(p)'
               /\ pc'[b] = "rolledSeal" \/ (pc'[b] \in Finishing /\ outcome'[b] = "rolled_back") => Clean(p)'
               /\ pc'[b] \in Restoring /\ outcome'[b] = "restored" => Clean(p)'
    <2>1. ASSUME pc'[b] = "commitSeal" \/ (pc'[b] \in Finishing /\ outcome'[b] = "applied")
          PROVE  Entire(p)' /\ (pc'[b] = "commitSeal" /\ writes' = 0 => ~Clean(p)')
      <3>1. /\ pc[b] \in {"inspect", "commitSeal"} \cup Finishing
            /\ Entire(p)
        BY <1>0, <2>1 DEF Moves, FoundInv, Entire, Disk, Finishing
      <3>2. pc'[b] = "commitSeal" /\ writes' = 0 => fs[WorkspaceOf[p]] = Intended(p)
        <4>1. writes' = 0 => writes = 0
          BY WritesCount DEF IInv, TypeOK, HistoryOK
        <4>. QED BY <1>0, <2>1, <4>1 DEF Moves, FoundInv, Entire, Disk, Finishing
      <3>3. pc[b] \in Holding \ {"effect", "undo", "recoverUndo"}
        BY <3>1 DEF Holding, Committed, Finishing
      <3>4. Intended(p).by = p BY ConstantAssumption DEF Intended, At
      <3>. QED BY <1>0, <3>1, <3>2, <3>3, <3>4, HolderFinds DEF Clean
    <2>2. ASSUME \/ pc'[b] = "rolledSeal" \/ (pc'[b] \in Finishing /\ outcome'[b] = "rolled_back")
                 \/ pc'[b] \in Restoring /\ outcome'[b] = "restored"
          PROVE  Clean(p)'
      <3>1. pc[b] \in {"rollback", "undo", "rolledSeal", "recoverRollback", "recoverUndo"} \cup Finishing \cup Restoring
        BY <1>0, <2>2 DEF Moves, FoundInv, Finishing, Restoring
      <3>2. Clean(p)
        <4>1. Disk(b) = Base => Clean(p) BY <1>0, ConstantAssumption DEF Disk, Base, Clean
        <4>. QED BY <1>0, <2>2, <4>1 DEF Moves, FoundInv, Finishing, Restoring
      <3>3. pc[b] \in Holding \ {"effect"}
        BY <3>1 DEF Holding, Committed, Finishing, Restoring, Recovering
      <3>. QED BY <1>0, <3>2, <3>3, HolderFinds
    <2>. QED BY <2>1, <2>2
  <1>1. ASSUME NEW b \in Proc,
               pc'[b] \in {"commitSeal", "rolledSeal"} \cup Finishing \cup Restoring,
               \/ pc'[b] = pc[b] /\ outcome'[b] = outcome[b] /\ target'[b] = target[b]
               \/ Moves(b)
        PROVE  target'[b] \in Preview /\ target[b] = target'[b]
    <2>1. pc[b] # "idle" BY <1>1 DEF Moves, Finishing, Restoring
    <2>2. target[b] \in Preview BY <2>1 DEF IInv, ControlInv, Targets
    <2>. QED BY <1>1, <2>1, <2>2 DEF Moves, Finishing, Restoring
  <1>2. \A b \in Proc :
            \/ pc'[b] = pc[b] /\ outcome'[b] = outcome[b] /\ target'[b] = target[b]
            \/ Moves(b)
    BY NextStepped DEF Stepped, Quiet, Others
  <1>. SUFFICES ASSUME NEW b \in Proc
                PROVE  LET p == target'[b] IN
                       /\ pc'[b] = "commitSeal" \/ (pc'[b] \in Finishing /\ outcome'[b] = "applied") =>
                             fs'[WorkspaceOf[p]].by # p \/ fs'[WorkspaceOf[p]] = Intended(p)
                       /\ pc'[b] = "commitSeal" /\ writes' = 0 => fs'[WorkspaceOf[p]].by = p
                       /\ pc'[b] = "rolledSeal" \/ (pc'[b] \in Finishing /\ outcome'[b] = "rolled_back") =>
                             fs'[WorkspaceOf[p]].by # p
                       /\ pc'[b] \in Restoring /\ outcome'[b] = "restored" => fs'[WorkspaceOf[p]].by # p
    BY DEF FoundInv, Entire, Clean, Intended, At, Base
  <1>3. CASE pc'[b] \in {"commitSeal", "rolledSeal"} \cup Finishing \cup Restoring
    <2>1. PICK p \in Preview : p = target[b] /\ p = target'[b] BY <1>1, <1>2, <1>3
    <2>2. /\ Clean(p)' <=> fs'[WorkspaceOf[p]].by # p
          /\ Entire(p)' <=> fs'[WorkspaceOf[p]].by # p \/ fs'[WorkspaceOf[p]] = Intended(p)
      BY DEF Entire, Clean, Intended, At, Base
    <2>. QED BY <1>0, <1>2, <2>1, <2>2
  <1>. QED BY <1>3

\* A Receipt begins to say something at the seal of a commit.
LEMMA NextSays ==
    ASSUME IInv, Next, NEW p \in Preview, NEW o \in {"applied", "rolled_back"}, Says(p, o)'
    PROVE  \/ Says(p, o)
           \/ \E a \in Proc :
                /\ target[a] = p /\ pc[a] = IF o = "applied" THEN "commitSeal" ELSE "rolledSeal"
                /\ journal'[p].state = "CleanupPending"
  <1>1. CASE Quiet BY <1>1 DEF Quiet, Says
  <1>2. ASSUME NEW a \in Proc, Others(a), Moves(a), Records(a)
        PROVE  \/ Says(p, o)
               \/ /\ target[a] = p /\ pc[a] = IF o = "applied" THEN "commitSeal" ELSE "rolledSeal"
                  /\ journal'[p].state = "CleanupPending"
    <2>1. CASE receipt'[p].outcome = o BY <1>2, <2>1 DEF Records, Says
    <2>2. ASSUME NEW b \in Proc, b # a, target'[b] = p,
                 \/ pc'[b] = "writeReceipt" /\ outcome'[b] = o
                 \/ pc'[b] \in {"clearWrite", "syncWrite"} /\ seen'[b].outcome = o
          PROVE  Says(p, o)
      BY <1>2, <2>2 DEF Others, Says
    <2>3. CASE target'[a] = p /\ pc'[a] = "writeReceipt" /\ outcome'[a] = o
      BY <1>2, <2>3 DEF Moves, Finishing
    <2>4. CASE target'[a] = p /\ pc'[a] \in {"clearWrite", "syncWrite"} /\ seen'[a].outcome = o
      <3>1. target[a] = p /\ seen'[a] = receipt[p] BY <1>2, <2>4 DEF Moves
      <3>. QED BY <2>4, <3>1 DEF Says
    <2>. QED BY <2>1, <2>2, <2>3, <2>4 DEF Says
  <1>. QED BY <1>1, <1>2, NextStepped DEF Stepped

\* A commit that is over stays over.
LEMMA StaysOver ==
    ASSUME IInv, Next, NEW p \in committed, ~Open(p)
    PROVE  ~Open(p)'
  <1>1. CASE Closing
    <2>1. p \in Preview BY DEF IInv, TypeOK, HistoryOK
    <2>. QED BY <1>1, <2>1 DEF Closing, Open
  <1>2. ASSUME NEW a \in Proc, CommitStart(a) PROVE ~Open(p)'
    <2>1. target[a] # p BY <1>2 DEF CommitStart, IInv, CommitInv, Uncommitted, PreCommit
    <2>2. journal'[p] = journal[p] BY <1>2, <2>1 DEF CommitStart, IInv, TypeOK, RecordsOK, HistoryOK
    <2>. QED BY <2>2 DEF Open
  <1>. QED BY <1>1, <1>2, OthersClose

LEMMA NextCompleteInv ==
    ASSUME IInv, FilesBegun, FInv, Next
    PROVE  CompleteInv'
  <1>. SUFFICES ASSUME NEW p \in Preview, Says(p, "applied")', writes' = 0
                PROVE  fs'[WorkspaceOf[p]] = Intended(p)
    BY DEF CompleteInv, Intended, At, Base
  <1>1. writes = 0 /\ writes' # writes + 1
    BY WritesCount, ConstantAssumption DEF IInv, TypeOK, HistoryOK
  <1>2. CASE Says(p, "applied")
    <2>1. fs[WorkspaceOf[p]] = Intended(p) BY <1>1, <1>2 DEF FInv, CompleteInv
    <2>2. ~Open(p)
      <3>1. SaysApplied(p) BY <1>2 DEF Says, SaysApplied, Applied
      <3>. QED BY <3>1 DEF IInv, AppliedInv, Open
    <2>. QED BY <1>1, <2>1, <2>2, StaysComplete
  <1>3. ASSUME NEW a \in Proc, target[a] = p, pc[a] = "commitSeal" PROVE fs'[WorkspaceOf[p]] = Intended(p)
    <2>1. fs[WorkspaceOf[p]] = Intended(p) BY <1>1, <1>3 DEF FInv, FoundInv, Entire
    <2>2. pc[a] \in Holding BY <1>3 DEF Holding, Committed
    <2>. QED BY <1>3, <2>1, <2>2, HolderFinds
  <1>. QED BY <1>2, <1>3, NextSays

LEMMA NextRolledInv ==
    ASSUME IInv, FilesBegun, FInv, Next
    PROVE  RolledInv'
  <1>0. committed \subseteq committed' BY OthersClose DEF Closing, CommitStart
  <1>. SUFFICES ASSUME NEW p \in Preview, Says(p, "rolled_back")'
                PROVE  p \in committed' /\ ~Open(p)' /\ Clean(p)'
    BY DEF RolledInv
  <1>1. CASE Says(p, "rolled_back")
    <2>1. p \in committed /\ ~Open(p) /\ Clean(p) BY <1>1 DEF FInv, RolledInv
    <2>. QED BY <1>0, <2>1, StaysOver, StaysClean
  <1>2. ASSUME NEW a \in Proc, target[a] = p, pc[a] = "rolledSeal", journal'[p].state = "CleanupPending"
        PROVE  p \in committed' /\ ~Open(p)' /\ Clean(p)'
    <2>1. Clean(p) BY <1>2 DEF FInv, FoundInv
    <2>2. pc[a] \in Holding /\ p \in committed BY <1>2 DEF Holding, Committed, IInv, CommitInv, Begun
    <2>. QED BY <1>0, <1>2, <2>1, <2>2, HolderFinds DEF Open
  <1>. QED BY <1>1, <1>2, NextSays

\* A Preview of which something was restored is clean, and nobody applies it.
LEMMA RestoredBefore ==
    ASSUME IInv, FInv, NEW p \in Preview, NEW a \in Proc, Others(a), Moves(a), Records(a), SaysRestored(p)'
    PROVE  Clean(p) /\ NotAgain(p)
  <1>1. CASE SaysRestored(p) BY <1>1 DEF FInv, RestoredInv
  <1>2. CASE target'[a] = p /\ pc'[a] = "recoverReceipt" /\ outcome'[a] = "restored"
    <2>1. pc[a] \in {"recoverRollback", "recoverUndo"} /\ Disk(a) = Base /\ target[a] = p
      BY <1>2 DEF Moves, Restoring
    <2>2. Clean(p) BY <2>1, ConstantAssumption DEF Disk, Base, Clean
    <2>3. HasJournal(p) BY <2>1 DEF HasJournal, IInv, JournalInv, RecoverOpen
    <2>4. ASSUME NEW b \in Proc, target[b] = p, pc[b] \in Advanced PROVE FALSE
      <3>1. pc[a] \in Holding /\ pc[b] \in Holding
        BY <2>1, <2>4 DEF Holding, Recovering, Advanced, PreCommit
      <3>2. a = b BY <2>1, <2>4, <3>1, SameHolder
      <3>. QED BY <2>1, <2>4, <3>2 DEF Advanced, Committed
    <2>. QED BY <2>2, <2>3, <2>4 DEF NotAgain
  <1>3. SaysRestored(p) \/ (target'[a] = p /\ pc'[a] = "recoverReceipt" /\ outcome'[a] = "restored")
    <2>1. ASSUME NEW r \in RecoveryReceipt, r.outcome = "restored", recovery'[p][r] > 0 PROVE SaysRestored(p)
      BY <2>1 DEF Records, SaysRestored
    <2>2. ASSUME NEW b \in Proc, b # a, target'[b] = p, pc'[b] = "recoverReceipt", outcome'[b] = "restored"
          PROVE  SaysRestored(p)
      BY <2>2 DEF Others, SaysRestored
    <2>. QED BY <2>1, <2>2 DEF SaysRestored
  <1>. QED BY <1>1, <1>2, <1>3

LEMMA NextRestoredInv ==
    ASSUME IInv, FilesBegun, FInv, Next
    PROVE  RestoredInv'
  <1>0. committed \subseteq committed' BY OthersClose DEF Closing, CommitStart
  <1>1. ASSUME NEW p \in Preview, Clean(p), NotAgain(p) PROVE Clean(p)'
    BY <1>1, StaysClean DEF NotAgain, Advanced, Committed
  <1>2. CASE Quiet
    <2>. SUFFICES ASSUME NEW p \in Preview, SaysRestored(p)' PROVE Clean(p)' /\ NotAgain(p)'
      BY DEF RestoredInv
    <2>1. SaysRestored(p) BY <1>2 DEF Quiet, SaysRestored
    <2>2. Clean(p) /\ NotAgain(p) BY <2>1 DEF FInv, RestoredInv
    <2>. QED BY <1>0, <1>1, <1>2, <2>2 DEF Quiet, NotAgain
  <1>3. ASSUME NEW a \in Proc, Others(a), Moves(a), Records(a) PROVE RestoredInv'
    <2>. SUFFICES ASSUME NEW p \in Preview, SaysRestored(p)' PROVE Clean(p)' /\ NotAgain(p)'
      BY DEF RestoredInv
    <2>1. Clean(p) /\ NotAgain(p) BY <1>3, RestoredBefore
    <2>2. ASSUME NEW b \in Proc, target'[b] = p, pc'[b] \in Advanced PROVE FALSE
      <3>1. CASE b # a BY <1>3, <2>1, <2>2, <3>1 DEF Others, NotAgain
      <3>2. CASE b = a
        <4>1. /\ target[a] = p
              /\ pc[a] \in Advanced \/ (pc[a] = "prepare" /\ Journals(WorkspaceOf[p]) = {})
          BY <1>3, <2>2, <3>2 DEF Moves, Advanced, Committed
        <4>2. pc[a] = "prepare" => p \notin committed
          BY <4>1 DEF IInv, CommitInv, Uncommitted, PreCommit
        <4>3. Journals(WorkspaceOf[p]) = {} => ~HasJournal(p) BY DEF Journals
        <4>. QED BY <2>1, <4>1, <4>2, <4>3 DEF NotAgain, Entering
      <3>. QED BY <3>1, <3>2
    <2>3. \/ p \in committed' \/ HasJournal(p)'
          \/ preview'[p] # "unreserved" /\ \A b \in Proc : target'[b] = p => pc'[b] \notin Entering
      <3>1. CASE p \in committed BY <1>0, <3>1
      <3>2. CASE p \notin committed /\ HasJournal(p)
        <4>. SUFFICES ASSUME ~HasJournal(p)'
                      PROVE  preview'[p] # "unreserved" /\ \A b \in Proc : target'[b] = p => pc'[b] \notin Entering
          OBVIOUS
        <4>1. target[a] = p /\ pc[a] = "recoverRemove"
          <5>1. target[a] = p /\ pc[a] \in {"removeJournal", "cleanJournal", "recoverRemove"}
            BY <1>3, <3>2 DEF Records
          <5>. QED BY <2>1, <3>2, <5>1 DEF NotAgain, Advanced, FInv, EndedInv, Finishing
        <4>2. preview'[p] # "unreserved" BY <1>3, <4>1 DEF Records, FInv, EndedInv
        <4>3. ASSUME NEW b \in Proc, target'[b] = p, pc'[b] \in Entering PROVE FALSE
          <5>1. CASE b # a
            <6>1. target[b] = p /\ pc[b] \in Holding /\ pc[a] \in Holding
              BY <1>3, <4>1, <4>3, <5>1 DEF Others, Entering, Holding, PreCommit, Recovering
            <6>. QED BY <4>1, <5>1, <6>1, SameHolder
          <5>2. CASE b = a BY <1>3, <4>1, <4>3, <5>2 DEF Moves, Entering, Advanced, Committed
          <5>. QED BY <5>1, <5>2
        <4>. QED BY <4>2, <4>3
      <3>3. CASE preview[p] # "unreserved" /\ \A b \in Proc : target[b] = p => pc[b] \notin Entering
        <4>1. preview'[p] # "unreserved" BY <1>3, <3>3 DEF Records, Entering
        <4>2. ASSUME NEW b \in Proc, target'[b] = p, pc'[b] \in Entering PROVE FALSE
          <5>1. CASE b # a BY <1>3, <3>3, <4>2, <5>1 DEF Others
          <5>2. CASE b = a
            <6>1. /\ target[a] = p
                  /\ pc[a] \in Entering \cup Advanced \/ (pc[a] = "reserveRead" /\ preview[p] = "unreserved")
              BY <1>3, <4>2, <5>2 DEF Moves, Entering, Advanced, Committed
            <6>. QED BY <2>1, <3>3, <6>1 DEF NotAgain
          <5>. QED BY <5>1, <5>2
        <4>. QED BY <4>1, <4>2
      <3>. QED BY <2>1, <3>1, <3>2, <3>3 DEF NotAgain
    <2>. QED BY <1>1, <2>1, <2>2, <2>3 DEF NotAgain
  <1>. QED BY <1>2, <1>3, NextStepped DEF Stepped

LEMMA NextFInv == IInv /\ FilesBegun /\ FInv /\ [Next]_vars => FInv'
  <1>. SUFFICES ASSUME IInv, FilesBegun, FInv, [Next]_vars PROVE FInv'
    OBVIOUS
  <1>1. CASE Next
    BY <1>1, NextEndedInv, NextFoundInv, NextCompleteInv, NextRolledInv, NextRestoredInv DEF FInv
  <1>2. CASE UNCHANGED vars
    BY <1>2 DEF vars, records, disk, locals, history, budget, FInv, EndedInv, FoundInv, CompleteInv, RolledInv,
       RestoredInv, Says, SaysRestored, NotAgain, Clean, Entire, Open, HasJournal, Intended, At, Base
  <1>. QED BY <1>1, <1>2

\* What processes know, what they found in the files and what the records say
\* agree at every label of apply_preview and of Recovery.
THEOREM FilesInvariance == Spec => []FInv
  BY InitFInv, NextFInv, Invariance, FilesBegunHolds, PTL DEF Spec

-----------------------------------------------------------------------------
(* What Receipts and evidence are worth *)

\* A Preview that can be applied again, a Receipt that says rolled_back and a
\* Recovery Receipt that says restored mean that nothing of the plan is in the
\* files (release_preview, rollback_transaction, recover).
THEOREM NoResidueHolds == Spec => []NoResidue
  <1>1. IInv /\ FilesBegun /\ FInv => NoResidue
    <2>. SUFFICES ASSUME IInv, FilesBegun, FInv, NEW p \in Preview, fs[WorkspaceOf[p]].by = p
                  PROVE  /\ preview[p] # "unreserved"
                         /\ receipt[p].outcome # "rolled_back"
                         /\ \A r \in RecoveryReceipt : r.outcome = "restored" => recovery[p][r] = 0
      BY DEF NoResidue
    <2>1. ~Clean(p) BY DEF Clean
    <2>2. p \in committed BY ConstantAssumption DEF FilesBegun
    <2>3. preview[p] # "unreserved" BY <2>2 DEF IInv, CommitInv, Spent
    <2>4. receipt[p].outcome # "rolled_back" BY <2>1 DEF FInv, RolledInv, Says
    <2>5. ASSUME NEW r \in RecoveryReceipt, r.outcome = "restored" PROVE recovery[p][r] = 0
      <3>1. recovery[p][r] \in Nat BY DEF IInv, TypeOK, RecordsOK
      <3>2. ~SaysRestored(p) BY <2>1 DEF FInv, RestoredInv
      <3>. QED BY <2>5, <3>1, <3>2 DEF SaysRestored
    <2>. QED BY <2>3, <2>4, <2>5
  <1>. QED BY <1>1, Invariance, FilesBegunHolds, FilesInvariance, PTL

\* While nobody else writes, a Receipt that says applied means the whole plan is
\* in the files (commit_operations, the last inspection before the seal).
THEOREM AppliedIsCompleteHolds == Spec => []AppliedIsComplete
  <1>1. FInv => AppliedIsComplete
    BY DEF FInv, CompleteInv, AppliedIsComplete, Says, Applied
  <1>. QED BY <1>1, FilesInvariance, PTL

\* Both together: Receipts tell the truth.
THEOREM ReceiptsTellTruthHolds == Spec => []ReceiptsTellTruth
  BY NoResidueHolds, AppliedIsCompleteHolds, PTL DEF ReceiptsTellTruth

\* The journal of a partly applied Preview goes only when a user accepted that
\* state (finish_terminal_cleanup, recover).
THEOREM PartialNeedsDecisionHolds == Spec => PartialNeedsDecision
  <1>1. ASSUME IInv, FilesBegun, FInv, [Next]_vars, NEW p \in Preview,
               HasJournal(p), ~HasJournal(p)', fs[WorkspaceOf[p]].by = p, fs[WorkspaceOf[p]] # Intended(p)
        PROVE  \E a \in Proc : target[a] = p /\ outcome[a] = "accepted_current"
    <2>1. Next BY <1>1 DEF vars, records, HasJournal
    <2>2. PICK a \in Proc : target[a] = p /\ pc[a] \in {"removeJournal", "cleanJournal", "recoverRemove"}
      BY <1>1, <2>1, NextStepped DEF Stepped, Quiet, Records
    <2>3. ~Clean(p) /\ ~Entire(p) /\ p \in committed BY <1>1, ConstantAssumption DEF Clean, Entire, FilesBegun
    <2>4. pc[a] # "removeJournal" BY <1>1, <2>2, <2>3 DEF IInv, CommitInv, Uncommitted, PreCommit
    <2>5. pc[a] # "cleanJournal"
      <3>1. pc[a] = "cleanJournal" => outcome[a] \in {"applied", "rolled_back"}
        BY <1>1 DEF FInv, EndedInv, Cleaning, Finishing, ApplicationOutcome
      <3>. QED BY <1>1, <2>2, <2>3, <3>1 DEF FInv, FoundInv, Finishing
    <2>6. outcome[a] \in RecoveryOutcome /\ outcome[a] # "restored"
      BY <1>1, <2>2, <2>3, <2>4, <2>5 DEF FInv, FoundInv, Restoring, IInv, ControlInv, Outcomes, Recovering
    <2>. QED BY <2>2, <2>6 DEF RecoveryOutcome
  <1>2. IInv /\ FilesBegun /\ FInv /\ [Next]_vars =>
          [\A p \in Preview :
             HasJournal(p) /\ ~HasJournal(p)' /\ fs[WorkspaceOf[p]].by = p
                 /\ fs[WorkspaceOf[p]] # Intended(p) =>
                 \E a \in Proc : target[a] = p /\ outcome[a] = "accepted_current"]_vars
    BY <1>1
  <1>. QED BY <1>2, Invariance, FilesBegunHolds, FilesInvariance, PTL DEF Spec, PartialNeedsDecision

-----------------------------------------------------------------------------
(* The Receipt of a commit is on record when its journal goes *)

Ending == {"dropPreview"} \cup Cleaning

\* A Preview has a Receipt, or a Recovery linked to one, or somebody who read one,
\* only when its one commit has come to its end.
Recorded(p) ==
    \/ HasReceipt(p) \/ Linked(p) # {}
    \/ \E a \in Proc : target[a] = p /\ pc[a] = "syncWrite"
Ended(p) == p \in committed /\ \A a \in Proc : target[a] = p => pc[a] \notin Committed \cup {"writeReceipt"}
RecordedInv == \A p \in Preview : Recorded(p) => Ended(p)

\* Until the journal is gone the Receipt is protected, also from those who write
\* back what they read.
ProtectedInv ==
    \A b \in Proc : pc[b] \in Ending =>
        /\ receipt[target[b]].outcome = outcome[b]
        /\ ChainProtected(target[b])
        /\ \A a \in Proc : target[a] = target[b] /\ pc[a] = "syncWrite" =>
              seen[a].outcome = outcome[b] /\ seen[a].cleanup

MovesOn(a) ==
    /\ pc'[a] \in Committed \cup {"writeReceipt"} => pc[a] \in Committed \cup {"commitStart"} /\ target'[a] = target[a]
    /\ pc'[a] = "syncWrite" =>
          pc[a] = "syncRead" /\ target'[a] = target[a] /\ HasReceipt(target[a]) /\ seen'[a] = receipt[target[a]]
    /\ pc'[a] \in Ending =>
          /\ outcome'[a] = outcome[a] /\ target'[a] = target[a]
          /\ \/ pc[a] \in Ending
             \/ pc[a] = "writeReceipt" /\ receipt'[target[a]].outcome = outcome[a] /\ receipt'[target[a]].cleanup

Unread(p)  == receipt'[p] = receipt[p] \/ (~ChainProtected(p) /\ receipt'[p] = NoReceipt)
Links(a, p) ==
    \A r \in RecoveryReceipt : r.linked /\ recovery'[p][r] > 0 =>
        recovery[p][r] > 0 \/ (target[a] = p /\ pc[a] = "recoverReceipt" /\ HasReceipt(p))
Writes(a) ==
    \A p \in Preview :
        /\ \/ Unread(p)
           \/ target[a] = p /\ pc[a] \in {"writeReceipt", "clearWrite"}
           \/ target[a] = p /\ pc[a] = "syncWrite" /\ receipt'[p] = [seen[a] EXCEPT !.synced = TRUE]
        /\ Links(a, p)
Silent ==
    /\ UNCHANGED <<pc, target, outcome, seen>>
    /\ \A p \in Preview :
        /\ Unread(p)
        /\ \A r \in RecoveryReceipt : r.linked /\ recovery'[p][r] > 0 => recovery[p][r] > 0

LEMMA PrunedReceipts ==
    ASSUME RecordsOK, NEW p \in Preview
    PROVE  /\ PrunedReceipt[p] = receipt[p] \/ (~ChainProtected(p) /\ PrunedReceipt[p] = NoReceipt)
           /\ \A r \in RecoveryReceipt : PrunedRecovery[p][r] > 0 => recovery[p][r] > 0
  BY DEF RecordsOK, PrunedReceipt, PrunedRecovery, ExpiredChains, NoRecovery

LEMMA StepMovesOn ==
    ASSUME IInv, NEW a \in Proc, Step(a)
    PROVE  MovesOn(a)
  <1>. USE DEF IInv, TypeOK, RecordsOK, LocalsOK, MovesOn, Ending, Cleaning, Committed, Continue, Finish, Goto, locals
  <1>1. CASE ReserveStep(a)
    BY <1>1 DEF ReserveStep, CheckReceipt, ReadPreview, RecheckReceipt, LockForApplication,
       CheckReceiptLocked, ReserveRead, ReserveWrite, Release, AlreadyApplied, TakeLock
  <1>2. CASE StageStep(a)
    BY <1>2 DEF StageStep, Prepare, WriteJournal, StageMkdir, StageMark, StageCopy, StageCleanup, StageFailed,
       RemoveJournal
  <1>3. CASE CommitStep(a)
    BY <1>3 DEF CommitStep, CommitStart, Intent, RecordIntent, Effect, Prove, RecordProof, Inspect, CommitSeal, Rollback, Undo, RolledSeal,
       RecoverySeal, RollbackFrom, UndoStep, Decide
  <1>4. CASE FinishStep(a)
    <2>1. CASE WriteReceipt(a)
      <3>1. PrunedReceipt \in [Preview -> Receipt] /\ target[a] \in Preview
        BY <2>1, PrunedTypes DEF WriteReceipt, ControlInv, Targets
      <3>2. /\ pc'[a] \in {"dropPreview", "idle"}
            /\ pc'[a] = "dropPreview" =>
                 /\ pc[a] = "writeReceipt" /\ UNCHANGED locals
                 /\ receipt' = [PrunedReceipt EXCEPT ![target[a]] =
                                   [outcome |-> outcome[a], cleanup |-> TRUE, synced |-> FALSE]]
        BY <2>1 DEF WriteReceipt
      <3>. QED BY <3>1, <3>2
    <2>2. CASE ~WriteReceipt(a)
      BY <1>4, <2>2 DEF FinishStep, DropPreview, CleanArtifacts, RetirePreview, CleanJournal, ClearRead,
         ClearWrite, PostCommit, SyncRead, SyncWrite, DiscardRemove, ReadSeen
    <2>. QED BY <2>1, <2>2
  <1>5. CASE RecoverStep(a)
    BY <1>5 DEF RecoverStep, LockForRecovery, RecoverCheck, RecoverRollback, RecoverUndo, RecoverReceipt, RecoverRetire,
       RecoverClean, RecoverRemove, RollbackFrom, UndoStep, TakeLock
  <1>. QED BY <1>1, <1>2, <1>3, <1>4, <1>5 DEF Step

LEMMA StepWrites ==
    ASSUME IInv, NEW a \in Proc, Step(a)
    PROVE  Writes(a)
  <1>. USE DEF IInv, TypeOK, RecordsOK, LocalsOK
  <1>1. CASE UNCHANGED <<receipt, recovery>> BY <1>1 DEF Writes, Unread, Links
  <1>2. CASE receipt' = PrunedReceipt /\ recovery' = PrunedRecovery
    BY <1>2, PrunedReceipts DEF Writes, Unread, Links
  <1>3. CASE WriteReceipt(a)
    <2>1. /\ pc[a] = "writeReceipt" /\ recovery' = PrunedRecovery
          /\ \/ receipt' = PrunedReceipt
             \/ receipt' = [PrunedReceipt EXCEPT ![target[a]] = [outcome |-> outcome[a], cleanup |-> TRUE, synced |-> FALSE]]
      BY <1>3 DEF WriteReceipt
    <2>2. \A p \in Preview : p # target[a] => receipt'[p] = PrunedReceipt[p] BY <2>1, PrunedTypes
    <2>. QED BY <2>1, <2>2, PrunedReceipts DEF Writes, Unread, Links
  <1>4. CASE ClearWrite(a) \/ SyncWrite(a)
    <2>1. recovery' = recovery /\ \A p \in Preview : p # target[a] => receipt'[p] = receipt[p]
      BY <1>4 DEF ClearWrite, SyncWrite
    <2>2. /\ pc[a] \in {"clearWrite", "syncWrite"}
          /\ pc[a] = "syncWrite" /\ target[a] \in Preview => receipt'[target[a]] = [seen[a] EXCEPT !.synced = TRUE]
      BY <1>4 DEF ClearWrite, SyncWrite
    <2>. QED BY <2>1, <2>2 DEF Writes, Unread, Links
  <1>5. CASE RecoverReceipt(a)
    <2>1. /\ pc[a] = "recoverReceipt" /\ receipt' = PrunedReceipt /\ target[a] \in Preview
          /\ \/ recovery' = [PrunedRecovery EXCEPT ![target[a]][
                                [outcome |-> outcome[a], linked |-> HasReceipt(target[a])]] = @ + 1]
             \/ recovery' = PrunedRecovery
      BY <1>5 DEF RecoverReceipt, ControlInv, Targets
    <2>2. PrunedRecovery \in [Preview -> [RecoveryReceipt -> Nat]] BY PrunedTypes
    <2>3. ASSUME NEW p \in Preview, NEW r \in RecoveryReceipt
          PROVE  recovery'[p][r] = PrunedRecovery[p][r] \/ (p = target[a] /\ r.linked = HasReceipt(p))
      BY <2>1, <2>2
    <2>. QED BY <2>1, <2>3, PrunedReceipts DEF Writes, Unread, Links
  <1>. QED
    <2>1. ReserveStep(a) => UNCHANGED <<receipt, recovery>>
      BY DEF ReserveStep, CheckReceipt, ReadPreview, RecheckReceipt, LockForApplication, CheckReceiptLocked,
         ReserveRead, ReserveWrite, Release, records
    <2>2. StageStep(a) => UNCHANGED <<receipt, recovery>> \/ (receipt' = PrunedReceipt /\ recovery' = PrunedRecovery)
      BY DEF StageStep, Prepare, WriteJournal, StageMkdir, StageMark, StageCopy, StageCleanup, StageFailed,
         RemoveJournal, records
    <2>3. CommitStep(a) => UNCHANGED <<receipt, recovery>>
      BY DEF CommitStep, CommitStart, Intent, RecordIntent, Effect, Prove, RecordProof, Inspect, CommitSeal, Rollback, Undo, RolledSeal,
         RecoverySeal, records
    <2>4. FinishStep(a) => WriteReceipt(a) \/ ClearWrite(a) \/ SyncWrite(a) \/ UNCHANGED <<receipt, recovery>>
      BY DEF FinishStep, DropPreview, CleanArtifacts, RetirePreview, CleanJournal, ClearRead, PostCommit, SyncRead,
         DiscardRemove, records
    <2>5. RecoverStep(a) =>
            \/ RecoverReceipt(a) \/ UNCHANGED <<receipt, recovery>>
            \/ receipt' = PrunedReceipt /\ recovery' = PrunedRecovery
      BY DEF RecoverStep, LockForRecovery, RecoverCheck, RecoverRollback, RecoverUndo, RecoverRetire, RecoverClean,
         RecoverRemove, records
    <2>. QED BY <1>1, <1>2, <1>3, <1>4, <1>5, <2>1, <2>2, <2>3, <2>4, <2>5 DEF Step

LEMMA NextWrites ==
    ASSUME IInv, Next
    PROVE  Silent \/ \E a \in Proc : Others(a) /\ MovesOn(a) /\ Writes(a)
  <1>. USE DEF IInv, TypeOK, RecordsOK, LocalsOK
  <1>1. ASSUME NEW a \in Proc, Step(a) PROVE Others(a) /\ MovesOn(a) /\ Writes(a)
    <2>1. Others(a)
      BY <1>1, ReserveStepped, StageStepped, CommitStepped, FinishStepped, RecoverStepped DEF Step
    <2>. QED BY <1>1, <2>1, StepMovesOn, StepWrites
  <1>2. ASSUME NEW a \in Proc, Crash(a) PROVE Others(a) /\ MovesOn(a) /\ Writes(a)
    BY <1>2 DEF Crash, Finish, Goto, records, Others, MovesOn, Committed, Ending, Cleaning, Writes, Unread, Links
  <1>3. ASSUME NEW a \in Proc, NEW p \in Preview, Command(a, p) PROVE Others(a) /\ MovesOn(a) /\ Writes(a)
    BY <1>3 DEF Command, StartApply, DiscardRead, StartRecover, Begin, Goto, records, Others, MovesOn, Committed,
       Ending, Cleaning, Writes, Unread, Links
  <1>4. ASSUME NEW p \in Preview, Store(p) PROVE Silent
    <2>1. CASE PruneReceipts(p)
      <3>1. \A q \in Preview : Unread(q) BY <2>1 DEF PruneReceipts, Unread
      <3>2. \A q \in Preview, r \in RecoveryReceipt : recovery'[q][r] > 0 => recovery[q][r] > 0
        <4>1. CASE recovery' = [recovery EXCEPT ![p] =
                      [r \in RecoveryReceipt |-> IF r.linked THEN 0 ELSE recovery[p][r]]]
          BY <4>1
        <4>2. ASSUME NEW r \in RecoveryReceipt, recovery[p][r] > 0, recovery' = [recovery EXCEPT ![p][r] = @ - 1]
              PROVE  \A q \in Preview, t \in RecoveryReceipt : recovery'[q][t] > 0 => recovery[q][t] > 0
          BY <4>2
        <4>. QED BY <2>1, <4>1, <4>2 DEF PruneReceipts
      <3>. QED BY <2>1, <3>1, <3>2 DEF PruneReceipts, Silent, locals
    <2>2. CASE ReconcileStatus(p) \/ Expire(p)
      BY <2>2 DEF ReconcileStatus, Expire, Silent, Unread, locals, records
    <2>. QED BY <1>4, <2>1, <2>2 DEF Store
  <1>5. CASE PruneExpired BY <1>5, PrunedReceipts DEF PruneExpired, Silent, Unread, locals
  <1>6. ASSUME NEW w \in Workspace, ExternalWrite(w) PROVE Silent
    BY <1>6 DEF ExternalWrite, Silent, Unread, locals, records
  <1>. QED BY <1>1, <1>2, <1>3, <1>4, <1>5, <1>6 DEF Next

LEMMA NextRecordedInv ==
    ASSUME IInv, FInv, RecordedInv, Next
    PROVE  RecordedInv'
  <1>0. committed \subseteq committed' BY OthersClose DEF Closing, CommitStart
  <1>1. CASE Silent
    <2>. SUFFICES ASSUME NEW p \in Preview, Recorded(p)' PROVE Ended(p)'
      BY DEF RecordedInv
    <2>1. Recorded(p)
      BY <1>1 DEF Silent, Unread, Recorded, HasReceipt, Linked, NoReceipt
    <2>. QED BY <1>0, <1>1, <2>1 DEF RecordedInv, Ended, Silent
  <1>2. ASSUME NEW a \in Proc, Others(a), MovesOn(a), Writes(a) PROVE RecordedInv'
    <2>. SUFFICES ASSUME NEW p \in Preview, Recorded(p)' PROVE Ended(p)'
      BY DEF RecordedInv
    <2>1. CASE Ended(p)
      <3>1. ASSUME NEW b \in Proc, target'[b] = p, pc'[b] \in Committed \cup {"writeReceipt"} PROVE FALSE
        <4>1. CASE b # a BY <1>2, <2>1, <3>1, <4>1 DEF Others, Ended
        <4>2. CASE b = a
          <5>1. pc[a] \in Committed \cup {"commitStart"} /\ target[a] = p BY <1>2, <3>1, <4>2 DEF MovesOn
          <5>. QED BY <2>1, <5>1 DEF Ended, IInv, CommitInv, Uncommitted, PreCommit
        <4>. QED BY <4>1, <4>2
      <3>. QED BY <1>0, <2>1, <3>1 DEF Ended
    <2>2. CASE target[a] = p /\ pc[a] \in {"writeReceipt", "clearWrite"}
      <3>1. p \in committed BY <2>2 DEF FInv, EndedInv, Finishing
      <3>2. ASSUME NEW b \in Proc, target'[b] = p, pc'[b] \in Committed \cup {"writeReceipt"} PROVE FALSE
        <4>1. CASE b # a
          <5>1. target[b] = p /\ pc[b] \in Holding /\ pc[a] \in Holding
            BY <1>2, <2>2, <3>2, <4>1 DEF Others, Holding, Finishing
          <5>. QED BY <2>2, <4>1, <5>1, SameHolder
        <4>2. CASE b = a BY <1>2, <2>2, <3>2, <4>2 DEF MovesOn, Committed
        <4>. QED BY <4>1, <4>2
      <3>. QED BY <1>0, <3>1, <3>2 DEF Ended
    <2>3. Recorded(p) \/ (target[a] = p /\ pc[a] \in {"writeReceipt", "clearWrite"})
      <3>1. ASSUME receipt'[p].outcome # "none"
            PROVE  Recorded(p) \/ (target[a] = p /\ pc[a] \in {"writeReceipt", "clearWrite"})
        BY <1>2, <3>1 DEF Writes, Unread, Recorded, HasReceipt, NoReceipt
      <3>2. ASSUME NEW r \in RecoveryReceipt, r.linked, recovery'[p][r] > 0 PROVE Recorded(p)
        BY <1>2, <3>2 DEF Writes, Links, Recorded, Linked
      <3>3. ASSUME NEW b \in Proc, target'[b] = p, pc'[b] = "syncWrite" PROVE Recorded(p)
        BY <1>2, <3>3 DEF Others, MovesOn, Recorded
      <3>. QED BY <3>1, <3>2, <3>3 DEF Recorded, HasReceipt, Linked
    <2>. QED BY <2>1, <2>2, <2>3 DEF RecordedInv
  <1>. QED BY <1>1, <1>2, NextWrites

\* What is protected stays so: no prune takes it, nobody else holds the lock, and
\* those who write back read the same.
LEMMA NextProtectedInv ==
    ASSUME IInv, RecordedInv, ProtectedInv, Next
    PROVE  ProtectedInv'
  <1>1. CASE Silent
    <2>. SUFFICES ASSUME NEW b \in Proc, pc'[b] \in Ending
                  PROVE  /\ receipt'[target'[b]].outcome = outcome'[b]
                         /\ receipt'[target'[b]].cleanup
                         /\ \A r \in RecoveryReceipt : ~(r.linked /\ recovery'[target'[b]][r] > 0)
                         /\ \A a \in Proc : target'[a] = target'[b] /\ pc'[a] = "syncWrite" =>
                               seen'[a].outcome = outcome'[b] /\ seen'[a].cleanup
      BY DEF ProtectedInv, ChainProtected, Linked
    <2>1. target[b] \in Preview BY <1>1 DEF Silent, IInv, ControlInv, Targets, Ending, Cleaning
    <2>. QED BY <1>1, <2>1 DEF Silent, Unread, ProtectedInv, ChainProtected, Linked
  <1>2. ASSUME NEW a \in Proc, Others(a), MovesOn(a), Writes(a) PROVE ProtectedInv'
    <2>. SUFFICES ASSUME NEW b \in Proc, pc'[b] \in Ending
                  PROVE  /\ receipt'[target'[b]].outcome = outcome'[b]
                         /\ receipt'[target'[b]].cleanup
                         /\ \A r \in RecoveryReceipt : ~(r.linked /\ recovery'[target'[b]][r] > 0)
                         /\ \A c \in Proc : target'[c] = target'[b] /\ pc'[c] = "syncWrite" =>
                               seen'[c].outcome = outcome'[b] /\ seen'[c].cleanup
      BY DEF ProtectedInv, ChainProtected, Linked
    <2>1. target'[b] = target[b] /\ outcome'[b] = outcome[b] BY <1>2 DEF Others, MovesOn
    <2>2. CASE pc[b] \in Ending
      <3>1. target[b] \in Preview BY <2>2 DEF IInv, ControlInv, Targets, Ending, Cleaning
      <3>2. /\ receipt[target[b]].outcome = outcome[b] /\ ChainProtected(target[b])
            /\ \A c \in Proc : target[c] = target[b] /\ pc[c] = "syncWrite" =>
                  seen[c].outcome = outcome[b] /\ seen[c].cleanup
        BY <2>2 DEF ProtectedInv
      <3>3. ~(target[a] = target[b] /\ pc[a] \in {"writeReceipt", "clearWrite", "recoverReceipt"})
        <4>1. ASSUME target[a] = target[b], pc[a] \in {"writeReceipt", "clearWrite", "recoverReceipt"} PROVE FALSE
          <5>1. pc[a] \in Holding /\ pc[b] \in Holding
            BY <2>2, <4>1 DEF Holding, Finishing, Recovering, Ending, Cleaning
          <5>2. a = b BY <4>1, <5>1, SameHolder
          <5>. QED BY <2>2, <4>1, <5>2 DEF Ending, Cleaning
        <4>. QED BY <4>1
      <3>4. receipt'[target[b]].outcome = outcome[b] /\ receipt'[target[b]].cleanup
        <4>1. \/ receipt'[target[b]] = receipt[target[b]]
              \/ target[a] = target[b] /\ pc[a] = "syncWrite"
                   /\ receipt'[target[b]] = [seen[a] EXCEPT !.synced = TRUE]
          BY <1>2, <3>1, <3>2, <3>3 DEF Writes, Unread
        <4>2. seen[a] \in Receipt BY DEF IInv, TypeOK, LocalsOK
        <4>. QED BY <3>2, <4>1, <4>2 DEF ChainProtected, Receipt
      <3>5. \A r \in RecoveryReceipt : ~(r.linked /\ recovery'[target[b]][r] > 0)
        BY <1>2, <3>1, <3>2, <3>3 DEF Writes, Links, ChainProtected, Linked
      <3>6. ASSUME NEW c \in Proc, target'[c] = target[b], pc'[c] = "syncWrite"
            PROVE  seen'[c].outcome = outcome[b] /\ seen'[c].cleanup
        <4>1. CASE c # a BY <1>2, <3>2, <3>6, <4>1 DEF Others
        <4>2. CASE c = a BY <1>2, <3>2, <3>6, <4>2 DEF MovesOn, ChainProtected
        <4>. QED BY <4>1, <4>2
      <3>. QED BY <2>1, <3>4, <3>5, <3>6
    <2>3. CASE pc[b] \notin Ending
      <3>1. a = b BY <1>2, <2>3 DEF Others
      <3>2. /\ pc[b] = "writeReceipt"
            /\ receipt'[target[b]].outcome = outcome[b] /\ receipt'[target[b]].cleanup
        BY <1>2, <2>3, <3>1 DEF MovesOn
      <3>3. target[b] \in Preview BY <3>2 DEF IInv, ControlInv, Targets
      <3>4. ~Recorded(target[b]) BY <3>2, <3>3 DEF RecordedInv, Ended
      <3>5. \A r \in RecoveryReceipt : ~(r.linked /\ recovery'[target[b]][r] > 0)
        BY <1>2, <3>1, <3>2, <3>3, <3>4 DEF Writes, Links, Recorded, Linked
      <3>6. ASSUME NEW c \in Proc, target'[c] = target[b], pc'[c] = "syncWrite" PROVE FALSE
        <4>1. CASE c # a BY <1>2, <3>4, <3>6, <4>1 DEF Others, Recorded
        <4>2. CASE c = a BY <3>1, <3>6, <4>2 DEF Ending, Cleaning
        <4>. QED BY <4>1, <4>2
      <3>. QED BY <2>1, <3>2, <3>5, <3>6
    <2>. QED BY <2>2, <2>3
  <1>. QED BY <1>1, <1>2, NextWrites

\* A commit has no Receipt before its end, and from its Receipt to the removal of
\* its journal that Receipt is on record.
THEOREM ReceiptsInvariance == Spec => [](RecordedInv /\ ProtectedInv)
  <1>1. Init => RecordedInv /\ ProtectedInv
    BY DEF Init, RecordedInv, Recorded, ProtectedInv, HasReceipt, Linked, NoReceipt, NoRecovery, Ending, Cleaning
  <1>2. IInv /\ FInv /\ RecordedInv /\ ProtectedInv /\ [Next]_vars => (RecordedInv /\ ProtectedInv)'
    <2>. SUFFICES ASSUME IInv, FInv, RecordedInv, ProtectedInv, [Next]_vars PROVE (RecordedInv /\ ProtectedInv)'
      OBVIOUS
    <2>1. CASE Next BY <2>1, NextRecordedInv, NextProtectedInv
    <2>2. CASE UNCHANGED vars
      BY <2>2 DEF vars, records, locals, history, RecordedInv, Recorded, Ended, ProtectedInv, ChainProtected,
         HasReceipt, Linked
    <2>. QED BY <2>1, <2>2
  <1>. QED BY <1>1, <1>2, Invariance, FilesInvariance, PTL DEF Spec

\* The outcome of a commit is on record when its journal goes
\* (receipt_chain_protected, finish_terminal_cleanup, recover).
THEOREM OutcomeRecordedHolds == Spec => OutcomeRecorded
  <1>1. ASSUME IInv, FInv, ProtectedInv, [Next]_vars, NEW p \in committed, HasJournal(p), ~HasJournal(p)'
        PROVE  \/ receipt[p].outcome \in {"applied", "rolled_back"}
               \/ \E a \in Proc : target[a] = p /\ outcome[a] \in RecoveryOutcome
    <2>1. Next BY <1>1 DEF vars, records, HasJournal
    <2>2. p \in Preview BY <1>1 DEF IInv, TypeOK, HistoryOK
    <2>3. PICK a \in Proc : target[a] = p /\ pc[a] \in {"removeJournal", "cleanJournal", "recoverRemove"}
      BY <1>1, <2>1, <2>2, NextStepped DEF Stepped, Quiet, Records
    <2>4. pc[a] # "removeJournal" BY <1>1, <2>3 DEF IInv, CommitInv, Uncommitted, PreCommit
    <2>5. CASE pc[a] = "cleanJournal"
      <3>1. outcome[a] \in {"applied", "rolled_back"}
        BY <1>1, <2>5 DEF FInv, EndedInv, Cleaning, Finishing, ApplicationOutcome
      <3>. QED BY <1>1, <2>3, <2>5, <3>1 DEF ProtectedInv, Ending, Cleaning
    <2>6. CASE pc[a] = "recoverRemove"
      BY <1>1, <2>3, <2>6 DEF IInv, ControlInv, Outcomes, Recovering
    <2>. QED BY <2>3, <2>4, <2>5, <2>6
  <1>2. IInv /\ FInv /\ ProtectedInv /\ [Next]_vars =>
          [\A p \in committed :
             HasJournal(p) /\ ~HasJournal(p)' =>
                 \/ receipt[p].outcome \in {"applied", "rolled_back"}
                 \/ \E a \in Proc : target[a] = p /\ outcome[a] \in RecoveryOutcome]_vars
    BY <1>1
  <1>. QED BY <1>2, Invariance, FilesInvariance, ReceiptsInvariance, PTL DEF Spec, OutcomeRecorded
==============================================================================
