----------------------------- MODULE SkillInstall -----------------------------
(***************************************************************************)
(* The installation of the companion skill (src/src/skill_install.rs): a   *)
(* directory is staged, recorded in a journal, swapped in by two renames   *)
(* and cleaned up.  The journal lets any later run finish what a crashed   *)
(* or failing one began, and what the user made is removed only by a run   *)
(* that was given --replace.                                               *)
(*                                                                         *)
(* A release stands for its version and for the digest of its files.  The  *)
(* lock file admits one run at a time: any other fails at once, without a  *)
(* change.  The user may change the destination at any moment.             *)
(***************************************************************************)
EXTENDS Integers

CONSTANTS
    Releases,       \* the lspctl binaries that run, as version numbers
    Nothing,        \* the files of a directory that is not there
    Mine,           \* files the user made or changed
    Part,           \* some of the files of a directory
    NoMarker,       \* a marker that is missing or invalid
    UserDirs,       \* what the user may turn the destination into
    MaxStages,      \* bound: staging directories
    MaxEdits        \* bound: changes by the user

ASSUME SkillAssumption ==
    /\ Releases \subseteq Nat /\ MaxStages \in Nat /\ MaxEdits \in Nat
    /\ Releases \intersect {Nothing, Mine, Part, NoMarker} = {}
    /\ Nothing # Mine /\ Nothing # Part /\ Mine # Part
    /\ UserDirs \subseteq [files : Releases \cup {Nothing, Mine}, marker : Releases \cup {NoMarker}]

VARIABLES
    destination,    \* .agent/skills/lspctl
    stage, backup,  \* .lspctl-stage-<id> and .lspctl-backup-.lspctl-stage-<id>
    created,        \* the identifiers used so far
    journal,        \* the one journal file
    at,             \* where the run is, or "idle"
    release,        \* its binary
    replace,        \* whether it was given --replace
    id, was,        \* the stage it created and the marker it found
    saw,            \* what finish_journal found
    edits,          \* how often the user changed the destination
    touched,        \* history: the user did since the decision the journal records
    raced           \* history: the user did since the run began

disk == <<destination, stage, backup, created, journal>>
run == <<release, replace, id, was, saw>>
vars == <<disk, at, run, edits, touched, raced>>

Ids == 1..MaxStages
Dir == [files : Releases \cup {Nothing, Mine, Part}, marker : Releases \cup {NoMarker}]
Journals == [id : Ids, digest : Releases, previous : Releases \cup {NoMarker}]
NoJournal == [id |-> 0]

Absent == [files |-> Nothing, marker |-> NoMarker]
Begun == [files |-> Part, marker |-> NoMarker]
Whole(version) == [files |-> version, marker |-> version]
Exists(dir) == dir.files # Nothing

-----------------------------------------------------------------------------
(* What a directory holds                                                  *)

(* Mutant: a marker counts whatever files there are. *)
OlderMarked(dir, version) == dir.marker # NoMarker /\ dir.marker < version

(* The files are those that the marker names, of an earlier release. *)
OlderManaged(dir, version) ==
    /\ dir.marker # NoMarker /\ dir.files = dir.marker
    /\ dir.marker < version

(* replacement_outcome. *)
MayReplace(dir, version, consent) ==
    \/ ~Exists(dir)
    \/ OlderManaged(dir, version)
    \/ consent

(* What fs::remove_dir_all leaves when it is interrupted. *)
Remains(dir) == {[files |-> Part, marker |-> dir.marker], [files |-> Part, marker |-> NoMarker],
                 [files |-> dir.files, marker |-> NoMarker]}

-----------------------------------------------------------------------------
(* install_to                                                              *)

Go(step) == at' = step /\ UNCHANGED <<release, replace, edits, raced>>

Begin(version, consent) ==
    /\ at = "idle" /\ at' = "look"
    /\ release' = version /\ replace' = consent /\ raced' = FALSE
    /\ UNCHANGED <<disk, id, was, saw, edits, touched>>

(* The run is over, with success or without, or it crashes. *)
Leave ==
    /\ at # "idle" /\ at' = "idle"
    /\ UNCHANGED <<disk, run, edits, touched, raced>>

(* read_journal, and without a journal the decision about the destination. *)
Look ==
    /\ at = "look"
    /\ \/ journal # NoJournal /\ Go("inspect") /\ UNCHANGED <<was, touched>>
       \/ journal = NoJournal /\ destination = Whole(release) /\ Go("done") /\ UNCHANGED <<was, touched>>
       \/ /\ journal = NoJournal /\ destination # Whole(release)
          /\ MayReplace(destination, release, replace)
          /\ was' = destination.marker /\ touched' = FALSE
          /\ Go("create")
    /\ UNCHANGED <<disk, id, saw>>

(* create_random_sibling. *)
Create ==
    /\ at = "create" /\ created < MaxStages
    /\ created' = created + 1 /\ id' = created + 1
    /\ stage' = [stage EXCEPT ![created + 1] = Begun]
    /\ Go("write") /\ UNCHANGED <<destination, backup, journal, was, saw, touched>>

(* write_embedded_skill and its verification.  When it fails the stage is  *)
(* removed.                                                                *)
Write ==
    /\ at = "write"
    /\ \/ stage' = [stage EXCEPT ![id] = Whole(release)] /\ Go("record")
       \/ stage' = [stage EXCEPT ![id] = Absent] /\ Go("idle")
    /\ UNCHANGED <<destination, backup, created, journal, id, was, saw, touched>>

(* write_journal. *)
Record ==
    /\ at = "record"
    /\ journal' = [id |-> id, digest |-> release, previous |-> was]
    /\ Go("inspect") /\ UNCHANGED <<destination, stage, backup, created, id, was, saw, touched>>

-----------------------------------------------------------------------------
(* finish_journal                                                          *)

Stage == stage[journal.id]
Backup == backup[journal.id]
Installed == destination = Whole(release)

(* Whether a run of this binary may go on with the journal. *)
Ready(version, consent) ==
    /\ journal.digest = version
    /\ Exists(Stage) => Stage = Whole(version)
    /\ destination # Whole(version) =>
        /\ ~(Exists(destination) /\ Exists(Backup))
        /\ MayReplace(destination, version, consent)
    /\ Exists(Backup) =>
        consent \/ (OlderManaged(Backup, version) /\ Backup.marker = journal.previous)

Inspect ==
    /\ at = "inspect" /\ Ready(release, replace)
    /\ saw' = [installed |-> Installed, stage |-> Exists(Stage),
               destination |-> Exists(destination), backup |-> Exists(Backup)]
    /\ Go(IF Installed THEN "clean"
          ELSE IF ~Exists(Stage) THEN "restage"
          ELSE IF Exists(destination) THEN "aside" ELSE "in")
    /\ UNCHANGED <<disk, id, was, touched>>

(* A missing stage is made again, step by step. *)
Restage ==
    /\ at = "restage"
    /\ \/ ~Exists(Stage) /\ stage' = [stage EXCEPT ![journal.id] = Begun] /\ Go("restage")
       \/ /\ Exists(Stage) /\ stage' = [stage EXCEPT ![journal.id] = Whole(release)]
          /\ Go(IF saw.destination THEN "aside" ELSE "in")
    /\ UNCHANGED <<destination, backup, created, journal, id, was, saw, touched>>

(* The two renames.  Each fails when the user came between. *)
MoveAside ==
    /\ at = "aside" /\ Exists(destination)
    /\ backup' = [backup EXCEPT ![journal.id] = destination] /\ destination' = Absent
    /\ Go("in") /\ UNCHANGED <<stage, created, journal, id, was, saw, touched>>

MoveIn ==
    /\ at = "in" /\ ~Exists(destination)
    /\ destination' = Stage /\ stage' = [stage EXCEPT ![journal.id] = Absent]
    /\ Go("verify") /\ UNCHANGED <<backup, created, journal, id, was, saw, touched>>

Verify ==
    /\ at = "verify" /\ Installed
    /\ Go("clean") /\ UNCHANGED <<disk, id, was, saw, touched>>

(* Mutant: only a backup from before this run is removed. *)
CleanFoundOnly ==
    /\ at = "clean"
    /\ IF saw.backup
       THEN Exists(Backup) /\ backup' = [backup EXCEPT ![journal.id] = Absent] /\ Go("unstage")
       ELSE UNCHANGED backup /\ Go("unstage")
    /\ UNCHANGED <<destination, stage, created, journal, id, was, saw, touched>>

(* remove_dir_all of the backup, entry by entry. *)
Clean ==
    /\ at = "clean"
    /\ IF saw.backup \/ (~saw.installed /\ saw.destination)
       THEN \/ /\ Exists(Backup) /\ \E rest \in Remains(Backup) : backup' = [backup EXCEPT ![journal.id] = rest]
               /\ Go("clean")
            \/ Exists(Backup) /\ backup' = [backup EXCEPT ![journal.id] = Absent] /\ Go("unstage")
       ELSE UNCHANGED backup /\ Go("unstage")
    /\ UNCHANGED <<destination, stage, created, journal, id, was, saw, touched>>

(* And of a stage that is not needed. *)
Unstage ==
    /\ at = "unstage"
    /\ IF saw.installed /\ saw.stage
       THEN \/ /\ Exists(Stage) /\ \E rest \in Remains(Stage) : stage' = [stage EXCEPT ![journal.id] = rest]
               /\ Go("unstage")
            \/ Exists(Stage) /\ stage' = [stage EXCEPT ![journal.id] = Absent] /\ Go("drop")
       ELSE UNCHANGED stage /\ Go("drop")
    /\ UNCHANGED <<destination, backup, created, journal, id, was, saw, touched>>

Drop ==
    /\ at = "drop" /\ journal' = NoJournal
    /\ Go("done") /\ UNCHANGED <<destination, stage, backup, created, id, was, saw, touched>>

-----------------------------------------------------------------------------
(* The user                                                                *)

Edit(dir) ==
    /\ edits < MaxEdits /\ edits' = edits + 1
    /\ dir # destination /\ destination' = dir
    /\ touched' = TRUE /\ raced' = TRUE
    /\ UNCHANGED <<stage, backup, created, journal, at, run>>

Init ==
    /\ destination \in {dir \in UserDirs : Exists(dir)} \cup {Absent}
    /\ stage = [i \in Ids |-> Absent] /\ backup = [i \in Ids |-> Absent]
    /\ created = 0 /\ journal = NoJournal
    /\ at = "idle" /\ release \in Releases /\ replace = FALSE /\ id = 0 /\ was = NoMarker
    /\ saw = [installed |-> FALSE, stage |-> FALSE, destination |-> FALSE, backup |-> FALSE]
    /\ edits = 0 /\ touched = FALSE /\ raced = FALSE

Next ==
    \/ \E version \in Releases, consent \in BOOLEAN : Begin(version, consent)
    \/ Look \/ Create \/ Write \/ Record
    \/ Inspect \/ Restage \/ MoveAside \/ MoveIn \/ Verify \/ Clean \/ Unstage \/ Drop
    \/ Leave
    \/ \E dir \in UserDirs \cup {Absent} : Edit(dir)

Spec == Init /\ [][Next]_vars

-----------------------------------------------------------------------------
(* Properties                                                              *)

(* What the user made, or changed, is there after every step of a run that *)
(* was not given --replace: in the destination, or whole in a backup the   *)
(* journal names.  A crash between the renames, another release and the    *)
(* consent of an earlier run change nothing of that; only a user who edits *)
(* during the run is not covered (replacement_outcome, finish_journal).    *)
Kept(dir) == destination = dir \/ \E i \in Ids : backup[i] = dir

ConsentNeeded ==
    [][(~replace /\ ~raced /\ edits' = edits) =>
        \A dir \in UserDirs : dir.files = Mine /\ Kept(dir) => Kept(dir)']_vars

(* A backup exists only under the journal that leads to it.  As long as    *)
(* the user leaves the destination alone, the binary that wrote the        *)
(* journal can finish it from wherever it was interrupted, given consent,  *)
(* and without consent if what it replaces is an older release, as long as *)
(* that is still whole.  A run that reports success has installed its      *)
(* bundle and left neither journal nor backup (finish_journal).            *)
Resumable ==
    /\ \A i \in Ids : Exists(backup[i]) => journal # NoJournal /\ journal.id = i
    /\ journal # NoJournal /\ ~touched =>
        /\ Ready(journal.digest, TRUE)
        /\ (\A dir \in {destination, Backup} :
                \/ ~Exists(dir) \/ dir = Whole(journal.digest)
                \/ OlderManaged(dir, journal.digest)) => Ready(journal.digest, FALSE)
    /\ at = "done" => journal = NoJournal
    /\ at = "done" /\ ~raced => destination = Whole(release)
=============================================================================
