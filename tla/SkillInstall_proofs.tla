------------------------- MODULE SkillInstall_proofs -------------------------
(***************************************************************************)
(* Resumable and ConsentNeeded hold of SkillInstall for any releases, any  *)
(* directories of the user's and any number of stages and edits.  What     *)
(* makes them inductive is where the directories stand while a journal     *)
(* exists: the stage is whole until it becomes the destination, and the    *)
(* backup is the directory whose marker the journal recorded.              *)
(***************************************************************************)
EXTENDS SkillInstall, TLAPS

Deciding  == {"create", "write", "record"}
Moving    == {"restage", "aside", "in", "verify"}
Cleaning  == {"clean", "unstage", "drop"}
Finishing == Moving \cup Cleaning

DirsOK ==
    /\ destination \in Dir
    /\ stage \in [Ids -> Dir] /\ backup \in [Ids -> Dir]
    /\ created \in 0..MaxStages /\ id \in 0..MaxStages
    /\ journal \in Journals \cup {NoJournal}
RunOK ==
    /\ at \in {"idle", "look", "inspect", "done"} \cup Deciding \cup Finishing
    /\ release \in Releases /\ was \in Releases \cup {NoMarker}
    /\ replace \in BOOLEAN /\ touched \in BOOLEAN /\ raced \in BOOLEAN
    /\ saw \in [installed : BOOLEAN, stage : BOOLEAN, destination : BOOLEAN, backup : BOOLEAN]
    /\ edits \in Nat
TypeOK == DirsOK /\ RunOK

\* Where a run is, and whether there is a journal.
JournalInv ==
    /\ at \in Deciding \cup {"done"} => journal = NoJournal
    /\ at \in Finishing \cup {"inspect"} => journal # NoJournal
    /\ at \in Finishing => journal.digest = release

\* A backup belongs to the journal, and the run that drops the journal knows of
\* it: it found the backup, or made it.
BackupInv ==
    /\ \A i \in Ids : Exists(backup[i]) => journal # NoJournal /\ journal.id = i
    /\ at \in {"restage", "aside", "in", "verify"} => ~saw.installed
    /\ at = "aside" => saw.destination
    /\ at \in {"restage", "aside"} /\ saw.destination => ~Exists(Backup)
    /\ at \in Moving \cup {"clean"} /\ Exists(Backup) => saw.backup \/ (~saw.installed /\ saw.destination)
    /\ at \in {"unstage", "drop"} => ~Exists(Backup)

\* What a run has decided to replace is what it found, and has prepared.
DecisionInv ==
    /\ at \in {"write", "record"} => id \in Ids
    /\ at = "record" => stage[id] = Whole(release)
    /\ at \in Deciding /\ ~touched => destination.marker = was /\ destination # Whole(release)

\* While the user leaves the destination alone, the three directories of a
\* journal are where the two renames and the cleaning put them.
Staged   == Stage = Whole(journal.digest) /\ destination # Whole(journal.digest)
            /\ ~(Exists(destination) /\ Exists(Backup))
SwappedIn == ~Exists(Stage) /\ destination = Whole(journal.digest)
PlaceInv ==
    journal # NoJournal /\ ~touched =>
        /\ Staged \/ SwappedIn
        /\ Exists(destination) /\ destination # Whole(journal.digest) => destination.marker = journal.previous
        /\ Exists(Backup) => /\ Backup # Whole(journal.digest)
                             /\ Backup.marker \in {journal.previous, NoMarker}
        /\ at # "restage"
        /\ at \in {"aside", "in"} => Staged
        /\ at \in Cleaning => SwappedIn
        /\ at \in {"clean", "unstage"} => ~(saw.installed /\ saw.stage)

\* A run whose destination the user leaves alone ends with its bundle there.
InstalledInv == at \in Cleaning \cup {"done"} /\ ~raced => Installed

\* A run without consent holds nothing of the user's.
ConsentInv ==
    ~replace /\ ~raced =>
        /\ at \in {"restage", "aside"} => destination.files # Mine
        /\ at \in Moving \cup {"clean"} => Backup.files # Mine

IInv == TypeOK /\ JournalInv /\ BackupInv /\ DecisionInv /\ PlaceInv /\ InstalledInv /\ ConsentInv

-----------------------------------------------------------------------------
(* Directories and journals *)

LEMMA DirFacts ==
    /\ Absent \in Dir /\ ~Exists(Absent) /\ Absent.files # Mine
    /\ Begun \in Dir /\ Exists(Begun)
    /\ \A v \in Releases : Whole(v) \in Dir /\ Exists(Whole(v)) /\ Whole(v).files # Mine /\ Whole(v) # Absent
    /\ \A dir \in UserDirs : dir \in Dir
  BY SkillAssumption DEF Absent, Begun, Whole, Exists, Dir

LEMMA RemainsFacts ==
    ASSUME NEW dir \in Dir, Exists(dir), NEW rest \in Remains(dir)
    PROVE  /\ rest \in Dir /\ Exists(rest)
           /\ \A v \in Releases : rest # Whole(v)
           /\ rest.marker \in {dir.marker, NoMarker}
           /\ rest.files = Mine => dir.files = Mine
  BY SkillAssumption DEF Remains, Whole, Exists, Dir

LEMMA JournalFacts ==
    /\ NoJournal \notin Journals
    /\ \A j \in Journals : j.id \in Ids /\ j.digest \in Releases
    /\ \A i \in Ids, d \in Releases, m \in Releases \cup {NoMarker} :
          [id |-> i, digest |-> d, previous |-> m] \in Journals
  <1>1. \A j \in Journals : j.id \in Ids /\ j.digest \in Releases BY DEF Journals
  <1>2. NoJournal.id \notin Ids BY SkillAssumption DEF NoJournal, Ids
  <1>. QED BY <1>1, <1>2 DEF Journals

\* The stage and the backup of a journal.
LEMMA PlaceTypes ==
    ASSUME TypeOK, journal # NoJournal
    PROVE  /\ journal.id \in Ids /\ journal.digest \in Releases
           /\ Stage \in Dir /\ Backup \in Dir
  BY JournalFacts DEF TypeOK, DirsOK, Stage, Backup

-----------------------------------------------------------------------------
(* The invariant *)

LEMMA InitIInv == Init => IInv
  <1>. SUFFICES ASSUME Init PROVE IInv
    OBVIOUS
  <1>1. DirsOK
    <2>1. destination \in Dir BY DirFacts DEF Init
    <2>2. stage \in [Ids -> Dir] /\ backup \in [Ids -> Dir] BY DirFacts DEF Init
    <2>. QED BY <2>1, <2>2, SkillAssumption DEF Init, DirsOK
  <1>2. RunOK BY DEF Init, RunOK
  <1>3. JournalInv /\ BackupInv /\ DecisionInv
    BY DirFacts DEF Init, JournalInv, BackupInv, DecisionInv, Deciding, Moving, Cleaning, Finishing
  <1>4. PlaceInv /\ InstalledInv /\ ConsentInv
    BY DEF Init, PlaceInv, InstalledInv, ConsentInv, Moving, Cleaning
  <1>. QED BY <1>1, <1>2, <1>3, <1>4 DEF IInv, TypeOK

LEMMA NextDirsOK ==
    ASSUME IInv, [Next]_vars
    PROVE  DirsOK'
  <1>. USE DirFacts DEF IInv, TypeOK, DirsOK
  <1>1. ASSUME NEW v \in Releases, NEW c \in BOOLEAN, Begin(v, c) PROVE DirsOK'
    BY <1>1 DEF Begin, disk
  <1>2. CASE Look BY <1>2 DEF Look, Go, disk
  <1>3. CASE Create BY <1>3, SkillAssumption DEF Create, Go, Ids
  <1>4. CASE Write BY <1>4 DEF Write, Go, RunOK, DecisionInv
  <1>5. CASE Record BY <1>5, JournalFacts DEF Record, Go, RunOK, DecisionInv
  <1>6. CASE Inspect BY <1>6 DEF Inspect, Go, disk
  <1>7. CASE Restage BY <1>7 DEF Restage, Go, RunOK
  <1>8. CASE MoveAside BY <1>8 DEF MoveAside, Go
  <1>9. CASE MoveIn BY <1>9, PlaceTypes DEF MoveIn, Go, JournalInv, Finishing, Moving
  <1>10. CASE Verify BY <1>10 DEF Verify, Go, disk
  <1>11. CASE Clean
    <2>1. Backup \in Dir BY <1>11, PlaceTypes DEF Clean, JournalInv, Finishing, Cleaning
    <2>. QED BY <1>11, <2>1, RemainsFacts DEF Clean, Go
  <1>12. CASE Unstage
    <2>1. Stage \in Dir BY <1>12, PlaceTypes DEF Unstage, JournalInv, Finishing, Cleaning
    <2>. QED BY <1>12, <2>1, RemainsFacts DEF Unstage, Go
  <1>13. CASE Drop BY <1>13 DEF Drop, Go
  <1>14. CASE Leave BY <1>14 DEF Leave, Go, disk, run
  <1>15. ASSUME NEW dir \in UserDirs \cup {Absent}, Edit(dir) PROVE DirsOK'
    BY <1>15 DEF Edit, run
  <1>16. CASE UNCHANGED vars BY <1>16 DEF vars, disk, run
  <1>. QED BY <1>1, <1>2, <1>3, <1>4, <1>5, <1>6, <1>7, <1>8, <1>9, <1>10, <1>11, <1>12, <1>13, <1>14, <1>15, <1>16 DEF Next

LEMMA NextRunOK ==
    ASSUME IInv, [Next]_vars
    PROVE  RunOK'
  <1>. USE DEF IInv, TypeOK, DirsOK, RunOK, Deciding, Moving, Cleaning, Finishing
  <1>1. ASSUME NEW v \in Releases, NEW c \in BOOLEAN, Begin(v, c) PROVE RunOK'
    BY <1>1 DEF Begin, disk
  <1>2. CASE Look BY <1>2, DirFacts DEF Look, Go, disk, Dir
  <1>3. CASE Create BY <1>3 DEF Create, Go
  <1>4. CASE Write BY <1>4 DEF Write, Go
  <1>5. CASE Record BY <1>5 DEF Record, Go
  <1>6. CASE Inspect BY <1>6 DEF Inspect, Go, disk, Exists, Installed
  <1>7. CASE Restage BY <1>7 DEF Restage, Go
  <1>8. CASE MoveAside BY <1>8 DEF MoveAside, Go
  <1>9. CASE MoveIn BY <1>9 DEF MoveIn, Go
  <1>10. CASE Verify BY <1>10 DEF Verify, Go, disk
  <1>11. CASE Clean BY <1>11 DEF Clean, Go
  <1>12. CASE Unstage BY <1>12 DEF Unstage, Go
  <1>13. CASE Drop BY <1>13 DEF Drop, Go
  <1>14. CASE Leave BY <1>14 DEF Leave, Go, disk, run
  <1>15. ASSUME NEW dir \in UserDirs \cup {Absent}, Edit(dir) PROVE RunOK'
    BY <1>15 DEF Edit, run
  <1>16. CASE UNCHANGED vars BY <1>16 DEF vars, disk, run
  <1>. QED BY <1>1, <1>2, <1>3, <1>4, <1>5, <1>6, <1>7, <1>8, <1>9, <1>10, <1>11, <1>12, <1>13, <1>14, <1>15, <1>16 DEF Next

LEMMA NextJournalInv ==
    ASSUME IInv, [Next]_vars
    PROVE  JournalInv'
  <1>. USE DEF IInv, JournalInv, Deciding, Moving, Cleaning, Finishing
  <1>1. ASSUME NEW v \in Releases, NEW c \in BOOLEAN, Begin(v, c) PROVE JournalInv'
    BY <1>1 DEF Begin, disk
  <1>2. CASE Look BY <1>2 DEF Look, Go, disk
  <1>3. CASE Create BY <1>3 DEF Create, Go
  <1>4. CASE Write BY <1>4 DEF Write, Go
  <1>5. CASE Record BY <1>5, JournalFacts DEF Record, Go, TypeOK, RunOK, DecisionInv
  <1>6. CASE Inspect BY <1>6 DEF Inspect, Go, disk, Ready
  <1>7. CASE Restage BY <1>7 DEF Restage, Go
  <1>8. CASE MoveAside BY <1>8 DEF MoveAside, Go
  <1>9. CASE MoveIn BY <1>9 DEF MoveIn, Go
  <1>10. CASE Verify BY <1>10 DEF Verify, Go, disk
  <1>11. CASE Clean BY <1>11 DEF Clean, Go
  <1>12. CASE Unstage BY <1>12 DEF Unstage, Go
  <1>13. CASE Drop BY <1>13 DEF Drop, Go
  <1>14. CASE Leave BY <1>14 DEF Leave, Go, disk, run
  <1>15. ASSUME NEW dir \in UserDirs \cup {Absent}, Edit(dir) PROVE JournalInv'
    BY <1>15 DEF Edit, run
  <1>16. CASE UNCHANGED vars BY <1>16 DEF vars, disk, run
  <1>. QED BY <1>1, <1>2, <1>3, <1>4, <1>5, <1>6, <1>7, <1>8, <1>9, <1>10, <1>11, <1>12, <1>13, <1>14, <1>15, <1>16 DEF Next

LEMMA NextBackupInv ==
    ASSUME IInv, [Next]_vars
    PROVE  BackupInv'
  <1>. USE PlaceTypes, DirFacts DEF IInv, JournalInv, Deciding, Moving, Cleaning, Finishing, BackupInv, Backup
  <1>1. ASSUME NEW v \in Releases, NEW c \in BOOLEAN, Begin(v, c) PROVE BackupInv'
    BY <1>1 DEF Begin, disk
  <1>2. CASE Look BY <1>2 DEF Look, Go, disk
  <1>3. CASE Create BY <1>3 DEF Create, Go
  <1>4. CASE Write BY <1>4 DEF Write, Go
  <1>5. CASE Record BY <1>5, JournalFacts DEF Record, Go, TypeOK, RunOK, DecisionInv
  <1>6. CASE Inspect BY <1>6 DEF Inspect, Go, disk, Ready, Installed
  <1>7. CASE Restage BY <1>7 DEF Restage, Go
  <1>8. CASE MoveAside BY <1>8 DEF MoveAside, Go, TypeOK, DirsOK
  <1>9. CASE MoveIn BY <1>9 DEF MoveIn, Go
  <1>10. CASE Verify BY <1>10 DEF Verify, Go, disk
  <1>11. CASE Clean
    <2>1. backup \in [Ids -> Dir] BY DEF TypeOK, DirsOK
    <2>. QED BY <1>11, <2>1 DEF Clean, Go
  <1>12. CASE Unstage BY <1>12 DEF Unstage, Go
  <1>13. CASE Drop BY <1>13 DEF Drop, Go
  <1>14. CASE Leave BY <1>14 DEF Leave, Go, disk, run
  <1>15. ASSUME NEW dir \in UserDirs \cup {Absent}, Edit(dir) PROVE BackupInv'
    BY <1>15 DEF Edit, run
  <1>16. CASE UNCHANGED vars BY <1>16 DEF vars, disk, run
  <1>. QED BY <1>1, <1>2, <1>3, <1>4, <1>5, <1>6, <1>7, <1>8, <1>9, <1>10, <1>11, <1>12, <1>13, <1>14, <1>15, <1>16 DEF Next

LEMMA NextDecisionInv ==
    ASSUME IInv, [Next]_vars
    PROVE  DecisionInv'
  <1>. USE DirFacts DEF IInv, DecisionInv, Deciding
  <1>1. ASSUME NEW v \in Releases, NEW c \in BOOLEAN, Begin(v, c) PROVE DecisionInv'
    BY <1>1 DEF Begin, disk
  <1>2. CASE Look BY <1>2 DEF Look, Go, disk
  <1>3. CASE Create BY <1>3, SkillAssumption DEF Create, Go, TypeOK, DirsOK, Ids
  <1>4. CASE Write BY <1>4 DEF Write, Go, TypeOK, DirsOK, RunOK
  <1>5. CASE Record BY <1>5 DEF Record, Go
  <1>6. CASE Inspect BY <1>6 DEF Inspect, Go, disk
  <1>7. CASE Restage BY <1>7 DEF Restage, Go
  <1>8. CASE MoveAside BY <1>8 DEF MoveAside, Go
  <1>9. CASE MoveIn BY <1>9 DEF MoveIn, Go
  <1>10. CASE Verify BY <1>10 DEF Verify, Go, disk
  <1>11. CASE Clean BY <1>11 DEF Clean, Go
  <1>12. CASE Unstage BY <1>12 DEF Unstage, Go
  <1>13. CASE Drop BY <1>13 DEF Drop, Go
  <1>14. CASE Leave BY <1>14 DEF Leave, Go, disk, run
  <1>15. ASSUME NEW dir \in UserDirs \cup {Absent}, Edit(dir) PROVE DecisionInv'
    BY <1>15 DEF Edit, run
  <1>16. CASE UNCHANGED vars BY <1>16 DEF vars, disk, run
  <1>. QED BY <1>1, <1>2, <1>3, <1>4, <1>5, <1>6, <1>7, <1>8, <1>9, <1>10, <1>11, <1>12, <1>13, <1>14, <1>15, <1>16 DEF Next

\* Each rename moves a journal from one of its places to the next; a user who
\* edits sets touched and ends the obligation.
LEMMA NextPlaceInv ==
    ASSUME IInv, [Next]_vars
    PROVE  PlaceInv'
  <1>. USE PlaceTypes, DirFacts DEF IInv, JournalInv, Deciding, Moving, Cleaning, Finishing, PlaceInv, Staged, SwappedIn, Stage, Backup
  <1>1. ASSUME NEW v \in Releases, NEW c \in BOOLEAN, Begin(v, c) PROVE PlaceInv'
    BY <1>1 DEF Begin, disk
  <1>2. CASE Look BY <1>2 DEF Look, Go, disk
  <1>3. CASE Create BY <1>3 DEF Create, Go
  <1>4. CASE Write BY <1>4 DEF Write, Go
  <1>5. CASE Record
    BY <1>5, JournalFacts DEF Record, Go, TypeOK, RunOK, DecisionInv, BackupInv, Exists
  <1>6. CASE Inspect BY <1>6 DEF Inspect, Go, disk, Ready, Installed
  <1>7. CASE Restage BY <1>7 DEF Restage, Go
  <1>8. CASE MoveAside BY <1>8 DEF MoveAside, Go, TypeOK, DirsOK
  <1>9. CASE MoveIn BY <1>9 DEF MoveIn, Go, TypeOK, DirsOK
  <1>10. CASE Verify BY <1>10 DEF Verify, Go, disk, Installed, BackupInv
  <1>11. CASE Clean BY <1>11, RemainsFacts DEF Clean, Go, TypeOK, DirsOK
  <1>12. CASE Unstage BY <1>12 DEF Unstage, Go
  <1>13. CASE Drop BY <1>13 DEF Drop, Go
  <1>14. CASE Leave BY <1>14 DEF Leave, Go, disk, run
  <1>15. ASSUME NEW dir \in UserDirs \cup {Absent}, Edit(dir) PROVE PlaceInv'
    BY <1>15 DEF Edit, run
  <1>16. CASE UNCHANGED vars BY <1>16 DEF vars, disk, run
  <1>. QED BY <1>1, <1>2, <1>3, <1>4, <1>5, <1>6, <1>7, <1>8, <1>9, <1>10, <1>11, <1>12, <1>13, <1>14, <1>15, <1>16 DEF Next

LEMMA NextInstalledInv ==
    ASSUME IInv, [Next]_vars
    PROVE  InstalledInv'
  <1>. USE DEF IInv, InstalledInv, Installed, Cleaning
  <1>1. ASSUME NEW v \in Releases, NEW c \in BOOLEAN, Begin(v, c) PROVE InstalledInv'
    BY <1>1 DEF Begin, disk
  <1>2. CASE Look BY <1>2 DEF Look, Go, disk
  <1>3. CASE Create BY <1>3 DEF Create, Go
  <1>4. CASE Write BY <1>4 DEF Write, Go
  <1>5. CASE Record BY <1>5 DEF Record, Go
  <1>6. CASE Inspect BY <1>6 DEF Inspect, Go, disk
  <1>7. CASE Restage BY <1>7 DEF Restage, Go
  <1>8. CASE MoveAside BY <1>8 DEF MoveAside, Go
  <1>9. CASE MoveIn BY <1>9 DEF MoveIn, Go
  <1>10. CASE Verify BY <1>10 DEF Verify, Go, disk
  <1>11. CASE Clean BY <1>11 DEF Clean, Go
  <1>12. CASE Unstage BY <1>12 DEF Unstage, Go
  <1>13. CASE Drop BY <1>13 DEF Drop, Go
  <1>14. CASE Leave BY <1>14 DEF Leave, Go, disk, run
  <1>15. ASSUME NEW dir \in UserDirs \cup {Absent}, Edit(dir) PROVE InstalledInv'
    BY <1>15 DEF Edit, run
  <1>16. CASE UNCHANGED vars BY <1>16 DEF vars, disk, run
  <1>. QED BY <1>1, <1>2, <1>3, <1>4, <1>5, <1>6, <1>7, <1>8, <1>9, <1>10, <1>11, <1>12, <1>13, <1>14, <1>15, <1>16 DEF Next

LEMMA NextConsentInv ==
    ASSUME IInv, [Next]_vars
    PROVE  ConsentInv'
  <1>. USE PlaceTypes, DirFacts DEF IInv, JournalInv, Deciding, Moving, Cleaning, Finishing, ConsentInv, Backup
  <1>1. ASSUME NEW v \in Releases, NEW c \in BOOLEAN, Begin(v, c) PROVE ConsentInv'
    BY <1>1 DEF Begin, disk
  <1>2. CASE Look BY <1>2 DEF Look, Go, disk
  <1>3. CASE Create BY <1>3 DEF Create, Go
  <1>4. CASE Write BY <1>4 DEF Write, Go
  <1>5. CASE Record BY <1>5 DEF Record, Go
  <1>6. CASE Inspect
    BY <1>6, SkillAssumption DEF Inspect, Go, disk, Ready, Installed, MayReplace, OlderManaged, Exists, TypeOK, RunOK, DirsOK, Dir
  <1>7. CASE Restage BY <1>7 DEF Restage, Go
  <1>8. CASE MoveAside BY <1>8 DEF MoveAside, Go, TypeOK, DirsOK
  <1>9. CASE MoveIn BY <1>9 DEF MoveIn, Go
  <1>10. CASE Verify BY <1>10 DEF Verify, Go, disk
  <1>11. CASE Clean BY <1>11, RemainsFacts DEF Clean, Go, TypeOK, DirsOK
  <1>12. CASE Unstage BY <1>12 DEF Unstage, Go
  <1>13. CASE Drop BY <1>13 DEF Drop, Go
  <1>14. CASE Leave BY <1>14 DEF Leave, Go, disk, run
  <1>15. ASSUME NEW dir \in UserDirs \cup {Absent}, Edit(dir) PROVE ConsentInv'
    BY <1>15 DEF Edit, run
  <1>16. CASE UNCHANGED vars BY <1>16 DEF vars, disk, run
  <1>. QED BY <1>1, <1>2, <1>3, <1>4, <1>5, <1>6, <1>7, <1>8, <1>9, <1>10, <1>11, <1>12, <1>13, <1>14, <1>15, <1>16 DEF Next

LEMMA NextIInv == IInv /\ [Next]_vars => IInv'
  BY NextDirsOK, NextRunOK, NextJournalInv, NextBackupInv, NextDecisionInv, NextPlaceInv, NextInstalledInv,
     NextConsentInv DEF IInv, TypeOK

\* Wherever runs crash, fail or meet the user, the directories and the journal
\* stay where IInv says (install_to and finish_journal).
THEOREM Invariance == Spec => []IInv
  BY InitIInv, NextIInv, PTL DEF Spec

-----------------------------------------------------------------------------
(* What a run promises *)

\* Every crash and failure leaves a state from which the binary that wrote the
\* journal can go on, no backup is left without its journal, and a success that
\* is reported is one (finish_journal).
THEOREM ResumableHolds == Spec => []Resumable
  <1>1. ASSUME IInv PROVE Resumable
    <2>. USE <1>1 DEF IInv
    <2>1. \A i \in Ids : Exists(backup[i]) => journal # NoJournal /\ journal.id = i
      BY DEF BackupInv
    <2>2. ASSUME journal # NoJournal, ~touched PROVE Ready(journal.digest, TRUE)
      BY <2>2 DEF PlaceInv, Staged, SwappedIn, Ready, MayReplace
    <2>3. ASSUME journal # NoJournal, ~touched,
                 \A dir \in {destination, Backup} :
                    \/ ~Exists(dir) \/ dir = Whole(journal.digest) \/ OlderManaged(dir, journal.digest)
          PROVE  Ready(journal.digest, FALSE)
      BY <2>3 DEF PlaceInv, Staged, SwappedIn, Ready, MayReplace, OlderManaged
    <2>4. at = "done" => journal = NoJournal BY DEF JournalInv
    <2>5. at = "done" /\ ~raced => destination = Whole(release) BY DEF InstalledInv, Installed
    <2>. QED BY <2>1, <2>2, <2>3, <2>4, <2>5 DEF Resumable
  <1>. QED BY <1>1, Invariance, PTL

\* Without --replace a run moves what the user made aside at most, and never
\* over or away for good (replacement_outcome, finish_journal).
THEOREM ConsentNeededHolds == Spec => ConsentNeeded
  <1>1. ASSUME IInv, [Next]_vars, ~replace, ~raced, edits' = edits,
               NEW dir \in UserDirs, dir.files = Mine, Kept(dir)
        PROVE  Kept(dir)'
    <2>1. dir.files # Nothing /\ dir # Absent
      BY <1>1, SkillAssumption DEF Absent
    <2>2. CASE UNCHANGED <<destination, backup>> BY <1>1, <2>2 DEF Kept
    <2>3. CASE MoveAside
      <3>1. journal.id \in Ids /\ ~Exists(Backup)
        BY <1>1, <2>3, PlaceTypes DEF MoveAside, IInv, JournalInv, BackupInv, Finishing, Moving
      <3>2. backup' = [backup EXCEPT ![journal.id] = destination] /\ backup \in [Ids -> Dir]
        BY <1>1, <2>3 DEF MoveAside, IInv, TypeOK, DirsOK
      <3>. QED BY <1>1, <2>1, <3>1, <3>2 DEF Kept, Exists, Backup
    <2>4. CASE MoveIn
      BY <1>1, <2>1, <2>4 DEF MoveIn, Kept, Exists
    <2>5. CASE Clean
      <3>1. journal.id \in Ids /\ Backup.files # Mine
        BY <1>1, <2>5, PlaceTypes DEF Clean, IInv, JournalInv, ConsentInv, Finishing, Cleaning
      <3>2. \A i \in Ids \ {journal.id} : backup'[i] = backup[i]
        BY <1>1, <2>5 DEF Clean, IInv, TypeOK, DirsOK
      <3>3. destination' = destination BY <2>5 DEF Clean
      <3>. QED BY <1>1, <3>1, <3>2, <3>3 DEF Kept, Backup
    <2>6. ASSUME NEW d \in UserDirs \cup {Absent}, Edit(d) PROVE FALSE
      BY <1>1, <2>6 DEF Edit, IInv, TypeOK, RunOK
    <2>7. ASSUME NEW v \in Releases, NEW c \in BOOLEAN, Begin(v, c) PROVE UNCHANGED <<destination, backup>>
      BY <2>7 DEF Begin, disk
    <2>8. CASE \/ Look \/ Create \/ Write \/ Record \/ Inspect \/ Restage \/ Verify \/ Unstage \/ Drop \/ Leave
               \/ UNCHANGED vars
      BY <2>2, <2>8 DEF Look, Create, Write, Record, Inspect, Restage, Verify, Unstage, Drop, Leave, vars, disk
    <2>. QED BY <1>1, <2>2, <2>3, <2>4, <2>5, <2>6, <2>7, <2>8 DEF Next
  <1>2. IInv /\ [Next]_vars =>
          [(~replace /\ ~raced /\ edits' = edits) =>
              \A dir \in UserDirs : dir.files = Mine /\ Kept(dir) => Kept(dir)']_vars
    BY <1>1
  <1>. QED BY <1>2, Invariance, PTL DEF Spec, ConsentNeeded
=============================================================================
