----------------------- MODULE OwnerLifecycle_proofs -----------------------
(***************************************************************************)
(* Proofs about OwnerLifecycle, for any number of processes, Workspaces    *)
(* and Declarations, and any commands.                                     *)
(***************************************************************************)
EXTENDS OwnerLifecycle, FiniteSetTheorems, TLAPS

-----------------------------------------------------------------------------
(* The inductive invariant *)

\* Where a process is that has started an Owner.
Waiting == {"await", "probeStarted", "discard", "done"}
\* Where it is concerned with a Session.
Chosen ==
    {"authorize", "find", "probe", "reload", "recheck", "startupLock", "relook", "reprobe",
     "launch", "await", "probeStarted", "discard", "probeEntry", "tryLock", "unlock",
     "removeEntry", "waitExit", "tryExit", "unlockExit", "applicationLock", "trustLock",
     "readTrust", "writeTrust"}
Probing == {"probe", "reprobe", "probeStarted", "probeEntry"}
Leaving == {"waitExit", "tryExit", "unlockExit"}
Starting == {"find", "probe", "reload", "recheck", "startupLock", "relook", "reprobe", "launch",
             "await", "probeStarted", "discard"}

\* Who started an Owner waits for it or is done, so that its Session is fixed.
StarterWaits == \A c \in Client : owner[c] # "none" => pc[c] \in Waiting
SessionChosen ==
    \A c \in Client : pc[c] \in Chosen \/ owner[c] # "none" => session[c] \in Declaration
EndpointSeen == \A c \in Client : pc[c] \in Probing => seen[c] \in Endpoint
TrustPlaces ==
    \A c \in Client : pc[c] \in {"applicationLock", "trustLock", "readTrust", "writeTrust"} =>
        Command_of(c) \in TrustCommand
Places == StarterWaits /\ SessionChosen /\ EndpointSeen /\ TrustPlaces

\* What is found, and what a Stop is sent to, was started.
FoundRuns ==
    \A c \in Client : /\ \A g \in found[c] : owner[g] # "none"
                      /\ target[c] \in Client => owner[target[c]] # "none"
\* A process that waits for an answer or for an exit waits for an Owner.
Targeted ==
    \A c \in Client :
        /\ pc[c] \in Leaving \cup {"reply"} => target[c] \in Client
        /\ pc[c] \in Leaving => Command_of(c) = "restart"
        /\ Command_of(c) = "restart" =>
              /\ pc[c] \in {"load", "authorize"} => target[c] \in Client
              /\ pc[c] = "send" => found[c] # {} \/ target[c] \in Client
Targets == FoundRuns /\ Targeted

\* From acquire_owner_lock to its end an Owner holds its Session's lock, and a
\* process that looks whether it is free holds it for that instant.
Locked == OwnerPhase \ {"none", "spawned", "loaded", "gone"}
OwnerHolds == \A g \in Client : owner[g] \in Locked => lock[session[g]] = Owns(g)
ProbeHolds ==
    \A c \in Client : /\ pc[c] = "unlock" => lock[session[c]] = Probes(c)
                      /\ pc[c] = "unlockExit" => lock[session[target[c]]] = Probes(c)
Holding == OwnerHolds /\ ProbeHolds

\* An endpoint file lies where its generation belongs, and never hides the
\* generation that serves.
EndpointPlace ==
    \A d \in Declaration : endpoint[d] # NoFile =>
        /\ session[endpoint[d].generation] = d
        /\ owner[endpoint[d].generation] \notin {"none", "spawned", "loaded"}
EndpointOwn ==
    \A g \in Client : owner[g] \in Published /\ endpoint[session[g]] # NoFile =>
        endpoint[session[g]].generation = g
Endpoints == EndpointPlace /\ EndpointOwn

\* A Stop was answered before its process goes on.
Answered ==
    \A c \in Client :
        /\ target[c] \in Client =>
              pc[c] \in {"reply", "done"} \/ refused[c] \/ target[c] \in signalled[c]
        /\ Command_of(c) = "restart" /\ pc[c] \in Leaving \cup {"load", "authorize"} =>
              target[c] \in signalled[c]
\* A replacement is looked for, and found, when its predecessor is gone.
ReplacedGone ==
    \A c \in Client : Command_of(c) = "restart" /\ pc[c] \in Starting =>
        target[c] \in Client /\ owner[target[c]] = "gone"
Attached ==
    \A c \in Client : outcome[c] = "attached" =>
        pc[c] = "done" /\ (Command_of(c) = "restart" => target[c] \in Client)
Restarts == Answered /\ ReplacedGone /\ Attached

\* Who reads and writes the Trust file has its lock and knows what is in it.
TrustHeld ==
    \A c \in Client : /\ pc[c] \in {"readTrust", "writeTrust"} => trustLock = c
                      /\ pc[c] = "writeTrust" => copy[c] = trust

IInv ==
    /\ TypeOK /\ Places /\ Targets /\ Holding /\ Endpoints
    /\ SignalledAreStopped /\ Restarts /\ RestartReplaces /\ TrustHeld

-----------------------------------------------------------------------------
(* Labels *)

\* Where connect_or_start_owner reads the endpoint, and where it goes on.
LEMMA FindLabels ==
    /\ DOMAIN ProbeAt = {"find", "relook", "await"}
    /\ ProbeAt["find"] = "probe" /\ ProbeAt["relook"] = "reprobe"
    /\ ProbeAt["await"] = "probeStarted"
    /\ DOMAIN Unprobed = {"probe", "reprobe", "probeStarted"}
    /\ Unprobed["probe"] = "reload" /\ Unprobed["reprobe"] = "launch"
    /\ Unprobed["probeStarted"] = "await"
  BY DEF ProbeAt, Unprobed

LEMMA TaskType ==
    ASSUME TypeOK, NEW c \in Client
    PROVE  Command_of(c) \in Command /\ Place(c) \in Workspace
  BY ConstantAssumption DEF TypeOK, ProcessesOK, Command_of, Place

\* Who holds a lock is told apart from everybody else, and from nobody.
LEMMA Holders ==
    /\ \A c \in Client : Owns(c) \in Holder /\ Probes(c) \in Holder
    /\ \A c \in Client : Owns(c) # Free /\ Probes(c) # Free
    /\ \A c, d \in Client : Owns(c) # Probes(d)
    /\ \A c, d \in Client : Owns(c) = Owns(d) => c = d
    /\ \A c, d \in Client : Probes(c) = Probes(d) => c = d
  <1>1. \A c \in Client : Owns(c) \in Holder /\ Probes(c) \in Holder
    BY DEF Owns, Probes, Holder
  <1>2. \A c, d \in Client : Owns(c) # Probes(d)
    BY DEF Owns, Probes
  <1>3. \A c \in Client : Owns(c) # Free /\ Probes(c) # Free
    BY <1>1, FreeAssumption
  <1>4. \A c, d \in Client : Owns(c) = Owns(d) => c = d
    BY DEF Owns
  <1>5. \A c, d \in Client : Probes(c) = Probes(d) => c = d
    BY DEF Probes
  <1> QED
    BY <1>1, <1>2, <1>3, <1>4, <1>5

\* The Sessions whose locks ProbeHolds is about.
LEMMA ProbedSessions ==
    ASSUME TypeOK, SessionChosen, FoundRuns, Targeted, NEW c \in Client
    PROVE  /\ pc[c] = "unlock" => session[c] \in Declaration
           /\ pc[c] = "unlockExit" => session[target[c]] \in Declaration
  BY DEF SessionChosen, FoundRuns, Targeted, Leaving, Chosen

\* The owners of one Session exclude each other.
LEMMA OneOwner ==
    ASSUME OwnerHolds, SessionChosen, NEW c \in Client, owner[c] \in Locked,
           NEW d \in Client, d # c, owner[d] \in Published
    PROVE  session[d] \in Declaration \ {session[c]}
  <1>1. owner[d] \in Locked /\ session[d] \in Declaration
    BY DEF Published, Locked, OwnerPhase, SessionChosen
  <1>2. lock[session[c]] = Owns(c) /\ lock[session[d]] = Owns(d) /\ Owns(c) # Owns(d)
    BY <1>1, Holders DEF OwnerHolds
  <1> QED
    BY <1>1, <1>2

-----------------------------------------------------------------------------
(* Types *)

LEMMA ConfigurationOKKept ==
    ASSUME TypeOK, SessionChosen, TrustPlaces, Next
    PROVE  ConfigurationOK'
  <1> USE DEF configuration, files, owners, finding, listing, signal, process
  <1>1. ASSUME NEW c \in Client, Load(c) PROVE ConfigurationOK'
    BY <1>1 DEF TypeOK, ConfigurationOK, Load, End, Ended, Goto, Without
  <1>2. ASSUME NEW c \in Client, Authorize(c) PROVE ConfigurationOK'
    BY <1>2 DEF TypeOK, ConfigurationOK, Authorize, End, Ended, Goto, Without
  <1>3. ASSUME NEW c \in Client, Reload(c) PROVE ConfigurationOK'
    BY <1>3 DEF TypeOK, ConfigurationOK, Reload, End, Ended, Goto, Without
  <1>4. ASSUME NEW c \in Client, Recheck(c) PROVE ConfigurationOK'
    BY <1>4 DEF TypeOK, ConfigurationOK, Recheck, End, Ended, Goto, Without
  <1>5. ASSUME NEW c \in Client, Attach(c) PROVE ConfigurationOK'
    BY <1>5 DEF TypeOK, ConfigurationOK, Attach, End, Ended, Goto, Without
  <1>6. ASSUME NEW c \in Client, Launch(c) PROVE ConfigurationOK'
    BY <1>6 DEF TypeOK, ConfigurationOK, Launch, End, Goto, Without
  <1>7. ASSUME NEW c \in Client, Discard(c) PROVE ConfigurationOK'
    BY <1>7 DEF TypeOK, ConfigurationOK, Discard, End, Goto, Without
  <1>8. ASSUME NEW c \in Client, Deadline(c) PROVE ConfigurationOK'
    BY <1>8 DEF TypeOK, ConfigurationOK, Deadline, End, Ended, Goto, Without
  <1>9. ASSUME NEW c \in Client, Listed(c) PROVE ConfigurationOK'
    BY <1>9 DEF TypeOK, ConfigurationOK, Listed, End, Ended, Goto, Without
  <1>10. ASSUME NEW c \in Client, SentAll(c) PROVE ConfigurationOK'
    BY <1>10 DEF TypeOK, ConfigurationOK, SentAll, End, Ended, Goto, Without
  <1>11. ASSUME NEW c \in Client, ApplicationLock(c) PROVE ConfigurationOK'
    BY <1>11 DEF TypeOK, ConfigurationOK, ApplicationLock, Goto
  <1>12. ASSUME NEW c \in Client, TrustLock(c) PROVE ConfigurationOK'
    BY <1>12 DEF TypeOK, ConfigurationOK, TrustLock, Goto
  <1>13. ASSUME NEW c \in Client, ReadTrust(c) PROVE ConfigurationOK'
    BY <1>13 DEF TypeOK, ConfigurationOK, ReadTrust, End, Goto, Without
  <1>14. ASSUME NEW c \in Client, WriteTrust(c) PROVE ConfigurationOK'
    <2>1. copy[c] \in [Workspace -> Record] /\ session[c] \in Declaration
      BY <1>14 DEF TypeOK, ConfigurationOK, KnowledgeOK, SessionChosen, Chosen, WriteTrust
    <2>2. Command_of(c) \in TrustCommand
      BY <1>14 DEF TrustPlaces, WriteTrust
    <2>3. trust' \in [Workspace -> Record]
      BY <1>14, <2>1, <2>2 DEF WriteTrust, TrustCommand, Record
    <2> QED
      BY <1>14, <2>3 DEF TypeOK, ConfigurationOK, WriteTrust
  <1>15. ASSUME NEW w \in Workspace, EditProject(w) PROVE ConfigurationOK'
    BY <1>15 DEF TypeOK, ConfigurationOK, EditProject
  <1>16. ASSUME NEW c \in Client, KillClient(c) PROVE ConfigurationOK'
    BY <1>16 DEF TypeOK, ConfigurationOK, KillClient, End, Goto, Without
  <1>17. ASSUME NEW c \in Client,
            Start(c) \/ Find(c) \/ Unanswered(c) \/
            StartupLock(c) \/ List(c) \/ Entry(c) \/ Live(c) \/ NotLive(c) \/ TryLock(c) \/
            Unlock(c) \/ RemoveEntry(c) \/ Send(c) \/ Replaced(c) \/ Withdrawn(c)
     PROVE  ConfigurationOK'
    BY <1>17 DEF TypeOK, ConfigurationOK, Start, Find, Unanswered, StartupLock, List, Entry, Live,
       NotLive, TryLock, Unlock, RemoveEntry, Send, Replaced, Withdrawn, Goto
  <1>18. ASSUME NEW c \in Client,
            ReadLaunch(c) \/ AcquireLock(c) \/ LoseLock(c) \/
            Bind(c) \/ Serve(c) \/ Ready(c) \/ InitializationFails(c) \/ LeaveFailed(c) \/
            TakeStop(c) \/ TakeForce(c) \/ SkipStop(c) \/ Drained(c) \/ StopServing(c) \/
            Abort(c) \/ RemoveEndpoint(c) \/ Exit(c) \/ KillOwner(c)
     PROVE  ConfigurationOK'
    BY <1>18 DEF TypeOK, ConfigurationOK, ReadLaunch, AcquireLock, LoseLock, Bind, Serve, Ready,
       InitializationFails, LeaveFailed, TakeStop, TakeForce, SkipStop, Drained, StopServing, Abort,
       RemoveEndpoint, Exit, KillOwner, Advance, Leaves, Reply
  <1> QED
    BY <1>1, <1>2, <1>3, <1>4, <1>5, <1>6, <1>7, <1>8, <1>9, <1>10, <1>11, <1>12, <1>13, <1>14,
       <1>15, <1>16, <1>17, <1>18 DEF Next, ClientStep, OwnerStep, Environment

LEMMA FilesOKKept ==
    ASSUME TypeOK, StarterWaits, SessionChosen, Next
    PROVE  FilesOK'
  <1> USE DEF configuration, files, owners, finding, listing, signal, process
  <1>1. ASSUME NEW c \in Client, Load(c) PROVE FilesOK'
    BY <1>1 DEF TypeOK, FilesOK, Load, End, Ended, Goto, Without
  <1>2. ASSUME NEW c \in Client, Authorize(c) PROVE FilesOK'
    BY <1>2 DEF TypeOK, FilesOK, Authorize, End, Ended, Goto, Without
  <1>3. ASSUME NEW c \in Client, Reload(c) PROVE FilesOK'
    BY <1>3 DEF TypeOK, FilesOK, Reload, End, Ended, Goto, Without
  <1>4. ASSUME NEW c \in Client, Recheck(c) PROVE FilesOK'
    BY <1>4 DEF TypeOK, FilesOK, Recheck, End, Ended, Goto, Without
  <1>5. ASSUME NEW c \in Client, Attach(c) PROVE FilesOK'
    BY <1>5 DEF TypeOK, FilesOK, Attach, End, Ended, Goto, Without
  <1>6. ASSUME NEW c \in Client, StartupLock(c) PROVE FilesOK'
    BY <1>6 DEF TypeOK, FilesOK, StartupLock, Goto
  <1>7. ASSUME NEW c \in Client, Launch(c) PROVE FilesOK'
    <2>1. owner[c] = "none"
      BY <1>7 DEF FilesOK, StarterWaits, Waiting, Launch
    <2>2. /\ startup' \in [Declaration -> Client \cup {NoClient}]
          /\ UNCHANGED <<endpoint, lock>>
      BY <1>7 DEF TypeOK, FilesOK, Launch, End, Without
    <2>3. launch' \subseteq {g \in Client : owner'[g] \in {"none", "spawned", "gone"}}
      BY <1>7, <2>1 DEF TypeOK, FilesOK, OwnersOK, Launch
    <2> QED
      BY <2>2, <2>3 DEF TypeOK, FilesOK
  <1>8. ASSUME NEW c \in Client, Discard(c) PROVE FilesOK'
    BY <1>8 DEF TypeOK, FilesOK, Discard, End, Goto, Without
  <1>9. ASSUME NEW c \in Client, Deadline(c) PROVE FilesOK'
    BY <1>9 DEF TypeOK, FilesOK, Deadline, End, Ended, Goto, Without
  <1>10. ASSUME NEW c \in Client, TryLock(c) PROVE FilesOK'
    <2>1. PICK d : lock' = lock \/ lock' = [lock EXCEPT ![d] = Probes(c)]
      BY <1>10 DEF TryLock
    <2>2. Probes(c) \in Holder
      BY Holders
    <2>3. lock' \in [Declaration -> Holder \cup {Free}]
        BY <2>1, <2>2 DEF TypeOK, FilesOK
    <2> QED
      BY <1>10, <2>3 DEF TypeOK, FilesOK, TryLock
  <1>11. ASSUME NEW c \in Client, Unlock(c) PROVE FilesOK'
    BY <1>11 DEF TypeOK, FilesOK, Unlock, Goto
  <1>12. ASSUME NEW c \in Client, RemoveEntry(c) PROVE FilesOK'
    BY <1>12 DEF TypeOK, FilesOK, RemoveEntry, Goto
  <1>13. ASSUME NEW c \in Client, Listed(c) PROVE FilesOK'
    BY <1>13 DEF TypeOK, FilesOK, Listed, End, Ended, Goto, Without
  <1>14. ASSUME NEW c \in Client, SentAll(c) PROVE FilesOK'
    BY <1>14 DEF TypeOK, FilesOK, SentAll, End, Ended, Goto, Without
  <1>15. ASSUME NEW c \in Client, ReadTrust(c) PROVE FilesOK'
    BY <1>15 DEF TypeOK, FilesOK, ReadTrust, End, Goto, Without
  <1>16. ASSUME NEW c \in Client, ReadLaunch(c) PROVE FilesOK'
    BY <1>16 DEF TypeOK, FilesOK, ReadLaunch, Advance
  <1>17. ASSUME NEW c \in Client, AcquireLock(c) PROVE FilesOK'
    <2>1. lock' \in [Declaration -> Holder \cup {Free}]
      BY <1>17, Holders DEF TypeOK, FilesOK, AcquireLock
    <2>2. /\ UNCHANGED <<endpoint, startup, launch>>
          /\ owner[c] = "loaded" /\ owner' = [owner EXCEPT ![c] = "locked"]
      BY <1>17 DEF AcquireLock, Advance
    <2> QED
      BY <2>1, <2>2 DEF TypeOK, FilesOK
  <1>18. ASSUME NEW c \in Client, LoseLock(c) PROVE FilesOK'
    BY <1>18 DEF TypeOK, FilesOK, LoseLock, Advance
  <1>19. ASSUME NEW c \in Client, Bind(c) PROVE FilesOK'
    BY <1>19 DEF TypeOK, FilesOK, OwnersOK, Endpoint, EndpointState, Bind, Advance, Publish
  <1>20. ASSUME NEW c \in Client, Serve(c) PROVE FilesOK'
    BY <1>20 DEF TypeOK, FilesOK, OwnersOK, Endpoint, EndpointState, Serve, Advance, Publish
  <1>21. ASSUME NEW c \in Client, Ready(c) PROVE FilesOK'
    BY <1>21 DEF TypeOK, FilesOK, OwnersOK, Endpoint, EndpointState, Ready, Advance, Publish
  <1>22. ASSUME NEW c \in Client, InitializationFails(c) PROVE FilesOK'
    BY <1>22 DEF TypeOK, FilesOK, OwnersOK, Endpoint, EndpointState, InitializationFails, Advance,
       Publish
  <1>23. ASSUME NEW c \in Client, LeaveFailed(c) PROVE FilesOK'
    BY <1>23 DEF TypeOK, FilesOK, OwnersOK, LeaveFailed, Leaves, Reply
  <1>24. ASSUME NEW c \in Client, TakeStop(c) PROVE FilesOK'
    BY <1>24 DEF TypeOK, SessionChosen, FilesOK, Endpoint, EndpointState, TakeStop, Publish, Reply
  <1>25. ASSUME NEW c \in Client, TakeForce(c) PROVE FilesOK'
    BY <1>25 DEF TypeOK, FilesOK, OwnersOK, ProcessesOK, KnowledgeOK, Endpoint, EndpointState,
       TakeForce, Publish, Reply
  <1>26. ASSUME NEW c \in Client, Drained(c) PROVE FilesOK'
    BY <1>26 DEF TypeOK, FilesOK, Drained, Reply
  <1>27. ASSUME NEW c \in Client, StopServing(c) PROVE FilesOK'
    BY <1>27 DEF TypeOK, FilesOK, StopServing, Reply
  <1>28. ASSUME NEW c \in Client, Abort(c) PROVE FilesOK'
    BY <1>28 DEF TypeOK, FilesOK, Abort, Advance
  <1>29. ASSUME NEW c \in Client, RemoveEndpoint(c) PROVE FilesOK'
    BY <1>29 DEF TypeOK, FilesOK, OwnersOK, RemoveEndpoint, Advance
  <1>30. ASSUME NEW c \in Client, Exit(c) PROVE FilesOK'
    BY <1>30 DEF TypeOK, FilesOK, OwnersOK, Exit, Leaves, Reply
  <1>31. ASSUME NEW c \in Client, KillClient(c) PROVE FilesOK'
    BY <1>31 DEF TypeOK, FilesOK, KillClient, End, Goto, Without
  <1>32. ASSUME NEW c \in Client, KillOwner(c) PROVE FilesOK'
    BY <1>32 DEF TypeOK, FilesOK, OwnersOK, KillOwner, Leaves, Reply
  <1>33. ASSUME NEW c \in Client,
            Start(c) \/ Find(c) \/ Unanswered(c) \/ List(c) \/
            Entry(c) \/ Live(c) \/ NotLive(c) \/ Send(c) \/ Replaced(c) \/ Withdrawn(c) \/
            ApplicationLock(c) \/ TrustLock(c) \/ WriteTrust(c)
     PROVE  FilesOK'
    BY <1>33 DEF TypeOK, FilesOK, Start, Find, Unanswered, List, Entry, Live, NotLive, Send,
       Replaced, Withdrawn, ApplicationLock, TrustLock, WriteTrust, Goto
  <1>34. ASSUME NEW c \in Client, SkipStop(c) PROVE FilesOK'
    BY <1>34 DEF TypeOK, FilesOK, SkipStop
  <1>35. ASSUME NEW w \in Workspace, EditProject(w) PROVE FilesOK'
    BY <1>35 DEF TypeOK, FilesOK, EditProject
  <1> QED
    BY <1>1, <1>2, <1>3, <1>4, <1>5, <1>6, <1>7, <1>8, <1>9, <1>10, <1>11, <1>12, <1>13, <1>14,
       <1>15, <1>16, <1>17, <1>18, <1>19, <1>20, <1>21, <1>22, <1>23, <1>24, <1>25, <1>26, <1>27,
       <1>28, <1>29, <1>30, <1>31, <1>32, <1>33, <1>34, <1>35 DEF Next, ClientStep, OwnerStep,
       Environment

LEMMA OwnersOKKept ==
    ASSUME TypeOK, Next
    PROVE  OwnersOK'
  <1> USE DEF configuration, files, owners, finding, listing, signal, process
  <1>1. ASSUME NEW c \in Client, Launch(c) PROVE OwnersOK'
    BY <1>1 DEF TypeOK, ConfigurationOK, FilesOK, OwnersOK, OwnerPhase, Launch, End, Goto
  <1>2. ASSUME NEW c \in Client, Send(c) PROVE OwnersOK'
    <2>1. UNCHANGED <<owner, stopper>>
      BY <1>2 DEF Send
    <2>2. PICK g \in found[c] : stops' = [stops EXCEPT ![g] = stops[g] \cup {c}] \/ UNCHANGED stops
      BY <1>2 DEF Send
    <2>3. g \in Client /\ stops[g] \cup {c} \subseteq Client
      BY DEF TypeOK, OwnersOK, KnowledgeOK
    <2>4. stops' \in [Client -> SUBSET Client]
      BY <2>2, <2>3 DEF TypeOK, OwnersOK
    <2> QED
      BY <2>1, <2>4 DEF TypeOK, OwnersOK
  <1>3. ASSUME NEW c \in Client, ReadLaunch(c) PROVE OwnersOK'
    BY <1>3 DEF TypeOK, OwnersOK, OwnerPhase, ReadLaunch, Advance
  <1>4. ASSUME NEW c \in Client, AcquireLock(c) PROVE OwnersOK'
    BY <1>4 DEF TypeOK, OwnersOK, OwnerPhase, AcquireLock, Advance
  <1>5. ASSUME NEW c \in Client, LoseLock(c) PROVE OwnersOK'
    BY <1>5 DEF TypeOK, OwnersOK, OwnerPhase, LoseLock, Advance
  <1>6. ASSUME NEW c \in Client, Bind(c) PROVE OwnersOK'
    BY <1>6 DEF TypeOK, OwnersOK, OwnerPhase, Bind, Advance
  <1>7. ASSUME NEW c \in Client, Serve(c) PROVE OwnersOK'
    BY <1>7 DEF TypeOK, OwnersOK, OwnerPhase, Serve, Advance
  <1>8. ASSUME NEW c \in Client, Ready(c) PROVE OwnersOK'
    BY <1>8 DEF TypeOK, OwnersOK, OwnerPhase, Ready, Advance
  <1>9. ASSUME NEW c \in Client, InitializationFails(c) PROVE OwnersOK'
    BY <1>9 DEF TypeOK, OwnersOK, OwnerPhase, InitializationFails, Advance
  <1>10. ASSUME NEW c \in Client, LeaveFailed(c) PROVE OwnersOK'
    BY <1>10 DEF TypeOK, OwnersOK, OwnerPhase, LeaveFailed, Leaves, Reply
  <1>11. ASSUME NEW c \in Client, TakeStop(c) PROVE OwnersOK'
    <2>1. PICK d \in stops[c] :
             /\ stops' = [stops EXCEPT ![c] = stops[c] \ {d}]
             /\ stopper' = stopper \/ stopper' = [stopper EXCEPT ![c] = d]
      BY <1>11 DEF TakeStop
    <2>2. stops' \in [Client -> SUBSET Client] /\ stopper' \in [Client -> Client \cup {NoClient}]
      BY <2>1 DEF TypeOK, OwnersOK, ProcessesOK
    <2>3. owner' \in [Client -> OwnerPhase]
      BY <1>11 DEF TypeOK, OwnersOK, TakeStop, OwnerPhase
    <2> QED
      BY <2>2, <2>3 DEF OwnersOK
  <1>12. ASSUME NEW c \in Client, TakeForce(c) PROVE OwnersOK'
    BY <1>12 DEF TypeOK, OwnersOK, OwnerPhase, TakeForce, Reply
  <1>13. ASSUME NEW c \in Client, SkipStop(c) PROVE OwnersOK'
    BY <1>13 DEF TypeOK, OwnersOK, SkipStop
  <1>14. ASSUME NEW c \in Client, Drained(c) PROVE OwnersOK'
    BY <1>14 DEF TypeOK, OwnersOK, OwnerPhase, Drained, Reply
  <1>15. ASSUME NEW c \in Client, StopServing(c) PROVE OwnersOK'
    BY <1>15 DEF TypeOK, OwnersOK, OwnerPhase, StopServing, Reply
  <1>16. ASSUME NEW c \in Client, Abort(c) PROVE OwnersOK'
    BY <1>16 DEF TypeOK, OwnersOK, OwnerPhase, Abort, Advance
  <1>17. ASSUME NEW c \in Client, RemoveEndpoint(c) PROVE OwnersOK'
    BY <1>17 DEF TypeOK, OwnersOK, OwnerPhase, RemoveEndpoint, Advance
  <1>18. ASSUME NEW c \in Client, Exit(c) PROVE OwnersOK'
    BY <1>18 DEF TypeOK, OwnersOK, OwnerPhase, Exit, Leaves, Reply
  <1>19. ASSUME NEW c \in Client, KillOwner(c) PROVE OwnersOK'
    BY <1>19 DEF TypeOK, OwnersOK, OwnerPhase, KillOwner, Leaves, Reply
  <1>20. ASSUME NEW c \in Client,
            Start(c) \/ Load(c) \/ Authorize(c) \/ Reload(c) \/
            Recheck(c) \/ Find(c) \/ Attach(c) \/ Unanswered(c) \/ StartupLock(c) \/ Discard(c) \/
            Deadline(c) \/ List(c) \/ Entry(c) \/ Live(c) \/ NotLive(c) \/ TryLock(c) \/
            Unlock(c) \/ RemoveEntry(c) \/ Listed(c) \/ SentAll(c) \/ Replaced(c) \/
            Withdrawn(c) \/ ApplicationLock(c) \/ TrustLock(c) \/ ReadTrust(c) \/ WriteTrust(c)
     PROVE  OwnersOK'
    BY <1>20 DEF TypeOK, OwnersOK, Start, Load, Authorize, Reload, Recheck, Find, Attach,
       Unanswered, StartupLock, Discard, Deadline, List, Entry, Live, NotLive, TryLock, Unlock,
       RemoveEntry, Listed, SentAll, Replaced, Withdrawn, ApplicationLock, TrustLock, ReadTrust,
       WriteTrust, Goto, End
  <1>21. ASSUME NEW c \in Client, KillClient(c) PROVE OwnersOK'
    BY <1>21 DEF TypeOK, OwnersOK, KillClient, End, Goto
  <1>22. ASSUME NEW w \in Workspace, EditProject(w) PROVE OwnersOK'
    BY <1>22 DEF TypeOK, OwnersOK, EditProject
  <1> QED
    BY <1>1, <1>2, <1>3, <1>4, <1>5, <1>6, <1>7, <1>8, <1>9, <1>10, <1>11, <1>12, <1>13, <1>14,
       <1>15, <1>16, <1>17, <1>18, <1>19, <1>20, <1>21, <1>22 DEF Next, ClientStep, OwnerStep,
       Environment

LEMMA ProcessesOKKept ==
    ASSUME TypeOK, Next
    PROVE  ProcessesOK'
  <1> USE DEF configuration, files, owners, finding, listing, signal, process
  <1>1. ASSUME NEW c \in Client, Start(c) PROVE ProcessesOK'
    BY <1>1 DEF TypeOK, ProcessesOK, ClientLabel, Start, Goto, Running
  <1>2. ASSUME NEW c \in Client, Load(c) PROVE ProcessesOK'
    <2>1. \E label \in {"authorize", "applicationLock", "done"} : Goto(c, label)
      BY <1>2 DEF Load, End
    <2>2. pc' \in [Client -> ClientLabel]
      BY <2>1 DEF TypeOK, ProcessesOK, Goto, ClientLabel
    <2>3. outcome' \in [Client -> Outcome]
      BY <1>2 DEF TypeOK, ProcessesOK, Load, Outcome, End, Running
    <2>4. /\ UNCHANGED task /\ refused' \in [Client -> BOOLEAN]
          /\ disturbances' \in 0..MaxDisturbances
      BY <1>2 DEF TypeOK, ProcessesOK, Load, End, Ended, Running
    <2> QED
      BY <2>2, <2>3, <2>4 DEF TypeOK, ProcessesOK
  <1>3. ASSUME NEW c \in Client, Authorize(c) PROVE ProcessesOK'
    <2>1. \E label \in {"waitExit", "find", "done"} : Goto(c, label)
      BY <1>3 DEF Authorize, End
    <2>2. pc' \in [Client -> ClientLabel]
      BY <2>1 DEF TypeOK, ProcessesOK, Goto, ClientLabel
    <2>3. outcome' \in [Client -> Outcome]
      BY <1>3 DEF TypeOK, ProcessesOK, Authorize, Outcome, End, Running
    <2>4. /\ UNCHANGED task /\ refused' \in [Client -> BOOLEAN]
          /\ disturbances' \in 0..MaxDisturbances
      BY <1>3 DEF TypeOK, ProcessesOK, Authorize, End, Ended, Running
    <2> QED
      BY <2>2, <2>3, <2>4 DEF TypeOK, ProcessesOK
  <1>4. ASSUME NEW c \in Client, Reload(c) PROVE ProcessesOK'
    <2>1. \E label \in {"recheck", "startupLock", "done"} : Goto(c, label)
      BY <1>4 DEF Reload, End
    <2>2. pc' \in [Client -> ClientLabel]
      BY <2>1 DEF TypeOK, ProcessesOK, Goto, ClientLabel
    <2>3. outcome' \in [Client -> Outcome]
      BY <1>4 DEF TypeOK, ProcessesOK, Reload, Outcome, End, Running
    <2>4. /\ UNCHANGED task /\ refused' \in [Client -> BOOLEAN]
          /\ disturbances' \in 0..MaxDisturbances
      BY <1>4 DEF TypeOK, ProcessesOK, Reload, End, Ended, Running
    <2> QED
      BY <2>2, <2>3, <2>4 DEF TypeOK, ProcessesOK
  <1>5. ASSUME NEW c \in Client, Recheck(c) PROVE ProcessesOK'
    <2>1. \E label \in {"startupLock", "done"} : Goto(c, label)
      BY <1>5 DEF Recheck, End
    <2>2. pc' \in [Client -> ClientLabel]
      BY <2>1 DEF TypeOK, ProcessesOK, Goto, ClientLabel
    <2>3. outcome' \in [Client -> Outcome]
      BY <1>5 DEF TypeOK, ProcessesOK, Recheck, Outcome, End, Running
    <2>4. /\ UNCHANGED task /\ refused' \in [Client -> BOOLEAN]
          /\ disturbances' \in 0..MaxDisturbances
      BY <1>5 DEF TypeOK, ProcessesOK, Recheck, End, Ended, Running
    <2> QED
      BY <2>2, <2>3, <2>4 DEF TypeOK, ProcessesOK
  <1>6. ASSUME NEW c \in Client, Find(c) PROVE ProcessesOK'
    BY <1>6 DEF TypeOK, ProcessesOK, ClientLabel, Find, Goto, Running, ProbeAt, Unprobed
  <1>7. ASSUME NEW c \in Client, Attach(c) PROVE ProcessesOK'
    BY <1>7 DEF TypeOK, ProcessesOK, ClientLabel, Outcome, Attach, End, Ended, Goto, Answers
  <1>8. ASSUME NEW c \in Client, Unanswered(c) PROVE ProcessesOK'
    BY <1>8, ConstantAssumption DEF TypeOK, ProcessesOK, ClientLabel, Unanswered, Goto, Running,
       Silent, Disturb, Unprobed
  <1>9. ASSUME NEW c \in Client, StartupLock(c) PROVE ProcessesOK'
    BY <1>9 DEF TypeOK, ProcessesOK, ClientLabel, StartupLock, Goto, Running
  <1>10. ASSUME NEW c \in Client, Launch(c) PROVE ProcessesOK'
    <2>1. \E label \in {"await", "done"} : Goto(c, label)
      BY <1>10 DEF Launch, End
    <2>2. pc' \in [Client -> ClientLabel]
      BY <2>1 DEF TypeOK, ProcessesOK, Goto, ClientLabel
    <2>3. outcome' \in [Client -> Outcome]
      BY <1>10 DEF TypeOK, ProcessesOK, Launch, Outcome, End
    <2>4. /\ UNCHANGED task /\ refused' \in [Client -> BOOLEAN]
          /\ disturbances' \in 0..MaxDisturbances
      BY <1>10 DEF TypeOK, ProcessesOK, Launch, End
    <2> QED
      BY <2>2, <2>3, <2>4 DEF TypeOK, ProcessesOK
  <1>11. ASSUME NEW c \in Client, Discard(c) PROVE ProcessesOK'
    BY <1>11 DEF TypeOK, ProcessesOK, ClientLabel, Outcome, Discard, End, Goto
  <1>12. ASSUME NEW c \in Client, Deadline(c) PROVE ProcessesOK'
    BY <1>12 DEF TypeOK, ProcessesOK, ClientLabel, Outcome, Deadline, End, Ended, Goto
  <1>13. ASSUME NEW c \in Client, List(c) PROVE ProcessesOK'
    BY <1>13 DEF TypeOK, ProcessesOK, ClientLabel, List, Goto, Running
  <1>14. ASSUME NEW c \in Client, Entry(c) PROVE ProcessesOK'
    BY <1>14 DEF TypeOK, ProcessesOK, ClientLabel, Entry, Goto, Running
  <1>15. ASSUME NEW c \in Client, Live(c) PROVE ProcessesOK'
    BY <1>15 DEF TypeOK, ProcessesOK, ClientLabel, Live, Goto, Running, Answers
  <1>16. ASSUME NEW c \in Client, NotLive(c) PROVE ProcessesOK'
    BY <1>16, ConstantAssumption DEF TypeOK, ProcessesOK, ClientLabel, NotLive, Goto, Running,
       Silent, Disturb
  <1>17. ASSUME NEW c \in Client, TryLock(c) PROVE ProcessesOK'
    <2>1. pc' \in [Client -> ClientLabel]
      BY <1>17 DEF TypeOK, FilesOK, ProcessesOK, TryLock, End, Goto, ClientLabel
    <2>2. outcome' \in [Client -> Outcome]
      BY <1>17 DEF TypeOK, ProcessesOK, TryLock, Running
    <2>3. /\ UNCHANGED task /\ refused' \in [Client -> BOOLEAN]
          /\ disturbances' \in 0..MaxDisturbances
      BY <1>17 DEF TypeOK, ProcessesOK, TryLock, Running
    <2> QED
      BY <2>1, <2>2, <2>3 DEF TypeOK, ProcessesOK
  <1>18. ASSUME NEW c \in Client, Unlock(c) PROVE ProcessesOK'
    BY <1>18 DEF TypeOK, ProcessesOK, ClientLabel, Unlock, Goto, Running
  <1>19. ASSUME NEW c \in Client, RemoveEntry(c) PROVE ProcessesOK'
    BY <1>19 DEF TypeOK, ProcessesOK, ClientLabel, RemoveEntry, Goto, Running
  <1>20. ASSUME NEW c \in Client, Listed(c) PROVE ProcessesOK'
    <2>1. \E label \in {"send", "done"} : Goto(c, label)
      BY <1>20 DEF Listed, End
    <2>2. pc' \in [Client -> ClientLabel]
      BY <2>1 DEF TypeOK, ProcessesOK, Goto, ClientLabel
    <2>3. outcome' \in [Client -> Outcome]
      BY <1>20 DEF TypeOK, OwnersOK, ProcessesOK, Listed, Outcome, End, Running
    <2>4. /\ UNCHANGED task /\ refused' \in [Client -> BOOLEAN]
          /\ disturbances' \in 0..MaxDisturbances
      BY <1>20 DEF TypeOK, ProcessesOK, Listed, End, Ended, Running
    <2> QED
      BY <2>2, <2>3, <2>4 DEF TypeOK, ProcessesOK
  <1>21. ASSUME NEW c \in Client, Send(c) PROVE ProcessesOK'
    <2>1. pc' \in [Client -> ClientLabel]
      <3>1. Goto(c, "reply") \/ UNCHANGED pc
        BY <1>21 DEF Send
      <3> QED
        BY <3>1 DEF TypeOK, ProcessesOK, Goto, ClientLabel
    <2>2. outcome' \in [Client -> Outcome]
      BY <1>21 DEF TypeOK, ProcessesOK, Send, Running
    <2>3. /\ UNCHANGED task /\ refused' \in [Client -> BOOLEAN]
          /\ disturbances' \in 0..MaxDisturbances
      BY <1>21 DEF TypeOK, ProcessesOK, Send, Running
    <2> QED
      BY <2>1, <2>2, <2>3 DEF TypeOK, ProcessesOK
  <1>22. ASSUME NEW c \in Client, SentAll(c) PROVE ProcessesOK'
    <2>1. \E label \in {"load", "done"} : Goto(c, label)
      BY <1>22 DEF SentAll, End
    <2>2. pc' \in [Client -> ClientLabel]
      BY <2>1 DEF TypeOK, ProcessesOK, Goto, ClientLabel
    <2>3. outcome' \in [Client -> Outcome]
      BY <1>22 DEF TypeOK, ProcessesOK, SentAll, Outcome, End, Running
    <2>4. /\ UNCHANGED task /\ refused' \in [Client -> BOOLEAN]
          /\ disturbances' \in 0..MaxDisturbances
      BY <1>22 DEF TypeOK, ProcessesOK, SentAll, End, Ended, Running
    <2> QED
      BY <2>2, <2>3, <2>4 DEF TypeOK, ProcessesOK
  <1>23. ASSUME NEW c \in Client, Replaced(c) PROVE ProcessesOK'
    BY <1>23 DEF TypeOK, ProcessesOK, ClientLabel, Replaced, Goto, Running
  <1>24. ASSUME NEW c \in Client, Withdrawn(c) PROVE ProcessesOK'
    BY <1>24 DEF TypeOK, ProcessesOK, ClientLabel, Withdrawn, Goto, Running
  <1>25. ASSUME NEW c \in Client, ApplicationLock(c) PROVE ProcessesOK'
    BY <1>25 DEF TypeOK, ProcessesOK, ClientLabel, ApplicationLock, Goto, Running
  <1>26. ASSUME NEW c \in Client, TrustLock(c) PROVE ProcessesOK'
    BY <1>26 DEF TypeOK, ProcessesOK, ClientLabel, TrustLock, Goto, Running
  <1>27. ASSUME NEW c \in Client, ReadTrust(c) PROVE ProcessesOK'
    <2>1. \E label \in {"writeTrust", "done"} : Goto(c, label)
      BY <1>27 DEF ReadTrust, End
    <2>2. pc' \in [Client -> ClientLabel]
      BY <2>1 DEF TypeOK, ProcessesOK, Goto, ClientLabel
    <2>3. outcome' \in [Client -> Outcome]
      BY <1>27 DEF TypeOK, ProcessesOK, ReadTrust, Outcome, End
    <2>4. /\ UNCHANGED task /\ refused' \in [Client -> BOOLEAN]
          /\ disturbances' \in 0..MaxDisturbances
      BY <1>27 DEF TypeOK, ProcessesOK, ReadTrust, End
    <2> QED
      BY <2>2, <2>3, <2>4 DEF TypeOK, ProcessesOK
  <1>28. ASSUME NEW c \in Client, WriteTrust(c) PROVE ProcessesOK'
    BY <1>28 DEF TypeOK, ProcessesOK, ClientLabel, WriteTrust, Goto, Running
  <1>29. ASSUME NEW c \in Client, LeaveFailed(c) PROVE ProcessesOK'
    BY <1>29 DEF TypeOK, ProcessesOK, ClientLabel, LeaveFailed, Leaves, Reply
  <1>30. ASSUME NEW c \in Client, TakeStop(c) PROVE ProcessesOK'
    <2>1. PICK d \in stops[c] :
             IF owner[c] = "ready" THEN UNCHANGED <<pc, signal>> ELSE Reply(c, {d}, {})
      BY <1>30 DEF TakeStop
    <2>2. pc' \in [Client -> ClientLabel] /\ refused' \in [Client -> BOOLEAN]
      <3>1. CASE UNCHANGED <<pc, signal>>
        BY <3>1 DEF TypeOK, ProcessesOK
      <3>2. CASE Reply(c, {d}, {})
        BY <3>2 DEF TypeOK, ProcessesOK, Reply, ClientLabel
      <3> QED
        BY <2>1, <3>1, <3>2
    <2> QED
      BY <1>30, <2>2 DEF TypeOK, ProcessesOK, TakeStop
  <1>31. ASSUME NEW c \in Client, TakeForce(c) PROVE ProcessesOK'
    BY <1>31 DEF TypeOK, ProcessesOK, ClientLabel, TakeForce, Reply
  <1>32. ASSUME NEW c \in Client, Drained(c) PROVE ProcessesOK'
    BY <1>32 DEF TypeOK, ProcessesOK, ClientLabel, Drained, Reply
  <1>33. ASSUME NEW c \in Client, StopServing(c) PROVE ProcessesOK'
    BY <1>33 DEF TypeOK, ProcessesOK, ClientLabel, StopServing, Reply
  <1>34. ASSUME NEW c \in Client, Exit(c) PROVE ProcessesOK'
    BY <1>34 DEF TypeOK, ProcessesOK, ClientLabel, Exit, Leaves, Reply
  <1>35. ASSUME NEW w \in Workspace, EditProject(w) PROVE ProcessesOK'
    BY <1>35, ConstantAssumption DEF TypeOK, ProcessesOK, EditProject, Disturb
  <1>36. ASSUME NEW c \in Client, KillClient(c) PROVE ProcessesOK'
    BY <1>36, ConstantAssumption DEF TypeOK, ProcessesOK, ClientLabel, Outcome, KillClient, End,
       Goto, Disturb
  <1>37. ASSUME NEW c \in Client, KillOwner(c) PROVE ProcessesOK'
    BY <1>37, ConstantAssumption DEF TypeOK, ProcessesOK, ClientLabel, KillOwner, Leaves, Reply,
       Disturb
  <1>38. ASSUME NEW c \in Client,
            ReadLaunch(c) \/ AcquireLock(c) \/ LoseLock(c) \/
            Bind(c) \/ Serve(c) \/ Ready(c) \/ InitializationFails(c) \/ SkipStop(c) \/
            Abort(c) \/ RemoveEndpoint(c)
     PROVE  ProcessesOK'
    BY <1>38 DEF TypeOK, ProcessesOK, ReadLaunch, AcquireLock, LoseLock, Bind, Serve, Ready,
       InitializationFails, SkipStop, Abort, RemoveEndpoint, Advance
  <1> QED
    BY <1>1, <1>2, <1>3, <1>4, <1>5, <1>6, <1>7, <1>8, <1>9, <1>10, <1>11, <1>12, <1>13, <1>14,
       <1>15, <1>16, <1>17, <1>18, <1>19, <1>20, <1>21, <1>22, <1>23, <1>24, <1>25, <1>26, <1>27,
       <1>28, <1>29, <1>30, <1>31, <1>32, <1>33, <1>34, <1>35, <1>36, <1>37, <1>38 DEF Next,
       ClientStep, OwnerStep, Environment

LEMMA KnowledgeOKKept ==
    ASSUME TypeOK, SessionChosen, EndpointSeen, FoundRuns, Targeted, Next
    PROVE  KnowledgeOK'
  <1> USE DEF configuration, files, owners, finding, listing, signal, process
  <1>1. ASSUME NEW c \in Client, Load(c) PROVE KnowledgeOK'
    <2>1. project[Place(c)] \in Declaration
      BY TaskType DEF TypeOK, ConfigurationOK, KnowledgeOK
    <2>2. ASSUME Command_of(c) = "restart" PROVE project[Home[session[target[c]]]] \in Declaration
      BY <1>1, <2>2, ConstantAssumption DEF TypeOK, ConfigurationOK, KnowledgeOK, SessionChosen,
         FoundRuns, Targeted, Load
    <2>3. session' \in [Client -> Declaration \cup {NoDeclaration}]
      BY <1>1, <2>1, <2>2 DEF TypeOK, KnowledgeOK, Load
    <2> QED
      BY <1>1, <2>3 DEF TypeOK, KnowledgeOK, Load, End, Ended, Goto
  <1>2. ASSUME NEW c \in Client, Find(c) PROVE KnowledgeOK'
    <2>1. endpoint[session[c]] \in Endpoint \cup {NoFile}
      BY <1>2, FindLabels DEF TypeOK, FilesOK, KnowledgeOK, SessionChosen, Chosen, Find
    <2> QED
      BY <1>2, <2>1 DEF TypeOK, KnowledgeOK, Find
  <1>3. ASSUME NEW c \in Client, Unanswered(c) PROVE KnowledgeOK'
    BY <1>3 DEF TypeOK, KnowledgeOK, Unanswered, Goto
  <1>4. ASSUME NEW c \in Client, List(c) PROVE KnowledgeOK'
    BY <1>4 DEF TypeOK, KnowledgeOK, List, Goto
  <1>5. ASSUME NEW c \in Client, Entry(c) PROVE KnowledgeOK'
    BY <1>5 DEF TypeOK, FilesOK, KnowledgeOK, Entry, Goto
  <1>6. ASSUME NEW c \in Client, Live(c) PROVE KnowledgeOK'
    <2>1. seen[c].generation \in Client
      BY <1>6 DEF EndpointSeen, Probing, Endpoint, Live
    <2>2. found' \in [Client -> SUBSET Client] /\ seen' \in [Client -> Endpoint \cup {NoFile}]
      BY <1>6, <2>1 DEF TypeOK, KnowledgeOK, Live
    <2> QED
      BY <1>6, <2>2 DEF TypeOK, KnowledgeOK, Live
  <1>7. ASSUME NEW c \in Client, NotLive(c) PROVE KnowledgeOK'
    BY <1>7 DEF TypeOK, KnowledgeOK, NotLive, Goto
  <1>8. ASSUME NEW c \in Client, Listed(c) PROVE KnowledgeOK'
    BY <1>8 DEF TypeOK, KnowledgeOK, Listed, End, Ended, Goto
  <1>9. ASSUME NEW c \in Client, Send(c) PROVE KnowledgeOK'
    BY <1>9 DEF TypeOK, KnowledgeOK, Send, Goto
  <1>10. ASSUME NEW c \in Client, ReadTrust(c) PROVE KnowledgeOK'
    BY <1>10 DEF TypeOK, ConfigurationOK, KnowledgeOK, ReadTrust, End, Goto
  <1>11. ASSUME NEW c \in Client, LeaveFailed(c) PROVE KnowledgeOK'
    BY <1>11 DEF TypeOK, KnowledgeOK, LeaveFailed, Leaves, Reply
  <1>12. ASSUME NEW c \in Client, TakeStop(c) PROVE KnowledgeOK'
    BY <1>12 DEF TypeOK, KnowledgeOK, TakeStop, Reply
  <1>13. ASSUME NEW c \in Client, TakeForce(c) PROVE KnowledgeOK'
    BY <1>13 DEF TypeOK, KnowledgeOK, TakeForce, Reply
  <1>14. ASSUME NEW c \in Client, Drained(c) PROVE KnowledgeOK'
    BY <1>14 DEF TypeOK, KnowledgeOK, Drained, Reply
  <1>15. ASSUME NEW c \in Client, StopServing(c) PROVE KnowledgeOK'
    BY <1>15 DEF TypeOK, KnowledgeOK, StopServing, Reply
  <1>16. ASSUME NEW c \in Client, Exit(c) PROVE KnowledgeOK'
    BY <1>16 DEF TypeOK, KnowledgeOK, Exit, Leaves, Reply
  <1>17. ASSUME NEW c \in Client, KillOwner(c) PROVE KnowledgeOK'
    BY <1>17 DEF TypeOK, KnowledgeOK, KillOwner, Leaves, Reply
  <1>18. ASSUME NEW c \in Client,
            Start(c) \/ Authorize(c) \/ Reload(c) \/
            Recheck(c) \/ Attach(c) \/ StartupLock(c) \/ Launch(c) \/ Discard(c) \/ Deadline(c) \/
            TryLock(c) \/ Unlock(c) \/ RemoveEntry(c) \/ SentAll(c) \/ Replaced(c) \/
            Withdrawn(c) \/ ApplicationLock(c) \/ TrustLock(c) \/ WriteTrust(c)
     PROVE  KnowledgeOK'
    BY <1>18 DEF TypeOK, KnowledgeOK, Start, Authorize, Reload, Recheck, Attach, StartupLock,
       Launch, Discard, Deadline, TryLock, Unlock, RemoveEntry, SentAll, Replaced, Withdrawn,
       ApplicationLock, TrustLock, WriteTrust, Goto, End, Ended
  <1>19. ASSUME NEW c \in Client,
            ReadLaunch(c) \/ AcquireLock(c) \/ LoseLock(c) \/
            Bind(c) \/ Serve(c) \/ Ready(c) \/ InitializationFails(c) \/ SkipStop(c) \/
            Abort(c) \/ RemoveEndpoint(c) \/ KillClient(c)
     PROVE  KnowledgeOK'
    BY <1>19 DEF TypeOK, KnowledgeOK, ReadLaunch, AcquireLock, LoseLock, Bind, Serve, Ready,
       InitializationFails, SkipStop, Abort, RemoveEndpoint, KillClient, Advance, End, Goto
  <1>20. ASSUME NEW w \in Workspace, EditProject(w) PROVE KnowledgeOK'
    BY <1>20 DEF TypeOK, KnowledgeOK, EditProject
  <1> QED
    BY <1>1, <1>2, <1>3, <1>4, <1>5, <1>6, <1>7, <1>8, <1>9, <1>10, <1>11, <1>12, <1>13, <1>14,
       <1>15, <1>16, <1>17, <1>18, <1>19, <1>20 DEF Next, ClientStep, OwnerStep, Environment

-----------------------------------------------------------------------------
(* Where a process is, and what it knows there *)

LEMMA StarterWaitsKept ==
    ASSUME TypeOK, StarterWaits, Next
    PROVE  StarterWaits'
  <1> USE DEF configuration, files, owners, finding, listing, signal, process
  <1>1. ASSUME NEW c \in Client, Start(c) PROVE StarterWaits'
    BY <1>1 DEF StarterWaits, Waiting, Start, Goto
  <1>2. ASSUME NEW c \in Client, Load(c) PROVE StarterWaits'
    BY <1>2 DEF TypeOK, StarterWaits, ProcessesOK, Waiting, Load, End, Goto
  <1>3. ASSUME NEW c \in Client, Authorize(c) PROVE StarterWaits'
    BY <1>3 DEF TypeOK, StarterWaits, ProcessesOK, Waiting, Authorize, End, Goto
  <1>4. ASSUME NEW c \in Client, Reload(c) PROVE StarterWaits'
    BY <1>4 DEF TypeOK, StarterWaits, ProcessesOK, Waiting, Reload, End, Goto
  <1>5. ASSUME NEW c \in Client, Recheck(c) PROVE StarterWaits'
    BY <1>5 DEF TypeOK, StarterWaits, ProcessesOK, Waiting, Recheck, End, Goto
  <1>6. ASSUME NEW c \in Client, Find(c) PROVE StarterWaits'
    BY <1>6 DEF StarterWaits, Waiting, Find, Goto, ProbeAt, Unprobed
  <1>7. ASSUME NEW c \in Client, Attach(c) PROVE StarterWaits'
    BY <1>7 DEF StarterWaits, Waiting, Attach, End, Goto
  <1>8. ASSUME NEW c \in Client, Unanswered(c) PROVE StarterWaits'
    BY <1>8 DEF StarterWaits, Waiting, Unanswered, Goto, Unprobed
  <1>9. ASSUME NEW c \in Client, StartupLock(c) PROVE StarterWaits'
    BY <1>9 DEF StarterWaits, Waiting, StartupLock, Goto
  <1>10. ASSUME NEW c \in Client, Launch(c) PROVE StarterWaits'
    BY <1>10 DEF TypeOK, StarterWaits, OwnersOK, ProcessesOK, Waiting, Launch, End, Goto
  <1>11. ASSUME NEW c \in Client, Discard(c) PROVE StarterWaits'
    BY <1>11 DEF StarterWaits, Waiting, Discard, End, Goto
  <1>12. ASSUME NEW c \in Client, Deadline(c) PROVE StarterWaits'
    BY <1>12 DEF StarterWaits, Waiting, Deadline, End, Goto
  <1>13. ASSUME NEW c \in Client, List(c) PROVE StarterWaits'
    BY <1>13 DEF StarterWaits, Waiting, List, Goto
  <1>14. ASSUME NEW c \in Client, Entry(c) PROVE StarterWaits'
    BY <1>14 DEF StarterWaits, Waiting, Entry, Goto
  <1>15. ASSUME NEW c \in Client, Live(c) PROVE StarterWaits'
    BY <1>15 DEF StarterWaits, Waiting, Live, Goto
  <1>16. ASSUME NEW c \in Client, NotLive(c) PROVE StarterWaits'
    BY <1>16 DEF StarterWaits, Waiting, NotLive, Goto
  <1>17. ASSUME NEW c \in Client, TryLock(c) PROVE StarterWaits'
    BY <1>17 DEF TypeOK, StarterWaits, ProcessesOK, Waiting, TryLock, Goto
  <1>18. ASSUME NEW c \in Client, Unlock(c) PROVE StarterWaits'
    BY <1>18 DEF StarterWaits, Waiting, Unlock, Goto
  <1>19. ASSUME NEW c \in Client, RemoveEntry(c) PROVE StarterWaits'
    BY <1>19 DEF StarterWaits, Waiting, RemoveEntry, Goto
  <1>20. ASSUME NEW c \in Client, Listed(c) PROVE StarterWaits'
    <2>1. UNCHANGED owner /\ owner[c] = "none"
      BY <1>20 DEF StarterWaits, Waiting, Listed
    <2>2. \A d \in Client : d # c => pc'[d] = pc[d]
      BY <1>20 DEF TypeOK, ProcessesOK, Listed, End, Goto
    <2> QED
      BY <2>1, <2>2 DEF StarterWaits
  <1>21. ASSUME NEW c \in Client, Send(c) PROVE StarterWaits'
    BY <1>21 DEF TypeOK, StarterWaits, ProcessesOK, Waiting, Send, Goto
  <1>22. ASSUME NEW c \in Client, SentAll(c) PROVE StarterWaits'
    BY <1>22 DEF TypeOK, StarterWaits, ProcessesOK, Waiting, SentAll, End, Goto
  <1>23. ASSUME NEW c \in Client, Replaced(c) PROVE StarterWaits'
    BY <1>23 DEF StarterWaits, Waiting, Replaced, Goto
  <1>24. ASSUME NEW c \in Client, Withdrawn(c) PROVE StarterWaits'
    BY <1>24 DEF StarterWaits, Waiting, Withdrawn, Goto
  <1>25. ASSUME NEW c \in Client, ApplicationLock(c) PROVE StarterWaits'
    BY <1>25 DEF StarterWaits, Waiting, ApplicationLock, Goto
  <1>26. ASSUME NEW c \in Client, TrustLock(c) PROVE StarterWaits'
    BY <1>26 DEF StarterWaits, Waiting, TrustLock, Goto
  <1>27. ASSUME NEW c \in Client, ReadTrust(c) PROVE StarterWaits'
    BY <1>27 DEF TypeOK, StarterWaits, ProcessesOK, Waiting, ReadTrust, End, Goto
  <1>28. ASSUME NEW c \in Client, WriteTrust(c) PROVE StarterWaits'
    BY <1>28 DEF StarterWaits, Waiting, WriteTrust, Goto
  <1>29. ASSUME NEW c \in Client, ReadLaunch(c) PROVE StarterWaits'
    BY <1>29 DEF StarterWaits, ReadLaunch, Advance
  <1>30. ASSUME NEW c \in Client, AcquireLock(c) PROVE StarterWaits'
    BY <1>30 DEF StarterWaits, AcquireLock, Advance
  <1>31. ASSUME NEW c \in Client, LoseLock(c) PROVE StarterWaits'
    BY <1>31 DEF StarterWaits, LoseLock, Advance
  <1>32. ASSUME NEW c \in Client, Bind(c) PROVE StarterWaits'
    BY <1>32 DEF StarterWaits, Bind, Advance
  <1>33. ASSUME NEW c \in Client, Serve(c) PROVE StarterWaits'
    BY <1>33 DEF StarterWaits, Serve, Advance
  <1>34. ASSUME NEW c \in Client, Ready(c) PROVE StarterWaits'
    BY <1>34 DEF StarterWaits, Ready, Advance
  <1>35. ASSUME NEW c \in Client, InitializationFails(c) PROVE StarterWaits'
    BY <1>35 DEF StarterWaits, InitializationFails, Advance
  <1>36. ASSUME NEW c \in Client, LeaveFailed(c) PROVE StarterWaits'
    BY <1>36 DEF StarterWaits, Waiting, LeaveFailed, Leaves, Reply
  <1>37. ASSUME NEW c \in Client, TakeStop(c) PROVE StarterWaits'
    BY <1>37 DEF StarterWaits, Waiting, TakeStop, Reply
  <1>38. ASSUME NEW c \in Client, TakeForce(c) PROVE StarterWaits'
    BY <1>38 DEF StarterWaits, Waiting, TakeForce, Reply
  <1>39. ASSUME NEW c \in Client, Drained(c) PROVE StarterWaits'
    BY <1>39 DEF StarterWaits, Waiting, Drained, Reply
  <1>40. ASSUME NEW c \in Client, StopServing(c) PROVE StarterWaits'
    BY <1>40 DEF StarterWaits, Waiting, StopServing, Reply
  <1>41. ASSUME NEW c \in Client, Abort(c) PROVE StarterWaits'
    BY <1>41 DEF StarterWaits, Abort, Advance
  <1>42. ASSUME NEW c \in Client, RemoveEndpoint(c) PROVE StarterWaits'
    BY <1>42 DEF StarterWaits, RemoveEndpoint, Advance
  <1>43. ASSUME NEW c \in Client, Exit(c) PROVE StarterWaits'
    BY <1>43 DEF StarterWaits, Waiting, Exit, Leaves, Reply
  <1>44. ASSUME NEW c \in Client, KillClient(c) PROVE StarterWaits'
    BY <1>44 DEF StarterWaits, Waiting, KillClient, End, Goto
  <1>45. ASSUME NEW c \in Client, KillOwner(c) PROVE StarterWaits'
    BY <1>45 DEF StarterWaits, Waiting, KillOwner, Leaves, Reply
  <1>46. ASSUME NEW c \in Client, SkipStop(c) PROVE StarterWaits'
    BY <1>46 DEF StarterWaits, SkipStop
  <1>47. ASSUME NEW w \in Workspace, EditProject(w) PROVE StarterWaits'
    BY <1>47 DEF StarterWaits, EditProject
  <1> QED
    BY <1>1, <1>2, <1>3, <1>4, <1>5, <1>6, <1>7, <1>8, <1>9, <1>10, <1>11, <1>12, <1>13, <1>14,
       <1>15, <1>16, <1>17, <1>18, <1>19, <1>20, <1>21, <1>22, <1>23, <1>24, <1>25, <1>26, <1>27,
       <1>28, <1>29, <1>30, <1>31, <1>32, <1>33, <1>34, <1>35, <1>36, <1>37, <1>38, <1>39, <1>40,
       <1>41, <1>42, <1>43, <1>44, <1>45, <1>46, <1>47 DEF Next, ClientStep, OwnerStep, Environment

LEMMA SessionChosenKept ==
    ASSUME TypeOK, SessionChosen, FoundRuns, Targeted, Next
    PROVE  SessionChosen'
  <1> USE DEF configuration, files, owners, finding, listing, signal, process
  <1>1. ASSUME NEW c \in Client, Start(c) PROVE SessionChosen'
    BY <1>1 DEF SessionChosen, Chosen, Start, Goto
  <1>2. ASSUME NEW c \in Client, Load(c) PROVE SessionChosen'
    <2>1. project[Place(c)] \in Declaration
      BY TaskType DEF TypeOK, ConfigurationOK
    <2>2. ASSUME Command_of(c) = "restart" PROVE project[Home[session[target[c]]]] \in Declaration
      BY <1>2, <2>2, ConstantAssumption DEF TypeOK, ConfigurationOK, SessionChosen, FoundRuns,
         Targeted, Load
    <2>3. /\ session'[c] \in Declaration
          /\ \A d \in Client : d # c => session'[d] = session[d] /\ pc'[d] = pc[d]
          /\ UNCHANGED owner
      BY <1>2, <2>1, <2>2 DEF TypeOK, ProcessesOK, KnowledgeOK, Load, End, Goto
    <2> QED
      BY <2>3 DEF SessionChosen
  <1>3. ASSUME NEW c \in Client, Authorize(c) PROVE SessionChosen'
    BY <1>3 DEF TypeOK, SessionChosen, ProcessesOK, Chosen, Authorize, End, Goto
  <1>4. ASSUME NEW c \in Client, Reload(c) PROVE SessionChosen'
    BY <1>4 DEF TypeOK, SessionChosen, ProcessesOK, Chosen, Reload, End, Goto
  <1>5. ASSUME NEW c \in Client, Recheck(c) PROVE SessionChosen'
    BY <1>5 DEF TypeOK, SessionChosen, ProcessesOK, Chosen, Recheck, End, Goto
  <1>6. ASSUME NEW c \in Client, Find(c) PROVE SessionChosen'
    BY <1>6 DEF SessionChosen, Chosen, Find, Goto, ProbeAt
  <1>7. ASSUME NEW c \in Client, Attach(c) PROVE SessionChosen'
    BY <1>7 DEF SessionChosen, Chosen, Attach, End, Goto
  <1>8. ASSUME NEW c \in Client, Unanswered(c) PROVE SessionChosen'
    BY <1>8 DEF SessionChosen, Chosen, Unanswered, Goto, Unprobed
  <1>9. ASSUME NEW c \in Client, StartupLock(c) PROVE SessionChosen'
    BY <1>9 DEF SessionChosen, Chosen, StartupLock, Goto
  <1>10. ASSUME NEW c \in Client, Launch(c) PROVE SessionChosen'
    BY <1>10 DEF TypeOK, SessionChosen, OwnersOK, ProcessesOK, Chosen, Launch, End, Goto
  <1>11. ASSUME NEW c \in Client, Discard(c) PROVE SessionChosen'
    BY <1>11 DEF SessionChosen, Chosen, Discard, End, Goto
  <1>12. ASSUME NEW c \in Client, Deadline(c) PROVE SessionChosen'
    BY <1>12 DEF SessionChosen, Chosen, Deadline, End, Goto
  <1>13. ASSUME NEW c \in Client, List(c) PROVE SessionChosen'
    BY <1>13 DEF SessionChosen, Chosen, List, Goto
  <1>14. ASSUME NEW c \in Client, Entry(c) PROVE SessionChosen'
    BY <1>14 DEF TypeOK, SessionChosen, KnowledgeOK, Entry, Goto
  <1>15. ASSUME NEW c \in Client, Live(c) PROVE SessionChosen'
    BY <1>15 DEF SessionChosen, Chosen, Live, Goto
  <1>16. ASSUME NEW c \in Client, NotLive(c) PROVE SessionChosen'
    BY <1>16 DEF SessionChosen, Chosen, NotLive, Goto
  <1>17. ASSUME NEW c \in Client, TryLock(c) PROVE SessionChosen'
    BY <1>17 DEF TypeOK, SessionChosen, ProcessesOK, Chosen, TryLock, Goto
  <1>18. ASSUME NEW c \in Client, Unlock(c) PROVE SessionChosen'
    BY <1>18 DEF SessionChosen, Chosen, Unlock, Goto
  <1>19. ASSUME NEW c \in Client, RemoveEntry(c) PROVE SessionChosen'
    BY <1>19 DEF SessionChosen, Chosen, RemoveEntry, Goto
  <1>20. ASSUME NEW c \in Client, Listed(c) PROVE SessionChosen'
    BY <1>20 DEF TypeOK, SessionChosen, ProcessesOK, Chosen, Listed, End, Goto
  <1>21. ASSUME NEW c \in Client, Send(c) PROVE SessionChosen'
    BY <1>21 DEF TypeOK, SessionChosen, ProcessesOK, Chosen, Send, Goto
  <1>22. ASSUME NEW c \in Client, SentAll(c) PROVE SessionChosen'
    BY <1>22 DEF TypeOK, SessionChosen, ProcessesOK, Chosen, SentAll, End, Goto
  <1>23. ASSUME NEW c \in Client, Replaced(c) PROVE SessionChosen'
    BY <1>23 DEF SessionChosen, Chosen, Replaced, Goto
  <1>24. ASSUME NEW c \in Client, Withdrawn(c) PROVE SessionChosen'
    BY <1>24 DEF SessionChosen, Chosen, Withdrawn, Goto
  <1>25. ASSUME NEW c \in Client, ApplicationLock(c) PROVE SessionChosen'
    BY <1>25 DEF SessionChosen, Chosen, ApplicationLock, Goto
  <1>26. ASSUME NEW c \in Client, TrustLock(c) PROVE SessionChosen'
    BY <1>26 DEF SessionChosen, Chosen, TrustLock, Goto
  <1>27. ASSUME NEW c \in Client, ReadTrust(c) PROVE SessionChosen'
    BY <1>27 DEF TypeOK, SessionChosen, ProcessesOK, Chosen, ReadTrust, End, Goto
  <1>28. ASSUME NEW c \in Client, WriteTrust(c) PROVE SessionChosen'
    BY <1>28 DEF SessionChosen, Chosen, WriteTrust, Goto
  <1>29. ASSUME NEW c \in Client, ReadLaunch(c) PROVE SessionChosen'
    BY <1>29 DEF SessionChosen, ReadLaunch, Advance
  <1>30. ASSUME NEW c \in Client, AcquireLock(c) PROVE SessionChosen'
    BY <1>30 DEF SessionChosen, AcquireLock, Advance
  <1>31. ASSUME NEW c \in Client, LoseLock(c) PROVE SessionChosen'
    BY <1>31 DEF SessionChosen, LoseLock, Advance
  <1>32. ASSUME NEW c \in Client, Bind(c) PROVE SessionChosen'
    BY <1>32 DEF SessionChosen, Bind, Advance
  <1>33. ASSUME NEW c \in Client, Serve(c) PROVE SessionChosen'
    BY <1>33 DEF SessionChosen, Serve, Advance
  <1>34. ASSUME NEW c \in Client, Ready(c) PROVE SessionChosen'
    BY <1>34 DEF SessionChosen, Ready, Advance
  <1>35. ASSUME NEW c \in Client, InitializationFails(c) PROVE SessionChosen'
    BY <1>35 DEF SessionChosen, InitializationFails, Advance
  <1>36. ASSUME NEW c \in Client, LeaveFailed(c) PROVE SessionChosen'
    BY <1>36 DEF SessionChosen, Chosen, LeaveFailed, Leaves, Reply
  <1>37. ASSUME NEW c \in Client, TakeStop(c) PROVE SessionChosen'
    BY <1>37 DEF SessionChosen, Chosen, TakeStop, Reply
  <1>38. ASSUME NEW c \in Client, TakeForce(c) PROVE SessionChosen'
    BY <1>38 DEF SessionChosen, Chosen, TakeForce, Reply
  <1>39. ASSUME NEW c \in Client, Drained(c) PROVE SessionChosen'
    BY <1>39 DEF SessionChosen, Chosen, Drained, Reply
  <1>40. ASSUME NEW c \in Client, StopServing(c) PROVE SessionChosen'
    BY <1>40 DEF SessionChosen, Chosen, StopServing, Reply
  <1>41. ASSUME NEW c \in Client, Abort(c) PROVE SessionChosen'
    BY <1>41 DEF SessionChosen, Abort, Advance
  <1>42. ASSUME NEW c \in Client, RemoveEndpoint(c) PROVE SessionChosen'
    BY <1>42 DEF SessionChosen, RemoveEndpoint, Advance
  <1>43. ASSUME NEW c \in Client, Exit(c) PROVE SessionChosen'
    BY <1>43 DEF SessionChosen, Chosen, Exit, Leaves, Reply
  <1>44. ASSUME NEW c \in Client, KillClient(c) PROVE SessionChosen'
    BY <1>44 DEF SessionChosen, Chosen, KillClient, End, Goto
  <1>45. ASSUME NEW c \in Client, KillOwner(c) PROVE SessionChosen'
    BY <1>45 DEF SessionChosen, Chosen, KillOwner, Leaves, Reply
  <1>46. ASSUME NEW c \in Client, SkipStop(c) PROVE SessionChosen'
    BY <1>46 DEF SessionChosen, SkipStop
  <1>47. ASSUME NEW w \in Workspace, EditProject(w) PROVE SessionChosen'
    BY <1>47 DEF SessionChosen, EditProject
  <1> QED
    BY <1>1, <1>2, <1>3, <1>4, <1>5, <1>6, <1>7, <1>8, <1>9, <1>10, <1>11, <1>12, <1>13, <1>14,
       <1>15, <1>16, <1>17, <1>18, <1>19, <1>20, <1>21, <1>22, <1>23, <1>24, <1>25, <1>26, <1>27,
       <1>28, <1>29, <1>30, <1>31, <1>32, <1>33, <1>34, <1>35, <1>36, <1>37, <1>38, <1>39, <1>40,
       <1>41, <1>42, <1>43, <1>44, <1>45, <1>46, <1>47 DEF Next, ClientStep, OwnerStep, Environment

LEMMA EndpointSeenKept ==
    ASSUME TypeOK, SessionChosen, EndpointSeen, Next
    PROVE  EndpointSeen'
  <1> USE DEF configuration, files, owners, finding, listing, signal, process
  <1>1. ASSUME NEW c \in Client, Start(c) PROVE EndpointSeen'
    BY <1>1 DEF EndpointSeen, Probing, Start, Goto
  <1>2. ASSUME NEW c \in Client, Load(c) PROVE EndpointSeen'
    BY <1>2 DEF TypeOK, EndpointSeen, ProcessesOK, Probing, Load, End, Goto
  <1>3. ASSUME NEW c \in Client, Authorize(c) PROVE EndpointSeen'
    BY <1>3 DEF TypeOK, EndpointSeen, ProcessesOK, Probing, Authorize, End, Goto
  <1>4. ASSUME NEW c \in Client, Reload(c) PROVE EndpointSeen'
    BY <1>4 DEF TypeOK, EndpointSeen, ProcessesOK, Probing, Reload, End, Goto
  <1>5. ASSUME NEW c \in Client, Recheck(c) PROVE EndpointSeen'
    BY <1>5 DEF TypeOK, EndpointSeen, ProcessesOK, Probing, Recheck, End, Goto
  <1>6. ASSUME NEW c \in Client, Find(c) PROVE EndpointSeen'
    BY <1>6, FindLabels DEF TypeOK, FilesOK, KnowledgeOK, EndpointSeen, SessionChosen, Chosen,
       Probing, Find, Goto
  <1>7. ASSUME NEW c \in Client, Attach(c) PROVE EndpointSeen'
    BY <1>7 DEF EndpointSeen, Probing, Attach, End, Goto
  <1>8. ASSUME NEW c \in Client, Unanswered(c) PROVE EndpointSeen'
    BY <1>8 DEF TypeOK, EndpointSeen, ProcessesOK, Probing, Unanswered, Goto, Unprobed
  <1>9. ASSUME NEW c \in Client, StartupLock(c) PROVE EndpointSeen'
    BY <1>9 DEF EndpointSeen, Probing, StartupLock, Goto
  <1>10. ASSUME NEW c \in Client, Launch(c) PROVE EndpointSeen'
    BY <1>10 DEF TypeOK, EndpointSeen, ProcessesOK, Probing, Launch, End, Goto
  <1>11. ASSUME NEW c \in Client, Discard(c) PROVE EndpointSeen'
    BY <1>11 DEF EndpointSeen, Probing, Discard, End, Goto
  <1>12. ASSUME NEW c \in Client, Deadline(c) PROVE EndpointSeen'
    BY <1>12 DEF EndpointSeen, Probing, Deadline, End, Goto
  <1>13. ASSUME NEW c \in Client, List(c) PROVE EndpointSeen'
    BY <1>13 DEF EndpointSeen, Probing, List, Goto
  <1>14. ASSUME NEW c \in Client, Entry(c) PROVE EndpointSeen'
    BY <1>14 DEF TypeOK, EndpointSeen, FilesOK, KnowledgeOK, Probing, Entry, Goto
  <1>15. ASSUME NEW c \in Client, Live(c) PROVE EndpointSeen'
    BY <1>15 DEF TypeOK, EndpointSeen, ProcessesOK, Probing, Live, Goto
  <1>16. ASSUME NEW c \in Client, NotLive(c) PROVE EndpointSeen'
    BY <1>16 DEF TypeOK, EndpointSeen, ProcessesOK, Probing, NotLive, Goto
  <1>17. ASSUME NEW c \in Client, TryLock(c) PROVE EndpointSeen'
    BY <1>17 DEF TypeOK, EndpointSeen, ProcessesOK, Probing, TryLock, Goto
  <1>18. ASSUME NEW c \in Client, Unlock(c) PROVE EndpointSeen'
    BY <1>18 DEF EndpointSeen, Probing, Unlock, Goto
  <1>19. ASSUME NEW c \in Client, RemoveEntry(c) PROVE EndpointSeen'
    BY <1>19 DEF EndpointSeen, Probing, RemoveEntry, Goto
  <1>20. ASSUME NEW c \in Client, Listed(c) PROVE EndpointSeen'
    BY <1>20 DEF TypeOK, EndpointSeen, ProcessesOK, Probing, Listed, End, Goto
  <1>21. ASSUME NEW c \in Client, Send(c) PROVE EndpointSeen'
    BY <1>21 DEF TypeOK, EndpointSeen, ProcessesOK, Probing, Send, Goto
  <1>22. ASSUME NEW c \in Client, SentAll(c) PROVE EndpointSeen'
    BY <1>22 DEF TypeOK, EndpointSeen, ProcessesOK, Probing, SentAll, End, Goto
  <1>23. ASSUME NEW c \in Client, Replaced(c) PROVE EndpointSeen'
    BY <1>23 DEF EndpointSeen, Probing, Replaced, Goto
  <1>24. ASSUME NEW c \in Client, Withdrawn(c) PROVE EndpointSeen'
    BY <1>24 DEF EndpointSeen, Probing, Withdrawn, Goto
  <1>25. ASSUME NEW c \in Client, ApplicationLock(c) PROVE EndpointSeen'
    BY <1>25 DEF EndpointSeen, Probing, ApplicationLock, Goto
  <1>26. ASSUME NEW c \in Client, TrustLock(c) PROVE EndpointSeen'
    BY <1>26 DEF EndpointSeen, Probing, TrustLock, Goto
  <1>27. ASSUME NEW c \in Client, ReadTrust(c) PROVE EndpointSeen'
    BY <1>27 DEF TypeOK, EndpointSeen, ProcessesOK, Probing, ReadTrust, End, Goto
  <1>28. ASSUME NEW c \in Client, WriteTrust(c) PROVE EndpointSeen'
    BY <1>28 DEF EndpointSeen, Probing, WriteTrust, Goto
  <1>29. ASSUME NEW c \in Client, LeaveFailed(c) PROVE EndpointSeen'
    BY <1>29 DEF EndpointSeen, Probing, LeaveFailed, Leaves, Reply
  <1>30. ASSUME NEW c \in Client, TakeStop(c) PROVE EndpointSeen'
    BY <1>30 DEF EndpointSeen, Probing, TakeStop, Reply
  <1>31. ASSUME NEW c \in Client, TakeForce(c) PROVE EndpointSeen'
    BY <1>31 DEF EndpointSeen, Probing, TakeForce, Reply
  <1>32. ASSUME NEW c \in Client, Drained(c) PROVE EndpointSeen'
    BY <1>32 DEF EndpointSeen, Probing, Drained, Reply
  <1>33. ASSUME NEW c \in Client, StopServing(c) PROVE EndpointSeen'
    BY <1>33 DEF EndpointSeen, Probing, StopServing, Reply
  <1>34. ASSUME NEW c \in Client, Exit(c) PROVE EndpointSeen'
    BY <1>34 DEF EndpointSeen, Probing, Exit, Leaves, Reply
  <1>35. ASSUME NEW c \in Client, KillClient(c) PROVE EndpointSeen'
    BY <1>35 DEF EndpointSeen, Probing, KillClient, End, Goto
  <1>36. ASSUME NEW c \in Client, KillOwner(c) PROVE EndpointSeen'
    BY <1>36 DEF EndpointSeen, Probing, KillOwner, Leaves, Reply
  <1>37. ASSUME NEW c \in Client,
            ReadLaunch(c) \/ AcquireLock(c) \/ LoseLock(c) \/
            Bind(c) \/ Serve(c) \/ Ready(c) \/ InitializationFails(c) \/ SkipStop(c) \/
            Abort(c) \/ RemoveEndpoint(c)
     PROVE  EndpointSeen'
    BY <1>37 DEF EndpointSeen, ReadLaunch, AcquireLock, LoseLock, Bind, Serve, Ready,
       InitializationFails, SkipStop, Abort, RemoveEndpoint, Advance
  <1>38. ASSUME NEW w \in Workspace, EditProject(w) PROVE EndpointSeen'
    BY <1>38 DEF EndpointSeen, EditProject
  <1> QED
    BY <1>1, <1>2, <1>3, <1>4, <1>5, <1>6, <1>7, <1>8, <1>9, <1>10, <1>11, <1>12, <1>13, <1>14,
       <1>15, <1>16, <1>17, <1>18, <1>19, <1>20, <1>21, <1>22, <1>23, <1>24, <1>25, <1>26, <1>27,
       <1>28, <1>29, <1>30, <1>31, <1>32, <1>33, <1>34, <1>35, <1>36, <1>37, <1>38 DEF Next,
       ClientStep, OwnerStep, Environment

LEMMA TrustPlacesKept ==
    ASSUME TypeOK, TrustPlaces, Next
    PROVE  TrustPlaces'
  <1> USE DEF configuration, files, owners, finding, listing, signal, process
  <1>1. ASSUME NEW c \in Client, Start(c) PROVE TrustPlaces'
    BY <1>1 DEF TrustPlaces, Command_of, Start, Goto, Running
  <1>2. ASSUME NEW c \in Client, Load(c) PROVE TrustPlaces'
    BY <1>2 DEF TypeOK, TrustPlaces, ProcessesOK, Command_of, Load, End, Ended, Running, Goto
  <1>3. ASSUME NEW c \in Client, Authorize(c) PROVE TrustPlaces'
    BY <1>3 DEF TypeOK, TrustPlaces, ProcessesOK, Command_of, Authorize, End, Ended, Running, Goto
  <1>4. ASSUME NEW c \in Client, Reload(c) PROVE TrustPlaces'
    BY <1>4 DEF TypeOK, TrustPlaces, ProcessesOK, Command_of, Reload, End, Ended, Running, Goto
  <1>5. ASSUME NEW c \in Client, Recheck(c) PROVE TrustPlaces'
    BY <1>5 DEF TypeOK, TrustPlaces, ProcessesOK, Command_of, Recheck, End, Ended, Running, Goto
  <1>6. ASSUME NEW c \in Client, Find(c) PROVE TrustPlaces'
    BY <1>6 DEF TrustPlaces, Command_of, Find, Goto, Running, ProbeAt, Unprobed
  <1>7. ASSUME NEW c \in Client, Attach(c) PROVE TrustPlaces'
    BY <1>7 DEF TrustPlaces, Command_of, Attach, End, Ended, Goto
  <1>8. ASSUME NEW c \in Client, Unanswered(c) PROVE TrustPlaces'
    BY <1>8 DEF TrustPlaces, Command_of, Unanswered, Goto, Running, Unprobed
  <1>9. ASSUME NEW c \in Client, StartupLock(c) PROVE TrustPlaces'
    BY <1>9 DEF TrustPlaces, Command_of, StartupLock, Goto, Running
  <1>10. ASSUME NEW c \in Client, Launch(c) PROVE TrustPlaces'
    BY <1>10 DEF TypeOK, TrustPlaces, ProcessesOK, Command_of, Launch, End, Goto
  <1>11. ASSUME NEW c \in Client, Discard(c) PROVE TrustPlaces'
    BY <1>11 DEF TrustPlaces, Command_of, Discard, End, Goto
  <1>12. ASSUME NEW c \in Client, Deadline(c) PROVE TrustPlaces'
    BY <1>12 DEF TrustPlaces, Command_of, Deadline, End, Ended, Goto
  <1>13. ASSUME NEW c \in Client, List(c) PROVE TrustPlaces'
    BY <1>13 DEF TrustPlaces, Command_of, List, Goto, Running
  <1>14. ASSUME NEW c \in Client, Entry(c) PROVE TrustPlaces'
    BY <1>14 DEF TrustPlaces, Command_of, Entry, Goto, Running
  <1>15. ASSUME NEW c \in Client, Live(c) PROVE TrustPlaces'
    BY <1>15 DEF TrustPlaces, Command_of, Live, Goto, Running
  <1>16. ASSUME NEW c \in Client, NotLive(c) PROVE TrustPlaces'
    BY <1>16 DEF TrustPlaces, Command_of, NotLive, Goto, Running
  <1>17. ASSUME NEW c \in Client, TryLock(c) PROVE TrustPlaces'
    BY <1>17 DEF TypeOK, TrustPlaces, ProcessesOK, Command_of, TryLock, Goto, Running
  <1>18. ASSUME NEW c \in Client, Unlock(c) PROVE TrustPlaces'
    BY <1>18 DEF TrustPlaces, Command_of, Unlock, Goto, Running
  <1>19. ASSUME NEW c \in Client, RemoveEntry(c) PROVE TrustPlaces'
    BY <1>19 DEF TrustPlaces, Command_of, RemoveEntry, Goto, Running
  <1>20. ASSUME NEW c \in Client, Listed(c) PROVE TrustPlaces'
    BY <1>20 DEF TypeOK, TrustPlaces, ProcessesOK, Command_of, Listed, End, Ended, Running, Goto
  <1>21. ASSUME NEW c \in Client, Send(c) PROVE TrustPlaces'
    BY <1>21 DEF TypeOK, TrustPlaces, ProcessesOK, Command_of, Send, Goto, Running
  <1>22. ASSUME NEW c \in Client, SentAll(c) PROVE TrustPlaces'
    BY <1>22 DEF TypeOK, TrustPlaces, ProcessesOK, Command_of, SentAll, End, Ended, Running, Goto
  <1>23. ASSUME NEW c \in Client, Replaced(c) PROVE TrustPlaces'
    BY <1>23 DEF TrustPlaces, Command_of, Replaced, Goto, Running
  <1>24. ASSUME NEW c \in Client, Withdrawn(c) PROVE TrustPlaces'
    BY <1>24 DEF TrustPlaces, Command_of, Withdrawn, Goto, Running
  <1>25. ASSUME NEW c \in Client, ApplicationLock(c) PROVE TrustPlaces'
    BY <1>25 DEF TrustPlaces, Command_of, ApplicationLock, Goto, Running
  <1>26. ASSUME NEW c \in Client, TrustLock(c) PROVE TrustPlaces'
    BY <1>26 DEF TrustPlaces, Command_of, TrustLock, Goto, Running
  <1>27. ASSUME NEW c \in Client, ReadTrust(c) PROVE TrustPlaces'
    BY <1>27 DEF TypeOK, TrustPlaces, ProcessesOK, Command_of, ReadTrust, End, Goto
  <1>28. ASSUME NEW c \in Client, WriteTrust(c) PROVE TrustPlaces'
    BY <1>28 DEF TrustPlaces, Command_of, WriteTrust, Goto, Running
  <1>29. ASSUME NEW c \in Client, LeaveFailed(c) PROVE TrustPlaces'
    BY <1>29 DEF TrustPlaces, Command_of, LeaveFailed, Leaves, Reply
  <1>30. ASSUME NEW c \in Client, TakeStop(c) PROVE TrustPlaces'
    BY <1>30 DEF TrustPlaces, Command_of, TakeStop, Reply
  <1>31. ASSUME NEW c \in Client, TakeForce(c) PROVE TrustPlaces'
    BY <1>31 DEF TrustPlaces, Command_of, TakeForce, Reply
  <1>32. ASSUME NEW c \in Client, Drained(c) PROVE TrustPlaces'
    BY <1>32 DEF TrustPlaces, Command_of, Drained, Reply
  <1>33. ASSUME NEW c \in Client, StopServing(c) PROVE TrustPlaces'
    BY <1>33 DEF TrustPlaces, Command_of, StopServing, Reply
  <1>34. ASSUME NEW c \in Client, Exit(c) PROVE TrustPlaces'
    BY <1>34 DEF TrustPlaces, Command_of, Exit, Leaves, Reply
  <1>35. ASSUME NEW c \in Client, KillClient(c) PROVE TrustPlaces'
    BY <1>35 DEF TrustPlaces, Command_of, KillClient, End, Goto
  <1>36. ASSUME NEW c \in Client, KillOwner(c) PROVE TrustPlaces'
    BY <1>36 DEF TrustPlaces, Command_of, KillOwner, Leaves, Reply
  <1>37. ASSUME NEW c \in Client,
            ReadLaunch(c) \/ AcquireLock(c) \/ LoseLock(c) \/
            Bind(c) \/ Serve(c) \/ Ready(c) \/ InitializationFails(c) \/ SkipStop(c) \/
            Abort(c) \/ RemoveEndpoint(c)
     PROVE  TrustPlaces'
    BY <1>37 DEF TrustPlaces, Command_of, ReadLaunch, AcquireLock, LoseLock, Bind, Serve, Ready,
       InitializationFails, SkipStop, Abort, RemoveEndpoint, Advance
  <1>38. ASSUME NEW w \in Workspace, EditProject(w) PROVE TrustPlaces'
    BY <1>38 DEF TrustPlaces, Command_of, EditProject
  <1> QED
    BY <1>1, <1>2, <1>3, <1>4, <1>5, <1>6, <1>7, <1>8, <1>9, <1>10, <1>11, <1>12, <1>13, <1>14,
       <1>15, <1>16, <1>17, <1>18, <1>19, <1>20, <1>21, <1>22, <1>23, <1>24, <1>25, <1>26, <1>27,
       <1>28, <1>29, <1>30, <1>31, <1>32, <1>33, <1>34, <1>35, <1>36, <1>37, <1>38 DEF Next,
       ClientStep, OwnerStep, Environment

-----------------------------------------------------------------------------
(* What is found, and what is waited for *)

LEMMA FoundRunsKept ==
    ASSUME TypeOK, FoundRuns, Next
    PROVE  FoundRuns'
  <1> USE DEF configuration, files, owners, finding, listing, signal, process
  <1>1. ASSUME NEW c \in Client, Launch(c) PROVE FoundRuns'
    BY <1>1 DEF TypeOK, FoundRuns, OwnersOK, KnowledgeOK, Launch, End, Goto
  <1>2. ASSUME NEW c \in Client, Live(c) PROVE FoundRuns'
    BY <1>2 DEF FoundRuns, Live, Goto, Answers, Accepting
  <1>3. ASSUME NEW c \in Client, Listed(c) PROVE FoundRuns'
    BY <1>3 DEF FoundRuns, Listed, End, Goto
  <1>4. ASSUME NEW c \in Client, Send(c) PROVE FoundRuns'
    BY <1>4 DEF FoundRuns, Send, Goto
  <1>5. ASSUME NEW c \in Client, ReadLaunch(c) PROVE FoundRuns'
    BY <1>5 DEF FoundRuns, ReadLaunch, Advance
  <1>6. ASSUME NEW c \in Client, AcquireLock(c) PROVE FoundRuns'
    BY <1>6 DEF FoundRuns, AcquireLock, Advance
  <1>7. ASSUME NEW c \in Client, LoseLock(c) PROVE FoundRuns'
    BY <1>7 DEF FoundRuns, LoseLock, Advance
  <1>8. ASSUME NEW c \in Client, Bind(c) PROVE FoundRuns'
    BY <1>8 DEF FoundRuns, Bind, Advance
  <1>9. ASSUME NEW c \in Client, Serve(c) PROVE FoundRuns'
    BY <1>9 DEF FoundRuns, Serve, Advance
  <1>10. ASSUME NEW c \in Client, Ready(c) PROVE FoundRuns'
    BY <1>10 DEF FoundRuns, Ready, Advance
  <1>11. ASSUME NEW c \in Client, InitializationFails(c) PROVE FoundRuns'
    BY <1>11 DEF FoundRuns, InitializationFails, Advance
  <1>12. ASSUME NEW c \in Client, LeaveFailed(c) PROVE FoundRuns'
    BY <1>12 DEF FoundRuns, LeaveFailed, Leaves, Reply
  <1>13. ASSUME NEW c \in Client, TakeStop(c) PROVE FoundRuns'
    BY <1>13 DEF FoundRuns, TakeStop, Reply
  <1>14. ASSUME NEW c \in Client, TakeForce(c) PROVE FoundRuns'
    BY <1>14 DEF FoundRuns, TakeForce, Reply
  <1>15. ASSUME NEW c \in Client, Drained(c) PROVE FoundRuns'
    BY <1>15 DEF FoundRuns, Drained, Reply
  <1>16. ASSUME NEW c \in Client, StopServing(c) PROVE FoundRuns'
    BY <1>16 DEF FoundRuns, StopServing, Reply
  <1>17. ASSUME NEW c \in Client, Abort(c) PROVE FoundRuns'
    BY <1>17 DEF FoundRuns, Abort, Advance
  <1>18. ASSUME NEW c \in Client, RemoveEndpoint(c) PROVE FoundRuns'
    BY <1>18 DEF FoundRuns, RemoveEndpoint, Advance
  <1>19. ASSUME NEW c \in Client, Exit(c) PROVE FoundRuns'
    BY <1>19 DEF FoundRuns, Exit, Leaves, Reply
  <1>20. ASSUME NEW c \in Client, KillOwner(c) PROVE FoundRuns'
    BY <1>20 DEF FoundRuns, KillOwner, Leaves, Reply
  <1>21. ASSUME NEW c \in Client,
            Start(c) \/ Load(c) \/ Authorize(c) \/ Reload(c) \/
            Recheck(c) \/ Find(c) \/ Attach(c) \/ Unanswered(c) \/ StartupLock(c) \/ Discard(c) \/
            Deadline(c) \/ List(c) \/ Entry(c) \/ NotLive(c) \/ TryLock(c) \/ Unlock(c) \/
            RemoveEntry(c) \/ SentAll(c) \/ Replaced(c) \/ Withdrawn(c) \/ ApplicationLock(c) \/
            TrustLock(c) \/ ReadTrust(c) \/ WriteTrust(c)
     PROVE  FoundRuns'
    BY <1>21 DEF FoundRuns, Start, Load, Authorize, Reload, Recheck, Find, Attach, Unanswered,
       StartupLock, Discard, Deadline, List, Entry, NotLive, TryLock, Unlock, RemoveEntry, SentAll,
       Replaced, Withdrawn, ApplicationLock, TrustLock, ReadTrust, WriteTrust, Goto, End
  <1>22. ASSUME NEW c \in Client,
            SkipStop(c) \/ KillClient(c)
     PROVE  FoundRuns'
    BY <1>22 DEF FoundRuns, SkipStop, KillClient, End, Goto
  <1>23. ASSUME NEW w \in Workspace, EditProject(w) PROVE FoundRuns'
    BY <1>23 DEF FoundRuns, EditProject
  <1> QED
    BY <1>1, <1>2, <1>3, <1>4, <1>5, <1>6, <1>7, <1>8, <1>9, <1>10, <1>11, <1>12, <1>13, <1>14,
       <1>15, <1>16, <1>17, <1>18, <1>19, <1>20, <1>21, <1>22, <1>23 DEF Next, ClientStep,
       OwnerStep, Environment

LEMMA TargetedKept ==
    ASSUME TypeOK, Targeted, Next
    PROVE  Targeted'
  <1> USE DEF configuration, files, owners, finding, listing, signal, process
  <1>1. ASSUME NEW c \in Client, Start(c) PROVE Targeted'
    BY <1>1 DEF Targeted, Leaving, Command_of, TrustCommand, Start, Goto, Running
  <1>2. ASSUME NEW c \in Client, Load(c) PROVE Targeted'
    BY <1>2 DEF TypeOK, Targeted, ConfigurationOK, FilesOK, OwnersOK, ProcessesOK, Leaving,
       Command_of, Load, End, Ended, Running, Goto
  <1>3. ASSUME NEW c \in Client, Authorize(c) PROVE Targeted'
    BY <1>3 DEF TypeOK, Targeted, ConfigurationOK, FilesOK, ProcessesOK, Leaving, Command_of,
       Authorize, End, Ended, Running, Goto
  <1>4. ASSUME NEW c \in Client, Reload(c) PROVE Targeted'
    <2>1. /\ UNCHANGED <<target, found, task>>
          /\ pc'[c] \in {"recheck", "startupLock", "done"}
          /\ \A d \in Client : d # c => pc'[d] = pc[d]
      BY <1>4 DEF TypeOK, ProcessesOK, Reload, End, Ended, Running, Goto
    <2> QED
      BY <2>1 DEF Targeted, Leaving, Command_of
  <1>5. ASSUME NEW c \in Client, Recheck(c) PROVE Targeted'
    BY <1>5 DEF TypeOK, Targeted, ConfigurationOK, FilesOK, ProcessesOK, Leaving, Command_of,
       Recheck, End, Ended, Running, Goto
  <1>6. ASSUME NEW c \in Client, Find(c) PROVE Targeted'
    BY <1>6 DEF Targeted, Leaving, Command_of, Find, Goto, Running, ProbeAt, Unprobed
  <1>7. ASSUME NEW c \in Client, Attach(c) PROVE Targeted'
    BY <1>7 DEF Targeted, Leaving, Command_of, Attach, End, Ended, Goto
  <1>8. ASSUME NEW c \in Client, Unanswered(c) PROVE Targeted'
    BY <1>8 DEF Targeted, Leaving, Command_of, Unanswered, Goto, Running, Unprobed
  <1>9. ASSUME NEW c \in Client, StartupLock(c) PROVE Targeted'
    BY <1>9 DEF Targeted, Leaving, Command_of, StartupLock, Goto, Running
  <1>10. ASSUME NEW c \in Client, Launch(c) PROVE Targeted'
    <2>1. /\ UNCHANGED <<target, found, task>>
          /\ pc'[c] \in {"await", "done"}
          /\ \A d \in Client : d # c => pc'[d] = pc[d]
      BY <1>10 DEF TypeOK, ProcessesOK, Launch, End, Goto
    <2> QED
      BY <2>1 DEF Targeted, Leaving, Command_of
  <1>11. ASSUME NEW c \in Client, Discard(c) PROVE Targeted'
    BY <1>11 DEF Targeted, Leaving, Command_of, Discard, End, Goto
  <1>12. ASSUME NEW c \in Client, Deadline(c) PROVE Targeted'
    BY <1>12 DEF Targeted, Leaving, Command_of, Deadline, End, Ended, Goto
  <1>13. ASSUME NEW c \in Client, List(c) PROVE Targeted'
    BY <1>13 DEF Targeted, Leaving, Command_of, List, Goto, Running
  <1>14. ASSUME NEW c \in Client, Entry(c) PROVE Targeted'
    BY <1>14 DEF Targeted, Leaving, Command_of, Entry, Goto, Running
  <1>15. ASSUME NEW c \in Client, Live(c) PROVE Targeted'
    BY <1>15 DEF Targeted, Leaving, Command_of, Live, Goto, Running
  <1>16. ASSUME NEW c \in Client, NotLive(c) PROVE Targeted'
    BY <1>16 DEF Targeted, Leaving, Command_of, NotLive, Goto, Running
  <1>17. ASSUME NEW c \in Client, TryLock(c) PROVE Targeted'
    BY <1>17 DEF TypeOK, Targeted, FilesOK, ProcessesOK, Leaving, Command_of, TryLock, Goto, Running
  <1>18. ASSUME NEW c \in Client, Unlock(c) PROVE Targeted'
    BY <1>18 DEF Targeted, Leaving, Command_of, Unlock, Goto, Running
  <1>19. ASSUME NEW c \in Client, RemoveEntry(c) PROVE Targeted'
    BY <1>19 DEF Targeted, Leaving, Command_of, RemoveEntry, Goto, Running
  <1>20. ASSUME NEW c \in Client, Listed(c) PROVE Targeted'
    <2>1. /\ UNCHANGED <<target, task>>
          /\ pc'[c] \in {"send", "done"}
          /\ \A d \in Client : d # c => pc'[d] = pc[d] /\ found'[d] = found[d]
      BY <1>20 DEF TypeOK, ProcessesOK, Listed, End, Ended, Running, Goto
    <2>2. ASSUME pc'[c] = "send", Command_of(c) = "restart" PROVE found'[c] # {}
      <3>1. PICK chosen :
               /\ found' = [found EXCEPT ![c] = chosen]
               /\ Command_of(c) \notin TrustCommand /\ Cardinality(chosen) # 1 => End(c, "listed")
        BY <1>20 DEF Listed
      <3>2. Cardinality(chosen) = 1
        BY <2>2, <3>1 DEF TypeOK, ProcessesOK, TrustCommand, End, Goto
      <3>3. Cardinality({}) = 0
        BY FS_EmptySet
      <3>4. chosen # {}
        BY <3>2, <3>3
      <3> QED
        BY <3>1, <3>4 DEF TypeOK, KnowledgeOK
    <2> QED
      BY <2>1, <2>2 DEF Targeted, Leaving, Command_of
  <1>21. ASSUME NEW c \in Client, Send(c) PROVE Targeted'
    BY <1>21 DEF TypeOK, Targeted, ProcessesOK, KnowledgeOK, Leaving, Command_of, Send, Goto,
       Running
  <1>22. ASSUME NEW c \in Client, SentAll(c) PROVE Targeted'
    BY <1>22 DEF TypeOK, Targeted, ConfigurationOK, FilesOK, OwnersOK, ProcessesOK, Leaving,
       Command_of, SentAll, End, Ended, Running, Goto
  <1>23. ASSUME NEW c \in Client, Replaced(c) PROVE Targeted'
    BY <1>23 DEF Targeted, Leaving, Command_of, Replaced, Goto, Running
  <1>24. ASSUME NEW c \in Client, Withdrawn(c) PROVE Targeted'
    BY <1>24 DEF Targeted, Leaving, Command_of, Withdrawn, Goto, Running
  <1>25. ASSUME NEW c \in Client, ApplicationLock(c) PROVE Targeted'
    BY <1>25 DEF Targeted, Leaving, Command_of, ApplicationLock, Goto, Running
  <1>26. ASSUME NEW c \in Client, TrustLock(c) PROVE Targeted'
    BY <1>26 DEF Targeted, Leaving, Command_of, TrustLock, Goto, Running
  <1>27. ASSUME NEW c \in Client, ReadTrust(c) PROVE Targeted'
    <2>1. /\ UNCHANGED <<target, found, task>>
          /\ pc'[c] \in {"writeTrust", "done"}
          /\ \A d \in Client : d # c => pc'[d] = pc[d]
      BY <1>27 DEF TypeOK, ProcessesOK, ReadTrust, End, Goto
    <2> QED
      BY <2>1 DEF Targeted, Leaving, Command_of
  <1>28. ASSUME NEW c \in Client, WriteTrust(c) PROVE Targeted'
    BY <1>28 DEF Targeted, Leaving, Command_of, WriteTrust, Goto, Running
  <1>29. ASSUME NEW c \in Client, LeaveFailed(c) PROVE Targeted'
    BY <1>29 DEF Targeted, Leaving, Command_of, LeaveFailed, Leaves, Reply
  <1>30. ASSUME NEW c \in Client, TakeStop(c) PROVE Targeted'
    BY <1>30 DEF Targeted, Leaving, Command_of, TakeStop, Reply
  <1>31. ASSUME NEW c \in Client, TakeForce(c) PROVE Targeted'
    BY <1>31 DEF Targeted, Leaving, Command_of, TakeForce, Reply
  <1>32. ASSUME NEW c \in Client, Drained(c) PROVE Targeted'
    BY <1>32 DEF Targeted, Leaving, Command_of, Drained, Reply
  <1>33. ASSUME NEW c \in Client, StopServing(c) PROVE Targeted'
    BY <1>33 DEF Targeted, Leaving, Command_of, StopServing, Reply
  <1>34. ASSUME NEW c \in Client, Exit(c) PROVE Targeted'
    BY <1>34 DEF Targeted, Leaving, Command_of, Exit, Leaves, Reply
  <1>35. ASSUME NEW c \in Client, KillClient(c) PROVE Targeted'
    BY <1>35 DEF Targeted, Leaving, Command_of, KillClient, End, Goto
  <1>36. ASSUME NEW c \in Client, KillOwner(c) PROVE Targeted'
    BY <1>36 DEF Targeted, Leaving, Command_of, KillOwner, Leaves, Reply
  <1>37. ASSUME NEW c \in Client,
            ReadLaunch(c) \/ AcquireLock(c) \/ LoseLock(c) \/
            Bind(c) \/ Serve(c) \/ Ready(c) \/ InitializationFails(c) \/ SkipStop(c) \/
            Abort(c) \/ RemoveEndpoint(c)
     PROVE  Targeted'
    BY <1>37 DEF Targeted, Command_of, ReadLaunch, AcquireLock, LoseLock, Bind, Serve, Ready,
       InitializationFails, SkipStop, Abort, RemoveEndpoint, Advance
  <1>38. ASSUME NEW w \in Workspace, EditProject(w) PROVE Targeted'
    BY <1>38 DEF Targeted, Command_of, EditProject
  <1> QED
    BY <1>1, <1>2, <1>3, <1>4, <1>5, <1>6, <1>7, <1>8, <1>9, <1>10, <1>11, <1>12, <1>13, <1>14,
       <1>15, <1>16, <1>17, <1>18, <1>19, <1>20, <1>21, <1>22, <1>23, <1>24, <1>25, <1>26, <1>27,
       <1>28, <1>29, <1>30, <1>31, <1>32, <1>33, <1>34, <1>35, <1>36, <1>37, <1>38 DEF Next,
       ClientStep, OwnerStep, Environment

-----------------------------------------------------------------------------
(* The Owner locks *)

LEMMA OwnerHoldsKept ==
    ASSUME TypeOK, StarterWaits, SessionChosen, OwnerHolds, ProbeHolds, Next
    PROVE  OwnerHolds'
  <1> USE DEF configuration, files, owners, finding, listing, signal, process
  <1>1. ASSUME NEW c \in Client, Load(c) PROVE OwnerHolds'
    <2>1. owner[c] = "none"
      BY <1>1 DEF StarterWaits, Waiting, Load
    <2>2. /\ UNCHANGED <<owner, lock>>
          /\ \A d \in Client : d # c => session'[d] = session[d]
      BY <1>1 DEF Load, End, Ended, Goto
    <2> QED
      BY <2>1, <2>2 DEF OwnerHolds, Locked
  <1>2. ASSUME NEW c \in Client, Launch(c) PROVE OwnerHolds'
    BY <1>2 DEF TypeOK, OwnerHolds, OwnersOK, Locked, Launch, End, Goto
  <1>3. ASSUME NEW c \in Client, Entry(c) PROVE OwnerHolds'
    <2>1. owner[c] = "none"
      BY <1>3 DEF StarterWaits, Waiting, Entry
    <2>2. /\ UNCHANGED <<owner, lock>>
          /\ \A d \in Client : d # c => session'[d] = session[d]
      BY <1>3 DEF Entry, Goto
    <2> QED
      BY <2>1, <2>2 DEF OwnerHolds, Locked
  <1>4. ASSUME NEW c \in Client, TryLock(c) PROVE OwnerHolds'
    <2>1. UNCHANGED <<owner, session>>
      BY <1>4 DEF TryLock, Goto
    <2>2. \A d \in Declaration : lock[d] # Free => lock'[d] = lock[d]
      BY <1>4 DEF TypeOK, FilesOK, TryLock
    <2> QED
      BY <2>1, <2>2, Holders DEF OwnerHolds, SessionChosen, Locked
  <1>5. ASSUME NEW c \in Client, Unlock(c) PROVE OwnerHolds'
    <2>1. UNCHANGED <<owner, session>>
      BY <1>5 DEF Unlock, Goto
    <2>2. \A d \in Declaration : lock[d] # Probes(c) => lock'[d] = lock[d]
      BY <1>5 DEF Unlock, ProbeHolds
    <2> QED
      BY <2>1, <2>2, Holders DEF OwnerHolds, SessionChosen, Locked
  <1>6. ASSUME NEW c \in Client, ReadLaunch(c) PROVE OwnerHolds'
    BY <1>6 DEF OwnerHolds, Locked, ReadLaunch, Advance
  <1>7. ASSUME NEW c \in Client, AcquireLock(c) PROVE OwnerHolds'
    <2>1. /\ owner'[c] = "locked" /\ UNCHANGED session
          /\ session[c] \in Declaration /\ lock[session[c]] = Free /\ lock'[session[c]] = Owns(c)
          /\ \A d \in Client : d # c => owner'[d] = owner[d]
          /\ \A d \in Declaration : d # session[c] => lock'[d] = lock[d]
      BY <1>7 DEF TypeOK, FilesOK, OwnersOK, SessionChosen, AcquireLock, Advance
    <2> QED
      <3>1. \A d \in Client : owner[d] \in Locked => session[d] \in Declaration \ {session[c]}
        BY <2>1, Holders DEF OwnerHolds, SessionChosen, Locked
      <3> QED
        BY <2>1, <3>1 DEF OwnerHolds
  <1>8. ASSUME NEW c \in Client, LoseLock(c) PROVE OwnerHolds'
    BY <1>8 DEF OwnerHolds, Locked, LoseLock, Advance
  <1>9. ASSUME NEW c \in Client, Bind(c) PROVE OwnerHolds'
    BY <1>9 DEF OwnerHolds, Locked, OwnerPhase, Bind, Advance, Publish
  <1>10. ASSUME NEW c \in Client, Serve(c) PROVE OwnerHolds'
    BY <1>10 DEF OwnerHolds, Locked, OwnerPhase, Serve, Advance, Publish
  <1>11. ASSUME NEW c \in Client, Ready(c) PROVE OwnerHolds'
    BY <1>11 DEF OwnerHolds, Locked, OwnerPhase, Ready, Advance, Publish
  <1>12. ASSUME NEW c \in Client, InitializationFails(c) PROVE OwnerHolds'
    BY <1>12 DEF OwnerHolds, Locked, OwnerPhase, InitializationFails, Advance, Publish
  <1>13. ASSUME NEW c \in Client, LeaveFailed(c) PROVE OwnerHolds'
    <2>1. /\ owner'[c] = "gone" /\ UNCHANGED session
          /\ \A d \in Client : d # c => owner'[d] = owner[d]
          /\ \A d \in Declaration : lock[d] # Owns(c) => lock'[d] = lock[d]
      BY <1>13 DEF TypeOK, OwnersOK, LeaveFailed, Leaves
    <2>2. \A d \in Client : d # c => Owns(d) # Owns(c)
      BY Holders
    <2>3. \A d \in Client : owner[d] \in Locked => session[d] \in Declaration
      BY DEF SessionChosen, Locked
    <2> QED
      BY <2>1, <2>2, <2>3 DEF OwnerHolds, Locked
  <1>14. ASSUME NEW c \in Client, TakeStop(c) PROVE OwnerHolds'
    BY <1>14 DEF OwnerHolds, Locked, OwnerPhase, TakeStop, Publish, Reply
  <1>15. ASSUME NEW c \in Client, TakeForce(c) PROVE OwnerHolds'
    BY <1>15 DEF OwnerHolds, Locked, OwnerPhase, TakeForce, Publish, Reply
  <1>16. ASSUME NEW c \in Client, Drained(c) PROVE OwnerHolds'
    BY <1>16 DEF OwnerHolds, Locked, OwnerPhase, Drained, Reply
  <1>17. ASSUME NEW c \in Client, StopServing(c) PROVE OwnerHolds'
    BY <1>17 DEF OwnerHolds, Locked, OwnerPhase, StopServing, Reply
  <1>18. ASSUME NEW c \in Client, Abort(c) PROVE OwnerHolds'
    BY <1>18 DEF OwnerHolds, Locked, OwnerPhase, Abort, Advance
  <1>19. ASSUME NEW c \in Client, RemoveEndpoint(c) PROVE OwnerHolds'
    BY <1>19 DEF OwnerHolds, Locked, OwnerPhase, RemoveEndpoint, Advance
  <1>20. ASSUME NEW c \in Client, Exit(c) PROVE OwnerHolds'
    <2>1. /\ owner'[c] = "gone" /\ UNCHANGED session
          /\ \A d \in Client : d # c => owner'[d] = owner[d]
          /\ \A d \in Declaration : lock[d] # Owns(c) => lock'[d] = lock[d]
      BY <1>20 DEF TypeOK, OwnersOK, Exit, Leaves
    <2>2. \A d \in Client : d # c => Owns(d) # Owns(c)
      BY Holders
    <2>3. \A d \in Client : owner[d] \in Locked => session[d] \in Declaration
      BY DEF SessionChosen, Locked
    <2> QED
      BY <2>1, <2>2, <2>3 DEF OwnerHolds, Locked
  <1>21. ASSUME NEW c \in Client, KillClient(c) PROVE OwnerHolds'
    <2>1. /\ UNCHANGED <<owner, session>>
          /\ \A d \in Declaration : lock[d] # Probes(c) => lock'[d] = lock[d]
      BY <1>21 DEF KillClient
    <2> QED
      BY <2>1, Holders DEF OwnerHolds, SessionChosen, Locked
  <1>22. ASSUME NEW c \in Client, KillOwner(c) PROVE OwnerHolds'
    <2>1. /\ owner'[c] = "gone" /\ UNCHANGED session
          /\ \A d \in Client : d # c => owner'[d] = owner[d]
          /\ \A d \in Declaration : lock[d] # Owns(c) => lock'[d] = lock[d]
      BY <1>22 DEF TypeOK, OwnersOK, KillOwner, Leaves
    <2>2. \A d \in Client : d # c => Owns(d) # Owns(c)
      BY Holders
    <2>3. \A d \in Client : owner[d] \in Locked => session[d] \in Declaration
      BY DEF SessionChosen, Locked
    <2> QED
      BY <2>1, <2>2, <2>3 DEF OwnerHolds, Locked
  <1>23. ASSUME NEW c \in Client,
            Start(c) \/ Authorize(c) \/ Reload(c) \/
            Recheck(c) \/ Find(c) \/ Attach(c) \/ Unanswered(c) \/ StartupLock(c) \/ Discard(c) \/
            Deadline(c) \/ List(c) \/ Live(c) \/ NotLive(c) \/ RemoveEntry(c) \/ Listed(c) \/
            Send(c) \/ SentAll(c) \/ Replaced(c) \/ Withdrawn(c) \/ ApplicationLock(c) \/
            TrustLock(c) \/ ReadTrust(c) \/ WriteTrust(c)
     PROVE  OwnerHolds'
    BY <1>23 DEF OwnerHolds, Start, Authorize, Reload, Recheck, Find, Attach, Unanswered,
       StartupLock, Discard, Deadline, List, Live, NotLive, RemoveEntry, Listed, Send, SentAll,
       Replaced, Withdrawn, ApplicationLock, TrustLock, ReadTrust, WriteTrust, Goto, End, Ended
  <1>24. ASSUME NEW c \in Client, SkipStop(c) PROVE OwnerHolds'
    BY <1>24 DEF OwnerHolds, SkipStop
  <1>25. ASSUME NEW w \in Workspace, EditProject(w) PROVE OwnerHolds'
    BY <1>25 DEF OwnerHolds, EditProject
  <1> QED
    BY <1>1, <1>2, <1>3, <1>4, <1>5, <1>6, <1>7, <1>8, <1>9, <1>10, <1>11, <1>12, <1>13, <1>14,
       <1>15, <1>16, <1>17, <1>18, <1>19, <1>20, <1>21, <1>22, <1>23, <1>24, <1>25 DEF Next,
       ClientStep, OwnerStep, Environment

LEMMA ProbeHoldsKept ==
    ASSUME TypeOK, StarterWaits, SessionChosen, FoundRuns, Targeted, ProbeHolds, Next
    PROVE  ProbeHolds'
  <1> USE DEF configuration, files, owners, finding, listing, signal, process
  <1>1. ASSUME NEW c \in Client, Start(c) PROVE ProbeHolds'
    BY <1>1 DEF ProbeHolds, Start, Goto
  <1>2. ASSUME NEW c \in Client, Load(c) PROVE ProbeHolds'
    <2>1. owner[c] = "none"
      BY <1>2 DEF StarterWaits, Waiting, Load
    <2>2. /\ UNCHANGED <<owner, lock, target>>
          /\ pc'[c] \notin {"unlock", "unlockExit"}
          /\ \A d \in Client : d # c => session'[d] = session[d] /\ pc'[d] = pc[d]
      BY <1>2 DEF TypeOK, ProcessesOK, Load, End, Ended, Goto
    <2> QED
      BY <2>1, <2>2 DEF ProbeHolds, FoundRuns, Targeted, Leaving
  <1>3. ASSUME NEW c \in Client, Authorize(c) PROVE ProbeHolds'
    BY <1>3 DEF TypeOK, ProbeHolds, ProcessesOK, Authorize, End, Ended, Goto
  <1>4. ASSUME NEW c \in Client, Reload(c) PROVE ProbeHolds'
    BY <1>4 DEF TypeOK, ProbeHolds, ProcessesOK, Reload, End, Ended, Goto
  <1>5. ASSUME NEW c \in Client, Recheck(c) PROVE ProbeHolds'
    BY <1>5 DEF TypeOK, ProbeHolds, ProcessesOK, Recheck, End, Ended, Goto
  <1>6. ASSUME NEW c \in Client, Find(c) PROVE ProbeHolds'
    <2>1. /\ UNCHANGED <<lock, target, session>>
          /\ pc'[c] \notin {"unlock", "unlockExit"}
          /\ \A d \in Client : d # c => pc'[d] = pc[d]
      BY <1>6, FindLabels DEF Find, Goto
    <2> QED
      BY <2>1 DEF ProbeHolds
  <1>7. ASSUME NEW c \in Client, Attach(c) PROVE ProbeHolds'
    BY <1>7 DEF ProbeHolds, Attach, End, Ended, Goto
  <1>8. ASSUME NEW c \in Client, Unanswered(c) PROVE ProbeHolds'
    <2>1. /\ UNCHANGED <<lock, target, session>>
          /\ pc'[c] \notin {"unlock", "unlockExit"}
          /\ \A d \in Client : d # c => pc'[d] = pc[d]
      BY <1>8, FindLabels DEF Unanswered, Goto
    <2> QED
      BY <2>1 DEF ProbeHolds
  <1>9. ASSUME NEW c \in Client, StartupLock(c) PROVE ProbeHolds'
    BY <1>9 DEF ProbeHolds, StartupLock, Goto
  <1>10. ASSUME NEW c \in Client, Launch(c) PROVE ProbeHolds'
    BY <1>10 DEF TypeOK, ProbeHolds, ProcessesOK, Launch, End, Goto
  <1>11. ASSUME NEW c \in Client, Discard(c) PROVE ProbeHolds'
    BY <1>11 DEF ProbeHolds, Discard, End, Goto
  <1>12. ASSUME NEW c \in Client, Deadline(c) PROVE ProbeHolds'
    BY <1>12 DEF ProbeHolds, Deadline, End, Ended, Goto
  <1>13. ASSUME NEW c \in Client, List(c) PROVE ProbeHolds'
    BY <1>13 DEF ProbeHolds, List, Goto
  <1>14. ASSUME NEW c \in Client, Entry(c) PROVE ProbeHolds'
    <2>1. owner[c] = "none"
      BY <1>14 DEF StarterWaits, Waiting, Entry
    <2>2. /\ UNCHANGED <<owner, lock, target>>
          /\ pc'[c] \notin {"unlock", "unlockExit"}
          /\ \A d \in Client : d # c => session'[d] = session[d] /\ pc'[d] = pc[d]
      BY <1>14 DEF Entry, Goto
    <2> QED
      BY <2>1, <2>2 DEF ProbeHolds, FoundRuns, Targeted, Leaving
  <1>15. ASSUME NEW c \in Client, Live(c) PROVE ProbeHolds'
    BY <1>15 DEF ProbeHolds, Live, Goto
  <1>16. ASSUME NEW c \in Client, NotLive(c) PROVE ProbeHolds'
    BY <1>16 DEF ProbeHolds, NotLive, Goto
  <1>17. ASSUME NEW c \in Client, TryLock(c) PROVE ProbeHolds'
    <2>1. /\ UNCHANGED <<target, session>>
          /\ \A d \in Client : d # c => pc'[d] = pc[d]
          /\ \A d \in Declaration : lock[d] # Free => lock'[d] = lock[d]
      BY <1>17 DEF TypeOK, FilesOK, ProcessesOK, TryLock, Goto
    <2>2. \A d \in Client : Probes(d) # Free /\ (d # c => Probes(d) # Probes(c))
      BY Holders
    <2>3. /\ pc'[c] = "unlock" => lock'[session'[c]] = Probes(c)
          /\ pc'[c] = "unlockExit" => lock'[session'[target'[c]]] = Probes(c)
      BY <1>17 DEF TypeOK, FilesOK, ProcessesOK, ProbeHolds, SessionChosen, FoundRuns, Targeted,
         Leaving, Chosen, TryLock, Goto
    <2>4. \A d \in Client : d # c =>
             /\ pc'[d] = "unlock" => lock'[session'[d]] = Probes(d)
             /\ pc'[d] = "unlockExit" => lock'[session'[target'[d]]] = Probes(d)
      BY <2>1, <2>2, ProbedSessions DEF ProbeHolds
    <2> QED
      BY <2>3, <2>4 DEF ProbeHolds
  <1>18. ASSUME NEW c \in Client, Unlock(c) PROVE ProbeHolds'
    <2>1. /\ UNCHANGED <<target, session>>
          /\ pc'[c] \notin {"unlock", "unlockExit"}
          /\ \A d \in Client : d # c => pc'[d] = pc[d]
          /\ \A d \in Declaration : lock[d] # Probes(c) => lock'[d] = lock[d]
      BY <1>18 DEF TypeOK, ProcessesOK, Unlock, ProbeHolds, Goto
    <2>2. \A d \in Client : Probes(d) # Free /\ (d # c => Probes(d) # Probes(c))
      BY Holders
    <2> QED
      BY <2>1, <2>2, ProbedSessions DEF ProbeHolds
  <1>19. ASSUME NEW c \in Client, RemoveEntry(c) PROVE ProbeHolds'
    BY <1>19 DEF ProbeHolds, RemoveEntry, Goto
  <1>20. ASSUME NEW c \in Client, Listed(c) PROVE ProbeHolds'
    <2>1. /\ UNCHANGED <<lock, target, session>>
          /\ pc'[c] \notin {"unlock", "unlockExit"}
          /\ \A d \in Client : d # c => pc'[d] = pc[d]
      BY <1>20 DEF TypeOK, ProcessesOK, Listed, End, Ended, Goto
    <2> QED
      BY <2>1 DEF ProbeHolds
  <1>21. ASSUME NEW c \in Client, Send(c) PROVE ProbeHolds'
    BY <1>21 DEF TypeOK, ProbeHolds, ProcessesOK, Send, Goto
  <1>22. ASSUME NEW c \in Client, SentAll(c) PROVE ProbeHolds'
    BY <1>22 DEF TypeOK, ProbeHolds, ProcessesOK, SentAll, End, Ended, Goto
  <1>23. ASSUME NEW c \in Client, Replaced(c) PROVE ProbeHolds'
    BY <1>23 DEF ProbeHolds, Replaced, Goto
  <1>24. ASSUME NEW c \in Client, Withdrawn(c) PROVE ProbeHolds'
    BY <1>24 DEF ProbeHolds, Withdrawn, Goto
  <1>25. ASSUME NEW c \in Client, ApplicationLock(c) PROVE ProbeHolds'
    BY <1>25 DEF ProbeHolds, ApplicationLock, Goto
  <1>26. ASSUME NEW c \in Client, TrustLock(c) PROVE ProbeHolds'
    BY <1>26 DEF ProbeHolds, TrustLock, Goto
  <1>27. ASSUME NEW c \in Client, ReadTrust(c) PROVE ProbeHolds'
    BY <1>27 DEF TypeOK, ProbeHolds, ProcessesOK, ReadTrust, End, Goto
  <1>28. ASSUME NEW c \in Client, WriteTrust(c) PROVE ProbeHolds'
    BY <1>28 DEF ProbeHolds, WriteTrust, Goto
  <1>29. ASSUME NEW c \in Client, ReadLaunch(c) PROVE ProbeHolds'
    BY <1>29 DEF ProbeHolds, ReadLaunch, Advance
  <1>30. ASSUME NEW c \in Client, AcquireLock(c) PROVE ProbeHolds'
    <2>1. /\ UNCHANGED <<target, session, pc>>
          /\ \A d \in Declaration : lock[d] # Free => lock'[d] = lock[d]
      BY <1>30 DEF AcquireLock, Advance
    <2> QED
      BY <2>1, Holders DEF ProbeHolds, SessionChosen, FoundRuns, Targeted, Leaving, Chosen
  <1>31. ASSUME NEW c \in Client, LoseLock(c) PROVE ProbeHolds'
    BY <1>31 DEF ProbeHolds, LoseLock, Advance
  <1>32. ASSUME NEW c \in Client, Bind(c) PROVE ProbeHolds'
    BY <1>32 DEF ProbeHolds, Bind, Advance, Publish
  <1>33. ASSUME NEW c \in Client, Serve(c) PROVE ProbeHolds'
    BY <1>33 DEF ProbeHolds, Serve, Advance, Publish
  <1>34. ASSUME NEW c \in Client, Ready(c) PROVE ProbeHolds'
    BY <1>34 DEF ProbeHolds, Ready, Advance, Publish
  <1>35. ASSUME NEW c \in Client, InitializationFails(c) PROVE ProbeHolds'
    BY <1>35 DEF ProbeHolds, InitializationFails, Advance, Publish
  <1>36. ASSUME NEW c \in Client, LeaveFailed(c) PROVE ProbeHolds'
    <2>1. /\ UNCHANGED <<target, session>>
          /\ \A d \in Client : pc'[d] = pc[d] \/ pc'[d] = "send"
          /\ \A d \in Declaration : lock[d] # Owns(c) => lock'[d] = lock[d]
      BY <1>36 DEF LeaveFailed, Leaves, Reply
    <2> QED
      BY <2>1, Holders DEF ProbeHolds, SessionChosen, FoundRuns, Targeted, Leaving, Chosen
  <1>37. ASSUME NEW c \in Client, TakeStop(c) PROVE ProbeHolds'
    <2>1. /\ UNCHANGED <<lock, target, session>>
          /\ \A d \in Client : pc'[d] = pc[d] \/ pc'[d] = "send"
      BY <1>37 DEF TakeStop, Publish, Reply
    <2> QED
      BY <2>1 DEF ProbeHolds
  <1>38. ASSUME NEW c \in Client, TakeForce(c) PROVE ProbeHolds'
    <2>1. /\ UNCHANGED <<lock, target, session>>
          /\ \A d \in Client : pc'[d] = pc[d] \/ pc'[d] = "send"
      BY <1>38 DEF TakeForce, Publish, Reply
    <2> QED
      BY <2>1 DEF ProbeHolds
  <1>39. ASSUME NEW c \in Client, Drained(c) PROVE ProbeHolds'
    BY <1>39 DEF ProbeHolds, Drained, Reply
  <1>40. ASSUME NEW c \in Client, StopServing(c) PROVE ProbeHolds'
    BY <1>40 DEF ProbeHolds, StopServing, Reply
  <1>41. ASSUME NEW c \in Client, Abort(c) PROVE ProbeHolds'
    BY <1>41 DEF ProbeHolds, Abort, Advance
  <1>42. ASSUME NEW c \in Client, RemoveEndpoint(c) PROVE ProbeHolds'
    BY <1>42 DEF ProbeHolds, RemoveEndpoint, Advance
  <1>43. ASSUME NEW c \in Client, Exit(c) PROVE ProbeHolds'
    <2>1. /\ UNCHANGED <<target, session>>
          /\ \A d \in Client : pc'[d] = pc[d] \/ pc'[d] = "send"
          /\ \A d \in Declaration : lock[d] # Owns(c) => lock'[d] = lock[d]
      BY <1>43 DEF Exit, Leaves, Reply
    <2> QED
      BY <2>1, Holders DEF ProbeHolds, SessionChosen, FoundRuns, Targeted, Leaving, Chosen
  <1>44. ASSUME NEW c \in Client, KillClient(c) PROVE ProbeHolds'
    <2>1. /\ UNCHANGED <<target, session>>
          /\ pc'[c] = "done"
          /\ \A d \in Client : d # c => pc'[d] = pc[d]
          /\ \A d \in Declaration : lock[d] # Probes(c) => lock'[d] = lock[d]
      BY <1>44 DEF TypeOK, ProcessesOK, KillClient, End, Goto
    <2>2. \A d \in Client : Probes(d) # Free /\ (d # c => Probes(d) # Probes(c))
      BY Holders
    <2> QED
      BY <2>1, <2>2, ProbedSessions DEF ProbeHolds
  <1>45. ASSUME NEW c \in Client, KillOwner(c) PROVE ProbeHolds'
    <2>1. /\ UNCHANGED <<target, session>>
          /\ \A d \in Client : pc'[d] = pc[d] \/ pc'[d] = "send"
          /\ \A d \in Declaration : lock[d] # Owns(c) => lock'[d] = lock[d]
      BY <1>45 DEF KillOwner, Leaves, Reply
    <2> QED
      BY <2>1, Holders DEF ProbeHolds, SessionChosen, FoundRuns, Targeted, Leaving, Chosen
  <1>46. ASSUME NEW c \in Client, SkipStop(c) PROVE ProbeHolds'
    BY <1>46 DEF ProbeHolds, SkipStop
  <1>47. ASSUME NEW w \in Workspace, EditProject(w) PROVE ProbeHolds'
    BY <1>47 DEF ProbeHolds, EditProject
  <1> QED
    BY <1>1, <1>2, <1>3, <1>4, <1>5, <1>6, <1>7, <1>8, <1>9, <1>10, <1>11, <1>12, <1>13, <1>14,
       <1>15, <1>16, <1>17, <1>18, <1>19, <1>20, <1>21, <1>22, <1>23, <1>24, <1>25, <1>26, <1>27,
       <1>28, <1>29, <1>30, <1>31, <1>32, <1>33, <1>34, <1>35, <1>36, <1>37, <1>38, <1>39, <1>40,
       <1>41, <1>42, <1>43, <1>44, <1>45, <1>46, <1>47 DEF Next, ClientStep, OwnerStep, Environment

-----------------------------------------------------------------------------
(* The endpoints *)

LEMMA EndpointPlaceKept ==
    ASSUME TypeOK, StarterWaits, EndpointPlace, Next
    PROVE  EndpointPlace'
  <1> USE DEF configuration, files, owners, finding, listing, signal, process
  <1>1. ASSUME NEW c \in Client, Load(c) PROVE EndpointPlace'
    <2>1. owner[c] = "none"
      BY <1>1 DEF StarterWaits, Waiting, Load
    <2>2. \A d \in Declaration : endpoint[d] # NoFile =>
             endpoint[d].generation \in Client \ {c}
      BY <2>1 DEF TypeOK, FilesOK, EndpointPlace, Endpoint
    <2>3. /\ UNCHANGED <<owner, endpoint>>
          /\ \A d \in Client : d # c => session'[d] = session[d]
      BY <1>1 DEF Load, End, Ended, Goto
    <2> QED
      BY <2>2, <2>3 DEF EndpointPlace
  <1>2. ASSUME NEW c \in Client, Launch(c) PROVE EndpointPlace'
    <2>1. owner[c] = "none"
      BY <1>2 DEF StarterWaits, Waiting, Launch
    <2>2. \A d \in Declaration : endpoint[d] # NoFile =>
             endpoint[d].generation \in Client \ {c}
      BY <2>1 DEF TypeOK, FilesOK, EndpointPlace, Endpoint
    <2>3. /\ UNCHANGED <<session, endpoint>>
          /\ \A d \in Client : d # c => owner'[d] = owner[d]
      BY <1>2 DEF TypeOK, OwnersOK, Launch, End, Goto
    <2> QED
      BY <2>2, <2>3 DEF EndpointPlace
  <1>3. ASSUME NEW c \in Client, Discard(c) PROVE EndpointPlace'
    BY <1>3 DEF EndpointPlace, Discard, End, Goto
  <1>4. ASSUME NEW c \in Client, Entry(c) PROVE EndpointPlace'
    <2>1. owner[c] = "none"
      BY <1>4 DEF StarterWaits, Waiting, Entry
    <2>2. \A d \in Declaration : endpoint[d] # NoFile =>
             endpoint[d].generation \in Client \ {c}
      BY <2>1 DEF TypeOK, FilesOK, EndpointPlace, Endpoint
    <2>3. /\ UNCHANGED <<owner, endpoint>>
          /\ \A d \in Client : d # c => session'[d] = session[d]
      BY <1>4 DEF Entry, Goto
    <2> QED
      BY <2>2, <2>3 DEF EndpointPlace
  <1>5. ASSUME NEW c \in Client, RemoveEntry(c) PROVE EndpointPlace'
    BY <1>5 DEF EndpointPlace, RemoveEntry, Goto
  <1>6. ASSUME NEW c \in Client, ReadLaunch(c) PROVE EndpointPlace'
    BY <1>6 DEF EndpointPlace, ReadLaunch, Advance
  <1>7. ASSUME NEW c \in Client, AcquireLock(c) PROVE EndpointPlace'
    BY <1>7 DEF EndpointPlace, AcquireLock, Advance
  <1>8. ASSUME NEW c \in Client, LoseLock(c) PROVE EndpointPlace'
    BY <1>8 DEF EndpointPlace, LoseLock, Advance
  <1>9. ASSUME NEW c \in Client, Bind(c) PROVE EndpointPlace'
    BY <1>9 DEF EndpointPlace, Bind, Advance, Publish
  <1>10. ASSUME NEW c \in Client, Serve(c) PROVE EndpointPlace'
    BY <1>10 DEF EndpointPlace, Serve, Advance, Publish
  <1>11. ASSUME NEW c \in Client, Ready(c) PROVE EndpointPlace'
    BY <1>11 DEF EndpointPlace, Ready, Advance, Publish
  <1>12. ASSUME NEW c \in Client, InitializationFails(c) PROVE EndpointPlace'
    BY <1>12 DEF EndpointPlace, InitializationFails, Advance, Publish
  <1>13. ASSUME NEW c \in Client, LeaveFailed(c) PROVE EndpointPlace'
    BY <1>13 DEF EndpointPlace, LeaveFailed, Leaves, Reply
  <1>14. ASSUME NEW c \in Client, TakeStop(c) PROVE EndpointPlace'
    BY <1>14 DEF EndpointPlace, TakeStop, Publish, Reply
  <1>15. ASSUME NEW c \in Client, TakeForce(c) PROVE EndpointPlace'
    BY <1>15 DEF EndpointPlace, TakeForce, Publish, Reply
  <1>16. ASSUME NEW c \in Client, Drained(c) PROVE EndpointPlace'
    BY <1>16 DEF EndpointPlace, Drained, Reply
  <1>17. ASSUME NEW c \in Client, StopServing(c) PROVE EndpointPlace'
    BY <1>17 DEF EndpointPlace, StopServing, Reply
  <1>18. ASSUME NEW c \in Client, Abort(c) PROVE EndpointPlace'
    BY <1>18 DEF EndpointPlace, Abort, Advance
  <1>19. ASSUME NEW c \in Client, RemoveEndpoint(c) PROVE EndpointPlace'
    BY <1>19 DEF EndpointPlace, RemoveEndpoint, Advance
  <1>20. ASSUME NEW c \in Client, Exit(c) PROVE EndpointPlace'
    BY <1>20 DEF EndpointPlace, Exit, Leaves, Reply
  <1>21. ASSUME NEW c \in Client, KillOwner(c) PROVE EndpointPlace'
    BY <1>21 DEF EndpointPlace, KillOwner, Leaves, Reply
  <1>22. ASSUME NEW c \in Client,
            Start(c) \/ Authorize(c) \/ Reload(c) \/
            Recheck(c) \/ Find(c) \/ Attach(c) \/ Unanswered(c) \/ StartupLock(c) \/
            Deadline(c) \/ List(c) \/ Live(c) \/ NotLive(c) \/ TryLock(c) \/ Unlock(c) \/
            Listed(c) \/ Send(c) \/ SentAll(c) \/ Replaced(c) \/ Withdrawn(c) \/
            ApplicationLock(c) \/ TrustLock(c) \/ ReadTrust(c) \/ WriteTrust(c)
     PROVE  EndpointPlace'
    BY <1>22 DEF EndpointPlace, Start, Authorize, Reload, Recheck, Find, Attach, Unanswered,
       StartupLock, Deadline, List, Live, NotLive, TryLock, Unlock, Listed, Send, SentAll, Replaced,
       Withdrawn, ApplicationLock, TrustLock, ReadTrust, WriteTrust, Goto, End, Ended
  <1>23. ASSUME NEW c \in Client,
            SkipStop(c) \/ KillClient(c)
     PROVE  EndpointPlace'
    BY <1>23 DEF EndpointPlace, SkipStop, KillClient, End, Goto
  <1>24. ASSUME NEW w \in Workspace, EditProject(w) PROVE EndpointPlace'
    BY <1>24 DEF EndpointPlace, EditProject
  <1> QED
    BY <1>1, <1>2, <1>3, <1>4, <1>5, <1>6, <1>7, <1>8, <1>9, <1>10, <1>11, <1>12, <1>13, <1>14,
       <1>15, <1>16, <1>17, <1>18, <1>19, <1>20, <1>21, <1>22, <1>23, <1>24 DEF Next, ClientStep,
       OwnerStep, Environment

LEMMA EndpointOwnKept ==
    ASSUME TypeOK, StarterWaits, SessionChosen, OwnerHolds, EndpointOwn, Next
    PROVE  EndpointOwn'
  <1> USE DEF configuration, files, owners, finding, listing, signal, process
  <1>1. ASSUME NEW c \in Client, Load(c) PROVE EndpointOwn'
    <2>1. owner[c] = "none"
      BY <1>1 DEF StarterWaits, Waiting, Load
    <2>2. /\ UNCHANGED <<owner, endpoint>>
          /\ \A d \in Client : d # c => session'[d] = session[d]
      BY <1>1 DEF Load, End, Ended, Goto
    <2> QED
      BY <2>1, <2>2 DEF EndpointOwn, Published
  <1>2. ASSUME NEW c \in Client, Launch(c) PROVE EndpointOwn'
    BY <1>2 DEF TypeOK, EndpointOwn, OwnersOK, Published, Launch, End, Goto
  <1>3. ASSUME NEW c \in Client, Discard(c) PROVE EndpointOwn'
    BY <1>3 DEF EndpointOwn, Discard, End, Goto
  <1>4. ASSUME NEW c \in Client, Entry(c) PROVE EndpointOwn'
    <2>1. owner[c] = "none"
      BY <1>4 DEF StarterWaits, Waiting, Entry
    <2>2. /\ UNCHANGED <<owner, endpoint>>
          /\ \A d \in Client : d # c => session'[d] = session[d]
      BY <1>4 DEF Entry, Goto
    <2> QED
      BY <2>1, <2>2 DEF EndpointOwn, Published
  <1>5. ASSUME NEW c \in Client, RemoveEntry(c) PROVE EndpointOwn'
    BY <1>5 DEF EndpointOwn, RemoveEntry, Goto
  <1>6. ASSUME NEW c \in Client, ReadLaunch(c) PROVE EndpointOwn'
    BY <1>6 DEF EndpointOwn, Published, ReadLaunch, Advance
  <1>7. ASSUME NEW c \in Client, AcquireLock(c) PROVE EndpointOwn'
    BY <1>7 DEF EndpointOwn, Published, AcquireLock, Advance
  <1>8. ASSUME NEW c \in Client, LoseLock(c) PROVE EndpointOwn'
    BY <1>8 DEF EndpointOwn, Published, LoseLock, Advance
  <1>9. ASSUME NEW c \in Client, Bind(c) PROVE EndpointOwn'
    <2>1. /\ UNCHANGED session
          /\ \A d \in Client : d # c => owner'[d] = owner[d]
          /\ owner[c] \in Locked /\ session[c] \in Declaration
          /\ endpoint'[session[c]].generation = c
          /\ \A d \in Declaration : d # session[c] => endpoint'[d] = endpoint[d]
      BY <1>9 DEF TypeOK, FilesOK, SessionChosen, Locked, OwnerPhase, Bind, Advance, Publish
    <2> QED
      BY <2>1, OneOwner DEF EndpointOwn
  <1>10. ASSUME NEW c \in Client, Serve(c) PROVE EndpointOwn'
    <2>1. /\ UNCHANGED session
          /\ \A d \in Client : d # c => owner'[d] = owner[d]
          /\ owner[c] \in Locked /\ session[c] \in Declaration
          /\ endpoint'[session[c]].generation = c
          /\ \A d \in Declaration : d # session[c] => endpoint'[d] = endpoint[d]
      BY <1>10 DEF TypeOK, FilesOK, SessionChosen, Locked, OwnerPhase, Serve, Advance, Publish
    <2> QED
      BY <2>1, OneOwner DEF EndpointOwn
  <1>11. ASSUME NEW c \in Client, Ready(c) PROVE EndpointOwn'
    <2>1. /\ UNCHANGED session
          /\ \A d \in Client : d # c => owner'[d] = owner[d]
          /\ owner[c] \in Locked /\ session[c] \in Declaration
          /\ endpoint'[session[c]].generation = c
          /\ \A d \in Declaration : d # session[c] => endpoint'[d] = endpoint[d]
      BY <1>11 DEF TypeOK, FilesOK, SessionChosen, Locked, OwnerPhase, Ready, Advance, Publish
    <2> QED
      BY <2>1, OneOwner DEF EndpointOwn
  <1>12. ASSUME NEW c \in Client, InitializationFails(c) PROVE EndpointOwn'
    <2>1. /\ UNCHANGED session
          /\ \A d \in Client : d # c => owner'[d] = owner[d]
          /\ owner[c] \in Locked /\ session[c] \in Declaration
          /\ endpoint'[session[c]].generation = c
          /\ \A d \in Declaration : d # session[c] => endpoint'[d] = endpoint[d]
      BY <1>12 DEF TypeOK, FilesOK, SessionChosen, Locked, OwnerPhase, InitializationFails, Advance,
         Publish
    <2> QED
      BY <2>1, OneOwner DEF EndpointOwn
  <1>13. ASSUME NEW c \in Client, LeaveFailed(c) PROVE EndpointOwn'
    BY <1>13 DEF EndpointOwn, Published, LeaveFailed, Leaves, Reply
  <1>14. ASSUME NEW c \in Client, TakeStop(c) PROVE EndpointOwn'
    <2>1. /\ UNCHANGED session
          /\ \A d \in Client : d # c => owner'[d] = owner[d]
          /\ owner[c] \in Locked /\ session[c] \in Declaration
          /\ endpoint'[session[c]].generation = c
          /\ \A d \in Declaration : d # session[c] => endpoint'[d] = endpoint[d]
      BY <1>14 DEF TypeOK, FilesOK, SessionChosen, Locked, OwnerPhase, TakeStop, Publish, Reply
    <2> QED
      BY <2>1, OneOwner DEF EndpointOwn
  <1>15. ASSUME NEW c \in Client, TakeForce(c) PROVE EndpointOwn'
    <2>1. /\ UNCHANGED session
          /\ \A d \in Client : d # c => owner'[d] = owner[d]
          /\ owner[c] \in Locked /\ session[c] \in Declaration
          /\ endpoint'[session[c]].generation = c
          /\ \A d \in Declaration : d # session[c] => endpoint'[d] = endpoint[d]
      BY <1>15 DEF TypeOK, FilesOK, SessionChosen, Locked, OwnerPhase, TakeForce, Publish, Reply
    <2> QED
      BY <2>1, OneOwner DEF EndpointOwn
  <1>16. ASSUME NEW c \in Client, Drained(c) PROVE EndpointOwn'
    BY <1>16 DEF EndpointOwn, Published, Drained, Reply
  <1>17. ASSUME NEW c \in Client, StopServing(c) PROVE EndpointOwn'
    BY <1>17 DEF EndpointOwn, Published, StopServing, Reply
  <1>18. ASSUME NEW c \in Client, Abort(c) PROVE EndpointOwn'
    BY <1>18 DEF EndpointOwn, Published, Abort, Advance
  <1>19. ASSUME NEW c \in Client, RemoveEndpoint(c) PROVE EndpointOwn'
    BY <1>19 DEF EndpointOwn, Published, RemoveEndpoint, Advance
  <1>20. ASSUME NEW c \in Client, Exit(c) PROVE EndpointOwn'
    BY <1>20 DEF EndpointOwn, Published, Exit, Leaves, Reply
  <1>21. ASSUME NEW c \in Client, KillOwner(c) PROVE EndpointOwn'
    BY <1>21 DEF EndpointOwn, Published, KillOwner, Leaves, Reply
  <1>22. ASSUME NEW c \in Client,
            Start(c) \/ Authorize(c) \/ Reload(c) \/
            Recheck(c) \/ Find(c) \/ Attach(c) \/ Unanswered(c) \/ StartupLock(c) \/
            Deadline(c) \/ List(c) \/ Live(c) \/ NotLive(c) \/ TryLock(c) \/ Unlock(c) \/
            Listed(c) \/ Send(c) \/ SentAll(c) \/ Replaced(c) \/ Withdrawn(c) \/
            ApplicationLock(c) \/ TrustLock(c) \/ ReadTrust(c) \/ WriteTrust(c)
     PROVE  EndpointOwn'
    BY <1>22 DEF EndpointOwn, Start, Authorize, Reload, Recheck, Find, Attach, Unanswered,
       StartupLock, Deadline, List, Live, NotLive, TryLock, Unlock, Listed, Send, SentAll, Replaced,
       Withdrawn, ApplicationLock, TrustLock, ReadTrust, WriteTrust, Goto, End, Ended
  <1>23. ASSUME NEW c \in Client,
            SkipStop(c) \/ KillClient(c)
     PROVE  EndpointOwn'
    BY <1>23 DEF EndpointOwn, SkipStop, KillClient, End, Goto
  <1>24. ASSUME NEW w \in Workspace, EditProject(w) PROVE EndpointOwn'
    BY <1>24 DEF EndpointOwn, EditProject
  <1> QED
    BY <1>1, <1>2, <1>3, <1>4, <1>5, <1>6, <1>7, <1>8, <1>9, <1>10, <1>11, <1>12, <1>13, <1>14,
       <1>15, <1>16, <1>17, <1>18, <1>19, <1>20, <1>21, <1>22, <1>23, <1>24 DEF Next, ClientStep,
       OwnerStep, Environment

-----------------------------------------------------------------------------
(* Stops and restarts *)

LEMMA SignalledAreStoppedKept ==
    ASSUME TypeOK, StarterWaits, SignalledAreStopped, Next
    PROVE  SignalledAreStopped'
  <1> USE DEF configuration, files, owners, finding, listing, signal, process
  <1>1. ASSUME NEW c \in Client, Launch(c) PROVE SignalledAreStopped'
    <2>1. /\ owner[c] = "none" /\ UNCHANGED signalled
          /\ \A d \in Client : d # c => owner'[d] = owner[d]
      BY <1>1 DEF TypeOK, OwnersOK, StarterWaits, Waiting, Launch
    <2> QED
      BY <2>1 DEF SignalledAreStopped
  <1>2. ASSUME NEW c \in Client, ReadLaunch(c) PROVE SignalledAreStopped'
    BY <1>2 DEF SignalledAreStopped, ReadLaunch, Advance
  <1>3. ASSUME NEW c \in Client, AcquireLock(c) PROVE SignalledAreStopped'
    BY <1>3 DEF SignalledAreStopped, AcquireLock, Advance
  <1>4. ASSUME NEW c \in Client, LoseLock(c) PROVE SignalledAreStopped'
    BY <1>4 DEF SignalledAreStopped, LoseLock, Advance
  <1>5. ASSUME NEW c \in Client, Bind(c) PROVE SignalledAreStopped'
    BY <1>5 DEF SignalledAreStopped, Bind, Advance
  <1>6. ASSUME NEW c \in Client, Serve(c) PROVE SignalledAreStopped'
    BY <1>6 DEF SignalledAreStopped, Serve, Advance
  <1>7. ASSUME NEW c \in Client, Ready(c) PROVE SignalledAreStopped'
    BY <1>7 DEF SignalledAreStopped, Ready, Advance
  <1>8. ASSUME NEW c \in Client, InitializationFails(c) PROVE SignalledAreStopped'
    BY <1>8 DEF SignalledAreStopped, InitializationFails, Advance
  <1>9. ASSUME NEW c \in Client, LeaveFailed(c) PROVE SignalledAreStopped'
    BY <1>9 DEF SignalledAreStopped, LeaveFailed, Leaves, Reply
  <1>10. ASSUME NEW c \in Client, TakeStop(c) PROVE SignalledAreStopped'
    BY <1>10 DEF SignalledAreStopped, TakeStop, Reply
  <1>11. ASSUME NEW c \in Client, TakeForce(c) PROVE SignalledAreStopped'
    BY <1>11 DEF TypeOK, SignalledAreStopped, OwnersOK, TakeForce, Reply
  <1>12. ASSUME NEW c \in Client, Drained(c) PROVE SignalledAreStopped'
    BY <1>12 DEF TypeOK, SignalledAreStopped, OwnersOK, Drained, Reply
  <1>13. ASSUME NEW c \in Client, StopServing(c) PROVE SignalledAreStopped'
    BY <1>13 DEF SignalledAreStopped, StopServing, Reply
  <1>14. ASSUME NEW c \in Client, Abort(c) PROVE SignalledAreStopped'
    BY <1>14 DEF SignalledAreStopped, Abort, Advance
  <1>15. ASSUME NEW c \in Client, RemoveEndpoint(c) PROVE SignalledAreStopped'
    BY <1>15 DEF SignalledAreStopped, RemoveEndpoint, Advance
  <1>16. ASSUME NEW c \in Client, Exit(c) PROVE SignalledAreStopped'
    BY <1>16 DEF SignalledAreStopped, Exit, Leaves, Reply
  <1>17. ASSUME NEW c \in Client, KillOwner(c) PROVE SignalledAreStopped'
    BY <1>17 DEF SignalledAreStopped, KillOwner, Leaves, Reply
  <1>18. ASSUME NEW c \in Client,
            Start(c) \/ Load(c) \/ Authorize(c) \/ Reload(c) \/
            Recheck(c) \/ Find(c) \/ Attach(c) \/ Unanswered(c) \/ StartupLock(c) \/ Discard(c) \/
            Deadline(c) \/ List(c) \/ Entry(c) \/ Live(c) \/ NotLive(c) \/ TryLock(c) \/
            Unlock(c) \/ RemoveEntry(c) \/ Listed(c) \/ Send(c) \/ SentAll(c) \/ Replaced(c) \/
            Withdrawn(c) \/ ApplicationLock(c) \/ TrustLock(c) \/ ReadTrust(c) \/ WriteTrust(c)
     PROVE  SignalledAreStopped'
    BY <1>18 DEF SignalledAreStopped, Start, Load, Authorize, Reload, Recheck, Find, Attach,
       Unanswered, StartupLock, Discard, Deadline, List, Entry, Live, NotLive, TryLock, Unlock,
       RemoveEntry, Listed, Send, SentAll, Replaced, Withdrawn, ApplicationLock, TrustLock,
       ReadTrust, WriteTrust, Goto, End
  <1>19. ASSUME NEW c \in Client,
            SkipStop(c) \/ KillClient(c)
     PROVE  SignalledAreStopped'
    BY <1>19 DEF SignalledAreStopped, SkipStop, KillClient, End, Goto
  <1>20. ASSUME NEW w \in Workspace, EditProject(w) PROVE SignalledAreStopped'
    BY <1>20 DEF SignalledAreStopped, EditProject
  <1> QED
    BY <1>1, <1>2, <1>3, <1>4, <1>5, <1>6, <1>7, <1>8, <1>9, <1>10, <1>11, <1>12, <1>13, <1>14,
       <1>15, <1>16, <1>17, <1>18, <1>19, <1>20 DEF Next, ClientStep, OwnerStep, Environment

LEMMA AnsweredKept ==
    ASSUME TypeOK, Targeted, Answered, Next
    PROVE  Answered'
  <1> USE DEF configuration, files, owners, finding, listing, signal, process
  <1>1. ASSUME NEW c \in Client, Start(c) PROVE Answered'
    BY <1>1 DEF Answered, Leaving, Command_of, TrustCommand, Start, Goto, Running
  <1>2. ASSUME NEW c \in Client, Load(c) PROVE Answered'
    <2>1. /\ UNCHANGED <<target, refused, signalled, task>>
          /\ pc'[c] \in {"applicationLock", "authorize", "done"}
          /\ \A d \in Client : d # c => pc'[d] = pc[d]
      BY <1>2 DEF TypeOK, ProcessesOK, Load, End, Ended, Running, Goto
    <2>2. pc[c] = "load"
      BY <1>2 DEF Load
    <2> QED
      BY <2>1, <2>2 DEF Answered, Command_of
  <1>3. ASSUME NEW c \in Client, Authorize(c) PROVE Answered'
    BY <1>3 DEF TypeOK, Targeted, Answered, FilesOK, ProcessesOK, Command_of, Authorize, End, Ended,
       Running, Goto
  <1>4. ASSUME NEW c \in Client, Reload(c) PROVE Answered'
    <2>1. /\ UNCHANGED <<target, refused, signalled, task>>
          /\ pc'[c] \in {"recheck", "startupLock", "done"}
          /\ \A d \in Client : d # c => pc'[d] = pc[d]
      BY <1>4 DEF TypeOK, ProcessesOK, Reload, End, Ended, Running, Goto
    <2>2. pc[c] = "reload"
      BY <1>4 DEF Reload
    <2> QED
      BY <2>1, <2>2 DEF Answered, Leaving, Command_of
  <1>5. ASSUME NEW c \in Client, Recheck(c) PROVE Answered'
    <2>1. /\ UNCHANGED <<target, refused, signalled, task>>
          /\ pc'[c] \in {"startupLock", "done"}
          /\ \A d \in Client : d # c => pc'[d] = pc[d]
      BY <1>5 DEF TypeOK, ProcessesOK, Recheck, End, Ended, Running, Goto
    <2>2. pc[c] = "recheck"
      BY <1>5 DEF Recheck
    <2> QED
      BY <2>1, <2>2 DEF Answered, Leaving, Command_of
  <1>6. ASSUME NEW c \in Client, Find(c) PROVE Answered'
    BY <1>6 DEF Answered, Leaving, Command_of, Find, Goto, Running, ProbeAt, Unprobed
  <1>7. ASSUME NEW c \in Client, Attach(c) PROVE Answered'
    BY <1>7 DEF Answered, Leaving, Command_of, Attach, End, Ended, Goto
  <1>8. ASSUME NEW c \in Client, Unanswered(c) PROVE Answered'
    BY <1>8 DEF Answered, Leaving, Command_of, Unanswered, Goto, Running, Unprobed
  <1>9. ASSUME NEW c \in Client, StartupLock(c) PROVE Answered'
    BY <1>9 DEF Answered, Leaving, Command_of, StartupLock, Goto, Running
  <1>10. ASSUME NEW c \in Client, Launch(c) PROVE Answered'
    <2>1. /\ UNCHANGED <<target, refused, signalled, task>>
          /\ pc'[c] \in {"await", "done"}
          /\ \A d \in Client : d # c => pc'[d] = pc[d]
      BY <1>10 DEF TypeOK, ProcessesOK, Launch, End, Goto
    <2>2. pc[c] = "launch"
      BY <1>10 DEF Launch
    <2> QED
      BY <2>1, <2>2 DEF Answered, Leaving, Command_of
  <1>11. ASSUME NEW c \in Client, Discard(c) PROVE Answered'
    BY <1>11 DEF Answered, Leaving, Command_of, Discard, End, Goto
  <1>12. ASSUME NEW c \in Client, Deadline(c) PROVE Answered'
    BY <1>12 DEF Answered, Leaving, Command_of, Deadline, End, Ended, Goto
  <1>13. ASSUME NEW c \in Client, List(c) PROVE Answered'
    BY <1>13 DEF Answered, Leaving, Command_of, List, Goto, Running
  <1>14. ASSUME NEW c \in Client, Entry(c) PROVE Answered'
    BY <1>14 DEF Answered, Leaving, Command_of, Entry, Goto, Running
  <1>15. ASSUME NEW c \in Client, Live(c) PROVE Answered'
    BY <1>15 DEF Answered, Leaving, Command_of, Live, Goto, Running
  <1>16. ASSUME NEW c \in Client, NotLive(c) PROVE Answered'
    BY <1>16 DEF Answered, Leaving, Command_of, NotLive, Goto, Running
  <1>17. ASSUME NEW c \in Client, TryLock(c) PROVE Answered'
    <2>1. /\ UNCHANGED <<target, refused, signalled, task>>
          /\ \A d \in Client : d # c => pc'[d] = pc[d]
          /\ \/ pc[c] = "tryLock" /\ pc'[c] \in {"unlock", "entry"}
             \/ pc[c] = "tryExit" /\ pc'[c] \in {"unlockExit", "waitExit"}
      BY <1>17 DEF TypeOK, ProcessesOK, TryLock, Goto, Running
    <2> QED
      BY <2>1 DEF Answered, Leaving, Command_of
  <1>18. ASSUME NEW c \in Client, Unlock(c) PROVE Answered'
    BY <1>18 DEF Answered, Leaving, Command_of, Unlock, Goto, Running
  <1>19. ASSUME NEW c \in Client, RemoveEntry(c) PROVE Answered'
    BY <1>19 DEF Answered, Leaving, Command_of, RemoveEntry, Goto, Running
  <1>20. ASSUME NEW c \in Client, Listed(c) PROVE Answered'
    <2>1. /\ UNCHANGED <<target, refused, signalled, task>>
          /\ pc'[c] \in {"send", "done"}
          /\ \A d \in Client : d # c => pc'[d] = pc[d]
      BY <1>20 DEF TypeOK, ProcessesOK, Listed, End, Ended, Running, Goto
    <2>2. pc[c] = "entry"
      BY <1>20 DEF Listed
    <2> QED
      BY <2>1, <2>2 DEF Answered, Leaving, Command_of
  <1>21. ASSUME NEW c \in Client, Send(c) PROVE Answered'
    BY <1>21 DEF TypeOK, Answered, ProcessesOK, Leaving, Command_of, Send, Goto, Running
  <1>22. ASSUME NEW c \in Client, SentAll(c) PROVE Answered'
    BY <1>22 DEF TypeOK, Targeted, Answered, ConfigurationOK, FilesOK, OwnersOK, ProcessesOK,
       Leaving, Command_of, SentAll, End, Ended, Running, Goto
  <1>23. ASSUME NEW c \in Client, Replaced(c) PROVE Answered'
    BY <1>23 DEF Answered, Leaving, Command_of, Replaced, Goto, Running
  <1>24. ASSUME NEW c \in Client, Withdrawn(c) PROVE Answered'
    BY <1>24 DEF Answered, Leaving, Command_of, Withdrawn, Goto, Running
  <1>25. ASSUME NEW c \in Client, ApplicationLock(c) PROVE Answered'
    BY <1>25 DEF Answered, Leaving, Command_of, ApplicationLock, Goto, Running
  <1>26. ASSUME NEW c \in Client, TrustLock(c) PROVE Answered'
    BY <1>26 DEF Answered, Leaving, Command_of, TrustLock, Goto, Running
  <1>27. ASSUME NEW c \in Client, ReadTrust(c) PROVE Answered'
    <2>1. /\ UNCHANGED <<target, refused, signalled, task>>
          /\ pc'[c] \in {"writeTrust", "done"}
          /\ \A d \in Client : d # c => pc'[d] = pc[d]
      BY <1>27 DEF TypeOK, ProcessesOK, ReadTrust, End, Goto
    <2>2. pc[c] = "readTrust"
      BY <1>27 DEF ReadTrust
    <2> QED
      BY <2>1, <2>2 DEF Answered, Leaving, Command_of
  <1>28. ASSUME NEW c \in Client, WriteTrust(c) PROVE Answered'
    BY <1>28 DEF Answered, Leaving, Command_of, WriteTrust, Goto, Running
  <1>29. ASSUME NEW c \in Client, LeaveFailed(c) PROVE Answered'
    BY <1>29 DEF Answered, Leaving, Command_of, LeaveFailed, Leaves, Reply
  <1>30. ASSUME NEW c \in Client, TakeStop(c) PROVE Answered'
    <2>1. PICK d \in stops[c] :
             IF owner[c] = "ready" THEN UNCHANGED <<pc, signal>> ELSE Reply(c, {d}, {})
      BY <1>30 DEF TakeStop
    <2>2. /\ UNCHANGED <<target, task>>
          /\ \A e \in Client :
                \/ pc'[e] = pc[e] /\ refused'[e] = refused[e] /\ signalled'[e] = signalled[e]
                \/ pc[e] = "reply" /\ pc'[e] = "send" /\ refused'[e]
      <3>1. CASE UNCHANGED <<pc, signal>>
        BY <1>30, <3>1 DEF TakeStop
      <3>2. CASE Reply(c, {d}, {})
        BY <1>30, <3>2 DEF TypeOK, ProcessesOK, TakeStop, Reply
      <3> QED
        BY <2>1, <3>1, <3>2
    <2> QED
      BY <2>2 DEF Answered, Leaving, Command_of
  <1>31. ASSUME NEW c \in Client, TakeForce(c) PROVE Answered'
    BY <1>31 DEF TypeOK, Answered, ProcessesOK, Command_of, TakeForce, Reply
  <1>32. ASSUME NEW c \in Client, Drained(c) PROVE Answered'
    BY <1>32 DEF Answered, Command_of, Drained, Reply
  <1>33. ASSUME NEW c \in Client, StopServing(c) PROVE Answered'
    BY <1>33 DEF Answered, Leaving, Command_of, StopServing, Reply
  <1>34. ASSUME NEW c \in Client, Exit(c) PROVE Answered'
    BY <1>34 DEF Answered, Leaving, Command_of, Exit, Leaves, Reply
  <1>35. ASSUME NEW c \in Client, KillClient(c) PROVE Answered'
    BY <1>35 DEF Answered, Leaving, Command_of, KillClient, End, Goto
  <1>36. ASSUME NEW c \in Client, KillOwner(c) PROVE Answered'
    BY <1>36 DEF Answered, Leaving, Command_of, KillOwner, Leaves, Reply
  <1>37. ASSUME NEW c \in Client,
            ReadLaunch(c) \/ AcquireLock(c) \/ LoseLock(c) \/
            Bind(c) \/ Serve(c) \/ Ready(c) \/ InitializationFails(c) \/ SkipStop(c) \/
            Abort(c) \/ RemoveEndpoint(c)
     PROVE  Answered'
    BY <1>37 DEF Answered, Command_of, ReadLaunch, AcquireLock, LoseLock, Bind, Serve, Ready,
       InitializationFails, SkipStop, Abort, RemoveEndpoint, Advance
  <1>38. ASSUME NEW w \in Workspace, EditProject(w) PROVE Answered'
    BY <1>38 DEF Answered, Command_of, EditProject
  <1> QED
    BY <1>1, <1>2, <1>3, <1>4, <1>5, <1>6, <1>7, <1>8, <1>9, <1>10, <1>11, <1>12, <1>13, <1>14,
       <1>15, <1>16, <1>17, <1>18, <1>19, <1>20, <1>21, <1>22, <1>23, <1>24, <1>25, <1>26, <1>27,
       <1>28, <1>29, <1>30, <1>31, <1>32, <1>33, <1>34, <1>35, <1>36, <1>37, <1>38 DEF Next,
       ClientStep, OwnerStep, Environment

LEMMA ReplacedGoneKept ==
    ASSUME TypeOK, StarterWaits, SessionChosen, Targeted, OwnerHolds, ProbeHolds, EndpointPlace,
           SignalledAreStopped, Answered, ReplacedGone, Next
    PROVE  ReplacedGone'
  <1> USE DEF configuration, files, owners, finding, listing, signal, process
  <1>1. ASSUME NEW c \in Client, Start(c) PROVE ReplacedGone'
    BY <1>1 DEF ReplacedGone, Starting, Command_of, Start, Goto, Running
  <1>2. ASSUME NEW c \in Client, Load(c) PROVE ReplacedGone'
    BY <1>2 DEF TypeOK, ReplacedGone, ProcessesOK, Starting, Command_of, Load, End, Ended, Running,
       Goto
  <1>3. ASSUME NEW c \in Client, Authorize(c) PROVE ReplacedGone'
    BY <1>3 DEF TypeOK, ReplacedGone, ProcessesOK, Starting, Command_of, Authorize, End, Ended,
       Running, Goto
  <1>4. ASSUME NEW c \in Client, Reload(c) PROVE ReplacedGone'
    BY <1>4 DEF TypeOK, ReplacedGone, ProcessesOK, Starting, Command_of, Reload, End, Ended,
       Running, Goto
  <1>5. ASSUME NEW c \in Client, Recheck(c) PROVE ReplacedGone'
    BY <1>5 DEF TypeOK, ReplacedGone, ProcessesOK, Starting, Command_of, Recheck, End, Ended,
       Running, Goto
  <1>6. ASSUME NEW c \in Client, Find(c) PROVE ReplacedGone'
    BY <1>6 DEF ReplacedGone, Starting, Command_of, Find, Goto, Running, ProbeAt
  <1>7. ASSUME NEW c \in Client, Attach(c) PROVE ReplacedGone'
    BY <1>7 DEF ReplacedGone, Starting, Command_of, Attach, End, Ended, Goto
  <1>8. ASSUME NEW c \in Client, Unanswered(c) PROVE ReplacedGone'
    BY <1>8 DEF ReplacedGone, Starting, Command_of, Unanswered, Goto, Running, Unprobed
  <1>9. ASSUME NEW c \in Client, StartupLock(c) PROVE ReplacedGone'
    BY <1>9 DEF ReplacedGone, Starting, Command_of, StartupLock, Goto, Running
  <1>10. ASSUME NEW c \in Client, Launch(c) PROVE ReplacedGone'
    <2>1. owner[c] = "none"
      BY <1>10 DEF StarterWaits, Waiting, Launch
    <2>2. /\ UNCHANGED <<target, task>>
          /\ pc[c] = "launch" /\ \A d \in Client : d # c => pc'[d] = pc[d] /\ owner'[d] = owner[d]
      BY <1>10 DEF TypeOK, OwnersOK, ProcessesOK, Launch, End, Goto
    <2> QED
      BY <2>1, <2>2 DEF ReplacedGone, Starting, Command_of
  <1>11. ASSUME NEW c \in Client, Discard(c) PROVE ReplacedGone'
    BY <1>11 DEF ReplacedGone, Starting, Command_of, Discard, End, Goto
  <1>12. ASSUME NEW c \in Client, Deadline(c) PROVE ReplacedGone'
    BY <1>12 DEF ReplacedGone, Starting, Command_of, Deadline, End, Ended, Goto
  <1>13. ASSUME NEW c \in Client, List(c) PROVE ReplacedGone'
    BY <1>13 DEF ReplacedGone, Starting, Command_of, List, Goto, Running
  <1>14. ASSUME NEW c \in Client, Entry(c) PROVE ReplacedGone'
    BY <1>14 DEF ReplacedGone, Starting, Command_of, Entry, Goto, Running
  <1>15. ASSUME NEW c \in Client, Live(c) PROVE ReplacedGone'
    BY <1>15 DEF ReplacedGone, Starting, Command_of, Live, Goto, Running
  <1>16. ASSUME NEW c \in Client, NotLive(c) PROVE ReplacedGone'
    BY <1>16 DEF ReplacedGone, Starting, Command_of, NotLive, Goto, Running
  <1>17. ASSUME NEW c \in Client, TryLock(c) PROVE ReplacedGone'
    BY <1>17 DEF TypeOK, ReplacedGone, ProcessesOK, Starting, Command_of, TryLock, Goto, Running
  <1>18. ASSUME NEW c \in Client, Unlock(c) PROVE ReplacedGone'
    <2>1. /\ UNCHANGED <<target, task, owner>>
          /\ pc'[c] \in {"removeEntry", "find"}
          /\ \A d \in Client : d # c => pc'[d] = pc[d]
      BY <1>18 DEF TypeOK, ProcessesOK, Unlock, Goto, Running
    <2>2. pc'[c] = "find" => pc[c] = "unlockExit"
      BY <1>18 DEF Unlock, Goto
    <2>3. ASSUME pc[c] = "unlockExit" PROVE target[c] \in Client /\ owner[target[c]] = "gone"
      BY <2>3, Holders DEF Targeted, Leaving, Answered, SignalledAreStopped, OwnerHolds, ProbeHolds,
         Locked, OwnerPhase
    <2> QED
      BY <2>1, <2>2, <2>3 DEF ReplacedGone, Starting, Command_of
  <1>19. ASSUME NEW c \in Client, RemoveEntry(c) PROVE ReplacedGone'
    BY <1>19 DEF ReplacedGone, Starting, Command_of, RemoveEntry, Goto, Running
  <1>20. ASSUME NEW c \in Client, Listed(c) PROVE ReplacedGone'
    BY <1>20 DEF TypeOK, ReplacedGone, ProcessesOK, Starting, Command_of, Listed, End, Ended,
       Running, Goto
  <1>21. ASSUME NEW c \in Client, Send(c) PROVE ReplacedGone'
    BY <1>21 DEF TypeOK, ReplacedGone, ProcessesOK, Starting, Command_of, Send, Goto, Running
  <1>22. ASSUME NEW c \in Client, SentAll(c) PROVE ReplacedGone'
    BY <1>22 DEF TypeOK, ReplacedGone, ProcessesOK, Starting, Command_of, SentAll, End, Ended,
       Running, Goto
  <1>23. ASSUME NEW c \in Client, Replaced(c) PROVE ReplacedGone'
    <2> DEFINE d == session[target[c]]
               h == endpoint[d].generation
    <2>1. /\ pc[c] = "waitExit" /\ endpoint[d] # NoFile
          /\ h # target[c] /\ Accepting(h)
      BY <1>23 DEF Replaced
    <2>2. target[c] \in Client /\ owner[target[c]] \in {"ended", "aborted", "removed", "gone"}
      BY <2>1 DEF Targeted, Leaving, Answered, SignalledAreStopped
    <2>3. d \in Declaration
      BY <2>2 DEF SessionChosen
    <2>4. h \in Client
      BY <2>1, <2>3 DEF TypeOK, FilesOK, Endpoint
    <2>5. session[h] = d
      BY <2>1, <2>3 DEF EndpointPlace
    <2>6. lock[d] = Owns(h)
      BY <2>1, <2>4, <2>5 DEF OwnerHolds, Accepting, Locked, OwnerPhase
    <2>7. owner[target[c]] # "gone" => lock[d] = Owns(target[c])
      BY <2>2 DEF OwnerHolds, Locked, OwnerPhase
    <2>8. owner[target[c]] = "gone"
      BY <2>1, <2>2, <2>4, <2>6, <2>7, Holders
    <2>9. /\ UNCHANGED <<target, task, owner>>
          /\ \A e \in Client : e # c => pc'[e] = pc[e]
      BY <1>23 DEF Replaced, Goto, Running
    <2> QED
      BY <2>2, <2>8, <2>9 DEF ReplacedGone, Command_of
  <1>24. ASSUME NEW c \in Client, Withdrawn(c) PROVE ReplacedGone'
    BY <1>24 DEF ReplacedGone, Starting, Command_of, Withdrawn, Goto, Running
  <1>25. ASSUME NEW c \in Client, ApplicationLock(c) PROVE ReplacedGone'
    BY <1>25 DEF ReplacedGone, Starting, Command_of, ApplicationLock, Goto, Running
  <1>26. ASSUME NEW c \in Client, TrustLock(c) PROVE ReplacedGone'
    BY <1>26 DEF ReplacedGone, Starting, Command_of, TrustLock, Goto, Running
  <1>27. ASSUME NEW c \in Client, ReadTrust(c) PROVE ReplacedGone'
    BY <1>27 DEF TypeOK, ReplacedGone, ProcessesOK, Starting, Command_of, ReadTrust, End, Goto
  <1>28. ASSUME NEW c \in Client, WriteTrust(c) PROVE ReplacedGone'
    BY <1>28 DEF ReplacedGone, Starting, Command_of, WriteTrust, Goto, Running
  <1>29. ASSUME NEW c \in Client, ReadLaunch(c) PROVE ReplacedGone'
    BY <1>29 DEF ReplacedGone, Command_of, ReadLaunch, Advance
  <1>30. ASSUME NEW c \in Client, AcquireLock(c) PROVE ReplacedGone'
    BY <1>30 DEF ReplacedGone, Command_of, AcquireLock, Advance
  <1>31. ASSUME NEW c \in Client, LoseLock(c) PROVE ReplacedGone'
    BY <1>31 DEF ReplacedGone, Command_of, LoseLock, Advance
  <1>32. ASSUME NEW c \in Client, Bind(c) PROVE ReplacedGone'
    BY <1>32 DEF ReplacedGone, Command_of, Bind, Advance
  <1>33. ASSUME NEW c \in Client, Serve(c) PROVE ReplacedGone'
    BY <1>33 DEF ReplacedGone, Command_of, Serve, Advance
  <1>34. ASSUME NEW c \in Client, Ready(c) PROVE ReplacedGone'
    BY <1>34 DEF ReplacedGone, Command_of, Ready, Advance
  <1>35. ASSUME NEW c \in Client, InitializationFails(c) PROVE ReplacedGone'
    BY <1>35 DEF ReplacedGone, Command_of, InitializationFails, Advance
  <1>36. ASSUME NEW c \in Client, LeaveFailed(c) PROVE ReplacedGone'
    BY <1>36 DEF ReplacedGone, Starting, Command_of, LeaveFailed, Leaves, Reply
  <1>37. ASSUME NEW c \in Client, TakeStop(c) PROVE ReplacedGone'
    BY <1>37 DEF ReplacedGone, Starting, Command_of, TakeStop, Reply
  <1>38. ASSUME NEW c \in Client, TakeForce(c) PROVE ReplacedGone'
    BY <1>38 DEF ReplacedGone, Starting, Command_of, TakeForce, Reply
  <1>39. ASSUME NEW c \in Client, Drained(c) PROVE ReplacedGone'
    BY <1>39 DEF ReplacedGone, Starting, Command_of, Drained, Reply
  <1>40. ASSUME NEW c \in Client, StopServing(c) PROVE ReplacedGone'
    BY <1>40 DEF ReplacedGone, Starting, Command_of, StopServing, Reply
  <1>41. ASSUME NEW c \in Client, Abort(c) PROVE ReplacedGone'
    BY <1>41 DEF ReplacedGone, Command_of, Abort, Advance
  <1>42. ASSUME NEW c \in Client, RemoveEndpoint(c) PROVE ReplacedGone'
    BY <1>42 DEF ReplacedGone, Command_of, RemoveEndpoint, Advance
  <1>43. ASSUME NEW c \in Client, Exit(c) PROVE ReplacedGone'
    BY <1>43 DEF ReplacedGone, Starting, Command_of, Exit, Leaves, Reply
  <1>44. ASSUME NEW c \in Client, KillClient(c) PROVE ReplacedGone'
    BY <1>44 DEF ReplacedGone, Starting, Command_of, KillClient, End, Goto
  <1>45. ASSUME NEW c \in Client, KillOwner(c) PROVE ReplacedGone'
    BY <1>45 DEF ReplacedGone, Starting, Command_of, KillOwner, Leaves, Reply
  <1>46. ASSUME NEW c \in Client, SkipStop(c) PROVE ReplacedGone'
    BY <1>46 DEF ReplacedGone, Command_of, SkipStop
  <1>47. ASSUME NEW w \in Workspace, EditProject(w) PROVE ReplacedGone'
    BY <1>47 DEF ReplacedGone, Command_of, EditProject
  <1> QED
    BY <1>1, <1>2, <1>3, <1>4, <1>5, <1>6, <1>7, <1>8, <1>9, <1>10, <1>11, <1>12, <1>13, <1>14,
       <1>15, <1>16, <1>17, <1>18, <1>19, <1>20, <1>21, <1>22, <1>23, <1>24, <1>25, <1>26, <1>27,
       <1>28, <1>29, <1>30, <1>31, <1>32, <1>33, <1>34, <1>35, <1>36, <1>37, <1>38, <1>39, <1>40,
       <1>41, <1>42, <1>43, <1>44, <1>45, <1>46, <1>47 DEF Next, ClientStep, OwnerStep, Environment

LEMMA AttachedKept ==
    ASSUME TypeOK, ReplacedGone, Attached, Next
    PROVE  Attached'
  <1> USE DEF configuration, files, owners, finding, listing, signal, process
  <1>1. ASSUME NEW c \in Client, Start(c) PROVE Attached'
    BY <1>1 DEF Attached, Command_of, Start, Goto, Running
  <1>2. ASSUME NEW c \in Client, Load(c) PROVE Attached'
    BY <1>2 DEF TypeOK, Attached, ProcessesOK, Command_of, Load, End, Ended, Running, Goto
  <1>3. ASSUME NEW c \in Client, Authorize(c) PROVE Attached'
    BY <1>3 DEF TypeOK, Attached, ProcessesOK, Command_of, Authorize, End, Ended, Running, Goto
  <1>4. ASSUME NEW c \in Client, Reload(c) PROVE Attached'
    BY <1>4 DEF TypeOK, ReplacedGone, Attached, ConfigurationOK, FilesOK, ProcessesOK, Command_of,
       Reload, End, Ended, Running, Goto
  <1>5. ASSUME NEW c \in Client, Recheck(c) PROVE Attached'
    BY <1>5 DEF TypeOK, Attached, ProcessesOK, Command_of, Recheck, End, Ended, Running, Goto
  <1>6. ASSUME NEW c \in Client, Find(c) PROVE Attached'
    BY <1>6 DEF Attached, Command_of, Find, Goto, Running, ProbeAt
  <1>7. ASSUME NEW c \in Client, Attach(c) PROVE Attached'
    <2>1. /\ UNCHANGED <<target, task>> /\ pc'[c] = "done"
          /\ \A d \in Client : d # c => outcome'[d] = outcome[d] /\ pc'[d] = pc[d]
      BY <1>7 DEF TypeOK, ProcessesOK, Attach, End, Ended, Goto
    <2>2. pc[c] \in Starting
      BY <1>7, FindLabels DEF Attach, Starting
    <2> QED
      BY <2>1, <2>2 DEF ReplacedGone, Attached, Command_of
  <1>8. ASSUME NEW c \in Client, Unanswered(c) PROVE Attached'
    BY <1>8 DEF Attached, Command_of, Unanswered, Goto, Running, Unprobed
  <1>9. ASSUME NEW c \in Client, StartupLock(c) PROVE Attached'
    BY <1>9 DEF Attached, Command_of, StartupLock, Goto, Running
  <1>10. ASSUME NEW c \in Client, Launch(c) PROVE Attached'
    BY <1>10 DEF TypeOK, Attached, ProcessesOK, Command_of, Launch, End, Goto
  <1>11. ASSUME NEW c \in Client, Discard(c) PROVE Attached'
    BY <1>11 DEF Attached, Command_of, Discard, End, Goto
  <1>12. ASSUME NEW c \in Client, Deadline(c) PROVE Attached'
    BY <1>12 DEF Attached, Command_of, Deadline, End, Ended, Goto
  <1>13. ASSUME NEW c \in Client, List(c) PROVE Attached'
    BY <1>13 DEF Attached, Command_of, List, Goto, Running
  <1>14. ASSUME NEW c \in Client, Entry(c) PROVE Attached'
    BY <1>14 DEF Attached, Command_of, Entry, Goto, Running
  <1>15. ASSUME NEW c \in Client, Live(c) PROVE Attached'
    BY <1>15 DEF Attached, Command_of, Live, Goto, Running
  <1>16. ASSUME NEW c \in Client, NotLive(c) PROVE Attached'
    BY <1>16 DEF Attached, Command_of, NotLive, Goto, Running
  <1>17. ASSUME NEW c \in Client, TryLock(c) PROVE Attached'
    BY <1>17 DEF TypeOK, Attached, ProcessesOK, Command_of, TryLock, Goto, Running
  <1>18. ASSUME NEW c \in Client, Unlock(c) PROVE Attached'
    BY <1>18 DEF Attached, Command_of, Unlock, Goto, Running
  <1>19. ASSUME NEW c \in Client, RemoveEntry(c) PROVE Attached'
    BY <1>19 DEF Attached, Command_of, RemoveEntry, Goto, Running
  <1>20. ASSUME NEW c \in Client, Listed(c) PROVE Attached'
    BY <1>20 DEF TypeOK, Attached, ProcessesOK, Command_of, Listed, End, Ended, Running, Goto
  <1>21. ASSUME NEW c \in Client, Send(c) PROVE Attached'
    BY <1>21 DEF TypeOK, Attached, ProcessesOK, Command_of, Send, Goto, Running
  <1>22. ASSUME NEW c \in Client, SentAll(c) PROVE Attached'
    BY <1>22 DEF TypeOK, Attached, ProcessesOK, Command_of, SentAll, End, Ended, Running, Goto
  <1>23. ASSUME NEW c \in Client, Replaced(c) PROVE Attached'
    BY <1>23 DEF Attached, Command_of, Replaced, Goto, Running
  <1>24. ASSUME NEW c \in Client, Withdrawn(c) PROVE Attached'
    BY <1>24 DEF Attached, Command_of, Withdrawn, Goto, Running
  <1>25. ASSUME NEW c \in Client, ApplicationLock(c) PROVE Attached'
    BY <1>25 DEF Attached, Command_of, ApplicationLock, Goto, Running
  <1>26. ASSUME NEW c \in Client, TrustLock(c) PROVE Attached'
    BY <1>26 DEF Attached, Command_of, TrustLock, Goto, Running
  <1>27. ASSUME NEW c \in Client, ReadTrust(c) PROVE Attached'
    BY <1>27 DEF TypeOK, Attached, ProcessesOK, Command_of, ReadTrust, End, Goto
  <1>28. ASSUME NEW c \in Client, WriteTrust(c) PROVE Attached'
    BY <1>28 DEF Attached, Command_of, WriteTrust, Goto, Running
  <1>29. ASSUME NEW c \in Client, LeaveFailed(c) PROVE Attached'
    BY <1>29 DEF Attached, Command_of, LeaveFailed, Leaves, Reply
  <1>30. ASSUME NEW c \in Client, TakeStop(c) PROVE Attached'
    BY <1>30 DEF Attached, Command_of, TakeStop, Reply
  <1>31. ASSUME NEW c \in Client, TakeForce(c) PROVE Attached'
    BY <1>31 DEF Attached, Command_of, TakeForce, Reply
  <1>32. ASSUME NEW c \in Client, Drained(c) PROVE Attached'
    BY <1>32 DEF Attached, Command_of, Drained, Reply
  <1>33. ASSUME NEW c \in Client, StopServing(c) PROVE Attached'
    BY <1>33 DEF Attached, Command_of, StopServing, Reply
  <1>34. ASSUME NEW c \in Client, Exit(c) PROVE Attached'
    BY <1>34 DEF Attached, Command_of, Exit, Leaves, Reply
  <1>35. ASSUME NEW c \in Client, KillClient(c) PROVE Attached'
    BY <1>35 DEF Attached, Command_of, KillClient, End, Goto
  <1>36. ASSUME NEW c \in Client, KillOwner(c) PROVE Attached'
    BY <1>36 DEF Attached, Command_of, KillOwner, Leaves, Reply
  <1>37. ASSUME NEW c \in Client,
            ReadLaunch(c) \/ AcquireLock(c) \/ LoseLock(c) \/
            Bind(c) \/ Serve(c) \/ Ready(c) \/ InitializationFails(c) \/ SkipStop(c) \/
            Abort(c) \/ RemoveEndpoint(c)
     PROVE  Attached'
    BY <1>37 DEF Attached, Command_of, ReadLaunch, AcquireLock, LoseLock, Bind, Serve, Ready,
       InitializationFails, SkipStop, Abort, RemoveEndpoint, Advance
  <1>38. ASSUME NEW w \in Workspace, EditProject(w) PROVE Attached'
    BY <1>38 DEF Attached, Command_of, EditProject
  <1> QED
    BY <1>1, <1>2, <1>3, <1>4, <1>5, <1>6, <1>7, <1>8, <1>9, <1>10, <1>11, <1>12, <1>13, <1>14,
       <1>15, <1>16, <1>17, <1>18, <1>19, <1>20, <1>21, <1>22, <1>23, <1>24, <1>25, <1>26, <1>27,
       <1>28, <1>29, <1>30, <1>31, <1>32, <1>33, <1>34, <1>35, <1>36, <1>37, <1>38 DEF Next,
       ClientStep, OwnerStep, Environment

LEMMA RestartReplacesKept ==
    ASSUME TypeOK, StarterWaits, ReplacedGone, Attached, RestartReplaces, Next
    PROVE  RestartReplaces'
  <1> USE DEF configuration, files, owners, finding, listing, signal, process
  <1>1. ASSUME NEW c \in Client, Load(c) PROVE RestartReplaces'
    BY <1>1 DEF TypeOK, RestartReplaces, ProcessesOK, Command_of, Load, End, Ended, Running, Goto
  <1>2. ASSUME NEW c \in Client, Authorize(c) PROVE RestartReplaces'
    BY <1>2 DEF TypeOK, RestartReplaces, ProcessesOK, Command_of, Authorize, End, Ended, Running,
       Goto
  <1>3. ASSUME NEW c \in Client, Reload(c) PROVE RestartReplaces'
    BY <1>3 DEF TypeOK, RestartReplaces, ProcessesOK, Command_of, Reload, End, Ended, Running, Goto
  <1>4. ASSUME NEW c \in Client, Recheck(c) PROVE RestartReplaces'
    BY <1>4 DEF TypeOK, RestartReplaces, ProcessesOK, Command_of, Recheck, End, Ended, Running, Goto
  <1>5. ASSUME NEW c \in Client, Find(c) PROVE RestartReplaces'
    BY <1>5 DEF Attached, RestartReplaces, Command_of, Find, Goto, Running, ProbeAt
  <1>6. ASSUME NEW c \in Client, Attach(c) PROVE RestartReplaces'
    <2>1. /\ UNCHANGED <<target, task, seen, owner>>
          /\ \A d \in Client : d # c => outcome'[d] = outcome[d]
      BY <1>6 DEF Attach, End, Ended, Goto
    <2>2. pc[c] \in Starting /\ Accepting(seen[c].generation)
      BY <1>6, FindLabels DEF Attach, Answers, Starting
    <2>3. Command_of(c) = "restart" =>
             owner[target[c]] = "gone" /\ seen[c].generation # target[c]
      BY <2>2 DEF ReplacedGone, Accepting
    <2> QED
      BY <2>1, <2>3 DEF RestartReplaces, Command_of
  <1>7. ASSUME NEW c \in Client, Unanswered(c) PROVE RestartReplaces'
    BY <1>7 DEF Attached, RestartReplaces, Command_of, Unanswered, Goto, Running, Unprobed
  <1>8. ASSUME NEW c \in Client, Launch(c) PROVE RestartReplaces'
    <2>1. owner[c] = "none"
      BY <1>8 DEF StarterWaits, Waiting, Launch
    <2>2. /\ UNCHANGED <<target, task, seen>>
          /\ \A d \in Client : d # c => outcome'[d] = outcome[d] /\ owner'[d] = owner[d]
          /\ outcome'[c] # "attached"
      BY <1>8 DEF TypeOK, OwnersOK, ProcessesOK, Attached, Launch, End, Goto
    <2> QED
      BY <2>1, <2>2 DEF RestartReplaces, Attached, Command_of
  <1>9. ASSUME NEW c \in Client, Discard(c) PROVE RestartReplaces'
    BY <1>9 DEF RestartReplaces, Command_of, Discard, End, Goto
  <1>10. ASSUME NEW c \in Client, Deadline(c) PROVE RestartReplaces'
    BY <1>10 DEF RestartReplaces, Command_of, Deadline, End, Ended, Goto
  <1>11. ASSUME NEW c \in Client, Entry(c) PROVE RestartReplaces'
    BY <1>11 DEF Attached, RestartReplaces, Command_of, Entry, Goto, Running
  <1>12. ASSUME NEW c \in Client, Live(c) PROVE RestartReplaces'
    BY <1>12 DEF Attached, RestartReplaces, Command_of, Live, Goto, Running
  <1>13. ASSUME NEW c \in Client, NotLive(c) PROVE RestartReplaces'
    BY <1>13 DEF Attached, RestartReplaces, Command_of, NotLive, Goto, Running
  <1>14. ASSUME NEW c \in Client, Listed(c) PROVE RestartReplaces'
    BY <1>14 DEF TypeOK, RestartReplaces, ProcessesOK, Command_of, Listed, End, Ended, Running, Goto
  <1>15. ASSUME NEW c \in Client, Send(c) PROVE RestartReplaces'
    BY <1>15 DEF Attached, RestartReplaces, Command_of, Send, Goto, Running
  <1>16. ASSUME NEW c \in Client, SentAll(c) PROVE RestartReplaces'
    BY <1>16 DEF TypeOK, RestartReplaces, ProcessesOK, Command_of, SentAll, End, Ended, Running,
       Goto
  <1>17. ASSUME NEW c \in Client, ReadTrust(c) PROVE RestartReplaces'
    BY <1>17 DEF TypeOK, RestartReplaces, ProcessesOK, Command_of, ReadTrust, End, Goto
  <1>18. ASSUME NEW c \in Client, ReadLaunch(c) PROVE RestartReplaces'
    BY <1>18 DEF RestartReplaces, Command_of, ReadLaunch, Advance
  <1>19. ASSUME NEW c \in Client, AcquireLock(c) PROVE RestartReplaces'
    BY <1>19 DEF RestartReplaces, Command_of, AcquireLock, Advance
  <1>20. ASSUME NEW c \in Client, LoseLock(c) PROVE RestartReplaces'
    BY <1>20 DEF RestartReplaces, Command_of, LoseLock, Advance
  <1>21. ASSUME NEW c \in Client, Bind(c) PROVE RestartReplaces'
    BY <1>21 DEF RestartReplaces, Command_of, Bind, Advance
  <1>22. ASSUME NEW c \in Client, Serve(c) PROVE RestartReplaces'
    BY <1>22 DEF RestartReplaces, Command_of, Serve, Advance
  <1>23. ASSUME NEW c \in Client, Ready(c) PROVE RestartReplaces'
    BY <1>23 DEF RestartReplaces, Command_of, Ready, Advance
  <1>24. ASSUME NEW c \in Client, InitializationFails(c) PROVE RestartReplaces'
    BY <1>24 DEF RestartReplaces, Command_of, InitializationFails, Advance
  <1>25. ASSUME NEW c \in Client, LeaveFailed(c) PROVE RestartReplaces'
    BY <1>25 DEF RestartReplaces, Command_of, LeaveFailed, Leaves, Reply
  <1>26. ASSUME NEW c \in Client, TakeStop(c) PROVE RestartReplaces'
    BY <1>26 DEF RestartReplaces, Command_of, TakeStop, Reply
  <1>27. ASSUME NEW c \in Client, TakeForce(c) PROVE RestartReplaces'
    BY <1>27 DEF RestartReplaces, Command_of, TakeForce, Reply
  <1>28. ASSUME NEW c \in Client, Drained(c) PROVE RestartReplaces'
    BY <1>28 DEF RestartReplaces, Command_of, Drained, Reply
  <1>29. ASSUME NEW c \in Client, StopServing(c) PROVE RestartReplaces'
    BY <1>29 DEF RestartReplaces, Command_of, StopServing, Reply
  <1>30. ASSUME NEW c \in Client, Abort(c) PROVE RestartReplaces'
    BY <1>30 DEF RestartReplaces, Command_of, Abort, Advance
  <1>31. ASSUME NEW c \in Client, RemoveEndpoint(c) PROVE RestartReplaces'
    BY <1>31 DEF RestartReplaces, Command_of, RemoveEndpoint, Advance
  <1>32. ASSUME NEW c \in Client, Exit(c) PROVE RestartReplaces'
    BY <1>32 DEF RestartReplaces, Command_of, Exit, Leaves, Reply
  <1>33. ASSUME NEW c \in Client, KillClient(c) PROVE RestartReplaces'
    BY <1>33 DEF RestartReplaces, Command_of, KillClient, End, Goto
  <1>34. ASSUME NEW c \in Client, KillOwner(c) PROVE RestartReplaces'
    BY <1>34 DEF RestartReplaces, Command_of, KillOwner, Leaves, Reply
  <1>35. ASSUME NEW c \in Client,
            Start(c) \/ StartupLock(c) \/ List(c) \/
            TryLock(c) \/ Unlock(c) \/ RemoveEntry(c) \/ Replaced(c) \/ Withdrawn(c) \/
            ApplicationLock(c) \/ TrustLock(c) \/ WriteTrust(c)
     PROVE  RestartReplaces'
    BY <1>35 DEF RestartReplaces, Command_of, Start, StartupLock, List, TryLock, Unlock,
       RemoveEntry, Replaced, Withdrawn, ApplicationLock, TrustLock, WriteTrust, Goto, Running
  <1>36. ASSUME NEW c \in Client, SkipStop(c) PROVE RestartReplaces'
    BY <1>36 DEF RestartReplaces, Command_of, SkipStop
  <1>37. ASSUME NEW w \in Workspace, EditProject(w) PROVE RestartReplaces'
    BY <1>37 DEF RestartReplaces, Command_of, EditProject
  <1> QED
    BY <1>1, <1>2, <1>3, <1>4, <1>5, <1>6, <1>7, <1>8, <1>9, <1>10, <1>11, <1>12, <1>13, <1>14,
       <1>15, <1>16, <1>17, <1>18, <1>19, <1>20, <1>21, <1>22, <1>23, <1>24, <1>25, <1>26, <1>27,
       <1>28, <1>29, <1>30, <1>31, <1>32, <1>33, <1>34, <1>35, <1>36, <1>37 DEF Next, ClientStep,
       OwnerStep, Environment

-----------------------------------------------------------------------------
(* The Trust file *)

LEMMA TrustHeldKept ==
    ASSUME TypeOK, TrustHeld, Next
    PROVE  TrustHeld'
  <1> USE DEF configuration, files, owners, finding, listing, signal, process
  <1>1. ASSUME NEW c \in Client, Start(c) PROVE TrustHeld'
    BY <1>1 DEF TrustHeld, Start, Goto
  <1>2. ASSUME NEW c \in Client, Load(c) PROVE TrustHeld'
    BY <1>2 DEF TypeOK, TrustHeld, ProcessesOK, Load, End, Ended, Goto
  <1>3. ASSUME NEW c \in Client, Authorize(c) PROVE TrustHeld'
    BY <1>3 DEF TypeOK, TrustHeld, ProcessesOK, Authorize, End, Ended, Goto
  <1>4. ASSUME NEW c \in Client, Reload(c) PROVE TrustHeld'
    BY <1>4 DEF TypeOK, TrustHeld, ProcessesOK, Reload, End, Ended, Goto
  <1>5. ASSUME NEW c \in Client, Recheck(c) PROVE TrustHeld'
    BY <1>5 DEF TypeOK, TrustHeld, ProcessesOK, Recheck, End, Ended, Goto
  <1>6. ASSUME NEW c \in Client, Find(c) PROVE TrustHeld'
    BY <1>6 DEF TrustHeld, Find, Goto, ProbeAt, Unprobed
  <1>7. ASSUME NEW c \in Client, Attach(c) PROVE TrustHeld'
    BY <1>7 DEF TrustHeld, Attach, End, Ended, Goto, Unprobed
  <1>8. ASSUME NEW c \in Client, Unanswered(c) PROVE TrustHeld'
    BY <1>8 DEF TrustHeld, Unanswered, Goto, Unprobed
  <1>9. ASSUME NEW c \in Client, StartupLock(c) PROVE TrustHeld'
    BY <1>9 DEF TrustHeld, StartupLock, Goto
  <1>10. ASSUME NEW c \in Client, Launch(c) PROVE TrustHeld'
    BY <1>10 DEF TypeOK, TrustHeld, ProcessesOK, Launch, End, Goto
  <1>11. ASSUME NEW c \in Client, Discard(c) PROVE TrustHeld'
    BY <1>11 DEF TrustHeld, Discard, End, Goto
  <1>12. ASSUME NEW c \in Client, Deadline(c) PROVE TrustHeld'
    BY <1>12 DEF TrustHeld, Deadline, End, Ended, Goto
  <1>13. ASSUME NEW c \in Client, List(c) PROVE TrustHeld'
    BY <1>13 DEF TrustHeld, List, Goto
  <1>14. ASSUME NEW c \in Client, Entry(c) PROVE TrustHeld'
    BY <1>14 DEF TrustHeld, Entry, Goto
  <1>15. ASSUME NEW c \in Client, Live(c) PROVE TrustHeld'
    BY <1>15 DEF TrustHeld, Live, Goto
  <1>16. ASSUME NEW c \in Client, NotLive(c) PROVE TrustHeld'
    BY <1>16 DEF TrustHeld, NotLive, Goto
  <1>17. ASSUME NEW c \in Client, TryLock(c) PROVE TrustHeld'
    BY <1>17 DEF TypeOK, TrustHeld, ProcessesOK, TryLock, Goto
  <1>18. ASSUME NEW c \in Client, Unlock(c) PROVE TrustHeld'
    BY <1>18 DEF TrustHeld, Unlock, Goto
  <1>19. ASSUME NEW c \in Client, RemoveEntry(c) PROVE TrustHeld'
    BY <1>19 DEF TrustHeld, RemoveEntry, Goto
  <1>20. ASSUME NEW c \in Client, Listed(c) PROVE TrustHeld'
    BY <1>20 DEF TypeOK, TrustHeld, ProcessesOK, Listed, End, Ended, Goto
  <1>21. ASSUME NEW c \in Client, Send(c) PROVE TrustHeld'
    BY <1>21 DEF TypeOK, TrustHeld, ProcessesOK, Send, Goto
  <1>22. ASSUME NEW c \in Client, SentAll(c) PROVE TrustHeld'
    BY <1>22 DEF TypeOK, TrustHeld, ProcessesOK, SentAll, End, Ended, Goto
  <1>23. ASSUME NEW c \in Client, Replaced(c) PROVE TrustHeld'
    BY <1>23 DEF TrustHeld, Replaced, Goto
  <1>24. ASSUME NEW c \in Client, Withdrawn(c) PROVE TrustHeld'
    BY <1>24 DEF TrustHeld, Withdrawn, Goto
  <1>25. ASSUME NEW c \in Client, ApplicationLock(c) PROVE TrustHeld'
    BY <1>25 DEF TrustHeld, ApplicationLock, Goto
  <1>26. ASSUME NEW c \in Client, TrustLock(c) PROVE TrustHeld'
    BY <1>26, ConstantAssumption DEF TrustHeld, TrustLock, Goto
  <1>27. ASSUME NEW c \in Client, ReadTrust(c) PROVE TrustHeld'
    BY <1>27 DEF TypeOK, TrustHeld, ProcessesOK, KnowledgeOK, ReadTrust, End, Goto
  <1>28. ASSUME NEW c \in Client, WriteTrust(c) PROVE TrustHeld'
    BY <1>28 DEF TypeOK, TrustHeld, ProcessesOK, WriteTrust, Goto
  <1>29. ASSUME NEW c \in Client, LeaveFailed(c) PROVE TrustHeld'
    BY <1>29 DEF TrustHeld, LeaveFailed, Leaves, Reply
  <1>30. ASSUME NEW c \in Client, TakeStop(c) PROVE TrustHeld'
    BY <1>30 DEF TrustHeld, TakeStop, Reply
  <1>31. ASSUME NEW c \in Client, TakeForce(c) PROVE TrustHeld'
    BY <1>31 DEF TrustHeld, TakeForce, Reply
  <1>32. ASSUME NEW c \in Client, Drained(c) PROVE TrustHeld'
    BY <1>32 DEF TrustHeld, Drained, Reply
  <1>33. ASSUME NEW c \in Client, StopServing(c) PROVE TrustHeld'
    BY <1>33 DEF TrustHeld, StopServing, Reply
  <1>34. ASSUME NEW c \in Client, Exit(c) PROVE TrustHeld'
    BY <1>34 DEF TrustHeld, Exit, Leaves, Reply
  <1>35. ASSUME NEW c \in Client, KillClient(c) PROVE TrustHeld'
    BY <1>35 DEF TypeOK, TrustHeld, ProcessesOK, KillClient, End, Goto
  <1>36. ASSUME NEW c \in Client, KillOwner(c) PROVE TrustHeld'
    BY <1>36 DEF TrustHeld, KillOwner, Leaves, Reply
  <1>37. ASSUME NEW c \in Client,
            ReadLaunch(c) \/ AcquireLock(c) \/ LoseLock(c) \/
            Bind(c) \/ Serve(c) \/ Ready(c) \/ InitializationFails(c) \/ SkipStop(c) \/
            Abort(c) \/ RemoveEndpoint(c)
     PROVE  TrustHeld'
    BY <1>37 DEF TrustHeld, ReadLaunch, AcquireLock, LoseLock, Bind, Serve, Ready,
       InitializationFails, SkipStop, Abort, RemoveEndpoint, Advance
  <1>38. ASSUME NEW w \in Workspace, EditProject(w) PROVE TrustHeld'
    BY <1>38 DEF TrustHeld, EditProject
  <1> QED
    BY <1>1, <1>2, <1>3, <1>4, <1>5, <1>6, <1>7, <1>8, <1>9, <1>10, <1>11, <1>12, <1>13, <1>14,
       <1>15, <1>16, <1>17, <1>18, <1>19, <1>20, <1>21, <1>22, <1>23, <1>24, <1>25, <1>26, <1>27,
       <1>28, <1>29, <1>30, <1>31, <1>32, <1>33, <1>34, <1>35, <1>36, <1>37, <1>38 DEF Next,
       ClientStep, OwnerStep, Environment

-----------------------------------------------------------------------------
(* The invariant *)

LEMMA InitInv == ASSUME Init PROVE IInv
  <1> USE ConstantAssumption DEF Init
  <1>1. ConfigurationOK
    BY DEF ConfigurationOK, Record
  <1>2. FilesOK
    BY DEF FilesOK
  <1>3. OwnersOK
    BY DEF OwnersOK, OwnerPhase
  <1>4. ProcessesOK
    BY DEF ProcessesOK, ClientLabel, Outcome
  <1>5. KnowledgeOK
    BY <1>1 DEF KnowledgeOK, ConfigurationOK
  <1>6. Places
    BY DEF Places, StarterWaits, SessionChosen, EndpointSeen, TrustPlaces, Chosen, Probing
  <1>7. Targets
    BY DEF Targets, FoundRuns, Targeted, Leaving
  <1>8. Holding
    BY DEF Holding, OwnerHolds, ProbeHolds, Locked
  <1>9. Endpoints
    BY DEF Endpoints, EndpointPlace, EndpointOwn, Published
  <1>10. SignalledAreStopped
    BY DEF SignalledAreStopped
  <1>11. Restarts
    BY DEF Restarts, Answered, ReplacedGone, Attached, Leaving, Starting
  <1>12. RestartReplaces
    BY DEF RestartReplaces
  <1>13. TrustHeld
    BY DEF TrustHeld
  <1> QED
    BY <1>1, <1>2, <1>3, <1>4, <1>5, <1>6, <1>7, <1>8, <1>9, <1>10, <1>11, <1>12, <1>13 DEF IInv,
       TypeOK

LEMMA StepInv == ASSUME IInv, [Next]_vars PROVE IInv'
  <1> USE DEF IInv, Places, Targets, Holding, Endpoints, Restarts
  <1>1. CASE Next
    <2>1. TypeOK'
      BY <1>1, ConfigurationOKKept, FilesOKKept, OwnersOKKept, ProcessesOKKept, KnowledgeOKKept DEF
         TypeOK
    <2>2. Places' /\ Targets'
      BY <1>1, StarterWaitsKept, SessionChosenKept, EndpointSeenKept, TrustPlacesKept,
         FoundRunsKept, TargetedKept
    <2>3. Holding' /\ Endpoints'
      BY <1>1, OwnerHoldsKept, ProbeHoldsKept, EndpointPlaceKept, EndpointOwnKept
    <2>4. SignalledAreStopped' /\ Restarts' /\ RestartReplaces' /\ TrustHeld'
      BY <1>1, SignalledAreStoppedKept, AnsweredKept, ReplacedGoneKept, AttachedKept,
         RestartReplacesKept, TrustHeldKept
    <2> QED
      BY <2>1, <2>2, <2>3, <2>4
  <1>2. CASE UNCHANGED vars
    <2> USE <1>2 DEF vars, configuration, files, owners, finding, listing, signal, process
    <2>1. TypeOK'
      BY DEF TypeOK, ConfigurationOK, FilesOK, OwnersOK, ProcessesOK, KnowledgeOK
    <2>2. Places' /\ Targets'
      BY DEF StarterWaits, SessionChosen, EndpointSeen, TrustPlaces, FoundRuns, Targeted, Command_of
    <2>3. Holding' /\ Endpoints'
      BY DEF OwnerHolds, ProbeHolds, EndpointPlace, EndpointOwn
    <2>4. SignalledAreStopped' /\ Restarts' /\ RestartReplaces' /\ TrustHeld'
      BY DEF SignalledAreStopped, Answered, ReplacedGone, Attached, RestartReplaces, TrustHeld,
         Command_of
    <2> QED
      BY <2>1, <2>2, <2>3, <2>4
  <1> QED
    BY <1>1, <1>2

-----------------------------------------------------------------------------
(* What is proved *)

\* Every reachable state of the files, the processes and the Owners satisfies
\* the invariant.
THEOREM Invariance == Spec => []IInv
  <1>1. Init => IInv
    BY InitInv
  <1>2. IInv /\ [Next]_vars => IInv'
    BY StepInv
  <1> QED
    BY <1>1, <1>2, PTL DEF Spec

\* Every variable keeps its type, and every launch file that is left belongs to
\* a generation that has not read it yet, did not start or is gone.
THEOREM TypeCorrect == Spec => []TypeOK
  <1>1. IInv => TypeOK
    BY DEF IInv
  <1> QED
    BY <1>1, Invariance, PTL

\* An Owner that has published its endpoint holds its Session's lock, and no
\* endpoint but its own lies in the Session's place.
THEOREM EndpointOfHolderHolds == Spec => []EndpointOfHolder
  <1>1. Published \subseteq Locked
    BY DEF Published, Locked, OwnerPhase
  <1>2. IInv => EndpointOfHolder
    BY <1>1 DEF IInv, Holding, Endpoints, OwnerHolds, EndpointOwn, EndpointOfHolder
  <1> QED
    BY <1>2, Invariance, PTL

\* An Owner that a command reports as stopped has left its loop.
THEOREM SignalledAreStoppedHolds == Spec => []SignalledAreStopped
  <1>1. IInv => SignalledAreStopped
    BY DEF IInv
  <1> QED
    BY <1>1, Invariance, PTL

\* A restart that succeeds is attached to another generation, and the one it
\* replaces is gone.
THEOREM RestartReplacesHolds == Spec => []RestartReplaces
  <1>1. IInv => RestartReplaces
    BY DEF IInv
  <1> QED
    BY <1>1, Invariance, PTL

\* Only WriteTrust changes the Trust file.
LEMMA OnlyWriteTrust ==
    ASSUME Next, trust' # trust
    PROVE  \E c \in Client : WriteTrust(c)
  <1> USE DEF configuration, files, owners, finding, listing, signal, process
  <1>1. ASSUME NEW c \in Client, ClientStep(c) PROVE WriteTrust(c)
    BY <1>1 DEF ClientStep, Start, Goto, Load, End, Ended, Authorize, Reload, Recheck, Find, Attach,
       Unanswered, StartupLock, Launch, Discard, Deadline, List, Entry, Live, NotLive, TryLock,
       Unlock, RemoveEntry, Listed, Send, SentAll, Replaced, Withdrawn, ApplicationLock, TrustLock,
       ReadTrust, WriteTrust
  <1>2. ASSUME NEW c \in Client, OwnerStep(c) PROVE FALSE
    BY <1>2 DEF OwnerStep, ReadLaunch, Advance, AcquireLock, LoseLock, Bind, Serve, Ready,
       InitializationFails, LeaveFailed, Leaves, Reply, TakeStop, TakeForce, SkipStop, Drained,
       StopServing, Abort, RemoveEndpoint, Exit
  <1>3. CASE Environment
    BY <1>3 DEF Environment, EditProject, KillClient, End, Goto, KillOwner, Leaves, Reply
  <1> QED
    BY <1>1, <1>2, <1>3 DEF Next

\* No Trust command changes what another one recorded of another Workspace.
THEOREM TrustKeptHolds == Spec => TrustKept
  <1> DEFINE Changed(w) ==
               \E c \in Client : Place(c) = w /\ pc[c] = "writeTrust" /\ pc'[c] # "writeTrust"
  <1>1. ASSUME IInv, Next, NEW w \in Workspace, trust'[w] # trust[w] PROVE Changed(w)
    <2>1. PICK c \in Client : WriteTrust(c)
      BY <1>1, OnlyWriteTrust
    <2>2. copy[c] = trust /\ pc[c] = "writeTrust" /\ pc'[c] = "list"
      BY <1>1, <2>1 DEF IInv, TypeOK, ProcessesOK, TrustHeld, WriteTrust, Goto
    <2>3. Place(c) = w
      BY <1>1, <2>1, <2>2 DEF WriteTrust
    <2> QED
      BY <2>2, <2>3
  <1>2. ASSUME UNCHANGED vars, NEW w \in Workspace, trust'[w] # trust[w] PROVE FALSE
    BY <1>2 DEF vars, configuration
  <1>3. IInv /\ [Next]_vars => \A w \in Workspace : trust'[w] # trust[w] => Changed(w)
    BY <1>1, <1>2
  <1>4. IInv /\ [Next]_vars => [\A w \in Workspace : trust'[w] # trust[w] => Changed(w)]_vars
    BY <1>3
  <1> QED
    BY <1>4, Invariance, PTL DEF Spec, TrustKept
=============================================================================
