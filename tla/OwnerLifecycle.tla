-------------------------- MODULE OwnerLifecycle --------------------------
(***************************************************************************)
(* How CLI processes find, start, stop and replace Owners, and how Trust   *)
(* decides which Owners may run (src/src/session.rs, the beginning and the *)
(* end of run_owner in src/src/session/owner_runtime.rs, and               *)
(* src/src/configuration/trust.rs).                                        *)
(*                                                                         *)
(* All agreement is through the file system: an endpoint file, a startup   *)
(* lock and an Owner lock per Session, a launch file per generation, and   *)
(* one Trust file.  Every process may stop between two system calls.       *)
(*                                                                         *)
(* A Client is one CLI process with one command; the generation it may     *)
(* start, which is a fresh random name in the code, has the name of the    *)
(* Client.  A Declaration is what the project and user configuration say   *)
(* of a Workspace's one server; it determines the Session identity.        *)
(* Deadlines may expire at any moment.                                     *)
(***************************************************************************)
EXTENDS Naturals, FiniteSets

CONSTANTS
    Client, NoClient,
    Workspace,
    Declaration, NoDeclaration,
    Home,              \* the Workspace of a Declaration
    Controlled,        \* Declarations with fields the project controls
    InitialProject,    \* what each Workspace declares at the start,
    Granted,           \* and the Workspaces where that is trusted
    Mixes,             \* the commands the Clients may come with
    NoFile, NoRecord, Denied, Free,
    MaxDisturbances    \* bound on edits of the project, killed processes and
                       \* probes that a live Owner answers too late, together

TrustCommand == {"grant", "deny", "revoke"}
Command      == {"query", "status", "stop", "force", "restart"} \cup TrustCommand

ASSUME ConstantAssumption ==
    /\ NoClient \notin Client
    /\ NoDeclaration \notin Declaration
    /\ {NoRecord, Denied} \cap Declaration = {} /\ NoRecord # Denied
    /\ Home \in [Declaration -> Workspace]
    /\ Controlled \subseteq Declaration /\ Granted \subseteq Workspace
    /\ Mixes \subseteq [Client -> [command: Command, place: Workspace]]
    /\ InitialProject \in [Workspace -> Declaration]
    /\ \A w \in Workspace : Home[InitialProject[w]] = w
    /\ MaxDisturbances \in Nat

VARIABLES
    \* files and the locks on them
    project,      \* what .lspctl.toml makes of the Workspace's server
    trust,        \* trust-v1.json
    trustLock, application,
    endpoint, startup, lock, launch,
    \* Owners
    owner, stops, stopper,
    \* CLI processes
    task, pc,
    session,      \* the Session a process is concerned with, and its Owner serves
    seen,         \* the endpoint it read last
    todo, found,                      \* live_endpoints
    target, signalled, refused,       \* Stop requests
    copy,         \* the Trust state it read under the lock
    outcome,
    disturbances  \* how often the environment has interfered

configuration == <<project, trust, trustLock, application>>
files   == <<endpoint, startup, lock, launch>>
owners  == <<owner, stops, stopper>>
finding == <<session, seen>>
listing == <<todo, found>>
signal  == <<target, signalled, refused>>
process == <<task, pc, outcome, copy>>
vars    == <<configuration, files, owners, finding, listing, signal, process, disturbances>>

-----------------------------------------------------------------------------
(* Data *)

EndpointState == {"starting", "initializing", "ready", "draining", "failed"}
Endpoint == [generation: Client, state: EndpointState]

\* The Owner lock is held by an Owner for its life, and for an instant by a
\* CLI process that wants to know whether it is free.
Holder == [role: {"owner", "probe"}, of: Client]
Owns(g)   == [role |-> "owner", of |-> g]
Probes(c) == [role |-> "probe", of |-> c]

ASSUME FreeAssumption == Free \notin Holder

OwnerPhase == {"none", "spawned", "loaded", "locked", "starting", "initializing", "ready",
               "draining", "failing", "ended", "aborted", "removed", "gone"}

Command_of(c) == task[c].command
Place(c)      == task[c].place

\* The listener accepts connections, or will soon, or never again.
Accepting(g) == owner[g] \in {"initializing", "ready", "draining", "failing", "ended"}
Dead(g)      == owner[g] \in {"aborted", "removed", "gone"}

\* authorize_server: what the project controls needs a Trust grant for exactly that.
Authorized(d) == d \in Controlled => trust[Home[d]] = d

Disturb == disturbances < MaxDisturbances /\ disturbances' = disturbances + 1

Goto(c, label) == pc' = [pc EXCEPT ![c] = label]

\* A process that ends gives back the locks it holds on the files in locks.
Without(holders, c) == [x \in DOMAIN holders |-> IF holders[x] = c THEN NoClient ELSE holders[x]]

End(c, result) ==
    /\ Goto(c, "done")
    /\ outcome' = [outcome EXCEPT ![c] = result]
    /\ startup' = Without(startup, c)
    /\ application' = Without(application, c)
    /\ trustLock' = IF trustLock = c THEN NoClient ELSE trustLock

\* What End leaves alone, and a step that does not end its process.
Ended   == UNCHANGED <<project, trust, endpoint, lock, launch, task, copy>>
Running == UNCHANGED <<outcome, task>>

Init ==
    /\ project = InitialProject
    /\ trust = [w \in Workspace |-> IF w \in Granted THEN project[w] ELSE NoRecord]
    /\ trustLock = NoClient
    /\ application = [w \in Workspace |-> NoClient]
    /\ endpoint = [d \in Declaration |-> NoFile]
    /\ startup = [d \in Declaration |-> NoClient]
    /\ lock = [d \in Declaration |-> Free]
    /\ launch = {}
    /\ owner = [c \in Client |-> "none"]
    /\ stops = [c \in Client |-> {}]
    /\ stopper = [c \in Client |-> NoClient]
    /\ task \in Mixes
    /\ pc = [c \in Client |-> "idle"]
    /\ session = [c \in Client |-> NoDeclaration]
    /\ seen = [c \in Client |-> NoFile]
    /\ todo = [c \in Client |-> {}]
    /\ found = [c \in Client |-> {}]
    /\ target = [c \in Client |-> NoClient]
    /\ signalled = [c \in Client |-> {}]
    /\ refused = [c \in Client |-> FALSE]
    /\ copy = [c \in Client |-> trust]
    /\ outcome = [c \in Client |-> "none"]
    /\ disturbances = 0

-----------------------------------------------------------------------------
(* Authorization *)

\* Session commands look at what runs; the others read the configuration first.
Start(c) ==
    /\ pc[c] = "idle"
    /\ Goto(c, IF Command_of(c) \in {"query"} \cup TrustCommand THEN "load" ELSE "list")
    /\ Running
    /\ UNCHANGED <<configuration, files, owners, finding, listing, signal, copy, disturbances>>

\* A grant is refused at once when the digest it names is not the project's.
Load(c) ==
    /\ pc[c] = "load"
    /\ LET w == IF Command_of(c) = "restart" THEN Home[session[target[c]]] ELSE Place(c) IN
       session' = [session EXCEPT ![c] = project[w]]
    /\ \/ /\ Goto(c, IF Command_of(c) \in TrustCommand THEN "applicationLock" ELSE "authorize")
          /\ Running
          /\ UNCHANGED <<configuration, files, copy>>
       \/ /\ Command_of(c) = "grant"
          /\ End(c, "blocked") /\ Ended
    /\ UNCHANGED <<owners, seen, listing, signal, disturbances>>

\* A replacement waits for the Owner it stopped before it looks for another.
Authorize(c) ==
    /\ pc[c] = "authorize"
    /\ IF Authorized(session[c])
       THEN /\ Goto(c, IF Command_of(c) = "restart" THEN "waitExit" ELSE "find")
            /\ Running
            /\ UNCHANGED <<configuration, files, copy>>
       ELSE End(c, "blocked") /\ Ended
    /\ UNCHANGED <<owners, finding, listing, signal, disturbances>>

\* reauthorize_project_launch reads the configuration again ...
Reload(c) ==
    /\ pc[c] = "reload"
    /\ IF session[c] \in Controlled /\ project[Home[session[c]]] # session[c]
       THEN End(c, "blocked") /\ Ended
       ELSE /\ Goto(c, IF session[c] \in Controlled THEN "recheck" ELSE "startupLock")
            /\ Running
            /\ UNCHANGED <<configuration, files, copy>>
    /\ UNCHANGED <<owners, finding, listing, signal, disturbances>>

\* ... and then the Trust file.
Recheck(c) ==
    /\ pc[c] = "recheck"
    /\ IF Authorized(session[c])
       THEN /\ Goto(c, "startupLock") /\ Running
            /\ UNCHANGED <<configuration, files, copy>>
       ELSE End(c, "blocked") /\ Ended
    /\ UNCHANGED <<owners, finding, listing, signal, disturbances>>

-----------------------------------------------------------------------------
(* connect_or_start_owner *)

\* The three places that read the Session's endpoint, the label of the probe
\* that follows each, and where to go on when the Owner does not answer it.
ProbeAt  == [find |-> "probe", relook |-> "reprobe", await |-> "probeStarted"]
Unprobed == [probe |-> "reload", reprobe |-> "launch", probeStarted |-> "await"]

\* Only the process that waits for the Owner it started looks for a failure.
Find(c) ==
    /\ pc[c] \in DOMAIN ProbeAt
    /\ seen' = [seen EXCEPT ![c] = endpoint[session[c]]]
    /\ Goto(c, IF seen'[c] = NoFile THEN Unprobed[ProbeAt[pc[c]]]
               ELSE IF pc[c] = "await" /\ seen'[c].state = "failed" THEN "discard"
               ELSE ProbeAt[pc[c]])
    /\ Running
    /\ UNCHANGED <<configuration, files, owners, session, listing, signal, copy, disturbances>>

\* probe_endpoint succeeds or fails.
Answers(g) == Accepting(g) /\ UNCHANGED disturbances
Silent(g)  == \/ Dead(g) /\ UNCHANGED disturbances
              \/ Accepting(g) /\ Disturb

\* The command goes on with the Owner that answers, whoever started it.
Attach(c) ==
    /\ pc[c] \in DOMAIN Unprobed
    /\ Answers(seen[c].generation)
    /\ End(c, "attached") /\ Ended
    /\ UNCHANGED <<owners, finding, listing, signal>>

Unanswered(c) ==
    /\ pc[c] \in DOMAIN Unprobed
    /\ Silent(seen[c].generation)
    /\ seen' = [seen EXCEPT ![c] = NoFile]
    /\ Goto(c, Unprobed[pc[c]]) /\ Running
    /\ UNCHANGED <<configuration, files, owners, session, listing, signal, copy>>

StartupLock(c) ==
    /\ pc[c] = "startupLock"
    /\ startup[session[c]] = NoClient
    /\ startup' = [startup EXCEPT ![session[c]] = c]
    /\ Goto(c, "relook") /\ Running
    /\ UNCHANGED <<configuration, endpoint, lock, launch, owners, finding, listing, signal, copy, disturbances>>

\* The launch file with the settings and the token of the generation is written
\* before the Owner process is started, and stays when that fails.
Launch(c) ==
    /\ pc[c] = "launch"
    /\ launch' = launch \cup {c}
    /\ UNCHANGED task
    /\ \/ /\ owner' = [owner EXCEPT ![c] = "spawned"]
          /\ Goto(c, "await")
          /\ UNCHANGED <<configuration, endpoint, startup, lock, outcome>>
       \/ /\ End(c, "unavailable")
          /\ UNCHANGED <<project, trust, endpoint, lock, owner>>
    /\ UNCHANGED <<stops, stopper, finding, listing, signal, copy, disturbances>>

\* The failure that is read is reported, and its file removed by name.
Discard(c) ==
    /\ pc[c] = "discard"
    /\ endpoint' = [endpoint EXCEPT ![session[c]] = NoFile]
    /\ End(c, "failed")
    /\ UNCHANGED <<project, trust, lock, launch, task, copy>>
    /\ UNCHANGED <<owners, finding, listing, signal, disturbances>>

\* Every wait but that for a reply has a deadline.
Deadline(c) ==
    /\ pc[c] \in {"startupLock", "await", "waitExit", "applicationLock", "trustLock"}
    /\ End(c, "unavailable") /\ Ended
    /\ UNCHANGED <<owners, finding, listing, signal, disturbances>>

-----------------------------------------------------------------------------
(* live_endpoints *)

List(c) ==
    /\ pc[c] = "list"
    /\ todo' = [todo EXCEPT ![c] = {d \in Declaration : endpoint[d] # NoFile}]
    /\ Goto(c, "entry") /\ Running
    /\ UNCHANGED <<configuration, files, owners, finding, found, signal, copy, disturbances>>

\* A file that is gone again, or cannot be read, is treated as a stale one.
Entry(c) ==
    /\ pc[c] = "entry"
    /\ \E d \in todo[c] :
          /\ todo' = [todo EXCEPT ![c] = @ \ {d}]
          /\ session' = [session EXCEPT ![c] = d]
          /\ seen' = [seen EXCEPT ![c] = endpoint[d]]
    /\ Goto(c, IF seen'[c] = NoFile THEN "tryLock" ELSE "probeEntry") /\ Running
    /\ UNCHANGED <<configuration, files, owners, found, signal, copy, disturbances>>

Live(c) ==
    /\ pc[c] = "probeEntry"
    /\ Answers(seen[c].generation)
    /\ found' = [found EXCEPT ![c] = @ \cup {seen[c].generation}]
    /\ seen' = [seen EXCEPT ![c] = NoFile]
    /\ Goto(c, "entry") /\ Running
    /\ UNCHANGED <<configuration, files, owners, session, todo, signal, copy>>

NotLive(c) ==
    /\ pc[c] = "probeEntry"
    /\ Silent(seen[c].generation)
    /\ seen' = [seen EXCEPT ![c] = NoFile]
    /\ Goto(c, "tryLock") /\ Running
    /\ UNCHANGED <<configuration, files, owners, session, listing, signal, copy>>

\* Mutant: a lock that is held is taken for free.
TryLockAnyway(c) ==
    /\ pc[c] \in {"tryLock", "tryExit"}
    /\ Goto(c, IF pc[c] = "tryLock" THEN "removeEntry" ELSE "find") /\ Running
    /\ UNCHANGED <<configuration, files, owners, finding, listing, signal, copy, disturbances>>

\* owner_lock_is_free takes the lock to see whether it can, and lets it go.
TryLock(c) ==
    /\ pc[c] \in {"tryLock", "tryExit"}
    /\ LET d == IF pc[c] = "tryLock" THEN session[c] ELSE session[target[c]] IN
       IF lock[d] = Free
       THEN /\ lock' = [lock EXCEPT ![d] = Probes(c)]
            /\ Goto(c, IF pc[c] = "tryLock" THEN "unlock" ELSE "unlockExit")
       ELSE /\ UNCHANGED lock
            /\ Goto(c, IF pc[c] = "tryLock" THEN "entry" ELSE "waitExit")
    /\ Running
    /\ UNCHANGED <<configuration, endpoint, startup, launch, owners, finding, listing, signal, copy, disturbances>>

Unlock(c) ==
    /\ pc[c] \in {"unlock", "unlockExit"}
    /\ LET d == IF pc[c] = "unlock" THEN session[c] ELSE session[target[c]] IN
       lock' = [lock EXCEPT ![d] = Free]
    /\ Goto(c, IF pc[c] = "unlock" THEN "removeEntry" ELSE "find") /\ Running
    /\ UNCHANGED <<configuration, endpoint, startup, launch, owners, finding, listing, signal, copy, disturbances>>

RemoveEntry(c) ==
    /\ pc[c] = "removeEntry"
    /\ endpoint' = [endpoint EXCEPT ![session[c]] = NoFile]
    /\ Goto(c, "entry") /\ Running
    /\ UNCHANGED <<configuration, startup, lock, launch, owners, finding, listing, signal, copy, disturbances>>

\* What the command does with the Owners that answered.  A Session command
\* needs exactly one, by its Workspace or by its generation; a Trust command
\* stops all of its Workspace.
Listed(c) ==
    /\ pc[c] = "entry" /\ todo[c] = {}
    /\ LET here == {g \in found[c] : Home[session[g]] = Place(c)} IN
       \E chosen \in {here} \cup {{g} : g \in found[c]} :
          /\ Command_of(c) \in TrustCommand => chosen = here
          /\ found' = [found EXCEPT ![c] = chosen]
          /\ IF \/ Command_of(c) = "status"
                \/ Command_of(c) \notin TrustCommand /\ Cardinality(chosen) # 1
             THEN End(c, "listed") /\ Ended
             ELSE /\ Goto(c, "send") /\ Running
                  /\ UNCHANGED <<configuration, files, copy>>
    /\ UNCHANGED <<owners, finding, todo, signal, disturbances>>

-----------------------------------------------------------------------------
(* Stop requests *)

\* The reply to a Stop has no deadline; a connection that is refused or closed
\* is a failure.
Send(c) ==
    /\ pc[c] = "send"
    /\ \E g \in found[c] :
          /\ found' = [found EXCEPT ![c] = @ \ {g}]
          /\ target' = [target EXCEPT ![c] = g]
          /\ \/ /\ Accepting(g)
                /\ stops' = [stops EXCEPT ![g] = @ \cup {c}]
                /\ Goto(c, "reply")
                /\ UNCHANGED refused
             \/ /\ Dead(g)
                /\ refused' = [refused EXCEPT ![c] = TRUE]
                /\ UNCHANGED <<stops, pc>>
    /\ Running
    /\ UNCHANGED <<configuration, files, owner, stopper, finding, todo, signalled, copy, disturbances>>

SentAll(c) ==
    /\ pc[c] = "send" /\ found[c] = {}
    /\ IF Command_of(c) = "restart" /\ ~refused[c]
       THEN /\ Goto(c, "load") /\ Running
            /\ UNCHANGED <<configuration, files, copy>>
       ELSE End(c, IF refused[c] THEN "unavailable" ELSE "stopped") /\ Ended
    /\ UNCHANGED <<owners, finding, listing, signal, disturbances>>

\* An Owner answers the Stops of the processes in S, with success those in won.
Reply(g, S, won) ==
    LET waiting == {c \in S \cap Client : pc[c] = "reply" /\ target[c] = g} IN
    /\ pc' = [c \in Client |-> IF c \in waiting THEN "send" ELSE pc[c]]
    /\ signalled' = [c \in Client |-> signalled[c] \cup (IF c \in waiting \cap won THEN {g} ELSE {})]
    /\ refused' = [c \in Client |-> refused[c] \/ c \in waiting \ won]
    /\ UNCHANGED target

\* wait_for_owner_exit: another generation answers, or the endpoint is gone and
\* the lock free.
Replaced(c) ==
    /\ pc[c] = "waitExit"
    /\ LET file == endpoint[session[target[c]]] IN
       /\ file # NoFile
       /\ file.generation # target[c] /\ Accepting(file.generation)
    /\ Goto(c, "find") /\ Running
    /\ UNCHANGED <<configuration, files, owners, finding, listing, signal, copy, disturbances>>

Withdrawn(c) ==
    /\ pc[c] = "waitExit"
    /\ endpoint[session[target[c]]] = NoFile
    /\ Goto(c, "tryExit") /\ Running
    /\ UNCHANGED <<configuration, files, owners, finding, listing, signal, copy, disturbances>>

-----------------------------------------------------------------------------
(* Trust commands *)

\* The Application lock of the Workspace is held to the end of the command ...
ApplicationLock(c) ==
    /\ pc[c] = "applicationLock"
    /\ application[Place(c)] = NoClient
    /\ application' = [application EXCEPT ![Place(c)] = c]
    /\ Goto(c, "trustLock") /\ Running
    /\ UNCHANGED <<project, trust, trustLock, files, owners, finding, listing, signal, copy, disturbances>>

\* Mutant: the Trust lock is not waited for.
TrustLockAnyway(c) ==
    /\ pc[c] = "trustLock"
    /\ trustLock' = c
    /\ Goto(c, "readTrust") /\ Running
    /\ UNCHANGED <<project, trust, application, files, owners, finding, listing, signal, copy, disturbances>>

\* ... and the Trust lock while the file is read, changed and written whole.
TrustLock(c) ==
    /\ pc[c] = "trustLock"
    /\ trustLock = NoClient
    /\ trustLock' = c
    /\ Goto(c, "readTrust") /\ Running
    /\ UNCHANGED <<project, trust, application, files, owners, finding, listing, signal, copy, disturbances>>

\* A grant over a Denial needs a flag.
ReadTrust(c) ==
    /\ pc[c] = "readTrust"
    /\ copy' = [copy EXCEPT ![c] = trust]
    /\ UNCHANGED task
    /\ \/ /\ Goto(c, "writeTrust")
          /\ UNCHANGED <<outcome, configuration, files>>
       \/ /\ Command_of(c) = "grant" /\ trust[Place(c)] = Denied
          /\ End(c, "blocked")
          /\ UNCHANGED <<project, trust, endpoint, lock, launch>>
    /\ UNCHANGED <<owners, finding, listing, signal, disturbances>>

WriteTrust(c) ==
    /\ pc[c] = "writeTrust"
    /\ trust' = [copy[c] EXCEPT ![Place(c)] =
                    CASE Command_of(c) = "grant"  -> session[c]
                      [] Command_of(c) = "deny"   -> Denied
                      [] Command_of(c) = "revoke" -> NoRecord]
    /\ trustLock' = NoClient
    /\ Goto(c, "list") /\ Running
    /\ UNCHANGED <<project, application, files, owners, finding, listing, signal, copy, disturbances>>

-----------------------------------------------------------------------------
(* Owners *)

\* An Owner's step, without an answer to anybody.
Advance(g, from, to) ==
    /\ owner[g] = from
    /\ owner' = [owner EXCEPT ![g] = to]
    /\ UNCHANGED <<configuration, finding, listing, process, disturbances>>

Publish(g, state) ==
    /\ endpoint' = [endpoint EXCEPT ![session[g]] = [generation |-> g, state |-> state]]
    /\ UNCHANGED <<startup, lock, launch>>

\* Mutant: the launch file is read and left where it is.
ReadLaunchOnly(g) ==
    /\ Advance(g, "spawned", "loaded")
    /\ UNCHANGED <<files, stops, stopper, signal>>

\* The launch file is removed by the Owner that has read it.
ReadLaunch(g) ==
    /\ Advance(g, "spawned", "loaded")
    /\ launch' = launch \ {g}
    /\ UNCHANGED <<endpoint, startup, lock, stops, stopper, signal>>

\* Mutant: a generation replaces the lock of another one.
AcquireLockAnyway(g) ==
    /\ Advance(g, "loaded", "locked")
    /\ lock' = [lock EXCEPT ![session[g]] = Owns(g)]
    /\ UNCHANGED <<endpoint, startup, launch, stops, stopper, signal>>

\* acquire_owner_lock tries once; whoever holds the lock, the process exits.
AcquireLock(g) ==
    /\ Advance(g, "loaded", "locked")
    /\ lock[session[g]] = Free
    /\ lock' = [lock EXCEPT ![session[g]] = Owns(g)]
    /\ UNCHANGED <<endpoint, startup, launch, stops, stopper, signal>>

LoseLock(g) ==
    /\ Advance(g, "loaded", "gone")
    /\ lock[session[g]] # Free
    /\ UNCHANGED <<files, stops, stopper, signal>>

\* The listener is bound before the first endpoint is written, and serves
\* after the second.
Bind(g) ==
    /\ Advance(g, "locked", "starting") /\ Publish(g, "starting")
    /\ UNCHANGED <<stops, stopper, signal>>

Serve(g) ==
    /\ Advance(g, "starting", "initializing") /\ Publish(g, "initializing")
    /\ UNCHANGED <<stops, stopper, signal>>

\* LspRuntime::start takes its time, and may fail.
Ready(g) ==
    /\ Advance(g, "initializing", "ready") /\ Publish(g, "ready")
    /\ UNCHANGED <<stops, stopper, signal>>

InitializationFails(g) ==
    /\ Advance(g, "initializing", "failing") /\ Publish(g, "failed")
    /\ UNCHANGED <<stops, stopper, signal>>

\* What ends an Owner answers every Stop it has; its lock goes with it.
Leaves(g) ==
    /\ owner' = [owner EXCEPT ![g] = "gone"]
    /\ stops' = [stops EXCEPT ![g] = {}]
    /\ stopper' = [stopper EXCEPT ![g] = NoClient]
    /\ Reply(g, stops[g] \cup {stopper[g]}, {})
    /\ lock' = [lock EXCEPT ![session[g]] = IF @ = Owns(g) THEN Free ELSE @]
    /\ UNCHANGED <<configuration, finding, listing, startup, launch, task, copy, outcome>>

\* The endpoint of a generation that failed stays, for its starter to read.
LeaveFailed(g) ==
    /\ owner[g] = "failing"
    /\ Leaves(g)
    /\ UNCHANGED <<endpoint, disturbances>>

\* Mutant: a Stop is answered with success as soon as it is accepted.
TakeStopEarly(g) ==
    /\ owner[g] \in {"ready", "draining"}
    /\ \E c \in stops[g] :
          /\ Command_of(c) # "force"
          /\ stops' = [stops EXCEPT ![g] = @ \ {c}]
          /\ Reply(g, {c}, {c})
    /\ owner' = [owner EXCEPT ![g] = "draining"]
    /\ Publish(g, "draining")
    /\ UNCHANGED <<configuration, stopper, finding, listing, task, copy, outcome, disturbances>>

\* A first graceful Stop drains; another is refused as long as it does.
TakeStop(g) ==
    /\ owner[g] \in {"ready", "draining"}
    /\ \E c \in stops[g] :
          /\ Command_of(c) # "force"
          /\ stops' = [stops EXCEPT ![g] = @ \ {c}]
          /\ IF owner[g] = "ready"
             THEN stopper' = [stopper EXCEPT ![g] = c] /\ UNCHANGED <<pc, signal>>
             ELSE Reply(g, {c}, {}) /\ UNCHANGED stopper
    /\ owner' = [owner EXCEPT ![g] = "draining"]
    /\ Publish(g, "draining")
    /\ UNCHANGED <<configuration, finding, listing, task, copy, outcome, disturbances>>

\* A forced Stop ends the server at once and answers a graceful one as well.
TakeForce(g) ==
    /\ owner[g] \in {"ready", "draining"}
    /\ \E c \in stops[g] :
          /\ Command_of(c) = "force"
          /\ stops' = [stops EXCEPT ![g] = @ \ {c}]
          /\ Reply(g, {c, stopper[g]}, {c, stopper[g]})
    /\ stopper' = [stopper EXCEPT ![g] = NoClient]
    /\ owner' = [owner EXCEPT ![g] = "ended"]
    /\ Publish(g, "draining")
    /\ UNCHANGED <<configuration, finding, listing, task, copy, outcome, disturbances>>

\* A Stop whose process is gone is passed over.
SkipStop(g) ==
    /\ owner[g] \in {"ready", "draining"}
    /\ \E c \in stops[g] :
          /\ pc[c] # "reply"
          /\ stops' = [stops EXCEPT ![g] = @ \ {c}]
    /\ UNCHANGED <<configuration, files, owner, stopper, finding, listing, signal, process, disturbances>>

\* graceful_shutdown is over, and the Stop that asked for it is answered.
Drained(g) ==
    /\ owner[g] = "draining"
    /\ owner' = [owner EXCEPT ![g] = "ended"]
    /\ stopper' = [stopper EXCEPT ![g] = NoClient]
    /\ Reply(g, {stopper[g]}, {stopper[g]})
    /\ UNCHANGED <<configuration, files, stops, finding, listing, task, copy, outcome, disturbances>>

\* The idle timeout, the end of the language server or a transport failure.
StopServing(g) ==
    /\ owner[g] \in {"ready", "draining"}
    /\ owner' = [owner EXCEPT ![g] = "ended"]
    /\ stopper' = [stopper EXCEPT ![g] = NoClient]
    /\ Reply(g, {stopper[g]}, {})
    /\ UNCHANGED <<configuration, files, stops, finding, listing, task, copy, outcome, disturbances>>

\* The listener is aborted, the endpoint removed by name, the lock dropped.
Abort(g) ==
    /\ Advance(g, "ended", "aborted")
    /\ UNCHANGED <<files, stops, stopper, signal>>

RemoveEndpoint(g) ==
    /\ Advance(g, "aborted", "removed")
    /\ endpoint' = [endpoint EXCEPT ![session[g]] = NoFile]
    /\ UNCHANGED <<startup, lock, launch, stops, stopper, signal>>

Exit(g) ==
    /\ owner[g] = "removed"
    /\ Leaves(g)
    /\ UNCHANGED <<endpoint, disturbances>>

-----------------------------------------------------------------------------
(* The environment *)

EditProject(w) ==
    /\ Disturb
    /\ \E d \in Declaration \ {project[w]} : Home[d] = w /\ project' = [project EXCEPT ![w] = d]
    /\ UNCHANGED <<trust, trustLock, application, files, owners, finding, listing, signal,
                   process>>

\* The locks of a killed process are freed by the operating system; the
\* Owners it started live on, and so do the files it wrote.
KillClient(c) ==
    /\ pc[c] \notin {"idle", "done"}
    /\ Disturb
    /\ End(c, "killed")
    /\ lock' = [d \in Declaration |-> IF lock[d] = Probes(c) THEN Free ELSE lock[d]]
    /\ UNCHANGED <<project, trust, endpoint, launch, task, copy>>
    /\ UNCHANGED <<owners, finding, listing, signal>>

KillOwner(g) ==
    /\ owner[g] \notin {"none", "gone"}
    /\ Disturb
    /\ Leaves(g)
    /\ UNCHANGED <<endpoint>>

-----------------------------------------------------------------------------
(* Specification *)

ClientStep(c) ==
    \/ Start(c) \/ Load(c) \/ Authorize(c) \/ Reload(c) \/ Recheck(c)
    \/ Find(c) \/ Attach(c) \/ Unanswered(c) \/ Deadline(c)
    \/ StartupLock(c) \/ Launch(c) \/ Discard(c)
    \/ List(c) \/ Entry(c) \/ Live(c) \/ NotLive(c) \/ TryLock(c) \/ Unlock(c) \/ RemoveEntry(c)
    \/ Listed(c) \/ Send(c) \/ SentAll(c) \/ Replaced(c) \/ Withdrawn(c)
    \/ ApplicationLock(c) \/ TrustLock(c) \/ ReadTrust(c) \/ WriteTrust(c)

OwnerStep(g) ==
    \/ ReadLaunch(g) \/ AcquireLock(g) \/ LoseLock(g) \/ Bind(g) \/ Serve(g)
    \/ Ready(g) \/ InitializationFails(g) \/ LeaveFailed(g)
    \/ TakeStop(g) \/ TakeForce(g) \/ SkipStop(g) \/ Drained(g) \/ StopServing(g)
    \/ Abort(g) \/ RemoveEndpoint(g) \/ Exit(g)

Environment ==
    \/ \E c \in Client : KillClient(c) \/ KillOwner(c)
    \/ \E w \in Workspace : EditProject(w)

Next == Environment \/ \E c \in Client : ClientStep(c) \/ OwnerStep(c)

Spec == Init /\ [][Next]_vars

-----------------------------------------------------------------------------
(* Properties *)

ClientLabel ==
    {"idle", "load", "authorize", "find", "probe", "reload", "recheck", "startupLock", "relook",
     "reprobe", "launch", "await", "probeStarted", "discard", "list", "entry",
     "probeEntry", "tryLock", "unlock", "removeEntry", "send", "reply", "waitExit", "tryExit",
     "unlockExit", "applicationLock", "trustLock", "readTrust", "writeTrust", "done"}

Outcome == {"none", "attached", "failed", "blocked", "unavailable", "listed", "stopped", "killed"}

Record == Declaration \cup {NoRecord, Denied}

ConfigurationOK ==
    /\ project \in [Workspace -> Declaration]
    /\ trust \in [Workspace -> Record]
    /\ trustLock \in Client \cup {NoClient}
    /\ application \in [Workspace -> Client \cup {NoClient}]

\* A launch file holds the token of a generation, and is gone when the Owner
\* that reads it has begun.
FilesOK ==
    /\ endpoint \in [Declaration -> Endpoint \cup {NoFile}]
    /\ startup \in [Declaration -> Client \cup {NoClient}]
    /\ lock \in [Declaration -> Holder \cup {Free}]
    /\ launch \subseteq {g \in Client : owner[g] \in {"none", "spawned", "gone"}}

OwnersOK ==
    /\ owner \in [Client -> OwnerPhase]
    /\ stops \in [Client -> SUBSET Client]
    /\ stopper \in [Client -> Client \cup {NoClient}]

ProcessesOK ==
    /\ task \in Mixes
    /\ pc \in [Client -> ClientLabel]
    /\ refused \in [Client -> BOOLEAN]
    /\ outcome \in [Client -> Outcome]
    /\ disturbances \in 0..MaxDisturbances

KnowledgeOK ==
    /\ session \in [Client -> Declaration \cup {NoDeclaration}]
    /\ seen \in [Client -> Endpoint \cup {NoFile}]
    /\ todo \in [Client -> SUBSET Declaration]
    /\ found \in [Client -> SUBSET Client]
    /\ target \in [Client -> Client \cup {NoClient}]
    /\ signalled \in [Client -> SUBSET Client]
    /\ copy \in [Client -> [Workspace -> Record]]

\* The type of every variable, and the end of every launch file.
TypeOK == ConfigurationOK /\ FilesOK /\ OwnersOK /\ ProcessesOK /\ KnowledgeOK

Published == {"starting", "initializing", "ready", "draining", "failing", "ended", "aborted"}

\* While an Owner serves a Session nobody else does: it holds the Session's
\* lock, and a CLI process that finds an endpoint finds this Owner's, never one
\* that a slower or dying generation has put in its place (acquire_owner_lock,
\* write_endpoint and the end of run_owner).
EndpointOfHolder ==
    \A g \in Client : owner[g] \in Published =>
        /\ lock[session[g]] = Owns(g)
        /\ endpoint[session[g]] # NoFile => endpoint[session[g]].generation = g

\* What a command reports as stopped is past its loop and its server shut down,
\* however the Stop met another Stop, an idle timeout or a crash
\* (signal_workspace_owners, session stop and the control arm of run_owner).
SignalledAreStopped ==
    \A c, g \in Client : g \in signalled[c] =>
        owner[g] \in {"ended", "aborted", "removed", "gone"}

\* A restart that succeeds ends with another generation than the one it was
\* asked to replace, which is gone by then (restart_session and
\* wait_for_owner_exit).
RestartReplaces ==
    \A c \in Client : Command_of(c) = "restart" /\ outcome[c] = "attached" =>
        seen[c].generation # target[c] /\ owner[target[c]] = "gone"

\* The Trust file is one for all Workspaces and is written whole: no command
\* changes what another one recorded of another Workspace (update_trust_state).
TrustKept ==
    [][\A w \in Workspace : trust'[w] # trust[w] =>
          \E c \in Client : Place(c) = w /\ pc[c] = "writeTrust" /\ pc'[c] # "writeTrust"]_vars

\* "revoke or Denial stops matching owners" (src/docs/adr/0002-bind-project-
\* trust-to-server-declarations.md:3): when such a command is over and says
\* that it stopped what it found, no Owner of its Workspace serves with a
\* Declaration that is not trusted.
RevocationStops ==
    \A c, g \in Client :
        /\ Command_of(c) \in {"deny", "revoke"} /\ outcome[c] = "stopped"
        /\ session[g] \in Controlled /\ Home[session[g]] = Place(c)
        /\ trust[Place(c)] # session[g]
        => owner[g] # "ready"

\* "retry: after_change" is to be answered by making a change and retrying
\* (src/skills/lspctl/SKILL.md:108): the failure a command reports is that of
\* the Owner it started, not of one that failed before the change.
FailureIsOwn ==
    \A c \in Client : outcome[c] = "failed" => seen[c].generation = c
=============================================================================
