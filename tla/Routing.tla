-------------------------------- MODULE Routing --------------------------------
(***************************************************************************)
(* Application routing: the registry filter of the driver, which gives     *)
(* processes of one user SarAsio.dll in the place of two classes of the    *)
(* system, and the two objects SarAsio.dll puts there: the enumerator of   *)
(* audio devices and the worker that activates a device by its path.       *)
(*                                                                         *)
(* The host of the ASIO driver changes the configuration and creates the   *)
(* endpoints.  Another process looks a class up, loads the configuration   *)
(* when it makes its enumerator, while the host may be in the middle of    *)
(* writing it, and asks for default endpoints and lists of devices ever    *)
(* after.  The driver may be unloaded while a callback of the registry     *)
(* filter runs, and loaded again.                                          *)
(***************************************************************************)
EXTENDS Integers, Sequences, FiniteSets, SequencesExt, FiniteSetsExt

CONSTANTS
    Users,            \* whose processes use the registry, one is the host's
    HostUser,
    Applications,     \* [path, regexMatch, defaults]: what may be configured
    Matching,         \* <<path, regexMatch>> that match the process's path
    Slots,            \* pairs <<data flow, role>>: what a process may ask for
    MaxEndpoints,     \* bound: endpoints of a configuration
    MaxApplications   \* bound: its applications

Ids == 1..MaxEndpoints
NoId == 0
NoUser == "no user"

ASSUME RoutingAssumption ==
    /\ HostUser \in Users /\ NoUser \notin Users
    /\ Slots \subseteq {"eRender", "eCapture"} \X {"eConsole", "eCommunications", "eMultimedia"}
    /\ MaxEndpoints \in Nat /\ MaxApplications \in Nat
    /\ \A a \in Applications : a.defaults \in [Slots -> Ids \cup {NoId}]

VARIABLES
    config,   \* [endpoints, applications, enableApplicationRouting] of the host
    pc,       \* where the host is in controlPanel: idle, write, reset
    devices,  \* the endpoints the driver has: Windows lists them in an order of its own
    driver,   \* entry, loaded, unloading, unloaded
    filter,   \* [user, starting, cookie, redirects] of the driver extension
    process   \* a process that plays or records, see NoProcess

vars == <<config, pc, devices, driver, filter, process>>
hostVars == <<config, pc>>
driverVars == <<devices, driver, filter>>

System == [id |-> NoId, type |-> "system"]
TypeOf(flow) == IF flow = "eCapture" THEN "Recording" ELSE "Playback"

Endpoints == [id : Ids, type : {"Playback", "Recording"}]
EndpointLists ==
    {s \in BoundedSeq(Endpoints, MaxEndpoints) :
        \A i, j \in DOMAIN s : s[i].id = s[j].id => i = j}
Configurations ==
    [endpoints : EndpointLists, applications : BoundedSeq(Applications, MaxApplications),
     enableApplicationRouting : BOOLEAN]

-----------------------------------------------------------------------------
(* The host                                                                *)

\* controlPanel: what the dialog returns is taken over, and its file opened.
\* A file that can't be opened is written nothing into, which no one is told:
\* the changes are gone with the wrapper that is reset, and nothing happened.
ControlPanel ==
    /\ pc = "idle"
    /\ config' \in Configurations
    /\ pc' = "write"
    /\ UNCHANGED <<driverVars, process>>

WriteFile ==
    /\ pc = "write"
    /\ pc' = "reset"
    /\ UNCHANGED <<config, driverVars, process>>

\* The host answers the reset request: it stops the driver and loads a new
\* wrapper, which reads the file.
Reset ==
    /\ pc = "reset" /\ devices = {}
    /\ pc' = "idle"
    /\ UNCHANGED <<config, driverVars, process>>

\* start and stop of the client.
CreateEndpoints ==
    /\ driver = "loaded" /\ pc = "idle"
    /\ devices' = Range(config.endpoints)
    /\ UNCHANGED <<hostVars, driver, filter, process>>
CloseEndpoints ==
    /\ devices # {}
    /\ devices' = {}
    /\ UNCHANGED <<hostVars, driver, filter, process>>

-----------------------------------------------------------------------------
(* The registry filter                                                     *)

Classes == {"enumerator", "worker"}

\* SarAddAllRegistryRedirects: each class for 32 bit processes, then for 64.
Redirects == <<<<"wow64", "enumerator">>, <<"native", "enumerator">>,
               <<"wow64", "worker">>, <<"native", "worker">>>>

\* A key is in a table once: inserting it again is an error.
InTable(key) == key \in filter.redirects
MayInsert(key) == ~InTable(key)

\* One that can't be added fails DriverEntry, which unloads what it has.
AddRegistryRedirect ==
    /\ driver = "entry"
    /\ \/ LET key == Redirects[Cardinality(filter.redirects) + 1]
              redirects == filter.redirects \cup {key}
          IN /\ MayInsert(key)
             /\ filter' = [filter EXCEPT !.redirects = redirects]
             /\ driver' = IF redirects = Range(Redirects) THEN "loaded" ELSE "entry"
       \/ driver' = "unloading" /\ UNCHANGED filter
    /\ UNCHANGED <<hostVars, devices, process>>

\* SAR_START_REGISTRY_FILTER, under the extension's mutex.  A second start is
\* refused, so that the filter stays the first user's.
MayStartFilterMutant == TRUE
MayStartFilter == ~filter.cookie
CopyProcessUser(user) ==
    /\ driver = "loaded" /\ ~filter.starting /\ MayStartFilter
    /\ filter' = [filter EXCEPT !.user = user, !.starting = TRUE]
    /\ UNCHANGED <<hostVars, devices, driver, process>>
RegisterCallback ==
    /\ filter.starting
    /\ \E registered \in BOOLEAN :
          filter' = [filter EXCEPT !.cookie = @ \/ registered, !.starting = FALSE]
    /\ UNCHANGED <<hostVars, devices, driver, process>>

\* SarUnload: CmUnRegisterCallback waits for the callbacks that run.
InCallback == process.pc \in {"path", "user", "query"}
Unregister ==
    /\ driver = "loaded" /\ devices = {} /\ ~filter.starting /\ ~InCallback
    /\ filter' = [filter EXCEPT !.cookie = FALSE]
    /\ driver' = "unloading"
    /\ UNCHANGED <<hostVars, devices, process>>
ClearedMutant(f) == [f EXCEPT !.user = NoUser]
Cleared(f) == [f EXCEPT !.user = NoUser, !.redirects = {}]
FreeFilter ==
    /\ driver = "unloading"
    /\ filter' = Cleared(filter)
    /\ driver' = "unloaded"
    /\ UNCHANGED <<hostVars, devices, process>>
DriverEntry ==
    /\ driver = "unloaded"
    /\ driver' = "entry"
    /\ UNCHANGED <<hostVars, devices, filter, process>>

-----------------------------------------------------------------------------
(* A process and the classes it is given                                   *)

NoRoute == [slot \in Slots |-> NoId]

\* class: what it looks up.  activating: the look-up is the worker's own.
\* collection: the items of the list of devices it asked for last, if it asked
\* for no default since.  answer: the device it was given last.
NoProcess == [user |-> NoUser, pc |-> "none", class |-> "enumerator", activating |-> FALSE,
              route |-> NoRoute, collection |-> {}, answer |-> System]

StartProcess(user, class) ==
    /\ process.pc = "none"
    /\ process' = [NoProcess EXCEPT !.user = user, !.class = class, !.pc = "lookup"]
    /\ UNCHANGED <<hostVars, driverVars>>

\* A process that is left to the system's class is no process of the model any
\* longer; a worker that is gets the system's default from it.
LeftToSystem ==
    IF process.activating
    THEN [process EXCEPT !.pc = "worker", !.activating = FALSE, !.answer = System]
    ELSE NoProcess

\* The class's key is read: its default value asked for, or enumerated.
RegistryCallback ==
    /\ process.pc = "lookup"
    /\ process' = IF filter.cookie THEN [process EXCEPT !.pc = "path"] ELSE LeftToSystem
    /\ UNCHANGED <<hostVars, driverVars>>

\* The path is copied first, for which there may be no memory.
MatchesPath ==
    /\ process.pc = "path"
    /\ \/ \E table \in {"native", "wow64"} :
             process' = IF InTable(<<table, process.class>>)
                        THEN [process EXCEPT !.pc = "user"] ELSE LeftToSystem
       \/ process' = LeftToSystem
    /\ UNCHANGED <<hostVars, driverVars>>

\* What the process' token tells, if it does.
TokenUsers(user) == {user, NoUser}
MatchesCurrentProcess ==
    /\ process.pc = "user"
    /\ \E user \in TokenUsers(process.user) :
          process' = IF user = filter.user /\ user # NoUser THEN [process EXCEPT !.pc = "query"]
                     ELSE LeftToSystem
    /\ UNCHANGED <<hostVars, driverVars>>

\* The wrapper's path is read instead.  Its key may be missing, and what is
\* read too long for the process's buffer, for which it asks again.
MMDeviceQuery ==
    /\ process.pc = "query"
    /\ \/ process' = [process EXCEPT !.pc = IF process.class = "worker" THEN "worker" ELSE "load"]
       \/ process' = [process EXCEPT !.pc = "lookup"]
       \/ process' = LeftToSystem
    /\ UNCHANGED <<hostVars, driverVars>>

\* A path that is no expression matches where it is the whole path, one that
\* can't be compiled nowhere.
Matches(a) == <<a.path, a.regexMatch>> \in Matching

\* The first application whose expression matches.
Route(c) ==
    LET matching == {i \in DOMAIN c.applications : Matches(c.applications[i])}
    IN IF c.enableApplicationRouting /\ matching # {}
       THEN c.applications[Min(matching)].defaults ELSE NoRoute

\* A file that is being written routes as it will when it is written, or not
\* at all; the one another user has does not.
RoutesOfFile(user) ==
    IF user # HostUser THEN {NoRoute}
    ELSE {Route(config)} \cup (IF pc = "write" THEN {NoRoute} ELSE {})

\* The enumerator's constructor reads it, and makes the system's own object,
\* without which it is useless.
LoadConfig ==
    /\ process.pc = "load"
    /\ \E route \in RoutesOfFile(process.user), made \in BOOLEAN :
          process' = IF made THEN [process EXCEPT !.pc = "enumerator", !.route = route]
                     ELSE LeftToSystem
    /\ UNCHANGED <<hostVars, driverVars>>

\* The active endpoints of a flow or of both, of which some may have gone when
\* they are looked at.
Enumerated(flow) == {d \in devices : flow = "eAll" \/ d.type = TypeOf(flow)}
StillThere(items) == SUBSET items

\* GetDefaultAudioEndpoint: the item with the id of the slot.  That of both
\* flows is no slot: it matches no default of the file and is the system's.
Default(slot, items) ==
    LET found == {d \in items : slot \in Slots /\ d.id = process.route[slot]}
    IN IF found = {} THEN System ELSE CHOOSE d \in found : TRUE

GetDefaultAudioEndpoint(slot) ==
    /\ process.pc = "enumerator" /\ ~process.activating
    /\ \E items \in StillThere(Enumerated(slot[1])) :
          process' = [process EXCEPT !.answer = Default(slot, items), !.collection = {}]
    /\ UNCHANGED <<hostVars, driverVars>>

\* The list is a copy: the items stay in it.
EnumAudioEndpoints(flow) ==
    /\ process.pc = "enumerator" /\ ~process.activating
    /\ \E items \in StillThere(Enumerated(flow)) :
          process' = [process EXCEPT !.collection = items, !.answer = System]
    /\ UNCHANGED <<hostVars, driverVars>>
Item(device) ==
    /\ process.pc = "enumerator" /\ device \in process.collection
    /\ process' = [process EXCEPT !.answer = device]
    /\ UNCHANGED <<hostVars, driverVars>>

\* The worker's Initialize makes an enumerator of whatever class it is given.
Initialize ==
    /\ process.pc = "worker"
    /\ process' = [process EXCEPT !.pc = "lookup", !.class = "enumerator", !.activating = TRUE]
    /\ UNCHANGED <<hostVars, driverVars>>

\* It is given the path of a device, which it hands on, or the name of one of
\* the default ones, which it asks the enumerator for.
DefaultInterface(slot) ==
    /\ process.pc = "enumerator" /\ process.activating /\ slot[2] = "eConsole"
    /\ \E items \in StillThere(Enumerated(slot[1])) :
          process' = [process EXCEPT !.answer = Default(slot, items), !.pc = "worker",
                                     !.activating = FALSE, !.route = NoRoute]
    /\ UNCHANGED <<hostVars, driverVars>>

EndProcess ==
    /\ process.pc \in {"enumerator", "worker"}
    /\ process' = NoProcess
    /\ UNCHANGED <<hostVars, driverVars>>

-----------------------------------------------------------------------------
Init ==
    /\ config = [endpoints |-> <<>>, applications |-> <<>>, enableApplicationRouting |-> FALSE]
    /\ pc = "idle" /\ devices = {}
    /\ driver = "unloaded"
    /\ filter = [user |-> NoUser, starting |-> FALSE, cookie |-> FALSE, redirects |-> {}]
    /\ process = NoProcess

Next ==
    \/ ControlPanel \/ WriteFile \/ Reset
    \/ CreateEndpoints \/ CloseEndpoints
    \/ DriverEntry \/ AddRegistryRedirect \/ Unregister \/ FreeFilter \/ RegisterCallback
    \/ \E user \in Users :
          CopyProcessUser(user) \/ \E class \in Classes : StartProcess(user, class)
    \/ RegistryCallback \/ MatchesPath \/ MatchesCurrentProcess \/ MMDeviceQuery
    \/ LoadConfig \/ Initialize \/ EndProcess
    \/ \E slot \in Slots \cup {<<"eAll", "eConsole">>} : GetDefaultAudioEndpoint(slot)
    \/ \E slot \in Slots : DefaultInterface(slot)
    \/ \E flow \in {"eRender", "eCapture", "eAll"} : EnumAudioEndpoints(flow)
    \/ \E device \in Endpoints : Item(device)

Spec == Init /\ [][Next]_vars

-----------------------------------------------------------------------------
(* Properties                                                              *)

\* The types of the variables, and that a driver that is not loaded has kept
\* nothing, also when DriverEntry failed half way.
TypeOK ==
    /\ config \in Configurations
    /\ pc \in {"idle", "write", "reset"}
    /\ devices \subseteq Endpoints
    /\ driver \in {"entry", "loaded", "unloading", "unloaded"}
    /\ filter \in [user : Users \cup {NoUser}, starting : BOOLEAN, cookie : BOOLEAN,
                   redirects : SUBSET Range(Redirects)]
    /\ driver = "unloaded" => filter.redirects = {} /\ filter.user = NoUser
    /\ process \in [user : Users \cup {NoUser}, class : Classes, activating : BOOLEAN,
                    pc : {"none", "lookup", "path", "user", "query", "load", "enumerator",
                          "worker"},
                    route : [Slots -> Ids \cup {NoId}], collection : SUBSET Endpoints,
                    answer : Endpoints \cup {System}]

\* A callback of the registry filter finds the tables full and the user it
\* compares with, though the driver may be unloading, and a process that is
\* about to be given a wrapper in the place of the system's class still
\* belongs to the user the filter is there for, whoever tried to start it
\* since.
OnlyItsUserIsRedirected ==
    /\ InCallback => /\ filter.cookie /\ filter.user # NoUser
                     /\ filter.redirects = Range(Redirects)
    /\ process.pc = "query" => process.user = filter.user

-----------------------------------------------------------------------------
(* The inductive invariant                                                 *)

\* A driver is loaded with its tables full, and the filter is started by a
\* user, and stopped before the driver goes.
FilterInv ==
    /\ driver = "entry" => filter.redirects # Range(Redirects)
    /\ driver = "loaded" => filter.redirects = Range(Redirects)
    /\ filter.starting \/ filter.cookie => driver = "loaded" /\ filter.user # NoUser

IInv == TypeOK /\ FilterInv /\ OnlyItsUserIsRedirected

=============================================================================
