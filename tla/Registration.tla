------------------------------ MODULE Registration ------------------------------
(***************************************************************************)
(* What Windows gets to see of an endpoint.                                *)
(*                                                                         *)
(* An endpoint is two filters, wave and topology, each with a factory, a   *)
(* descriptor and interfaces in several device classes.  The thread of a   *)
(* create request makes the factories.  A worker writes the properties of  *)
(* the interfaces, copies the filters' names into the descriptors, enables *)
(* the interfaces and answers the request.  An audio client opens filters  *)
(* by name, a name it may know from an earlier time, and follows the       *)
(* connections of pins from one filter to the other.  Meanwhile the ASIO   *)
(* client may close its handle, which disables what is enabled.            *)
(*                                                                         *)
(* One ASIO client is modelled, that sends a create request when the one   *)
(* before is answered; overlapping requests are in SarControl.             *)
(***************************************************************************)
EXTENDS Integers, Sequences, FiniteSetsExt

CONSTANTS
    Endpoints,  \* the client's create requests
    TypeOf,     \* endpoint -> Playback or Recording
    Clients,    \* audio clients, each with one filter open at most
    Nothing     \* no endpoint, no filter, no name

Kinds == {"wave", "topology"}
Filters == Kinds \X Endpoints

\* The worker's values that are no endpoint, and Nothing where a filter or a
\* connection may be.
ASSUME RegistrationAssumption ==
    /\ TypeOf \in [Endpoints -> {"Playback", "Recording"}]
    /\ "none" \notin Endpoints /\ "exit" \notin Endpoints
    /\ Nothing \notin Filters /\ Nothing \notin Filters \X {0, 1}

VARIABLES
    device,   \* none, registered, added, started: the node the installer
              \* registers, the driver's device, and its interface
    client,   \* the ASIO client's handle: new, open, closing, draining, gone
    stage,    \* endpoint -> where it is in its life
    worker,   \* the endpoint the worker has, or "none", "exit"
    factory,  \* filter -> none, made, enabled: its factory and its interfaces
    written,  \* endpoint -> <<kind, category, value>> that were written
    link,     \* filter -> physicalConnectionSymlink of its descriptor
    answer,   \* endpoint -> the answer to its create request
    opened,   \* client -> the filter it has open
    halted    \* the system has stopped

vars == <<device, client, stage, worker, factory, written, link, answer, opened, halted>>
endpointVars == <<stage, factory>>

Registering == {"properties", "links", "enableWave", "enableTopology", "insert", "fail"}

Init ==
    /\ device = "none" /\ client = "new" /\ worker = "none" /\ halted = FALSE
    /\ stage = [e \in Endpoints |-> "absent"]
    /\ factory = [f \in Filters |-> "none"]
    /\ written = [e \in Endpoints |-> {}]
    /\ link = [f \in Filters |-> Nothing]
    /\ answer = [e \in Endpoints |-> "none"]
    /\ opened = [c \in Clients |-> Nothing]

-----------------------------------------------------------------------------
(* Descriptors.  A playback endpoint takes data in at the wave filter's    *)
(* pin 0 and gives it out at the topology filter's pin 1; a recording one  *)
(* the other way.                                                          *)

Pin(kind, n) == <<kind, "pin", n>>
Node(kind, n) == <<kind, "node", n>>

WavePins(type) == IF type = "Recording" THEN <<"out", "in">> ELSE <<"in", "out">>
TopologyPins(type) == IF type = "Recording" THEN <<"out", "in">> ELSE <<"in", "out">>
DataFlow(kind, type, n) ==
    IF kind = "wave" THEN WavePins(type)[n + 1] ELSE TopologyPins(type)[n + 1]

\* The converter of the wave filter, the volume and the mute of the other.
NodeDescriptors(kind) == IF kind = "wave" THEN {Node("wave", 0)}
                         ELSE {Node("topology", 0), Node("topology", 1)}

WaveConnections(type) ==
    LET Between(from, to) == {<<Pin("wave", from), Node("wave", 0)>>,
                              <<Node("wave", 0), Pin("wave", to)>>}
    IN IF type = "Recording" THEN Between(1, 0) ELSE Between(0, 1)

TopologyConnections(type) ==
    LET Between(from, to) ==
            {<<Pin("topology", from), Node("topology", 0)>>,
             <<Node("topology", 0), Node("topology", 1)>>,
             <<Node("topology", 1), Pin("topology", to)>>}
    IN IF type = "Recording" THEN Between(1, 0) ELSE Between(0, 1)

WaveCategories(type) ==
    {"AUDIO", "REALTIME", IF type = "Recording" THEN "CAPTURE" ELSE "RENDER"}
TopologyCategories == {"AUDIO", "TOPOLOGY"}

\* The pin a stream can be opened on, and the one that has the endpoint's name.
WaveProperties == {"globalInstances", "dataFormat", "physicalConnection"}
TopologyProperties == {"name", "physicalConnection"}
Answers(kind, property) ==
    property \in (IF kind = "wave" THEN WaveProperties ELSE TopologyProperties)
PossibleCount(kind, n) ==
    IF Answers(kind, "globalInstances") /\ n = 0 THEN 1 ELSE 0
IsNamed(kind, n) == Answers(kind, "name") /\ n = 1

-----------------------------------------------------------------------------
(* The device, the handle and the create request                           *)

\* The node gets our hardware id and is registered last: a step that fails
\* leaves none.
CreateDeviceNode ==
    /\ device = "none"
    /\ device' = "registered"
    /\ UNCHANGED <<client, endpointVars, worker, written, link, answer, opened, halted>>

SarKsDeviceAdd ==
    /\ device = "registered"
    /\ device' = "added"
    /\ UNCHANGED <<client, endpointVars, worker, written, link, answer, opened, halted>>

SarKsDevicePostStart ==
    /\ device = "added"
    /\ device' = "started"
    /\ UNCHANGED <<client, endpointVars, worker, written, link, answer, opened, halted>>

\* The client finds the device by its interface, and sets the layout.
OpenControlDevice ==
    /\ device = "started" /\ client = "new"
    /\ client' = "open"
    /\ UNCHANGED <<device, endpointVars, worker, written, link, answer, opened, halted>>

\* The context is in the table from the opening of the handle to its cleanup.
InTable == client = "open"

\* SarIrpDeviceControl finds it there.  The client sends a request once.
MayRequest(e) ==
    /\ InTable /\ answer[e] = "none"
    /\ \A d \in Endpoints : answer[d] # "pending"

\* SarReadUserBuffer: the request is too short, or not there to be read.
RequestUnreadable(e) ==
    /\ MayRequest(e)
    /\ answer' = [answer EXCEPT ![e] = "failure"]
    /\ UNCHANGED <<device, client, endpointVars, worker, written, link, opened, halted>>

SarCreateEndpoint(e) ==
    /\ MayRequest(e)
    /\ stage' = [stage EXCEPT ![e] = "building"]
    /\ answer' = [answer EXCEPT ![e] = "pending"]
    /\ UNCHANGED <<device, client, worker, factory, written, link, opened, halted>>

\* SarDeleteEndpoint deletes both factories, with what they had enabled.
WithoutFactories(e) == [f \in Filters |-> IF f[2] = e THEN "none" ELSE factory[f]]

\* A name can't be copied.
BuildFails(e) ==
    /\ stage[e] = "building"
    /\ stage' = [stage EXCEPT ![e] = "freed"]
    /\ factory' = WithoutFactories(e)
    /\ answer' = [answer EXCEPT ![e] = "failure"]
    /\ UNCHANGED <<device, client, worker, written, link, opened, halted>>

\* The status of the first factory is forgotten, and the cache of either is
\* updated before the status of the second is looked at: a factory that could
\* not be made is a null pointer there.
CreateFilterFactories(e) ==
    /\ stage[e] = "building"
    /\ \/ /\ factory' = [f \in Filters |-> IF f[2] = e THEN "made" ELSE factory[f]]
          /\ stage' = [stage EXCEPT ![e] = "queued"]
          /\ UNCHANGED halted
       \/ halted' = TRUE /\ UNCHANGED endpointVars
    /\ UNCHANGED <<device, client, worker, written, link, answer, opened>>

-----------------------------------------------------------------------------
(* SarProcessPendingEndpoints                                              *)

StartWork(e) ==
    /\ stage[e] = "queued" /\ worker \in {"none", "exit"}
    /\ worker' = e
    /\ stage' = [stage EXCEPT ![e] = "properties"]
    /\ UNCHANGED <<device, client, factory, written, link, answer, opened, halted>>

\* SarSetDeviceInterfaceProperties: three look-ups, and what is written then.
\* One of the first eight that fails is the last; of the others it is the
\* status of the last that is returned.
Steps == <<"alias", "key", "guid", "FriendlyName", "CLSID", "MSEP", "MSEP\\0",
           "EventMode", "Association", "DeviceDesc", "SarId">>
Needed == {"FriendlyName", "CLSID", "EventMode", "SarId"}
FatalMutant == 1..7
Fatal == 1..8
Executed(failing) ==
    IF failing \cap Fatal = {} THEN DOMAIN Steps ELSE 1..Min(failing \cap Fatal)
Succeeds(failing) == Max(Executed(failing)) \notin failing
Values(failing) == {Steps[n] : n \in Executed(failing) \ failing} \cap Needed

\* The categories, in the order of the calls.
Interfaces(type) ==
    <<<<"wave", "AUDIO">>, <<"wave", "REALTIME">>,
      <<"wave", IF type = "Playback" THEN "RENDER" ELSE "CAPTURE">>,
      <<"topology", "AUDIO">>, <<"topology", "TOPOLOGY">>>>

Failures == {{}} \cup {{n} : n \in DOMAIN Steps} \cup {{9, 10}}

SetProperties(e) ==
    /\ stage[e] = "properties"
    /\ \E n \in 1..5, failing \in Failures :
          LET last == IF Succeeds(failing) THEN 5 ELSE n
              Written(i) == IF i = n THEN Values(failing) ELSE Needed
          IN /\ written' = [written EXCEPT ![e] =
                    UNION {{Append(Interfaces(TypeOf[e])[i], v) : v \in Written(i)} : i \in 1..last}]
             /\ stage' = [stage EXCEPT ![e] = IF Succeeds(failing) THEN "links" ELSE "fail"]
    /\ UNCHANGED <<device, client, worker, factory, link, answer, opened, halted>>

\* Each descriptor gets the name of its own filter; whoever asks one filter
\* for a connection is given the name in the other's descriptor.
CopyLinks(e) ==
    /\ stage[e] = "links"
    /\ link' = [f \in Filters |-> IF f[2] = e THEN f ELSE link[f]]
    /\ stage' = [stage EXCEPT ![e] = "enableWave"]
    /\ UNCHANGED <<device, client, worker, factory, written, answer, opened, halted>>

EnableFactory(kind, e, now, next) ==
    /\ stage[e] = now
    /\ \/ /\ factory' = [factory EXCEPT ![<<kind, e>>] = "enabled"]
          /\ stage' = [stage EXCEPT ![e] = next]
       \/ stage' = [stage EXCEPT ![e] = "fail"] /\ UNCHANGED factory
    /\ UNCHANGED <<device, client, worker, written, link, answer, opened, halted>>

Enable(e) ==
    \/ EnableFactory("wave", e, "enableWave", "enableTopology")
    \/ EnableFactory("topology", e, "enableTopology", "insert")

\* The endpoint becomes findable after its interfaces are enabled.
Insert(e) ==
    /\ stage[e] = "insert"
    /\ stage' = [stage EXCEPT ![e] = "active"]
    /\ answer' = [answer EXCEPT ![e] = "success"]
    /\ worker' = "exit"
    /\ UNCHANGED <<device, client, factory, written, link, opened, halted>>

Fail(e) ==
    /\ stage[e] = "fail"
    /\ stage' = [stage EXCEPT ![e] = "freed"]
    /\ factory' = WithoutFactories(e)
    /\ answer' = [answer EXCEPT ![e] = "failure"]
    /\ worker' = "exit"
    /\ UNCHANGED <<device, client, written, link, opened, halted>>

-----------------------------------------------------------------------------
(* References.  The handle, the worker and every open filter hold the      *)
(* context; its list and every open filter hold the endpoint.              *)

UsersOf(e, filters) == {c \in Clients : filters[c] \in Kinds \X {e}}

ContextHeld(c, w, st, filters) ==
    c # "gone" \/ w # "none" \/ (\E e \in Endpoints : st[e] = "queued")
    \/ \E d \in Clients : filters[d] # Nothing

\* What is left when client, worker, stages and open filters become these:
\* SarDeleteEndpoint for an endpoint that lost its last reference, and for
\* those on the list of a context that did (SarDeleteControlContext).
AfterReleaseMutant(c, w, st, fac, filters) ==
    LET Dead(e) == st[e] = "released" /\ UsersOf(e, filters) = {}
    IN /\ stage' = [e \in Endpoints |-> IF Dead(e) THEN "freed" ELSE st[e]]
       /\ factory' = [f \in Filters |-> IF Dead(f[2]) THEN "none" ELSE fac[f]]
AfterRelease(c, w, st, fac, filters) ==
    LET Dead(e) == \/ st[e] = "released" /\ UsersOf(e, filters) = {}
                   \/ st[e] = "active" /\ ~ContextHeld(c, w, st, filters)
    IN /\ stage' = [e \in Endpoints |-> IF Dead(e) THEN "freed" ELSE st[e]]
       /\ factory' = [f \in Filters |-> IF Dead(f[2]) THEN "none" ELSE fac[f]]

ExitWork ==
    /\ worker = "exit" /\ \A e \in Endpoints : stage[e] # "queued"
    /\ worker' = "none"
    /\ AfterRelease(client, "none", stage, factory, opened)
    /\ UNCHANGED <<device, client, written, link, answer, opened, halted>>

\* SarOrphanControlContext: first the table forgets the context.
CloseControlDevice ==
    /\ InTable
    /\ client' = "closing"
    /\ UNCHANGED <<device, endpointVars, worker, written, link, answer, opened, halted>>

TakeEndpoints ==
    /\ client = "closing"
    /\ client' = "draining"
    /\ stage' = [e \in Endpoints |-> IF stage[e] = "active" THEN "orphaning" ELSE stage[e]]
    /\ UNCHANGED <<device, worker, factory, written, link, answer, opened, halted>>

SarOrphanEndpoint(e) ==
    /\ stage[e] = "orphaning"
    /\ AfterRelease(client, worker, [stage EXCEPT ![e] = "released"],
                    [f \in Filters |-> IF f[2] = e THEN "made" ELSE factory[f]], opened)
    /\ UNCHANGED <<device, client, worker, written, link, answer, opened, halted>>

ReleaseContext ==
    /\ client = "draining" /\ \A e \in Endpoints : stage[e] # "orphaning"
    /\ client' = "gone"
    /\ AfterRelease("gone", worker, stage, factory, opened)
    /\ UNCHANGED <<device, worker, written, link, answer, opened, halted>>

\* Windows removes a device at once when nobody has it open and no request is
\* pending, else at the next start.
InUse ==
    \/ client # "new" /\ ContextHeld(client, worker, stage, opened)
    \/ \E e \in Endpoints : answer[e] = "pending"
RemoveDeviceNode ==
    /\ device # "none" /\ ~InUse
    /\ device' = "none"
    /\ UNCHANGED <<client, endpointVars, worker, written, link, answer, opened, halted>>

-----------------------------------------------------------------------------
(* Audio clients                                                           *)

\* SarGetEndpointFromIrp: the lists of the contexts in the table.
Found(e) == InTable /\ stage[e] = "active"

\* A name leads to its factory whether or not its interfaces are enabled.
SarKsFilterCreate(c, f) ==
    /\ opened[c] = Nothing /\ factory[f] # "none" /\ Found(f[2])
    /\ opened' = [opened EXCEPT ![c] = f]
    /\ UNCHANGED <<device, client, endpointVars, worker, written, link, answer, halted>>

SarKsFilterClose(c) ==
    /\ opened[c] # Nothing
    /\ opened' = [opened EXCEPT ![c] = Nothing]
    /\ AfterRelease(client, worker, stage, factory, [opened EXCEPT ![c] = Nothing])
    /\ UNCHANGED <<device, client, worker, written, link, answer, halted>>

Next ==
    /\ ~halted
    /\ \/ CreateDeviceNode \/ RemoveDeviceNode \/ SarKsDeviceAdd \/ SarKsDevicePostStart
       \/ OpenControlDevice \/ CloseControlDevice
       \/ TakeEndpoints \/ ReleaseContext \/ ExitWork
       \/ \E e \in Endpoints :
             \/ RequestUnreadable(e) \/ SarCreateEndpoint(e) \/ BuildFails(e)
             \/ CreateFilterFactories(e)
             \/ StartWork(e) \/ SetProperties(e) \/ CopyLinks(e) \/ Enable(e)
             \/ Insert(e) \/ Fail(e) \/ SarOrphanEndpoint(e)
       \/ \E c \in Clients :
             (\E f \in Filters : SarKsFilterCreate(c, f)) \/ SarKsFilterClose(c)

Spec == Init /\ [][Next]_vars

-----------------------------------------------------------------------------
(* Properties                                                              *)

\* getPhysicalConnection of both descriptors: the filter and the pin that a
\* pin of an opened filter is connected to.
WavePhysicalConnection(e, n) ==
    IF n = 1 THEN <<link[<<"topology", e>>], 0>> ELSE Nothing
TopologyPhysicalConnectionMutant(e, n) ==
    IF n = 0 THEN <<link[<<"topology", e>>], 1>> ELSE Nothing
TopologyPhysicalConnection(e, n) ==
    IF n = 0 THEN <<link[<<"wave", e>>], 1>> ELSE Nothing
PhysicalConnection(f, n) ==
    IF f[1] = "wave" THEN WavePhysicalConnection(f[2], n)
    ELSE TopologyPhysicalConnection(f[2], n)

\* An endpoint that can be opened was registered as a whole: what Windows
\* needs is written for every category of both filters, both are enabled, and
\* the create request was answered with success.  (control.cpp
\* SarSetDeviceInterfaceProperties, SarProcessPendingEndpoints; utility.cpp
\* SarGetEndpointFromIrp.)
RegisteredAsAWhole ==
    \A e \in Endpoints : Found(e) =>
        /\ answer[e] = "success"
        /\ \A kind \in Kinds : factory[<<kind, e>>] = "enabled"
        /\ \A category \in WaveCategories(TypeOf[e]), v \in Needed :
              <<"wave", category, v>> \in written[e]
        /\ \A category \in TopologyCategories, v \in Needed :
              <<"topology", category, v>> \in written[e]

\* A factory belongs to an endpoint that is not freed and is enabled only on
\* the way to an answer or after success; a request answered with failure, or
\* a context without a reference, leaves none.  (control.cpp
\* SarDeleteEndpoint, entry.cpp SarOrphanControlContext,
\* SarDeleteControlContext.)
NothingLeftBehind ==
    /\ \A f \in Filters :
          /\ (factory[f] = "none") = (stage[f[2]] \in {"absent", "building", "freed"})
          /\ factory[f] = "enabled" => stage[f[2]] \in Registering \cup {"active", "orphaning"}
          /\ answer[f[2]] = "failure" => stage[f[2]] \in {"absent", "freed"}
    /\ \A c \in Clients : opened[c] # Nothing => factory[opened[c]] # "none"
    /\ ~ContextHeld(client, worker, stage, opened) =>
          \A f \in Filters : factory[f] = "none"

-----------------------------------------------------------------------------
(* The inductive invariant: the stage of an endpoint decides the rest.     *)

Stages == {"absent", "building", "queued", "active", "orphaning", "released", "freed"}
          \cup Registering

TypeOK ==
    /\ device \in {"none", "registered", "added", "started"}
    /\ client \in {"new", "open", "closing", "draining", "gone"}
    /\ stage \in [Endpoints -> Stages]
    /\ worker \in Endpoints \cup {"none", "exit"}
    /\ factory \in [Filters -> {"none", "made", "enabled"}]
    /\ written \in [Endpoints -> SUBSET
                      (Kinds \X {"AUDIO", "REALTIME", "RENDER", "CAPTURE", "TOPOLOGY"} \X Needed)]
    /\ link \in [Filters -> Filters \cup {Nothing}]
    /\ answer \in [Endpoints -> {"none", "pending", "success", "failure"}]
    /\ opened \in [Clients -> Filters \cup {Nothing}]
    /\ halted \in BOOLEAN

\* Both factories are there from the end of the building on; they are enabled
\* one after the other, and disabled together.
FactoryOf(e) ==
    LET wave == factory[<<"wave", e>>]
        topology == factory[<<"topology", e>>]
    IN /\ stage[e] \in {"absent", "building", "freed"} => wave = "none" /\ topology = "none"
       /\ stage[e] \in {"queued", "properties", "links", "enableWave", "released"} =>
             wave = "made" /\ topology = "made"
       /\ stage[e] = "enableTopology" => wave = "enabled" /\ topology = "made"
       /\ stage[e] = "fail" => wave # "none" /\ topology # "none"
       /\ stage[e] \in {"insert", "active", "orphaning"} =>
             wave = "enabled" /\ topology = "enabled"
FactoryInv == \A e \in Endpoints : FactoryOf(e)

AnswerInv ==
    \A e \in Endpoints :
        /\ stage[e] = "absent" => answer[e] \in {"none", "failure"}
        /\ stage[e] \in {"building", "queued"} \cup Registering => answer[e] = "pending"
        /\ stage[e] \in {"active", "orphaning", "released"} => answer[e] = "success"
        /\ stage[e] = "freed" => answer[e] \in {"success", "failure"}

\* The worker has the one endpoint that is being registered.
WorkerInv == \A e \in Endpoints : stage[e] \in Registering <=> worker = e

\* Who holds what: an open filter its endpoint, the list of a held context an
\* active one, the orphaning thread those it took off the list.
HolderInv ==
    /\ \A c \in Clients :
          opened[c] # Nothing => stage[opened[c][2]] \in {"active", "orphaning", "released"}
    /\ \A e \in Endpoints :
          /\ stage[e] = "active" => ContextHeld(client, worker, stage, opened)
          /\ stage[e] = "orphaning" => client = "draining"
          /\ stage[e] = "released" => UsersOf(e, opened) # {}

\* The properties of every interface are written before any is enabled.
WrittenInv ==
    \A e \in Endpoints :
        stage[e] \in {"links", "enableWave", "enableTopology", "insert", "active"} =>
            \A i \in DOMAIN Interfaces(TypeOf[e]), v \in Needed :
                Append(Interfaces(TypeOf[e])[i], v) \in written[e]

\* Both descriptors have their names before an interface is enabled.
LinkInv ==
    \A e \in Endpoints :
        stage[e] \in {"enableWave", "enableTopology", "insert", "active"} =>
            \A kind \in Kinds : link[<<kind, e>>] = <<kind, e>>

IInv ==
    /\ TypeOK /\ FactoryInv /\ AnswerInv /\ WorkerInv /\ HolderInv
    /\ WrittenInv /\ LinkInv

-----------------------------------------------------------------------------
\* Reachability in a relation, over the sets that are closed under it.
Reaches(from, to, edges) ==
    LET places == {x[1] : x \in edges} \cup {x[2] : x \in edges}
    IN \A S \in SUBSET places :
          (from \in S /\ \A x \in edges : x[1] \in S => x[2] \in S) => to \in S

\* From any filter of an endpoint that can be opened, the physical
\* connections lead to the other and back; with the connections inside the
\* filters there is a way from the pin that streams to the pin that has the
\* endpoint's name for playback, from that one to the other for recording,
\* past every node, and the data flows of both pins agree with it.
\* (SarWaveFilterDescriptor, SarTopologyFilterDescriptor; pin.cpp
\* SarKsPinGetName, SarKsPinGetGlobalInstancesCount.)
ConnectionsLeadBack ==
    \A e \in Endpoints : Found(e) =>
        LET type == TypeOf[e]
            To(x) == PhysicalConnection(<<x[1], e>>, x[2])
            Connected == {x \in Kinds \X {0, 1} : To(x) # Nothing}
            Across == {<<Pin(x[1], x[2]), Pin(To(x)[1][1], To(x)[2])>> : x \in Connected}
            edges == WaveConnections(type) \cup TopologyConnections(type) \cup Across
            streams == CHOOSE p \in Kinds \X {0, 1} : PossibleCount(p[1], p[2]) = 1
            named == CHOOSE p \in Kinds \X {0, 1} : IsNamed(p[1], p[2])
            ends == IF type = "Playback" THEN <<streams, named>> ELSE <<named, streams>>
        IN /\ \A x \in Connected : To(x)[1][2] = e
           /\ Across # {} /\ \A x \in Across : <<x[2], x[1]>> \in Across
           /\ \A node \in UNION {NodeDescriptors(kind) : kind \in Kinds} :
                 /\ Reaches(Pin(ends[1][1], ends[1][2]), node, edges)
                 /\ Reaches(node, Pin(ends[2][1], ends[2][2]), edges)
           /\ DataFlow(ends[1][1], type, ends[1][2]) = "in"
           /\ DataFlow(ends[2][1], type, ends[2][2]) = "out"
=============================================================================
