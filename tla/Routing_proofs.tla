---------------------------- MODULE Routing_proofs ----------------------------
(* Safety of Routing: who is redirected, and what an unload leaves. *)
EXTENDS Routing, FiniteSetTheorems, WellFoundedInduction, TLAPS

-----------------------------------------------------------------------------
(* The redirects, the lists and the routes                                 *)

LEMMA LeastElement ==
    ASSUME NEW S \in SUBSET Nat, S # {}
    PROVE  \E x \in S : \A y \in S : x <= y
<1>. DEFINE R == {p \in Nat \X Nat : p[1] < p[2]}
<1>1. IsWellFoundedOn(R, Nat)
  BY NatLessThanWellFounded DEF OpToRel
<1>2. \E x \in S : \A y \in S : ~(<<y, x>> \in R)
  BY <1>1, WFMin
<1>3. ASSUME NEW x \in Nat, NEW y \in Nat, ~(<<y, x>> \in R)
      PROVE  x <= y
  <2>1. ~(y < x)
    BY <1>3
  <2>. QED BY <2>1
<1>. HIDE DEF R
<1>. QED BY <1>2, <1>3

\* The tables' keys are four.
LEMMA RedirectKeys ==
    /\ Range(Redirects) = {<<"wow64", "enumerator">>, <<"native", "enumerator">>,
                           <<"wow64", "worker">>, <<"native", "worker">>}
    /\ IsFiniteSet(Range(Redirects)) /\ Cardinality(Range(Redirects)) = 4
    /\ \A i \in 1..4 : Redirects[i] \in Range(Redirects)
<1>. DEFINE a == <<"wow64", "enumerator">>
            b == <<"native", "enumerator">>
            c == <<"wow64", "worker">>
            d == <<"native", "worker">>
<1>1. /\ Redirects[1] = a /\ Redirects[2] = b /\ Redirects[3] = c /\ Redirects[4] = d
      /\ DOMAIN Redirects = 1..4
  BY DEF Redirects
<1>2. a # b /\ a # c /\ a # d /\ b # c /\ b # d /\ c # d
  OBVIOUS
<1>. HIDE DEF a, b, c, d
<1>3. Range(Redirects) = {a, b, c, d}
  BY <1>1 DEF Range
<1>4. IsFiniteSet({}) /\ Cardinality({}) = 0
  BY FS_EmptySet
<1>5. IsFiniteSet({a}) /\ Cardinality({a}) = 1
  BY FS_Singleton
<1>6. IsFiniteSet({a, b}) /\ Cardinality({a, b}) = 2
  <2>1. {a, b} = {a} \cup {b} /\ b \notin {a}
    BY <1>2
  <2>. QED BY <1>5, <2>1, FS_AddElement
<1>7. IsFiniteSet({a, b, c}) /\ Cardinality({a, b, c}) = 3
  <2>1. {a, b, c} = {a, b} \cup {c} /\ c \notin {a, b}
    BY <1>2
  <2>. QED BY <1>6, <2>1, FS_AddElement
<1>8. IsFiniteSet({a, b, c, d}) /\ Cardinality({a, b, c, d}) = 4
  <2>1. {a, b, c, d} = {a, b, c} \cup {d} /\ d \notin {a, b, c}
    BY <1>2
  <2>. QED BY <1>7, <2>1, FS_AddElement
<1>9. \A i \in 1..4 : Redirects[i] \in Range(Redirects)
  BY <1>1 DEF Range
<1>10. /\ a = <<"wow64", "enumerator">> /\ b = <<"native", "enumerator">>
       /\ c = <<"wow64", "worker">> /\ d = <<"native", "worker">>
  BY DEF a, b, c, d
<1>. QED BY <1>3, <1>8, <1>9, <1>10

\* SarAddAllRegistryRedirects has a next key until the tables are full.
LEMMA NextRedirect ==
    ASSUME NEW S \in SUBSET Range(Redirects), S # Range(Redirects)
    PROVE  Redirects[Cardinality(S) + 1] \in Range(Redirects)
<1>1. IsFiniteSet(S) /\ Cardinality(S) <= 4 /\ Cardinality(S) # 4
  BY RedirectKeys, FS_Subset
<1>2. Cardinality(S) \in Nat
  BY <1>1, FS_CardinalityType
<1>3. Cardinality(S) + 1 \in 1..4
  BY <1>1, <1>2
<1>. QED BY <1>3, RedirectKeys

LEMMA RouteTyped ==
    ASSUME NEW c \in Configurations
    PROVE  Route(c) \in [Slots -> Ids \cup {NoId}]
<1>. DEFINE matching == {i \in DOMAIN c.applications : Matches(c.applications[i])}
<1>1. NoRoute \in [Slots -> Ids \cup {NoId}]
  BY DEF NoRoute
<1>2. c.applications \in BoundedSeq(Applications, MaxApplications)
  BY DEF Configurations
<1>3. PICK n \in 0..MaxApplications : c.applications \in [1..n -> Applications]
  BY <1>2 DEF BoundedSeq, SeqOf
<1>4. CASE c.enableApplicationRouting /\ matching # {}
  <2>1. matching \in SUBSET Nat
    BY <1>3, RoutingAssumption
  <2>2. \E i \in matching : \A j \in matching : i <= j
    BY <1>4, <2>1, LeastElement
  <2>3. Min(matching) \in matching
    <3>. HIDE DEF matching
    <3>. QED BY <2>2 DEF Min
  <2>4. c.applications[Min(matching)] \in Applications
    BY <1>3, <2>3
  <2>5. Route(c) = c.applications[Min(matching)].defaults
    BY <1>4 DEF Route
  <2>. HIDE DEF matching
  <2>. QED BY <2>4, <2>5, RoutingAssumption
<1>5. CASE ~(c.enableApplicationRouting /\ matching # {})
  <2>1. Route(c) = NoRoute
    BY <1>5 DEF Route
  <2>. QED BY <1>1, <2>1
<1>. QED BY <1>4, <1>5

\* What a slot is answered: an endpoint that is still there, or the system's device.
LEMMA DefaultTyped ==
    ASSUME NEW slot, NEW items \in SUBSET Endpoints
    PROVE  Default(slot, items) \in Endpoints \cup {System}
<1>. DEFINE found == {d \in items : slot \in Slots /\ d.id = process.route[slot]}
<1>1. CASE found = {}
  BY <1>1 DEF Default
<1>2. CASE found # {}
  <2>1. PICK device : device = (CHOOSE d \in found : TRUE) /\ device = Default(slot, items)
    BY <1>2 DEF Default
  <2>2. device \in found
    BY <1>2, <2>1
  <2>. QED BY <2>1, <2>2
<1>. QED BY <1>1, <1>2

LEMMA EnumeratedTyped ==
    ASSUME TypeOK, NEW flow, NEW items \in StillThere(Enumerated(flow))
    PROVE  items \in SUBSET Endpoints
BY DEF TypeOK, StillThere, Enumerated

-----------------------------------------------------------------------------
(* The steps                                                               *)

ProcessStates == {"none", "lookup", "path", "user", "query", "load", "enumerator", "worker"}
Answers == Endpoints \cup {System}
Processes ==
    [user : Users \cup {NoUser}, class : Classes, activating : BOOLEAN, pc : ProcessStates,
     route : [Slots -> Ids \cup {NoId}], collection : SUBSET Endpoints, answer : Answers]
Filters == [user : Users \cup {NoUser}, starting : BOOLEAN, cookie : BOOLEAN,
            redirects : SUBSET Range(Redirects)]

LEMMA TypedParts ==
    TypeOK <=> /\ config \in Configurations /\ pc \in {"idle", "write", "reset"}
               /\ devices \subseteq Endpoints
               /\ driver \in {"entry", "loaded", "unloading", "unloaded"}
               /\ filter \in Filters /\ process \in Processes
               /\ driver = "unloaded" => filter.redirects = {} /\ filter.user = NoUser
BY DEF TypeOK, Filters, Processes, ProcessStates, Answers

\* A step of the process keeps the invariant if it keeps these.
LEMMA ProcessStep ==
    ASSUME IInv, UNCHANGED <<config, pc, devices, driver, filter>>,
           process' \in Processes,
           process'.pc \in {"path", "user", "query"} => filter.cookie,
           process'.pc = "query" => process'.user = filter.user
    PROVE  IInv'
<1>1. TypeOK'
  BY TypedParts DEF IInv, TypeOK, Processes, ProcessStates, Answers
<1>2. FilterInv'
  BY DEF IInv, FilterInv
<1>3. OnlyItsUserIsRedirected'
  BY DEF IInv, FilterInv, OnlyItsUserIsRedirected, InCallback
<1>. QED BY <1>1, <1>2, <1>3 DEF IInv

LEMMA NoProcessTyped ==
    NoProcess \in Processes /\ NoProcess.pc = "none"
<1>1. System \in Answers
  BY DEF Answers
<1>2. NoRoute \in [Slots -> Ids \cup {NoId}]
  BY DEF NoRoute
<1>. QED BY <1>1, <1>2 DEF NoProcess, Processes, ProcessStates, Classes

\* What the process keeps when it changes no more than where it is.
LEMMA GoesOn ==
    ASSUME IInv, NEW state \in ProcessStates
    PROVE  /\ [process EXCEPT !.pc = state] \in Processes
           /\ [process EXCEPT !.pc = state].pc = state
           /\ [process EXCEPT !.pc = state].user = process.user
<1>1. process \in Processes
  BY TypedParts DEF IInv
<1>. QED BY <1>1 DEF Processes

LEMMA LeftToSystemTyped ==
    ASSUME IInv
    PROVE  /\ LeftToSystem \in Processes
           /\ LeftToSystem.pc \notin {"path", "user", "query"}
<1>1. process \in Processes
  BY TypedParts DEF IInv
<1>2. System \in Answers
  BY DEF Answers
<1>3. CASE process.activating
  <2>1. LeftToSystem = [process EXCEPT !.pc = "worker", !.activating = FALSE, !.answer = System]
    BY <1>3 DEF LeftToSystem
  <2>. QED BY <1>1, <1>2, <2>1 DEF Processes, ProcessStates
<1>4. CASE ~process.activating
  BY <1>4, NoProcessTyped DEF LeftToSystem
<1>. QED BY <1>3, <1>4

LEMMA LeftKeeps ==
    ASSUME IInv, process' = LeftToSystem, UNCHANGED <<config, pc, devices, driver, filter>>
    PROVE  IInv'
BY LeftToSystemTyped, ProcessStep

\* The host changes what no process has been given yet.
LEMMA HostKeeps ==
    ASSUME IInv, ControlPanel \/ WriteFile \/ Reset \/ CreateEndpoints \/ CloseEndpoints
    PROVE  IInv'
<1>1. UNCHANGED <<driver, filter, process>>
  BY DEF ControlPanel, WriteFile, Reset, CreateEndpoints, CloseEndpoints, hostVars, driverVars
<1>2. config' \in Configurations /\ pc' \in {"idle", "write", "reset"}
  BY TypedParts DEF IInv, ControlPanel, WriteFile, Reset, CreateEndpoints, CloseEndpoints,
                    hostVars
<1>3. devices' \subseteq Endpoints
  <2>1. CASE CreateEndpoints
    <3>1. config.endpoints \in BoundedSeq(Endpoints, MaxEndpoints)
      BY TypedParts DEF IInv, Configurations, EndpointLists
    <3>2. PICK n \in 0..MaxEndpoints : config.endpoints \in [1..n -> Endpoints]
      BY <3>1 DEF BoundedSeq, SeqOf
    <3>3. Range(config.endpoints) \subseteq Endpoints
      BY <3>2 DEF Range
    <3>. QED BY <2>1, <3>3 DEF CreateEndpoints
  <2>2. CASE ~CreateEndpoints
    BY <2>2, TypedParts DEF IInv, ControlPanel, WriteFile, Reset, CloseEndpoints, driverVars
  <2>. QED BY <2>1, <2>2
<1>4. TypeOK'
  BY <1>1, <1>2, <1>3 DEF IInv, TypeOK
<1>. QED BY <1>1, <1>4 DEF IInv, FilterInv, OnlyItsUserIsRedirected, InCallback

\* A step of the driver that leaves the process alone.
LEMMA DriverStep ==
    ASSUME IInv, UNCHANGED <<config, pc, devices, process>>,
           driver' \in {"entry", "loaded", "unloading", "unloaded"}, filter' \in Filters,
           driver' = "unloaded" => filter'.redirects = {} /\ filter'.user = NoUser,
           FilterInv',
           filter.cookie => filter'.cookie \/ ~InCallback,
           filter.cookie /\ filter'.cookie => filter'.user = filter.user
    PROVE  IInv'
<1>1. TypeOK'
  BY TypedParts DEF IInv, TypeOK, Filters
<1>2. OnlyItsUserIsRedirected'
  BY DEF IInv, FilterInv, OnlyItsUserIsRedirected, InCallback
<1>. QED BY <1>1, <1>2 DEF IInv

LEMMA AddRegistryRedirectKeeps ==
    ASSUME IInv, AddRegistryRedirect
    PROVE  IInv'
<1>1. /\ driver = "entry" /\ filter \in Filters /\ ~filter.starting /\ ~filter.cookie
      /\ UNCHANGED <<config, pc, devices, process>>
  BY TypedParts DEF IInv, FilterInv, AddRegistryRedirect, hostVars, Filters
<1>2. CASE driver' = "unloading" /\ UNCHANGED filter
  BY <1>1, <1>2, DriverStep DEF FilterInv
<1>3. CASE \E S \in SUBSET Range(Redirects) :
              /\ filter' = [filter EXCEPT !.redirects = S]
              /\ driver' = IF S = Range(Redirects) THEN "loaded" ELSE "entry"
  <2>1. PICK S \in SUBSET Range(Redirects) :
              /\ filter' = [filter EXCEPT !.redirects = S]
              /\ driver' = IF S = Range(Redirects) THEN "loaded" ELSE "entry"
    BY <1>3
  <2>2. filter' \in Filters /\ filter'.redirects = S /\ ~filter'.starting /\ ~filter'.cookie
    BY <1>1, <2>1 DEF Filters
  <2>3. FilterInv'
    BY <2>1, <2>2 DEF FilterInv
  <2>. QED BY <1>1, <2>1, <2>2, <2>3, DriverStep
<1>4. \/ driver' = "unloading" /\ UNCHANGED filter
      \/ \E S \in SUBSET Range(Redirects) :
              /\ filter' = [filter EXCEPT !.redirects = S]
              /\ driver' = IF S = Range(Redirects) THEN "loaded" ELSE "entry"
  <2>1. filter.redirects \in SUBSET Range(Redirects) /\ filter.redirects # Range(Redirects)
    BY <1>1 DEF IInv, FilterInv, Filters
  <2>2. Redirects[Cardinality(filter.redirects) + 1] \in Range(Redirects)
    BY <2>1, NextRedirect
  <2>. QED BY <2>1, <2>2 DEF AddRegistryRedirect
<1>. QED BY <1>2, <1>3, <1>4

LEMMA DriverKeeps ==
    ASSUME IInv, DriverEntry \/ Unregister \/ FreeFilter \/ RegisterCallback
                 \/ \E user \in Users : CopyProcessUser(user)
    PROVE  IInv'
<1>0. filter \in Filters
  BY TypedParts DEF IInv
<1>1. CASE DriverEntry
  <2>1. /\ driver = "unloaded" /\ driver' = "entry"
        /\ UNCHANGED <<config, pc, devices, filter, process>>
    BY <1>1 DEF DriverEntry, hostVars
  <2>2. filter.redirects = {} /\ ~filter.starting /\ ~filter.cookie
    BY <1>0, <2>1, TypedParts DEF IInv, FilterInv, Filters
  <2>3. {} # Range(Redirects)
    BY RedirectKeys
  <2>4. FilterInv'
    BY <2>1, <2>2, <2>3 DEF FilterInv
  <2>. QED BY <1>0, <2>1, <2>2, <2>4, DriverStep
<1>2. CASE Unregister
  <2>1. /\ driver = "loaded" /\ ~filter.starting /\ ~InCallback
        /\ filter' = [filter EXCEPT !.cookie = FALSE] /\ driver' = "unloading"
        /\ UNCHANGED <<config, pc, devices, process>>
    BY <1>2 DEF Unregister, hostVars
  <2>2. filter' \in Filters /\ ~filter'.cookie /\ ~filter'.starting
    BY <1>0, <2>1 DEF Filters
  <2>3. FilterInv'
    BY <2>1, <2>2 DEF FilterInv
  <2>. QED BY <2>1, <2>2, <2>3, DriverStep
<1>3. CASE FreeFilter
  <2>1. /\ driver = "unloading" /\ driver' = "unloaded"
        /\ filter' = [filter EXCEPT !.user = NoUser, !.redirects = {}]
        /\ UNCHANGED <<config, pc, devices, process>>
    BY <1>3 DEF FreeFilter, Cleared, hostVars
  <2>2. ~filter.cookie /\ ~filter.starting
    BY <2>1 DEF IInv, FilterInv
  <2>3. /\ filter' \in Filters /\ filter'.redirects = {} /\ filter'.user = NoUser
        /\ ~filter'.cookie /\ ~filter'.starting
    BY <1>0, <2>1, <2>2 DEF Filters
  <2>4. FilterInv'
    BY <2>1, <2>3 DEF FilterInv
  <2>. QED BY <2>1, <2>2, <2>3, <2>4, DriverStep
<1>4. CASE RegisterCallback
  <2>1. PICK registered \in BOOLEAN :
           filter' = [filter EXCEPT !.cookie = filter.cookie \/ registered, !.starting = FALSE]
    BY <1>4 DEF RegisterCallback
  <2>2. filter.starting /\ driver = "loaded" /\ UNCHANGED <<config, pc, devices, driver, process>>
    BY <1>4 DEF RegisterCallback, hostVars, IInv, FilterInv
  <2>3. /\ filter' \in Filters /\ filter'.redirects = filter.redirects
        /\ filter'.user = filter.user /\ (filter.cookie => filter'.cookie)
    BY <1>0, <2>1 DEF Filters
  <2>4. FilterInv'
    BY <2>2, <2>3 DEF IInv, FilterInv
  <2>. QED BY <2>2, <2>3, <2>4, DriverStep
<1>5. CASE \E user \in Users : CopyProcessUser(user)
  <2>1. PICK user \in Users : CopyProcessUser(user)
    BY <1>5
  <2>2. /\ driver = "loaded" /\ ~filter.cookie
        /\ filter' = [filter EXCEPT !.user = user, !.starting = TRUE]
        /\ UNCHANGED <<config, pc, devices, driver, process>>
    BY <2>1 DEF CopyProcessUser, MayStartFilter, hostVars
  <2>3. /\ filter' \in Filters /\ filter'.redirects = filter.redirects /\ filter'.user = user
        /\ ~filter'.cookie
    BY <1>0, <2>2 DEF Filters
  <2>4. user # NoUser
    BY RoutingAssumption
  <2>5. FilterInv'
    BY <2>2, <2>3, <2>4 DEF IInv, FilterInv
  <2>. QED BY <2>2, <2>3, <2>5, DriverStep
<1>. QED BY <1>1, <1>2, <1>3, <1>4, <1>5

\* The look-up of a class, up to the process that has its wrapper.
LEMMA LookupKeeps ==
    ASSUME IInv, RegistryCallback \/ MatchesPath \/ MatchesCurrentProcess \/ MMDeviceQuery
    PROVE  IInv'
<1>1. UNCHANGED <<config, pc, devices, driver, filter>>
  BY DEF RegistryCallback, MatchesPath, MatchesCurrentProcess, MMDeviceQuery, hostVars, driverVars
<1>2. CASE process' = LeftToSystem
  BY <1>1, <1>2, LeftKeeps
<1>3. CASE \E state \in ProcessStates :
              /\ process' = [process EXCEPT !.pc = state]
              /\ state \in {"path", "user", "query"} => filter.cookie
              /\ state = "query" => process.user = filter.user
  <2>1. PICK state \in ProcessStates :
              /\ process' = [process EXCEPT !.pc = state]
              /\ state \in {"path", "user", "query"} => filter.cookie
              /\ state = "query" => process.user = filter.user
    BY <1>3
  <2>. QED BY <1>1, <2>1, GoesOn, ProcessStep
<1>4. CASE RegistryCallback
  BY <1>2, <1>3, <1>4 DEF RegistryCallback, ProcessStates
<1>5. CASE MatchesPath
  <2>1. filter.cookie
    BY <1>5 DEF IInv, OnlyItsUserIsRedirected, InCallback, MatchesPath
  <2>. QED BY <1>2, <1>3, <1>5, <2>1 DEF MatchesPath, ProcessStates
<1>6. CASE MatchesCurrentProcess
  <2>1. filter.cookie
    BY <1>6 DEF IInv, OnlyItsUserIsRedirected, InCallback, MatchesCurrentProcess
  <2>. QED BY <1>2, <1>3, <1>6, <2>1 DEF MatchesCurrentProcess, TokenUsers, ProcessStates
<1>7. CASE MMDeviceQuery
  BY <1>2, <1>3, <1>7 DEF MMDeviceQuery, ProcessStates
<1>. QED BY <1>4, <1>5, <1>6, <1>7

LEMMA StartProcessKeeps ==
    ASSUME IInv, NEW user \in Users, NEW class \in Classes, StartProcess(user, class)
    PROVE  IInv'
<1>1. /\ process' = [NoProcess EXCEPT !.user = user, !.class = class, !.pc = "lookup"]
      /\ UNCHANGED <<config, pc, devices, driver, filter>>
  BY DEF StartProcess, hostVars, driverVars
<1>2. process' \in Processes /\ process'.pc = "lookup"
  BY <1>1, NoProcessTyped DEF Processes, ProcessStates
<1>. QED BY <1>1, <1>2, ProcessStep

LEMMA LoadConfigKeeps ==
    ASSUME IInv, LoadConfig
    PROVE  IInv'
<1>1. UNCHANGED <<config, pc, devices, driver, filter>>
  BY DEF LoadConfig, hostVars, driverVars
<1>2. PICK route \in RoutesOfFile(process.user) :
         process' = [process EXCEPT !.pc = "enumerator", !.route = route]
         \/ process' = LeftToSystem
  BY DEF LoadConfig
<1>3. route \in [Slots -> Ids \cup {NoId}]
  <2>1. Route(config) \in [Slots -> Ids \cup {NoId}]
    BY RouteTyped, TypedParts DEF IInv
  <2>2. NoRoute \in [Slots -> Ids \cup {NoId}]
    BY DEF NoRoute
  <2>. QED BY <2>1, <2>2 DEF RoutesOfFile
<1>4. CASE process' = [process EXCEPT !.pc = "enumerator", !.route = route]
  <2>1. process \in Processes
    BY TypedParts DEF IInv
  <2>2. process' \in Processes /\ process'.pc = "enumerator"
    BY <1>3, <1>4, <2>1 DEF Processes, ProcessStates
  <2>. QED BY <1>1, <2>2, ProcessStep
<1>. QED BY <1>1, <1>2, <1>4, LeftKeeps

\* What the enumerator answers.
LEMMA AnswerKeeps ==
    ASSUME IInv, UNCHANGED <<config, pc, devices, driver, filter>>,
           NEW answer \in Answers, NEW items \in SUBSET Endpoints,
           process' = [process EXCEPT !.answer = answer, !.collection = items],
           process.pc = "enumerator"
    PROVE  IInv'
<1>1. process \in Processes
  BY TypedParts DEF IInv
<1>2. process' \in Processes /\ process'.pc = "enumerator"
  BY <1>1 DEF Processes
<1>. QED BY <1>2, ProcessStep

LEMMA GetDefaultAudioEndpointKeeps ==
    ASSUME IInv, NEW slot, GetDefaultAudioEndpoint(slot)
    PROVE  IInv'
<1>1. PICK items \in StillThere(Enumerated(slot[1])) :
         process' = [process EXCEPT !.answer = Default(slot, items), !.collection = {}]
  BY DEF GetDefaultAudioEndpoint
<1>2. process.pc = "enumerator" /\ UNCHANGED <<config, pc, devices, driver, filter>>
  BY DEF GetDefaultAudioEndpoint, hostVars, driverVars
<1>3. Default(slot, items) \in Answers
  BY EnumeratedTyped, DefaultTyped DEF IInv, Answers
<1>. QED BY <1>1, <1>2, <1>3, AnswerKeeps

LEMMA EnumAudioEndpointsKeeps ==
    ASSUME IInv, NEW flow, EnumAudioEndpoints(flow)
    PROVE  IInv'
<1>1. PICK items \in StillThere(Enumerated(flow)) :
         process' = [process EXCEPT !.collection = items, !.answer = System]
  BY DEF EnumAudioEndpoints
<1>2. process.pc = "enumerator" /\ UNCHANGED <<config, pc, devices, driver, filter>>
  BY DEF EnumAudioEndpoints, hostVars, driverVars
<1>3. items \in SUBSET Endpoints /\ System \in Answers
  BY EnumeratedTyped DEF IInv, Answers
<1>4. process' = [process EXCEPT !.answer = System, !.collection = items]
  BY <1>1, TypedParts DEF IInv, Processes
<1>. QED BY <1>2, <1>3, <1>4, AnswerKeeps

LEMMA ItemKeeps ==
    ASSUME IInv, NEW device \in Endpoints, Item(device)
    PROVE  IInv'
<1>1. /\ process.pc = "enumerator" /\ process' = [process EXCEPT !.answer = device]
      /\ UNCHANGED <<config, pc, devices, driver, filter>>
  BY DEF Item, hostVars, driverVars
<1>2. process \in Processes /\ device \in Answers
  BY TypedParts DEF IInv, Answers
<1>3. process' \in Processes /\ process'.pc = "enumerator"
  BY <1>1, <1>2 DEF Processes
<1>. QED BY <1>1, <1>3, ProcessStep

LEMMA WorkerKeeps ==
    ASSUME IInv, Initialize \/ EndProcess \/ \E slot \in Slots : DefaultInterface(slot)
    PROVE  IInv'
<1>1. UNCHANGED <<config, pc, devices, driver, filter>>
  BY DEF Initialize, EndProcess, DefaultInterface, hostVars, driverVars
<1>2. process \in Processes
  BY TypedParts DEF IInv
<1>3. CASE Initialize
  <2>1. process' = [process EXCEPT !.pc = "lookup", !.class = "enumerator", !.activating = TRUE]
    BY <1>3 DEF Initialize
  <2>2. process' \in Processes /\ process'.pc = "lookup"
    BY <1>2, <2>1 DEF Processes, ProcessStates, Classes
  <2>. QED BY <1>1, <2>2, ProcessStep
<1>4. CASE EndProcess
  <2>1. process' = NoProcess
    BY <1>4 DEF EndProcess
  <2>. QED BY <1>1, <2>1, NoProcessTyped, ProcessStep
<1>5. CASE \E slot \in Slots : DefaultInterface(slot)
  <2>0. PICK slot \in Slots : DefaultInterface(slot)
    BY <1>5
  <2>1. PICK items \in StillThere(Enumerated(slot[1])) :
           process' = [process EXCEPT !.answer = Default(slot, items), !.pc = "worker",
                                      !.activating = FALSE, !.route = NoRoute]
    BY <2>0 DEF DefaultInterface
  <2>2. Default(slot, items) \in Answers
    BY EnumeratedTyped, DefaultTyped DEF IInv, Answers
  <2>3. NoRoute \in [Slots -> Ids \cup {NoId}]
    BY DEF NoRoute
  <2>4. process' \in Processes /\ process'.pc = "worker"
    BY <1>2, <2>1, <2>2, <2>3 DEF Processes, ProcessStates
  <2>. QED BY <1>1, <2>4, ProcessStep
<1>. QED BY <1>3, <1>4, <1>5

-----------------------------------------------------------------------------
(* The invariant                                                           *)

LEMMA InitIInv == Init => IInv
<1>. SUFFICES ASSUME Init PROVE IInv
  OBVIOUS
<1>1. ASSUME NEW S, NEW n \in Nat
      PROVE  <<>> \in BoundedSeq(S, n)
  <2>1. <<>> \in [1..0 -> S]
    OBVIOUS
  <2>. QED BY <2>1 DEF BoundedSeq, SeqOf
<1>2. config \in Configurations
  <2>1. /\ <<>> \in BoundedSeq(Endpoints, MaxEndpoints)
        /\ <<>> \in BoundedSeq(Applications, MaxApplications)
    BY <1>1, RoutingAssumption
  <2>2. <<>> \in EndpointLists
    BY <2>1 DEF EndpointLists
  <2>. QED BY <2>1, <2>2 DEF Init, Configurations
<1>3. filter \in Filters /\ filter.redirects = {} /\ filter.user = NoUser
      /\ ~filter.cookie /\ ~filter.starting
  BY DEF Init, Filters
<1>4. TypeOK
  BY <1>2, <1>3, NoProcessTyped, TypedParts DEF Init
<1>5. FilterInv
  BY <1>3 DEF Init, FilterInv
<1>6. OnlyItsUserIsRedirected
  BY NoProcessTyped DEF Init, OnlyItsUserIsRedirected, InCallback
<1>. QED BY <1>4, <1>5, <1>6 DEF IInv

LEMMA NextKeepsIInv == IInv /\ [Next]_vars => IInv'
<1>. SUFFICES ASSUME IInv, [Next]_vars PROVE IInv'
  OBVIOUS
<1>1. CASE UNCHANGED vars
  BY <1>1 DEF vars, IInv, TypeOK, FilterInv, OnlyItsUserIsRedirected, InCallback
<1>2. ASSUME NEW slot, GetDefaultAudioEndpoint(slot)
      PROVE  IInv'
  BY <1>2, GetDefaultAudioEndpointKeeps
<1>3. ASSUME NEW flow, EnumAudioEndpoints(flow)
      PROVE  IInv'
  BY <1>3, EnumAudioEndpointsKeeps
<1>4. ASSUME NEW device \in Endpoints, Item(device)
      PROVE  IInv'
  BY <1>4, ItemKeeps
<1>5. ASSUME NEW user \in Users, NEW class \in Classes, StartProcess(user, class)
      PROVE  IInv'
  BY <1>5, StartProcessKeeps
<1>. QED BY <1>1, <1>2, <1>3, <1>4, <1>5, HostKeeps, DriverKeeps, AddRegistryRedirectKeeps,
           LookupKeeps, LoadConfigKeeps, WorkerKeeps DEF Next

\* What a driver that is loaded, started or unloading has, in every state.
THEOREM FilterInvariant == Spec => []IInv
<1>. QED BY InitIInv, NextKeepsIInv, PTL DEF Spec

\* Every variable keeps its type, and a driver that is not loaded has kept
\* nothing, wherever its entry failed.
THEOREM Typed == Spec => []TypeOK
<1>1. IInv => TypeOK
  BY DEF IInv
<1>. QED BY <1>1, FilterInvariant, PTL

\* With any users: only processes of the one the filter was started for get a
\* wrapper, and no callback finds a driver that has gone.
THEOREM OthersAreLeftAlone == Spec => []OnlyItsUserIsRedirected
<1>1. IInv => OnlyItsUserIsRedirected
  BY DEF IInv
<1>. QED BY <1>1, FilterInvariant, PTL
=============================================================================
