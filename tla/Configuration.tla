----------------------------- MODULE Configuration -----------------------------
(***************************************************************************)
(* The configuration of the ASIO driver: the dialog that edits it, the     *)
(* file it is kept in, and who reads the file.                             *)
(*                                                                         *)
(* The host's wrapper reads the file when it is made, edits a copy in the  *)
(* dialog and writes the copy back on OK.  The file is emptied when it is  *)
(* opened and grows with what the stream puts out; any process may read it *)
(* meanwhile, and the host may die with the file half written.             *)
(*                                                                         *)
(* The text of a JSON value is a parameter: ConfigurationText has it.      *)
(***************************************************************************)
EXTENDS ConfigurationJson, FiniteSetsExt, TLC

CONSTANTS
    ToText(_),        \* the tokens a JSON value is written as
    FromText(_),      \* the JSON value that is read out of tokens
    Drivers,          \* clsids of the ASIO drivers installed, a sequence
    Paths,            \* what may be typed or browsed as an application's path
    Windows,          \* [path, visible, parent, owner, tool, app] of each window
    ChannelCounts,    \* what may be typed as an endpoint's channel count
    Slots,            \* pairs <<data flow, role>> the application dialog shows
    MinimumFrames,    \* waveRtMinimumFrames the first file may have
    MaxEndpoints,     \* bound: endpoints of a configuration
    MaxApplications,  \* bound: its applications
    MaxEdits          \* bound: changes in one dialog

Flows == {"eRender", "eCapture"}
Roles == {"eConsole", "eCommunications", "eMultimedia"}

ASSUME ConfigurationAssumption ==
    /\ ChannelCounts \cup MinimumFrames \subseteq Nat
    /\ Slots \subseteq Flows \X Roles
    /\ MaxEndpoints \in Nat \ {0} /\ MaxApplications \in Nat /\ MaxEdits \in Nat

VARIABLES
    config,     \* _config of the host's wrapper
    dialog,     \* _newConfig of the dialog, while it is shown
    edits,      \* the changes made in it
    pc,         \* the host: idle, dialog, write, down
    file,       \* the tokens the stream was given for default.json
    written,    \* how many of them the file has
    saved       \* history: what the file is to hold, or a host read of it

vars == <<config, dialog, edits, pc, file, written, saved>>

\* writeFile, and what a process reads of a file that has the first n tokens.
ToFile(c) == ToText(Save(c))
Read(tokens, n) == FromValue(FromText(SubSeq(tokens, 1, n)))

NoConfig == [driverClsid |-> "", endpoints |-> <<>>, applications |-> <<>>,
             waveRtMinimumFrames |-> 0, enableApplicationRouting |-> FALSE]

-----------------------------------------------------------------------------
(* The dialog.  Its pages change dialog, a copy of config, at once.        *)

TypeOf(flow) == IF flow = "eCapture" THEN "Recording" ELSE "Playback"

\* The hardware interfaces: none, and then the drivers but our own.
Own == "Synchronous Audio Router"
Interfaces == SelectSeq(Drivers, LAMBDA driver : driver # Own)
OnHardwareInterfaceChanged(index) ==
    dialog' = [dialog EXCEPT !.driverClsid =
                   IF index \in DOMAIN Interfaces THEN Interfaces[index] ELSE ""]

FindEndpoint(endpoints, id) == {e \in DOMAIN endpoints : endpoints[e].id = id}

EndpointName(n) == "ep_" \o ToString(n)

\* Two numbers are printed as two texts.
ASSUME NamesDiffer ==
    \A m, n \in 1..MaxEndpoints : EndpointName(m) = EndpointName(n) => m = n

\* The name with the least number no endpoint has.
NextIdMutant(endpoints) == EndpointName(Len(endpoints) + 1)
NextId(endpoints) ==
    EndpointName(Min({n \in 1..Len(endpoints) + 1 : FindEndpoint(endpoints, EndpointName(n)) = {}}))

\* What the endpoint dialog makes of what is typed: at least one channel.
NewEndpoint(type, channels) ==
    [id |-> NextId(dialog.endpoints), description |-> "description", type |-> type,
     channelCount |-> Max({1, channels}), attachPhysical |-> FALSE, physicalChannelBase |-> 0]

OnAddEndpoint(type, channels) ==
    /\ Len(dialog.endpoints) < MaxEndpoints
    /\ dialog' = [dialog EXCEPT !.endpoints = Append(@, NewEndpoint(type, channels))]
\* A row of the list for each endpoint; one that is selected may be removed.
EndpointRows == DOMAIN dialog.endpoints
OnRemoveEndpoint(e) == dialog' = [dialog EXCEPT !.endpoints = RemoveAt(@, e)]

EnableRouting ==
    dialog' = [dialog EXCEPT !.enableApplicationRouting = ~@]

\* The endpoints of a type up to the n-th.
OfType(endpoints, type, n) == {e \in 1..n : endpoints[e].type = type}

\* initEndpointDropdown: what is shown after "Use system default", a row for
\* each endpoint of the type.
Rows(endpoints, type) ==
    LET rows[n \in 0..Len(endpoints)] ==
            CASE n = 0 -> <<>>
              [] n > 0 /\ endpoints[n].type = type -> Append(rows[n - 1], endpoints[n])
              [] OTHER -> rows[n - 1]
    IN rows[Len(endpoints)]
Shown(endpoints, flow) == Rows(endpoints, TypeOf(flow))
DropdownIndices(endpoints, slot) == 0..Len(Shown(endpoints, slot[1]))

\* How many endpoints of its own type there are up to the one with the id.
IndexOfEndpointMutant(endpoints, id) ==
    LET here == FindEndpoint(endpoints, id) IN IF here = {} THEN 0 ELSE Min(here)
IndexOfEndpoint(endpoints, id) ==
    LET here == FindEndpoint(endpoints, id)
    IN IF here = {} THEN 0
       ELSE Cardinality(OfType(endpoints, endpoints[Min(here)].type, Min(here)))

EndpointAtIndex(endpoints, flow, index) ==
    LET type == TypeOf(flow)
        here == {e \in DOMAIN endpoints :
                    /\ endpoints[e].type = type
                    /\ index = Cardinality(OfType(endpoints, type, e - 1))}
    IN IF here = {} THEN "" ELSE endpoints[Min(here)].id

\* An application has at most one default for a slot, the one that is found.
DefaultsOf(application, slot) ==
    {d \in application.defaults : <<d.type, d.role>> = slot}

\* A dropdown told to stand on a row it has not stands on none.
SetCurSel(endpoints, slot, index) ==
    IF index \in DropdownIndices(endpoints, slot) THEN index ELSE -1

\* refreshEndpointDropdown: where the dropdown of a slot stands.
Selected(endpoints, application, slot) ==
    LET defaults == DefaultsOf(application, slot)
        found == CHOOSE d \in defaults : TRUE
    IN SetCurSel(endpoints, slot,
                 IF defaults = {} THEN 0 ELSE IndexOfEndpoint(endpoints, found.id))

\* updateConfig: each slot gets what its dropdown stands on.
FromDropdowns(endpoints, path, regex, index) ==
    LET set == {slot \in Slots : index[slot] > 0 /\ index[slot] - 1 < Len(endpoints)}
        Default(slot) == [type |-> slot[1], role |-> slot[2],
                          id |-> EndpointAtIndex(endpoints, slot[1], index[slot] - 1)]
    IN [description |-> "description", path |-> path, regexMatch |-> regex,
        defaults |-> {Default(slot) : slot \in set}]

NewApplication == [description |-> "", path |-> "", regexMatch |-> FALSE, defaults |-> {}]

\* The programs of the windows a user sees as such.
IsListed(window) ==
    /\ window.visible /\ ~window.parent
    /\ (~window.tool /\ ~window.owner) \/ (window.app /\ window.owner)
RunningApplications == {window.path : window \in {w \in Windows : IsListed(w)}}

\* The path is left, typed or browsed for, or a running program's.  The box of
\* the expressions can be ticked whatever the path is.
PathsOf(application) == {application.path} \cup Paths \cup RunningApplications

\* An application's dialog is opened, one dropdown is moved, OK.
ApplicationDialog(application, path, regex, slot, index) ==
    FromDropdowns(dialog.endpoints, path, regex,
        [[s \in Slots |-> Selected(dialog.endpoints, application, s)] EXCEPT ![slot] = index])

\* The list of the applications and its buttons work while routing is enabled.
ApplicationRows ==
    IF dialog.enableApplicationRouting THEN DOMAIN dialog.applications ELSE {}
OnAddApplication(path, regex, slot, index) ==
    /\ dialog.enableApplicationRouting
    /\ Len(dialog.applications) < MaxApplications /\ path \in PathsOf(NewApplication)
    /\ dialog' = [dialog EXCEPT !.applications =
                      Append(@, ApplicationDialog(NewApplication, path, regex, slot, index))]
OnOpenApplication(a, path, regex, slot, index) ==
    /\ path \in PathsOf(dialog.applications[a])
    /\ dialog' = [dialog EXCEPT !.applications[a] =
                      ApplicationDialog(@, path, regex, slot, index)]
OnRemoveApplication(a) ==
    dialog' = [dialog EXCEPT !.applications = RemoveAt(@, a)]

AnyPath == {"", Cut} \cup Paths \cup {window.path : window \in Windows}
EditEndpoints ==
    \/ \E index \in 0..Len(Interfaces) : OnHardwareInterfaceChanged(index)
    \/ \E type \in {"Playback", "Recording"}, channels \in ChannelCounts :
          OnAddEndpoint(type, channels)
    \/ \E e \in EndpointRows : OnRemoveEndpoint(e)
EditApplications ==
    \/ EnableRouting
    \/ \E path \in AnyPath, regex \in BOOLEAN, slot \in Slots :
          \E index \in DropdownIndices(dialog.endpoints, slot) :
             \/ OnAddApplication(path, regex, slot, index)
             \/ \E a \in ApplicationRows :
                   OnOpenApplication(a, path, regex, slot, index)
    \/ \E a \in ApplicationRows : OnRemoveApplication(a)

Edit ==
    /\ pc = "dialog" /\ edits < MaxEdits
    /\ EditEndpoints \/ EditApplications
    /\ edits' = edits + 1
    /\ UNCHANGED <<config, pc, file, written, saved>>

OpenDialog ==
    /\ pc = "idle"
    /\ dialog' = config /\ edits' = 0 /\ pc' = "dialog"
    /\ UNCHANGED <<config, file, written, saved>>

Cancel ==
    /\ pc = "dialog"
    /\ dialog' = NoConfig /\ edits' = 0 /\ pc' = "idle"
    /\ UNCHANGED <<config, file, written, saved>>

-----------------------------------------------------------------------------
(* The file                                                                *)

\* controlPanel takes over what OK returns, and writeFile empties the file.
OK ==
    /\ pc = "dialog"
    /\ config' = dialog /\ saved' = dialog
    /\ file' = ToFile(dialog) /\ written' = 0
    /\ dialog' = NoConfig /\ edits' = 0 /\ pc' = "write"

\* The stream's buffer goes out at any place.
Write ==
    /\ pc = "write"
    /\ written' = written + 1
    /\ pc' = IF written' = Len(file) THEN "idle" ELSE "write"
    /\ UNCHANGED <<config, dialog, edits, file, saved>>

\* The host ends, in the middle of a write at worst.
Die ==
    /\ pc # "down"
    /\ config' = NoConfig /\ dialog' = NoConfig /\ edits' = 0 /\ pc' = "down"
    /\ UNCHANGED <<file, written, saved>>

\* initInnerDriver: the driver may be gone, or fail to open or to initialize.
OpenedInner(clsid) == IF clsid \in Range(Drivers) THEN BOOLEAN ELSE {FALSE}

\* init: the wrapper forgets a driver it can't use.
Initialized(c) ==
    {IF opened THEN c ELSE [c EXCEPT !.driverClsid = ""] : opened \in OpenedInner(c.driverClsid)}

\* A new wrapper reads what is there, also when the host answers the reset
\* that the dialog asked it for.
NewWrapper ==
    /\ pc \in {"down", "idle"}
    /\ config' \in Initialized(Read(file, written)) /\ pc' = "idle"
    /\ saved' = Read(file, written) /\ file' = SubSeq(file, 1, written)
    /\ UNCHANGED <<dialog, edits, written>>

\* A file of which only the minimum and an endpoint are told: nothing in the
\* dialog sets the minimum or attaches an endpoint to the hardware.
FirstConfig(frames) ==
    [NoConfig EXCEPT !.waveRtMinimumFrames = frames,
                     !.endpoints = <<[id |-> EndpointName(1), description |-> "description",
                                      type |-> "Recording", channelCount |-> 2,
                                      attachPhysical |-> TRUE, physicalChannelBase |-> 2]>>]

Init ==
    /\ \E frames \in MinimumFrames : config = FirstConfig(frames)
    /\ dialog = NoConfig /\ edits = 0 /\ pc = "idle"
    /\ file = ToFile(config) /\ written = Len(file) /\ saved = config

Next == OpenDialog \/ Edit \/ Cancel \/ OK \/ Write \/ Die \/ NewWrapper

Spec == Init /\ [][Next]_vars

-----------------------------------------------------------------------------
(* Properties                                                              *)

Ids == {EndpointName(n) : n \in 1..MaxEndpoints}
\* Only an endpoint that is attached has a first channel of the hardware.
Endpoints ==
    {e \in [id : Ids, description : {"description"}, type : {"Playback", "Recording"},
            channelCount : Nat, attachPhysical : BOOLEAN, physicalChannelBase : Nat] :
        e.attachPhysical \/ e.physicalChannelBase = 0}
Defaults == [id : Ids, role : Roles, type : Flows]
Applications == [description : {"description"}, regexMatch : BOOLEAN, defaults : SUBSET Defaults,
                 path : {"", Cut} \cup Paths \cup RunningApplications]
Configs == [driverClsid : Range(Interfaces) \cup {"", Cut}, endpoints : Seq(Endpoints),
            applications : Seq(Applications), waveRtMinimumFrames : Nat,
            enableApplicationRouting : BOOLEAN]

\* The types of the variables: whatever of a file is there to be read, what is
\* made of it is a configuration.
TypeOK ==
    /\ {config, dialog, saved} \subseteq Configs
    /\ edits \in 0..MaxEdits /\ pc \in {"idle", "dialog", "write", "down"}
    /\ written \in 0..Len(file)

IdsUnique(endpoints) ==
    \A i, j \in DOMAIN endpoints : endpoints[i].id = endpoints[j].id => i = j

\* onAddEndpoint: whatever was added and removed, in this dialog and in those
\* before, and lost with a host that died, no two endpoints have one id.
EndpointIdsUnique ==
    \A c \in {config, dialog, saved} : IdsUnique(c.endpoints)

IdsOf(application, slot) == {d.id : d \in DefaultsOf(application, slot)}

\* The dialog of an application stores the endpoint the user sees in the
\* dropdown, and one that is opened and closed again leads every slot where
\* it led before.  An id that a removed endpoint left behind and an endpoint
\* of the other direction took over is the exception.
StoresWhatIsShown(endpoints, slot) ==
    \A index \in DropdownIndices(endpoints, slot) \ {0} :
        EndpointAtIndex(endpoints, slot[1], index - 1) = Shown(endpoints, slot[1])[index].id
Reopened(endpoints, a) ==
    FromDropdowns(endpoints, a.path, a.regexMatch,
                  [slot \in Slots |-> Selected(endpoints, a, slot)])
KeepsWhatItStored(endpoints, a, slot) ==
    (\A id \in IdsOf(a, slot) : \A e \in FindEndpoint(endpoints, id) :
        endpoints[e].type = TypeOf(slot[1])) =>
            IdsOf(Reopened(endpoints, a), slot) =
                {id \in IdsOf(a, slot) : FindEndpoint(endpoints, id) # {}}
DialogShowsWhatItStores ==
    \A slot \in Slots :
        /\ StoresWhatIsShown(dialog.endpoints, slot)
        /\ \A a \in Range(dialog.applications) : KeepsWhatItStored(dialog.endpoints, a, slot)

\* A minimum of one or two frames is not written.
Keeps(read, c) ==
    \/ read = c
    \/ c.waveRtMinimumFrames <= 2 /\ read = [c EXCEPT !.waveRtMinimumFrames = 0]

\* A file that was written to its end gives whoever reads it, this host, a
\* later one or an enumerator, what the dialog returned last.
SavedConfigKept == written = Len(file) => Keeps(Read(file, written), saved)

\* The endpoints read are the first of those saved; the last of them may have
\* lost its direction, which is written last.  The applications read go where
\* those saved do, and all of them are there when their routing is enabled.
IsPart(read, c) ==
    /\ Len(read.endpoints) <= Len(c.endpoints)
    /\ \A e \in DOMAIN read.endpoints :
          \/ read.endpoints[e] = c.endpoints[e]
          \/ /\ e = Len(read.endpoints)
             /\ read.endpoints[e] = [c.endpoints[e] EXCEPT !.type = "Playback"]
    /\ Len(read.applications) <= Len(c.applications)
    /\ \A a \in DOMAIN read.applications :
          read.applications[a].defaults = c.applications[a].defaults
    /\ read.enableApplicationRouting => read.applications = c.applications

\* A process that reads a file of which a part is written, and Die may leave
\* it so for good, is routed as the configuration says or not at all.
HalfWrittenIsAPrefix == pc = "write" => IsPart(Read(file, written), saved)

-----------------------------------------------------------------------------
(* What the properties rest on                                             *)

\* What the program takes the JSON library for: the text of a value gives the
\* value back, and a beginning of the text a beginning of the value.
KeptByText(c) ==
    LET text == ToText(Save(c)) IN
    /\ text \in Seq(Range(text)) \ {<<>>}
    /\ FromText(text) = Save(c)
    /\ \A n \in 0..Len(text) - 1 : ValueBegins(FromText(SubSeq(text, 1, n)), Save(c))
TextReadsBack == \A c \in Configs : KeptByText(c)

OneDefaultForASlot(applications) ==
    \A a \in DOMAIN applications : \A d, e \in applications[a].defaults :
        d.type = e.type /\ d.role = e.role => d = e

WellFormed(c) ==
    c \in Configs /\ IdsUnique(c.endpoints) /\ OneDefaultForASlot(c.applications)

\* Whoever reads the file, at whatever place of its life, gets one.
ReadIsWellFormed == WellFormed(Read(file, written))

\* The file is what OK gave it, or what a host found of that and took for all.
FileInv ==
    /\ file \in Seq(Range(file)) /\ written \in 0..Len(file)
    /\ pc = "write" => written < Len(file)
    /\ written < Len(file) => pc \in {"write", "down"} /\ file = ToFile(saved)

IInv ==
    /\ WellFormed(config) /\ WellFormed(dialog) /\ WellFormed(saved)
    /\ edits \in 0..MaxEdits /\ pc \in {"idle", "dialog", "write", "down"}
    /\ FileInv /\ SavedConfigKept

=============================================================================
