--------------------------- MODULE ConfigurationJson ---------------------------
(***************************************************************************)
(* What default.json says: the JSON value the program makes of a           *)
(* configuration, and the configuration it takes a JSON value for, also    *)
(* the value that is left of a file of which only a beginning is there.    *)
(***************************************************************************)
EXTENDS Integers, Sequences, FiniteSets, SequencesExt

-----------------------------------------------------------------------------
(* JSON values: a kind and a content.  An object is a function from keys.  *)

Null == <<"null", "null">>
Text(s) == <<"string", s>>
Number(n) == <<"number", n>>
Bool(b) == <<"boolean", b>>
Array(items) == <<"array", items>>
Object(members) == <<"object", members>>

Has(members, key, kind) == key \in DOMAIN members /\ members[key][1] = kind
Get(members, key, kind, default) ==
    IF Has(members, key, kind) THEN members[key][2] ELSE default

\* An object is a std::map: its keys are written in their order.
KeysMutant ==
    <<"enableApplicationRouting", "applications", "attachPhysical", "channelCount",
      "defaults", "description", "driverClsid", "endpoints", "id", "path",
      "physicalChannelBase", "regexMatch", "role", "type", "waveRtMinimumFrames">>
Keys ==
    <<"applications", "attachPhysical", "channelCount", "defaults", "description",
      "driverClsid", "enableApplicationRouting", "endpoints", "id", "path",
      "physicalChannelBase", "regexMatch", "role", "type", "waveRtMinimumFrames">>
Before(k, l) == \E i, j \in DOMAIN Keys : i < j /\ Keys[i] = k /\ Keys[j] = l

\* Stands for every text that is shorter than it was: none is a name the
\* program knows.
Cut == "cut"

-----------------------------------------------------------------------------
(* What is saved and loaded                                                *)

\* The members of an object that are written.
Unwritten == <<"unwritten", "unwritten">>
WrittenIf(condition, value) == IF condition THEN value ELSE Unwritten
Members(members) ==
    Object([key \in {k \in DOMAIN members : members[k] # Unwritten} |-> members[key]])

TypeTextMutant(type) == type
TypeText(type) == IF type = "Recording" THEN "recording" ELSE "playback"
FlowText(flow) == IF flow = "eRender" THEN "playback" ELSE "recording"
RoleText == [eConsole |-> "console", eCommunications |-> "communications",
             eMultimedia |-> "multimedia"]

SaveEndpoint(e) == Members(
    [id |-> Text(e.id), description |-> Text(e.description), type |-> Text(TypeText(e.type)),
     channelCount |-> Number(e.channelCount),
     attachPhysical |-> WrittenIf(e.attachPhysical, Bool(TRUE)),
     physicalChannelBase |-> WrittenIf(e.attachPhysical, Number(e.physicalChannelBase))])

SaveDefault(d) == Members(
    [id |-> Text(d.id), role |-> Text(RoleText[d.role]), type |-> Text(FlowText(d.type))])

SaveList(list, Save1(_)) ==
    WrittenIf(list # <<>>, Array([i \in DOMAIN list |-> Save1(list[i])]))

\* An application has at most one default for a slot: their order says nothing.
SaveApplication(a) == Members(
    [description |-> Text(a.description), path |-> Text(a.path),
     regexMatch |-> WrittenIf(a.regexMatch, Bool(TRUE)),
     defaults |-> SaveList(SetToSeq(a.defaults), SaveDefault)])

Save(c) == Members(
    [driverClsid |-> Text(c.driverClsid),
     enableApplicationRouting |-> Bool(c.enableApplicationRouting),
     waveRtMinimumFrames |->
         WrittenIf(c.waveRtMinimumFrames > 2, Number(c.waveRtMinimumFrames)),
     endpoints |-> SaveList(c.endpoints, SaveEndpoint),
     applications |-> SaveList(c.applications, SaveApplication)])

\* An item that is no object, or lacks what it must have, is passed over.
Nth(numbers, n) == CHOOSE i \in numbers : Cardinality({j \in numbers : j <= i}) = n
LoadList(members, key, IsGood(_), Load1(_)) ==
    LET items == Get(members, key, "array", <<>>)
        good == {i \in DOMAIN items : items[i][1] = "object" /\ IsGood(items[i][2])}
    IN [n \in 1..Cardinality(good) |-> Load1(items[Nth(good, n)][2])]

\* Whatever is not "recording" is a playback endpoint.
TypeOfTextMutant(text) == text
TypeOfText(text) == IF text = "recording" THEN "Recording" ELSE "Playback"

IsEndpoint(m) ==
    /\ Has(m, "channelCount", "number")
    /\ \A key \in {"id", "description", "type"} : Has(m, key, "string")
LoadEndpoint(m) ==
    [id |-> m["id"][2], description |-> m["description"][2],
     type |-> TypeOfText(m["type"][2]), channelCount |-> m["channelCount"][2],
     attachPhysical |-> Get(m, "attachPhysical", "boolean", FALSE),
     physicalChannelBase |-> Get(m, "physicalChannelBase", "number", 0)]
LoadEndpoints(m) == LoadList(m, "endpoints", IsEndpoint, LoadEndpoint)

IsDefault(m) ==
    /\ \A key \in {"id", "role", "type"} : Has(m, key, "string")
    /\ \E role \in DOMAIN RoleText : m["role"][2] = RoleText[role]
    /\ m["type"][2] \in {"playback", "recording"}
LoadDefault(m) ==
    [id |-> m["id"][2],
     role |-> CHOOSE role \in DOMAIN RoleText : m["role"][2] = RoleText[role],
     type |-> IF m["type"][2] = "playback" THEN "eRender" ELSE "eCapture"]
LoadDefaults(m) == Range(LoadList(m, "defaults", IsDefault, LoadDefault))

IsApplication(m) == Has(m, "description", "string") /\ Has(m, "path", "string")
LoadApplication(m) ==
    [description |-> m["description"][2], path |-> m["path"][2],
     regexMatch |-> Get(m, "regexMatch", "boolean", FALSE), defaults |-> LoadDefaults(m)]
LoadApplications(m) == LoadList(m, "applications", IsApplication, LoadApplication)

Load(m) ==
    [driverClsid |-> Get(m, "driverClsid", "string", ""),
     endpoints |-> LoadEndpoints(m), applications |-> LoadApplications(m),
     waveRtMinimumFrames |-> Get(m, "waveRtMinimumFrames", "number", 0),
     enableApplicationRouting |-> Get(m, "enableApplicationRouting", "boolean", FALSE)]

\* A failure to parse is not asked for: what is there of an object is loaded.
FromValue(json) == Load(IF json[1] = "object" THEN json[2] ELSE <<>>)

-----------------------------------------------------------------------------
(* What a parser that fills its value in place makes of a beginning of the *)
(* text of a value: whatever is before the last thing read is whole.       *)

AtomBegins(read, value) ==
    /\ value[1] = "string" => read \in {Null, value, Text(Cut)}
    /\ value[1] = "number" => read = Null \/ (read[1] = "number" /\ read[2] \in Nat)
    /\ value[1] = "boolean" => read \in {Null, value}

ObjectBegins(read, value) ==
    \/ read = Null
    \/ /\ read[1] = "object" /\ DOMAIN read[2] \subseteq DOMAIN value[2]
       /\ \A key \in DOMAIN read[2], earlier \in DOMAIN value[2] : Before(earlier, key) =>
             earlier \in DOMAIN read[2] /\ read[2][earlier] = value[2][earlier]

\* An object in an array, of whose members those that are arrays are left open.
ItemBegins(read, value) ==
    /\ ObjectBegins(read, value)
    /\ read = Null \/ \A key \in DOMAIN read[2] : AtomBegins(read[2][key], value[2][key])

ArrayBegins(read, value) ==
    \/ read = Null
    \/ /\ read[1] = "array" /\ read[2] \in Seq(Range(read[2]))
       /\ Len(read[2]) <= Len(value[2])
       /\ \A i \in DOMAIN read[2] :
             \/ read[2][i] = value[2][i]
             \/ i = Len(read[2]) /\ ItemBegins(read[2][i], value[2][i])

ValueBegins(read, value) ==
    /\ ObjectBegins(read, value)
    /\ \/ read = Null
       \/ \A key \in DOMAIN read[2] :
             IF value[2][key][1] = "array" THEN ArrayBegins(read[2][key], value[2][key])
             ELSE AtomBegins(read[2][key], value[2][key])

=============================================================================
