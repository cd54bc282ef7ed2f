--------------------------- MODULE MCConfiguration ---------------------------
(* Instances of Configuration for TLC. *)
EXTENDS Configuration, ConfigurationText

MCDrivers == <<Own, "asio">>
\* A program with a window of its own, and one with a tool window only.
MCWindow(path, tool) ==
    [path |-> path, visible |-> TRUE, parent |-> FALSE, owner |-> FALSE, tool |-> tool,
     app |-> FALSE]
MCWindows == {MCWindow("game", FALSE), MCWindow("tool", TRUE)}
MCSlots == {<<"eCapture", "eConsole">>}

-----------------------------------------------------------------------------
(* Configurations of every shape, for the promise the proofs take from the *)
(* library (TextReadsBack): of no, one and two endpoints and applications, *)
(* with none, one and four defaults and numbers of one to three digits.    *)

SampleEndpoints ==
    {[id |-> id, description |-> "description", type |-> type, channelCount |-> channels,
      attachPhysical |-> base # 0, physicalChannelBase |-> base] :
        id \in {EndpointName(1), EndpointName(2)}, type \in {"Playback", "Recording"},
        channels \in {7, 345}, base \in {0, 12}}
SampleDefault(n, role, type) == [id |-> EndpointName(n), role |-> role, type |-> type]
SampleDefaults ==
    {{}, {SampleDefault(1, "eConsole", "eRender")},
     {SampleDefault(1, "eConsole", "eRender"), SampleDefault(2, "eMultimedia", "eCapture"),
      SampleDefault(1, "eConsole", "eCapture"), SampleDefault(2, "eCommunications", "eCapture")}}
SampleApplications ==
    {[description |-> "description", path |-> path, regexMatch |-> match, defaults |-> defaults] :
        path \in {"", "game"}, match \in BOOLEAN, defaults \in SampleDefaults}

\* Nothing, each alone, and each with one other after it.
Lists(S) == {<<>>} \cup {<<x>> : x \in S} \cup {<<x, CHOOSE y \in S : y # x>> : x \in S}
SampleConfigs ==
    [driverClsid : {"", "asio"}, endpoints : Lists(SampleEndpoints), applications : {<<>>},
     waveRtMinimumFrames : {0, 347}, enableApplicationRouting : BOOLEAN]
    \cup
    [driverClsid : {"asio"}, endpoints : {<<CHOOSE e \in SampleEndpoints : TRUE>>},
     applications : Lists(SampleApplications), waveRtMinimumFrames : {9, 347},
     enableApplicationRouting : BOOLEAN]

\* What is written of each is read back, and what is written of it up to any
\* token is read as a beginning of it: picojson's serialize and parse.
ASSUME LibraryKeepsItsPromise ==
    \A c \in SampleConfigs : c \in Configs /\ KeptByText(c)
=============================================================================
