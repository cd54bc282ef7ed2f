------------------------------ MODULE AsioWrapper ------------------------------
(***************************************************************************)
(* The ASIO driver a host loads: SarAsioWrapper around the hardware's own  *)
(* ("inner") ASIO driver, and the SarClient it makes on each start.        *)
(*                                                                         *)
(* The host calls the wrapper from its main thread.  The inner driver      *)
(* ticks from a thread of its own while it runs, into the client and then  *)
(* into the host.  Windows delivers device notifications on a third        *)
(* thread.  The client's stop and its tick share one mutex,                *)
(* _registersLock.  The inner driver keeps the ASIO contract: it ticks     *)
(* only between its start and the return of its stop.  One wrapper is      *)
(* loaded, so gActiveWrapper is it or null.                                *)
(***************************************************************************)
EXTENDS Integers, Sequences, FiniteSets, SequencesExt

CONSTANTS
    Configs,        \* sequences of endpoints [type, channelCount]
    Physical,       \* channels of the inner driver, inputs and outputs alike
    Infos,          \* sets of channels [isInput, index] a host may ask for
    InnerSizes,     \* [min, max, preferred, granularity] of the inner driver
    SampleTypes,    \* of its channels
    SampleRates,    \* a hundredth of it: frames of the audio engine's period
    Interfaces      \* {TRUE}, {FALSE} or both: is the configured driver there?

ASSUME AsioWrapperAssumption ==
    /\ Physical \in Nat
    /\ \A config \in Configs : config \in Seq([type : {"Playback", "Recording"},
                                               channelCount : Nat])
    /\ \A infos \in Infos : infos \subseteq [isInput : BOOLEAN, index : Nat]
    /\ InnerSizes \subseteq [min : Nat \ {0}, max : Nat, preferred : Nat,
                             granularity : Nat \cup {-1}]
    /\ \A s \in InnerSizes : s.max >= s.min
    /\ SampleRates \subseteq Nat /\ Interfaces \subseteq BOOLEAN

VARIABLES
    config,    \* _config.endpoints
    virtual,   \* [inputs, outputs]: _virtualInputs, _virtualOutputs, as they were
               \* at init
    inner,     \* [present, sizes, rate, sampleType, buffers, running]: _innerDriver
    offered,   \* the sizes the host was told last, NoSizes before
    buffers,   \* _bufferConfig: [rows, period, sampleSize]; history: the endpoints it
               \* is for, and if the virtual channels were theirs (fresh)
    callbacks, \* [asioMessage, userTick, active]: which of them are set
    reset,     \* the host was told to reset the driver and has not yet
    client,    \* _sar: [made, endpoints, rows, freed, device, registers, notified, flag]
    lock,      \* who holds _registersLock
    host,      \* [pc, then]: where the host's call is, what it goes on with
    tick,      \* where the inner driver's thread is
    unheard    \* history: a device change no format change event followed yet

vars == <<config, virtual, inner, offered, buffers, callbacks, reset, client, lock,
          host, tick, unheard>>
wrapperVars == <<config, virtual, offered, buffers, callbacks, reset>>
threadVars == <<lock, host, tick>>

NoSizes == [min |-> 0, max |-> 0, preferred |-> 0, granularity |-> 0]
NoBuffers == [rows |-> <<>>, period |-> 0, sampleSize |-> 0, endpoints |-> <<>>,
              fresh |-> TRUE]
NoCallbacks == [asioMessage |-> FALSE, userTick |-> FALSE, active |-> FALSE]
NoClient == [made |-> FALSE, endpoints |-> <<>>, rows |-> <<>>, freed |-> FALSE,
             device |-> FALSE, registers |-> FALSE, notified |-> FALSE, flag |-> FALSE]
NoSlot == [isInput |-> FALSE, index |-> -1]
Idle == [pc |-> "idle", then |-> "nothing"]

-----------------------------------------------------------------------------
(* init                                                                    *)

\* The channels of the endpoints of one type, in the order of the endpoints.
\* Playback endpoints of Windows are inputs of the host, Recording outputs.
VirtualChannels(endpoints, type) ==
    FlattenSeq([e \in DOMAIN endpoints |->
                   IF endpoints[e].type = type
                   THEN [c \in 1..endpoints[e].channelCount |-> <<e, c>>]
                   ELSE <<>>])

InitVirtualChannelsMutant(endpoints) ==
    [inputs |-> VirtualChannels(endpoints, "Recording"),
     outputs |-> VirtualChannels(endpoints, "Playback")]
InitVirtualChannels(endpoints) ==
    [inputs |-> VirtualChannels(endpoints, "Playback"),
     outputs |-> VirtualChannels(endpoints, "Recording")]

GetSampleSize(sampleType) ==
    CASE sampleType = "Int16LSB" -> 2
      [] sampleType = "Int24LSB" -> 3
      [] sampleType = "Int32LSB" -> 4
      [] OTHER -> 0

GetSampleTypeMutant(sampleType) == sampleType
GetSampleType(sampleType) ==
    IF GetSampleSize(sampleType) = 0 THEN "Int32LSB" ELSE sampleType

NewInner(present, sizes, rate, sampleType) ==
    [present |-> present, sizes |-> sizes, rate |-> rate, sampleType |-> sampleType,
     buffers |-> FALSE, running |-> FALSE]

Init ==
    /\ config \in Configs
    /\ virtual = InitVirtualChannels(config)
    /\ \E present \in Interfaces, s \in InnerSizes, r \in SampleRates, t \in SampleTypes :
          inner = NewInner(present, s, r, t)
    /\ offered = NoSizes /\ buffers = NoBuffers /\ callbacks = NoCallbacks
    /\ reset = FALSE /\ client = NoClient
    /\ lock = "free" /\ host = Idle /\ tick = "idle" /\ unheard = FALSE

\* A wrapper is made anew; it reads what the last one's dialog wrote.
LoadedAnew ==
    /\ virtual' = InitVirtualChannels(config)
    /\ offered' = NoSizes /\ buffers' = NoBuffers /\ callbacks' = NoCallbacks
    /\ reset' = FALSE /\ client' = NoClient /\ unheard' = FALSE
    /\ UNCHANGED <<config, inner, threadVars>>

\* A host that has no buffers drops the wrapper and loads it again, as it does
\* when it was told to reset, or whenever its user restarts it.
Reload == host = Idle /\ ~inner.buffers /\ LoadedAnew

-----------------------------------------------------------------------------
(* Buffer sizes                                                            *)

\* Halved, or lowered by the granularity, while it is above the limit and
\* stays above the minimum.
Limited(sizes, limit) ==
    LET f[max \in 0..sizes.max] ==
            IF max > limit
            THEN IF sizes.granularity = -1
                 THEN IF max > sizes.min THEN f[max \div 2] ELSE max
                 ELSE IF max - sizes.min >= sizes.granularity
                      THEN f[max - sizes.granularity] ELSE max
            ELSE max
    IN f[sizes.max]

ClampMutant(preferred, max) == preferred
Clamp(preferred, max) == IF preferred > max THEN max ELSE preferred

CannotLimit(sizes, limit) == sizes.min > limit \/ sizes.granularity = 0

OfferedSizes(sizes, limit) ==
    IF CannotLimit(sizes, limit)
    THEN [min |-> sizes.max, max |-> sizes.max, preferred |-> sizes.max, granularity |-> 0]
    ELSE LET max == Limited(sizes, limit)
         IN [sizes EXCEPT !.max = max, !.preferred = Clamp(sizes.preferred, max)]

Fake == [min |-> 64, max |-> 64, preferred |-> 64, granularity |-> -1]

GetBufferSize ==
    /\ host = Idle
    /\ offered' = IF inner.present THEN OfferedSizes(inner.sizes, inner.rate) ELSE Fake
    /\ UNCHANGED <<config, virtual, inner, buffers, callbacks, reset, client, threadVars, unheard>>

\* The sizes a host may choose from an offer.
HostSizes(offer) ==
    {offer.preferred} \cup {n \in offer.min..offer.max :
        \/ offer.granularity > 0 /\ (n - offer.min) % offer.granularity = 0
        \/ offer.granularity = -1 /\ \E k \in 0..16 : n = offer.min * 2^k}

\* The rate changes between two runs; a host asks for the sizes again.
SetSampleRate(rate) ==
    /\ host = Idle /\ inner.present /\ ~inner.buffers
    /\ inner' = [inner EXCEPT !.rate = rate]
    /\ offered' = NoSizes
    /\ UNCHANGED <<config, virtual, buffers, callbacks, reset, client, threadVars, unheard>>

\* The dialog's button opens the inner driver once more and shows its panel;
\* the sizes are the user's choice there.  A driver that changed them has its
\* host ask again.
OnConfigureHardwareInterface(sizes) ==
    /\ host = Idle /\ inner.present /\ ~inner.buffers
    /\ inner' = [inner EXCEPT !.sizes = sizes]
    /\ offered' = NoSizes
    /\ UNCHANGED <<config, virtual, buffers, callbacks, reset, client, threadVars, unheard>>

-----------------------------------------------------------------------------
(* createBuffers, disposeBuffers                                           *)

\* The virtual channels the host's channels stand for, after the physical ones.
ChannelsFor(isInput) == IF isInput THEN virtual.inputs ELSE virtual.outputs
IsVirtual(info) == info.index >= Physical
\* getChannels, which the host asks before it names any.
ChannelCount(isInput) == Physical + Len(ChannelsFor(isInput))
IsPresent(info) == info.index < ChannelCount(info.isInput)
SlotOf(info) == ChannelsFor(info.isInput)[info.index - Physical + 1]

\* _bufferConfig.asioBuffers: which buffer of the host is at endpoint e, channel c.
\* It is as wide as the configuration there is now; what a virtual channel that
\* is older puts outside of it is not in it.
Rows(infos) ==
    [e \in DOMAIN config |-> [c \in 1..config[e].channelCount |->
        LET here == {i \in infos : IsVirtual(i) /\ SlotOf(i) = <<e, c>>}
        IN IF here = {} THEN NoSlot ELSE CHOOSE i \in here : TRUE]]

SizeFits(size) == size <= inner.rate
IsInside(slot) == slot[1] \in DOMAIN config /\ slot[2] <= config[slot[1]].channelCount
\* A host asks for the sizes before it makes buffers.
MayCreate == /\ host = Idle /\ inner.present /\ ~inner.buffers
             /\ offered # NoSizes /\ ~reset

CreateBuffers(infos, size) ==
    /\ MayCreate /\ SizeFits(size) /\ \A i \in infos : IsPresent(i)
    /\ inner' = [inner EXCEPT !.buffers = TRUE]
    /\ buffers' = [rows |-> Rows(infos), period |-> size,
                   sampleSize |-> GetSampleSize(GetSampleType(inner.sampleType)),
                   endpoints |-> config, fresh |-> virtual = InitVirtualChannels(config)]
    /\ callbacks' = [asioMessage |-> TRUE, userTick |-> TRUE, active |-> TRUE]
    /\ UNCHANGED <<config, virtual, offered, reset, client, threadVars, unheard>>

\* The dialog shortened the configuration and nobody told the host: it names a
\* channel that is listed no more, and its address is stored behind the end of
\* a vector.  Nobody notices, as above, or the process dies and is started again.
CreateBuffersDies(infos, size) ==
    /\ MayCreate /\ SizeFits(size) /\ \A i \in infos : IsPresent(i)
    /\ \E i \in infos : IsVirtual(i) /\ ~IsInside(SlotOf(i))
    /\ LoadedAnew

\* _callbacks is filled in before the size and the channels are looked at.
CreateBuffersRefused(infos, size) ==
    /\ MayCreate
    /\ ~SizeFits(size) \/ \E i \in infos : ~IsPresent(i)
    /\ callbacks' = [callbacks EXCEPT !.asioMessage = TRUE]
    /\ UNCHANGED <<config, virtual, inner, offered, buffers, reset, client, threadVars, unheard>>

\* The inner driver refuses them: the user's tick stays set.
CreateBuffersFails(infos, size) ==
    /\ MayCreate /\ SizeFits(size) /\ \A i \in infos : IsPresent(i)
    /\ callbacks' = [callbacks EXCEPT !.asioMessage = TRUE, !.userTick = TRUE]
    /\ UNCHANGED <<config, virtual, inner, offered, buffers, reset, client, threadVars, unheard>>

\* With no hardware selected one channel of each direction is faked.
CreateFakeBuffers(infos) ==
    /\ host = Idle /\ ~inner.present /\ ~inner.buffers
    /\ Cardinality(infos) <= 2 /\ \A i \in infos : i.index = 0
    /\ inner' = [inner EXCEPT !.buffers = TRUE]
    /\ UNCHANGED <<wrapperVars, client, threadVars, unheard>>

DisposeFakeBuffers ==
    /\ host = Idle /\ ~inner.present /\ inner.buffers
    /\ inner' = [inner EXCEPT !.buffers = FALSE]
    /\ UNCHANGED <<wrapperVars, client, threadVars, unheard>>

\* Free the virtual buffers and forget the callbacks, after stop has returned.
FreeBuffers ==
    /\ host.pc = "free"
    /\ client' = [client EXCEPT !.freed = client.made]
    /\ buffers' = [buffers EXCEPT !.rows = <<>>, !.endpoints = <<>>]
    /\ callbacks' = NoCallbacks
    /\ inner' = [inner EXCEPT !.buffers = FALSE]
    /\ host' = Idle
    /\ UNCHANGED <<config, virtual, offered, reset, lock, tick, unheard>>

-----------------------------------------------------------------------------
(* start, stop: the host's thread in SarClient                             *)

Goto(pc) == host' = [host EXCEPT !.pc = pc]

\* A SarClient copies the configuration and the buffers' addresses.
NewClient == [NoClient EXCEPT !.made = TRUE, !.endpoints = config, !.rows = buffers.rows]
Start ==
    /\ host = Idle /\ inner.present /\ inner.buffers /\ ~inner.running /\ ~reset
    /\ client' = NewClient
    /\ host' = [pc |-> "openControlDevice", then |-> "nothing"]
    /\ unheard' = FALSE
    /\ UNCHANGED <<wrapperVars, inner, lock, tick>>

OpenControlDevice ==
    /\ host.pc = "openControlDevice"
    /\ \/ client' = [client EXCEPT !.device = TRUE] /\ Goto("openMmNotificationClient")
       \/ UNCHANGED client /\ host' = Idle
    /\ UNCHANGED <<wrapperVars, inner, lock, tick, unheard>>

\* From here a failure stops the client again.
OpenMmNotificationClient ==
    /\ host.pc = "openMmNotificationClient"
    /\ \/ client' = [client EXCEPT !.notified = TRUE] /\ Goto("setBufferLayout")
       \/ UNCHANGED client /\ Goto("unregister")
    /\ UNCHANGED <<wrapperVars, inner, lock, tick, unheard>>

SetBufferLayout ==
    /\ host.pc = "setBufferLayout"
    /\ \/ client' = [client EXCEPT !.registers = TRUE] /\ Goto("createEndpoints")
       \/ UNCHANGED client /\ Goto("unregister")
    /\ UNCHANGED <<wrapperVars, inner, lock, tick, unheard>>

CreateEndpoints ==
    /\ host.pc = "createEndpoints"
    /\ Goto("startInner") \/ Goto("unregister")
    /\ UNCHANGED <<wrapperVars, inner, client, lock, tick, unheard>>

\* A client whose inner driver does not start stays started: the next start
\* makes another, and drops this one with its handle open.
StartInner ==
    /\ host.pc = "startInner"
    /\ \E runs \in BOOLEAN : inner' = [inner EXCEPT !.running = runs]
    /\ host' = Idle
    /\ UNCHANGED <<wrapperVars, client, lock, tick, unheard>>

Stop ==
    /\ host = Idle /\ inner.present /\ inner.buffers
    /\ host' = [pc |-> IF client.made THEN "unregister" ELSE "stopInner", then |-> "stopInner"]
    /\ UNCHANGED <<wrapperVars, inner, client, lock, tick, unheard>>

DisposeEntry == [pc |-> IF client.made THEN "unregister" ELSE "stopInner", then |-> "free"]
DisposeBuffers ==
    /\ host = Idle /\ inner.present /\ inner.buffers
    /\ host' = DisposeEntry
    /\ UNCHANGED <<wrapperVars, inner, client, lock, tick, unheard>>

AfterClient == IF host.then = "nothing" THEN host' = Idle ELSE Goto("stopInner")

Unregister ==
    /\ host.pc = "unregister"
    /\ client' = [client EXCEPT !.notified = FALSE]
    /\ IF client.device THEN Goto("lock") ELSE AfterClient
    /\ UNCHANGED <<wrapperVars, inner, lock, tick, unheard>>

\* The mutex is held while the handle is closed and the pointers are cleared.
MayStopMutant == TRUE
MayStop == lock = "free"
LockForStop ==
    /\ host.pc = "lock" /\ MayStop
    /\ lock' = "host"
    /\ Goto("close")
    /\ UNCHANGED <<wrapperVars, inner, client, tick, unheard>>

CloseDevice ==
    /\ host.pc = "close"
    /\ client' = [client EXCEPT !.device = FALSE, !.registers = FALSE]
    /\ lock' = "free"
    /\ AfterClient
    /\ UNCHANGED <<wrapperVars, inner, tick, unheard>>

\* The inner driver's stop returns when its thread is in no tick.
StopInner ==
    /\ host.pc = "stopInner" /\ tick = "idle"
    /\ inner' = [inner EXCEPT !.running = FALSE]
    /\ IF host.then = "free" THEN Goto("free") ELSE host' = Idle
    /\ UNCHANGED <<wrapperVars, client, lock, tick, unheard>>

\* The dialog was applied.  The host is told to reset if it gave an asioMessage:
\* not before its first buffers, and not after it disposed of them.  The
\* virtual channels stay what they were.
RequestsReset == callbacks.asioMessage
ControlPanel(new) ==
    /\ host = Idle
    /\ config' = new
    /\ reset' = (reset \/ RequestsReset)
    /\ UNCHANGED <<virtual, inner, offered, buffers, callbacks, client, threadVars, unheard>>

-----------------------------------------------------------------------------
(* The inner driver's thread, and that of the device notifications         *)

\* A SAR endpoint became active again.
OnDeviceStateChanged ==
    /\ client.notified
    /\ client' = [client EXCEPT !.flag = TRUE]
    /\ unheard' = TRUE
    /\ UNCHANGED <<wrapperVars, inner, threadVars>>

\* Once its stop has been called the inner driver begins no other tick.
OnTickStub ==
    /\ tick = "idle" /\ inner.running /\ host.pc # "stopInner"
    /\ tick' = IF callbacks.active THEN "client" ELSE "idle"
    /\ UNCHANGED <<wrapperVars, inner, client, lock, host, unheard>>

LockForTick ==
    /\ tick = "client" /\ lock = "free"
    /\ IF client.registers THEN lock' = "tick" /\ tick' = "flag"
       ELSE UNCHANGED lock /\ tick' = "user"
    /\ UNCHANGED <<wrapperVars, inner, client, host, unheard>>

\* _updateSampleRateOnTick.exchange(false), then the event is sent.
TakeFlag ==
    /\ tick = "flag"
    /\ tick' = IF client.flag THEN "send" ELSE "copy"
    /\ client' = [client EXCEPT !.flag = FALSE]
    /\ unheard' = IF client.flag THEN FALSE ELSE unheard
    /\ UNCHANGED <<wrapperVars, inner, lock, host>>

AfterSendMutant == [client EXCEPT !.flag = FALSE]
AfterSend == client
SendFormatChangeEvent ==
    /\ tick = "send"
    /\ tick' = "copy"
    /\ client' = AfterSend
    /\ UNCHANGED <<wrapperVars, inner, lock, host, unheard>>

CopyEndpoints ==
    /\ tick = "copy"
    /\ tick' = "user" /\ lock' = "free"
    /\ UNCHANGED <<wrapperVars, inner, client, host, unheard>>

\* onTick, and onTickWithTime for a host that wants the time.
UserTick ==
    /\ tick = "user"
    /\ tick' = "idle"
    /\ UNCHANGED <<wrapperVars, inner, client, lock, host, unheard>>

HostStep ==
    \/ OpenControlDevice \/ OpenMmNotificationClient \/ SetBufferLayout \/ CreateEndpoints
    \/ StartInner \/ Unregister \/ LockForStop \/ CloseDevice \/ StopInner \/ FreeBuffers
HostCall ==
    \/ GetBufferSize
    \/ \E rate \in SampleRates : SetSampleRate(rate)
    \/ \E sizes \in InnerSizes : OnConfigureHardwareInterface(sizes)
    \/ \E infos \in Infos, size \in HostSizes(offered) :
          \/ CreateBuffers(infos, size) \/ CreateBuffersDies(infos, size)
          \/ CreateBuffersRefused(infos, size)
          \/ CreateBuffersFails(infos, size)
    \/ \E infos \in Infos : CreateFakeBuffers(infos)
    \/ DisposeFakeBuffers \/ DisposeBuffers \/ Start \/ Stop \/ Reload
    \/ \E new \in Configs : ControlPanel(new)
TickStep == \/ OnTickStub \/ LockForTick \/ TakeFlag \/ SendFormatChangeEvent
            \/ CopyEndpoints \/ UserTick

Next == HostStep \/ HostCall \/ TickStep \/ OnDeviceStateChanged

Spec == Init /\ [][Next]_vars

\* The inner driver ticks while it runs, and a call the host made goes on.
FairSpec == Spec /\ WF_vars(HostStep) /\ WF_vars(TickStep)

-----------------------------------------------------------------------------
(* Properties                                                              *)

HostStates == {"idle", "openControlDevice", "openMmNotificationClient", "setBufferLayout",
               "createEndpoints", "startInner", "unregister", "lock", "close",
               "stopInner", "free"}

\* The types of the variables; the sizes are those a layout may have.
TypeOK ==
    /\ config \in Configs
    /\ inner \in [present : BOOLEAN, sizes : InnerSizes, rate : SampleRates,
                  sampleType : SampleTypes, buffers : BOOLEAN, running : BOOLEAN]
    /\ DOMAIN buffers = DOMAIN NoBuffers /\ buffers.sampleSize \in 0..4
    /\ buffers.period > 0 => buffers.sampleSize \in 1..4
    /\ callbacks \in [asioMessage : BOOLEAN, userTick : BOOLEAN, active : BOOLEAN]
    /\ DOMAIN client = DOMAIN NoClient /\ reset \in BOOLEAN /\ unheard \in BOOLEAN
    /\ lock \in {"free", "host", "tick"}
    /\ host \in [pc : HostStates, then : {"nothing", "stopInner", "free"}]
    /\ tick \in {"idle", "client", "flag", "send", "copy", "user"}

\* What a tick is about to touch is there, however it interleaves with stop,
\* with disposeBuffers and with a change of the configuration: the client, the
\* shared buffer, the virtual ASIO buffers, a row of them for each endpoint,
\* and the callback of the host (sarclient.cpp tick, wrapper.cpp onTick).
TickTouchesLiveMemory ==
    /\ tick = "client" => client.made
    /\ tick = "copy" =>
          /\ client.registers /\ client.device
          /\ ~client.freed
          /\ \A e \in DOMAIN client.endpoints :
                /\ e \in DOMAIN client.rows
                /\ Len(client.rows[e]) = client.endpoints[e].channelCount
    /\ tick = "user" => callbacks.userTick

\* README: the host's channels after the physical ones are the endpoints',
\* inputs for what Windows plays and outputs for what it records.  A buffer
\* of the host is in one slot, and of its own direction; of that only if no
\* dialog changed the endpoints, without a reset, since their channels were
\* listed (wrapper.cpp createBuffers, initVirtualChannels).
SlotsFollowDirection ==
    \A e \in DOMAIN buffers.rows : \A c \in DOMAIN buffers.rows[e] :
        LET slot == buffers.rows[e][c]
        IN slot # NoSlot =>
              /\ buffers.fresh => (slot.isInput <=> buffers.endpoints[e].type = "Playback")
              /\ \A f \in DOMAIN buffers.rows : \A d \in DOMAIN buffers.rows[f] :
                    buffers.rows[f][d] = slot => <<e, c>> = <<f, d>>

\* Whatever size a host chooses of those it is offered is one that
\* createBuffers takes, when the inner driver's sizes can be limited at all.
OfferedSizesAccepted ==
    (offered # NoSizes /\ inner.present /\ ~CannotLimit(inner.sizes, inner.rate)) =>
        \A size \in HostSizes(offered) : SizeFits(size)

\* While the driver runs, a device that became active again is followed by
\* a format change event, even if it did so while the last one was sent.
FormatChangeIsSent == (unheard /\ inner.running) ~> (~unheard \/ ~inner.running)

-----------------------------------------------------------------------------
(* The inductive invariant                                                 *)

\* Each endpoint has its row of buffers, as wide as its channels.
Fits(rows, endpoints) ==
    \A e \in DOMAIN endpoints :
        /\ e \in DOMAIN rows
        /\ Len(rows[e]) = endpoints[e].channelCount

Starting == {"openControlDevice", "openMmNotificationClient", "setBufferLayout",
             "createEndpoints", "startInner"}
InLock == {"flag", "send", "copy"}

\* Who holds the mutex, and when the inner driver ticks.
ThreadInv ==
    /\ lock = "host" <=> host.pc = "close"
    /\ lock = "tick" <=> tick \in InLock
    /\ tick \in InLock => client.registers
    /\ tick # "idle" => inner.running
    /\ host.pc \in Starting \cup {"free"} => ~inner.running

\* The client a tick goes into is made for the buffers there are, and its
\* buffers are not freed before the inner driver has stopped.
ClientInv ==
    /\ client.made => Fits(client.rows, client.endpoints)
    /\ client.registers => client.device
    /\ host.pc \in Starting \ {"openControlDevice"} => client.device
    /\ inner.running \/ host.pc \in Starting => client.made /\ ~client.freed

\* Buffers are there from before a start until after a stop, and with them the
\* host's callbacks; so the rows are the configuration's until that is changed,
\* which has the driver loaded anew.
BuffersInv ==
    /\ inner.running \/ host.pc # "idle" => inner.present /\ inner.buffers
    /\ inner.present /\ inner.buffers => callbacks.userTick /\ callbacks.asioMessage
    /\ inner.present /\ inner.buffers /\ ~reset => Fits(buffers.rows, config)

\* What the host was told is what it would be told again.
OfferInv ==
    offered # NoSizes /\ inner.present => offered = OfferedSizes(inner.sizes, inner.rate)

IInv == TypeOK /\ ThreadInv /\ ClientInv /\ BuffersInv /\ OfferInv

=============================================================================
