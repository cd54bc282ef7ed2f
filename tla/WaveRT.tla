-------------------------------- MODULE WaveRT --------------------------------
(***************************************************************************)
(* The shared buffer of a control context: who has which cells of it.      *)
(*                                                                         *)
(* A client sets the buffer's layout once, then audio clients open pins on *)
(* the endpoints and ask for buffers.  A buffer is a run of cells of one   *)
(* section, taken first fit from a bitmap, mapped into each process that   *)
(* asks and told to the ASIO tick through the endpoint's registers.  The   *)
(* handlers of one pin are serialised by kernel streaming; those of        *)
(* different pins, also of two pins on one endpoint, interleave.  What the *)
(* tick makes of the registers, word by word, is module Tick; reference    *)
(* counts are in SarControl.                                               *)
(***************************************************************************)
EXTENDS Integers, FiniteSets

CONSTANTS
    Endpoints, Pins, Processes,
    Layouts,        \* [bufferSize, periodSizeBytes, sampleSize, sampleRate, minimumFrameCount]
    ChannelCount,   \* endpoint -> channelCount it was created with
    FormatChannels, \* endpoint -> channel counts of the formats its pins are opened with
    Masks,          \* channel masks that are set: sets of speakers
    CallerRanges,   \* data ranges that audio clients intersect with
    Clients,        \* endpoint -> processes that open and use its pins
    Requests,       \* endpoint -> buffer sizes its audio clients ask for, far below 2^32
    Cell,           \* SAR_BUFFER_CELL_SIZE
    MaxBufferSize,  \* SAR_MAX_BUFFER_SIZE
    NoPin, NoProcess

ASSUME WaveRTAssumption ==
    /\ ChannelCount \in [Endpoints -> Nat \ {0}]
    /\ FormatChannels \in [Endpoints -> SUBSET Nat] /\ \A mask \in Masks : IsFiniteSet(mask)
    /\ Layouts \subseteq [bufferSize : Nat, periodSizeBytes : Nat, sampleSize : Nat,
                          sampleRate : Nat, minimumFrameCount : Nat]
    /\ CallerRanges \subseteq [channels : Nat, minRate : Nat, maxRate : Nat,
                               minBits : Nat, maxBits : Nat]
    /\ Endpoints # {} /\ Requests \in [Endpoints -> SUBSET Nat]
    /\ Clients \in [Endpoints -> SUBSET Processes]
    /\ Cell \in Nat \ {0} /\ MaxBufferSize \in Nat
    /\ NoPin \notin Pins /\ NoProcess \notin Processes

VARIABLES
    layout,     \* the layout of the control context, NoLayout before
    building,   \* requests to set the layout that are under way
    bufferMap,  \* the cells whose bit is set
    endpoint,   \* endpoint -> [activePin, activeChannelCount, cells, channelMask]
    contexts,   \* endpoint -> activeProcessList: [process, bufferUVA]
    views,      \* [process, endpoint, cells]: parts of the section that are mapped
    registers,  \* endpoint -> [active, bufferOffset, bufferSize]
    pin,        \* pin -> [pc, endpoint, process, channels, size]; process is the
                \* one that creates it or asks for a buffer
    abandoned,  \* history: cells that a second GetBuffer let the endpoint forget
    written     \* history: endpoints whose registers tell the buffer of a pin, from
                \* its GetBuffer to the end, or the failure, of its close

vars == <<layout, building, bufferMap, endpoint, contexts, views, registers,
          pin, abandoned, written>>
mapVars == <<bufferMap, endpoint, abandoned>>
mappingVars == <<contexts, views>>
layoutVars == <<layout, building>>

RoundUp(n, unit) == ((n + unit - 1) \div unit) * unit
Larger(a, b) == IF a < b THEN b ELSE a
Smaller(a, b) == IF a < b THEN a ELSE b

NoLayout == [bufferSize |-> 0, periodSizeBytes |-> 0, sampleSize |-> 0,
             sampleRate |-> 0, minimumFrameCount |-> 0]
NoRegisters == [active |-> FALSE, bufferOffset |-> 0, bufferSize |-> 0]
IdlePin == [pc |-> "none", endpoint |-> CHOOSE e \in Endpoints : TRUE,
               process |-> NoProcess, channels |-> 0, size |-> 0]

Init ==
    /\ layout = NoLayout
    /\ building = {}
    /\ bufferMap = {}
    /\ endpoint = [e \in Endpoints |-> [activePin |-> NoPin, activeChannelCount |-> 0,
                                        cells |-> {}, channelMask |-> {}]]
    /\ contexts = [e \in Endpoints |-> {}]
    /\ views = {}
    /\ registers = [e \in Endpoints |-> NoRegisters]
    /\ pin = [p \in Pins |-> IdlePin]
    /\ abandoned = {} /\ written = {}

-----------------------------------------------------------------------------
(* SAR_SET_BUFFER_LAYOUT                                                   *)

SAR_MIN_SAMPLE_RATE == 8000
SAR_MAX_SAMPLE_RATE == 192000

ValidLayout(l) ==
    /\ l.bufferSize \in 1..MaxBufferSize
    /\ l.sampleSize \in 1..4
    /\ l.sampleRate \in SAR_MIN_SAMPLE_RATE..SAR_MAX_SAMPLE_RATE
    /\ l.periodSizeBytes \in 1..l.bufferSize

\* The section, its view and the bitmap are made before the mutex is taken.
\* A request that begins once the layout is set is refused without a trace.
BuildLayout(l) ==
    /\ ValidLayout(l) /\ layout = NoLayout
    /\ building' = building \cup {l}
    /\ UNCHANGED <<layout, mapVars, mappingVars, registers, pin, written>>

LayoutFreeMutant == TRUE
LayoutFree == layout.bufferSize = 0

\* The first one's becomes the context's, any other is undone.
CommitLayout(l) ==
    /\ l \in building
    /\ building' = building \ {l}
    /\ layout' = IF LayoutFree THEN l ELSE layout
    /\ UNCHANGED <<mapVars, mappingVars, registers, pin, written>>

\* The bits of the map: the last part of a cell is not used.
Cells == 0..((layout.bufferSize \div Cell) - 1)

\* All of the section: behind the buffer it holds the register file.
Section == 0..(layout.bufferSize \div Cell)

-----------------------------------------------------------------------------
(* Formats.  A format is its channels, rate and bits per sample.           *)

\* digitalDataRange of initWaveFilter; its minima are its maxima.
DataRange(e) ==
    [channels |-> ChannelCount[e], rate |-> layout.sampleRate,
     bits |-> 8 * layout.sampleSize]

\* A channel mask is the set of its speakers.
getnbits(mask) == Cardinality(mask)

MaskOrMaximum(e) ==
    IF endpoint[e].channelMask # {} THEN getnbits(endpoint[e].channelMask)
    ELSE DataRange(e).channels

Intersects(e, caller) ==
    /\ DataRange(e).bits \in caller.minBits..caller.maxBits
    /\ DataRange(e).rate \in caller.minRate..caller.maxRate
    /\ caller.channels >= 1

IntersectHandler(e, caller) ==
    LET mine == DataRange(e).channels
        n == MaskOrMaximum(e)
    IN [channels |-> CASE n > mine -> mine
                       [] n <= mine /\ n > caller.channels -> caller.channels
                       [] OTHER -> n,
        rate |-> Smaller(caller.maxRate, DataRange(e).rate),
        bits |-> Smaller(caller.maxBits, DataRange(e).bits)]

GetDefaultDataFormat(e) == [DataRange(e) EXCEPT !.channels = MaskOrMaximum(e)]

ProposeDataFormat(e, format) ==
    /\ format.channels <= ChannelCount[e]
    /\ format.bits = 8 * layout.sampleSize
    /\ format.rate = layout.sampleRate

SetDataFormat(e, format) ==
    /\ format.channels <= DataRange(e).channels
    /\ format.rate = DataRange(e).rate
    /\ format.bits = DataRange(e).bits

MaskFitsMutant(e, mask) == TRUE
MaskFits(e, mask) == getnbits(mask) <= ChannelCount[e]

\* Any audio client may set the speakers, whether a pin is open or not.
SetAudioChannelConfig(e, mask) ==
    /\ layout # NoLayout
    /\ MaskFits(e, mask)
    /\ endpoint' = [endpoint EXCEPT ![e].channelMask = mask]
    /\ UNCHANGED <<layoutVars, bufferMap, abandoned, mappingVars, registers, pin,
                   written>>
GetAudioChannelConfig(e) == endpoint[e].channelMask

-----------------------------------------------------------------------------
(* Pins                                                                    *)

\* The process' context in an endpoint's list, made if there is none.  Only
\* the active pin's handlers, one at a time, touch the list.
WithContext(e, process) ==
    IF \E c \in contexts[e] : c.process = process THEN contexts[e]
    ELSE contexts[e] \cup {[process |-> process, bufferUVA |-> {}]}

PinFreeMutant(e) == TRUE
PinFree(e) == endpoint[e].activePin = NoPin

\* The exchange of activePin; a pin that finds another there is refused.
PinCreate(p, e, process, channels) ==
    /\ pin[p].pc = "none" /\ layout # NoLayout
    /\ SetDataFormat(e, [DataRange(e) EXCEPT !.channels = channels])
    /\ PinFree(e)
    /\ endpoint' = [endpoint EXCEPT ![e].activePin = p]
    /\ pin' = [pin EXCEPT ![p] = [pc |-> "claimed", endpoint |-> e, process |-> process,
                                  channels |-> channels, size |-> 0]]
    /\ UNCHANGED <<layoutVars, bufferMap, abandoned, mappingVars, registers, written>>

\* The registers are read and written through the current process' context,
\* which is made if there is none; either access may fail, for want of the
\* context or at the mapping.  A write that fails writes no word.
Failed(e, q) == {contexts[e], WithContext(e, q)}

\* The rest of SarKsPinCreate, with a context of the process: the pin opens
\* also if the registers cannot be read, or not be written ...
OpenPin(p) ==
    LET e == pin[p].endpoint
    IN /\ pin[p].pc = "claimed"
       /\ contexts' = [contexts EXCEPT ![e] = WithContext(e, pin[p].process)]
       /\ \E read, wrote \in BOOLEAN :
             /\ endpoint' = [endpoint EXCEPT ![e].cells = {},
                   ![e].activeChannelCount = IF read THEN pin[p].channels ELSE @]
             /\ registers' = [registers EXCEPT ![e].active = @ /\ ~(read /\ wrote)]
       /\ written' = written \ {e}
       /\ pin' = [pin EXCEPT ![p].pc = "open", ![p].process = NoProcess]
       /\ UNCHANGED <<layoutVars, bufferMap, abandoned, views>>

\* ... or undone without one.
OpenPinFails(p) ==
    /\ pin[p].pc = "claimed"
    /\ endpoint' = [endpoint EXCEPT ![pin[p].endpoint].activePin = NoPin]
    /\ pin' = [pin EXCEPT ![p] = IdlePin]
    /\ UNCHANGED <<layoutVars, bufferMap, abandoned, mappingVars, registers, written>>

\* endpoint->activeChannelCount, with the repair of a count that is zero.
Channels(e) ==
    IF endpoint[e].activeChannelCount = 0 THEN ChannelCount[e]
    ELSE endpoint[e].activeChannelCount

ActualSize(e, request) ==
    RoundUp(Larger(request, layout.minimumFrameCount * layout.periodSizeBytes * Channels(e)),
            layout.sampleSize * Channels(e))

CellsFor(e, request) == RoundUp(ActualSize(e, request), Cell) \div Cell

\* RtlFindClearBitsAndSet: the first n clear cells in a row, {} if there are
\* none, and if none are asked for, which is no failure.
FirstFitMutant(n) ==
    LET fits == {i \in Cells : i..(i + n - 1) \cap bufferMap = {}}
    IN IF fits = {} THEN {}
       ELSE LET i == CHOOSE i \in fits : \A j \in fits : i <= j IN i..(i + n - 1)
FirstFit(n) ==
    LET fits == {i \in Cells : i..(i + n - 1) \subseteq Cells \ bufferMap}
    IN IF fits = {} THEN {}
       ELSE LET i == CHOOSE i \in fits : \A j \in fits : i <= j IN i..(i + n - 1)

\* activeCellIndex: none are found at the first cell.
First(cells) == IF cells = {} THEN 0 ELSE CHOOSE i \in cells : \A j \in cells : i <= j

\* GetBuffer, under the context's mutex.  The cells the endpoint had before
\* are overwritten, not freed.
AllocateCells(p, process, request) ==
    LET e == pin[p].endpoint
        cells == FirstFit(CellsFor(e, request))
    IN /\ pin[p].pc = "open"
       /\ cells # {} \/ CellsFor(e, request) = 0
       /\ contexts' = [contexts EXCEPT ![e] = WithContext(e, process)]
       /\ bufferMap' = bufferMap \cup cells
       /\ abandoned' = abandoned \cup endpoint[e].cells
       /\ endpoint' = [endpoint EXCEPT ![e].cells = cells, ![e].activeChannelCount = Channels(e)]
       /\ pin' = [pin EXCEPT ![p].pc = "allocated", ![p].process = process,
                             ![p].size = ActualSize(e, request)]
       /\ UNCHANGED <<layoutVars, views, registers, written>>

\* No context can be made, or there are not the cells.
RefuseBuffer(p, process, request) ==
    LET e == pin[p].endpoint
    IN /\ pin[p].pc = "open"
       /\ \/ UNCHANGED contexts /\ WithContext(e, process) # contexts[e]
          \/ /\ FirstFit(CellsFor(e, request)) = {} /\ CellsFor(e, request) # 0
             /\ contexts' = [contexts EXCEPT ![e] = WithContext(e, process)]
       /\ endpoint' = [endpoint EXCEPT ![e].activeChannelCount = Channels(e)]
       /\ UNCHANGED <<layoutVars, bufferMap, abandoned, views, registers, pin, written>>

\* ZwMapViewOfSection takes a size of 0 for all that there is.
Mapped(cells) == IF cells = {} THEN Section ELSE cells

\* The context forgets the view it had.  Two views of the whole section in one
\* process are not told apart.
MapBuffer(p) ==
    LET e == pin[p].endpoint
        q == pin[p].process
        cells == Mapped(endpoint[e].cells)
    IN /\ pin[p].pc = "allocated"
       /\ views' = views \cup {[process |-> q, endpoint |-> e, cells |-> cells]}
       /\ contexts' = [contexts EXCEPT ![e] =
                          {IF c.process = q THEN [c EXCEPT !.bufferUVA = cells] ELSE c
                              : c \in contexts[e]}]
       /\ pin' = [pin EXCEPT ![p].pc = "mapped"]
       /\ UNCHANGED <<layoutVars, mapVars, registers, written>>

\* What is not mapped, or not told, stays the endpoint's, and what is mapped
\* stays so: the registers tell the buffer before.
GetBufferFails(p) ==
    /\ pin[p].pc \in {"allocated", "mapped"}
    /\ pin' = [pin EXCEPT ![p].pc = "open", ![p].process = NoProcess, ![p].size = 0]
    /\ UNCHANGED <<layoutVars, mapVars, mappingVars, registers, written>>

WriteBuffer(p) ==
    LET e == pin[p].endpoint
    IN /\ pin[p].pc = "mapped"
       /\ registers' = [registers EXCEPT ![e].bufferOffset = First(endpoint[e].cells) * Cell,
                                         ![e].bufferSize = pin[p].size]
       /\ written' = written \cup {e}
       /\ pin' = [pin EXCEPT ![p].pc = "open", ![p].process = NoProcess, ![p].size = 0]
       /\ UNCHANGED <<layoutVars, mapVars, mappingVars>>

\* The register is in the mapping that the process' context stands for, which
\* any process that asks first gets, whether it has the buffer or not.
GetPositionRegister(p, q) ==
    LET e == pin[p].endpoint
    IN /\ pin[p].pc = "open"
       /\ contexts' = [contexts EXCEPT ![e] = WithContext(e, q)]
       /\ UNCHANGED <<layoutVars, mapVars, views, registers, pin, written>>

\* Found through the pin's context: also with the client gone.  A transition
\* makes the registers active if it is to RUN, and inactive if not.
SetDeviceState(p, q) ==
    LET e == pin[p].endpoint
    IN /\ pin[p].pc = "open"
       /\ contexts' = [contexts EXCEPT ![e] = WithContext(e, q)]
       /\ \E active \in BOOLEAN : registers' = [registers EXCEPT ![e].active = active]
       /\ UNCHANGED <<layoutVars, mapVars, views, pin, written>>

\* The pin stays in the state it is in.
SetDeviceStateFails(p, q) ==
    LET e == pin[p].endpoint
    IN /\ pin[p].pc = "open"
       /\ \E list \in Failed(e, q) : contexts' = [contexts EXCEPT ![e] = list]
       /\ UNCHANGED <<layoutVars, mapVars, views, registers, pin, written>>

-----------------------------------------------------------------------------
(* SarKsPinClose, in the order of its parts                                *)

DeactivatedMutant(e) == registers[e]
Deactivated(e) == [registers[e] EXCEPT !.active = FALSE]

CloseWritesGeneration(p, q) ==
    LET e == pin[p].endpoint
    IN /\ pin[p].pc = "open"
       /\ contexts' = [contexts EXCEPT ![e] = WithContext(e, q)]
       /\ registers' = [registers EXCEPT ![e] = Deactivated(e)]
       /\ pin' = [pin EXCEPT ![p].pc = "deactivated"]
       /\ UNCHANGED <<layoutVars, mapVars, views, written>>

\* The failure is logged, and the close goes on.
CloseMissesGeneration(p, q) ==
    LET e == pin[p].endpoint
    IN /\ pin[p].pc = "open"
       /\ \E list \in Failed(e, q) : contexts' = [contexts EXCEPT ![e] = list]
       /\ written' = written \ {e}
       /\ pin' = [pin EXCEPT ![p].pc = "deactivated"]
       /\ UNCHANGED <<layoutVars, mapVars, views, registers>>

\* The contexts that are taken off the list and deleted with their views.
DetachedMutant(p) == {CHOOSE c \in contexts[pin[p].endpoint] : TRUE}
Detached(p) == contexts[pin[p].endpoint]

CloseDetachesContexts(p) ==
    LET e == pin[p].endpoint
    IN /\ pin[p].pc = "deactivated"
       /\ views' = views \ {[process |-> c.process, endpoint |-> e, cells |-> c.bufferUVA]
                                : c \in Detached(p)}
       /\ contexts' = [contexts EXCEPT ![e] = {}]
       /\ pin' = [pin EXCEPT ![p].pc = "detached"]
       /\ UNCHANGED <<layoutVars, mapVars, registers, written>>

CloseClearsCells(p) ==
    LET e == pin[p].endpoint
    IN /\ pin[p].pc = "detached"
       /\ bufferMap' = bufferMap \ endpoint[e].cells
       /\ endpoint' = [endpoint EXCEPT ![e].cells = {}, ![e].activeChannelCount = 0]
       /\ pin' = [pin EXCEPT ![p].pc = "cleared"]
       /\ UNCHANGED <<layoutVars, abandoned, mappingVars, registers, written>>

CloseLeaves(p) ==
    /\ pin[p].pc = "cleared"
    /\ endpoint' = [endpoint EXCEPT ![pin[p].endpoint].activePin = NoPin]
    /\ pin' = [pin EXCEPT ![p] = IdlePin]
    /\ written' = written \ {pin[p].endpoint}
    /\ UNCHANGED <<layoutVars, bufferMap, abandoned, mappingVars, registers>>

SarKsPinGetBuffer(p) ==
    \/ \E q \in Clients[pin[p].endpoint], r \in Requests[pin[p].endpoint] :
          AllocateCells(p, q, r) \/ RefuseBuffer(p, q, r)
    \/ MapBuffer(p)
    \/ WriteBuffer(p)
    \/ GetBufferFails(p)

SarKsPinClose(p) ==
    \/ \E q \in Clients[pin[p].endpoint] : CloseWritesGeneration(p, q) \/ CloseMissesGeneration(p, q)
    \/ CloseDetachesContexts(p)
    \/ CloseClearsCells(p)
    \/ CloseLeaves(p)

\* What a pin's descriptor leads to: its properties, of which the ones that
\* change nothing are left out, and its dispatch table.
PinProperties(p) ==
    SarKsPinGetBuffer(p) \/ \E q \in Clients[pin[p].endpoint] : GetPositionRegister(p, q)
PinDispatch(p) ==
    \/ \E e \in Endpoints :
          \E q \in Clients[e], n \in FormatChannels[e] : PinCreate(p, e, q, n)
    \/ OpenPin(p) \/ OpenPinFails(p)
    \/ \E q \in Clients[pin[p].endpoint] : SetDeviceState(p, q) \/ SetDeviceStateFails(p, q)
    \/ SarKsPinClose(p)

Next ==
    \/ \E l \in Layouts : BuildLayout(l) \/ CommitLayout(l)
    \/ \E e \in Endpoints, mask \in Masks : SetAudioChannelConfig(e, mask)
    \/ \E p \in Pins : PinProperties(p) \/ PinDispatch(p)

Spec == Init /\ [][Next]_vars

-----------------------------------------------------------------------------
(* Properties                                                              *)

PinStates == {"none", "claimed", "open", "allocated", "mapped",
              "deactivated", "detached", "cleared"}

\* The types of the variables; every cell of the map is one of the section.
TypeOK ==
    /\ layout \in Layouts \cup {NoLayout}
    /\ building \subseteq Layouts
    /\ bufferMap \subseteq Cells /\ abandoned \subseteq Cells
    /\ endpoint \in [Endpoints -> [activePin : Pins \cup {NoPin},
                                   activeChannelCount : Nat, cells : SUBSET Cells,
                                   channelMask : Masks \cup {{}}]]
    /\ contexts \in [Endpoints -> SUBSET [process : Processes, bufferUVA : SUBSET Section]]
    /\ views \subseteq [process : Processes, endpoint : Endpoints, cells : SUBSET Section]
    /\ registers \in [Endpoints -> [active : BOOLEAN, bufferOffset : Nat, bufferSize : Nat]]
    /\ pin \in [Pins -> [pc : PinStates, endpoint : Endpoints,
                         process : Processes \cup {NoProcess}, channels : Nat, size : Nat]]
    /\ written \subseteq Endpoints

\* A view of cells, not of the whole section.
Sized(v) == v.cells \subseteq Cells

\* What a process has mapped is allocated, and two endpoints never share it:
\* no audio client reads or writes the samples of another endpoint's, not
\* even while the pin it got the buffer of is being closed.  This is so of
\* every view if the layout has a minimum of frames; if it has none, a client
\* that asks for a buffer of size 0 gets a view of the whole section.
ViewsAreAllocated ==
    /\ \A v \in views : Sized(v) => v.cells \subseteq bufferMap
    /\ \A v, w \in views :
          v.endpoint # w.endpoint /\ Sized(v) /\ Sized(w) => v.cells \cap w.cells = {}
    /\ \A v \in views : ~Sized(v) => layout.minimumFrameCount = 0

BufferCells(e) ==
    {i \in Cells : /\ (i + 1) * Cell > registers[e].bufferOffset
                   /\ i * Cell < registers[e].bufferOffset + registers[e].bufferSize}

\* While the registers of an endpoint are active, and tell the buffer of the
\* pin that is open or closing, the tick copies from and to allocated cells
\* that no other endpoint has: a close makes them inactive before it frees
\* them.  Once a close could not write them this is not so, until the next
\* pin's buffer; but also then they tell a part of the buffer.
ActiveBufferIsOwn ==
    /\ \A e \in Endpoints : (registers[e].active /\ e \in written) =>
          /\ BufferCells(e) \subseteq bufferMap
          /\ \A f \in Endpoints \ {e} :
                /\ BufferCells(e) \cap endpoint[f].cells = {}
                /\ \A v \in views :
                      v.endpoint = f /\ Sized(v) => BufferCells(e) \cap v.cells = {}
    /\ \A e \in Endpoints :
          registers[e].bufferOffset + registers[e].bufferSize <= layout.bufferSize

\* The map is exactly what the endpoints have and what was abandoned by a
\* second GetBuffer on a pin: a pin that is closed gives its cells back, and
\* only those.
CellsAccounted ==
    /\ bufferMap = abandoned \cup UNION {endpoint[e].cells : e \in Endpoints}
    /\ \A e \in Endpoints : endpoint[e].cells \cap abandoned = {}
    /\ \A e, f \in Endpoints : e # f => endpoint[e].cells \cap endpoint[f].cells = {}

\* What the driver offers it takes: the format of an intersection, and the
\* default format, can be proposed and set, an intersection has no more
\* channels than the caller's range, and the default format has a channel for
\* every speaker of the mask.
OfferedFormatsAccepted ==
    layout # NoLayout => \A e \in Endpoints :
        /\ getnbits(GetAudioChannelConfig(e)) <= GetDefaultDataFormat(e).channels
        /\ ProposeDataFormat(e, GetDefaultDataFormat(e))
        /\ SetDataFormat(e, GetDefaultDataFormat(e))
        /\ \A caller \in CallerRanges : Intersects(e, caller) =>
              LET format == IntersectHandler(e, caller)
              IN /\ ProposeDataFormat(e, format) /\ SetDataFormat(e, format)
                 /\ format.channels \in 1..caller.channels

\* However two requests on a handle race to set it, the layout that cells,
\* formats and mappings depend on is set once.
LayoutSetOnce == [][layout # NoLayout => layout' = layout]_layout

-----------------------------------------------------------------------------
(* The inductive invariant                                                 *)

\* A layout that is under way, or set, has been looked at, and no pin is open,
\* and nothing mapped, before it is set.
LayoutInv ==
    /\ \A l \in building : ValidLayout(l)
    /\ layout = NoLayout \/ ValidLayout(layout)
    /\ layout = NoLayout => views = {} /\ \A p \in Pins : pin[p].pc = "none"

\* The speakers are never more than the channels.
MaskInv == \A e \in Endpoints : MaskFits(e, endpoint[e].channelMask)

\* A pin in one of these states has the endpoint for its own.
ActivePinIn(e, states) ==
    endpoint[e].activePin \in Pins /\ pin[endpoint[e].activePin].pc \in states

\* The exchange of activePin keeps a second pin out, contexts and cells are
\* an open pin's, and the registers, if they tell its buffer, are active only
\* while it is open.
PinInv ==
    /\ \A p \in Pins, e \in Endpoints :
          endpoint[e].activePin = p <=> pin[p].pc # "none" /\ pin[p].endpoint = e
    /\ \A p \in Pins : pin[p].pc \in {"claimed", "allocated", "mapped"} => pin[p].process \in Processes
    /\ \A e \in Endpoints :
          /\ ~ActivePinIn(e, {"open", "allocated", "mapped", "deactivated"}) => contexts[e] = {}
          /\ ~ActivePinIn(e, {"open", "allocated", "mapped", "deactivated", "detached"}) =>
                endpoint[e].cells = {}
          /\ registers[e].active => e \notin written \/ ActivePinIn(e, {"open", "allocated", "mapped"})

\* What a pin has allocated: a run of cells that holds its buffer, none for a
\* buffer of size 0, and the context of the process that asked is there.
BufferInv ==
    \A p \in Pins : pin[p].pc \in {"allocated", "mapped"} =>
        LET e == pin[p].endpoint
            first == First(endpoint[e].cells)
            n == RoundUp(pin[p].size, Cell) \div Cell
        IN /\ endpoint[e].cells = first..(first + n - 1)
           /\ endpoint[e].cells = {} => layout.minimumFrameCount = 0
           /\ \E c \in contexts[e] : c.process = pin[p].process

\* A view is of the cells its endpoint has, and its process' context knows it,
\* or of abandoned ones, or else of the whole section.
ViewInv ==
    /\ \A v \in views :
          \/ v.cells \subseteq abandoned
          \/ /\ v.cells = endpoint[v.endpoint].cells
             /\ [process |-> v.process, bufferUVA |-> v.cells] \in contexts[v.endpoint]
          \/ v.cells = Section /\ layout.minimumFrameCount = 0
    /\ \A v, w \in views :
          v.endpoint # w.endpoint /\ Sized(v) /\ Sized(w) => v.cells \cap w.cells = {}

\* The registers of an open pin tell the cells its endpoint has, or abandoned
\* ones, which no other endpoint's views have, but the views of everything.
RegistersInv ==
    /\ \A e \in Endpoints : (e \in written /\ ActivePinIn(e, {"open", "allocated", "mapped"})) =>
          /\ BufferCells(e) \subseteq abandoned \/ BufferCells(e) \subseteq endpoint[e].cells
          /\ \A v \in views : v.endpoint # e /\ Sized(v) => BufferCells(e) \cap v.cells = {}
    /\ \A e \in Endpoints :
          registers[e].bufferOffset + registers[e].bufferSize <= layout.bufferSize

IInv ==
    /\ TypeOK /\ LayoutInv /\ MaskInv /\ PinInv /\ BufferInv
    /\ CellsAccounted /\ ViewInv /\ RegistersInv

=============================================================================
