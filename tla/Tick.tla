--------------------------------- MODULE Tick ---------------------------------
(***************************************************************************)
(* One endpoint's registers between the ASIO tick and the endpoint's pin.  *)
(*                                                                         *)
(* The driver writes the register file from the pin's handlers, the ASIO   *)
(* client reads it on every tick, copies a chunk between the endpoint's    *)
(* buffer and the ASIO buffers and advances the position.  The registers   *)
(* live in shared memory and are protected by no lock: the driver writes   *)
(* the generation last and makes it inactive when a pin is opened or       *)
(* closed, the tick reads it before and after the copy.  Every word read   *)
(* or written is a step.  The handlers of the pin are serialised by kernel *)
(* streaming; sizes and positions are in samples.                          *)
(***************************************************************************)
EXTENDS Integers, Sequences, FiniteSets

CONSTANTS
    ChannelCounts,  \* channel counts of the pins' formats
    Targets,        \* channels of the endpoint: its ASIO buffers
    Period,         \* periodFrameSize: frames of a tick
    MinFrames,      \* minimumFrameCount, in periods: two or more, or 0 for none
    Requests,       \* buffer sizes the audio clients ask for
    Notifications,  \* notification counts they ask for
    Offsets,        \* where the driver may put the buffer
    SharedSize,     \* _sharedBufferSize
    MaxPins         \* bound: how many pins are opened, one after the other

ASSUME TickAssumption ==
    /\ ChannelCounts \subseteq 1..Targets
    /\ Targets \in Nat /\ SharedSize \in Nat /\ MaxPins \in Nat
    /\ Period \in Nat \ {0} /\ MinFrames \in Nat \ {1}
    /\ Requests \subseteq Nat /\ Offsets \subseteq Nat
    /\ Notifications \subseteq 0..2

VARIABLES
    regs,    \* the endpoint's SarEndpointRegisters
    pin,     \* [state, channels, opened, buffer, event]: the pin
    write,   \* SarWriteEndpointRegisters under way: [words, regs, state]
    posted,  \* generations of the events posted to the handle queue
    ready,   \* how many of them a completed wait has for the client
    handle,  \* _notificationHandles[i].generation
    pc,      \* where the tick is
    seen     \* what the tick has read

pinVars == <<pin, write>>
handleVars == <<posted, ready, handle>>
tickVars == <<pc, seen>>
vars == <<regs, pinVars, handleVars, tickVars>>

Min2(a, b) == IF a < b THEN a ELSE b
RoundUp(n, unit) == ((n + unit - 1) \div unit) * unit

NoRegisters ==
    [generation |-> [number |-> 0, active |-> FALSE], positionRegister |-> 0,
     bufferOffset |-> 0, bufferSize |-> 0, notificationCount |-> 0,
     activeChannelCount |-> 0]
ClosedPin == [state |-> "closed", channels |-> 0, opened |-> 0,
              buffer |-> FALSE, event |-> FALSE]
NoWrite == [words |-> {}, regs |-> NoRegisters, state |-> "closed"]

Init ==
    /\ regs = NoRegisters
    /\ pin = ClosedPin
    /\ write = NoWrite
    /\ posted = <<>>
    /\ ready = 0
    /\ handle = 0
    /\ pc = "activeChannelCount"
    /\ seen = NoRegisters

-----------------------------------------------------------------------------
(* The pin's handlers                                                      *)

\* MemoryBarrier: the generation is written after all the others.
WriteOrder == [positionRegister |-> 1, bufferOffset |-> 2, bufferSize |-> 3,
               notificationCount |-> 4, activeChannelCount |-> 5, generation |-> 6]

Handling == write.words # {}

\* SarReadEndpointRegisters copied the registers; r is what the handler made
\* of the copy and now writes, state is the pin's state when it returns.  Of
\* the words only the driver writes, those that keep their value are left out.
StartWrite(r, state) ==
    LET words == {word \in DOMAIN WriteOrder :
                     word \in {"positionRegister", "generation"} \/ r[word] # regs[word]}
    IN write' = [words |-> words, regs |-> r, state |-> state]

WriteWord ==
    \E word \in write.words :
        /\ \A other \in write.words : WriteOrder[word] <= WriteOrder[other]
        /\ regs' = [regs EXCEPT ![word] = write.regs[word]]
        /\ IF write.words = {word}
           THEN /\ write' = NoWrite
                /\ pin' = [pin EXCEPT !.state = write.state]
           ELSE /\ write' = [write EXCEPT !.words = @ \ {word}]
                /\ UNCHANGED pin
        /\ UNCHANGED <<handleVars, tickVars>>

\* MAKE_GENERATION of the next number, not active.
NextGeneration == [number |-> regs.generation.number + 1, active |-> FALSE]

PinCreate(channels) ==
    /\ ~Handling /\ pin.state = "closed" /\ pin.opened < MaxPins
    /\ pin' = [state |-> "closed", channels |-> channels, opened |-> pin.opened + 1,
               buffer |-> FALSE, event |-> FALSE]
    /\ StartWrite([regs EXCEPT !.generation = NextGeneration,
                               !.activeChannelCount = channels], "STOP")
    /\ UNCHANGED <<regs, handleVars, tickVars>>

PinClose ==
    /\ ~Handling /\ pin.state # "closed"
    /\ StartWrite([regs EXCEPT !.generation = NextGeneration], "closed")
    /\ UNCHANGED <<regs, pin, handleVars, tickVars>>

\* The audio engine gets the buffer of a pin once, before the pin runs.
ActualSizeMutant(request) == RoundUp(request, pin.channels)
ActualSize(request) ==
    LET least == MinFrames * Period * pin.channels
    IN RoundUp(IF request < least THEN least ELSE request, pin.channels)

GetBuffer(request, notifications, offset) ==
    /\ ~Handling /\ pin.state \in {"STOP", "PAUSE"} /\ ~pin.buffer
    /\ offset + ActualSize(request) <= SharedSize
    /\ pin' = [pin EXCEPT !.buffer = TRUE]
    /\ StartWrite([regs EXCEPT !.bufferOffset = offset,
                               !.bufferSize = ActualSize(request),
                               !.notificationCount = notifications], pin.state)
    /\ UNCHANGED <<regs, handleVars, tickVars>>

\* KSSTATE_ACQUIRE is not told from KSSTATE_PAUSE: the handler treats them alike.
Transitions == {<<"STOP", "PAUSE">>, <<"PAUSE", "RUN">>,
                <<"RUN", "PAUSE">>, <<"PAUSE", "STOP">>}

ResetsPosition(from, to) == (from = "STOP") # (to = "STOP")

SetDeviceState(to) ==
    /\ ~Handling /\ <<pin.state, to>> \in Transitions
    /\ to = "RUN" => pin.buffer
    /\ StartWrite([regs EXCEPT !.generation.active = (to = "RUN"),
                               !.positionRegister =
                                   IF ResetsPosition(pin.state, to) THEN 0 ELSE @], to)
    /\ UNCHANGED <<regs, pin, handleVars, tickVars>>

\* The event is tagged with the generation the registers have now.
RegisterNotificationEvent ==
    /\ ~Handling /\ pin.buffer /\ ~pin.event
    /\ pin' = [pin EXCEPT !.event = TRUE]
    /\ posted' = Append(posted, regs.generation.number)
    /\ UNCHANGED <<regs, write, ready, handle, tickVars>>

\* The driver completes the client's wait with what is posted.
CompleteWait ==
    /\ ready < Len(posted)
    /\ ready' = Len(posted)
    /\ UNCHANGED <<regs, pinVars, posted, handle, tickVars>>

-----------------------------------------------------------------------------
(* The tick                                                                *)

\* _registers is volatile: the words are read in the order of the program.
AfterReading ==
    [activeChannelCount |-> "generation", generation |-> "bufferOffset",
     bufferOffset |-> "bufferSize", bufferSize |-> "positionRegister",
     positionRegister |-> "notificationCount", notificationCount |-> "handles"]

ReadWord ==
    /\ pc \in DOMAIN AfterReading
    /\ seen' = [seen EXCEPT ![pc] = regs[pc]]
    /\ pc' = AfterReading[pc]
    /\ UNCHANGED <<regs, pinVars, handleVars>>

\* updateNotificationHandles: the handles of a completed wait replace the
\* one the client has, the last one stays.
UpdateHandlesMutant ==
    /\ pc = "handles"
    /\ pc' = "check"
    /\ IF seen.notificationCount > 0 /\ seen.generation.number # handle /\ ready > 0
       THEN /\ handle' = posted[1]
            /\ posted' = SubSeq(posted, ready + 1, Len(posted))
            /\ ready' = 0
       ELSE UNCHANGED handleVars
    /\ UNCHANGED <<regs, pinVars, seen>>
ProcessedTwiceMutant ==
    /\ pc = "handles"
    /\ pc' = "check"
    /\ IF seen.notificationCount > 0 /\ seen.generation.number # handle /\ ready > 0
       THEN /\ handle' = posted[ready]
            /\ posted' = SubSeq(posted, ready + 1, Len(posted))
            /\ UNCHANGED ready
       ELSE UNCHANGED handleVars
    /\ UNCHANGED <<regs, pinVars, seen>>
UpdateHandles ==
    /\ pc = "handles"
    /\ pc' = "check"
    /\ IF seen.notificationCount > 0 /\ seen.generation.number # handle /\ ready > 0
       THEN /\ handle' = posted[ready]
            /\ posted' = SubSeq(posted, ready + 1, Len(posted))
            /\ ready' = 0
       ELSE UNCHANGED handleVars
    /\ UNCHANGED <<regs, pinVars, seen>>

\* The tick forgets what it read and waits for the next one.
EndTick == pc' = "activeChannelCount" /\ seen' = NoRegisters

Usable ==
    /\ seen.generation.active
    /\ seen.bufferSize # 0
    /\ seen.positionRegister <= seen.bufferSize
    /\ seen.bufferOffset + seen.bufferSize <= SharedSize

\* No audio client, or registers the tick cannot use.
Silence ==
    /\ pc = "check" /\ ~Usable
    /\ EndTick
    /\ UNCHANGED <<regs, pinVars, handleVars>>

FrameChunkSize == Period * seen.activeChannelCount
FirstSize == Min2(FrameChunkSize, seen.bufferSize - seen.positionRegister)
SecondSize == FrameChunkSize - FirstSize
NextPosition == (seen.positionRegister + FrameChunkSize) % seen.bufferSize

\* demux and mux: for channel i, where the j-th sample is in the shared
\* buffer and how much is left of the part it is in.  The copy stops when
\* less than a frame is left.
WalkMutant(i) ==
    LET stride == seen.activeChannelCount
        f[j \in 0..(Period - 1)] ==
            IF j = 0 THEN [at |-> seen.bufferOffset + seen.positionRegister + i,
                           left |-> FirstSize]
            ELSE LET p == f[j - 1]
                 IN CASE p.left < stride -> p
                      [] p.left = stride -> [at |-> seen.bufferOffset, left |-> SecondSize]
                      [] OTHER -> [at |-> p.at + stride, left |-> p.left - stride]
    IN f
Walk(i) ==
    LET stride == seen.activeChannelCount
        f[j \in 0..(Period - 1)] ==
            IF j = 0 THEN [at |-> seen.bufferOffset + seen.positionRegister + i,
                           left |-> FirstSize]
            ELSE LET p == f[j - 1]
                 IN CASE p.left < stride -> p
                      [] p.left = stride -> [at |-> seen.bufferOffset + i,
                                             left |-> SecondSize]
                      [] OTHER -> [at |-> p.at + stride, left |-> p.left - stride]
    IN f

\* The channels that are copied; the others are silenced or not written.
CopiedChannels == 0..(Min2(seen.activeChannelCount, Targets) - 1)
CopiedSamples(i) == {j \in 0..(Period - 1) : Walk(i)[j].left >= seen.activeChannelCount}

CopyChunk ==
    /\ pc = "check" /\ Usable
    /\ pc' = "late"
    /\ UNCHANGED <<regs, pinVars, handleVars, seen>>

SameGenerationMutant == regs.generation.active
SameGeneration ==
    /\ regs.generation.active
    /\ regs.generation.number = seen.generation.number

\* The generation is read again; another one discards the chunk.
CheckLateGeneration ==
    /\ pc = "late"
    /\ IF SameGeneration
       THEN pc' = "deliver" /\ UNCHANGED seen
       ELSE EndTick
    /\ UNCHANGED <<regs, pinVars, handleVars>>

\* Crossing the end of the buffer, or with two notifications its middle.
Crossing ==
    LET half == seen.bufferSize \div 2
    IN \/ /\ seen.notificationCount >= 1
          /\ seen.positionRegister >= half
          /\ NextPosition < half
       \/ /\ seen.notificationCount >= 2
          /\ NextPosition >= half
          /\ seen.positionRegister < half

\* The position is written, with the event set on a crossing; a crossing
\* without the event of this generation gives silence instead.
Deliver ==
    /\ pc = "deliver"
    /\ IF Crossing /\ handle # seen.generation.number
       THEN UNCHANGED regs
       ELSE regs' = [regs EXCEPT !.positionRegister = NextPosition]
    /\ EndTick
    /\ UNCHANGED <<pinVars, handleVars>>

TickStep == ReadWord \/ UpdateHandles \/ Silence \/ CopyChunk
            \/ CheckLateGeneration \/ Deliver

Next ==
    \/ WriteWord
    \/ \E channels \in ChannelCounts : PinCreate(channels)
    \/ \E r \in Requests, n \in Notifications, o \in Offsets : GetBuffer(r, n, o)
    \/ \E to \in {"STOP", "PAUSE", "RUN"} : SetDeviceState(to)
    \/ RegisterNotificationEvent
    \/ PinClose
    \/ CompleteWait
    \/ TickStep

Spec == Init /\ [][Next]_vars

\* The ASIO driver ticks forever, a handler writes all its words, and the
\* driver completes a wait once an event is posted.
FairSpec == Spec /\ WF_vars(TickStep) /\ WF_vars(WriteWord) /\ WF_vars(CompleteWait)

-----------------------------------------------------------------------------
(* Properties                                                              *)

Registers ==
    [generation : [number : Nat, active : BOOLEAN], positionRegister : Nat,
     bufferOffset : Nat, bufferSize : Nat, notificationCount : 0..2,
     activeChannelCount : 0..Targets]

\* The types of the registers, the pin and the tick's copy of the registers.
TypeOK ==
    /\ regs \in Registers /\ seen \in Registers
    /\ write \in [words : SUBSET DOMAIN WriteOrder, regs : Registers,
                  state : {"closed", "STOP", "PAUSE", "RUN"}]
    /\ pin \in [state : {"closed", "STOP", "PAUSE", "RUN"}, channels : 0..Targets,
                opened : 0..MaxPins, buffer : BOOLEAN, event : BOOLEAN]
    /\ posted \in Seq(Nat) /\ ready \in 0..Len(posted) /\ handle \in Nat
    /\ pc \in DOMAIN AfterReading \cup {"handles", "check", "late", "deliver"}

Delivers == pc = "late" /\ pc' = "deliver"

\* A chunk that passes the late check of the generation was copied from, or
\* to, the buffer of the pin that is running then: the offset and the size
\* are not torn between two pins, although no lock protects their reading.
ChunkInRunningPinsBuffer ==
    [][Delivers => /\ seen.bufferOffset = regs.bufferOffset
                   /\ seen.bufferSize = regs.bufferSize]_vars

\* The other half of "discard everything when the client is not the same":
\* a chunk that passes the late check has the frames of the running pin.
ChunkHasRunningPinsChannels ==
    [][Delivers => seen.activeChannelCount = regs.activeChannelCount]_vars

\* What a chunk of the running pin is: a whole number of frames, the
\* position at a frame's start, and a buffer that holds it.
Aligned ==
    /\ seen.activeChannelCount > 0
    /\ seen.positionRegister < seen.bufferSize
    /\ seen.positionRegister % seen.activeChannelCount = 0
    /\ seen.bufferSize % seen.activeChannelCount = 0
    /\ FrameChunkSize <= seen.bufferSize

\* demux and mux move sample j of channel i from or to its place in the ring,
\* each one, on both sides of the wrap, and touch nothing outside the buffer.
CopyFollowsRing ==
    (pc = "late" /\ Aligned) =>
        \A i \in CopiedChannels :
            /\ CopiedSamples(i) = 0..(Period - 1)
            /\ \A j \in 0..(Period - 1) :
                  LET n == seen.positionRegister + j * seen.activeChannelCount + i
                  IN Walk(i)[j].at = seen.bufferOffset + (n % seen.bufferSize)

\* With the smallest buffer the driver allows (minimumFrameCount) no chunk
\* passes the end of the buffer unseen: a client that asked for
\* notifications is woken each time the position wraps.
EndIsNotified ==
    [][(/\ Delivers
        /\ seen.activeChannelCount = regs.activeChannelCount
        /\ seen.positionRegister < seen.bufferSize
        /\ seen.notificationCount >= 1
        /\ NextPosition <= seen.positionRegister) => Crossing]_vars

\* The client runs, and if it wants notifications its event is registered.
Streaming ==
    /\ pin.state = "RUN" /\ ~Handling
    /\ regs.notificationCount > 0 => pin.event
    /\ regs.positionRegister < regs.bufferSize

\* The chunk moves the position, and is not silenced for want of an event.
Advances == pc = "deliver" /\ (Crossing => handle = seen.generation.number)

\* While a client streams, its position keeps moving, whatever the tick had
\* read of earlier pins: the late check only discards chunks that race.
StreamingAdvances == Streaming ~> (~Streaming \/ Advances)

-----------------------------------------------------------------------------
(* The inductive invariant                                                 *)

\* A handler writes the generation last: the next number for a pin that is
\* made or closed, and the same number otherwise.
WriteInv ==
    /\ ~Handling => write = NoWrite
    /\ Handling =>
          /\ "generation" \in write.words
          /\ \A word \in DOMAIN WriteOrder \ (write.words \cup {"positionRegister"}) :
                write.regs[word] = regs[word]
          /\ IF pin.state = "closed" \/ write.state = "closed"
             THEN ~write.regs.generation.active
                  /\ write.regs.generation.number = regs.generation.number + 1
             ELSE write.regs.generation.number = regs.generation.number
          /\ pin.state = "closed" => write.state # "closed"

\* The words of the buffer keep their values while they are written.
Settled ==
    Handling => /\ write.regs.bufferOffset = regs.bufferOffset
                /\ write.regs.bufferSize = regs.bufferSize

\* Only a pin that has its buffer is active, so that a handler that changes
\* the words of the buffer meets, and leaves, registers that are not active.
ActiveInv ==
    /\ pin.state = "closed" => ~regs.generation.active
    /\ regs.generation.active => pin.buffer /\ Settled
    /\ Handling /\ write.regs.generation.active => pin.buffer /\ Settled

LargeEnough(size) == size >= MinFrames * Period * pin.channels

\* The pin's channels, and a buffer that holds its frames.
SizeInv ==
    /\ pin.state # "closed" =>
          /\ pin.channels \in 1..Targets /\ regs.activeChannelCount = pin.channels
          /\ Handling => write.regs.activeChannelCount = pin.channels
    /\ pin.state = "closed" /\ Handling =>
          pin.channels \in 1..Targets /\ write.regs.activeChannelCount = pin.channels
    /\ pin.buffer => LargeEnough(IF Handling THEN write.regs.bufferSize ELSE regs.bufferSize)

\* A generation that was active when it was read, and is the registers' still,
\* is that of an open pin: the buffer's words are what they were then.
SeenInv ==
    /\ seen.generation.number <= regs.generation.number
    /\ pc \in {"activeChannelCount", "generation"} => ~seen.generation.active
    /\ (seen.generation.active /\ seen.generation.number = regs.generation.number) =>
          /\ pin.state # "closed" /\ pin.buffer /\ Settled
          /\ pc = "bufferOffset" \/ seen.bufferOffset = regs.bufferOffset
          /\ pc \in {"bufferOffset", "bufferSize"} \/ seen.bufferSize = regs.bufferSize
    /\ pc \in {"late", "deliver"} => Usable

IInv == TypeOK /\ WriteInv /\ ActiveInv /\ SizeInv /\ SeenInv

=============================================================================
