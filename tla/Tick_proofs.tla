------------------------------ MODULE Tick_proofs ------------------------------
(* Safety of Tick: what the tick may rely on without a lock. *)
EXTENDS Tick, SequenceTheorems, WellFoundedInduction, TLAPS

-----------------------------------------------------------------------------
(* Arithmetic *)

LEMMA Product ==
    ASSUME NEW a \in Nat, NEW b \in Nat
    PROVE  a * b \in Nat /\ (a > 0 /\ b > 0 => a * b > 0)
OBVIOUS

LEMMA Quotient ==
    ASSUME NEW a \in Nat, NEW b \in Nat \ {0}
    PROVE  /\ a \div b \in Nat
           /\ (a \div b) * b <= a
           /\ a < (a \div b) * b + b
OBVIOUS

LEMMA Rounded ==
    ASSUME NEW n \in Nat, NEW unit \in Nat \ {0}
    PROVE  /\ RoundUp(n, unit) \in Nat /\ RoundUp(n, unit) >= n
           /\ (RoundUp(n, unit) \div unit) \in Nat
           /\ (RoundUp(n, unit) \div unit) * unit = RoundUp(n, unit)
<1>. DEFINE k == (n + unit - 1) \div unit
<1>1. n + unit - 1 \in Nat
  OBVIOUS
<1>2. k \in Nat /\ n + unit - 1 < k * unit + unit
  BY <1>1, Quotient
<1>3. RoundUp(n, unit) = k * unit /\ k * unit \in Nat
  BY <1>2, Product DEF RoundUp
<1>4. (k * unit) \div unit = k
  BY <1>2, <1>3
<1>. HIDE DEF k
<1>. QED BY <1>2, <1>3, <1>4

LEMMA Growth ==
    ASSUME NEW x \in Nat, NEW y \in Nat, NEW b \in Nat, x >= y
    PROVE  x * b >= y * b
OBVIOUS

LEMMA Smaller ==
    ASSUME NEW x \in Nat, NEW y \in Nat, NEW b \in Nat \ {0}
    PROVE  (x < y <=> x * b < y * b) /\ (x <= y <=> x * b <= y * b)
<1>1. y >= x + 1 => y * b >= (x + 1) * b
  BY Growth
<1>2. (x + 1) * b = x * b + b
  OBVIOUS
<1>3. x >= y => x * b >= y * b
  BY Growth
<1>4. y >= x => y * b >= x * b
  BY Growth
<1>5. x * b \in Nat /\ y * b \in Nat /\ (x + 1) * b \in Nat
  BY Product
<1>6. x >= y + 1 => x * b >= (y + 1) * b
  BY Growth
<1>7. (y + 1) * b = y * b + b
  OBVIOUS
<1>. QED BY <1>1, <1>2, <1>3, <1>4, <1>5, <1>6, <1>7

LEMMA Wrapped ==
    ASSUME NEW n \in Nat, NEW size \in Nat \ {0}, size <= n, n < 2 * size
    PROVE  n % size = n - size
<1>1. n = (n \div size) * size + (n % size) /\ (n % size) \in 0..(size - 1)
  OBVIOUS
<1>2. n \div size \in Nat
  BY Quotient
<1>3. n \div size >= 2 => (n \div size) * size >= 2 * size
  BY <1>2, Growth
<1>4. n \div size = 1
  BY <1>1, <1>2, <1>3
<1>. QED BY <1>1, <1>4

LEMMA WholeFrames ==
    ASSUME NEW n \in Nat, NEW unit \in Nat \ {0}, n % unit = 0
    PROVE  \E k \in Nat : n = k * unit
<1>1. n = (n \div unit) * unit + (n % unit)
  OBVIOUS
<1>2. PICK k \in Nat : k = n \div unit
  BY Quotient
<1>. QED BY <1>1, <1>2

LEMMA LeastElement ==
    ASSUME NEW S \in SUBSET Nat, S # {}
    PROVE  \E x \in S : \A y \in S : x <= y
<1>. DEFINE R == {p \in Nat \X Nat : p[1] < p[2]}
<1>1. IsWellFoundedOn(R, Nat)
  BY NatLessThanWellFounded DEF OpToRel
<1>2. \E x \in S : \A y \in S : ~(<<y, x>> \in R)
  BY <1>1, WFMin
<1>3. ASSUME NEW x \in Nat, NEW y \in Nat, ~(<<y, x>> \in R)
      PROVE  x <= y
  <2>1. ~(y < x)
    BY <1>3
  <2>. QED BY <2>1
<1>. HIDE DEF R
<1>. QED BY <1>2, <1>3

-----------------------------------------------------------------------------
(* The words of the registers *)

LEMMA Words ==
    /\ DOMAIN WriteOrder = {"positionRegister", "bufferOffset", "bufferSize",
                            "notificationCount", "activeChannelCount", "generation"}
    /\ \A word \in DOMAIN WriteOrder :
          word # "generation" => ~(WriteOrder["generation"] <= WriteOrder[word])
BY DEF WriteOrder

PinStates == {"closed", "STOP", "PAUSE", "RUN"}
PinRecords == [state : PinStates, channels : 0..Targets, opened : 0..MaxPins,
               buffer : BOOLEAN, event : BOOLEAN]
TickStates == {"activeChannelCount", "generation", "bufferOffset", "bufferSize",
               "positionRegister", "notificationCount", "handles", "check", "late", "deliver"}

LEMMA TypedParts ==
    TypeOK <=> /\ regs \in Registers /\ seen \in Registers
               /\ write \in [words : SUBSET DOMAIN WriteOrder, regs : Registers, state : PinStates]
               /\ pin \in PinRecords
               /\ posted \in Seq(Nat) /\ ready \in 0..Len(posted) /\ handle \in Nat
               /\ pc \in TickStates
<1>1. DOMAIN AfterReading \cup {"handles", "check", "late", "deliver"} = TickStates
  BY DEF AfterReading, TickStates
<1>. QED BY <1>1 DEF TypeOK, PinStates, PinRecords

\* What the tick leaves of the types to show.
LEMMA TickTyped ==
    ASSUME TypeOK, UNCHANGED <<pin, write>>, regs' \in Registers, seen' \in Registers,
           posted' \in Seq(Nat), ready' \in 0..Len(posted'), handle' \in Nat,
           pc' \in TickStates
    PROVE  TypeOK'
<1>1. pc' \in DOMAIN AfterReading \cup {"handles", "check", "late", "deliver"}
  BY DEF AfterReading, TickStates
<1>. QED BY <1>1 DEF TypeOK

LEMMA InitIInv == Init => IInv
<1>. SUFFICES ASSUME Init PROVE IInv
  OBVIOUS
<1>1. NoRegisters \in Registers
  BY TickAssumption DEF NoRegisters, Registers
<1>2. TypeOK
  <2>1. ClosedPin \in PinRecords
    BY TickAssumption DEF ClosedPin, PinRecords, PinStates
  <2>2. <<>> \in Seq(Nat) /\ Len(<<>>) = 0
    OBVIOUS
  <2>. QED BY <1>1, <2>1, <2>2, TypedParts DEF Init, NoWrite, PinStates, TickStates
<1>3. WriteInv /\ ActiveInv /\ SizeInv
  BY DEF Init, WriteInv, ActiveInv, SizeInv, Handling, NoWrite, ClosedPin, NoRegisters
<1>4. SeenInv
  BY DEF Init, SeenInv, NoRegisters
<1>. QED BY <1>2, <1>3, <1>4 DEF IInv

-----------------------------------------------------------------------------
(* The pin's handlers *)

\* What a handler is about to write; a word it leaves out has its value.
LEMMA StartWriteWords ==
    ASSUME NEW r, NEW state, StartWrite(r, state)
    PROVE  /\ Handling' /\ "generation" \in write'.words
           /\ write'.regs = r /\ write'.state = state
           /\ write'.words \subseteq DOMAIN WriteOrder
           /\ write' = [words |-> write'.words, regs |-> r, state |-> state]
           /\ \A word \in DOMAIN WriteOrder \ (write'.words \cup {"positionRegister"}) :
                 r[word] = regs[word]
<1>. DEFINE words == {word \in DOMAIN WriteOrder :
                         word \in {"positionRegister", "generation"} \/ r[word] # regs[word]}
<1>1. write' = [words |-> words, regs |-> r, state |-> state]
  BY DEF StartWrite
<1>2. write'.words = words /\ write'.regs = r /\ write'.state = state
  BY <1>1
<1>3. "generation" \in words
  BY Words
<1>. QED BY <1>1, <1>2, <1>3 DEF Handling

LEMMA NextGenerationTyped ==
    ASSUME TypeOK
    PROVE  /\ NextGeneration \in [number : Nat, active : BOOLEAN]
           /\ ~NextGeneration.active
           /\ NextGeneration.number = regs.generation.number + 1
<1>1. regs.generation.number \in Nat
  BY TypedParts DEF Registers
<1>. QED BY <1>1 DEF NextGeneration

LEMMA PinCreateKeeps ==
    ASSUME IInv, NEW channels \in ChannelCounts, PinCreate(channels)
    PROVE  IInv'
<1>. DEFINE r == [regs EXCEPT !.generation = NextGeneration, !.activeChannelCount = channels]
<1>1. /\ ~Handling /\ pin.state = "closed" /\ pin.opened < MaxPins
      /\ pin' = [state |-> "closed", channels |-> channels, opened |-> pin.opened + 1,
                 buffer |-> FALSE, event |-> FALSE]
      /\ StartWrite(r, "STOP")
      /\ UNCHANGED <<regs, posted, ready, handle, pc, seen>>
  BY DEF PinCreate, handleVars, tickVars
<1>2. channels \in 1..Targets
  BY TickAssumption
<1>3. /\ r \in Registers /\ r.generation = NextGeneration /\ r.activeChannelCount = channels
      /\ ~r.generation.active /\ r.generation.number = regs.generation.number + 1
  <2>1. regs \in Registers
    BY TypedParts DEF IInv
  <2>2. r \in Registers
    <3>1. NextGeneration \in [number : Nat, active : BOOLEAN] /\ channels \in 0..Targets
      BY <1>2, NextGenerationTyped, TickAssumption DEF IInv
    <3>. HIDE DEF NextGeneration
    <3>. QED BY <2>1, <3>1 DEF Registers
  <2>3. r.generation = NextGeneration /\ r.activeChannelCount = channels
    BY <2>1 DEF Registers
  <2>. QED BY <2>2, <2>3, NextGenerationTyped DEF IInv
<1>. HIDE DEF r
<1>4. /\ Handling' /\ "generation" \in write'.words
      /\ write'.regs = r /\ write'.state = "STOP"
      /\ write'.words \subseteq DOMAIN WriteOrder
      /\ write' = [words |-> write'.words, regs |-> r, state |-> write'.state]
      /\ \A word \in DOMAIN WriteOrder \ (write'.words \cup {"positionRegister"}) :
            r[word] = regs[word]
  BY <1>1, StartWriteWords
<1>5. TypeOK'
  <2>1. pin' \in PinRecords
    <3>1. pin \in PinRecords
      BY TypedParts DEF IInv
    <3>. QED BY <1>1, <1>2, <3>1, TickAssumption DEF PinRecords, PinStates
  <2>. QED BY <1>1, <1>3, <1>4, <2>1, TypedParts DEF IInv, TypeOK, PinRecords, PinStates
<1>6. WriteInv'
  BY <1>1, <1>3, <1>4 DEF WriteInv
<1>7. ~regs.generation.active
  BY <1>1 DEF IInv, ActiveInv
<1>8. ActiveInv' /\ SizeInv'
  BY <1>1, <1>2, <1>3, <1>4, <1>7 DEF ActiveInv, SizeInv
<1>9. SeenInv'
  BY <1>1 DEF IInv, SeenInv, Usable
<1>. QED BY <1>5, <1>6, <1>8, <1>9 DEF IInv

LEMMA PinCloseKeeps ==
    ASSUME IInv, PinClose
    PROVE  IInv'
<1>. DEFINE r == [regs EXCEPT !.generation = NextGeneration]
<1>1. /\ ~Handling /\ pin.state # "closed"
      /\ StartWrite(r, "closed")
      /\ UNCHANGED <<regs, pin, posted, ready, handle, pc, seen>>
  BY DEF PinClose, handleVars, tickVars
<1>2. /\ r \in Registers
      /\ ~r.generation.active /\ r.generation.number = regs.generation.number + 1
      /\ r.bufferOffset = regs.bufferOffset /\ r.bufferSize = regs.bufferSize
      /\ r.activeChannelCount = regs.activeChannelCount
  <2>1. regs \in Registers
    BY TypedParts DEF IInv
  <2>2. r \in Registers
    BY <2>1, NextGenerationTyped DEF IInv, Registers
  <2>3. /\ r.generation = NextGeneration
        /\ r.bufferOffset = regs.bufferOffset /\ r.bufferSize = regs.bufferSize
        /\ r.activeChannelCount = regs.activeChannelCount
    BY <2>1 DEF Registers
  <2>. QED BY <2>2, <2>3, NextGenerationTyped DEF IInv
<1>. HIDE DEF r
<1>3. /\ Handling' /\ "generation" \in write'.words
      /\ write'.regs = r /\ write'.state = "closed"
      /\ write'.words \subseteq DOMAIN WriteOrder
      /\ write' = [words |-> write'.words, regs |-> r, state |-> write'.state]
      /\ \A word \in DOMAIN WriteOrder \ (write'.words \cup {"positionRegister"}) :
            r[word] = regs[word]
  BY <1>1, StartWriteWords
<1>4. TypeOK'
  BY <1>1, <1>2, <1>3, TypedParts DEF IInv, TypeOK, PinStates
<1>5. WriteInv'
  BY <1>1, <1>2, <1>3 DEF WriteInv
<1>6. Settled'
  BY <1>1, <1>2, <1>3 DEF Settled
<1>7. ActiveInv' /\ SizeInv'
  BY <1>1, <1>2, <1>3, <1>6 DEF IInv, ActiveInv, SizeInv, LargeEnough
<1>8. SeenInv'
  BY <1>1, <1>6 DEF IInv, SeenInv, Usable
<1>. QED BY <1>4, <1>5, <1>7, <1>8 DEF IInv

LEMMA SetDeviceStateKeeps ==
    ASSUME IInv, NEW to \in {"STOP", "PAUSE", "RUN"}, SetDeviceState(to)
    PROVE  IInv'
<1>. DEFINE r == [regs EXCEPT !.generation.active = (to = "RUN"),
                              !.positionRegister = IF ResetsPosition(pin.state, to) THEN 0 ELSE @]
<1>1. /\ ~Handling /\ <<pin.state, to>> \in Transitions
      /\ to = "RUN" => pin.buffer
      /\ StartWrite(r, to)
      /\ UNCHANGED <<regs, pin, posted, ready, handle, pc, seen>>
  BY DEF SetDeviceState, handleVars, tickVars
<1>2. pin.state # "closed"
  BY <1>1 DEF Transitions
<1>3. /\ r \in Registers
      /\ r.generation.active => pin.buffer
      /\ r.generation.number = regs.generation.number
      /\ r.bufferOffset = regs.bufferOffset /\ r.bufferSize = regs.bufferSize
      /\ r.activeChannelCount = regs.activeChannelCount
  <2>1. regs \in Registers
    BY TypedParts DEF IInv
  <2>. QED BY <1>1, <2>1 DEF Registers
<1>. HIDE DEF r
<1>4. /\ Handling' /\ "generation" \in write'.words
      /\ write'.regs = r /\ write'.state = to
      /\ write'.words \subseteq DOMAIN WriteOrder
      /\ write' = [words |-> write'.words, regs |-> r, state |-> write'.state]
      /\ \A word \in DOMAIN WriteOrder \ (write'.words \cup {"positionRegister"}) :
            r[word] = regs[word]
  BY <1>1, StartWriteWords
<1>5. TypeOK'
  BY <1>1, <1>3, <1>4, TypedParts DEF IInv, TypeOK, PinStates
<1>6. WriteInv'
  BY <1>1, <1>2, <1>3, <1>4 DEF WriteInv
<1>7. Settled'
  BY <1>1, <1>3, <1>4 DEF Settled
<1>8. ActiveInv' /\ SizeInv'
  BY <1>1, <1>2, <1>3, <1>4, <1>7 DEF IInv, ActiveInv, SizeInv, LargeEnough
<1>9. SeenInv'
  BY <1>1, <1>7 DEF IInv, SeenInv, Usable
<1>. QED BY <1>5, <1>6, <1>8, <1>9 DEF IInv

\* A buffer is at least as large as the layout's minimum.
LEMMA ActualSizeLarge ==
    ASSUME TypeOK, NEW request \in Requests, pin.channels \in Nat \ {0}
    PROVE  ActualSize(request) \in Nat /\ LargeEnough(ActualSize(request))
<1>. DEFINE least == MinFrames * Period * pin.channels
            size == IF request < least THEN least ELSE request
            n == (size + pin.channels - 1) \div pin.channels
<1>1. least \in Nat
  <2>1. MinFrames \in Nat /\ Period \in Nat /\ pin.channels \in Nat
    BY TickAssumption
  <2>2. MinFrames * Period \in Nat
    BY <2>1, Product
  <2>. QED BY <2>1, <2>2, Product
<1>. HIDE DEF least
<1>2. request \in Nat
  BY TickAssumption
<1>3. size \in Nat /\ size >= least
  BY <1>1, <1>2
<1>. HIDE DEF size
<1>4. ActualSize(request) \in Nat /\ ActualSize(request) >= size
  BY <1>3, Rounded DEF ActualSize, least, size
<1>. QED BY <1>1, <1>3, <1>4 DEF LargeEnough, least

LEMMA GetBufferKeeps ==
    ASSUME IInv, NEW request \in Requests, NEW notifications \in Notifications,
           NEW offset \in Offsets, GetBuffer(request, notifications, offset)
    PROVE  IInv'
<1>. DEFINE r == [regs EXCEPT !.bufferOffset = offset, !.bufferSize = ActualSize(request),
                              !.notificationCount = notifications]
<1>1. /\ ~Handling /\ pin.state \in {"STOP", "PAUSE"} /\ ~pin.buffer
      /\ pin' = [pin EXCEPT !.buffer = TRUE]
      /\ StartWrite(r, pin.state)
      /\ UNCHANGED <<regs, posted, ready, handle, pc, seen>>
  BY DEF GetBuffer, handleVars, tickVars
<1>2. pin.channels \in Nat \ {0}
  BY <1>1 DEF IInv, SizeInv
<1>3. ActualSize(request) \in Nat /\ LargeEnough(ActualSize(request))
  BY <1>2, ActualSizeLarge DEF IInv
<1>4. /\ r \in Registers
      /\ r.generation = regs.generation /\ r.activeChannelCount = regs.activeChannelCount
      /\ LargeEnough(r.bufferSize)
  <2>1. regs \in Registers
    BY TypedParts DEF IInv
  <2>2. PICK size \in Nat : size = ActualSize(request) /\ LargeEnough(size)
    BY <1>3
  <2>3. r = [regs EXCEPT !.bufferOffset = offset, !.bufferSize = size,
                         !.notificationCount = notifications]
    BY <2>2
  <2>. HIDE DEF r
  <2>4. offset \in Nat /\ notifications \in 0..2
    BY TickAssumption
  <2>5. r \in Registers
    BY <2>1, <2>2, <2>3, <2>4 DEF Registers
  <2>6. /\ r.generation = regs.generation /\ r.activeChannelCount = regs.activeChannelCount
        /\ r.bufferSize = size
    BY <2>1, <2>3 DEF Registers
  <2>. QED BY <2>2, <2>5, <2>6
<1>. HIDE DEF r
<1>5. /\ Handling' /\ "generation" \in write'.words
      /\ write'.regs = r /\ write'.state = pin.state
      /\ write'.words \subseteq DOMAIN WriteOrder
      /\ write' = [words |-> write'.words, regs |-> r, state |-> write'.state]
      /\ \A word \in DOMAIN WriteOrder \ (write'.words \cup {"positionRegister"}) :
            r[word] = regs[word]
  BY <1>1, StartWriteWords
<1>6. /\ pin' \in PinRecords /\ pin'.state = pin.state /\ pin'.buffer
      /\ pin'.channels = pin.channels
  <2>1. pin \in PinRecords
    BY TypedParts DEF IInv
  <2>. QED BY <1>1, <2>1 DEF PinRecords
<1>7. TypeOK'
  BY <1>1, <1>4, <1>5, <1>6, TypedParts DEF IInv, TypeOK, PinRecords, PinStates
<1>8. WriteInv'
  BY <1>1, <1>4, <1>5, <1>6 DEF WriteInv
<1>9. ~regs.generation.active
  BY <1>1 DEF IInv, ActiveInv
<1>10. ActiveInv' /\ SizeInv'
  BY <1>1, <1>4, <1>5, <1>6, <1>9 DEF IInv, ActiveInv, SizeInv, LargeEnough
<1>11. SeenInv'
  BY <1>1 DEF IInv, SeenInv, Usable
<1>. QED BY <1>7, <1>8, <1>10, <1>11 DEF IInv

LEMMA RegisterNotificationEventKeeps ==
    ASSUME IInv, RegisterNotificationEvent
    PROVE  IInv'
<1>1. /\ pin' = [pin EXCEPT !.event = TRUE]
      /\ posted' = Append(posted, regs.generation.number)
      /\ UNCHANGED <<regs, write, ready, handle, pc, seen>>
  BY DEF RegisterNotificationEvent, tickVars
<1>2. /\ pin' \in PinRecords /\ pin'.state = pin.state /\ pin'.buffer = pin.buffer
      /\ pin'.channels = pin.channels
  <2>1. pin \in PinRecords
    BY TypedParts DEF IInv
  <2>. QED BY <1>1, <2>1 DEF PinRecords
<1>3. posted' \in Seq(Nat) /\ ready' \in 0..Len(posted')
  <2>1. regs.generation.number \in Nat /\ posted \in Seq(Nat) /\ ready \in 0..Len(posted)
    BY TypedParts DEF IInv, Registers
  <2>2. posted' \in Seq(Nat) /\ Len(posted') = Len(posted) + 1
    BY <1>1, <2>1
  <2>. QED BY <1>1, <2>1, <2>2
<1>4. TypeOK'
  BY <1>1, <1>2, <1>3, TypedParts DEF IInv, TypeOK, PinRecords, PinStates
<1>5. WriteInv' /\ ActiveInv' /\ SizeInv' /\ SeenInv'
  BY <1>1, <1>2 DEF IInv, WriteInv, ActiveInv, SizeInv, SeenInv, Handling, Settled, LargeEnough,
                    Usable
<1>. QED BY <1>4, <1>5 DEF IInv

LEMMA CompleteWaitKeeps ==
    ASSUME IInv, CompleteWait
    PROVE  IInv'
<1>1. /\ ready' = Len(posted)
      /\ UNCHANGED <<regs, pin, write, posted, handle, pc, seen>>
  BY DEF CompleteWait, tickVars, pinVars
<1>2. ready' \in 0..Len(posted')
  <2>1. posted \in Seq(Nat)
    BY TypedParts DEF IInv
  <2>2. Len(posted) \in Nat
    BY <2>1
  <2>. QED BY <1>1, <2>2
<1>3. TypeOK'
  BY <1>1, <1>2 DEF IInv, TypeOK
<1>4. WriteInv' /\ ActiveInv' /\ SizeInv' /\ SeenInv'
  BY <1>1 DEF IInv, WriteInv, ActiveInv, SizeInv, SeenInv, Handling, Settled, LargeEnough, Usable
<1>. QED BY <1>3, <1>4 DEF IInv

\* The word is the first of those that are left, so that a handler ends, and
\* another begins, with the generation that it wrote.
LEMMA WriteWordKeeps ==
    ASSUME IInv, WriteWord
    PROVE  IInv'
<1>. PICK word \in write.words :
        /\ \A other \in write.words : WriteOrder[word] <= WriteOrder[other]
        /\ regs' = [regs EXCEPT ![word] = write.regs[word]]
        /\ IF write.words = {word}
           THEN /\ write' = NoWrite
                /\ pin' = [pin EXCEPT !.state = write.state]
           ELSE /\ write' = [write EXCEPT !.words = @ \ {word}]
                /\ UNCHANGED pin
        /\ UNCHANGED <<handleVars, tickVars>>
  BY DEF WriteWord
<1>1. UNCHANGED <<posted, ready, handle, pc, seen>>
  BY DEF handleVars, tickVars
<1>2. /\ regs \in Registers /\ write.regs \in Registers /\ write.words \subseteq DOMAIN WriteOrder
      /\ word \in DOMAIN WriteOrder /\ pin \in PinRecords /\ write.state \in PinStates
  BY TypedParts DEF IInv
<1>3. /\ Handling /\ "generation" \in write.words
      /\ word = "generation" <=> write.words = {word}
  <2>1. Handling
    BY DEF Handling
  <2>2. "generation" \in write.words
    BY <2>1 DEF IInv, WriteInv
  <2>3. ASSUME word = "generation", NEW other \in write.words
        PROVE  other = word
    BY <1>2, <2>3, Words
  <2>. QED BY <2>1, <2>2, <2>3
<1>4. /\ regs' \in Registers
      /\ regs'[word] = write.regs[word]
      /\ \A other \in DOMAIN WriteOrder \ {word} : regs'[other] = regs[other]
  <2>1. PICK new \in Registers, r \in Registers : new = write.regs /\ r = regs
    BY <1>2
  <2>2. PICK s : s = regs'
    OBVIOUS
  <2>3. s = [r EXCEPT ![word] = new[word]]
    BY <2>1, <2>2
  <2>4. /\ s \in Registers /\ s[word] = new[word]
        /\ \A other \in DOMAIN WriteOrder \ {word} : s[other] = r[other]
    BY <1>2, <2>3, Words DEF Registers
  <2>. QED BY <2>1, <2>2, <2>4
<1>5. CASE word # "generation"
  <2>1. /\ UNCHANGED pin /\ write'.words = write.words \ {word}
        /\ write'.regs = write.regs /\ write'.state = write.state /\ Handling'
        /\ write' \in [words : SUBSET DOMAIN WriteOrder, regs : Registers, state : PinStates]
    <3>1. write \in [words : SUBSET DOMAIN WriteOrder, regs : Registers, state : PinStates]
      BY TypedParts DEF IInv
    <3>. QED BY <1>3, <1>5, <3>1 DEF Handling
  <2>2. regs'.generation = regs.generation
    BY <1>4, <1>5, Words
  <2>3. Settled => /\ Settled' /\ regs'.bufferOffset = regs.bufferOffset
                   /\ regs'.bufferSize = regs.bufferSize
    <3>1. regs'.bufferOffset \in {regs.bufferOffset, write.regs.bufferOffset}
      BY <1>4, Words
    <3>2. regs'.bufferSize \in {regs.bufferSize, write.regs.bufferSize}
      BY <1>4, Words
    <3>. QED BY <1>3, <2>1, <3>1, <3>2 DEF Settled
  <2>4. TypeOK'
    BY <1>1, <1>4, <2>1, TypedParts DEF IInv, TypeOK, PinStates
  <2>5. WriteInv'
    <3>1. \A other \in DOMAIN WriteOrder \ (write'.words \cup {"positionRegister"}) :
             write'.regs[other] = regs'[other]
      BY <1>3, <1>4, <2>1 DEF IInv, WriteInv
    <3>. QED BY <1>3, <1>5, <2>1, <2>2, <3>1 DEF IInv, WriteInv
  <2>6. ActiveInv'
    BY <1>3, <2>1, <2>2, <2>3 DEF IInv, ActiveInv
  <2>7. SizeInv'
    <3>1. regs'.activeChannelCount \in {regs.activeChannelCount, write.regs.activeChannelCount}
      BY <1>4, Words
    <3>. QED BY <1>3, <2>1, <3>1 DEF IInv, SizeInv, LargeEnough
  <2>8. SeenInv'
    BY <1>1, <2>1, <2>2, <2>3 DEF IInv, SeenInv, Usable
  <2>. QED BY <2>4, <2>5, <2>6, <2>7, <2>8 DEF IInv
<1>6. CASE word = "generation"
  <2>1. /\ write' = NoWrite /\ ~Handling'
        /\ pin' = [pin EXCEPT !.state = write.state]
    BY <1>3, <1>6 DEF Handling, NoWrite
  <2>2. /\ pin' \in PinRecords /\ pin'.state = write.state
        /\ pin'.buffer = pin.buffer /\ pin'.channels = pin.channels
    BY <1>2, <2>1 DEF PinRecords
  <2>3. /\ regs'.generation = write.regs.generation
        /\ regs'.bufferOffset = write.regs.bufferOffset
        /\ regs'.bufferSize = write.regs.bufferSize
        /\ regs'.activeChannelCount = write.regs.activeChannelCount
    <3>1. \A other \in DOMAIN WriteOrder \ {"generation", "positionRegister"} :
             write.regs[other] = regs[other]
      BY <1>3, <1>6 DEF IInv, WriteInv
    <3>. QED BY <1>4, <1>6, <3>1, Words
  <2>4. TypeOK'
    <3>1. NoRegisters \in Registers
      BY TickAssumption DEF NoRegisters, Registers
    <3>2. NoWrite \in [words : SUBSET DOMAIN WriteOrder, regs : Registers, state : PinStates]
      BY <3>1 DEF NoWrite, PinStates
    <3>. QED BY <1>1, <1>4, <2>1, <2>2, <3>2, TypedParts DEF IInv, TypeOK, PinRecords, PinStates
  <2>5. WriteInv'
    BY <2>1 DEF WriteInv
  <2>6. ActiveInv'
    BY <1>3, <2>1, <2>2, <2>3 DEF IInv, ActiveInv, WriteInv, Settled
  <2>7. SizeInv'
    BY <1>3, <2>1, <2>2, <2>3 DEF IInv, SizeInv, LargeEnough
  <2>8. SeenInv'
    <3>1. /\ seen.generation.number \in Nat /\ regs.generation.number \in Nat
          /\ seen.generation.number <= regs.generation.number
      BY TypedParts DEF IInv, SeenInv, Registers
    <3>2. seen.generation.number <= regs'.generation.number
      BY <1>3, <2>3, <3>1 DEF IInv, WriteInv
    <3>3. ASSUME seen.generation.active, seen.generation.number = regs'.generation.number
          PROVE  /\ seen.generation.number = regs.generation.number
                 /\ pin.state # "closed" /\ write.state # "closed"
      BY <1>3, <2>3, <3>1, <3>3 DEF IInv, WriteInv
    <3>. QED BY <1>1, <1>3, <2>1, <2>2, <2>3, <3>2, <3>3 DEF IInv, SeenInv, Settled, Usable
  <2>. QED BY <2>4, <2>5, <2>6, <2>7, <2>8 DEF IInv
<1>. QED BY <1>5, <1>6

-----------------------------------------------------------------------------
(* The tick *)

\* A step of the tick that leaves the registers to the driver, or writes the
\* position only, keeps what the handlers rely on.
LEMMA TickKeepsDriver ==
    ASSUME IInv, UNCHANGED <<pin, write>>, regs' \in Registers,
           \A word \in DOMAIN WriteOrder \ {"positionRegister"} : regs'[word] = regs[word]
    PROVE  WriteInv' /\ ActiveInv' /\ SizeInv'
<1>1. /\ regs'.generation = regs.generation /\ regs'.bufferOffset = regs.bufferOffset
      /\ regs'.bufferSize = regs.bufferSize /\ regs'.activeChannelCount = regs.activeChannelCount
  BY Words
<1>2. WriteInv'
  <2>1. \A word \in DOMAIN WriteOrder \ (write'.words \cup {"positionRegister"}) :
           Handling => write'.regs[word] = regs'[word]
    BY DEF IInv, WriteInv
  <2>. QED BY <1>1, <2>1 DEF IInv, WriteInv, Handling
<1>3. ActiveInv' /\ SizeInv'
  BY <1>1 DEF IInv, ActiveInv, SizeInv, Settled, Handling, LargeEnough
<1>. QED BY <1>2, <1>3

LEMMA EndTickTyped == NoRegisters \in Registers /\ ~NoRegisters.generation.active
                      /\ NoRegisters.generation.number = 0
BY TickAssumption DEF NoRegisters, Registers

LEMMA EndTickKeeps ==
    ASSUME IInv, EndTick, UNCHANGED <<regs, pin, write, posted, ready, handle>>
    PROVE  IInv'
<1>1. pc' = "activeChannelCount" /\ seen' = NoRegisters
  BY DEF EndTick
<1>2. TypeOK'
  <2>1. pc' \in TickStates /\ seen' \in Registers
    BY <1>1, EndTickTyped DEF TickStates
  <2>2. /\ regs' \in Registers /\ posted' \in Seq(Nat)
        /\ ready' \in 0..Len(posted') /\ handle' \in Nat
    BY TypedParts DEF IInv
  <2>. QED BY <2>1, <2>2, TickTyped DEF IInv
<1>3. WriteInv' /\ ActiveInv' /\ SizeInv'
  BY TickKeepsDriver, TypedParts DEF IInv
<1>4. SeenInv'
  <2>1. regs.generation.number \in Nat
    BY TypedParts DEF IInv, Registers
  <2>2. /\ seen'.generation.number <= regs'.generation.number /\ ~seen'.generation.active
        /\ pc' \notin {"late", "deliver"}
    BY <1>1, <2>1, EndTickTyped
  <2>. QED BY <2>2 DEF SeenInv
<1>. QED BY <1>2, <1>3, <1>4 DEF IInv

LEMMA ReadWordKeeps ==
    ASSUME IInv, ReadWord
    PROVE  IInv'
<1>1. /\ pc \in {"activeChannelCount", "generation", "bufferOffset", "bufferSize",
                 "positionRegister", "notificationCount"}
      /\ seen' = [seen EXCEPT ![pc] = regs[pc]]
      /\ pc' = AfterReading[pc]
      /\ UNCHANGED <<regs, pin, write, posted, ready, handle>>
  BY DEF ReadWord, AfterReading, pinVars, handleVars
<1>2. regs \in Registers /\ seen \in Registers
  BY TypedParts DEF IInv
<1>3. /\ pc = "activeChannelCount" => pc' = "generation"
      /\ pc = "generation" => pc' = "bufferOffset"
      /\ pc = "bufferOffset" => pc' = "bufferSize"
      /\ pc = "bufferSize" => pc' = "positionRegister"
      /\ pc = "positionRegister" => pc' = "notificationCount"
      /\ pc = "notificationCount" => pc' = "handles"
  BY <1>1 DEF AfterReading
<1>4. /\ seen' \in Registers /\ seen'[pc] = regs[pc]
      /\ \A other \in DOMAIN WriteOrder \ {pc} : seen'[other] = seen[other]
  <2>1. PICK new \in Registers, r \in Registers, word \in DOMAIN WriteOrder :
           new = regs /\ r = seen /\ word = pc
    BY <1>1, <1>2, Words
  <2>2. PICK s : s = seen'
    OBVIOUS
  <2>3. s = [r EXCEPT ![word] = new[word]]
    BY <1>1, <2>1, <2>2
  <2>4. /\ s \in Registers /\ s[word] = new[word]
        /\ \A other \in DOMAIN WriteOrder \ {word} : s[other] = r[other]
    BY <2>1, <2>3, Words DEF Registers
  <2>. QED BY <2>1, <2>2, <2>4
<1>5. TypeOK'
  <2>1. pc' \in TickStates
    BY <1>1, <1>3 DEF TickStates
  <2>2. /\ regs' \in Registers /\ posted' \in Seq(Nat)
        /\ ready' \in 0..Len(posted') /\ handle' \in Nat
    BY <1>1, TypedParts DEF IInv
  <2>. QED BY <1>1, <1>4, <2>1, <2>2, TickTyped DEF IInv
<1>6. WriteInv' /\ ActiveInv' /\ SizeInv'
  BY <1>1, <1>2, TickKeepsDriver
<1>7. SeenInv'
  <2>1. /\ pc = "generation" => seen'.generation = regs.generation
        /\ pc # "generation" => seen'.generation = seen.generation
        /\ pc = "bufferOffset" => seen'.bufferOffset = regs.bufferOffset
        /\ pc # "bufferOffset" => seen'.bufferOffset = seen.bufferOffset
        /\ pc = "bufferSize" => seen'.bufferSize = regs.bufferSize
        /\ pc # "bufferSize" => seen'.bufferSize = seen.bufferSize
    BY <1>4, Words
  <2>2. Settled' <=> Settled
    BY <1>1 DEF Settled, Handling
  <2>3. regs.generation.number \in Nat
    BY <1>2 DEF Registers
  <2>4. CASE pc = "generation"
    <3>1. regs.generation.active => pin.state # "closed" /\ pin.buffer /\ Settled
      BY DEF IInv, ActiveInv
    <3>. QED BY <1>1, <1>3, <2>1, <2>2, <2>3, <2>4, <3>1 DEF IInv, SeenInv
  <2>5. CASE pc # "generation"
    BY <1>1, <1>3, <2>1, <2>2, <2>5 DEF IInv, SeenInv
  <2>. QED BY <2>4, <2>5
<1>. QED BY <1>5, <1>6, <1>7 DEF IInv

LEMMA UpdateHandlesKeeps ==
    ASSUME IInv, UpdateHandles
    PROVE  IInv'
<1>1. /\ pc = "handles" /\ pc' = "check"
      /\ UNCHANGED <<regs, pin, write, seen>>
  BY DEF UpdateHandles, pinVars
<1>2. posted' \in Seq(Nat) /\ ready' \in 0..Len(posted') /\ handle' \in Nat
  <2>1. posted \in Seq(Nat) /\ ready \in 0..Len(posted) /\ handle \in Nat
    BY TypedParts DEF IInv
  <2>2. CASE seen.notificationCount > 0 /\ seen.generation.number # handle /\ ready > 0
    <3>1. /\ handle' = posted[ready] /\ ready' = 0
          /\ posted' = SubSeq(posted, ready + 1, Len(posted))
      BY <2>2 DEF UpdateHandles
    <3>2. ready \in 1..Len(posted)
      BY <2>1, <2>2
    <3>3. SubSeq(posted, ready + 1, Len(posted)) \in Seq(Nat)
      BY <2>1, <3>2
    <3>4. Len(SubSeq(posted, ready + 1, Len(posted))) \in Nat
      BY <3>3
    <3>. QED BY <2>1, <3>1, <3>2, <3>3, <3>4
  <2>3. CASE ~(seen.notificationCount > 0 /\ seen.generation.number # handle /\ ready > 0)
    BY <2>1, <2>3 DEF UpdateHandles, handleVars
  <2>. QED BY <2>2, <2>3
<1>3. TypeOK'
  BY <1>1, <1>2, TypedParts DEF IInv, TypeOK, TickStates
<1>4. WriteInv' /\ ActiveInv' /\ SizeInv'
  BY <1>1, TickKeepsDriver, TypedParts DEF IInv
<1>5. SeenInv'
  BY <1>1 DEF IInv, SeenInv, Settled, Handling
<1>. QED BY <1>3, <1>4, <1>5 DEF IInv

LEMMA CopyChunkKeeps ==
    ASSUME IInv, CopyChunk
    PROVE  IInv'
<1>1. /\ pc = "check" /\ Usable /\ pc' = "late"
      /\ UNCHANGED <<regs, pin, write, posted, ready, handle, seen>>
  BY DEF CopyChunk, pinVars, handleVars
<1>2. TypeOK'
  BY <1>1, TypedParts DEF IInv, TypeOK, TickStates
<1>3. WriteInv' /\ ActiveInv' /\ SizeInv'
  BY <1>1, TickKeepsDriver, TypedParts DEF IInv
<1>4. SeenInv'
  BY <1>1 DEF IInv, SeenInv, Settled, Handling, Usable
<1>. QED BY <1>2, <1>3, <1>4 DEF IInv

LEMMA CheckLateGenerationKeeps ==
    ASSUME IInv, CheckLateGeneration
    PROVE  IInv'
<1>1. /\ pc = "late"
      /\ UNCHANGED <<regs, pin, write, posted, ready, handle>>
  BY DEF CheckLateGeneration, pinVars, handleVars
<1>2. CASE SameGeneration
  <2>1. pc' = "deliver" /\ UNCHANGED seen
    BY <1>2 DEF CheckLateGeneration
  <2>2. TypeOK'
    BY <1>1, <2>1, TypedParts DEF IInv, TypeOK, TickStates
  <2>3. WriteInv' /\ ActiveInv' /\ SizeInv'
    BY <1>1, TickKeepsDriver, TypedParts DEF IInv
  <2>4. SeenInv'
    BY <1>1, <2>1 DEF IInv, SeenInv, Settled, Handling, Usable
  <2>. QED BY <2>2, <2>3, <2>4 DEF IInv
<1>3. CASE ~SameGeneration
  BY <1>1, <1>3, EndTickKeeps DEF CheckLateGeneration
<1>. QED BY <1>2, <1>3

LEMMA DeliverKeeps ==
    ASSUME IInv, Deliver
    PROVE  IInv'
<1>1. /\ pc = "deliver" /\ EndTick
      /\ UNCHANGED <<pin, write, posted, ready, handle>>
  BY DEF Deliver, pinVars, handleVars
<1>2. CASE UNCHANGED regs
  BY <1>1, <1>2, EndTickKeeps
<1>3. CASE regs' = [regs EXCEPT !.positionRegister = NextPosition]
  <2>1. NextPosition \in Nat
    <3>1. /\ seen.bufferSize \in Nat \ {0} /\ seen.positionRegister \in Nat
          /\ seen.activeChannelCount \in Nat
      BY <1>1, TypedParts, TickAssumption DEF IInv, SeenInv, Usable, Registers
    <3>2. FrameChunkSize \in Nat
      BY <3>1, Product, TickAssumption DEF FrameChunkSize
    <3>. QED BY <3>1, <3>2 DEF NextPosition
  <2>2. /\ regs' \in Registers
        /\ \A word \in DOMAIN WriteOrder \ {"positionRegister"} : regs'[word] = regs[word]
    <3>1. PICK position \in Nat : position = NextPosition
      BY <2>1
    <3>2. regs \in Registers /\ regs' = [regs EXCEPT !.positionRegister = position]
      BY <1>3, <3>1, TypedParts DEF IInv
    <3>. QED BY <3>2, Words DEF Registers
  <2>3. WriteInv' /\ ActiveInv' /\ SizeInv'
    BY <1>1, <2>2, TickKeepsDriver
  <2>4. pc' = "activeChannelCount" /\ seen' = NoRegisters
    BY <1>1 DEF EndTick
  <2>5. TypeOK'
    <3>1. pc' \in TickStates /\ seen' \in Registers
      BY <2>4, EndTickTyped DEF TickStates
    <3>2. posted' \in Seq(Nat) /\ ready' \in 0..Len(posted') /\ handle' \in Nat
      BY <1>1, TypedParts DEF IInv
    <3>. QED BY <1>1, <2>2, <3>1, <3>2, TickTyped DEF IInv
  <2>6. SeenInv'
    <3>1. regs'.generation.number \in Nat
      BY <2>2 DEF Registers
    <3>2. /\ seen'.generation.number <= regs'.generation.number /\ ~seen'.generation.active
          /\ pc' \notin {"late", "deliver"}
      BY <2>4, <3>1, EndTickTyped
    <3>. QED BY <3>2 DEF SeenInv
  <2>. QED BY <2>3, <2>5, <2>6 DEF IInv
<1>. QED BY <1>2, <1>3 DEF Deliver

LEMMA TickStepKeeps ==
    ASSUME IInv, TickStep
    PROVE  IInv'
<1>1. CASE Silence
  BY <1>1, EndTickKeeps DEF Silence, pinVars, handleVars
<1>. QED BY <1>1, ReadWordKeeps, UpdateHandlesKeeps, CopyChunkKeeps, CheckLateGenerationKeeps,
           DeliverKeeps DEF TickStep

-----------------------------------------------------------------------------
(* The invariant *)

LEMMA StutterKeeps ==
    ASSUME IInv, UNCHANGED vars
    PROVE  IInv'
<1>1. UNCHANGED <<regs, pin, write, posted, ready, handle, pc, seen>>
  BY DEF vars, pinVars, handleVars, tickVars
<1>2. TypeOK' /\ WriteInv'
  BY <1>1 DEF IInv, TypeOK, WriteInv, Handling
<1>3. ActiveInv' /\ SizeInv' /\ SeenInv'
  BY <1>1 DEF IInv, ActiveInv, SizeInv, SeenInv, Settled, Handling, LargeEnough, Usable
<1>. QED BY <1>2, <1>3 DEF IInv

LEMMA NextKeepsIInv == IInv /\ [Next]_vars => IInv'
<1>. SUFFICES ASSUME IInv, [Next]_vars PROVE IInv'
  OBVIOUS
<1>1. CASE UNCHANGED vars
  BY <1>1, StutterKeeps
<1>2. ASSUME NEW channels \in ChannelCounts, PinCreate(channels)
      PROVE  IInv'
  BY <1>2, PinCreateKeeps
<1>3. ASSUME NEW r \in Requests, NEW n \in Notifications, NEW o \in Offsets, GetBuffer(r, n, o)
      PROVE  IInv'
  BY <1>3, GetBufferKeeps
<1>4. ASSUME NEW to \in {"STOP", "PAUSE", "RUN"}, SetDeviceState(to)
      PROVE  IInv'
  BY <1>4, SetDeviceStateKeeps
<1>5. CASE WriteWord \/ RegisterNotificationEvent \/ PinClose \/ CompleteWait \/ TickStep
  BY <1>5, WriteWordKeeps, RegisterNotificationEventKeeps, PinCloseKeeps, CompleteWaitKeeps,
     TickStepKeeps
<1>. QED BY <1>1, <1>2, <1>3, <1>4, <1>5 DEF Next

\* What the registers are, and what the tick has read of them, in every state.
THEOREM RegistersInvariant == Spec => []IInv
<1>. QED BY InitIInv, NextKeepsIInv, PTL DEF Spec

\* Every variable keeps its type: the tick takes none but posted handles, and
\* writes a position that is one.
THEOREM Typed == Spec => []TypeOK
<1>1. IInv => TypeOK
  BY DEF IInv
<1>. QED BY <1>1, RegistersInvariant, PTL

\* What the late check of the generation is for.
LEMMA DeliversOwn ==
    ASSUME IInv, [Next]_vars, Delivers
    PROVE  /\ seen.bufferOffset = regs.bufferOffset /\ seen.bufferSize = regs.bufferSize
           /\ pin.state # "closed" /\ pin.buffer /\ Settled /\ Usable
<1>1. pc = "late" /\ pc' = "deliver"
  BY DEF Delivers
<1>2. CheckLateGeneration
  <2>1. pc' # pc
    BY <1>1
  <2>2. TickStep
    BY <2>1 DEF Next, vars, tickVars, WriteWord, PinCreate, GetBuffer, SetDeviceState,
                RegisterNotificationEvent, PinClose, CompleteWait
  <2>. QED BY <1>1, <2>2 DEF TickStep, ReadWord, UpdateHandles, Silence, CopyChunk, Deliver,
                             EndTick, AfterReading
<1>3. SameGeneration
  BY <1>1, <1>2 DEF CheckLateGeneration, EndTick
<1>4. Usable
  BY <1>1 DEF IInv, SeenInv
<1>. QED BY <1>1, <1>3, <1>4 DEF IInv, SeenInv, SameGeneration, Usable

\* A chunk that passes the late check lies in the buffer of the pin that runs
\* then, however many pins came and went, with any buffers, since the tick
\* began to read.
THEOREM ChunkStaysInBuffer == Spec => ChunkInRunningPinsBuffer
<1>1. IInv /\ [Next]_vars =>
         [Delivers => /\ seen.bufferOffset = regs.bufferOffset
                      /\ seen.bufferSize = regs.bufferSize]_vars
  BY DeliversOwn
<1>. QED BY <1>1, RegistersInvariant, PTL DEF Spec, ChunkInRunningPinsBuffer

\* A buffer of two chunks or more cannot be passed unseen: the driver enforces
\* that size when the configuration gives a minimum of frames.  Without one
\* (MinFrames = 0) a client may get less, and nothing is claimed.
THEOREM EndStaysNotified == ASSUME MinFrames >= 2 PROVE Spec => EndIsNotified
<1>1. ASSUME IInv, [Next]_vars, Delivers,
             seen.activeChannelCount = regs.activeChannelCount,
             seen.positionRegister < seen.bufferSize,
             seen.notificationCount >= 1,
             NextPosition <= seen.positionRegister
      PROVE  Crossing
  <2>1. /\ seen.bufferSize = regs.bufferSize /\ pin.state # "closed" /\ pin.buffer
        /\ Settled /\ Usable
    BY <1>1, DeliversOwn
  <2>2. regs \in Registers /\ seen \in Registers /\ pin.channels \in Nat
    BY <1>1, TypedParts, TickAssumption DEF IInv, PinRecords
  <2>3. seen.activeChannelCount = pin.channels /\ pin.channels \in Nat \ {0}
    BY <1>1, <2>1, <2>2 DEF IInv, SizeInv
  <2>4. seen.bufferSize >= MinFrames * Period * pin.channels
    BY <1>1, <2>1 DEF IInv, SizeInv, Settled, LargeEnough
  <2>5. PICK size \in Nat \ {0}, position \in Nat, chunk \in Nat :
           /\ size = seen.bufferSize /\ position = seen.positionRegister
           /\ chunk = FrameChunkSize
    <3>1. FrameChunkSize \in Nat
      BY <2>2, <2>3, Product, TickAssumption DEF FrameChunkSize
    <3>. QED BY <2>1, <2>2, <3>1 DEF Usable, Registers
  <2>6. chunk > 0 /\ size >= 2 * chunk
    <3>1. chunk = Period * pin.channels /\ chunk > 0
      BY <2>3, <2>5, Product, TickAssumption DEF FrameChunkSize
    <3>2. MinFrames * Period * pin.channels = MinFrames * chunk
      BY <2>3, <3>1, TickAssumption
    <3>3. MinFrames * chunk >= 2 * chunk
      BY <3>1, <2>5, TickAssumption, Growth
    <3>. QED BY <2>4, <2>5, <3>1, <3>2, <3>3, TickAssumption
  <2>7. position < size /\ NextPosition = (position + chunk) % size
    BY <1>1, <2>5 DEF NextPosition
  <2>8. position + chunk >= size
    <3>1. position + chunk < size => (position + chunk) % size = position + chunk
      OBVIOUS
    <3>. QED BY <1>1, <2>5, <2>6, <2>7, <3>1
  <2>9. (position + chunk) % size = position + chunk - size
    BY <2>6, <2>7, <2>8, Wrapped
  <2>10. PICK half \in Nat : half = size \div 2 /\ 2 * half <= size /\ size <= 2 * half + 1
    OBVIOUS
  <2>11. position >= half /\ position + chunk - size < half
    BY <2>6, <2>7, <2>8, <2>10
  <2>. QED BY <1>1, <2>5, <2>7, <2>9, <2>10, <2>11 DEF Crossing
<1>2. IInv /\ [Next]_vars =>
         [(/\ Delivers
           /\ seen.activeChannelCount = regs.activeChannelCount
           /\ seen.positionRegister < seen.bufferSize
           /\ seen.notificationCount >= 1
           /\ NextPosition <= seen.positionRegister) => Crossing]_vars
  BY <1>1
<1>. QED BY <1>2, RegistersInvariant, PTL DEF Spec, EndIsNotified

-----------------------------------------------------------------------------
(* The copy of a chunk                                                     *)

\* The walk's step, and what it comes to: frame j of the chunk, in a buffer
\* of S frames of a samples, from frame P; F frames are before the wrap.
WalkStep(i, f, j) ==
    IF j = 0 THEN [at |-> seen.bufferOffset + seen.positionRegister + i, left |-> FirstSize]
    ELSE LET p == f[j - 1]
         IN CASE p.left < seen.activeChannelCount -> p
              [] p.left = seen.activeChannelCount ->
                    [at |-> seen.bufferOffset + i, left |-> SecondSize]
              [] OTHER -> [at |-> p.at + seen.activeChannelCount,
                           left |-> p.left - seen.activeChannelCount]

Place(j, i, a, offset, P, S, F) ==
    IF j < F THEN [at |-> offset + P * a + i + j * a, left |-> (F - j) * a]
    ELSE [at |-> offset + i + (P + j - S) * a, left |-> (Period - j) * a]

NextPlace(p, i, a, offset, F) ==
    IF p.left = a THEN [at |-> offset + i, left |-> Period * a - F * a]
    ELSE [at |-> p.at + a, left |-> p.left - a]

PlaceFollows(p, j, i, a, offset, P, S, F) ==
    p.left >= a /\ Place(j, i, a, offset, P, S, F) = NextPlace(p, i, a, offset, F)

\* The walk has a frame left until the chunk's last one, and then the next place.
LEMMA PlaceStep ==
    ASSUME NEW a \in Nat \ {0}, NEW offset \in Nat, NEW i \in Nat,
           NEW P \in Nat, NEW S \in Nat, NEW F \in Nat \ {0}, P < S,
           F = Min2(Period, S - P), NEW j \in 1..(Period - 1), NEW p,
           p = Place(j - 1, i, a, offset, P, S, F)
    PROVE  PlaceFollows(p, j, i, a, offset, P, S, F)
<1>1. Period \in Nat \ {0}
  BY TickAssumption
<1>2. F <= Period /\ (F < Period => F = S - P)
  BY <1>1 DEF Min2
<1>3. CASE j < F
  <2>1. p = [at |-> offset + P * a + i + (j - 1) * a, left |-> (F - (j - 1)) * a]
    BY <1>3 DEF Place
  <2>2. p.at = offset + P * a + i + (j - 1) * a /\ p.left = (F - (j - 1)) * a
    BY <2>1
  <2>3. (F - (j - 1)) * a >= 2 * a
    <3>1. F - (j - 1) \in Nat /\ F - (j - 1) >= 2
      BY <1>1, <1>3
    <3>. QED BY <3>1, Growth
  <2>4. /\ (F - (j - 1)) * a - a = (F - j) * a
        /\ offset + P * a + i + (j - 1) * a + a = offset + P * a + i + j * a
    OBVIOUS
  <2>5. Place(j, i, a, offset, P, S, F) = [at |-> p.at + a, left |-> p.left - a]
    BY <1>3, <2>2, <2>4 DEF Place
  <2>6. p.left >= a /\ p.left # a
    BY <2>2, <2>3
  <2>. QED BY <2>5, <2>6 DEF NextPlace, PlaceFollows
<1>4. CASE j = F
  <2>1. p.left = a
    <3>1. p = [at |-> offset + P * a + i + (j - 1) * a, left |-> (F - (j - 1)) * a]
      BY <1>4 DEF Place
    <3>2. F - (j - 1) = 1
      BY <1>4
    <3>. QED BY <3>1, <3>2
  <2>2. F = S - P
    BY <1>1, <1>2, <1>4
  <2>3. /\ offset + i + (P + j - S) * a = offset + i
        /\ (Period - j) * a = Period * a - F * a
    <3>1. P + j - S = 0
      BY <1>4, <2>2
    <3>. QED BY <1>1, <1>4, <3>1
  <2>4. Place(j, i, a, offset, P, S, F) = [at |-> offset + i, left |-> Period * a - F * a]
    BY <1>4, <2>3 DEF Place
  <2>. QED BY <2>1, <2>4 DEF NextPlace, PlaceFollows
<1>5. CASE j > F
  <2>1. ~(j - 1 < F) /\ ~(j < F)
    BY <1>5
  <2>2. p = [at |-> offset + i + (P + (j - 1) - S) * a, left |-> (Period - (j - 1)) * a]
    BY <2>1 DEF Place
  <2>3. /\ p.at = offset + i + (P + (j - 1) - S) * a
        /\ p.left = (Period - (j - 1)) * a
    BY <2>2
  <2>4. (Period - (j - 1)) * a >= 2 * a
    <3>1. Period - (j - 1) \in Nat /\ Period - (j - 1) >= 2
      BY <1>1
    <3>. QED BY <3>1, Growth
  <2>5. /\ (Period - (j - 1)) * a - a = (Period - j) * a
        /\ offset + i + (P + (j - 1) - S) * a + a = offset + i + (P + j - S) * a
    BY <1>1
  <2>6. Place(j, i, a, offset, P, S, F) = [at |-> p.at + a, left |-> p.left - a]
    BY <2>1, <2>3, <2>5 DEF Place
  <2>7. p.left >= a /\ p.left # a
    BY <2>3, <2>4, <1>1
  <2>. QED BY <2>6, <2>7 DEF NextPlace, PlaceFollows
<1>. QED BY <1>3, <1>4, <1>5

\* The frames of a chunk whose position and buffer are whole frames.
LEMMA Frames ==
    ASSUME TypeOK, Aligned
    PROVE  \E a \in Nat \ {0}, P \in Nat, S \in Nat, F \in Nat \ {0} :
              /\ a = seen.activeChannelCount
              /\ seen.positionRegister = P * a /\ seen.bufferSize = S * a
              /\ P < S /\ Period <= S /\ F = Min2(Period, S - P)
              /\ FirstSize = F * a /\ SecondSize = Period * a - F * a
<1>1. PICK a \in Nat \ {0}, position \in Nat, size \in Nat :
         /\ a = seen.activeChannelCount /\ position = seen.positionRegister
         /\ size = seen.bufferSize
  <2>1. seen \in Registers
    BY TypedParts
  <2>. QED BY <2>1, TickAssumption DEF Registers, Aligned
<1>2. PICK P \in Nat, S \in Nat : position = P * a /\ size = S * a
  BY <1>1, WholeFrames DEF Aligned
<1>3. Period \in Nat \ {0} /\ FrameChunkSize = Period * a
  BY <1>1, TickAssumption DEF FrameChunkSize
<1>4. P < S /\ Period <= S
  BY <1>1, <1>2, <1>3, Smaller DEF Aligned
<1>5. PICK F \in Nat \ {0} : F = Min2(Period, S - P)
  BY <1>3, <1>4 DEF Min2
<1>6. FirstSize = F * a
  <2>1. size - position = (S - P) * a
    BY <1>2
  <2>2. Period <= S - P <=> Period * a <= (S - P) * a
    BY <1>3, <1>4, Smaller
  <2>. QED BY <1>1, <1>3, <1>4, <1>5, <2>1, <2>2 DEF FirstSize, Min2
<1>. QED BY <1>1, <1>2, <1>3, <1>4, <1>5, <1>6 DEF SecondSize

StepIsPlace(i, f, j, a, P, S, F) ==
    WalkStep(i, f, j) = Place(j, i, a, seen.bufferOffset, P, S, F)

LEMMA WalkStepIsPlace ==
    ASSUME TypeOK, NEW i \in Nat,
           NEW a \in Nat \ {0}, NEW P \in Nat, NEW S \in Nat, NEW F \in Nat \ {0},
           a = seen.activeChannelCount, P < S, F = Min2(Period, S - P),
           SecondSize = Period * a - F * a, NEW j \in 1..(Period - 1),
           NEW f, f[j - 1] = Place(j - 1, i, a, seen.bufferOffset, P, S, F)
    PROVE  StepIsPlace(i, f, j, a, P, S, F)
<1>1. PICK offset \in Nat : offset = seen.bufferOffset
  BY TypedParts DEF Registers
<1>2. PICK p : p = Place(j - 1, i, a, offset, P, S, F)
  OBVIOUS
<1>3. f[j - 1] = p
  BY <1>1, <1>2
<1>4. PlaceFollows(p, j, i, a, offset, P, S, F)
  BY <1>1, <1>2, PlaceStep
<1>5. ~(p.left < a)
  <2>1. p.left \in Int
    BY <1>2, TickAssumption DEF Place
  <2>. QED BY <1>4, <2>1 DEF PlaceFollows
<1>6. j # 0
  BY TickAssumption
<1>. QED BY <1>1, <1>3, <1>4, <1>5, <1>6 DEF WalkStep, NextPlace, PlaceFollows, StepIsPlace

\* The walk is what its step makes of it: the places satisfy the definition,
\* and only one function does.
WalksPlaces(i, a, P, S, F) ==
    Walk(i) = [j \in 0..(Period - 1) |-> Place(j, i, a, seen.bufferOffset, P, S, F)]

LEMMA WalkIsPlaces ==
    ASSUME TypeOK, NEW i \in Nat,
           NEW a \in Nat \ {0}, NEW P \in Nat, NEW S \in Nat, NEW F \in Nat \ {0},
           a = seen.activeChannelCount,
           seen.positionRegister = P * a, P < S, F = Min2(Period, S - P),
           FirstSize = F * a, SecondSize = Period * a - F * a
    PROVE  WalksPlaces(i, a, P, S, F)
<1>. DEFINE offset == seen.bufferOffset
            D == 0..(Period - 1)
            Places == [j \in D |-> Place(j, i, a, offset, P, S, F)]
            IsWalk(f) == f = [j \in D |-> WalkStep(i, f, j)]
<1>1. Walk(i) = CHOOSE f : IsWalk(f)
  BY DEF Walk, WalkStep
<1>2. Period \in Nat \ {0} /\ offset \in Nat
  BY TypedParts, TickAssumption DEF Registers
<1>3. \A f : WalkStep(i, f, 0) = Place(0, i, a, offset, P, S, F)
  <2>1. Place(0, i, a, offset, P, S, F) = [at |-> offset + P * a + i + 0 * a, left |-> (F - 0) * a]
    BY DEF Place
  <2>2. offset + P * a + i + 0 * a = offset + P * a + i /\ (F - 0) * a = F * a
    BY <1>2
  <2>. QED BY <2>1, <2>2 DEF WalkStep
<1>4. ASSUME NEW j \in D, j # 0, NEW f, f[j - 1] = Places[j - 1]
      PROVE  WalkStep(i, f, j) = Place(j, i, a, offset, P, S, F)
  <2>1. j \in 1..(Period - 1) /\ j - 1 \in D
    BY <1>2, <1>4
  <2>2. PICK k \in 1..(Period - 1) : k = j
    BY <2>1
  <2>3. f[k - 1] = Place(k - 1, i, a, offset, P, S, F)
    BY <1>4, <2>1, <2>2
  <2>4. StepIsPlace(i, f, k, a, P, S, F)
    <3>. HIDE DEF D, Places, IsWalk
    <3>. QED BY <2>3, WalkStepIsPlace
  <2>. QED BY <2>2, <2>4 DEF StepIsPlace
<1>5. IsWalk(Places)
  <2>1. ASSUME NEW j \in D
        PROVE  WalkStep(i, Places, j) = Place(j, i, a, offset, P, S, F)
    <3>1. CASE j = 0
      BY <1>3, <3>1
    <3>2. CASE j # 0
      BY <1>4, <3>2
    <3>. QED BY <3>1, <3>2
  <2>. HIDE DEF D
  <2>. QED BY <2>1
<1>6. IsWalk(Walk(i))
  <2>. HIDE DEF IsWalk, Places
  <2>. QED BY <1>1, <1>5
<1>7. \A j \in D : Walk(i)[j] = Places[j]
  <2>1. SUFFICES ASSUME {j \in D : Walk(i)[j] # Places[j]} # {} PROVE FALSE
    OBVIOUS
  <2>2. PICK j \in D : /\ Walk(i)[j] # Places[j]
                       /\ \A k \in D : Walk(i)[k] # Places[k] => j <= k
    <3>. DEFINE Wrong == {k \in D : Walk(i)[k] # Places[k]}
    <3>1. Wrong \in SUBSET Nat /\ Wrong # {}
      <4>1. D \in SUBSET Nat
        BY <1>2
      <4>. HIDE DEF D, Places
      <4>. QED BY <2>1, <4>1
    <3>2. \A k \in D : Walk(i)[k] # Places[k] => k \in Wrong
      OBVIOUS
    <3>3. \A k \in Wrong : k \in D /\ Walk(i)[k] # Places[k]
      OBVIOUS
    <3>. HIDE DEF Wrong, D, Places
    <3>4. PICK j \in Wrong : \A k \in Wrong : j <= k
      BY <3>1, LeastElement
    <3>. QED BY <3>2, <3>3, <3>4
  <2>3. Walk(i)[j] = WalkStep(i, Walk(i), j)
    <3>. HIDE DEF D
    <3>. QED BY <1>6
  <2>4. Places[j] = Place(j, i, a, offset, P, S, F)
    OBVIOUS
  <2>5. CASE j = 0
    BY <1>3, <2>2, <2>3, <2>4, <2>5
  <2>6. CASE j # 0
    <3>1. j - 1 \in D /\ ~(j <= j - 1)
      BY <1>2, <2>6
    <3>2. Walk(i)[j - 1] = Places[j - 1]
      BY <2>2, <3>1
    <3>. QED BY <1>4, <2>2, <2>3, <2>4, <2>6, <3>2
  <2>. QED BY <2>5, <2>6
<1>. QED
  <2>1. Walk(i) = [j \in D |-> Walk(i)[j]]
    <3>. HIDE DEF D
    <3>. QED BY <1>6
  <2>. HIDE DEF D, Places
  <2>2. Walk(i) = [j \in D |-> Places[j]]
    BY <1>7, <2>1
  <2>. QED BY <2>2 DEF Places, D, WalksPlaces

\* demux and mux, on a chunk of whole frames, whatever its size and however
\* many channels: each sample has its place in the ring, on both sides of the
\* wrap, and none is left out.
THEOREM CopyStaysInRing == Spec => []CopyFollowsRing
<1>1. ASSUME TypeOK, Aligned
      PROVE  \A i \in CopiedChannels :
                /\ CopiedSamples(i) = 0..(Period - 1)
                /\ \A j \in 0..(Period - 1) :
                      Walk(i)[j].at = seen.bufferOffset +
                         ((seen.positionRegister + j * seen.activeChannelCount + i)
                             % seen.bufferSize)
  <2>1. PICK a \in Nat \ {0}, P \in Nat, S \in Nat, F \in Nat \ {0} :
           /\ a = seen.activeChannelCount
           /\ seen.positionRegister = P * a /\ seen.bufferSize = S * a
           /\ P < S /\ Period <= S /\ F = Min2(Period, S - P)
           /\ FirstSize = F * a /\ SecondSize = Period * a - F * a
    BY <1>1, Frames
  <2>2. PICK offset \in Nat : offset = seen.bufferOffset
    BY <1>1, TypedParts DEF Registers
  <2>3. Period \in Nat \ {0}
    BY TickAssumption
  <2>4. ASSUME NEW i \in CopiedChannels, NEW j \in 0..(Period - 1)
        PROVE  /\ Walk(i)[j].left >= a
               /\ Walk(i)[j].at = offset + ((P * a + j * a + i) % (S * a))
    <3>1. i \in Nat /\ i < a
      BY <2>1, TickAssumption DEF CopiedChannels, Min2
    <3>2. Walk(i)[j] = Place(j, i, a, offset, P, S, F)
      <4>1. Walk(i) = [k \in 0..(Period - 1) |-> Place(k, i, a, seen.bufferOffset, P, S, F)]
        <5>1. i \in Nat /\ TypeOK
          BY <1>1, <3>1
        <5>2. /\ a = seen.activeChannelCount /\ seen.positionRegister = P * a
              /\ P < S /\ F = Min2(Period, S - P)
              /\ FirstSize = F * a /\ SecondSize = Period * a - F * a
          BY <2>1
        <5>3. WalksPlaces(i, a, P, S, F)
          BY <5>1, <5>2, WalkIsPlaces
        <5>. QED BY <5>3 DEF WalksPlaces
      <4>. QED BY <2>2, <4>1
    <3>3. CASE j < F
      <4>1. Walk(i)[j] = [at |-> offset + P * a + i + j * a, left |-> (F - j) * a]
        BY <3>2, <3>3 DEF Place
      <4>2. (F - j) * a >= 1 * a
        BY <3>3, Growth
      <4>3. (P + j + 1) * a <= S * a
        <5>1. P + j + 1 <= S
          BY <2>1, <2>3, <3>3 DEF Min2
        <5>. QED BY <5>1, Smaller
      <4>4. PICK n \in Nat : n = P * a + j * a + i
        BY <3>1, Product
      <4>5. PICK size \in Nat : size = S * a
        BY Product
      <4>6. n < size
        BY <3>1, <4>3, <4>4, <4>5
      <4>7. n % size = n
        BY <4>6
      <4>8. offset + P * a + i + j * a = offset + (P * a + j * a + i)
        BY <3>1
      <4>. QED BY <4>1, <4>2, <4>4, <4>5, <4>7, <4>8
    <3>4. CASE ~(j < F)
      <4>1. Walk(i)[j] = [at |-> offset + i + (P + j - S) * a, left |-> (Period - j) * a]
        BY <3>2, <3>4 DEF Place
      <4>2. (Period - j) * a >= 1 * a
        BY <2>3, Growth
      <4>3. F = S - P
        BY <2>1, <2>3, <3>4 DEF Min2
      <4>4. PICK k \in Nat : k = P + j - S /\ k + 1 <= S
        BY <2>1, <2>3, <3>4, <4>3
      <4>5. (k + 1) * a <= S * a
        BY <4>4, Smaller
      <4>6. PICK size \in Nat, n \in Nat : size = S * a /\ n = k * a + i
        BY <3>1, <4>4, Product
      <4>7. n < size
        BY <3>1, <4>4, <4>5, <4>6
      <4>8. P * a + j * a + i = n + size
        <5>1. P + j = k + S
          BY <4>4
        <5>2. (P + j) * a + i = (k + S) * a + i
          BY <5>1
        <5>. QED BY <3>1, <4>4, <4>6, <5>2
      <4>9. (n + size) % size = n
        BY <4>7, Wrapped
      <4>10. offset + i + (P + j - S) * a = offset + n
        BY <3>1, <4>4, <4>6
      <4>. QED BY <4>1, <4>2, <4>6, <4>8, <4>9, <4>10
    <3>. QED BY <3>3, <3>4
  <2>. QED BY <2>1, <2>2, <2>4 DEF CopiedSamples
<1>2. IInv => CopyFollowsRing
  BY <1>1 DEF IInv, CopyFollowsRing
<1>. QED BY <1>2, RegistersInvariant, PTL
=============================================================================
