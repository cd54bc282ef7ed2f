---------------------------- MODULE WaveRT_proofs ----------------------------
(* Safety of WaveRT: cells, views and registers of several endpoints. *)
EXTENDS WaveRT, FiniteSetTheorems, WellFoundedInduction, TLAPS

-----------------------------------------------------------------------------
(* Arithmetic *)

LEMMA Product ==
    ASSUME NEW a \in Nat, NEW b \in Nat
    PROVE  a * b \in Nat /\ (a > 0 /\ b > 0 => a * b > 0)
OBVIOUS

LEMMA Quotient ==
    ASSUME NEW a \in Nat, NEW b \in Nat \ {0}
    PROVE  /\ a \div b \in Nat
           /\ (a \div b) * b <= a
           /\ a < (a \div b) * b + b
OBVIOUS

LEMMA ProductOrder ==
    ASSUME NEW a \in Int, NEW b \in Int, NEW c \in Nat \ {0}
    PROVE  a * c < b * c <=> a < b
OBVIOUS

LEMMA Rounded ==
    ASSUME NEW n \in Nat, NEW unit \in Nat \ {0}
    PROVE  /\ RoundUp(n, unit) \in Nat /\ RoundUp(n, unit) >= n
           /\ (RoundUp(n, unit) \div unit) \in Nat
           /\ (RoundUp(n, unit) \div unit) * unit = RoundUp(n, unit)
<1>. DEFINE k == (n + unit - 1) \div unit
<1>1. n + unit - 1 \in Nat
  OBVIOUS
<1>2. k \in Nat /\ n + unit - 1 < k * unit + unit
  BY <1>1, Quotient
<1>3. RoundUp(n, unit) = k * unit /\ k * unit \in Nat
  BY <1>2, Product DEF RoundUp
<1>4. (k * unit) \div unit = k
  BY <1>2, <1>3
<1>. HIDE DEF k
<1>. QED BY <1>2, <1>3, <1>4

LEMMA LeastElement ==
    ASSUME NEW S \in SUBSET Nat, S # {}
    PROVE  \E x \in S : \A y \in S : x <= y
<1>. DEFINE R == {p \in Nat \X Nat : p[1] < p[2]}
<1>1. IsWellFoundedOn(R, Nat)
  BY NatLessThanWellFounded DEF OpToRel
<1>2. \E x \in S : \A y \in S : ~(<<y, x>> \in R)
  BY <1>1, WFMin
<1>3. ASSUME NEW x \in Nat, NEW y \in Nat, ~(<<y, x>> \in R)
      PROVE  x <= y
  <2>1. ~(y < x)
    BY <1>3
  <2>. QED BY <2>1
<1>. HIDE DEF R
<1>. QED BY <1>2, <1>3

LEMMA FirstOf ==
    ASSUME NEW S \in SUBSET Nat, S # {}
    PROVE  First(S) \in S /\ \A y \in S : First(S) <= y
BY LeastElement, Zenon DEF First

LEMMA FirstTyped ==
    ASSUME NEW S \in SUBSET Nat
    PROVE  First(S) \in Nat
<1>1. CASE S = {}
  BY <1>1 DEF First
<1>2. CASE S # {}
  BY <1>2, FirstOf
<1>. QED BY <1>1, <1>2

LEMMA FirstOfRun ==
    ASSUME NEW i \in Nat, NEW n \in Nat \ {0}
    PROVE  First(i..(i + n - 1)) = i
<1>. DEFINE S == i..(i + n - 1)
<1>1. S \in SUBSET Nat /\ i \in S /\ \A y \in S : i <= y /\ y \in Nat
  OBVIOUS
<1>. HIDE DEF S
<1>2. First(S) \in S /\ First(S) <= i
  BY <1>1, FirstOf
<1>3. First(S) = i
  <2>1. i <= First(S) /\ First(S) \in Nat
    BY <1>1, <1>2
  <2>. QED BY <1>2, <2>1
<1>. QED BY <1>3 DEF S

-----------------------------------------------------------------------------
(* Cells *)

LEMMA CellsTyped ==
    ASSUME TypeOK
    PROVE  /\ layout.bufferSize \in Nat /\ layout.periodSizeBytes \in Nat
           /\ layout.sampleSize \in Nat /\ layout.sampleRate \in Nat
           /\ layout.minimumFrameCount \in Nat
           /\ Cells \subseteq Nat /\ Cells \subseteq Section /\ ~(Section \subseteq Cells)
           /\ layout = NoLayout => Cells = {}
<1>1. /\ layout.bufferSize \in Nat /\ layout.periodSizeBytes \in Nat
      /\ layout.sampleSize \in Nat /\ layout.sampleRate \in Nat
      /\ layout.minimumFrameCount \in Nat
  BY WaveRTAssumption DEF TypeOK, NoLayout
<1>2. Cells \subseteq Nat /\ Cells \subseteq Section /\ ~(Section \subseteq Cells)
  <2>. DEFINE k == layout.bufferSize \div Cell
  <2>1. k \in Nat
    BY <1>1, WaveRTAssumption, Quotient
  <2>2. Cells = 0..(k - 1) /\ Section = 0..k
    BY DEF Cells, Section
  <2>. HIDE DEF k
  <2>3. k \in Section /\ k \notin Cells
    BY <2>1, <2>2
  <2>. QED BY <2>1, <2>2, <2>3
<1>3. ASSUME layout = NoLayout PROVE Cells = {}
  <2>1. layout.bufferSize = 0
    BY <1>3 DEF NoLayout
  <2>2. 0 \div Cell = 0
    BY WaveRTAssumption
  <2>. QED BY <2>1, <2>2 DEF Cells
<1>. QED BY <1>1, <1>2, <1>3

LEMMA EndpointTyped ==
    ASSUME TypeOK
    PROVE  endpoint \in [Endpoints -> [activePin : Pins \cup {NoPin}, activeChannelCount : Nat,
                                       cells : SUBSET Cells, channelMask : Masks \cup {{}}]]
BY DEF TypeOK

LEMMA PinsTyped ==
    ASSUME TypeOK
    PROVE  pin \in [Pins -> [pc : PinStates, endpoint : Endpoints,
                             process : Processes \cup {NoProcess}, channels : Nat, size : Nat]]
BY DEF TypeOK

LEMMA RegistersTyped ==
    ASSUME TypeOK
    PROVE  registers \in [Endpoints -> [active : BOOLEAN, bufferOffset : Nat, bufferSize : Nat]]
BY DEF TypeOK

\* RtlFindClearBitsAndSet: what is found is a run of n cells that are free.
LEMMA FirstFitIsRun ==
    ASSUME TypeOK, NEW n \in Nat, FirstFit(n) # {}
    PROVE  /\ n > 0 /\ FirstFit(n) \subseteq Cells \ bufferMap
           /\ First(FirstFit(n)) \in Nat
           /\ FirstFit(n) = First(FirstFit(n))..(First(FirstFit(n)) + n - 1)
<1>. DEFINE fits == {i \in Cells : i..(i + n - 1) \subseteq Cells \ bufferMap}
            i == CHOOSE i \in fits : \A j \in fits : i <= j
<1>1. fits # {} /\ FirstFit(n) = i..(i + n - 1)
  BY DEF FirstFit
<1>2. fits \in SUBSET Nat
  BY CellsTyped
<1>. HIDE DEF fits
<1>3. i \in fits
  BY <1>1, <1>2, LeastElement
<1>4. i \in Nat /\ i..(i + n - 1) \subseteq Cells \ bufferMap
  BY <1>2, <1>3 DEF fits
<1>. HIDE DEF i
<1>5. n > 0
  BY <1>1, <1>4
<1>6. First(FirstFit(n)) = i
  <2>1. n \in Nat \ {0}
    BY <1>5
  <2>2. First(i..(i + n - 1)) = i
    BY <1>4, <2>1, FirstOfRun
  <2>. QED BY <1>1, <2>2
<1>. QED BY <1>1, <1>4, <1>5, <1>6

\* What a call goes on with, also when it is no cell at all.
LEMMA FirstFitIsFree ==
    ASSUME TypeOK, NEW n \in Nat, FirstFit(n) # {} \/ n = 0
    PROVE  /\ FirstFit(n) \subseteq Cells \ bufferMap
           /\ FirstFit(n) = First(FirstFit(n))..(First(FirstFit(n)) + n - 1)
           /\ FirstFit(n) = {} => n = 0
<1>1. CASE FirstFit(n) # {}
  BY <1>1, FirstFitIsRun
<1>2. CASE FirstFit(n) = {}
  <2>1. n = 0 /\ First(FirstFit(n)) = 0
    BY <1>2 DEF First
  <2>. QED BY <1>2, <2>1
<1>. QED BY <1>1, <1>2

-----------------------------------------------------------------------------
(* The layout and the channel masks *)

LEMMA InitIInv == Init => IInv
<1>. SUFFICES ASSUME Init PROVE IInv
  OBVIOUS
<1>1. IdlePin.endpoint \in Endpoints
  BY WaveRTAssumption DEF IdlePin
<1>2. TypeOK
  BY <1>1 DEF Init, TypeOK, IdlePin, NoLayout, NoRegisters, PinStates
<1>3. LayoutInv
  BY DEF Init, LayoutInv, IdlePin
<1>4. MaskInv
  <2>1. Cardinality({}) = 0
    BY FS_EmptySet
  <2>2. \A e \in Endpoints : ChannelCount[e] \in Nat
    BY WaveRTAssumption
  <2>3. \A e \in Endpoints : endpoint[e].channelMask = {}
    BY DEF Init
  <2>. QED BY <2>1, <2>2, <2>3 DEF MaskInv, MaskFits, getnbits
<1>5. PinInv /\ BufferInv /\ ViewInv
  <2>1. PinInv
    BY WaveRTAssumption DEF Init, PinInv, IdlePin, NoRegisters
  <2>. QED BY <2>1 DEF Init, BufferInv, ViewInv, IdlePin
<1>6. CellsAccounted /\ RegistersInv
  BY DEF Init, CellsAccounted, RegistersInv, NoRegisters, NoLayout
<1>. QED BY <1>2, <1>3, <1>4, <1>5, <1>6 DEF IInv

LEMMA BuildLayoutKeeps ==
    ASSUME IInv, NEW l \in Layouts, BuildLayout(l)
    PROVE  IInv'
<1>1. /\ ValidLayout(l) /\ building' = building \cup {l}
      /\ UNCHANGED <<layout, bufferMap, endpoint, abandoned, contexts, views, registers, pin,
                     written>>
  BY DEF BuildLayout, mapVars, mappingVars
<1>2. Cells' = Cells /\ Section' = Section
  BY <1>1 DEF Cells, Section
<1>3. TypeOK' /\ LayoutInv'
  BY <1>1, <1>2 DEF IInv, TypeOK, LayoutInv
<1>4. MaskInv' /\ PinInv' /\ BufferInv' /\ CellsAccounted' /\ ViewInv'
  BY <1>1, <1>2 DEF IInv, MaskInv, PinInv, ActivePinIn, BufferInv, CellsAccounted, ViewInv, Sized
<1>5. RegistersInv'
  BY <1>1, <1>2 DEF IInv, RegistersInv, ActivePinIn, BufferCells, Sized
<1>. QED BY <1>3, <1>4, <1>5 DEF IInv

LEMMA CommitLayoutKeeps ==
    ASSUME IInv, NEW l \in Layouts, CommitLayout(l)
    PROVE  IInv'
<1>1. /\ l \in building /\ building' = building \ {l}
      /\ layout' = IF LayoutFree THEN l ELSE layout
      /\ UNCHANGED <<bufferMap, endpoint, abandoned, contexts, views, registers, pin, written>>
  BY DEF CommitLayout, mapVars, mappingVars
<1>2. ASSUME layout # NoLayout PROVE layout' = layout
  <2>1. ValidLayout(layout)
    BY <1>2 DEF IInv, LayoutInv
  <2>2. layout.bufferSize \in 1..MaxBufferSize
    BY <2>1 DEF ValidLayout
  <2>3. layout.bufferSize # 0
    BY <2>2
  <2>. QED BY <1>1, <2>3 DEF LayoutFree
<1>3. /\ Cells \subseteq Cells' /\ Section \subseteq Section'
      /\ layout' \in Layouts \cup {NoLayout}
  <2>1. layout' \in Layouts \cup {NoLayout}
    BY <1>1 DEF IInv, TypeOK
  <2>2. CASE layout = NoLayout
    <3>1. layout'.bufferSize \in Nat
      BY <2>1, WaveRTAssumption DEF NoLayout
    <3>2. layout'.bufferSize \div Cell \in Nat
      BY <3>1, WaveRTAssumption, Quotient
    <3>3. Section = {0}
      <4>1. layout.bufferSize = 0 /\ 0 \div Cell = 0
        BY <2>2, WaveRTAssumption DEF NoLayout
      <4>. QED BY <4>1 DEF Section
    <3>. QED BY <2>1, <2>2, <3>2, <3>3, CellsTyped DEF IInv, Section
  <2>3. CASE layout # NoLayout
    BY <1>2, <2>1, <2>3 DEF Cells, Section
  <2>. QED BY <2>1, <2>2, <2>3
<1>4. LayoutInv'
  BY <1>1, <1>2 DEF IInv, LayoutInv, LayoutFree, NoLayout
<1>5. TypeOK'
  <2>1. layout' \in Layouts \cup {NoLayout} /\ building' \subseteq Layouts
    BY <1>1 DEF IInv, TypeOK
  <2>2. bufferMap' \subseteq Cells' /\ abandoned' \subseteq Cells'
    BY <1>1, <1>3 DEF IInv, TypeOK
  <2>3. endpoint' \in [Endpoints -> [activePin : Pins \cup {NoPin},
                                   activeChannelCount : Nat, cells : SUBSET Cells',
                                   channelMask : Masks \cup {{}}]]
    BY <1>1, <1>3 DEF IInv, TypeOK
  <2>4. contexts' \in [Endpoints -> SUBSET [process : Processes, bufferUVA : SUBSET Section']]
    BY <1>1, <1>3 DEF IInv, TypeOK
  <2>5. views' \subseteq [process : Processes, endpoint : Endpoints, cells : SUBSET Section']
    BY <1>1, <1>3 DEF IInv, TypeOK
  <2>. QED BY <1>1, <2>1, <2>2, <2>3, <2>4, <2>5 DEF IInv, TypeOK
<1>6. MaskInv' /\ PinInv' /\ CellsAccounted'
  BY <1>1 DEF IInv, MaskInv, PinInv, ActivePinIn, CellsAccounted
<1>7. BufferInv' /\ ViewInv' /\ RegistersInv'
  <2>1. CASE layout = NoLayout
    <3>1. views = {} /\ \A p \in Pins : pin[p].pc = "none"
      BY <2>1 DEF IInv, LayoutInv
    <3>2. \A e \in Endpoints : registers'[e].bufferOffset + registers'[e].bufferSize <= layout'.bufferSize
      <4>1. \A e \in Endpoints : /\ registers[e].bufferOffset + registers[e].bufferSize <= 0
                                /\ registers[e].bufferOffset \in Nat
                                /\ registers[e].bufferSize \in Nat
        BY <2>1, RegistersTyped DEF IInv, RegistersInv, NoLayout
      <4>2. layout'.bufferSize \in Nat
        BY <1>3, WaveRTAssumption DEF NoLayout
      <4>. QED BY <1>1, <4>1, <4>2
    <3>. QED BY <1>1, <3>1, <3>2 DEF BufferInv, ViewInv, RegistersInv, ActivePinIn
  <2>2. CASE layout # NoLayout
    <3>1. layout' = layout /\ Cells' = Cells /\ Section' = Section
      BY <1>2, <2>2 DEF Cells, Section
    <3>2. BufferInv' /\ ViewInv'
      BY <1>1, <3>1 DEF IInv, BufferInv, ViewInv, Sized
    <3>. QED BY <1>1, <3>1, <3>2 DEF IInv, RegistersInv, ActivePinIn, BufferCells, Sized
  <2>. QED BY <2>1, <2>2
<1>. QED BY <1>4, <1>5, <1>6, <1>7 DEF IInv

LEMMA SetAudioChannelConfigKeeps ==
    ASSUME IInv, NEW e \in Endpoints, NEW mask \in Masks, SetAudioChannelConfig(e, mask)
    PROVE  IInv'
<1>1. /\ MaskFits(e, mask) /\ endpoint' = [endpoint EXCEPT ![e].channelMask = mask]
      /\ UNCHANGED <<layout, building, bufferMap, abandoned, contexts, views, registers, pin,
                     written>>
  BY DEF SetAudioChannelConfig, layoutVars, mappingVars
<1>2. Cells' = Cells /\ Section' = Section
  BY <1>1 DEF Cells, Section
<1>3. \A f \in Endpoints :
         /\ endpoint'[f].activePin = endpoint[f].activePin
         /\ endpoint'[f].cells = endpoint[f].cells
         /\ endpoint'[f].channelMask = IF f = e THEN mask ELSE endpoint[f].channelMask
  BY <1>1 DEF IInv, TypeOK
<1>4. TypeOK'
  BY <1>1, <1>2 DEF IInv, TypeOK
<1>5. LayoutInv' /\ MaskInv'
  BY <1>1, <1>3 DEF IInv, LayoutInv, MaskInv, MaskFits
<1>6. PinInv' /\ BufferInv'
  BY <1>1, <1>3 DEF IInv, TypeOK, PinInv, ActivePinIn, BufferInv
<1>7. CellsAccounted'
  BY <1>1, <1>3 DEF IInv, CellsAccounted
<1>8. ViewInv'
  <2>1. \A v \in views : v.endpoint \in Endpoints
    BY DEF IInv, TypeOK
  <2>. QED BY <1>1, <1>2, <1>3, <2>1 DEF IInv, ViewInv, Sized
<1>9. RegistersInv'
  BY <1>1, <1>2, <1>3 DEF IInv, RegistersInv, ActivePinIn, BufferCells, Sized
<1>. QED BY <1>4, <1>5, <1>6, <1>7, <1>8, <1>9 DEF IInv

-----------------------------------------------------------------------------
(* Opening and closing a pin *)

\* A step of one pin is none of another endpoint's.
LEMMA OtherEndpoints ==
    ASSUME IInv, NEW p \in Pins, NEW e \in Endpoints,
           \A q \in Pins \ {p} : pin'[q] = pin[q],
           \A f \in Endpoints \ {e} : endpoint'[f].activePin = endpoint[f].activePin,
           pin[p].pc = "none" \/ pin[p].endpoint = e
    PROVE  \A f \in Endpoints \ {e} : \A S : ActivePinIn(f, S)' <=> ActivePinIn(f, S)
<1>1. \A f \in Endpoints \ {e} : endpoint[f].activePin # p
  BY DEF IInv, PinInv
<1>. QED BY <1>1 DEF ActivePinIn

LEMMA PinCreateKeeps ==
    ASSUME IInv, NEW p \in Pins, NEW e \in Endpoints, NEW q \in Processes,
           NEW n \in FormatChannels[e], PinCreate(p, e, q, n)
    PROVE  IInv'
<1>1. /\ pin[p].pc = "none" /\ layout # NoLayout /\ endpoint[e].activePin = NoPin
      /\ endpoint' = [endpoint EXCEPT ![e].activePin = p]
      /\ pin' = [pin EXCEPT ![p] = [pc |-> "claimed", endpoint |-> e, process |-> q,
                                    channels |-> n, size |-> 0]]
      /\ UNCHANGED <<layout, building, bufferMap, abandoned, contexts, views, registers, written>>
  BY DEF PinCreate, PinFree, layoutVars, mappingVars
<1>2. Cells' = Cells /\ Section' = Section
  BY <1>1 DEF Cells, Section
<1>3. /\ \A f \in Endpoints :
            /\ endpoint'[f].activePin = IF f = e THEN p ELSE endpoint[f].activePin
            /\ endpoint'[f].cells = endpoint[f].cells
            /\ endpoint'[f].channelMask = endpoint[f].channelMask
      /\ \A r \in Pins \ {p} : pin'[r] = pin[r]
      /\ pin'[p].pc = "claimed" /\ pin'[p].endpoint = e /\ pin'[p].process = q
  BY <1>1 DEF IInv, TypeOK
<1>4. \A f \in Endpoints \ {e} : \A S : ActivePinIn(f, S)' <=> ActivePinIn(f, S)
  BY <1>1, <1>3, OtherEndpoints
<1>5. \A S : ~ActivePinIn(e, S)
  BY <1>1, WaveRTAssumption DEF ActivePinIn
<1>6. \A S : ActivePinIn(e, S)' <=> "claimed" \in S
  BY <1>3 DEF ActivePinIn
<1>7. TypeOK'
  <2>1. n \in Nat
    BY WaveRTAssumption
  <2>2. pin' \in [Pins -> [pc : PinStates, endpoint : Endpoints,
                           process : Processes \cup {NoProcess}, channels : Nat, size : Nat]]
    BY <1>1, <2>1 DEF IInv, TypeOK, PinStates
  <2>3. endpoint' \in [Endpoints -> [activePin : Pins \cup {NoPin},
                                   activeChannelCount : Nat, cells : SUBSET Cells,
                                   channelMask : Masks \cup {{}}]]
    <3>1. endpoint \in [Endpoints -> [activePin : Pins \cup {NoPin},
                                   activeChannelCount : Nat, cells : SUBSET Cells,
                                   channelMask : Masks \cup {{}}]]
      BY DEF IInv, TypeOK
    <3>. QED BY <1>1, <3>1
  <2>. QED BY <1>1, <1>2, <2>2, <2>3 DEF IInv, TypeOK
<1>8. LayoutInv' /\ MaskInv'
  BY <1>1, <1>3 DEF IInv, LayoutInv, MaskInv, MaskFits
<1>9. PinInv'
  <2>1. \A r \in Pins, f \in Endpoints :
           endpoint'[f].activePin = r <=> pin'[r].pc # "none" /\ pin'[r].endpoint = f
    BY <1>1, <1>3, WaveRTAssumption DEF IInv, PinInv
  <2>2. \A r \in Pins : pin'[r].pc \in {"claimed", "allocated", "mapped"} => pin'[r].process \in Processes
    BY <1>3 DEF IInv, PinInv
  <2>3. ASSUME NEW f \in Endpoints
        PROVE  /\ ~ActivePinIn(f, {"open", "allocated", "mapped", "deactivated"})' => contexts'[f] = {}
               /\ ~ActivePinIn(f, {"open", "allocated", "mapped", "deactivated", "detached"})' =>
                     endpoint'[f].cells = {}
               /\ registers'[f].active => f \notin written' \/ ActivePinIn(f, {"open", "allocated", "mapped"})'
    BY <1>1, <1>3, <1>4, <1>5, <1>6 DEF IInv, PinInv
  <2>. QED BY <2>1, <2>2, <2>3 DEF PinInv
<1>10. BufferInv'
  BY <1>1, <1>3 DEF IInv, TypeOK, BufferInv
<1>11. CellsAccounted'
  BY <1>1, <1>3 DEF IInv, CellsAccounted
<1>12. ViewInv'
  <2>1. \A v \in views : v.endpoint \in Endpoints
    BY DEF IInv, TypeOK
  <2>. QED BY <1>1, <1>2, <1>3, <2>1 DEF IInv, ViewInv, Sized
<1>13. RegistersInv'
  <2>1. \A f \in Endpoints : BufferCells(f)' = BufferCells(f)
    BY <1>1, <1>2 DEF BufferCells
  <2>. QED BY <1>1, <1>2, <1>3, <1>4, <1>6, <2>1 DEF IInv, RegistersInv, Sized
<1>. QED BY <1>7, <1>8, <1>9, <1>10, <1>11, <1>12, <1>13 DEF IInv

\* A pin that gives its endpoint up, which has no buffer and no contexts any more.
LEMMA LeaveKeeps ==
    ASSUME IInv, NEW p \in Pins, pin[p].pc \in {"claimed", "cleared"},
           endpoint' = [endpoint EXCEPT ![pin[p].endpoint].activePin = NoPin],
           pin' = [pin EXCEPT ![p] = IdlePin], written' \subseteq written,
           UNCHANGED <<layout, building, bufferMap, abandoned, contexts, views, registers>>
    PROVE  IInv'
<1>. PICK e \in Endpoints : e = pin[p].endpoint
  BY DEF IInv, TypeOK
<1>1. endpoint[e].activePin = p
  BY DEF IInv, PinInv
<1>2. Cells' = Cells /\ Section' = Section
  BY DEF Cells, Section
<1>3. /\ \A f \in Endpoints :
            /\ endpoint'[f].activePin = IF f = e THEN NoPin ELSE endpoint[f].activePin
            /\ endpoint'[f].cells = endpoint[f].cells
            /\ endpoint'[f].channelMask = endpoint[f].channelMask
      /\ \A r \in Pins \ {p} : pin'[r] = pin[r]
      /\ pin'[p].pc = "none"
  BY <1>1 DEF IInv, TypeOK, IdlePin
<1>4. \A f \in Endpoints \ {e} : \A S : ActivePinIn(f, S)' <=> ActivePinIn(f, S)
  BY <1>1, <1>3, OtherEndpoints
<1>5. \A S : ActivePinIn(e, S) <=> pin[p].pc \in S
  BY <1>1 DEF ActivePinIn
<1>6. \A S : ~ActivePinIn(e, S)'
  BY <1>1, <1>3, WaveRTAssumption DEF ActivePinIn
<1>7. TypeOK'
  <2>1. IdlePin \in [pc : PinStates, endpoint : Endpoints,
                     process : Processes \cup {NoProcess}, channels : Nat, size : Nat]
    BY WaveRTAssumption DEF IdlePin, PinStates
  <2>2. pin' \in [Pins -> [pc : PinStates, endpoint : Endpoints,
                           process : Processes \cup {NoProcess}, channels : Nat, size : Nat]]
    BY <2>1 DEF IInv, TypeOK
  <2>3. endpoint' \in [Endpoints -> [activePin : Pins \cup {NoPin},
                                   activeChannelCount : Nat, cells : SUBSET Cells,
                                   channelMask : Masks \cup {{}}]]
    <3>1. endpoint \in [Endpoints -> [activePin : Pins \cup {NoPin},
                                   activeChannelCount : Nat, cells : SUBSET Cells,
                                   channelMask : Masks \cup {{}}]]
      BY DEF IInv, TypeOK
    <3>. QED BY <3>1
  <2>. QED BY <1>2, <2>2, <2>3 DEF IInv, TypeOK
<1>8. LayoutInv' /\ MaskInv'
  BY <1>3 DEF IInv, LayoutInv, MaskInv, MaskFits
<1>9. PinInv'
  <2>1. \A r \in Pins, f \in Endpoints :
           endpoint'[f].activePin = r <=> pin'[r].pc # "none" /\ pin'[r].endpoint = f
    BY <1>1, <1>3, WaveRTAssumption DEF IInv, PinInv
  <2>2. \A r \in Pins : pin'[r].pc \in {"claimed", "allocated", "mapped"} => pin'[r].process \in Processes
    BY <1>3 DEF IInv, PinInv
  <2>3. ASSUME NEW f \in Endpoints
        PROVE  /\ ~ActivePinIn(f, {"open", "allocated", "mapped", "deactivated"})' => contexts'[f] = {}
               /\ ~ActivePinIn(f, {"open", "allocated", "mapped", "deactivated", "detached"})' =>
                     endpoint'[f].cells = {}
               /\ registers'[f].active => f \notin written' \/ ActivePinIn(f, {"open", "allocated", "mapped"})'
    BY <1>3, <1>4, <1>5, <1>6 DEF IInv, PinInv
  <2>. QED BY <2>1, <2>2, <2>3 DEF PinInv
<1>10. BufferInv'
  <2>. SUFFICES ASSUME NEW r \in Pins, pin'[r].pc \in {"allocated", "mapped"}
                PROVE  pin'[r] = pin[r] /\ endpoint'[pin[r].endpoint].cells = endpoint[pin[r].endpoint].cells
    BY DEF IInv, BufferInv
  <2>. QED BY <1>3 DEF IInv, TypeOK
<1>11. CellsAccounted'
  BY <1>3 DEF IInv, CellsAccounted
<1>12. ViewInv'
  <2>1. \A v \in views : v.endpoint \in Endpoints
    BY DEF IInv, TypeOK
  <2>. QED BY <1>2, <1>3, <2>1 DEF IInv, ViewInv, Sized
<1>13. RegistersInv'
  <2>1. \A f \in Endpoints : BufferCells(f)' = BufferCells(f)
    BY <1>2 DEF BufferCells
  <2>. QED BY <1>2, <1>3, <1>4, <1>6, <2>1 DEF IInv, RegistersInv, Sized
<1>. QED BY <1>7, <1>8, <1>9, <1>10, <1>11, <1>12, <1>13 DEF IInv

LEMMA OpenPinFailsKeeps ==
    ASSUME IInv, NEW p \in Pins, OpenPinFails(p)
    PROVE  IInv'
BY LeaveKeeps DEF OpenPinFails, layoutVars, mappingVars

LEMMA CloseLeavesKeeps ==
    ASSUME IInv, NEW p \in Pins, CloseLeaves(p)
    PROVE  IInv'
BY LeaveKeeps DEF CloseLeaves, layoutVars, mappingVars

\* A step of a pin that leaves the cells, the map and the views alone.
LEMMA QuietStepKeeps ==
    ASSUME IInv, NEW p \in Pins, NEW e \in Endpoints, e = pin[p].endpoint, pin[p].pc # "none",
           UNCHANGED <<layout, building, bufferMap, abandoned, views>>,
           TypeOK', pin'[p].pc # "none", pin'[p].endpoint = e,
           \A r \in Pins \ {p} : pin'[r] = pin[r],
           \A f \in Endpoints : /\ endpoint'[f].activePin = endpoint[f].activePin
                                /\ endpoint'[f].cells = endpoint[f].cells
                                /\ endpoint'[f].channelMask = endpoint[f].channelMask
                                /\ registers'[f].bufferOffset = registers[f].bufferOffset
                                /\ registers'[f].bufferSize = registers[f].bufferSize,
           \A f \in Endpoints \ {e} : contexts'[f] = contexts[f] /\ registers'[f] = registers[f],
           contexts[e] \subseteq contexts'[e], written' \subseteq written,
           contexts'[e] # {} => pin'[p].pc \in {"open", "allocated", "mapped", "deactivated"},
           endpoint[e].cells # {} =>
              pin'[p].pc \in {"open", "allocated", "mapped", "deactivated", "detached"},
           registers'[e].active =>
              e \notin written' \/ pin'[p].pc \in {"open", "allocated", "mapped"},
           pin'[p].pc \in {"claimed", "allocated", "mapped"} => pin'[p].process \in Processes,
           pin'[p].pc \in {"allocated", "mapped"} =>
              /\ pin[p].pc \in {"allocated", "mapped"}
              /\ pin'[p].size = pin[p].size /\ pin'[p].process = pin[p].process,
           pin'[p].pc \in {"open", "allocated", "mapped"} /\ e \in written' =>
              pin[p].pc \in {"open", "allocated", "mapped"}
    PROVE  IInv'
<1>1. endpoint[e].activePin = p
  BY DEF IInv, PinInv
<1>2. \A f \in Endpoints \ {e} : \A S : ActivePinIn(f, S)' <=> ActivePinIn(f, S)
  BY OtherEndpoints
<1>3. \A S : /\ ActivePinIn(e, S) <=> pin[p].pc \in S
             /\ ActivePinIn(e, S)' <=> pin'[p].pc \in S
  BY <1>1 DEF ActivePinIn
<1>4. LayoutInv' /\ MaskInv'
  BY DEF IInv, LayoutInv, MaskInv, MaskFits
<1>5. PinInv'
  <2>1. \A r \in Pins, f \in Endpoints :
           endpoint'[f].activePin = r <=> pin'[r].pc # "none" /\ pin'[r].endpoint = f
    BY DEF IInv, PinInv
  <2>2. \A r \in Pins : pin'[r].pc \in {"claimed", "allocated", "mapped"} => pin'[r].process \in Processes
    BY DEF IInv, PinInv
  <2>3. ASSUME NEW f \in Endpoints
        PROVE  /\ ~ActivePinIn(f, {"open", "allocated", "mapped", "deactivated"})' => contexts'[f] = {}
               /\ ~ActivePinIn(f, {"open", "allocated", "mapped", "deactivated", "detached"})' =>
                     endpoint'[f].cells = {}
               /\ registers'[f].active => f \notin written' \/ ActivePinIn(f, {"open", "allocated", "mapped"})'
    <3>1. CASE f = e
      BY <1>3, <3>1
    <3>2. CASE f # e
      BY <1>2, <3>2 DEF IInv, PinInv
    <3>. QED BY <3>1, <3>2
  <2>. QED BY <2>1, <2>2, <2>3 DEF PinInv
<1>6. BufferInv'
  <2>. SUFFICES ASSUME NEW r \in Pins, pin'[r].pc \in {"allocated", "mapped"}
                PROVE  LET f == pin'[r].endpoint
                           first == First(endpoint'[f].cells)
                           n == RoundUp(pin'[r].size, Cell) \div Cell
                       IN /\ endpoint'[f].cells = first..(first + n - 1)
                          /\ endpoint'[f].cells = {} => layout'.minimumFrameCount = 0
                          /\ \E c \in contexts'[f] : c.process = pin'[r].process
    BY DEF BufferInv, First
  <2>1. pin[r].endpoint \in Endpoints
    BY DEF IInv, TypeOK
  <2>2. /\ pin[r].pc \in {"allocated", "mapped"}
        /\ pin'[r].size = pin[r].size /\ pin'[r].process = pin[r].process
        /\ pin'[r].endpoint = pin[r].endpoint
        /\ endpoint'[pin[r].endpoint].cells = endpoint[pin[r].endpoint].cells
        /\ contexts[pin[r].endpoint] \subseteq contexts'[pin[r].endpoint]
    BY <2>1
  <2>. QED BY <2>2 DEF IInv, BufferInv
<1>7. CellsAccounted'
  BY DEF IInv, CellsAccounted
<1>8. ViewInv'
  <2>1. \A v \in views : v.endpoint \in Endpoints
    BY DEF IInv, TypeOK
  <2>2. \A f \in Endpoints : contexts[f] \subseteq contexts'[f]
    OBVIOUS
  <2>. QED BY <2>1, <2>2 DEF IInv, ViewInv, Sized, Cells, Section
<1>9. RegistersInv'
  <2>1. \A f \in Endpoints : BufferCells(f)' = BufferCells(f)
    BY DEF BufferCells, Cells
  <2>2. ASSUME NEW f \in Endpoints, f \in written', ActivePinIn(f, {"open", "allocated", "mapped"})'
        PROVE  f \in written /\ ActivePinIn(f, {"open", "allocated", "mapped"})
    BY <1>2, <1>3, <2>2
  <2>. QED BY <2>1, <2>2 DEF IInv, RegistersInv, Sized, Cells
<1>. QED BY <1>4, <1>5, <1>6, <1>7, <1>8, <1>9 DEF IInv

LEMMA WithContextTyped ==
    ASSUME TypeOK, NEW e \in Endpoints, NEW q \in Processes
    PROVE  /\ contexts[e] \subseteq WithContext(e, q)
           /\ \E c \in WithContext(e, q) : c.process = q
           /\ [contexts EXCEPT ![e] = WithContext(e, q)] \in
                 [Endpoints -> SUBSET [process : Processes, bufferUVA : SUBSET Section]]
<1>. DEFINE Context == [process : Processes, bufferUVA : SUBSET Section]
<1>1. contexts \in [Endpoints -> SUBSET Context]
  BY DEF TypeOK
<1>2. [process |-> q, bufferUVA |-> {}] \in Context
  OBVIOUS
<1>. HIDE DEF Context
<1>3. WithContext(e, q) \in SUBSET Context /\ contexts[e] \subseteq WithContext(e, q)
  BY <1>1, <1>2 DEF WithContext
<1>4. \E c \in WithContext(e, q) : c.process = q
  <2>1. CASE \E c \in contexts[e] : c.process = q
    BY <1>3, <2>1
  <2>2. CASE ~ \E c \in contexts[e] : c.process = q
    <3>1. [process |-> q, bufferUVA |-> {}] \in WithContext(e, q)
      BY <2>2 DEF WithContext
    <3>. QED BY <3>1
  <2>. QED BY <2>1, <2>2
<1>5. [contexts EXCEPT ![e] = WithContext(e, q)] \in [Endpoints -> SUBSET Context]
  BY <1>1, <1>3
<1>. QED BY <1>3, <1>4, <1>5 DEF Context

\* A call for a buffer begins, or ends.
LEMMA PinChanged ==
    ASSUME TypeOK, NEW p \in Pins, NEW pc \in PinStates, NEW q \in Processes \cup {NoProcess},
           NEW size \in Nat,
           pin' = [pin EXCEPT ![p].pc = pc, ![p].process = q, ![p].size = size]
    PROVE  /\ \A r \in Pins \ {p} : pin'[r] = pin[r]
           /\ pin'[p].pc = pc /\ pin'[p].endpoint = pin[p].endpoint
           /\ pin'[p].process = q /\ pin'[p].size = size
           /\ pin' \in [Pins -> [pc : PinStates, endpoint : Endpoints,
                                 process : Processes \cup {NoProcess}, channels : Nat, size : Nat]]
<1>. DEFINE Record == [pc : PinStates, endpoint : Endpoints, process : Processes \cup {NoProcess},
                       channels : Nat, size : Nat]
            new == [pin[p] EXCEPT !.pc = pc, !.process = q, !.size = size]
<1>1. pin \in [Pins -> Record]
  BY PinsTyped
<1>2. pin' = [pin EXCEPT ![p] = new]
  BY <1>1
<1>3. new \in Record /\ new.pc = pc /\ new.endpoint = pin[p].endpoint
      /\ new.process = q /\ new.size = size
  BY <1>1
<1>. HIDE DEF new, Record
<1>4. pin' \in [Pins -> Record]
  BY <1>1, <1>2, <1>3
<1>5. pin'[p] = new
  BY <1>1, <1>2
<1>6. \A r \in Pins \ {p} : pin'[r] = pin[r]
  BY <1>1, <1>2
<1>. QED BY <1>3, <1>4, <1>5, <1>6 DEF Record

\* The pin of a step: its endpoint, whose it is.
LEMMA PinTyped ==
    ASSUME IInv, NEW p \in Pins, pin[p].pc # "none"
    PROVE  /\ pin[p].endpoint \in Endpoints
           /\ endpoint[pin[p].endpoint].activePin = p
           /\ \A S : ActivePinIn(pin[p].endpoint, S) <=> pin[p].pc \in S
BY DEF IInv, TypeOK, PinInv, ActivePinIn

\* What changes in the endpoint's record is its count of channels.
LEMMA CountChanged ==
    ASSUME TypeOK, NEW e \in Endpoints, NEW n \in Nat,
           \/ endpoint' = [endpoint EXCEPT ![e].activeChannelCount = n]
           \/ /\ endpoint[e].cells = {}
              /\ endpoint' = [endpoint EXCEPT ![e].cells = {}, ![e].activeChannelCount = n]
    PROVE  /\ \A f \in Endpoints : /\ endpoint'[f].activePin = endpoint[f].activePin
                                  /\ endpoint'[f].cells = endpoint[f].cells
                                  /\ endpoint'[f].channelMask = endpoint[f].channelMask
           /\ endpoint' \in [Endpoints -> [activePin : Pins \cup {NoPin}, activeChannelCount : Nat,
                                           cells : SUBSET Cells, channelMask : Masks \cup {{}}]]
<1>1. endpoint \in [Endpoints -> [activePin : Pins \cup {NoPin}, activeChannelCount : Nat,
                                  cells : SUBSET Cells, channelMask : Masks \cup {{}}]]
  BY EndpointTyped
<1>2. endpoint' = [endpoint EXCEPT ![e] = [@ EXCEPT !.activeChannelCount = n]]
  BY <1>1
<1>3. [endpoint[e] EXCEPT !.activeChannelCount = n] \in
         [activePin : Pins \cup {NoPin}, activeChannelCount : Nat, cells : SUBSET Cells,
          channelMask : Masks \cup {{}}]
  BY <1>1
<1>4. \A f \in Endpoints : /\ endpoint'[f].activePin = endpoint[f].activePin
                          /\ endpoint'[f].cells = endpoint[f].cells
                          /\ endpoint'[f].channelMask = endpoint[f].channelMask
  BY <1>1, <1>2
<1>. QED BY <1>1, <1>2, <1>3, <1>4

\* What changes in the registers is that they are active, or are not.
LEMMA ActiveChanged ==
    ASSUME TypeOK, NEW e \in Endpoints, NEW active \in BOOLEAN,
           registers' = [registers EXCEPT ![e].active = active]
    PROVE  /\ \A f \in Endpoints : /\ registers'[f].bufferOffset = registers[f].bufferOffset
                                  /\ registers'[f].bufferSize = registers[f].bufferSize
           /\ \A f \in Endpoints \ {e} : registers'[f] = registers[f]
           /\ registers'[e].active <=> active
           /\ registers' \in [Endpoints -> [active : BOOLEAN, bufferOffset : Nat, bufferSize : Nat]]
<1>1. registers \in [Endpoints -> [active : BOOLEAN, bufferOffset : Nat, bufferSize : Nat]]
  BY RegistersTyped
<1>. QED BY <1>1

LEMMA OpenPinKeeps ==
    ASSUME IInv, NEW p \in Pins, OpenPin(p)
    PROVE  IInv'
<1>. PICK e \in Endpoints : e = pin[p].endpoint
  BY DEF IInv, TypeOK
<1>1. /\ pin[p].pc = "claimed"
      /\ contexts' = [contexts EXCEPT ![e] = WithContext(e, pin[p].process)]
      /\ written' = written \ {e}
      /\ pin' = [pin EXCEPT ![p].pc = "open", ![p].process = NoProcess]
      /\ UNCHANGED <<layout, building, bufferMap, abandoned, views>>
  BY DEF OpenPin, layoutVars
<1>2. PICK n \in Nat, active \in BOOLEAN :
         /\ endpoint' = [endpoint EXCEPT ![e].cells = {}, ![e].activeChannelCount = n]
         /\ registers' = [registers EXCEPT ![e].active = active]
  <2>1. pin[p].channels \in Nat /\ endpoint[e].activeChannelCount \in Nat
    BY PinsTyped, EndpointTyped DEF IInv
  <2>2. PICK read \in BOOLEAN, wrote \in BOOLEAN :
           /\ endpoint' = [endpoint EXCEPT ![e].cells = {},
                 ![e].activeChannelCount = IF read THEN pin[p].channels ELSE @]
           /\ registers' = [registers EXCEPT ![e].active = @ /\ ~(read /\ wrote)]
    BY DEF OpenPin
  <2>3. (IF read THEN pin[p].channels ELSE endpoint[e].activeChannelCount) \in Nat
    BY <2>1
  <2>4. (registers[e].active /\ ~(read /\ wrote)) \in BOOLEAN
    OBVIOUS
  <2>. QED BY <2>2, <2>3, <2>4
<1>3. endpoint[e].cells = {}
  <2>1. ~ActivePinIn(e, {"open", "allocated", "mapped", "deactivated", "detached"})
    BY <1>1, PinTyped
  <2>. QED BY <2>1 DEF IInv, PinInv
<1>4. /\ contexts' \in [Endpoints -> SUBSET [process : Processes, bufferUVA : SUBSET Section]]
      /\ contexts[e] \subseteq contexts'[e]
      /\ \A f \in Endpoints \ {e} : contexts'[f] = contexts[f]
  <2>1. pin[p].process \in Processes
    BY <1>1 DEF IInv, PinInv
  <2>. QED BY <1>1, <2>1, WithContextTyped DEF IInv, TypeOK
<1>5. /\ \A f \in Endpoints : /\ endpoint'[f].activePin = endpoint[f].activePin
                              /\ endpoint'[f].cells = endpoint[f].cells
                              /\ endpoint'[f].channelMask = endpoint[f].channelMask
      /\ endpoint' \in [Endpoints -> [activePin : Pins \cup {NoPin}, activeChannelCount : Nat,
                                      cells : SUBSET Cells, channelMask : Masks \cup {{}}]]
  BY <1>2, <1>3, CountChanged DEF IInv
<1>6. /\ \A f \in Endpoints : /\ registers'[f].bufferOffset = registers[f].bufferOffset
                              /\ registers'[f].bufferSize = registers[f].bufferSize
      /\ \A f \in Endpoints \ {e} : registers'[f] = registers[f]
      /\ registers' \in [Endpoints -> [active : BOOLEAN, bufferOffset : Nat, bufferSize : Nat]]
  BY <1>2, ActiveChanged DEF IInv
<1>7. /\ \A r \in Pins \ {p} : pin'[r] = pin[r]
      /\ pin'[p].pc = "open" /\ pin'[p].endpoint = e
      /\ pin' \in [Pins -> [pc : PinStates, endpoint : Endpoints,
                            process : Processes \cup {NoProcess}, channels : Nat, size : Nat]]
  <2>1. pin \in [Pins -> [pc : PinStates, endpoint : Endpoints,
                          process : Processes \cup {NoProcess}, channels : Nat, size : Nat]]
    BY PinsTyped DEF IInv
  <2>. QED BY <1>1, <2>1 DEF PinStates
<1>8. TypeOK'
  <2>1. Cells' = Cells /\ Section' = Section
    BY <1>1 DEF Cells, Section
  <2>. QED BY <1>1, <1>4, <1>5, <1>6, <1>7, <2>1 DEF IInv, TypeOK
<1>9. e \notin written' /\ written' \subseteq written
  BY <1>1
<1>. QED BY <1>1, <1>3, <1>4, <1>5, <1>6, <1>7, <1>8, <1>9, QuietStepKeeps

\* A list of contexts to which a process may have been added.
LEMMA ListTyped ==
    ASSUME TypeOK, NEW e \in Endpoints, NEW q \in Processes, NEW list \in Failed(e, q),
           contexts' = [contexts EXCEPT ![e] = list]
    PROVE  /\ contexts' \in [Endpoints -> SUBSET [process : Processes, bufferUVA : SUBSET Section]]
           /\ contexts[e] \subseteq contexts'[e]
           /\ \A f \in Endpoints \ {e} : contexts'[f] = contexts[f]
<1>1. CASE list = WithContext(e, q)
  BY <1>1, WithContextTyped DEF TypeOK
<1>2. CASE list = contexts[e]
  BY <1>2 DEF TypeOK
<1>. QED BY <1>1, <1>2 DEF Failed

\* An access by a pin that is open, which makes a context or fails to.
LEMMA ContextStepKeeps ==
    ASSUME IInv, NEW p \in Pins, NEW q \in Processes, pin[p].pc = "open",
           NEW list \in Failed(pin[p].endpoint, q),
           contexts' = [contexts EXCEPT ![pin[p].endpoint] = list],
           UNCHANGED <<layout, building, bufferMap, endpoint, abandoned, views, registers, pin,
                       written>>
    PROVE  IInv'
<1>. PICK e \in Endpoints : e = pin[p].endpoint
  BY DEF IInv, TypeOK
<1>1. /\ contexts' \in [Endpoints -> SUBSET [process : Processes, bufferUVA : SUBSET Section]]
      /\ contexts[e] \subseteq contexts'[e]
      /\ \A f \in Endpoints \ {e} : contexts'[f] = contexts[f]
  BY ListTyped DEF IInv
<1>2. TypeOK'
  <2>1. Cells' = Cells /\ Section' = Section
    BY DEF Cells, Section
  <2>. QED BY <1>1, <2>1 DEF IInv, TypeOK
<1>. QED BY <1>1, <1>2, QuietStepKeeps

LEMMA GetPositionRegisterKeeps ==
    ASSUME IInv, NEW p \in Pins, NEW q \in Processes, GetPositionRegister(p, q)
    PROVE  IInv'
BY ContextStepKeeps DEF GetPositionRegister, Failed, layoutVars, mapVars

LEMMA SetDeviceStateFailsKeeps ==
    ASSUME IInv, NEW p \in Pins, NEW q \in Processes, SetDeviceStateFails(p, q)
    PROVE  IInv'
BY ContextStepKeeps DEF SetDeviceStateFails, layoutVars, mapVars

LEMMA SetDeviceStateKeeps ==
    ASSUME IInv, NEW p \in Pins, NEW q \in Processes, SetDeviceState(p, q)
    PROVE  IInv'
<1>. PICK e \in Endpoints : e = pin[p].endpoint
  BY DEF IInv, TypeOK
<1>1. /\ pin[p].pc = "open"
      /\ contexts' = [contexts EXCEPT ![e] = WithContext(e, q)]
      /\ \E active \in BOOLEAN : registers' = [registers EXCEPT ![e].active = active]
      /\ UNCHANGED <<layout, building, bufferMap, endpoint, abandoned, views, pin, written>>
  BY DEF SetDeviceState, layoutVars, mapVars
<1>2. /\ \A f \in Endpoints : /\ registers'[f].bufferOffset = registers[f].bufferOffset
                              /\ registers'[f].bufferSize = registers[f].bufferSize
      /\ \A f \in Endpoints \ {e} : registers'[f] = registers[f]
      /\ registers' \in [Endpoints -> [active : BOOLEAN, bufferOffset : Nat, bufferSize : Nat]]
  BY <1>1, ActiveChanged DEF IInv
<1>3. /\ contexts' \in [Endpoints -> SUBSET [process : Processes, bufferUVA : SUBSET Section]]
      /\ contexts[e] \subseteq contexts'[e]
      /\ \A f \in Endpoints \ {e} : contexts'[f] = contexts[f]
  BY <1>1, ListTyped DEF IInv, Failed
<1>4. TypeOK'
  <2>1. Cells' = Cells /\ Section' = Section
    BY <1>1 DEF Cells, Section
  <2>. QED BY <1>1, <1>2, <1>3, <2>1 DEF IInv, TypeOK
<1>. QED BY <1>1, <1>2, <1>3, <1>4, QuietStepKeeps

LEMMA GetBufferFailsKeeps ==
    ASSUME IInv, NEW p \in Pins, GetBufferFails(p)
    PROVE  IInv'
<1>. PICK e \in Endpoints : e = pin[p].endpoint
  BY DEF IInv, TypeOK
<1>1. /\ pin[p].pc \in {"allocated", "mapped"}
      /\ pin' = [pin EXCEPT ![p].pc = "open", ![p].process = NoProcess, ![p].size = 0]
      /\ UNCHANGED <<layout, building, bufferMap, endpoint, abandoned, contexts, views, registers,
                     written>>
  BY DEF GetBufferFails, layoutVars, mapVars, mappingVars
<1>2. /\ \A r \in Pins \ {p} : pin'[r] = pin[r]
      /\ pin'[p].pc = "open" /\ pin'[p].endpoint = e
      /\ pin' \in [Pins -> [pc : PinStates, endpoint : Endpoints,
                            process : Processes \cup {NoProcess}, channels : Nat, size : Nat]]
  BY <1>1, PinChanged DEF IInv, PinStates
<1>3. TypeOK'
  <2>1. Cells' = Cells /\ Section' = Section
    BY <1>1 DEF Cells, Section
  <2>. QED BY <1>1, <1>2, <2>1 DEF IInv, TypeOK
<1>. QED BY <1>1, <1>2, <1>3, QuietStepKeeps

LEMMA CloseWritesGenerationKeeps ==
    ASSUME IInv, NEW p \in Pins, NEW q \in Processes,
           CloseWritesGeneration(p, q) \/ CloseMissesGeneration(p, q)
    PROVE  IInv'
<1>. PICK e \in Endpoints : e = pin[p].endpoint
  BY DEF IInv, TypeOK
<1>1. /\ pin[p].pc = "open"
      /\ \E list \in Failed(e, q) : contexts' = [contexts EXCEPT ![e] = list]
      /\ pin' = [pin EXCEPT ![p].pc = "deactivated"]
      /\ UNCHANGED <<layout, building, bufferMap, endpoint, abandoned, views>>
  BY DEF CloseWritesGeneration, CloseMissesGeneration, Failed, layoutVars, mapVars
<1>2. /\ \A f \in Endpoints : /\ registers'[f].bufferOffset = registers[f].bufferOffset
                              /\ registers'[f].bufferSize = registers[f].bufferSize
      /\ \A f \in Endpoints \ {e} : registers'[f] = registers[f]
      /\ registers'[e].active => e \notin written'
      /\ registers' \in [Endpoints -> [active : BOOLEAN, bufferOffset : Nat, bufferSize : Nat]]
      /\ written' \subseteq written
  <2>1. CASE CloseWritesGeneration(p, q)
    <3>1. registers' = [registers EXCEPT ![e].active = FALSE] /\ written' = written
      BY <2>1, RegistersTyped DEF IInv, CloseWritesGeneration, Deactivated
    <3>. QED BY <3>1, ActiveChanged DEF IInv
  <2>2. CASE CloseMissesGeneration(p, q)
    BY <2>2, RegistersTyped DEF IInv, CloseMissesGeneration
  <2>. QED BY <2>1, <2>2
<1>3. /\ contexts' \in [Endpoints -> SUBSET [process : Processes, bufferUVA : SUBSET Section]]
      /\ contexts[e] \subseteq contexts'[e]
      /\ \A f \in Endpoints \ {e} : contexts'[f] = contexts[f]
  BY <1>1, ListTyped DEF IInv
<1>4. /\ \A r \in Pins \ {p} : pin'[r] = pin[r]
      /\ pin'[p].pc = "deactivated" /\ pin'[p].endpoint = e
      /\ pin' \in [Pins -> [pc : PinStates, endpoint : Endpoints,
                            process : Processes \cup {NoProcess}, channels : Nat, size : Nat]]
  <2>1. pin \in [Pins -> [pc : PinStates, endpoint : Endpoints,
                          process : Processes \cup {NoProcess}, channels : Nat, size : Nat]]
    BY PinsTyped DEF IInv
  <2>. QED BY <1>1, <2>1 DEF PinStates
<1>5. TypeOK'
  <2>1. Cells' = Cells /\ Section' = Section
    BY <1>1 DEF Cells, Section
  <2>. QED BY <1>1, <1>2, <1>3, <1>4, <2>1 DEF IInv, TypeOK
<1>. QED BY <1>1, <1>2, <1>3, <1>4, <1>5, QuietStepKeeps

-----------------------------------------------------------------------------
(* Buffers *)

\* The buffer's size is what was asked for, in whole frames: a number of
\* cells, which is none only if the layout has no minimum.
LEMMA SizeInCells ==
    ASSUME IInv, NEW p \in Pins, pin[p].pc # "none", NEW request \in Nat
    PROVE  /\ Channels(pin[p].endpoint) \in Nat
           /\ ActualSize(pin[p].endpoint, request) \in Nat
           /\ CellsFor(pin[p].endpoint, request) \in Nat
           /\ CellsFor(pin[p].endpoint, request) = 0 => layout.minimumFrameCount = 0
<1>. PICK e \in Endpoints : e = pin[p].endpoint
  BY DEF IInv, TypeOK
<1>. DEFINE least == layout.minimumFrameCount * layout.periodSizeBytes * Channels(e)
<1>1. Channels(e) \in Nat /\ Channels(e) > 0
  <2>1. endpoint[e].activeChannelCount \in Nat
    BY DEF IInv, TypeOK
  <2>2. ChannelCount[e] \in Nat \ {0}
    BY WaveRTAssumption
  <2>. QED BY <2>1, <2>2 DEF Channels
<1>2. /\ layout.sampleSize \in Nat /\ layout.sampleSize > 0
      /\ layout.periodSizeBytes \in Nat /\ layout.periodSizeBytes > 0
      /\ layout.minimumFrameCount \in Nat
  <2>1. ValidLayout(layout)
    BY DEF IInv, LayoutInv
  <2>2. layout.sampleSize \in 1..4 /\ layout.periodSizeBytes \in 1..layout.bufferSize
    BY <2>1 DEF ValidLayout
  <2>3. layout.minimumFrameCount \in Nat /\ layout.periodSizeBytes \in Nat
    BY CellsTyped DEF IInv
  <2>. QED BY <2>2, <2>3
<1>3. layout.sampleSize * Channels(e) \in Nat /\ layout.sampleSize * Channels(e) > 0
  BY <1>1, <1>2, Product
<1>4. least \in Nat /\ (least = 0 => layout.minimumFrameCount = 0)
  <2>. DEFINE frames == layout.minimumFrameCount * layout.periodSizeBytes
  <2>1. frames \in Nat /\ (layout.minimumFrameCount > 0 => frames > 0)
    BY <1>2, Product
  <2>2. least = frames * Channels(e)
    OBVIOUS
  <2>. HIDE DEF frames, least
  <2>3. least \in Nat /\ (frames > 0 => least > 0)
    BY <1>1, <2>1, <2>2, Product
  <2>. QED BY <1>2, <2>1, <2>3
<1>. HIDE DEF least
<1>5. Larger(request, least) \in Nat /\ Larger(request, least) >= least
  BY <1>4 DEF Larger
<1>6. ActualSize(e, request) \in Nat /\ ActualSize(e, request) >= least
  <2>1. ActualSize(e, request) = RoundUp(Larger(request, least), layout.sampleSize * Channels(e))
    BY DEF ActualSize, least
  <2>2. layout.sampleSize * Channels(e) \in Nat \ {0}
    BY <1>3
  <2>3. /\ RoundUp(Larger(request, least), layout.sampleSize * Channels(e)) \in Nat
        /\ RoundUp(Larger(request, least), layout.sampleSize * Channels(e)) >= Larger(request, least)
    BY <1>5, <2>2, Rounded
  <2>. QED BY <1>4, <1>5, <2>1, <2>3
<1>7. /\ CellsFor(e, request) \in Nat
      /\ CellsFor(e, request) = 0 => ActualSize(e, request) = 0
  <2>1. Cell \in Nat \ {0}
    BY WaveRTAssumption
  <2>. DEFINE size == ActualSize(e, request)
  <2>2. /\ RoundUp(size, Cell) >= size /\ RoundUp(size, Cell) \div Cell \in Nat
        /\ (RoundUp(size, Cell) \div Cell) * Cell = RoundUp(size, Cell)
    BY <1>6, <2>1, Rounded
  <2>3. CellsFor(e, request) = RoundUp(size, Cell) \div Cell
    BY DEF CellsFor
  <2>4. ASSUME CellsFor(e, request) = 0 PROVE RoundUp(size, Cell) = 0
    BY <2>1, <2>2, <2>3, <2>4
  <2>. QED BY <1>6, <2>2, <2>3, <2>4
<1>. QED BY <1>1, <1>4, <1>6, <1>7

LEMMA RefuseBufferKeeps ==
    ASSUME IInv, NEW p \in Pins, NEW q \in Processes, NEW request \in Nat,
           RefuseBuffer(p, q, request)
    PROVE  IInv'
<1>. PICK e \in Endpoints : e = pin[p].endpoint
  BY DEF IInv, TypeOK
<1>1. /\ pin[p].pc = "open"
      /\ \E list \in Failed(e, q) : contexts' = [contexts EXCEPT ![e] = list]
      /\ endpoint' = [endpoint EXCEPT ![e].activeChannelCount = Channels(e)]
      /\ UNCHANGED <<layout, building, bufferMap, abandoned, views, registers, pin, written>>
  <2>1. contexts = [contexts EXCEPT ![e] = contexts[e]]
    BY DEF IInv, TypeOK
  <2>. QED BY <2>1 DEF RefuseBuffer, Failed, layoutVars
<1>2. /\ contexts' \in [Endpoints -> SUBSET [process : Processes, bufferUVA : SUBSET Section]]
      /\ contexts[e] \subseteq contexts'[e]
      /\ \A f \in Endpoints \ {e} : contexts'[f] = contexts[f]
  BY <1>1, ListTyped DEF IInv
<1>3. /\ \A f \in Endpoints : /\ endpoint'[f].activePin = endpoint[f].activePin
                              /\ endpoint'[f].cells = endpoint[f].cells
                              /\ endpoint'[f].channelMask = endpoint[f].channelMask
      /\ endpoint' \in [Endpoints -> [activePin : Pins \cup {NoPin}, activeChannelCount : Nat,
                                      cells : SUBSET Cells, channelMask : Masks \cup {{}}]]
  <2>1. Channels(e) \in Nat
    BY <1>1, SizeInCells
  <2>. QED BY <1>1, <2>1, CountChanged DEF IInv
<1>4. TypeOK'
  <2>1. Cells' = Cells /\ Section' = Section
    BY <1>1 DEF Cells, Section
  <2>. QED BY <1>1, <1>2, <1>3, <2>1 DEF IInv, TypeOK
<1>. QED BY <1>1, <1>2, <1>3, <1>4, QuietStepKeeps

LEMMA AllocateCellsKeeps ==
    ASSUME IInv, NEW p \in Pins, NEW q \in Processes, NEW request \in Nat,
           AllocateCells(p, q, request)
    PROVE  IInv'
<1>. PICK e \in Endpoints : e = pin[p].endpoint
  BY DEF IInv, TypeOK
<1>. DEFINE size == ActualSize(e, request)
            n == CellsFor(e, request)
            cells == FirstFit(n)
<1>1. /\ pin[p].pc = "open"
      /\ contexts' = [contexts EXCEPT ![e] = WithContext(e, q)]
      /\ UNCHANGED <<layout, building, views, registers, written>>
  BY DEF AllocateCells, layoutVars
<1>2. /\ Channels(e) \in Nat /\ size \in Nat /\ n \in Nat
      /\ n = 0 => layout.minimumFrameCount = 0
  BY <1>1, SizeInCells
<1>3. /\ contexts' \in [Endpoints -> SUBSET [process : Processes, bufferUVA : SUBSET Section]]
      /\ contexts[e] \subseteq contexts'[e]
      /\ \E c \in contexts'[e] : c.process = q
      /\ \A f \in Endpoints \ {e} : contexts'[f] = contexts[f]
  BY <1>1, WithContextTyped DEF IInv, TypeOK
<1>4. Cells' = Cells /\ Section' = Section
  BY <1>1 DEF Cells, Section
<1>5. /\ bufferMap' = bufferMap \cup cells
      /\ abandoned' = abandoned \cup endpoint[e].cells
      /\ endpoint' = [endpoint EXCEPT ![e].cells = cells, ![e].activeChannelCount = Channels(e)]
      /\ pin' = [pin EXCEPT ![p].pc = "allocated", ![p].process = q, ![p].size = size]
  BY DEF AllocateCells
<1>6. /\ cells \subseteq Cells \ bufferMap
      /\ cells = First(cells)..(First(cells) + n - 1)
      /\ cells = {} => layout.minimumFrameCount = 0
  <2>1. cells # {} \/ n = 0
    BY DEF AllocateCells
  <2>. QED BY <1>2, <2>1, FirstFitIsFree DEF IInv
<1>. HIDE DEF cells
<1>7. /\ \A f \in Endpoints :
            /\ endpoint'[f].activePin = endpoint[f].activePin
            /\ endpoint'[f].cells = IF f = e THEN cells ELSE endpoint[f].cells
            /\ endpoint'[f].channelMask = endpoint[f].channelMask
      /\ endpoint' \in [Endpoints -> [activePin : Pins \cup {NoPin}, activeChannelCount : Nat,
                                      cells : SUBSET Cells, channelMask : Masks \cup {{}}]]
  <2>1. endpoint \in [Endpoints -> [activePin : Pins \cup {NoPin}, activeChannelCount : Nat,
                                    cells : SUBSET Cells, channelMask : Masks \cup {{}}]]
    BY EndpointTyped DEF IInv
  <2>2. cells \in SUBSET Cells
    BY <1>6
  <2>. QED BY <1>2, <1>5, <2>1, <2>2
<1>. HIDE DEF n, size
<1>8. /\ \A r \in Pins \ {p} : pin'[r] = pin[r]
      /\ pin'[p].pc = "allocated" /\ pin'[p].endpoint = e /\ pin'[p].process = q
      /\ pin'[p].size = size
      /\ pin' \in [Pins -> [pc : PinStates, endpoint : Endpoints,
                            process : Processes \cup {NoProcess}, channels : Nat, size : Nat]]
  <2>1. TypeOK /\ "allocated" \in PinStates /\ q \in Processes \cup {NoProcess} /\ size \in Nat
    BY <1>2 DEF IInv, PinStates, size
  <2>. QED BY <1>5, <2>1, PinChanged
<1>9. TypeOK'
  <2>1. bufferMap' \subseteq Cells /\ abandoned' \subseteq Cells
    <3>1. endpoint[e].cells \subseteq Cells
      BY EndpointTyped DEF IInv
    <3>. QED BY <1>5, <1>6, <3>1 DEF IInv, TypeOK
  <2>. QED BY <1>1, <1>3, <1>4, <1>7, <1>8, <2>1 DEF IInv, TypeOK
<1>10. \A f \in Endpoints \ {e} : \A S : ActivePinIn(f, S)' <=> ActivePinIn(f, S)
  BY <1>7, <1>8, OtherEndpoints
<1>11. /\ endpoint[e].activePin = p
       /\ \A S : ActivePinIn(e, S) <=> pin[p].pc \in S
       /\ \A S : ActivePinIn(e, S)' <=> pin'[p].pc \in S
  <2>1. endpoint[e].activePin = p /\ \A S : ActivePinIn(e, S) <=> pin[p].pc \in S
    BY <1>1, PinTyped
  <2>. QED BY <1>7, <2>1 DEF ActivePinIn
<1>12. LayoutInv' /\ MaskInv'
  BY <1>1, <1>7, <1>8 DEF IInv, LayoutInv, MaskInv, MaskFits
<1>13. PinInv'
  <2>1. \A r \in Pins, f \in Endpoints :
           endpoint'[f].activePin = r <=> pin'[r].pc # "none" /\ pin'[r].endpoint = f
    BY <1>1, <1>7, <1>8 DEF IInv, PinInv
  <2>2. \A r \in Pins : pin'[r].pc \in {"claimed", "allocated", "mapped"} => pin'[r].process \in Processes
    BY <1>8 DEF IInv, PinInv
  <2>3. ASSUME NEW f \in Endpoints
        PROVE  /\ ~ActivePinIn(f, {"open", "allocated", "mapped", "deactivated"})' => contexts'[f] = {}
               /\ ~ActivePinIn(f, {"open", "allocated", "mapped", "deactivated", "detached"})' =>
                     endpoint'[f].cells = {}
               /\ registers'[f].active => f \notin written' \/ ActivePinIn(f, {"open", "allocated", "mapped"})'
    <3>1. CASE f = e
      BY <1>8, <1>11, <3>1
    <3>2. CASE f # e
      BY <1>1, <1>3, <1>7, <1>10, <3>2 DEF IInv, PinInv
    <3>. QED BY <3>1, <3>2
  <2>. QED BY <2>1, <2>2, <2>3 DEF PinInv
<1>14. BufferInv'
  <2>. SUFFICES ASSUME NEW r \in Pins, pin'[r].pc \in {"allocated", "mapped"}
                PROVE  LET f == pin'[r].endpoint
                           first == First(endpoint'[f].cells)
                           m == RoundUp(pin'[r].size, Cell) \div Cell
                       IN /\ endpoint'[f].cells = first..(first + m - 1)
                          /\ endpoint'[f].cells = {} => layout'.minimumFrameCount = 0
                          /\ \E c \in contexts'[f] : c.process = pin'[r].process
    BY DEF BufferInv, First
  <2>1. CASE r = p
    BY <1>1, <1>3, <1>6, <1>7, <1>8, <2>1 DEF n, size, CellsFor
  <2>2. CASE r # p
    <3>1. /\ pin'[r] = pin[r] /\ pin[r].endpoint \in Endpoints \ {e}
      BY <1>8, <1>11, <2>2 DEF IInv, TypeOK, PinInv
    <3>2. /\ endpoint'[pin[r].endpoint].cells = endpoint[pin[r].endpoint].cells
          /\ contexts'[pin[r].endpoint] = contexts[pin[r].endpoint]
      BY <1>3, <1>7, <3>1
    <3>. QED BY <1>1, <3>1, <3>2 DEF IInv, BufferInv
  <2>. QED BY <2>1, <2>2
<1>15. CellsAccounted'
  <2>1. \A f \in Endpoints : endpoint[f].cells \subseteq bufferMap
    BY DEF IInv, CellsAccounted
  <2>2. \A f \in Endpoints : endpoint'[f].cells \cap abandoned' = {}
    BY <1>5, <1>6, <1>7, <2>1 DEF IInv, CellsAccounted
  <2>3. \A f, g \in Endpoints : f # g => endpoint'[f].cells \cap endpoint'[g].cells = {}
    BY <1>6, <1>7, <2>1 DEF IInv, CellsAccounted
  <2>4. ASSUME NEW i
        PROVE  i \in bufferMap' <=> i \in abandoned' \/ \E f \in Endpoints : i \in endpoint'[f].cells
    <3>1. i \in bufferMap <=> i \in abandoned \/ \E f \in Endpoints : i \in endpoint[f].cells
      BY DEF IInv, CellsAccounted
    <3>2. endpoint'[e].cells = cells /\ \A f \in Endpoints \ {e} : endpoint'[f].cells = endpoint[f].cells
      BY <1>7
    <3>3. i \in bufferMap' <=> i \in bufferMap \/ i \in cells
      BY <1>5
    <3>4. i \in abandoned' <=> i \in abandoned \/ i \in endpoint[e].cells
      BY <1>5
    <3>. QED BY <3>1, <3>2, <3>3, <3>4
  <2>. QED BY <2>2, <2>3, <2>4 DEF CellsAccounted
<1>16. ViewInv'
  <2>1. \A v \in views : v.endpoint \in Endpoints
    BY DEF IInv, TypeOK
  <2>2. \A v \in views : \/ v.cells \subseteq abandoned'
                         \/ /\ v.cells = endpoint'[v.endpoint].cells
                            /\ [process |-> v.process, bufferUVA |-> v.cells] \in contexts'[v.endpoint]
                         \/ v.cells = Section /\ layout.minimumFrameCount = 0
    <3>. TAKE v \in views
    <3>1. CASE v.cells \subseteq abandoned
      BY <1>5, <3>1
    <3>2. CASE v.endpoint = e /\ v.cells = endpoint[e].cells
      BY <1>5, <3>2
    <3>3. CASE /\ v.endpoint # e /\ v.cells = endpoint[v.endpoint].cells
               /\ [process |-> v.process, bufferUVA |-> v.cells] \in contexts[v.endpoint]
      <4>1. v.endpoint \in Endpoints \ {e}
        BY <2>1, <3>3
      <4>. QED BY <1>3, <1>7, <3>3, <4>1
    <3>. QED BY <3>1, <3>2, <3>3 DEF IInv, ViewInv
  <2>. QED BY <1>1, <1>4, <2>2 DEF IInv, ViewInv, Sized
<1>17. RegistersInv'
  <2>1. \A f \in Endpoints : BufferCells(f)' = BufferCells(f)
    BY <1>1, <1>4 DEF BufferCells
  <2>2. \A f \in Endpoints : ActivePinIn(f, {"open", "allocated", "mapped"})' =>
                                ActivePinIn(f, {"open", "allocated", "mapped"})
    BY <1>1, <1>10, <1>11
  <2>3. ASSUME NEW f \in Endpoints
        PROVE  BufferCells(f) \subseteq abandoned \/ BufferCells(f) \subseteq endpoint[f].cells =>
                  BufferCells(f) \subseteq abandoned' \/ BufferCells(f) \subseteq endpoint'[f].cells
    BY <1>5, <1>7
  <2>. QED BY <1>1, <1>4, <2>1, <2>2, <2>3 DEF IInv, RegistersInv, Sized
<1>. QED BY <1>9, <1>12, <1>13, <1>14, <1>15, <1>16, <1>17 DEF IInv

\* Another pin's buffer is not touched by a step of this pin.
LEMMA OtherBuffers ==
    ASSUME IInv, NEW p \in Pins, NEW e \in Endpoints, e = pin[p].endpoint, pin[p].pc # "none",
           \A r \in Pins \ {p} : pin'[r] = pin[r],
           \A f \in Endpoints \ {e} : /\ endpoint'[f].cells = endpoint[f].cells
                                      /\ contexts'[f] = contexts[f],
           pin'[p].pc \notin {"allocated", "mapped"}, layout' = layout
    PROVE  BufferInv'
<1>. SUFFICES ASSUME NEW r \in Pins, pin'[r].pc \in {"allocated", "mapped"}
              PROVE  LET f == pin'[r].endpoint
                         first == First(endpoint'[f].cells)
                         m == RoundUp(pin'[r].size, Cell) \div Cell
                     IN /\ endpoint'[f].cells = first..(first + m - 1)
                        /\ endpoint'[f].cells = {} => layout'.minimumFrameCount = 0
                        /\ \E c \in contexts'[f] : c.process = pin'[r].process
  BY DEF BufferInv, First
<1>1. pin'[r] = pin[r] /\ pin[r].endpoint \in Endpoints \ {e}
  BY DEF IInv, TypeOK, PinInv
<1>2. /\ endpoint'[pin[r].endpoint].cells = endpoint[pin[r].endpoint].cells
      /\ contexts'[pin[r].endpoint] = contexts[pin[r].endpoint]
  BY <1>1
<1>. QED BY <1>1, <1>2 DEF IInv, BufferInv

\* A view of cells, and the cells of another endpoint, have nothing in common.
LEMMA ViewIsOthersNot ==
    ASSUME IInv, NEW v \in views, NEW f \in Endpoints, v.endpoint # f, Sized(v)
    PROVE  v.cells \cap endpoint[f].cells = {}
<1>1. v.endpoint \in Endpoints
  BY DEF IInv, TypeOK
<1>2. CASE v.cells \subseteq abandoned
  BY <1>2 DEF IInv, CellsAccounted
<1>3. CASE v.cells = endpoint[v.endpoint].cells
  BY <1>1, <1>3 DEF IInv, CellsAccounted
<1>4. v.cells # Section
  BY CellsTyped DEF IInv, Sized
<1>. QED BY <1>2, <1>3, <1>4 DEF IInv, ViewInv

\* PinInv when the step changes only one pin's, and its endpoint's, records.
LEMMA PinStepKeepsPinInv ==
    ASSUME IInv, NEW p \in Pins, NEW e \in Endpoints, e = pin[p].endpoint, pin[p].pc # "none",
           pin'[p].pc # "none", pin'[p].endpoint = e,
           \A r \in Pins \ {p} : pin'[r] = pin[r],
           \A f \in Endpoints : endpoint'[f].activePin = endpoint[f].activePin,
           \A f \in Endpoints \ {e} : /\ endpoint'[f].cells = endpoint[f].cells
                                      /\ contexts'[f] = contexts[f]
                                      /\ registers'[f] = registers[f],
           contexts'[e] # {} => pin'[p].pc \in {"open", "allocated", "mapped", "deactivated"},
           endpoint'[e].cells # {} =>
              pin'[p].pc \in {"open", "allocated", "mapped", "deactivated", "detached"},
           \A f \in Endpoints \ {e} : f \in written' => f \in written,
           registers'[e].active => e \notin written' \/ pin'[p].pc \in {"open", "allocated", "mapped"},
           pin'[p].pc \in {"claimed", "allocated", "mapped"} => pin'[p].process \in Processes
    PROVE  /\ PinInv'
           /\ \A f \in Endpoints \ {e} : \A S : ActivePinIn(f, S)' <=> ActivePinIn(f, S)
           /\ \A S : ActivePinIn(e, S) <=> pin[p].pc \in S
           /\ \A S : ActivePinIn(e, S)' <=> pin'[p].pc \in S
<1>1. endpoint[e].activePin = p
  BY DEF IInv, PinInv
<1>2. \A f \in Endpoints \ {e} : \A S : ActivePinIn(f, S)' <=> ActivePinIn(f, S)
  BY OtherEndpoints
<1>3. \A S : /\ ActivePinIn(e, S) <=> pin[p].pc \in S
             /\ ActivePinIn(e, S)' <=> pin'[p].pc \in S
  BY <1>1 DEF ActivePinIn
<1>4. \A r \in Pins, f \in Endpoints :
         endpoint'[f].activePin = r <=> pin'[r].pc # "none" /\ pin'[r].endpoint = f
  BY DEF IInv, PinInv
<1>5. \A r \in Pins : pin'[r].pc \in {"claimed", "allocated", "mapped"} => pin'[r].process \in Processes
  BY DEF IInv, PinInv
<1>6. ASSUME NEW f \in Endpoints
      PROVE  /\ ~ActivePinIn(f, {"open", "allocated", "mapped", "deactivated"})' => contexts'[f] = {}
             /\ ~ActivePinIn(f, {"open", "allocated", "mapped", "deactivated", "detached"})' =>
                   endpoint'[f].cells = {}
             /\ registers'[f].active => f \notin written' \/ ActivePinIn(f, {"open", "allocated", "mapped"})'
  <2>1. CASE f = e
    BY <1>3, <2>1
  <2>2. CASE f # e
    BY <1>2, <2>2 DEF IInv, PinInv
  <2>. QED BY <2>1, <2>2
<1>7. PinInv'
  BY <1>4, <1>5, <1>6 DEF PinInv
<1>. QED BY <1>2, <1>3, <1>7

LEMMA MapBufferKeeps ==
    ASSUME IInv, NEW p \in Pins, MapBuffer(p)
    PROVE  IInv'
<1>. PICK e \in Endpoints : e = pin[p].endpoint
  BY DEF IInv, TypeOK
<1>. DEFINE cells == Mapped(endpoint[e].cells)
            new == [process |-> pin[p].process, endpoint |-> e, cells |-> cells]
            told == {IF c.process = pin[p].process THEN [c EXCEPT !.bufferUVA = cells]
                     ELSE c : c \in contexts[e]}
<1>1. /\ pin[p].pc = "allocated"
      /\ views' = views \cup {new}
      /\ contexts' = [contexts EXCEPT ![e] = told]
      /\ pin' = [pin EXCEPT ![p].pc = "mapped"]
      /\ UNCHANGED <<layout, building, bufferMap, endpoint, abandoned, registers, written>>
  BY DEF MapBuffer, layoutVars, mapVars
<1>2. /\ pin[p].process \in Processes /\ cells \in SUBSET Section
      /\ cells = endpoint[e].cells \/ (cells = Section /\ layout.minimumFrameCount = 0)
  <2>1. pin[p].process \in Processes
    BY <1>1 DEF IInv, PinInv
  <2>2. endpoint[e].cells \in SUBSET Section
    BY CellsTyped, EndpointTyped DEF IInv
  <2>3. endpoint[e].cells = {} => layout.minimumFrameCount = 0
    BY <1>1 DEF IInv, BufferInv
  <2>. QED BY <2>1, <2>2, <2>3 DEF Mapped
<1>. HIDE DEF cells
<1>3. /\ \A r \in Pins \ {p} : pin'[r] = pin[r]
      /\ pin'[p].pc = "mapped" /\ pin'[p].endpoint = e
      /\ pin'[p].process = pin[p].process /\ pin'[p].size = pin[p].size
      /\ pin' \in [Pins -> [pc : PinStates, endpoint : Endpoints,
                            process : Processes \cup {NoProcess}, channels : Nat, size : Nat]]
  <2>1. pin \in [Pins -> [pc : PinStates, endpoint : Endpoints,
                          process : Processes \cup {NoProcess}, channels : Nat, size : Nat]]
    BY PinsTyped DEF IInv
  <2>. QED BY <1>1, <2>1 DEF PinStates
<1>4. contexts \in [Endpoints -> SUBSET [process : Processes, bufferUVA : SUBSET Section]]
  BY DEF IInv, TypeOK
<1>5. told \in SUBSET [process : Processes, bufferUVA : SUBSET Section]
  BY <1>2, <1>4
<1>6. \A c \in contexts[e] : c.process = pin[p].process =>
          [process |-> pin[p].process, bufferUVA |-> cells] \in told
  <2>. SUFFICES ASSUME NEW c \in contexts[e], c.process = pin[p].process
                PROVE  [process |-> pin[p].process, bufferUVA |-> cells] \in told
    OBVIOUS
  <2>1. c \in [process : Processes, bufferUVA : SUBSET Section]
    BY <1>4
  <2>2. [c EXCEPT !.bufferUVA = cells] =
           [process |-> pin[p].process, bufferUVA |-> cells]
    BY <2>1
  <2>. QED BY <2>2
<1>7. \A c \in contexts[e] : c.bufferUVA = cells => c \in told
  <2>. SUFFICES ASSUME NEW c \in contexts[e], c.bufferUVA = cells
                PROVE  c \in told
    OBVIOUS
  <2>1. c \in [process : Processes, bufferUVA : SUBSET Section]
    BY <1>4
  <2>2. [c EXCEPT !.bufferUVA = cells] = c
    BY <2>1
  <2>. QED BY <2>2
<1>. HIDE DEF told
<1>8. /\ contexts' \in [Endpoints -> SUBSET [process : Processes, bufferUVA : SUBSET Section]]
      /\ contexts'[e] = told
      /\ \A f \in Endpoints \ {e} : contexts'[f] = contexts[f]
  BY <1>1, <1>4, <1>5
<1>9. Cells' = Cells /\ Section' = Section
  BY <1>1 DEF Cells, Section
<1>10. TypeOK'
  <2>1. views' \subseteq [process : Processes, endpoint : Endpoints, cells : SUBSET Section]
    BY <1>1, <1>2 DEF IInv, TypeOK
  <2>. QED BY <1>1, <1>3, <1>8, <1>9, <2>1 DEF IInv, TypeOK
<1>11. LayoutInv' /\ MaskInv' /\ CellsAccounted'
  BY <1>1, <1>3 DEF IInv, LayoutInv, MaskInv, MaskFits, CellsAccounted
<1>12. /\ PinInv'
       /\ \A f \in Endpoints \ {e} : \A S : ActivePinIn(f, S)' <=> ActivePinIn(f, S)
       /\ \A S : ActivePinIn(e, S) <=> pin[p].pc \in S
       /\ \A S : ActivePinIn(e, S)' <=> pin'[p].pc \in S
  <2>1. \A f \in Endpoints \ {e} : /\ endpoint'[f].cells = endpoint[f].cells
                                   /\ contexts'[f] = contexts[f]
                                   /\ registers'[f] = registers[f]
    BY <1>1, <1>8
  <2>2. \A f \in Endpoints : endpoint'[f].activePin = endpoint[f].activePin
    BY <1>1
  <2>. QED BY <1>1, <1>2, <1>3, <2>1, <2>2, PinStepKeepsPinInv
<1>13. BufferInv'
  <2>. SUFFICES ASSUME NEW r \in Pins, pin'[r].pc \in {"allocated", "mapped"}
                PROVE  LET f == pin'[r].endpoint
                           first == First(endpoint'[f].cells)
                           m == RoundUp(pin'[r].size, Cell) \div Cell
                       IN /\ endpoint'[f].cells = first..(first + m - 1)
                          /\ endpoint'[f].cells = {} => layout'.minimumFrameCount = 0
                          /\ \E c \in contexts'[f] : c.process = pin'[r].process
    BY DEF BufferInv, First
  <2>1. CASE r = p
    <3>1. \E c \in contexts[e] : c.process = pin[p].process
      BY <1>1 DEF IInv, BufferInv
    <3>2. \E c \in contexts'[e] : c.process = pin[p].process
      BY <1>6, <1>8, <3>1
    <3>. QED BY <1>1, <1>3, <2>1, <3>2 DEF IInv, BufferInv
  <2>2. CASE r # p
    <3>1. pin'[r] = pin[r] /\ pin[r].endpoint \in Endpoints \ {e}
      BY <1>1, <1>3, <2>2 DEF IInv, TypeOK, PinInv
    <3>2. contexts'[pin[r].endpoint] = contexts[pin[r].endpoint]
      BY <1>8, <3>1
    <3>. QED BY <1>1, <3>1, <3>2 DEF IInv, BufferInv
  <2>. QED BY <2>1, <2>2
<1>14. ViewInv'
  <2>1. ASSUME NEW v \in views'
        PROVE  \/ v.cells \subseteq abandoned'
               \/ /\ v.cells = endpoint'[v.endpoint].cells
                  /\ [process |-> v.process, bufferUVA |-> v.cells] \in contexts'[v.endpoint]
               \/ v.cells = Section' /\ layout'.minimumFrameCount = 0
    <3>1. CASE v = new
      <4>1. \E c \in contexts[e] : c.process = pin[p].process
        BY <1>1 DEF IInv, BufferInv
      <4>2. [process |-> v.process, bufferUVA |-> v.cells] \in contexts'[v.endpoint]
        BY <1>6, <1>8, <3>1, <4>1
      <4>. QED BY <1>1, <1>2, <1>9, <3>1, <4>2
    <3>2. CASE /\ v \in views
               /\ \/ v.cells \subseteq abandoned
                  \/ v.cells = Section /\ layout.minimumFrameCount = 0
      BY <1>1, <1>9, <3>2
    <3>3. CASE /\ v \in views /\ v.cells = endpoint[v.endpoint].cells
               /\ [process |-> v.process, bufferUVA |-> v.cells] \in contexts[v.endpoint]
      <4>1. v.endpoint \in Endpoints
        BY <3>3 DEF IInv, TypeOK
      <4>2. CASE v.endpoint = e /\ cells = endpoint[e].cells
        BY <1>1, <1>7, <1>8, <3>3, <4>2
      <4>3. CASE v.endpoint = e /\ cells # endpoint[e].cells
        <5>1. v.cells = {}
          BY <3>3, <4>3 DEF cells, Mapped
        <5>. QED BY <5>1
      <4>4. CASE v.endpoint # e
        BY <1>1, <1>8, <3>3, <4>1, <4>4
      <4>. QED BY <4>2, <4>3, <4>4
    <3>4. v = new \/ v \in views
      BY <1>1, <2>1
    <3>. QED BY <3>1, <3>2, <3>3, <3>4 DEF IInv, ViewInv
  <2>2. ASSUME NEW v \in views', NEW w \in views', v.endpoint # w.endpoint, Sized(v), Sized(w)
        PROVE  v.cells \cap w.cells = {}
    <3>1. Sized(new) => cells = endpoint[e].cells
      BY <1>2, CellsTyped DEF IInv, Sized
    <3>2. \A x \in views : x.endpoint # e /\ Sized(x) /\ Sized(new) => x.cells \cap new.cells = {}
      BY <3>1, ViewIsOthersNot
    <3>3. CASE v \in views /\ w \in views
      BY <2>2, <3>3 DEF IInv, ViewInv
    <3>4. CASE v = new \/ w = new
      <4>1. new.endpoint = e
        OBVIOUS
      <4>. HIDE DEF new
      <4>. QED BY <1>1, <2>2, <3>2, <3>4, <4>1
    <3>. QED BY <1>1, <2>2, <3>3, <3>4
  <2>. QED BY <1>9, <2>1, <2>2 DEF ViewInv, Sized
<1>15. RegistersInv'
  <2>1. \A f \in Endpoints : BufferCells(f)' = BufferCells(f)
    BY <1>1, <1>9 DEF BufferCells
  <2>2. \A f \in Endpoints : ActivePinIn(f, {"open", "allocated", "mapped"})' <=>
                                ActivePinIn(f, {"open", "allocated", "mapped"})
    BY <1>1, <1>3, <1>12
  <2>3. ASSUME NEW f \in Endpoints, f \in written, ActivePinIn(f, {"open", "allocated", "mapped"}),
               NEW v \in views', v.endpoint # f, Sized(v)
        PROVE  BufferCells(f) \cap v.cells = {}
    <3>1. CASE v \in views
      BY <2>3, <3>1 DEF IInv, RegistersInv
    <3>2. CASE v = new
      <4>1. v.cells = endpoint[e].cells /\ f # e
        BY <1>2, <2>3, <3>2, CellsTyped DEF IInv, Sized
      <4>2. endpoint[e].cells \cap abandoned = {} /\ endpoint[e].cells \cap endpoint[f].cells = {}
        BY <4>1 DEF IInv, CellsAccounted
      <4>3. BufferCells(f) \subseteq abandoned \/ BufferCells(f) \subseteq endpoint[f].cells
        BY <2>3 DEF IInv, RegistersInv
      <4>. QED BY <4>1, <4>2, <4>3
    <3>. QED BY <1>1, <2>3, <3>1, <3>2
  <2>. QED BY <1>1, <1>9, <2>1, <2>2, <2>3 DEF IInv, RegistersInv, Sized
<1>. QED BY <1>10, <1>11, <1>12, <1>13, <1>14, <1>15 DEF IInv

LEMMA RegistersChanged ==
    ASSUME TypeOK, NEW e \in Endpoints, NEW offset \in Nat, NEW size \in Nat,
           registers' = [registers EXCEPT ![e].bufferOffset = offset, ![e].bufferSize = size]
    PROVE  /\ registers'[e].bufferOffset = offset /\ registers'[e].bufferSize = size
           /\ registers'[e].active = registers[e].active
           /\ \A f \in Endpoints \ {e} : registers'[f] = registers[f]
           /\ registers' \in [Endpoints -> [active : BOOLEAN, bufferOffset : Nat, bufferSize : Nat]]
<1>. DEFINE Record == [active : BOOLEAN, bufferOffset : Nat, bufferSize : Nat]
            new == [registers[e] EXCEPT !.bufferOffset = offset, !.bufferSize = size]
<1>1. registers \in [Endpoints -> Record]
  BY RegistersTyped
<1>2. registers' = [registers EXCEPT ![e] = new]
  BY <1>1
<1>3. /\ new \in Record /\ new.bufferOffset = offset /\ new.bufferSize = size
      /\ new.active = registers[e].active
  BY <1>1
<1>. HIDE DEF new, Record
<1>4. registers' \in [Endpoints -> Record]
  BY <1>1, <1>2, <1>3
<1>5. registers'[e] = new
  BY <1>1, <1>2
<1>6. \A f \in Endpoints \ {e} : registers'[f] = registers[f]
  BY <1>1, <1>2
<1>. QED BY <1>3, <1>4, <1>5, <1>6 DEF Record

\* The registers that a call writes tell cells that it has allocated.
LEMMA WrittenCells ==
    ASSUME IInv, NEW p \in Pins, pin[p].pc = "mapped", NEW e \in Endpoints, e = pin[p].endpoint,
           NEW i \in Cells,
           (i + 1) * Cell > First(endpoint[e].cells) * Cell,
           i * Cell < First(endpoint[e].cells) * Cell + pin[p].size
    PROVE  i \in endpoint[e].cells
<1>. DEFINE first == First(endpoint[e].cells)
            n == RoundUp(pin[p].size, Cell) \div Cell
<1>1. endpoint[e].cells = first..(first + n - 1)
  BY DEF IInv, BufferInv
<1>2. i \in Nat /\ Cell \in Nat \ {0} /\ pin[p].size \in Nat
  BY CellsTyped, PinsTyped, WaveRTAssumption DEF IInv
<1>3. n \in Nat /\ pin[p].size <= n * Cell
  BY <1>2, Rounded
<1>4. endpoint[e].cells \in SUBSET Nat
  BY CellsTyped, EndpointTyped DEF IInv
<1>. HIDE DEF n
<1>5. first \in Nat
  BY <1>4, FirstTyped
<1>. HIDE DEF first
<1>6. (i + 1) * Cell > first * Cell /\ i * Cell < first * Cell + pin[p].size
  BY DEF first
<1>7. first < i + 1
  BY <1>2, <1>5, <1>6, ProductOrder
<1>8. i < first + n
  <2>1. first * Cell + n * Cell = (first + n) * Cell
    BY <1>2, <1>3, <1>5
  <2>2. first * Cell \in Nat /\ n * Cell \in Nat /\ i * Cell \in Nat
    BY <1>2, <1>3, <1>5, Product
  <2>3. i * Cell < (first + n) * Cell
    BY <1>2, <1>3, <1>6, <2>1, <2>2
  <2>. QED BY <1>2, <1>3, <1>5, <2>3, ProductOrder
<1>. QED BY <1>1, <1>2, <1>3, <1>5, <1>7, <1>8

\* They tell a part of the buffer, for the cells are of the map.
LEMMA WrittenFits ==
    ASSUME IInv, NEW p \in Pins, pin[p].pc = "mapped", NEW e \in Endpoints, e = pin[p].endpoint
    PROVE  First(endpoint[e].cells) * Cell + pin[p].size <= layout.bufferSize
<1>. DEFINE first == First(endpoint[e].cells)
            n == RoundUp(pin[p].size, Cell) \div Cell
            k == layout.bufferSize \div Cell
<1>1. endpoint[e].cells = first..(first + n - 1) /\ endpoint[e].cells \subseteq Cells
  BY EndpointTyped DEF IInv, BufferInv
<1>2. Cell \in Nat \ {0} /\ pin[p].size \in Nat /\ layout.bufferSize \in Nat
  BY CellsTyped, PinsTyped, WaveRTAssumption DEF IInv
<1>3. n \in Nat /\ pin[p].size <= n * Cell /\ n * Cell \in Nat
  BY <1>2, Rounded, Product
<1>4. k \in Nat /\ k * Cell <= layout.bufferSize /\ k * Cell \in Nat
  BY <1>2, Quotient, Product
<1>5. endpoint[e].cells \in SUBSET Nat
  BY CellsTyped, EndpointTyped DEF IInv
<1>6. first \in Nat
  BY <1>5, FirstTyped
<1>7. Cells = 0..(k - 1)
  BY DEF Cells
<1>8. endpoint[e].cells = {} => first = 0
  BY DEF First
<1>. HIDE DEF n, first, k
<1>9. CASE n = 0
  <2>1. endpoint[e].cells = {}
    BY <1>1, <1>6, <1>9
  <2>2. first * Cell = 0 /\ pin[p].size = 0
    BY <1>2, <1>3, <1>8, <1>9, <2>1
  <2>. QED BY <1>2, <2>2 DEF first
<1>10. CASE n # 0
  <2>1. first + n - 1 \in Cells
    BY <1>1, <1>3, <1>6, <1>10
  <2>2. first + n < k + 1
    BY <1>3, <1>4, <1>6, <1>7, <2>1
  <2>4. first + n = k \/ first + n < k
    BY <1>3, <1>4, <1>6, <2>2
  <2>5. (first + n) * Cell <= k * Cell
    <3>1. CASE first + n = k
      BY <1>4, <3>1
    <3>2. CASE first + n < k
      BY <1>2, <1>3, <1>4, <1>6, <3>2, Product, ProductOrder
    <3>. QED BY <2>4, <3>1, <3>2
  <2>6. (first + n) * Cell = first * Cell + n * Cell /\ first * Cell \in Nat
    BY <1>2, <1>3, <1>6, Product
  <2>. QED BY <1>2, <1>3, <1>4, <2>5, <2>6 DEF first
<1>. QED BY <1>9, <1>10

LEMMA WriteBufferKeeps ==
    ASSUME IInv, NEW p \in Pins, WriteBuffer(p)
    PROVE  IInv'
<1>. PICK e \in Endpoints : e = pin[p].endpoint
  BY DEF IInv, TypeOK
<1>1. /\ pin[p].pc = "mapped"
      /\ registers' = [registers EXCEPT ![e].bufferOffset = First(endpoint[e].cells) * Cell,
                                        ![e].bufferSize = pin[p].size]
      /\ written' = written \cup {e}
      /\ pin' = [pin EXCEPT ![p].pc = "open", ![p].process = NoProcess, ![p].size = 0]
      /\ UNCHANGED <<layout, building, bufferMap, endpoint, abandoned, contexts, views>>
  BY DEF WriteBuffer, layoutVars, mapVars, mappingVars
<1>2. /\ \A r \in Pins \ {p} : pin'[r] = pin[r]
      /\ pin'[p].pc = "open" /\ pin'[p].endpoint = e
      /\ pin' \in [Pins -> [pc : PinStates, endpoint : Endpoints,
                            process : Processes \cup {NoProcess}, channels : Nat, size : Nat]]
  BY <1>1, PinChanged DEF IInv, PinStates
<1>3. Cells' = Cells /\ Section' = Section
  BY <1>1 DEF Cells, Section
<1>4. First(endpoint[e].cells) \in Nat
  <2>1. endpoint[e].cells \in SUBSET Nat
    BY CellsTyped, EndpointTyped DEF IInv
  <2>. QED BY <2>1, FirstTyped
<1>5. /\ registers'[e].bufferOffset = First(endpoint[e].cells) * Cell
      /\ registers'[e].bufferSize = pin[p].size
      /\ registers'[e].active = registers[e].active
      /\ \A f \in Endpoints \ {e} : registers'[f] = registers[f]
      /\ registers' \in [Endpoints -> [active : BOOLEAN, bufferOffset : Nat, bufferSize : Nat]]
  <2>1. pin[p].size \in Nat
    BY PinsTyped DEF IInv
  <2>2. PICK offset \in Nat : offset = First(endpoint[e].cells) * Cell
    BY <1>4, WaveRTAssumption, Product
  <2>3. TypeOK /\ registers' = [registers EXCEPT ![e].bufferOffset = offset,
                                                 ![e].bufferSize = pin[p].size]
    BY <1>1, <2>2 DEF IInv
  <2>4. /\ registers'[e].bufferOffset = offset /\ registers'[e].bufferSize = pin[p].size
        /\ registers'[e].active = registers[e].active
        /\ \A f \in Endpoints \ {e} : registers'[f] = registers[f]
        /\ registers' \in [Endpoints -> [active : BOOLEAN, bufferOffset : Nat, bufferSize : Nat]]
    BY <2>1, <2>3, RegistersChanged
  <2>. QED BY <2>2, <2>4
<1>6. TypeOK'
  BY <1>1, <1>2, <1>3, <1>5 DEF IInv, TypeOK
<1>7. LayoutInv' /\ MaskInv' /\ CellsAccounted' /\ ViewInv'
  <2>1. LayoutInv'
    BY <1>1, <1>2 DEF IInv, LayoutInv
  <2>. QED BY <1>1, <1>3, <2>1 DEF IInv, MaskInv, MaskFits, CellsAccounted, ViewInv, Sized
<1>8. /\ PinInv'
      /\ \A f \in Endpoints \ {e} : \A S : ActivePinIn(f, S)' <=> ActivePinIn(f, S)
      /\ \A S : ActivePinIn(e, S) <=> pin[p].pc \in S
      /\ \A S : ActivePinIn(e, S)' <=> pin'[p].pc \in S
  <2>1. \A f \in Endpoints \ {e} : /\ endpoint'[f].cells = endpoint[f].cells
                                   /\ contexts'[f] = contexts[f]
                                   /\ registers'[f] = registers[f]
    BY <1>1, <1>5
  <2>2. \A f \in Endpoints : endpoint'[f].activePin = endpoint[f].activePin
    BY <1>1
  <2>. QED BY <1>1, <1>2, <2>1, <2>2, PinStepKeepsPinInv
<1>9. BufferInv'
  <2>1. \A f \in Endpoints \ {e} : /\ endpoint'[f].cells = endpoint[f].cells
                                   /\ contexts'[f] = contexts[f]
    BY <1>1
  <2>. QED BY <1>1, <1>2, <2>1, OtherBuffers
<1>10. RegistersInv'
  <2>1. \A f \in Endpoints \ {e} : BufferCells(f)' = BufferCells(f)
    BY <1>3, <1>5 DEF BufferCells
  <2>2. BufferCells(e)' \subseteq endpoint[e].cells
    <3>1. BufferCells(e)' =
             {i \in Cells : /\ (i + 1) * Cell > First(endpoint[e].cells) * Cell
                            /\ i * Cell < First(endpoint[e].cells) * Cell + pin[p].size}
      BY <1>3, <1>5 DEF BufferCells
    <3>. QED BY <1>1, <3>1, WrittenCells
  <2>3. \A v \in views : v.endpoint # e /\ Sized(v) => BufferCells(e)' \cap v.cells = {}
    BY <2>2, ViewIsOthersNot
  <2>4. \A f \in Endpoints \ {e} : f \in written' /\ ActivePinIn(f, {"open", "allocated", "mapped"})' =>
                                      f \in written /\ ActivePinIn(f, {"open", "allocated", "mapped"})
    BY <1>1, <1>8
  <2>5. \A f \in Endpoints :
           registers'[f].bufferOffset + registers'[f].bufferSize <= layout'.bufferSize
    <3>1. registers'[e].bufferOffset + registers'[e].bufferSize <= layout'.bufferSize
      BY <1>1, <1>5, WrittenFits
    <3>. QED BY <1>1, <1>5, <3>1 DEF IInv, RegistersInv
  <2>. QED BY <1>1, <1>3, <2>1, <2>2, <2>3, <2>4, <2>5 DEF IInv, RegistersInv, Sized
<1>. QED BY <1>6, <1>7, <1>8, <1>9, <1>10 DEF IInv

\* The contexts of the pin's processes go with their views: what is left of
\* the endpoint's views is of abandoned cells, or of the whole section.
LEMMA CloseDetachesContextsKeeps ==
    ASSUME IInv, NEW p \in Pins, CloseDetachesContexts(p)
    PROVE  IInv'
<1>. PICK e \in Endpoints : e = pin[p].endpoint
  BY DEF IInv, TypeOK
<1>. DEFINE gone == {[process |-> c.process, endpoint |-> e, cells |-> c.bufferUVA]
                        : c \in contexts[e]}
<1>1. /\ pin[p].pc = "deactivated"
      /\ views' = views \ gone
      /\ contexts' = [contexts EXCEPT ![e] = {}]
      /\ pin' = [pin EXCEPT ![p].pc = "detached"]
      /\ UNCHANGED <<layout, building, bufferMap, endpoint, abandoned, registers, written>>
  BY DEF CloseDetachesContexts, Detached, layoutVars, mapVars
<1>2. /\ \A r \in Pins \ {p} : pin'[r] = pin[r]
      /\ pin'[p].pc = "detached" /\ pin'[p].endpoint = e
      /\ pin' \in [Pins -> [pc : PinStates, endpoint : Endpoints,
                            process : Processes \cup {NoProcess}, channels : Nat, size : Nat]]
  <2>1. pin \in [Pins -> [pc : PinStates, endpoint : Endpoints,
                          process : Processes \cup {NoProcess}, channels : Nat, size : Nat]]
    BY PinsTyped DEF IInv
  <2>. QED BY <1>1, <2>1 DEF PinStates
<1>3. \A v \in views : v \in [process : Processes, endpoint : Endpoints, cells : SUBSET Section]
  BY DEF IInv, TypeOK
<1>4. \A v \in views' : v.endpoint = e =>
         \/ v.cells \subseteq abandoned
         \/ v.cells = Section /\ layout.minimumFrameCount = 0
  <2>. SUFFICES ASSUME NEW v \in views', v.endpoint = e, ~(v.cells \subseteq abandoned),
                       ~(v.cells = Section /\ layout.minimumFrameCount = 0)
                PROVE  FALSE
    OBVIOUS
  <2>1. v \in views /\ v \notin gone
    BY <1>1
  <2>2. [process |-> v.process, bufferUVA |-> v.cells] \in contexts[e]
    BY <2>1 DEF IInv, ViewInv
  <2>3. [process |-> v.process, endpoint |-> e, cells |-> v.cells] \in gone
    BY <2>2
  <2>4. v = [process |-> v.process, endpoint |-> e, cells |-> v.cells]
    BY <1>3, <2>1
  <2>. QED BY <2>1, <2>3, <2>4
<1>. HIDE DEF gone
<1>5. /\ contexts' \in [Endpoints -> SUBSET [process : Processes, bufferUVA : SUBSET Section]]
      /\ contexts'[e] = {}
      /\ \A f \in Endpoints \ {e} : contexts'[f] = contexts[f]
  BY <1>1 DEF IInv, TypeOK
<1>6. Cells' = Cells /\ Section' = Section
  BY <1>1 DEF Cells, Section
<1>7. TypeOK'
  BY <1>1, <1>2, <1>5, <1>6 DEF IInv, TypeOK
<1>8. LayoutInv' /\ MaskInv' /\ CellsAccounted'
  BY <1>1, <1>2 DEF IInv, LayoutInv, MaskInv, MaskFits, CellsAccounted
<1>9. registers[e].active => e \notin written
  <2>1. ~ActivePinIn(e, {"open", "allocated", "mapped"})
    BY <1>1, PinTyped
  <2>. QED BY <2>1 DEF IInv, PinInv
<1>10. /\ PinInv'
       /\ \A f \in Endpoints \ {e} : \A S : ActivePinIn(f, S)' <=> ActivePinIn(f, S)
       /\ \A S : ActivePinIn(e, S)' <=> pin'[p].pc \in S
  <2>1. \A f \in Endpoints \ {e} : /\ endpoint'[f].cells = endpoint[f].cells
                                   /\ contexts'[f] = contexts[f]
                                   /\ registers'[f] = registers[f]
    BY <1>1, <1>5
  <2>2. \A f \in Endpoints : endpoint'[f].activePin = endpoint[f].activePin
    BY <1>1
  <2>. QED BY <1>1, <1>2, <1>5, <1>9, <2>1, <2>2, PinStepKeepsPinInv
<1>11. BufferInv'
  <2>1. \A f \in Endpoints \ {e} : /\ endpoint'[f].cells = endpoint[f].cells
                                   /\ contexts'[f] = contexts[f]
    BY <1>1, <1>5
  <2>. QED BY <1>1, <1>2, <2>1, OtherBuffers
<1>12. ViewInv'
  <2>1. ASSUME NEW v \in views'
        PROVE  \/ v.cells \subseteq abandoned'
               \/ /\ v.cells = endpoint'[v.endpoint].cells
                  /\ [process |-> v.process, bufferUVA |-> v.cells] \in contexts'[v.endpoint]
               \/ v.cells = Section' /\ layout'.minimumFrameCount = 0
    <3>1. v \in views /\ v.endpoint \in Endpoints
      BY <1>1, <1>3
    <3>2. CASE v.endpoint = e
      BY <1>1, <1>4, <1>6, <3>2
    <3>3. CASE v.endpoint # e
      BY <1>1, <1>5, <1>6, <3>1, <3>3 DEF IInv, ViewInv
    <3>. QED BY <3>2, <3>3
  <2>. QED BY <1>1, <1>6, <2>1 DEF IInv, ViewInv, Sized
<1>13. RegistersInv'
  <2>1. \A f \in Endpoints : BufferCells(f)' = BufferCells(f)
    BY <1>1, <1>6 DEF BufferCells
  <2>2. \A f \in Endpoints : ActivePinIn(f, {"open", "allocated", "mapped"})' =>
                                ActivePinIn(f, {"open", "allocated", "mapped"})
    BY <1>2, <1>10
  <2>. QED BY <1>1, <1>6, <2>1, <2>2 DEF IInv, RegistersInv, Sized
<1>. QED BY <1>7, <1>8, <1>10, <1>11, <1>12, <1>13 DEF IInv

LEMMA CloseClearsCellsKeeps ==
    ASSUME IInv, NEW p \in Pins, CloseClearsCells(p)
    PROVE  IInv'
<1>. PICK e \in Endpoints : e = pin[p].endpoint
  BY DEF IInv, TypeOK
<1>1. /\ pin[p].pc = "detached"
      /\ bufferMap' = bufferMap \ endpoint[e].cells
      /\ endpoint' = [endpoint EXCEPT ![e].cells = {}, ![e].activeChannelCount = 0]
      /\ pin' = [pin EXCEPT ![p].pc = "cleared"]
      /\ UNCHANGED <<layout, building, abandoned, contexts, views, registers, written>>
  BY DEF CloseClearsCells, layoutVars, mappingVars
<1>2. /\ \A r \in Pins \ {p} : pin'[r] = pin[r]
      /\ pin'[p].pc = "cleared" /\ pin'[p].endpoint = e
      /\ pin' \in [Pins -> [pc : PinStates, endpoint : Endpoints,
                            process : Processes \cup {NoProcess}, channels : Nat, size : Nat]]
  <2>1. pin \in [Pins -> [pc : PinStates, endpoint : Endpoints,
                          process : Processes \cup {NoProcess}, channels : Nat, size : Nat]]
    BY PinsTyped DEF IInv
  <2>. QED BY <1>1, <2>1 DEF PinStates
<1>3. /\ \A f \in Endpoints : endpoint'[f].activePin = endpoint[f].activePin
      /\ \A f \in Endpoints : endpoint'[f].channelMask = endpoint[f].channelMask
      /\ \A f \in Endpoints \ {e} : endpoint'[f].cells = endpoint[f].cells
      /\ endpoint'[e].cells = {}
      /\ endpoint' \in [Endpoints -> [activePin : Pins \cup {NoPin}, activeChannelCount : Nat,
                                      cells : SUBSET Cells, channelMask : Masks \cup {{}}]]
  <2>1. endpoint \in [Endpoints -> [activePin : Pins \cup {NoPin}, activeChannelCount : Nat,
                                    cells : SUBSET Cells, channelMask : Masks \cup {{}}]]
    BY EndpointTyped DEF IInv
  <2>. QED BY <1>1, <2>1
<1>4. Cells' = Cells /\ Section' = Section
  BY <1>1 DEF Cells, Section
<1>5. TypeOK'
  BY <1>1, <1>2, <1>3, <1>4 DEF IInv, TypeOK
<1>6. LayoutInv' /\ MaskInv'
  BY <1>1, <1>2, <1>3 DEF IInv, LayoutInv, MaskInv, MaskFits
<1>7. contexts[e] = {} /\ (registers[e].active => e \notin written)
  <2>1. /\ ~ActivePinIn(e, {"open", "allocated", "mapped"})
        /\ ~ActivePinIn(e, {"open", "allocated", "mapped", "deactivated"})
    BY <1>1, PinTyped
  <2>. QED BY <2>1 DEF IInv, PinInv
<1>8. /\ PinInv'
      /\ \A f \in Endpoints \ {e} : \A S : ActivePinIn(f, S)' <=> ActivePinIn(f, S)
      /\ \A S : ActivePinIn(e, S)' <=> pin'[p].pc \in S
  <2>1. \A f \in Endpoints \ {e} : /\ endpoint'[f].cells = endpoint[f].cells
                                   /\ contexts'[f] = contexts[f]
                                   /\ registers'[f] = registers[f]
    BY <1>1, <1>3
  <2>. QED BY <1>1, <1>2, <1>3, <1>7, <2>1, PinStepKeepsPinInv
<1>9. BufferInv'
  <2>1. \A f \in Endpoints \ {e} : /\ endpoint'[f].cells = endpoint[f].cells
                                   /\ contexts'[f] = contexts[f]
    BY <1>1, <1>3
  <2>. QED BY <1>1, <1>2, <2>1, OtherBuffers
<1>10. CellsAccounted'
  <2>1. \A f \in Endpoints : endpoint'[f].cells \cap abandoned' = {}
    BY <1>1, <1>3 DEF IInv, CellsAccounted
  <2>2. \A f, g \in Endpoints : f # g => endpoint'[f].cells \cap endpoint'[g].cells = {}
    BY <1>3 DEF IInv, CellsAccounted
  <2>3. ASSUME NEW i
        PROVE  i \in bufferMap' <=> i \in abandoned' \/ \E f \in Endpoints : i \in endpoint'[f].cells
    <3>1. i \in bufferMap <=> i \in abandoned \/ \E f \in Endpoints : i \in endpoint[f].cells
      BY DEF IInv, CellsAccounted
    <3>2. /\ i \in endpoint[e].cells => i \notin abandoned
          /\ i \in endpoint[e].cells => \A f \in Endpoints \ {e} : i \notin endpoint[f].cells
      BY DEF IInv, CellsAccounted
    <3>. QED BY <1>1, <1>3, <3>1, <3>2
  <2>. QED BY <2>1, <2>2, <2>3 DEF CellsAccounted
<1>11. ViewInv'
  <2>1. ASSUME NEW v \in views
        PROVE  \/ v.cells \subseteq abandoned'
               \/ /\ v.cells = endpoint'[v.endpoint].cells
                  /\ [process |-> v.process, bufferUVA |-> v.cells] \in contexts'[v.endpoint]
               \/ v.cells = Section' /\ layout'.minimumFrameCount = 0
    <3>1. v.endpoint \in Endpoints
      BY DEF IInv, TypeOK
    <3>2. CASE v.endpoint = e
      BY <1>1, <1>4, <1>7, <3>2 DEF IInv, ViewInv
    <3>3. CASE v.endpoint # e
      BY <1>1, <1>3, <1>4, <3>1, <3>3 DEF IInv, ViewInv
    <3>. QED BY <3>2, <3>3
  <2>. QED BY <1>1, <1>4, <2>1 DEF IInv, ViewInv, Sized
<1>12. RegistersInv'
  <2>1. \A f \in Endpoints : BufferCells(f)' = BufferCells(f)
    BY <1>1, <1>4 DEF BufferCells
  <2>2. \A f \in Endpoints : ActivePinIn(f, {"open", "allocated", "mapped"})' =>
                                f # e /\ ActivePinIn(f, {"open", "allocated", "mapped"})
    BY <1>2, <1>8
  <2>. QED BY <1>1, <1>3, <1>4, <2>1, <2>2 DEF IInv, RegistersInv, Sized
<1>. QED BY <1>5, <1>6, <1>8, <1>9, <1>10, <1>11, <1>12 DEF IInv

-----------------------------------------------------------------------------
(* The invariant *)

LEMMA StutterKeeps ==
    ASSUME IInv, UNCHANGED vars
    PROVE  IInv'
<1>1. UNCHANGED <<layout, building, bufferMap, endpoint, contexts, views, registers, pin,
                  abandoned, written>>
  BY DEF vars
<1>2. Cells' = Cells /\ Section' = Section
  BY <1>1 DEF Cells, Section
<1>3. \A e \in Endpoints : BufferCells(e)' = BufferCells(e)
  BY <1>1, <1>2 DEF BufferCells
<1>4. TypeOK' /\ LayoutInv' /\ MaskInv'
  BY <1>1, <1>2 DEF IInv, TypeOK, LayoutInv, MaskInv, MaskFits
<1>5. PinInv' /\ BufferInv' /\ CellsAccounted' /\ ViewInv'
  <2>1. PinInv'
    BY <1>1 DEF IInv, PinInv, ActivePinIn
  <2>2. BufferInv' /\ CellsAccounted' /\ ViewInv'
    BY <1>1, <1>2 DEF IInv, BufferInv, CellsAccounted, ViewInv, Sized
  <2>. QED BY <2>1, <2>2
<1>6. RegistersInv'
  BY <1>1, <1>2, <1>3 DEF IInv, RegistersInv, ActivePinIn, Sized
<1>. QED BY <1>4, <1>5, <1>6 DEF IInv

LEMMA NextKeepsIInv == IInv /\ [Next]_vars => IInv'
<1>. SUFFICES ASSUME IInv, [Next]_vars PROVE IInv'
  OBVIOUS
<1>1. CASE UNCHANGED vars
  BY <1>1, StutterKeeps
<1>2. ASSUME NEW l \in Layouts, BuildLayout(l) \/ CommitLayout(l)
      PROVE  IInv'
  BY <1>2, BuildLayoutKeeps, CommitLayoutKeeps
<1>3. ASSUME NEW e \in Endpoints, NEW mask \in Masks, SetAudioChannelConfig(e, mask)
      PROVE  IInv'
  BY <1>3, SetAudioChannelConfigKeeps
<1>4. \A p \in Pins : /\ Clients[pin[p].endpoint] \subseteq Processes
                       /\ Requests[pin[p].endpoint] \subseteq Nat
  BY WaveRTAssumption DEF IInv, TypeOK
<1>5. ASSUME NEW p \in Pins, PinProperties(p)
      PROVE  IInv'
  <2>1. ASSUME NEW q \in Clients[pin[p].endpoint], NEW r \in Requests[pin[p].endpoint],
               AllocateCells(p, q, r) \/ RefuseBuffer(p, q, r)
        PROVE  IInv'
    BY <1>4, <2>1, AllocateCellsKeeps, RefuseBufferKeeps
  <2>2. ASSUME NEW q \in Clients[pin[p].endpoint], GetPositionRegister(p, q)
        PROVE  IInv'
    BY <1>4, <2>2, GetPositionRegisterKeeps
  <2>3. CASE MapBuffer(p)
    BY <2>3, MapBufferKeeps
  <2>4. CASE GetBufferFails(p)
    BY <2>4, GetBufferFailsKeeps
  <2>5. CASE WriteBuffer(p)
    BY <2>5, WriteBufferKeeps
  <2>. QED BY <1>5, <2>1, <2>2, <2>3, <2>4, <2>5 DEF PinProperties, SarKsPinGetBuffer
<1>6. ASSUME NEW p \in Pins, PinDispatch(p)
      PROVE  IInv'
  <2>1. ASSUME NEW e \in Endpoints, NEW q \in Clients[e], NEW n \in FormatChannels[e],
               PinCreate(p, e, q, n)
        PROVE  IInv'
    <3>1. q \in Processes
      BY WaveRTAssumption
    <3>. QED BY <2>1, <3>1, PinCreateKeeps
  <2>2. CASE OpenPin(p)
    BY <2>2, OpenPinKeeps
  <2>3. CASE OpenPinFails(p)
    BY <2>3, OpenPinFailsKeeps
  <2>4. ASSUME NEW q \in Clients[pin[p].endpoint], SetDeviceState(p, q) \/ SetDeviceStateFails(p, q)
        PROVE  IInv'
    BY <1>4, <2>4, SetDeviceStateKeeps, SetDeviceStateFailsKeeps
  <2>5. ASSUME NEW q \in Clients[pin[p].endpoint],
               CloseWritesGeneration(p, q) \/ CloseMissesGeneration(p, q)
        PROVE  IInv'
    BY <1>4, <2>5, CloseWritesGenerationKeeps
  <2>6. CASE CloseDetachesContexts(p)
    BY <2>6, CloseDetachesContextsKeeps
  <2>7. CASE CloseClearsCells(p)
    BY <2>7, CloseClearsCellsKeeps
  <2>8. CASE CloseLeaves(p)
    BY <2>8, CloseLeavesKeeps
  <2>. QED BY <1>6, <2>1, <2>2, <2>3, <2>4, <2>5, <2>6, <2>7, <2>8 DEF PinDispatch, SarKsPinClose
<1>. QED BY <1>1, <1>2, <1>3, <1>5, <1>6 DEF Next

\* What the shared buffer is in every state that is reached.
THEOREM BufferInvariant == Spec => []IInv
<1>. QED BY InitIInv, NextKeepsIInv, PTL DEF Spec

\* Every variable keeps its type, and every cell that is counted anywhere is
\* one of the section.
THEOREM Typed == Spec => []TypeOK
<1>1. IInv => TypeOK
  BY DEF IInv
<1>. QED BY <1>1, BufferInvariant, PTL

\* The map is what the endpoints have and what a second GetBuffer abandoned,
\* in however many endpoints and pins: SarKsPinClose frees those, and no other's.
THEOREM MapIsAccounted == Spec => []CellsAccounted
<1>1. IInv => CellsAccounted
  BY DEF IInv
<1>. QED BY <1>1, BufferInvariant, PTL

\* What SarKsPinClose frees nobody has mapped: a view of cells is of allocated
\* ones, and no other endpoint's shares them; the views of the whole section
\* are there only with a layout that has no minimum of frames.
THEOREM ViewsStayAllocated == Spec => []ViewsAreAllocated
<1>1. IInv => ViewsAreAllocated
  <2>. SUFFICES ASSUME IInv PROVE ViewsAreAllocated
    OBVIOUS
  <2>1. \A v \in views : v.endpoint \in Endpoints
    BY DEF IInv, TypeOK
  <2>2. abandoned \subseteq bufferMap /\ \A e \in Endpoints : endpoint[e].cells \subseteq bufferMap
    BY DEF IInv, CellsAccounted
  <2>3. ASSUME NEW v \in views
        PROVE  /\ Sized(v) => v.cells \subseteq bufferMap
               /\ ~Sized(v) => layout.minimumFrameCount = 0
    <3>1. CASE v.cells = Section /\ layout.minimumFrameCount = 0
      BY <3>1, CellsTyped DEF IInv, Sized
    <3>2. CASE v.cells \subseteq abandoned \/ v.cells = endpoint[v.endpoint].cells
      <4>1. v.cells \subseteq bufferMap
        BY <2>1, <2>2, <3>2
      <4>. QED BY <4>1 DEF IInv, TypeOK, Sized
    <3>. QED BY <3>1, <3>2 DEF IInv, ViewInv
  <2>. QED BY <2>3 DEF IInv, ViewInv, ViewsAreAllocated
<1>. QED BY <1>1, BufferInvariant, PTL

\* What the tick copies from and to, by registers that are active and tell the
\* buffer of a pin that is open or closing, is allocated and nobody else's;
\* and by any registers, of a failed close too, it is a part of the buffer.
THEOREM ActiveBufferStaysOwn == Spec => []ActiveBufferIsOwn
<1>1. IInv => ActiveBufferIsOwn
  <2>. SUFFICES ASSUME IInv, NEW e \in Endpoints, registers[e].active, e \in written
                PROVE  /\ BufferCells(e) \subseteq bufferMap
                       /\ \A f \in Endpoints \ {e} :
                             /\ BufferCells(e) \cap endpoint[f].cells = {}
                             /\ \A v \in views : v.endpoint = f /\ Sized(v) =>
                                   BufferCells(e) \cap v.cells = {}
    BY DEF ActiveBufferIsOwn, IInv, RegistersInv
  <2>1. ActivePinIn(e, {"open", "allocated", "mapped"})
    BY DEF IInv, PinInv
  <2>2. BufferCells(e) \subseteq abandoned \/ BufferCells(e) \subseteq endpoint[e].cells
    BY <2>1 DEF IInv, RegistersInv
  <2>3. \A v \in views : v.endpoint # e /\ Sized(v) => BufferCells(e) \cap v.cells = {}
    BY <2>1 DEF IInv, RegistersInv
  <2>4. abandoned \subseteq bufferMap /\ endpoint[e].cells \subseteq bufferMap
    BY DEF IInv, CellsAccounted
  <2>5. \A f \in Endpoints \ {e} : /\ endpoint[f].cells \cap abandoned = {}
                                   /\ endpoint[f].cells \cap endpoint[e].cells = {}
    BY DEF IInv, CellsAccounted
  <2>. QED BY <2>2, <2>3, <2>4, <2>5
<1>. QED BY <1>1, BufferInvariant, PTL

\* The first layout that a request commits is the context's for good, however
\* many requests were past the first look.
THEOREM LayoutStays == Spec => LayoutSetOnce
<1>1. IInv /\ [Next]_vars => [layout # NoLayout => layout' = layout]_layout
  <2>. SUFFICES ASSUME IInv, [Next]_vars, layout # NoLayout PROVE layout' = layout
    OBVIOUS
  <2>1. layout.bufferSize # 0
    <3>1. ValidLayout(layout)
      BY DEF IInv, LayoutInv
    <3>2. layout.bufferSize \in 1..MaxBufferSize
      BY <3>1 DEF ValidLayout
    <3>. QED BY <3>2
  <2>2. ASSUME NEW l \in Layouts, BuildLayout(l) \/ CommitLayout(l)
        PROVE  layout' = layout
    BY <2>1, <2>2 DEF BuildLayout, CommitLayout, LayoutFree
  <2>3. ASSUME NEW e \in Endpoints, NEW mask \in Masks, SetAudioChannelConfig(e, mask)
        PROVE  layout' = layout
    BY <2>3 DEF SetAudioChannelConfig, layoutVars
  <2>4. ASSUME NEW p \in Pins, PinProperties(p)
        PROVE  layout' = layout
    BY <2>4 DEF PinProperties, SarKsPinGetBuffer, AllocateCells, RefuseBuffer, MapBuffer,
                GetBufferFails, WriteBuffer, GetPositionRegister, layoutVars
  <2>5. ASSUME NEW p \in Pins, PinDispatch(p)
        PROVE  layout' = layout
    BY <2>5 DEF PinDispatch, PinCreate, OpenPin, OpenPinFails, SetDeviceState,
                SetDeviceStateFails, SarKsPinClose, CloseWritesGeneration, CloseMissesGeneration,
                CloseDetachesContexts, CloseClearsCells, CloseLeaves, layoutVars
  <2>6. CASE UNCHANGED vars
    BY <2>6 DEF vars
  <2>. QED BY <2>2, <2>3, <2>4, <2>5, <2>6 DEF Next
<1>. QED BY <1>1, BufferInvariant, PTL DEF Spec, LayoutSetOnce

\* The channels of the default format: a channel at least, and one for every
\* speaker of the mask, but no more than the endpoint has.
LEMMA MaskOrMaximumFits ==
    ASSUME IInv, NEW e \in Endpoints
    PROVE  /\ getnbits(endpoint[e].channelMask) \in Nat
           /\ MaskOrMaximum(e) \in Nat
           /\ 1 <= MaskOrMaximum(e) /\ MaskOrMaximum(e) <= ChannelCount[e]
           /\ getnbits(endpoint[e].channelMask) <= MaskOrMaximum(e)
<1>1. endpoint[e].channelMask \in Masks \cup {{}}
  BY EndpointTyped DEF IInv
<1>2. IsFiniteSet(endpoint[e].channelMask)
  BY <1>1, WaveRTAssumption, FS_EmptySet
<1>3. /\ Cardinality(endpoint[e].channelMask) \in Nat
      /\ Cardinality(endpoint[e].channelMask) = 0 <=> endpoint[e].channelMask = {}
  BY <1>2, FS_CardinalityType, FS_EmptySet
<1>4. Cardinality(endpoint[e].channelMask) <= ChannelCount[e]
  BY DEF IInv, MaskInv, MaskFits, getnbits
<1>5. ChannelCount[e] \in Nat /\ ChannelCount[e] >= 1
  BY WaveRTAssumption
<1>. QED BY <1>3, <1>4, <1>5 DEF MaskOrMaximum, DataRange, getnbits

\* Whatever speakers an audio client sets, and whenever, the formats that the
\* driver then offers are ones that it takes.
THEOREM OfferedFormatsStayAccepted == Spec => []OfferedFormatsAccepted
<1>1. IInv => OfferedFormatsAccepted
  <2>. SUFFICES ASSUME IInv, layout # NoLayout, NEW e \in Endpoints
                PROVE  /\ getnbits(GetAudioChannelConfig(e)) <= GetDefaultDataFormat(e).channels
                       /\ ProposeDataFormat(e, GetDefaultDataFormat(e))
                       /\ SetDataFormat(e, GetDefaultDataFormat(e))
                       /\ \A caller \in CallerRanges : Intersects(e, caller) =>
                             LET format == IntersectHandler(e, caller)
                             IN /\ ProposeDataFormat(e, format) /\ SetDataFormat(e, format)
                                /\ format.channels \in 1..caller.channels
    BY DEF OfferedFormatsAccepted
  <2>1. /\ getnbits(endpoint[e].channelMask) \in Nat
        /\ MaskOrMaximum(e) \in Nat
        /\ 1 <= MaskOrMaximum(e) /\ MaskOrMaximum(e) <= ChannelCount[e]
        /\ getnbits(endpoint[e].channelMask) <= MaskOrMaximum(e)
    BY MaskOrMaximumFits
  <2>2. ChannelCount[e] \in Nat /\ layout.sampleRate \in Nat /\ 8 * layout.sampleSize \in Nat
    BY WaveRTAssumption, CellsTyped DEF IInv
  <2>3. /\ DataRange(e).channels = ChannelCount[e]
        /\ DataRange(e).rate = layout.sampleRate
        /\ DataRange(e).bits = 8 * layout.sampleSize
    BY DEF DataRange
  <2>4. /\ GetDefaultDataFormat(e).channels = MaskOrMaximum(e)
        /\ GetDefaultDataFormat(e).rate = layout.sampleRate
        /\ GetDefaultDataFormat(e).bits = 8 * layout.sampleSize
    BY <2>3 DEF GetDefaultDataFormat, DataRange
  <2>5. ASSUME NEW caller \in CallerRanges, Intersects(e, caller)
        PROVE  LET format == IntersectHandler(e, caller)
               IN /\ ProposeDataFormat(e, format) /\ SetDataFormat(e, format)
                  /\ format.channels \in 1..caller.channels
    <3>1. /\ caller.channels \in Nat /\ caller.minRate \in Nat /\ caller.maxRate \in Nat
          /\ caller.minBits \in Nat /\ caller.maxBits \in Nat
      BY WaveRTAssumption
    <3>2. /\ 8 * layout.sampleSize <= caller.maxBits /\ layout.sampleRate <= caller.maxRate
          /\ caller.channels >= 1
      BY <2>2, <2>3, <2>5, <3>1 DEF Intersects
    <3>3. /\ IntersectHandler(e, caller).rate = layout.sampleRate
          /\ IntersectHandler(e, caller).bits = 8 * layout.sampleSize
      BY <2>2, <2>3, <3>1, <3>2 DEF IntersectHandler, Smaller
    <3>4. /\ IntersectHandler(e, caller).channels \in 1..caller.channels
          /\ IntersectHandler(e, caller).channels <= ChannelCount[e]
      <4>1. CASE MaskOrMaximum(e) > caller.channels
        <5>1. IntersectHandler(e, caller).channels = caller.channels
          BY <2>1, <2>2, <2>3, <3>1, <4>1 DEF IntersectHandler
        <5>. QED BY <2>1, <2>2, <3>1, <3>2, <4>1, <5>1
      <4>2. CASE MaskOrMaximum(e) <= caller.channels
        <5>1. IntersectHandler(e, caller).channels = MaskOrMaximum(e)
          BY <2>1, <2>2, <2>3, <3>1, <4>2 DEF IntersectHandler
        <5>. QED BY <2>1, <2>2, <3>1, <4>2, <5>1
      <4>. QED BY <2>1, <3>1, <4>1, <4>2
    <3>. QED BY <2>3, <3>3, <3>4 DEF ProposeDataFormat, SetDataFormat
  <2>. QED BY <2>1, <2>3, <2>4, <2>5
           DEF GetAudioChannelConfig, ProposeDataFormat, SetDataFormat
<1>. QED BY <1>1, BufferInvariant, PTL
=============================================================================
