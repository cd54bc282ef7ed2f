------------------------- MODULE Configuration_proofs -------------------------
(* Safety of Configuration, with a JSON library that keeps what it promises. *)
EXTENDS Configuration, FiniteSetTheorems, SequenceTheorems, WellFoundedInduction, TLAPS

-----------------------------------------------------------------------------
(* Least numbers                                                           *)

LEMMA LeastElement ==
    ASSUME NEW S \in SUBSET Nat, S # {}
    PROVE  \E x \in S : \A y \in S : x <= y
<1>. DEFINE R == {p \in Nat \X Nat : p[1] < p[2]}
<1>1. IsWellFoundedOn(R, Nat)
  BY NatLessThanWellFounded DEF OpToRel
<1>2. \E x \in S : \A y \in S : ~(<<y, x>> \in R)
  BY <1>1, WFMin
<1>3. ASSUME NEW x \in Nat, NEW y \in Nat, ~(<<y, x>> \in R)
      PROVE  x <= y
  <2>1. ~(y < x)
    BY <1>3
  <2>. QED BY <2>1
<1>. HIDE DEF R
<1>. QED BY <1>2, <1>3

LEMMA MinIsLeast ==
    ASSUME NEW S \in SUBSET Nat, S # {}
    PROVE  Min(S) \in S /\ \A y \in S : Min(S) <= y
BY LeastElement DEF Min

LEMMA MinOfOne ==
    ASSUME NEW S, NEW x \in Nat, S = {x}
    PROVE  Min(S) = x
<1>1. S \in SUBSET Nat /\ S # {}
  OBVIOUS
<1>. QED BY <1>1, MinIsLeast

-----------------------------------------------------------------------------
(* A free id                                                               *)

LEMMA EndpointTypes ==
    ASSUME NEW s \in Seq(Endpoints), NEW e \in DOMAIN s
    PROVE  /\ s[e] \in Endpoints /\ s[e].id \in Ids
           /\ s[e].type \in {"Playback", "Recording"}
           /\ e \in 1..Len(s)
<1>1. s[e] \in Endpoints
  OBVIOUS
<1>. QED BY <1>1 DEF Endpoints

\* Of one name more than there are endpoints one is free.
LEMMA NextIdIsFree ==
    ASSUME NEW s \in Seq(Endpoints), Len(s) < MaxEndpoints
    PROVE  NextId(s) \in Ids /\ FindEndpoint(s, NextId(s)) = {}
<1>. DEFINE names == 1..Len(s) + 1
            Free == {n \in names : FindEndpoint(s, EndpointName(n)) = {}}
            f == [n \in names |-> CHOOSE e \in 1..Len(s) : s[e].id = EndpointName(n)]
<1>1. Len(s) \in Nat /\ DOMAIN s = 1..Len(s) /\ \A n \in names : n \in 1..MaxEndpoints
  BY ConfigurationAssumption
<1>2. Free # {}
  <2>1. SUFFICES ASSUME \A n \in names : FindEndpoint(s, EndpointName(n)) # {} PROVE FALSE
    OBVIOUS
  <2>2. \A n \in names : \E e \in 1..Len(s) : s[e].id = EndpointName(n)
    BY <1>1, <2>1 DEF FindEndpoint
  <2>3. \A n \in names : f[n] \in 1..Len(s) /\ s[f[n]].id = EndpointName(n)
    BY <2>2
  <2>4. f \in [names -> 1..Len(s)]
    BY <2>3
  <2>5. /\ IsFiniteSet(names) /\ Cardinality(names) = Len(s) + 1
        /\ IsFiniteSet(1..Len(s)) /\ Cardinality(1..Len(s)) = Len(s)
    BY <1>1, FS_Interval
  <2>. HIDE DEF f, names
  <2>6. PICK m \in names, n \in names : m # n /\ f[m] = f[n]
    BY <1>1, <2>4, <2>5, FS_PigeonHole
  <2>7. EndpointName(m) = EndpointName(n)
    BY <2>3, <2>6
  <2>. QED BY <1>1, <2>6, <2>7, NamesDiffer
<1>3. Free \in SUBSET Nat
  BY <1>1
<1>4. NextId(s) = EndpointName(Min(Free))
  BY DEF NextId
<1>5. \A n \in Free : n \in names /\ FindEndpoint(s, EndpointName(n)) = {}
  OBVIOUS
<1>. HIDE DEF Free
<1>6. Min(Free) \in Free
  BY <1>2, <1>3, MinIsLeast
<1>. QED BY <1>1, <1>4, <1>5, <1>6 DEF Ids

-----------------------------------------------------------------------------
(* The arithmetic of the dropdowns                                         *)

\* How many endpoints of a type there are up to the n-th.
LEMMA CountOfType ==
    ASSUME NEW s, NEW type, NEW n \in Nat
    PROVE  /\ IsFiniteSet(OfType(s, type, n)) /\ Cardinality(OfType(s, type, n)) \in Nat
           /\ Cardinality(OfType(s, type, n)) <= n
<1>1. OfType(s, type, n) \in SUBSET (1..n)
  BY DEF OfType
<1>2. IsFiniteSet(1..n) /\ Cardinality(1..n) = n
  BY FS_Interval
<1>. QED BY <1>1, <1>2, FS_Subset, FS_CardinalityType

LEMMA CountOfNone ==
    ASSUME NEW s, NEW type
    PROVE  Cardinality(OfType(s, type, 0)) = 0
<1>1. OfType(s, type, 0) = {}
  BY DEF OfType
<1>. QED BY <1>1, FS_EmptySet

LEMMA CountOfNext ==
    ASSUME NEW s, NEW type, NEW n \in Nat \ {0}
    PROVE  Cardinality(OfType(s, type, n)) =
               Cardinality(OfType(s, type, n - 1)) + (IF s[n].type = type THEN 1 ELSE 0)
<1>1. IsFiniteSet(OfType(s, type, n - 1)) /\ Cardinality(OfType(s, type, n - 1)) \in Nat
  BY CountOfType
<1>2. n \notin OfType(s, type, n - 1)
  BY DEF OfType
<1>3. CASE s[n].type = type
  <2>1. OfType(s, type, n) = OfType(s, type, n - 1) \cup {n}
    BY <1>3 DEF OfType
  <2>. QED BY <1>1, <1>2, <1>3, <2>1, FS_AddElement
<1>4. CASE s[n].type # type
  <2>1. OfType(s, type, n) = OfType(s, type, n - 1)
    BY <1>4 DEF OfType
  <2>. QED BY <1>1, <1>4, <2>1
<1>. QED BY <1>3, <1>4

LEMMA CountGrows ==
    ASSUME NEW s, NEW type, NEW m \in Nat, NEW n \in Nat, m <= n
    PROVE  Cardinality(OfType(s, type, m)) <= Cardinality(OfType(s, type, n))
<1>1. OfType(s, type, m) \in SUBSET OfType(s, type, n)
  BY DEF OfType
<1>. QED BY <1>1, CountOfType, FS_Subset

\* The endpoints of a type are numbered without a repetition.
LEMMA CountTellsApart ==
    ASSUME NEW s, NEW type, NEW d \in Nat \ {0}, NEW e \in Nat \ {0},
           s[d].type = type, s[e].type = type,
           Cardinality(OfType(s, type, d - 1)) = Cardinality(OfType(s, type, e - 1))
    PROVE  d = e
<1>1. ASSUME NEW m \in Nat \ {0}, NEW n \in Nat \ {0}, m < n, s[m].type = type
      PROVE  Cardinality(OfType(s, type, m - 1)) < Cardinality(OfType(s, type, n - 1))
  <2>1. m \in Nat /\ n - 1 \in Nat /\ m - 1 \in Nat /\ m <= n - 1
    BY <1>1
  <2>2. Cardinality(OfType(s, type, m)) <= Cardinality(OfType(s, type, n - 1))
    BY <2>1, CountGrows
  <2>3. Cardinality(OfType(s, type, m)) = Cardinality(OfType(s, type, m - 1)) + 1
    BY <1>1, CountOfNext
  <2>. QED BY <2>1, <2>2, <2>3, CountOfType
<1>2. Cardinality(OfType(s, type, d - 1)) \in Nat
  BY CountOfType
<1>. QED BY <1>1, <1>2

\* The rows of a list are its endpoints of the type, in their order: the
\* recursive function exists, since each part of it extends to the next place,
\* and keeps to that from each place to the next.
RowsAt(s, type, row, n) ==
    /\ row \in Seq(Endpoints) /\ Len(row) = Cardinality(OfType(s, type, n))
    /\ \A k \in 1..Len(row) : \E e \in 1..n :
          s[e].type = type /\ k = Cardinality(OfType(s, type, e)) /\ row[k] = s[e]

LEMMA RowsAtNext ==
    ASSUME NEW s \in Seq(Endpoints), NEW type, NEW n \in 1..Len(s), NEW row,
           RowsAt(s, type, row, n - 1)
    PROVE  RowsAt(s, type, IF s[n].type = type THEN Append(row, s[n]) ELSE row, n)
<1>1. n \in Nat \ {0} /\ n - 1 \in Nat /\ s[n] \in Endpoints
  OBVIOUS
<1>2. /\ row \in Seq(Endpoints) /\ Len(row) = Cardinality(OfType(s, type, n - 1))
      /\ \A k \in 1..Len(row) : \E e \in 1..n - 1 :
            s[e].type = type /\ k = Cardinality(OfType(s, type, e)) /\ row[k] = s[e]
  BY DEF RowsAt
<1>3. \A e \in 1..n - 1 : e \in 1..n
  BY <1>1
<1>4. Cardinality(OfType(s, type, n)) =
          Cardinality(OfType(s, type, n - 1)) + (IF s[n].type = type THEN 1 ELSE 0)
  BY <1>1, CountOfNext
<1>5. CASE s[n].type = type
  <2>. DEFINE next == Append(row, s[n])
  <2>1. next \in Seq(Endpoints) /\ Len(next) = Len(row) + 1
    BY <1>1, <1>2
  <2>2. Len(next) = Cardinality(OfType(s, type, n))
    BY <1>2, <1>4, <1>5, <2>1
  <2>3. ASSUME NEW k \in 1..Len(next)
        PROVE  \E e \in 1..n :
                 s[e].type = type /\ k = Cardinality(OfType(s, type, e)) /\ next[k] = s[e]
    <3>1. CASE k = Len(next)
      <4>1. next[k] = s[n] /\ n \in 1..n
        BY <1>1, <1>2, <2>1, <3>1
      <4>. QED BY <1>5, <2>2, <3>1, <4>1
    <3>2. CASE k # Len(next)
      <4>1. k \in 1..Len(row) /\ next[k] = row[k]
        BY <1>1, <1>2, <2>1, <3>2
      <4>. QED BY <1>2, <1>3, <4>1
    <3>. QED BY <3>1, <3>2
  <2>. HIDE DEF next
  <2>4. RowsAt(s, type, next, n)
    BY <2>1, <2>2, <2>3 DEF RowsAt
  <2>. QED BY <1>5, <2>4 DEF next
<1>6. CASE s[n].type # type
  <2>1. RowsAt(s, type, row, n)
    BY <1>2, <1>3, <1>4, <1>6, CountOfType DEF RowsAt
  <2>. QED BY <1>6, <2>1
<1>. QED BY <1>5, <1>6

LEMMA RowsOfType ==
    ASSUME NEW s \in Seq(Endpoints), NEW type
    PROVE  RowsAt(s, type, Rows(s, type), Len(s))
<1>. DEFINE Next1(f, n) == IF s[n].type = type THEN Append(f[n - 1], s[n]) ELSE f[n - 1]
            Body(f, n) ==
                CASE n = 0 -> <<>>
                  [] n > 0 /\ s[n].type = type -> Append(f[n - 1], s[n])
                  [] OTHER -> f[n - 1]
            Part(m, f) == f = [n \in 0..m |-> Body(f, n)]
<1>1. Len(s) \in Nat
  OBVIOUS
<1>2. ASSUME NEW f, NEW n \in Nat
      PROVE  Body(f, n) = IF n = 0 THEN <<>> ELSE Next1(f, n)
  <2>1. CASE n = 0
    BY <2>1
  <2>2. CASE n # 0 /\ s[n].type = type
    BY <2>2
  <2>3. CASE n # 0 /\ s[n].type # type
    BY <2>3
  <2>. QED BY <2>1, <2>2, <2>3
<1>3. Rows(s, type) = (CHOOSE f : Part(Len(s), f))[Len(s)]
  BY DEF Rows
<1>4. \E f : Part(0, f)
  <2>. DEFINE f == [n \in 0..0 |-> <<>>]
  <2>1. Part(0, f)
    <3>1. \A n \in 0..0 : n = 0
      OBVIOUS
    <3>. QED BY <3>1
  <2>. HIDE DEF f, Part
  <2>. QED BY <2>1
<1>5. ASSUME NEW m \in Nat \ {0}, NEW f, Part(m - 1, f)
      PROVE  \E g : Part(m, g)
  <2>. DEFINE g == [n \in 0..m |-> IF n < m THEN f[n] ELSE Next1(f, m)]
  <2>1. m \in Nat /\ m > 0 /\ m - 1 \in 0..m - 1
    OBVIOUS
  <2>2. ASSUME NEW n \in 0..m PROVE g[n] = Body(g, n)
    <3>1. CASE n = m
      <4>1. g[m - 1] = f[m - 1] /\ g[m] = Next1(f, m)
        BY <2>1
      <4>2. Next1(g, m) = Next1(f, m)
        BY <4>1
      <4>. HIDE DEF g, Body, Next1
      <4>. QED BY <1>2, <2>1, <3>1, <4>1, <4>2
    <3>2. CASE n # m
      <4>1. n \in 0..m - 1 /\ n < m /\ n \in Nat
        BY <2>1, <3>2
      <4>2. f[n] = Body(f, n)
        BY <1>5, <4>1
      <4>3. g[n] = f[n]
        BY <4>1
      <4>4. n # 0 => g[n - 1] = f[n - 1]
        BY <2>1, <4>1
      <4>5. n # 0 => Next1(g, n) = Next1(f, n)
        BY <4>4
      <4>. HIDE DEF g, Body, Next1
      <4>. QED BY <1>2, <4>1, <4>2, <4>3, <4>5
    <3>. QED BY <3>1, <3>2
  <2>3. g = [n \in 0..m |-> g[n]]
    OBVIOUS
  <2>. HIDE DEF g, Body
  <2>4. Part(m, g)
    BY <2>2, <2>3
  <2>. HIDE DEF Part
  <2>. QED BY <2>4
<1>. HIDE DEF Part
<1>6. \E f : Part(Len(s), f)
  <2>. DEFINE Without == {m \in Nat : ~\E f : Part(m, f)}
  <2>1. SUFFICES ASSUME Without # {} PROVE FALSE
    BY <1>1
  <2>2. Without \in SUBSET Nat
    OBVIOUS
  <2>3. \A m \in Nat : m \in Without <=> ~\E f : Part(m, f)
    OBVIOUS
  <2>. HIDE DEF Without
  <2>4. PICK m \in Without : \A k \in Without : m <= k
    BY <2>1, <2>2, LeastElement
  <2>5. m \in Nat \ {0} /\ m - 1 \in Nat /\ m - 1 \notin Without
    BY <1>4, <2>2, <2>3, <2>4
  <2>6. PICK f : Part(m - 1, f)
    BY <2>3, <2>5
  <2>. QED BY <1>5, <2>3, <2>4, <2>5, <2>6
<1>7. PICK f : f = CHOOSE h : Part(Len(s), h)
  OBVIOUS
<1>8. Part(Len(s), f)
  BY <1>6, <1>7
<1>9. \A n \in 0..Len(s) : f[n] = IF n = 0 THEN <<>> ELSE Next1(f, n)
  <2>1. \A n \in 0..Len(s) : f[n] = Body(f, n)
    BY <1>8 DEF Part
  <2>. HIDE DEF Body, Next1
  <2>. QED BY <1>1, <1>2, <2>1
<1>10. \A n \in 0..Len(s) : RowsAt(s, type, f[n], n)
  <2>. DEFINE Wrong == {n \in 0..Len(s) : ~RowsAt(s, type, f[n], n)}
  <2>1. SUFFICES ASSUME Wrong # {} PROVE FALSE
    OBVIOUS
  <2>2. Wrong \in SUBSET Nat
    BY <1>1
  <2>3. \A n \in 0..Len(s) : n \in Wrong <=> ~RowsAt(s, type, f[n], n)
    OBVIOUS
  <2>4. \A n \in Wrong : n \in 0..Len(s)
    OBVIOUS
  <2>. HIDE DEF Wrong
  <2>5. PICK n \in Wrong : \A k \in Wrong : n <= k
    BY <2>1, <2>2, LeastElement
  <2>6. n \in 0..Len(s) /\ ~RowsAt(s, type, f[n], n)
    BY <2>3, <2>4, <2>5
  <2>7. CASE n = 0
    <3>1. f[n] = <<>>
      BY <1>9, <2>6, <2>7
    <3>. QED BY <2>6, <2>7, <3>1, CountOfNone DEF RowsAt
  <2>8. CASE n # 0
    <3>1. n \in 1..Len(s) /\ n - 1 \in 0..Len(s) /\ n - 1 \notin Wrong
      BY <1>1, <2>5, <2>6, <2>8
    <3>2. RowsAt(s, type, f[n - 1], n - 1)
      BY <2>3, <3>1
    <3>3. f[n] = IF s[n].type = type THEN Append(f[n - 1], s[n]) ELSE f[n - 1]
      BY <1>9, <2>6, <2>8
    <3>. QED BY <2>6, <3>1, <3>2, <3>3, RowsAtNext
  <2>. QED BY <2>7, <2>8
<1>. QED BY <1>1, <1>3, <1>7, <1>10

LEMMA AtItsIndex ==
    ASSUME NEW s \in Seq(Endpoints), NEW flow, NEW e \in DOMAIN s, s[e].type = TypeOf(flow)
    PROVE  EndpointAtIndex(s, flow, Cardinality(OfType(s, TypeOf(flow), e)) - 1) = s[e].id
<1>. DEFINE type == TypeOf(flow)
            index == Cardinality(OfType(s, type, e)) - 1
            here == {d \in DOMAIN s :
                        /\ s[d].type = type
                        /\ index = Cardinality(OfType(s, type, d - 1))}
<1>1. e \in Nat \ {0} /\ \A d \in DOMAIN s : d \in Nat \ {0}
  OBVIOUS
<1>2. index = Cardinality(OfType(s, type, e - 1))
  <2>1. Cardinality(OfType(s, type, e)) = Cardinality(OfType(s, type, e - 1)) + 1
    BY <1>1, CountOfNext
  <2>2. Cardinality(OfType(s, type, e - 1)) \in Nat
    BY <1>1, CountOfType
  <2>. QED BY <2>1, <2>2
<1>3. here = {e}
  <2>1. e \in here
    BY <1>2
  <2>2. ASSUME NEW d \in here PROVE d = e
    <3>1. /\ d \in Nat \ {0} /\ s[d].type = type
          /\ Cardinality(OfType(s, type, d - 1)) = Cardinality(OfType(s, type, e - 1))
      BY <1>1, <1>2
    <3>. HIDE DEF type
    <3>2. s[e].type = type
      BY DEF type
    <3>. QED BY <1>1, <3>1, <3>2, CountTellsApart
  <2>. HIDE DEF here
  <2>. QED BY <2>1, <2>2
<1>4. EndpointAtIndex(s, flow, index) = IF here = {} THEN "" ELSE s[Min(here)].id
  BY DEF EndpointAtIndex
<1>. HIDE DEF here
<1>5. here # {} /\ Min(here) = e
  BY <1>1, <1>3, MinOfOne
<1>. QED BY <1>4, <1>5

\* A row of a dropdown is an endpoint of its type, and the one stored for it.
LEMMA RowIsStored ==
    ASSUME NEW s \in Seq(Endpoints), NEW flow, NEW index \in 1..Len(Shown(s, flow))
    PROVE  \E e \in DOMAIN s :
              /\ s[e].type = TypeOf(flow) /\ Shown(s, flow)[index] = s[e]
              /\ EndpointAtIndex(s, flow, index - 1) = s[e].id
<1>1. RowsAt(s, TypeOf(flow), Shown(s, flow), Len(s))
  BY RowsOfType DEF Shown
<1>2. PICK e \in 1..Len(s) :
          /\ s[e].type = TypeOf(flow) /\ index = Cardinality(OfType(s, TypeOf(flow), e))
          /\ Shown(s, flow)[index] = s[e]
  BY <1>1 DEF RowsAt
<1>3. e \in DOMAIN s
  OBVIOUS
<1>. QED BY <1>2, <1>3, AtItsIndex

LEMMA ShownLength ==
    ASSUME NEW s \in Seq(Endpoints), NEW flow
    PROVE  /\ Len(Shown(s, flow)) \in Nat /\ Len(Shown(s, flow)) <= Len(s)
           /\ Len(Shown(s, flow)) = Cardinality(OfType(s, TypeOf(flow), Len(s)))
<1>1. RowsAt(s, TypeOf(flow), Shown(s, flow), Len(s))
  BY RowsOfType DEF Shown
<1>2. Len(s) \in Nat
  OBVIOUS
<1>. QED BY <1>1, <1>2, CountOfType DEF RowsAt

\* The first half of what the dialog promises: what is stored is what is shown.
LEMMA WhatIsShownIsStored ==
    ASSUME NEW s \in Seq(Endpoints), NEW slot \in Slots
    PROVE  StoresWhatIsShown(s, slot)
<1>1. SUFFICES ASSUME NEW index \in DropdownIndices(s, slot) \ {0}
               PROVE  EndpointAtIndex(s, slot[1], index - 1) = Shown(s, slot[1])[index].id
  BY DEF StoresWhatIsShown
<1>2. index \in 1..Len(Shown(s, slot[1]))
  BY ShownLength DEF DropdownIndices
<1>. QED BY <1>2, RowIsStored

\* The place of an endpoint that is there is among those of its type.
LEMMA PlaceOfEndpoint ==
    ASSUME NEW s \in Seq(Endpoints), IdsUnique(s), NEW flow, NEW e \in DOMAIN s,
           s[e].type = TypeOf(flow)
    PROVE  /\ IndexOfEndpoint(s, s[e].id) \in 1..Len(Shown(s, flow))
           /\ EndpointAtIndex(s, flow, IndexOfEndpoint(s, s[e].id) - 1) = s[e].id
<1>. DEFINE type == TypeOf(flow)
<1>1. e \in Nat \ {0} /\ Len(s) \in Nat /\ e <= Len(s) /\ e \in 1..e
  OBVIOUS
<1>2. FindEndpoint(s, s[e].id) = {e}
  BY DEF FindEndpoint, IdsUnique
<1>3. IndexOfEndpoint(s, s[e].id) = Cardinality(OfType(s, type, e))
  <2>1. FindEndpoint(s, s[e].id) # {} /\ Min(FindEndpoint(s, s[e].id)) = e
    BY <1>1, <1>2, MinOfOne
  <2>. QED BY <2>1 DEF IndexOfEndpoint
<1>4. Cardinality(OfType(s, type, e)) \in 1..Len(Shown(s, flow))
  <2>1. Cardinality(OfType(s, type, e)) <= Cardinality(OfType(s, type, Len(s)))
    BY <1>1, CountGrows
  <2>2. Cardinality(OfType(s, type, e)) = Cardinality(OfType(s, type, e - 1)) + 1
    BY <1>1, CountOfNext
  <2>3. Cardinality(OfType(s, type, e - 1)) \in Nat
    BY <1>1, CountOfType
  <2>4. Len(Shown(s, flow)) = Cardinality(OfType(s, type, Len(s))) /\ Len(Shown(s, flow)) \in Nat
    BY ShownLength
  <2>. QED BY <2>1, <2>2, <2>3, <2>4
<1>. QED BY <1>3, <1>4, AtItsIndex

-----------------------------------------------------------------------------
(* What an application's dialog makes of its dropdowns                     *)

SlotDefault(s, slot, index) ==
    [type |-> slot[1], role |-> slot[2], id |-> EndpointAtIndex(s, slot[1], index - 1)]
IsStored(s, index) == index > 0 /\ index - 1 < Len(s)

LEMMA DefaultsFromDropdowns ==
    ASSUME NEW s, NEW path, NEW regex, NEW index
    PROVE  FromDropdowns(s, path, regex, index).defaults =
               {SlotDefault(s, slot, index[slot]) : slot \in {t \in Slots : IsStored(s, index[t])}}
BY DEF FromDropdowns, SlotDefault, IsStored

LEMMA SlotParts ==
    ASSUME NEW slot \in Slots
    PROVE  slot[1] \in Flows /\ slot[2] \in Roles /\ slot = <<slot[1], slot[2]>>
BY ConfigurationAssumption

LEMMA DefaultsOfASlot ==
    ASSUME NEW s, NEW path, NEW regex, NEW index, NEW slot \in Slots
    PROVE  IdsOf(FromDropdowns(s, path, regex, index), slot) =
               IF IsStored(s, index[slot]) THEN {EndpointAtIndex(s, slot[1], index[slot] - 1)}
                                           ELSE {}
<1>. DEFINE a == FromDropdowns(s, path, regex, index)
            set == {t \in Slots : IsStored(s, index[t])}
<1>1. a.defaults = {SlotDefault(s, t, index[t]) : t \in set}
  BY DefaultsFromDropdowns
<1>. HIDE DEF a
<1>2. ASSUME NEW t \in Slots
      PROVE  <<SlotDefault(s, t, index[t]).type, SlotDefault(s, t, index[t]).role>> = t
  BY SlotParts DEF SlotDefault
<1>3. DefaultsOf(a, slot) = {SlotDefault(s, t, index[t]) : t \in {u \in set : u = slot}}
  BY <1>1, <1>2 DEF DefaultsOf
<1>4. CASE IsStored(s, index[slot])
  <2>1. {u \in set : u = slot} = {slot}
    BY <1>4
  <2>2. DefaultsOf(a, slot) = {SlotDefault(s, slot, index[slot])}
    BY <1>3, <2>1
  <2>3. IdsOf(a, slot) = {SlotDefault(s, slot, index[slot]).id}
    BY <2>2 DEF IdsOf
  <2>. QED BY <1>4, <2>3 DEF SlotDefault, a
<1>5. CASE ~IsStored(s, index[slot])
  <2>1. {u \in set : u = slot} = {}
    BY <1>5
  <2>2. DefaultsOf(a, slot) = {}
    BY <1>3, <2>1
  <2>. QED BY <1>5, <2>2 DEF IdsOf, a
<1>. QED BY <1>4, <1>5

\* Where the dropdowns may stand.
StandOnRows(s, index) ==
    \A slot \in Slots : index[slot] = -1 \/ index[slot] \in DropdownIndices(s, slot)

LEMMA SelectedStands ==
    ASSUME NEW s \in Seq(Endpoints), NEW a, NEW slot \in Slots
    PROVE  Selected(s, a, slot) = -1 \/ Selected(s, a, slot) \in DropdownIndices(s, slot)
BY DEF Selected, SetCurSel

AllPaths == {"", Cut} \cup Paths \cup RunningApplications

LEMMA StoredApplication ==
    ASSUME NEW s \in Seq(Endpoints), NEW path \in AllPaths, NEW regex \in BOOLEAN,
           NEW index, StandOnRows(s, index)
    PROVE  /\ FromDropdowns(s, path, regex, index) \in Applications
           /\ \A d, e \in FromDropdowns(s, path, regex, index).defaults :
                 d.type = e.type /\ d.role = e.role => d = e
<1>. DEFINE a == FromDropdowns(s, path, regex, index)
            set == {t \in Slots : IsStored(s, index[t])}
<1>1. a.defaults = {SlotDefault(s, t, index[t]) : t \in set}
  BY DefaultsFromDropdowns
<1>2. a = [description |-> "description", path |-> path, regexMatch |-> regex,
           defaults |-> a.defaults]
  BY DEF FromDropdowns
<1>. HIDE DEF a
<1>3. ASSUME NEW t \in set PROVE SlotDefault(s, t, index[t]) \in Defaults
  <2>1. t \in Slots /\ index[t] > 0
    BY <1>3 DEF IsStored
  <2>2. index[t] \in DropdownIndices(s, t)
    BY <2>1 DEF StandOnRows
  <2>3. index[t] \in 1..Len(Shown(s, t[1]))
    BY <2>1, <2>2, ShownLength DEF DropdownIndices
  <2>4. EndpointAtIndex(s, t[1], index[t] - 1) \in Ids
    <3>1. PICK e \in DOMAIN s : EndpointAtIndex(s, t[1], index[t] - 1) = s[e].id
      BY <2>3, RowIsStored
    <3>. QED BY <3>1, EndpointTypes
  <2>. QED BY <2>1, <2>4, SlotParts DEF SlotDefault, Defaults
<1>4. a.defaults \subseteq Defaults
  <2>. HIDE DEF set
  <2>. QED BY <1>1, <1>3
<1>5. a \in Applications
  <2>1. PICK defaults \in SUBSET Defaults : defaults = a.defaults
    BY <1>4
  <2>2. [description |-> "description", path |-> path, regexMatch |-> regex,
         defaults |-> defaults] \in Applications
    BY DEF Applications, AllPaths
  <2>. QED BY <1>2, <2>1, <2>2
<1>6. ASSUME NEW d \in a.defaults, NEW e \in a.defaults, d.type = e.type, d.role = e.role
      PROVE  d = e
  <2>1. PICK t \in Slots : d = SlotDefault(s, t, index[t])
    BY <1>1
  <2>2. PICK u \in Slots : e = SlotDefault(s, u, index[u])
    BY <1>1
  <2>3. t[1] = u[1] /\ t[2] = u[2]
    BY <1>6, <2>1, <2>2 DEF SlotDefault
  <2>4. t = u
    BY <2>3, SlotParts
  <2>. QED BY <2>1, <2>2, <2>4
<1>. QED BY <1>5, <1>6 DEF a

\* The second half: a dialog opened and closed again leads where it led.
LEMMA ReopenedKeeps ==
    ASSUME NEW s \in Seq(Endpoints), IdsUnique(s), NEW a \in Applications, NEW slot \in Slots,
           \A d, e \in a.defaults : d.type = e.type /\ d.role = e.role => d = e
    PROVE  KeepsWhatItStored(s, a, slot)
<1>1. SUFFICES ASSUME \A id \in IdsOf(a, slot) : \A e \in FindEndpoint(s, id) :
                         s[e].type = TypeOf(slot[1])
               PROVE  IdsOf(Reopened(s, a), slot) =
                         {id \in IdsOf(a, slot) : FindEndpoint(s, id) # {}}
  BY DEF KeepsWhatItStored
<1>. DEFINE index == [t \in Slots |-> Selected(s, a, t)]
            i == Selected(s, a, slot)
<1>2. Len(s) \in Nat /\ Len(Shown(s, slot[1])) \in Nat /\ Len(Shown(s, slot[1])) <= Len(s)
  BY ShownLength
<1>3. IdsOf(Reopened(s, a), slot) =
          IF IsStored(s, i) THEN {EndpointAtIndex(s, slot[1], i - 1)} ELSE {}
  <2>1. IdsOf(FromDropdowns(s, a.path, a.regexMatch, index), slot) =
            IF IsStored(s, index[slot]) THEN {EndpointAtIndex(s, slot[1], index[slot] - 1)}
                                        ELSE {}
    BY DefaultsOfASlot
  <2>2. index[slot] = i
    OBVIOUS
  <2>3. Reopened(s, a) = FromDropdowns(s, a.path, a.regexMatch, index)
    BY DEF Reopened
  <2>. HIDE DEF index, i
  <2>. QED BY <2>1, <2>2, <2>3
<1>4. CASE DefaultsOf(a, slot) = {}
  <2>1. IdsOf(a, slot) = {}
    BY <1>4 DEF IdsOf
  <2>2. i = 0
    BY <1>2, <1>4 DEF Selected, SetCurSel, DropdownIndices
  <2>3. ~IsStored(s, i)
    BY <2>2 DEF IsStored
  <2>. HIDE DEF i
  <2>. QED BY <1>3, <2>1, <2>3
<1>5. CASE DefaultsOf(a, slot) # {}
  <2>. DEFINE found == CHOOSE d \in DefaultsOf(a, slot) : TRUE
              at == IndexOfEndpoint(s, found.id)
  <2>1. found \in DefaultsOf(a, slot)
    BY <1>5
  <2>2. DefaultsOf(a, slot) = {found}
    <3>1. ASSUME NEW d \in DefaultsOf(a, slot), NEW e \in DefaultsOf(a, slot) PROVE d = e
      <4>1. d \in a.defaults /\ e \in a.defaults /\ d.type = e.type /\ d.role = e.role
        BY <3>1 DEF DefaultsOf
      <4>. QED BY <4>1
    <3>. HIDE DEF found
    <3>. QED BY <2>1, <3>1
  <2>3. IdsOf(a, slot) = {found.id}
    <3>. HIDE DEF found
    <3>. QED BY <2>2 DEF IdsOf
  <2>4. i = SetCurSel(s, slot, at)
    BY <1>5 DEF Selected
  <2>. HIDE DEF found, i
  <2>5. CASE FindEndpoint(s, found.id) = {}
    <3>1. at = 0
      BY <2>5 DEF IndexOfEndpoint
    <3>2. i = 0
      BY <1>2, <2>4, <3>1 DEF SetCurSel, DropdownIndices
    <3>3. ~IsStored(s, i)
      BY <3>2 DEF IsStored
    <3>. QED BY <1>3, <2>3, <2>5, <3>3
  <2>6. CASE FindEndpoint(s, found.id) # {}
    <3>1. PICK e \in FindEndpoint(s, found.id) : TRUE
      BY <2>6
    <3>2. e \in DOMAIN s /\ s[e].id = found.id /\ s[e].type = TypeOf(slot[1])
      BY <1>1, <2>3, <3>1 DEF FindEndpoint
    <3>3. /\ at \in 1..Len(Shown(s, slot[1]))
          /\ EndpointAtIndex(s, slot[1], at - 1) = found.id
      BY <3>2, PlaceOfEndpoint
    <3>. HIDE DEF at
    <3>4. at \in DropdownIndices(s, slot) /\ IsStored(s, at)
      BY <1>2, <3>3 DEF DropdownIndices, IsStored
    <3>5. i = at
      BY <2>4, <3>4 DEF SetCurSel
    <3>. QED BY <1>3, <2>3, <2>6, <3>3, <3>4, <3>5
  <2>. QED BY <2>5, <2>6
<1>. QED BY <1>4, <1>5

-----------------------------------------------------------------------------
(* Lists with an item added, replaced, removed                             *)

LEMMA RemovedItem ==
    ASSUME NEW S, NEW s \in Seq(S), NEW i \in DOMAIN s
    PROVE  /\ RemoveAt(s, i) \in Seq(S) /\ Len(RemoveAt(s, i)) = Len(s) - 1
           /\ \A k \in DOMAIN RemoveAt(s, i) :
                 RemoveAt(s, i)[k] = s[IF k < i THEN k ELSE k + 1]
<1>. DEFINE before == SubSeq(s, 1, i - 1)
            after == SubSeq(s, i + 1, Len(s))
<1>1. Len(s) \in Nat /\ i \in 1..Len(s) /\ \A k \in 1..Len(s) : s[k] \in S
  OBVIOUS
<1>2. /\ before \in Seq(S) /\ Len(before) = i - 1
      /\ \A k \in 1..i - 1 : before[k] = s[k]
  <2>1. \A k \in 1..i - 1 : s[k] \in S
    BY <1>1
  <2>2. /\ before \in Seq(S) /\ Len(before) = IF 1 <= i - 1 THEN i - 1 - 1 + 1 ELSE 0
        /\ \A k \in 1..i - 1 - 1 + 1 : before[k] = s[1 + k - 1]
    BY <1>1, <2>1, SubSeqProperties
  <2>. HIDE DEF before
  <2>. QED BY <1>1, <2>2
<1>3. /\ after \in Seq(S) /\ Len(after) = Len(s) - i
      /\ \A k \in 1..Len(s) - i : after[k] = s[i + k]
  <2>1. \A k \in i + 1..Len(s) : s[k] \in S
    BY <1>1
  <2>2. /\ after \in Seq(S)
        /\ Len(after) = IF i + 1 <= Len(s) THEN Len(s) - (i + 1) + 1 ELSE 0
        /\ \A k \in 1..Len(s) - (i + 1) + 1 : after[k] = s[i + 1 + k - 1]
    BY <1>1, <2>1, SubSeqProperties
  <2>. HIDE DEF after
  <2>. QED BY <1>1, <2>2
<1>4. RemoveAt(s, i) = before \o after
  BY DEF RemoveAt
<1>. HIDE DEF before, after
<1>5. /\ RemoveAt(s, i) \in Seq(S) /\ Len(RemoveAt(s, i)) = Len(s) - 1
      /\ \A k \in 1..Len(s) - 1 :
            RemoveAt(s, i)[k] = IF k <= i - 1 THEN before[k] ELSE after[k - (i - 1)]
  <2>1. /\ before \o after \in Seq(S)
        /\ Len(before \o after) = Len(before) + Len(after)
        /\ \A k \in 1..Len(before) + Len(after) :
              (before \o after)[k] =
                  IF k <= Len(before) THEN before[k] ELSE after[k - Len(before)]
    BY <1>2, <1>3, ConcatProperties
  <2>2. Len(before) = i - 1 /\ Len(before) + Len(after) = Len(s) - 1
    BY <1>1, <1>2, <1>3
  <2>. QED BY <1>4, <2>1, <2>2
<1>6. ASSUME NEW k \in DOMAIN RemoveAt(s, i)
      PROVE  RemoveAt(s, i)[k] = s[IF k < i THEN k ELSE k + 1]
  <2>1. k \in 1..Len(s) - 1
    BY <1>5
  <2>2. CASE k < i
    BY <1>1, <1>2, <1>5, <2>1, <2>2
  <2>3. CASE ~(k < i)
    <3>1. k - (i - 1) \in 1..Len(s) - i /\ i + (k - (i - 1)) = k + 1
      BY <1>1, <2>1, <2>3
    <3>2. RemoveAt(s, i)[k] = IF k <= i - 1 THEN before[k] ELSE after[k - (i - 1)]
      BY <1>5, <2>1
    <3>3. ~(k <= i - 1)
      BY <1>1, <2>1, <2>3
    <3>4. RemoveAt(s, i)[k] = after[k - (i - 1)]
      BY <3>2, <3>3
    <3>. QED BY <1>3, <2>3, <3>1, <3>4
  <2>. QED BY <2>2, <2>3
<1>. QED BY <1>5, <1>6

LEMMA IdsUniqueAdded ==
    ASSUME NEW s \in Seq(Endpoints), IdsUnique(s), NEW e \in Endpoints,
           FindEndpoint(s, e.id) = {}
    PROVE  IdsUnique(Append(s, e))
<1>1. \A d \in DOMAIN s : s[d].id # e.id
  BY DEF FindEndpoint
<1>2. /\ Len(s) \in Nat /\ DOMAIN Append(s, e) = 1..Len(s) + 1
      /\ Append(s, e)[Len(s) + 1] = e
      /\ \A k \in 1..Len(s) : k \in DOMAIN s /\ Append(s, e)[k] = s[k]
  OBVIOUS
<1>3. \A k \in DOMAIN Append(s, e) : k = Len(s) + 1 \/ k \in 1..Len(s)
  BY <1>2
<1>. QED BY <1>1, <1>2, <1>3 DEF IdsUnique

LEMMA IdsUniqueRemoved ==
    ASSUME NEW s \in Seq(Endpoints), IdsUnique(s), NEW i \in DOMAIN s
    PROVE  IdsUnique(RemoveAt(s, i))
<1>1. SUFFICES ASSUME NEW j \in DOMAIN RemoveAt(s, i), NEW k \in DOMAIN RemoveAt(s, i),
                      RemoveAt(s, i)[j].id = RemoveAt(s, i)[k].id
               PROVE  j = k
  BY DEF IdsUnique
<1>. DEFINE From(n) == IF n < i THEN n ELSE n + 1
<1>2. /\ RemoveAt(s, i) \in Seq(Endpoints) /\ Len(RemoveAt(s, i)) = Len(s) - 1
      /\ RemoveAt(s, i)[j] = s[From(j)] /\ RemoveAt(s, i)[k] = s[From(k)]
  BY RemovedItem
<1>3. From(j) \in DOMAIN s /\ From(k) \in DOMAIN s
  BY <1>2
<1>4. From(j) = From(k)
  BY <1>1, <1>2, <1>3 DEF IdsUnique
<1>. QED BY <1>2, <1>4

OneDefault(a) == \A d, e \in a.defaults : d.type = e.type /\ d.role = e.role => d = e

LEMMA OneDefaultAdded ==
    ASSUME NEW s \in Seq(Applications), OneDefaultForASlot(s),
           NEW a \in Applications, OneDefault(a)
    PROVE  OneDefaultForASlot(Append(s, a))
<1>1. ASSUME NEW k \in DOMAIN Append(s, a) PROVE OneDefault(Append(s, a)[k])
  <2>1. k \in 1..Len(s) + 1 /\ Len(s) \in Nat
    OBVIOUS
  <2>2. CASE k = Len(s) + 1
    BY <2>2
  <2>3. CASE k # Len(s) + 1
    <3>1. k \in DOMAIN s /\ Append(s, a)[k] = s[k]
      BY <2>1, <2>3
    <3>. QED BY <3>1 DEF OneDefaultForASlot, OneDefault
  <2>. QED BY <2>2, <2>3
<1>. QED BY <1>1 DEF OneDefaultForASlot, OneDefault

LEMMA OneDefaultReplaced ==
    ASSUME NEW s \in Seq(Applications), OneDefaultForASlot(s), NEW i \in DOMAIN s,
           NEW a \in Applications, OneDefault(a)
    PROVE  OneDefaultForASlot([s EXCEPT ![i] = a])
<1>1. ASSUME NEW k \in DOMAIN s PROVE OneDefault([s EXCEPT ![i] = a][k])
  <2>1. CASE k = i
    BY <2>1
  <2>2. CASE k # i
    <3>1. [s EXCEPT ![i] = a][k] = s[k]
      BY <2>2
    <3>. QED BY <3>1 DEF OneDefaultForASlot, OneDefault
  <2>. QED BY <2>1, <2>2
<1>. QED BY <1>1 DEF OneDefaultForASlot, OneDefault

LEMMA OneDefaultRemoved ==
    ASSUME NEW s \in Seq(Applications), OneDefaultForASlot(s), NEW i \in DOMAIN s
    PROVE  OneDefaultForASlot(RemoveAt(s, i))
<1>1. ASSUME NEW k \in DOMAIN RemoveAt(s, i) PROVE OneDefault(RemoveAt(s, i)[k])
  <2>. DEFINE n == IF k < i THEN k ELSE k + 1
  <2>1. /\ RemoveAt(s, i) \in Seq(Applications) /\ Len(RemoveAt(s, i)) = Len(s) - 1
        /\ RemoveAt(s, i)[k] = s[n]
    BY RemovedItem
  <2>2. n \in DOMAIN s
    BY <2>1
  <2>. HIDE DEF n
  <2>. QED BY <2>1, <2>2 DEF OneDefaultForASlot, OneDefault
<1>. QED BY <1>1 DEF OneDefaultForASlot, OneDefault

-----------------------------------------------------------------------------
(* Configurations                                                          *)

LEMMA ConfigTypes ==
    ASSUME NEW c \in Configs
    PROVE  /\ c.driverClsid \in Range(Interfaces) \cup {"", Cut}
           /\ c.endpoints \in Seq(Endpoints) /\ c.applications \in Seq(Applications)
           /\ c.waveRtMinimumFrames \in Nat /\ c.enableApplicationRouting \in BOOLEAN
BY DEF Configs

\* A configuration of which one part is another is one still.
LEMMA WithDriver ==
    ASSUME NEW c, WellFormed(c), NEW clsid \in Range(Interfaces) \cup {""}
    PROVE  WellFormed([c EXCEPT !.driverClsid = clsid])
<1>. DEFINE d == [c EXCEPT !.driverClsid = clsid]
<1>1. c \in Configs
  BY DEF WellFormed
<1>2. d \in Configs
  BY <1>1 DEF Configs
<1>3. d.endpoints = c.endpoints /\ d.applications = c.applications
  BY <1>1 DEF Configs
<1>. HIDE DEF d
<1>4. WellFormed(d)
  BY <1>2, <1>3 DEF WellFormed
<1>. QED BY <1>4 DEF d

LEMMA WithFrames ==
    ASSUME NEW c, WellFormed(c), NEW frames \in Nat
    PROVE  WellFormed([c EXCEPT !.waveRtMinimumFrames = frames])
<1>. DEFINE d == [c EXCEPT !.waveRtMinimumFrames = frames]
<1>1. c \in Configs
  BY DEF WellFormed
<1>2. d \in Configs
  BY <1>1 DEF Configs
<1>3. d.endpoints = c.endpoints /\ d.applications = c.applications
  BY <1>1 DEF Configs
<1>. HIDE DEF d
<1>4. WellFormed(d)
  BY <1>2, <1>3 DEF WellFormed
<1>. QED BY <1>4 DEF d

LEMMA WithRouting ==
    ASSUME NEW c, WellFormed(c), NEW enabled \in BOOLEAN
    PROVE  WellFormed([c EXCEPT !.enableApplicationRouting = enabled])
<1>. DEFINE d == [c EXCEPT !.enableApplicationRouting = enabled]
<1>1. c \in Configs
  BY DEF WellFormed
<1>2. d \in Configs
  BY <1>1 DEF Configs
<1>3. d.endpoints = c.endpoints /\ d.applications = c.applications
  BY <1>1 DEF Configs
<1>. HIDE DEF d
<1>4. WellFormed(d)
  BY <1>2, <1>3 DEF WellFormed
<1>. QED BY <1>4 DEF d

LEMMA WithEndpoints ==
    ASSUME NEW c, WellFormed(c), NEW s \in Seq(Endpoints), IdsUnique(s)
    PROVE  WellFormed([c EXCEPT !.endpoints = s])
<1>. DEFINE d == [c EXCEPT !.endpoints = s]
<1>1. c \in Configs
  BY DEF WellFormed
<1>2. d \in Configs
  BY <1>1 DEF Configs
<1>3. d.endpoints = s /\ d.applications = c.applications
  BY <1>1 DEF Configs
<1>. HIDE DEF d
<1>4. WellFormed(d)
  BY <1>2, <1>3 DEF WellFormed
<1>. QED BY <1>4 DEF d

LEMMA WithApplications ==
    ASSUME NEW c, WellFormed(c), NEW s \in Seq(Applications), OneDefaultForASlot(s)
    PROVE  WellFormed([c EXCEPT !.applications = s])
<1>. DEFINE d == [c EXCEPT !.applications = s]
<1>1. c \in Configs
  BY DEF WellFormed
<1>2. d \in Configs
  BY <1>1 DEF Configs
<1>3. d.endpoints = c.endpoints /\ d.applications = s
  BY <1>1 DEF Configs
<1>. HIDE DEF d
<1>4. WellFormed(d)
  BY <1>2, <1>3 DEF WellFormed
<1>. QED BY <1>4 DEF d

LEMMA NoConfigWellFormed == WellFormed(NoConfig)
<1>1. NoConfig \in Configs
  BY DEF NoConfig, Configs
<1>2. NoConfig.endpoints = <<>> /\ NoConfig.applications = <<>>
  BY DEF NoConfig
<1>. QED BY <1>1, <1>2 DEF WellFormed, IdsUnique, OneDefaultForASlot

LEMMA FirstConfigWellFormed ==
    ASSUME NEW frames \in Nat
    PROVE  WellFormed(FirstConfig(frames))
<1>. DEFINE e == [id |-> EndpointName(1), description |-> "description", type |-> "Recording",
                  channelCount |-> 2, attachPhysical |-> TRUE, physicalChannelBase |-> 2]
            s == <<e>>
<1>1. e \in Endpoints
  BY ConfigurationAssumption DEF Endpoints, Ids
<1>. HIDE DEF e
<1>2. s \in Seq(Endpoints) /\ IdsUnique(s)
  BY <1>1 DEF IdsUnique
<1>3. WellFormed([NoConfig EXCEPT !.waveRtMinimumFrames = frames])
  BY NoConfigWellFormed, WithFrames
<1>. HIDE DEF s
<1>4. WellFormed([[NoConfig EXCEPT !.waveRtMinimumFrames = frames] EXCEPT !.endpoints = s])
  BY <1>2, <1>3, WithEndpoints
<1>5. FirstConfig(frames) = [[NoConfig EXCEPT !.waveRtMinimumFrames = frames] EXCEPT
                                !.endpoints = s]
  BY DEF FirstConfig, s, e
<1>. QED BY <1>4, <1>5

\* What is read of a beginning of a file is well formed if what was written is.
LEMMA PartWellFormed ==
    ASSUME NEW c, WellFormed(c), NEW read \in Configs, IsPart(read, c)
    PROVE  WellFormed(read)
<1>0. /\ c \in Configs /\ IdsUnique(c.endpoints) /\ OneDefaultForASlot(c.applications)
      /\ c.endpoints \in Seq(Endpoints) /\ c.applications \in Seq(Applications)
  BY ConfigTypes DEF WellFormed
<1>1. read.endpoints \in Seq(Endpoints) /\ read.applications \in Seq(Applications)
  BY ConfigTypes
<1>2. ASSUME NEW e \in DOMAIN read.endpoints
      PROVE  e \in DOMAIN c.endpoints /\ read.endpoints[e].id = c.endpoints[e].id
  <2>1. e \in DOMAIN c.endpoints
    BY <1>0, <1>1 DEF IsPart
  <2>2. c.endpoints[e] \in Endpoints
    BY <1>0, <1>1, <2>1
  <2>3. [c.endpoints[e] EXCEPT !.type = "Playback"].id = c.endpoints[e].id
    BY <2>2 DEF Endpoints
  <2>. QED BY <2>1, <2>3 DEF IsPart
<1>3. IdsUnique(read.endpoints)
  BY <1>0, <1>1, <1>2 DEF IdsUnique
<1>4. ASSUME NEW a \in DOMAIN read.applications
      PROVE  a \in DOMAIN c.applications
             /\ read.applications[a].defaults = c.applications[a].defaults
  BY <1>0, <1>1 DEF IsPart
<1>5. OneDefaultForASlot(read.applications)
  BY <1>0, <1>1, <1>4 DEF OneDefaultForASlot
<1>. QED BY <1>0, <1>3, <1>5 DEF WellFormed

LEMMA KeptWellFormed ==
    ASSUME NEW c, WellFormed(c), NEW read, Keeps(read, c)
    PROVE  WellFormed(read)
BY WithFrames DEF Keeps

-----------------------------------------------------------------------------
(* Keys, lists and finite sets                                            *)

\* The members that are written before another one a reader asks for.
LEMMA KeyOrder ==
    /\ \A key \in {"attachPhysical", "channelCount", "description", "id", "physicalChannelBase"} :
          Before(key, "type")
    /\ Before("defaults", "path") /\ Before("description", "path")
    /\ Before("applications", "enableApplicationRouting")
BY DEF Before, Keys

\* A list of which all items are good has the n-th in the n-th place.
LEMMA NthOfAll ==
    ASSUME NEW k \in Nat
    PROVE  Cardinality(1..k) = k /\ \A n \in 1..k : Nth(1..k, n) = n
<1>1. ASSUME NEW i \in 1..k
      PROVE  Cardinality({j \in 1..k : j <= i}) = i
  <2>1. {j \in 1..k : j <= i} = 1..i
    OBVIOUS
  <2>2. Cardinality(1..i) = i
    BY FS_Interval
  <2>. QED BY <2>1, <2>2
<1>2. Cardinality(1..k) = k
  BY FS_Interval
<1>3. ASSUME NEW n \in 1..k
      PROVE  Nth(1..k, n) = n
  <2>1. \A i \in 1..k : Cardinality({j \in 1..k : j <= i}) = n <=> i = n
    BY <1>1
  <2>. QED BY <2>1 DEF Nth
<1>. QED BY <1>2, <1>3

\* A set that is written as a list has its elements in it, and no others.
LEMMA SeqOfSet ==
    ASSUME NEW S, IsFiniteSet(S)
    PROVE  SetToSeq(S) \in Seq(S) /\ Range(SetToSeq(S)) = S
<1>. DEFINE n == Cardinality(S)
            s == SetToSeq(S)
<1>1. n \in Nat /\ ExistsBijection(1..n, S)
  BY FS_CardinalityType
<1>2. \E f \in [1..n -> S] : IsInjective(f)
  BY <1>1 DEF ExistsBijection, Bijection, Injection, IsInjective
<1>3. s \in [1..n -> S] /\ IsInjective(s)
  BY <1>2 DEF SetToSeq
<1>. HIDE DEF s
<1>4. s \in Injection(1..n, S) /\ IsFiniteSet(1..n) /\ Cardinality(1..n) = n
  <2>1. s \in Injection(1..n, S)
    BY <1>3 DEF Injection, IsInjective
  <2>2. IsFiniteSet(1..n) /\ Cardinality(1..n) = n
    BY <1>1, FS_Interval
  <2>. QED BY <2>1, <2>2
<1>5. s \in Surjection(1..n, S)
  BY <1>4, FS_Injection
<1>6. Range(s) = S
  BY <1>3, <1>5 DEF Surjection, Range
<1>7. s \in Seq(S)
  BY <1>1, <1>3, SeqDef
<1>. QED BY <1>6, <1>7 DEF s

LEMMA DefaultsFinite == IsFiniteSet(Defaults)
<1>1. IsFiniteSet(Ids)
  <2>. DEFINE f == [n \in 1..MaxEndpoints |-> EndpointName(n)]
  <2>1. IsFiniteSet(1..MaxEndpoints)
    BY FS_Interval, ConfigurationAssumption
  <2>2. f \in Surjection(1..MaxEndpoints, Ids)
    BY DEF Surjection, Ids
  <2>. QED BY <2>1, <2>2, FS_Surjection
<1>2. IsFiniteSet(Roles) /\ IsFiniteSet(Flows)
  <2>1. Roles = (({} \cup {"eConsole"}) \cup {"eCommunications"}) \cup {"eMultimedia"}
        /\ Flows = ({} \cup {"eRender"}) \cup {"eCapture"}
    BY DEF Roles, Flows
  <2>. QED BY <2>1, FS_EmptySet, FS_AddElement
<1>3. IsFiniteSet((Ids \X Roles) \X Flows)
  BY <1>1, <1>2, FS_Product
<1>. DEFINE g == [d \in Defaults |-> <<<<d.id, d.role>>, d.type>>]
<1>4. g \in Injection(Defaults, (Ids \X Roles) \X Flows)
  BY DEF Injection, IsInjective, Defaults
<1>. QED BY <1>3, <1>4, FS_Injection

-----------------------------------------------------------------------------
(* An endpoint and a default, written and read                             *)

\* What is written of the members of an object.
LEMMA WrittenMembers ==
    ASSUME NEW all, NEW m, Members(all) = Object(m)
    PROVE  /\ DOMAIN m = {key \in DOMAIN all : all[key] # Unwritten}
           /\ \A key \in DOMAIN m : m[key] = all[key]
BY DEF Members, Object

LEMMA NotUnwritten ==
    /\ \A x : Text(x) # Unwritten /\ Number(x) # Unwritten /\ Bool(x) # Unwritten
              /\ Array(x) # Unwritten
    /\ \A v : WrittenIf(TRUE, v) = v /\ WrittenIf(FALSE, v) = Unwritten
BY DEF Text, Number, Bool, Array, Unwritten, WrittenIf

\* What saveEndpoint writes.
LEMMA EndpointMembers ==
    ASSUME NEW e \in Endpoints, NEW m, SaveEndpoint(e) = Object(m)
    PROVE  /\ {"id", "description", "type", "channelCount"} \subseteq DOMAIN m
           /\ e.attachPhysical => DOMAIN m = {"id", "description", "type", "channelCount",
                                              "attachPhysical", "physicalChannelBase"}
           /\ ~e.attachPhysical => DOMAIN m = {"id", "description", "type", "channelCount"}
           /\ m["id"] = Text(e.id) /\ m["description"] = Text(e.description)
           /\ m["type"] = Text(TypeText(e.type)) /\ m["channelCount"] = Number(e.channelCount)
           /\ e.attachPhysical => /\ m["attachPhysical"] = Bool(TRUE)
                                  /\ m["physicalChannelBase"] = Number(e.physicalChannelBase)
<1>. DEFINE all ==
        [id |-> Text(e.id), description |-> Text(e.description), type |-> Text(TypeText(e.type)),
         channelCount |-> Number(e.channelCount),
         attachPhysical |-> WrittenIf(e.attachPhysical, Bool(TRUE)),
         physicalChannelBase |-> WrittenIf(e.attachPhysical, Number(e.physicalChannelBase))]
<1>1. Members(all) = Object(m)
  BY DEF SaveEndpoint
<1>2. /\ DOMAIN all = {"id", "description", "type", "channelCount", "attachPhysical",
                       "physicalChannelBase"}
      /\ all["id"] = Text(e.id) /\ all["description"] = Text(e.description)
      /\ all["type"] = Text(TypeText(e.type)) /\ all["channelCount"] = Number(e.channelCount)
      /\ all["attachPhysical"] = WrittenIf(e.attachPhysical, Bool(TRUE))
      /\ all["physicalChannelBase"] = WrittenIf(e.attachPhysical, Number(e.physicalChannelBase))
  OBVIOUS
<1>. HIDE DEF all
<1>3. /\ DOMAIN m = {key \in DOMAIN all : all[key] # Unwritten}
      /\ \A key \in DOMAIN m : m[key] = all[key]
  BY <1>1, WrittenMembers
<1>4. CASE e.attachPhysical
  <2>1. /\ all["attachPhysical"] = Bool(TRUE)
        /\ all["physicalChannelBase"] = Number(e.physicalChannelBase)
    BY <1>2, <1>4, NotUnwritten DEF WrittenIf
  <2>2. \A key \in DOMAIN all : all[key] # Unwritten
    BY <1>2, <2>1, NotUnwritten
  <2>3. DOMAIN m = DOMAIN all
    BY <1>3, <2>2
  <2>. QED BY <1>2, <1>3, <1>4, <2>1, <2>3
<1>5. CASE ~e.attachPhysical
  <2>1. all["attachPhysical"] = Unwritten /\ all["physicalChannelBase"] = Unwritten
    BY <1>2, <1>5, NotUnwritten DEF WrittenIf
  <2>2. \A key \in DOMAIN all :
           all[key] # Unwritten <=> key \in {"id", "description", "type", "channelCount"}
    BY <1>2, <2>1, NotUnwritten
  <2>3. DOMAIN m = {"id", "description", "type", "channelCount"}
    BY <1>2, <1>3, <2>2
  <2>. QED BY <1>2, <1>3, <1>5, <2>3
<1>. QED BY <1>4, <1>5

\* A default of an application is read as it was written.
LEMMA DefaultReadsBack ==
    ASSUME NEW d \in Defaults
    PROVE  /\ SaveDefault(d)[1] = "object" /\ IsDefault(SaveDefault(d)[2])
           /\ LoadDefault(SaveDefault(d)[2]) = d
<1>. DEFINE m == SaveDefault(d)[2]
<1>1. d = [id |-> d.id, role |-> d.role, type |-> d.type] /\ d.role \in Roles /\ d.type \in Flows
  BY DEF Defaults
<1>2. SaveDefault(d)[1] = "object"
  BY DEF SaveDefault, Members, Object
<1>3. /\ {"id", "role", "type"} \subseteq DOMAIN m
      /\ m["id"] = Text(d.id) /\ m["role"] = Text(RoleText[d.role])
      /\ m["type"] = Text(FlowText(d.type))
  BY DEF SaveDefault, Members, Object, Text, Unwritten
<1>. HIDE DEF m
<1>4. IsDefault(m)
  BY <1>1, <1>3 DEF IsDefault, Has, Text, RoleText, FlowText, Roles, Flows
<1>5. \A role \in DOMAIN RoleText : m["role"][2] = RoleText[role] <=> role = d.role
  BY <1>1, <1>3 DEF Text, RoleText, Roles
<1>6. d.role \in DOMAIN RoleText
  BY <1>1 DEF RoleText, Roles
<1>7. LoadDefault(m).role = d.role
  BY <1>5, <1>6 DEF LoadDefault
<1>8. LoadDefault(m) = [id |-> d.id, role |-> d.role, type |-> d.type]
  <2>1. LoadDefault(m).type = d.type
    BY <1>1, <1>3 DEF LoadDefault, Text, FlowText, Flows
  <2>2. LoadDefault(m).id = d.id
    BY <1>3 DEF LoadDefault, Text
  <2>3. LoadDefault(m) = [id |-> LoadDefault(m).id, role |-> LoadDefault(m).role,
                          type |-> LoadDefault(m).type]
    BY DEF LoadDefault
  <2>. QED BY <1>7, <2>1, <2>2, <2>3
<1>. QED BY <1>1, <1>2, <1>4, <1>8 DEF m

\* Of members that are those of an endpoint, but for a type that was cut.
LEMMA EndpointLoaded ==
    ASSUME NEW e \in Endpoints, NEW m, SaveEndpoint(e) = Object(m),
           NEW w, DOMAIN w = DOMAIN m, \A key \in DOMAIN m \ {"type"} : w[key] = m[key],
           w["type"] \in {m["type"], Text(Cut)}
    PROVE  /\ IsEndpoint(w)
           /\ LoadEndpoint(w) \in {e, [e EXCEPT !.type = "Playback"]}
           /\ w["type"] = m["type"] => LoadEndpoint(w) = e
<1>1. /\ {"id", "description", "type", "channelCount"} \subseteq DOMAIN w
      /\ w["id"] = Text(e.id) /\ w["description"] = Text(e.description)
      /\ w["channelCount"] = Number(e.channelCount)
      /\ w["type"] \in {Text(TypeText(e.type)), Text(Cut)}
      /\ w["type"] = m["type"] => w["type"] = Text(TypeText(e.type))
  <2>1. /\ m["id"] = Text(e.id) /\ m["description"] = Text(e.description)
        /\ m["type"] = Text(TypeText(e.type)) /\ m["channelCount"] = Number(e.channelCount)
    BY EndpointMembers
  <2>2. {"id", "description", "type", "channelCount"} \subseteq DOMAIN m
    BY EndpointMembers
  <2>. QED BY <2>1, <2>2
<1>2. IsEndpoint(w)
  BY <1>1 DEF IsEndpoint, Has, Text, Number
<1>3. /\ e.type \in {"Playback", "Recording"} /\ e.attachPhysical \in BOOLEAN
      /\ e.attachPhysical \/ e.physicalChannelBase = 0
      /\ e = [id |-> e.id, description |-> e.description, type |-> e.type,
              channelCount |-> e.channelCount, attachPhysical |-> e.attachPhysical,
              physicalChannelBase |-> e.physicalChannelBase]
  BY DEF Endpoints
<1>4. TypeOfText(w["type"][2]) \in {e.type, "Playback"}
      /\ (w["type"] = m["type"] => TypeOfText(w["type"][2]) = e.type)
  BY <1>1, <1>3 DEF TypeOfText, TypeText, Text, Cut
<1>5. /\ Get(w, "attachPhysical", "boolean", FALSE) = e.attachPhysical
      /\ Get(w, "physicalChannelBase", "number", 0) = e.physicalChannelBase
  <2>1. CASE e.attachPhysical
    <3>1. /\ DOMAIN m = {"id", "description", "type", "channelCount", "attachPhysical",
                         "physicalChannelBase"}
          /\ m["attachPhysical"] = Bool(TRUE)
          /\ m["physicalChannelBase"] = Number(e.physicalChannelBase)
      BY <2>1, EndpointMembers
    <3>2. /\ {"attachPhysical", "physicalChannelBase"} \subseteq DOMAIN w
          /\ w["attachPhysical"] = Bool(TRUE)
          /\ w["physicalChannelBase"] = Number(e.physicalChannelBase)
      BY <3>1
    <3>. QED BY <1>3, <2>1, <3>2 DEF Get, Has, Bool, Number
  <2>2. CASE ~e.attachPhysical
    <3>1. DOMAIN m = {"id", "description", "type", "channelCount"}
      BY <2>2, EndpointMembers
    <3>2. "attachPhysical" \notin DOMAIN w /\ "physicalChannelBase" \notin DOMAIN w
      BY <3>1
    <3>. QED BY <1>3, <2>2, <3>2 DEF Get, Has
  <2>. QED BY <2>1, <2>2
<1>6. LoadEndpoint(w) =
        [id |-> e.id, description |-> e.description, type |-> TypeOfText(w["type"][2]),
         channelCount |-> e.channelCount, attachPhysical |-> e.attachPhysical,
         physicalChannelBase |-> e.physicalChannelBase]
  <2>1. /\ w["id"][2] = e.id /\ w["description"][2] = e.description
        /\ w["channelCount"][2] = e.channelCount
    BY <1>1 DEF Text, Number
  <2>. QED BY <1>5, <2>1 DEF LoadEndpoint
<1>. QED BY <1>2, <1>3, <1>4, <1>6

\* An endpoint is read as it was written.
LEMMA EndpointReadsBack ==
    ASSUME NEW e \in Endpoints
    PROVE  /\ SaveEndpoint(e)[1] = "object" /\ IsEndpoint(SaveEndpoint(e)[2])
           /\ LoadEndpoint(SaveEndpoint(e)[2]) = e
<1>. DEFINE m == SaveEndpoint(e)[2]
<1>1. SaveEndpoint(e) = Object(m) /\ SaveEndpoint(e)[1] = "object"
  BY DEF SaveEndpoint, Members, Object
<1>2. IsEndpoint(m) /\ LoadEndpoint(m) = e
  <2>. HIDE DEF m
  <2>. QED BY <1>1, EndpointLoaded
<1>. QED BY <1>1, <1>2

\* The type is written last: with it the rest of an endpoint is there.
LEMMA EndpointOfPart ==
    ASSUME NEW e \in Endpoints, NEW read, ItemBegins(read, SaveEndpoint(e)),
           read[1] = "object", IsEndpoint(read[2])
    PROVE  LoadEndpoint(read[2]) \in {e, [e EXCEPT !.type = "Playback"]}
<1>. DEFINE m == SaveEndpoint(e)[2]
            w == read[2]
<1>1. SaveEndpoint(e) = Object(m) /\ m = SaveEndpoint(e)[2]
  BY DEF SaveEndpoint, Members, Object
<1>2. read # Null
  BY DEF Null
<1>3. /\ DOMAIN w \subseteq DOMAIN m
      /\ \A earlier \in DOMAIN m : Before(earlier, "type") =>
             earlier \in DOMAIN w /\ w[earlier] = m[earlier]
      /\ "type" \in DOMAIN w /\ w["type"][1] = "string"
      /\ AtomBegins(w["type"], m["type"])
  BY <1>2 DEF ItemBegins, ObjectBegins, IsEndpoint, Has
<1>. HIDE DEF m, w
<1>4. m["type"] = Text(TypeText(e.type))
      /\ DOMAIN m \subseteq {"id", "description", "type", "channelCount", "attachPhysical",
                             "physicalChannelBase"}
  <2>1. e.attachPhysical \in BOOLEAN
    BY DEF Endpoints
  <2>. QED BY <1>1, <2>1, EndpointMembers
<1>5. \A key \in DOMAIN m \ {"type"} : key \in DOMAIN w /\ w[key] = m[key]
  BY <1>3, <1>4, KeyOrder
<1>6. w["type"] \in {m["type"], Text(Cut)}
  BY <1>3, <1>4 DEF AtomBegins, Text, Null
<1>7. DOMAIN w = DOMAIN m
  BY <1>3, <1>5
<1>8. LoadEndpoint(w) \in {e, [e EXCEPT !.type = "Playback"]}
  BY <1>1, <1>5, <1>6, <1>7, EndpointLoaded
<1>. QED BY <1>8 DEF w

-----------------------------------------------------------------------------
(* Lists of endpoints                                                      *)

\* Of a list of which the first g items are good and no others, these are read.
LEMMA EndpointsLoaded ==
    ASSUME NEW w, NEW items, items = Get(w, "endpoints", "array", <<>>),
           NEW g \in Nat, 1..g \subseteq DOMAIN items,
           \A i \in DOMAIN items :
              (items[i][1] = "object" /\ IsEndpoint(items[i][2])) <=> i \in 1..g
    PROVE  LoadEndpoints(w) = [n \in 1..g |-> LoadEndpoint(items[n][2])]
<1>1. {i \in DOMAIN items : items[i][1] = "object" /\ IsEndpoint(items[i][2])} = 1..g
  OBVIOUS
<1>2. LoadEndpoints(w) = [n \in 1..g |-> LoadEndpoint(items[Nth(1..g, n)][2])]
  BY <1>1, NthOfAll DEF LoadEndpoints, LoadList
<1>. QED BY <1>2, NthOfAll

LEMMA ApplicationsLoaded ==
    ASSUME NEW w, NEW items, items = Get(w, "applications", "array", <<>>),
           NEW g \in Nat, 1..g \subseteq DOMAIN items,
           \A i \in DOMAIN items :
              (items[i][1] = "object" /\ IsApplication(items[i][2])) <=> i \in 1..g
    PROVE  LoadApplications(w) = [n \in 1..g |-> LoadApplication(items[n][2])]
<1>1. {i \in DOMAIN items : items[i][1] = "object" /\ IsApplication(items[i][2])} = 1..g
  OBVIOUS
<1>2. LoadApplications(w) = [n \in 1..g |-> LoadApplication(items[Nth(1..g, n)][2])]
  BY <1>1, NthOfAll DEF LoadApplications, LoadList
<1>. QED BY <1>2, NthOfAll

LEMMA DefaultsLoaded ==
    ASSUME NEW w, NEW items, items = Get(w, "defaults", "array", <<>>),
           NEW g \in Nat, 1..g \subseteq DOMAIN items,
           \A i \in DOMAIN items :
              (items[i][1] = "object" /\ IsDefault(items[i][2])) <=> i \in 1..g
    PROVE  LoadDefaults(w) = {LoadDefault(items[n][2]) : n \in 1..g}
<1>1. {i \in DOMAIN items : items[i][1] = "object" /\ IsDefault(items[i][2])} = 1..g
  OBVIOUS
<1>2. LoadDefaults(w) = Range([n \in 1..g |-> LoadDefault(items[Nth(1..g, n)][2])])
  BY <1>1, NthOfAll DEF LoadDefaults, LoadList
<1>3. [n \in 1..g |-> LoadDefault(items[Nth(1..g, n)][2])] =
          [n \in 1..g |-> LoadDefault(items[n][2])]
  BY NthOfAll
<1>. QED BY <1>2, <1>3 DEF Range

LEMMA EndpointsReadBack ==
    ASSUME NEW s \in Seq(Endpoints), NEW w,
           Get(w, "endpoints", "array", <<>>) = [i \in DOMAIN s |-> SaveEndpoint(s[i])]
    PROVE  LoadEndpoints(w) = s
<1>. DEFINE items == [i \in DOMAIN s |-> SaveEndpoint(s[i])]
<1>1. Len(s) \in Nat /\ DOMAIN s = 1..Len(s)
  OBVIOUS
<1>2. \A i \in DOMAIN s : /\ items[i][1] = "object" /\ IsEndpoint(items[i][2])
                          /\ LoadEndpoint(items[i][2]) = s[i]
  BY EndpointReadsBack
<1>3. DOMAIN items = DOMAIN s /\ items = Get(w, "endpoints", "array", <<>>)
  OBVIOUS
<1>. HIDE DEF items
<1>4. /\ 1..Len(s) \subseteq DOMAIN items
      /\ \A i \in DOMAIN items :
            (items[i][1] = "object" /\ IsEndpoint(items[i][2])) <=> i \in 1..Len(s)
  BY <1>1, <1>2, <1>3
<1>5. LoadEndpoints(w) =
          [n \in 1..Len(s) |-> LoadEndpoint(items[n][2])]
  BY <1>1, <1>3, <1>4, EndpointsLoaded
<1>. QED BY <1>1, <1>2, <1>5

\* Of a list whose last item may be begun, that item may lose its type or be
\* passed over, and the others are read as they were written.
LEMMA EndpointsOfPart ==
    ASSUME NEW s \in Seq(Endpoints), NEW w, NEW items, items \in Seq(Range(items)),
           items = Get(w, "endpoints", "array", <<>>), Len(items) <= Len(s),
           \A i \in DOMAIN items :
              \/ items[i] = SaveEndpoint(s[i])
              \/ i = Len(items) /\ ItemBegins(items[i], SaveEndpoint(s[i])),
           NEW read, read = LoadEndpoints(w)
    PROVE  /\ read \in Seq(Endpoints) /\ Len(read) <= Len(s)
           /\ \A e \in DOMAIN read : \/ read[e] = s[e]
                                     \/ /\ e = Len(read)
                                        /\ read[e] = [s[e] EXCEPT !.type = "Playback"]
<1>. DEFINE Good(i) == items[i][1] = "object" /\ IsEndpoint(items[i][2])
            k == Len(items)
<1>1. /\ k \in Nat /\ DOMAIN items = 1..k /\ Len(s) \in Nat /\ k <= Len(s)
      /\ DOMAIN s = 1..Len(s) /\ \A i \in 1..k : s[i] \in Endpoints
  OBVIOUS
<1>. HIDE DEF k
<1>2. \A i \in 1..k : i # k => Good(i) /\ LoadEndpoint(items[i][2]) = s[i]
  <2>1. \A i \in 1..k : i # k => items[i] = SaveEndpoint(s[i])
    BY <1>1 DEF k
  <2>. QED BY <1>1, <2>1, EndpointReadsBack
<1>3. ASSUME k \in 1..k, Good(k)
      PROVE  LoadEndpoint(items[k][2]) \in {s[k], [s[k] EXCEPT !.type = "Playback"]}
  <2>1. CASE items[k] = SaveEndpoint(s[k])
    BY <1>1, <1>3, <2>1, EndpointReadsBack
  <2>2. CASE ItemBegins(items[k], SaveEndpoint(s[k]))
    BY <1>1, <1>3, <2>2, EndpointOfPart
  <2>. QED BY <1>1, <1>3, <2>1, <2>2 DEF k
<1>4. \E g \in 0..k : \A i \in 1..k : Good(i) <=> i \in 1..g
  <2>1. CASE k = 0 \/ Good(k)
    BY <1>1, <1>2, <2>1
  <2>2. CASE k # 0 /\ ~Good(k)
    <3>1. \A i \in 1..k : Good(i) <=> i \in 1..k - 1
      BY <1>1, <1>2, <2>2
    <3>2. k - 1 \in 0..k
      BY <1>1, <2>2
    <3>. QED BY <3>1, <3>2
  <2>. QED BY <2>1, <2>2
<1>5. PICK g \in 0..k : \A i \in 1..k : Good(i) <=> i \in 1..g
  BY <1>4
<1>6. read = [n \in 1..g |-> LoadEndpoint(items[n][2])]
  <2>1. g \in Nat /\ 1..g \subseteq DOMAIN items
    BY <1>1, <1>5
  <2>2. \A i \in DOMAIN items :
           (items[i][1] = "object" /\ IsEndpoint(items[i][2])) <=> i \in 1..g
    BY <1>1, <1>5
  <2>. QED BY <2>1, <2>2, EndpointsLoaded
<1>7. \A n \in 1..g : n \in 1..k /\ Good(n)
  BY <1>1, <1>5
<1>8. \A n \in 1..g : /\ s[n] \in Endpoints
                      /\ n # k => read[n] = s[n]
                      /\ n = k => read[n] \in {s[n], [s[n] EXCEPT !.type = "Playback"]}
  BY <1>1, <1>2, <1>3, <1>6, <1>7
<1>9. \A e \in Endpoints : [e EXCEPT !.type = "Playback"] \in Endpoints
  BY DEF Endpoints
<1>10. \A n \in 1..g : read[n] \in Endpoints
  BY <1>8, <1>9
<1>11. read \in Seq(Endpoints) /\ Len(read) = g
  BY <1>1, <1>6, <1>10
<1>. QED BY <1>1, <1>8, <1>11

-----------------------------------------------------------------------------
(* An application, written and read, and lists of applications             *)

\* What saveApplication writes.
LEMMA ApplicationMembers ==
    ASSUME NEW a \in Applications, NEW m, SaveApplication(a) = Object(m),
           NEW s, s = SetToSeq(a.defaults)
    PROVE  /\ {"description", "path"} \subseteq DOMAIN m
           /\ DOMAIN m \subseteq {"description", "path", "regexMatch", "defaults"}
           /\ m["description"] = Text(a.description) /\ m["path"] = Text(a.path)
           /\ a.regexMatch => "regexMatch" \in DOMAIN m
           /\ "regexMatch" \in DOMAIN m => a.regexMatch /\ m["regexMatch"] = Bool(TRUE)
           /\ s # <<>> => "defaults" \in DOMAIN m
           /\ "defaults" \in DOMAIN m =>
                 s # <<>> /\ m["defaults"] = Array([i \in DOMAIN s |-> SaveDefault(s[i])])
<1>. DEFINE list == Array([i \in DOMAIN s |-> SaveDefault(s[i])])
            all == [description |-> Text(a.description), path |-> Text(a.path),
                    regexMatch |-> WrittenIf(a.regexMatch, Bool(TRUE)),
                    defaults |-> WrittenIf(s # <<>>, list)]
<1>1. Members(all) = Object(m)
  BY DEF SaveApplication, SaveList
<1>2. /\ DOMAIN all = {"description", "path", "regexMatch", "defaults"}
      /\ all["description"] = Text(a.description) /\ all["path"] = Text(a.path)
      /\ all["regexMatch"] = WrittenIf(a.regexMatch, Bool(TRUE))
      /\ all["defaults"] = WrittenIf(s # <<>>, list)
  OBVIOUS
<1>3. list # Unwritten
  BY NotUnwritten
<1>. HIDE DEF all, list
<1>4. /\ DOMAIN m = {key \in DOMAIN all : all[key] # Unwritten}
      /\ \A key \in DOMAIN m : m[key] = all[key]
  BY <1>1, WrittenMembers
<1>5. /\ all["description"] # Unwritten /\ all["path"] # Unwritten
      /\ a.regexMatch <=> all["regexMatch"] # Unwritten
      /\ a.regexMatch => all["regexMatch"] = Bool(TRUE)
      /\ s # <<>> <=> all["defaults"] # Unwritten
      /\ s # <<>> => all["defaults"] = list
  BY <1>2, <1>3, NotUnwritten DEF WrittenIf
<1>. QED BY <1>2, <1>4, <1>5 DEF list

\* The defaults of an application, read of members that have all of them.
LEMMA DefaultsReadBack ==
    ASSUME NEW a \in Applications, NEW m, SaveApplication(a) = Object(m), NEW w,
           "defaults" \in DOMAIN w => "defaults" \in DOMAIN m,
           "defaults" \in DOMAIN m => "defaults" \in DOMAIN w /\ w["defaults"] = m["defaults"]
    PROVE  LoadDefaults(w) = a.defaults
<1>. DEFINE s == SetToSeq(a.defaults)
            items == [i \in DOMAIN s |-> SaveDefault(s[i])]
<1>1. a.defaults \in SUBSET Defaults
  BY DEF Applications
<1>2. s \in Seq(a.defaults) /\ Range(s) = a.defaults
  BY <1>1, DefaultsFinite, FS_Subset, SeqOfSet
<1>. HIDE DEF s
<1>3. Len(s) \in Nat /\ DOMAIN s = 1..Len(s) /\ \A i \in DOMAIN s : s[i] \in Defaults
  BY <1>1, <1>2
<1>4. items = Get(w, "defaults", "array", <<>>)
  <2>1. CASE "defaults" \in DOMAIN m
    <3>1. w["defaults"] = Array(items) /\ "defaults" \in DOMAIN w
      BY <2>1, ApplicationMembers DEF s
    <3>. QED BY <3>1 DEF Get, Has, Array
  <2>2. CASE "defaults" \notin DOMAIN m
    <3>1. s = <<>>
      BY <2>2, ApplicationMembers DEF s
    <3>2. items = <<>>
      BY <3>1
    <3>. QED BY <2>2, <3>2 DEF Get, Has
  <2>. QED BY <2>1, <2>2
<1>5. DOMAIN items = 1..Len(s)
      /\ \A i \in 1..Len(s) : /\ items[i][1] = "object" /\ IsDefault(items[i][2])
                              /\ LoadDefault(items[i][2]) = s[i]
  BY <1>3, DefaultReadsBack
<1>. HIDE DEF items
<1>6. LoadDefaults(w) = {LoadDefault(items[n][2]) : n \in 1..Len(s)}
  BY <1>3, <1>4, <1>5, DefaultsLoaded
<1>7. LoadDefaults(w) = {s[n] : n \in 1..Len(s)}
  BY <1>5, <1>6
<1>. QED BY <1>2, <1>3, <1>7 DEF Range

LEMMA TrueIsRead ==
    ASSUME NEW w, NEW key \in DOMAIN w, w[key] = Bool(TRUE)
    PROVE  Get(w, key, "boolean", FALSE) = TRUE
<1>1. w[key][1] = "boolean" /\ w[key][2] = TRUE
  BY DEF Bool
<1>. QED BY <1>1 DEF Get, Has

\* An application is read as it was written.
LEMMA ApplicationReadsBack ==
    ASSUME NEW a \in Applications
    PROVE  /\ SaveApplication(a)[1] = "object" /\ IsApplication(SaveApplication(a)[2])
           /\ LoadApplication(SaveApplication(a)[2]) = a
<1>. DEFINE m == SaveApplication(a)[2]
<1>1. SaveApplication(a) = Object(m) /\ SaveApplication(a)[1] = "object"
  BY DEF SaveApplication, Members, Object
<1>. HIDE DEF m
<1>2. /\ {"description", "path"} \subseteq DOMAIN m
      /\ m["description"] = Text(a.description) /\ m["path"] = Text(a.path)
      /\ a.regexMatch => "regexMatch" \in DOMAIN m
      /\ "regexMatch" \in DOMAIN m => a.regexMatch /\ m["regexMatch"] = Bool(TRUE)
  BY <1>1, ApplicationMembers
<1>3. IsApplication(m)
  BY <1>2 DEF IsApplication, Has, Text
<1>4. /\ a.regexMatch \in BOOLEAN
      /\ a = [description |-> a.description, path |-> a.path, regexMatch |-> a.regexMatch,
              defaults |-> a.defaults]
  BY DEF Applications
<1>5. Get(m, "regexMatch", "boolean", FALSE) = a.regexMatch
  <2>1. CASE a.regexMatch = TRUE
    <3>1. "regexMatch" \in DOMAIN m /\ m["regexMatch"] = Bool(TRUE)
      BY <1>2, <2>1
    <3>. QED BY <2>1, <3>1, TrueIsRead
  <2>2. CASE a.regexMatch = FALSE
    <3>1. "regexMatch" \notin DOMAIN m
      BY <1>2, <2>2
    <3>. QED BY <2>2, <3>1 DEF Get, Has
  <2>. QED BY <1>4, <2>1, <2>2
<1>6. LoadDefaults(m) = a.defaults
  BY <1>1, DefaultsReadBack
<1>7. m["description"][2] = a.description /\ m["path"][2] = a.path
  BY <1>2 DEF Text
<1>8. LoadApplication(m) =
          [description |-> a.description, path |-> a.path, regexMatch |-> a.regexMatch,
           defaults |-> a.defaults]
  BY <1>5, <1>6, <1>7 DEF LoadApplication
<1>. QED BY <1>1, <1>3, <1>4, <1>8 DEF m

\* With the path, which is read last of what there must be, the defaults are there.
LEMMA ApplicationOfPart ==
    ASSUME NEW a \in Applications, NEW read, ItemBegins(read, SaveApplication(a)),
           read[1] = "object", IsApplication(read[2])
    PROVE  /\ LoadApplication(read[2]) \in Applications
           /\ LoadApplication(read[2]).defaults = a.defaults
<1>. DEFINE m == SaveApplication(a)[2]
            w == read[2]
<1>1. SaveApplication(a) = Object(m) /\ m = SaveApplication(a)[2]
  BY DEF SaveApplication, Members, Object
<1>2. read # Null
  BY DEF Null
<1>3. /\ DOMAIN w \subseteq DOMAIN m
      /\ \A earlier \in DOMAIN m : Before(earlier, "path") =>
             earlier \in DOMAIN w /\ w[earlier] = m[earlier]
      /\ "path" \in DOMAIN w /\ w["path"][1] = "string"
      /\ \A key \in DOMAIN w : AtomBegins(w[key], m[key])
  BY <1>2 DEF ItemBegins, ObjectBegins, IsApplication, Has
<1>. HIDE DEF m, w
<1>4. /\ {"description", "path"} \subseteq DOMAIN m
      /\ m["description"] = Text(a.description) /\ m["path"] = Text(a.path)
      /\ "regexMatch" \in DOMAIN m => m["regexMatch"] = Bool(TRUE)
  BY <1>1, ApplicationMembers
<1>5. /\ w["description"] = m["description"]
      /\ "defaults" \in DOMAIN m => "defaults" \in DOMAIN w /\ w["defaults"] = m["defaults"]
  BY <1>3, <1>4, KeyOrder
<1>6. LoadDefaults(w) = a.defaults
  BY <1>1, <1>3, <1>5, DefaultsReadBack
<1>7. w["path"][2] \in {a.path, Cut}
  BY <1>3, <1>4 DEF AtomBegins, Text, Null
<1>8. Get(w, "regexMatch", "boolean", FALSE) \in BOOLEAN
  <2>1. CASE Has(w, "regexMatch", "boolean")
    <3>1. "regexMatch" \in DOMAIN w /\ w["regexMatch"][1] = "boolean"
      BY <2>1 DEF Has
    <3>2. m["regexMatch"] = Bool(TRUE) /\ AtomBegins(w["regexMatch"], m["regexMatch"])
      BY <1>3, <1>4, <3>1
    <3>3. m["regexMatch"][1] = "boolean" /\ Null[1] = "null"
      BY <3>2 DEF Bool, Null
    <3>4. w["regexMatch"] \in {Null, m["regexMatch"]}
      BY <3>2, <3>3 DEF AtomBegins
    <3>5. w["regexMatch"] = Bool(TRUE)
      BY <3>1, <3>2, <3>3, <3>4
    <3>. QED BY <3>1, <3>5, TrueIsRead
  <2>2. CASE ~Has(w, "regexMatch", "boolean")
    BY <2>2 DEF Get
  <2>. QED BY <2>1, <2>2
<1>9. /\ a.description \in {"description"} /\ a.defaults \in SUBSET Defaults
      /\ a.path \in {"", Cut} \cup Paths \cup RunningApplications
  BY DEF Applications
<1>10. w["description"][2] = a.description
  BY <1>4, <1>5 DEF Text
<1>11. /\ LoadApplication(w) \in Applications
       /\ LoadApplication(w).defaults = a.defaults
  <2>. DEFINE regex == Get(w, "regexMatch", "boolean", FALSE)
              path == w["path"][2]
  <2>1. LoadApplication(w) = [description |-> a.description, path |-> path,
                              regexMatch |-> regex, defaults |-> a.defaults]
    BY <1>6, <1>10 DEF LoadApplication
  <2>2. path \in {"", Cut} \cup Paths \cup RunningApplications /\ regex \in BOOLEAN
    BY <1>7, <1>8, <1>9
  <2>. HIDE DEF regex, path
  <2>3. [description |-> a.description, path |-> path, regexMatch |-> regex,
         defaults |-> a.defaults] \in Applications
    BY <1>9, <2>2 DEF Applications
  <2>. QED BY <2>1, <2>3
<1>. QED BY <1>11 DEF w


LEMMA ApplicationsReadBack ==
    ASSUME NEW s \in Seq(Applications), NEW w,
           Get(w, "applications", "array", <<>>) = [i \in DOMAIN s |-> SaveApplication(s[i])]
    PROVE  LoadApplications(w) = s
<1>. DEFINE items == [i \in DOMAIN s |-> SaveApplication(s[i])]
<1>1. Len(s) \in Nat /\ DOMAIN s = 1..Len(s)
  OBVIOUS
<1>2. \A i \in DOMAIN s : /\ items[i][1] = "object" /\ IsApplication(items[i][2])
                          /\ LoadApplication(items[i][2]) = s[i]
  BY ApplicationReadsBack
<1>3. DOMAIN items = DOMAIN s /\ items = Get(w, "applications", "array", <<>>)
  OBVIOUS
<1>. HIDE DEF items
<1>4. /\ 1..Len(s) \subseteq DOMAIN items
      /\ \A i \in DOMAIN items :
            (items[i][1] = "object" /\ IsApplication(items[i][2])) <=> i \in 1..Len(s)
  BY <1>1, <1>2, <1>3
<1>5. LoadApplications(w) = [n \in 1..Len(s) |-> LoadApplication(items[n][2])]
  BY <1>1, <1>3, <1>4, ApplicationsLoaded
<1>. QED BY <1>1, <1>2, <1>5

\* Of a list whose last item may be begun, each one read has its defaults.
LEMMA ApplicationsOfPart ==
    ASSUME NEW s \in Seq(Applications), NEW w, NEW items, items \in Seq(Range(items)),
           items = Get(w, "applications", "array", <<>>), Len(items) <= Len(s),
           \A i \in DOMAIN items :
              \/ items[i] = SaveApplication(s[i])
              \/ i = Len(items) /\ ItemBegins(items[i], SaveApplication(s[i])),
           NEW read, read = LoadApplications(w)
    PROVE  /\ read \in Seq(Applications) /\ Len(read) <= Len(s)
           /\ \A a \in DOMAIN read : read[a].defaults = s[a].defaults
<1>. DEFINE Good(i) == items[i][1] = "object" /\ IsApplication(items[i][2])
            k == Len(items)
<1>1. /\ k \in Nat /\ DOMAIN items = 1..k /\ Len(s) \in Nat /\ k <= Len(s)
      /\ DOMAIN s = 1..Len(s) /\ \A i \in 1..k : s[i] \in Applications
  OBVIOUS
<1>. HIDE DEF k
<1>2. \A i \in 1..k : i # k => Good(i)
  <2>1. \A i \in 1..k : i # k => items[i] = SaveApplication(s[i])
    BY <1>1 DEF k
  <2>. QED BY <1>1, <2>1, ApplicationReadsBack
<1>3. ASSUME NEW i \in 1..k, Good(i)
      PROVE  /\ LoadApplication(items[i][2]) \in Applications
             /\ LoadApplication(items[i][2]).defaults = s[i].defaults
  <2>1. CASE items[i] = SaveApplication(s[i])
    BY <1>1, <1>3, <2>1, ApplicationReadsBack
  <2>2. CASE ItemBegins(items[i], SaveApplication(s[i]))
    BY <1>1, <1>3, <2>2, ApplicationOfPart
  <2>. QED BY <1>1, <1>3, <2>1, <2>2
<1>4. \E g \in 0..k : \A i \in 1..k : Good(i) <=> i \in 1..g
  <2>1. CASE k = 0 \/ Good(k)
    BY <1>1, <1>2, <2>1
  <2>2. CASE k # 0 /\ ~Good(k)
    <3>1. \A i \in 1..k : Good(i) <=> i \in 1..k - 1
      BY <1>1, <1>2, <2>2
    <3>2. k - 1 \in 0..k
      BY <1>1, <2>2
    <3>. QED BY <3>1, <3>2
  <2>. QED BY <2>1, <2>2
<1>5. PICK g \in 0..k : \A i \in 1..k : Good(i) <=> i \in 1..g
  BY <1>4
<1>6. read = [n \in 1..g |-> LoadApplication(items[n][2])]
  <2>1. g \in Nat /\ 1..g \subseteq DOMAIN items
    BY <1>1, <1>5
  <2>2. \A i \in DOMAIN items :
           (items[i][1] = "object" /\ IsApplication(items[i][2])) <=> i \in 1..g
    BY <1>1, <1>5
  <2>. QED BY <2>1, <2>2, ApplicationsLoaded
<1>7. \A n \in 1..g : n \in 1..k /\ Good(n)
  BY <1>1, <1>5
<1>8. \A n \in 1..g : read[n] \in Applications /\ read[n].defaults = s[n].defaults
  BY <1>1, <1>3, <1>6, <1>7
<1>9. read \in Seq(Applications) /\ Len(read) = g
  BY <1>1, <1>6, <1>8
<1>. QED BY <1>1, <1>8, <1>9

-----------------------------------------------------------------------------
(* A configuration, written and read                                       *)

LEMMA ConfigParts ==
    ASSUME NEW c \in Configs
    PROVE  c = [driverClsid |-> c.driverClsid, endpoints |-> c.endpoints,
                applications |-> c.applications,
                waveRtMinimumFrames |-> c.waveRtMinimumFrames,
                enableApplicationRouting |-> c.enableApplicationRouting]
BY DEF Configs

LEMMA LoadedParts ==
    ASSUME NEW w
    PROVE  /\ Load(w).endpoints = LoadEndpoints(w) /\ Load(w).applications = LoadApplications(w)
           /\ Load(w).enableApplicationRouting =
                  Get(w, "enableApplicationRouting", "boolean", FALSE)
BY DEF Load

\* What save writes of a configuration.
LEMMA ConfigMembers ==
    ASSUME NEW c \in Configs, NEW m, Save(c) = Object(m)
    PROVE  /\ {"driverClsid", "enableApplicationRouting"} \subseteq DOMAIN m
           /\ DOMAIN m \subseteq {"driverClsid", "enableApplicationRouting",
                                  "waveRtMinimumFrames", "endpoints", "applications"}
           /\ m["driverClsid"] = Text(c.driverClsid)
           /\ m["enableApplicationRouting"] = Bool(c.enableApplicationRouting)
           /\ c.waveRtMinimumFrames > 2 => "waveRtMinimumFrames" \in DOMAIN m
           /\ "waveRtMinimumFrames" \in DOMAIN m =>
                 /\ c.waveRtMinimumFrames > 2
                 /\ m["waveRtMinimumFrames"] = Number(c.waveRtMinimumFrames)
           /\ c.endpoints # <<>> => "endpoints" \in DOMAIN m
           /\ "endpoints" \in DOMAIN m =>
                 m["endpoints"] =
                     Array([i \in DOMAIN c.endpoints |-> SaveEndpoint(c.endpoints[i])])
           /\ c.applications # <<>> => "applications" \in DOMAIN m
           /\ "applications" \in DOMAIN m =>
                 m["applications"] =
                     Array([i \in DOMAIN c.applications |-> SaveApplication(c.applications[i])])
<1>. DEFINE endpoints == Array([i \in DOMAIN c.endpoints |-> SaveEndpoint(c.endpoints[i])])
            applications ==
                Array([i \in DOMAIN c.applications |-> SaveApplication(c.applications[i])])
            frames == c.waveRtMinimumFrames
            all == [driverClsid |-> Text(c.driverClsid),
                    enableApplicationRouting |-> Bool(c.enableApplicationRouting),
                    waveRtMinimumFrames |-> WrittenIf(frames > 2, Number(frames)),
                    endpoints |-> WrittenIf(c.endpoints # <<>>, endpoints),
                    applications |-> WrittenIf(c.applications # <<>>, applications)]
<1>1. Members(all) = Object(m)
  BY DEF Save, SaveList
<1>2. /\ DOMAIN all = {"driverClsid", "enableApplicationRouting", "waveRtMinimumFrames",
                       "endpoints", "applications"}
      /\ all["driverClsid"] = Text(c.driverClsid)
      /\ all["enableApplicationRouting"] = Bool(c.enableApplicationRouting)
      /\ all["waveRtMinimumFrames"] = WrittenIf(frames > 2, Number(frames))
      /\ all["endpoints"] = WrittenIf(c.endpoints # <<>>, endpoints)
      /\ all["applications"] = WrittenIf(c.applications # <<>>, applications)
  OBVIOUS
<1>3. endpoints # Unwritten /\ applications # Unwritten
  BY NotUnwritten
<1>. HIDE DEF all, endpoints, applications, frames
<1>4. /\ DOMAIN m = {key \in DOMAIN all : all[key] # Unwritten}
      /\ \A key \in DOMAIN m : m[key] = all[key]
  BY <1>1, WrittenMembers
<1>5. /\ all["driverClsid"] # Unwritten /\ all["enableApplicationRouting"] # Unwritten
      /\ frames > 2 <=> all["waveRtMinimumFrames"] # Unwritten
      /\ frames > 2 => all["waveRtMinimumFrames"] = Number(frames)
      /\ c.endpoints # <<>> <=> all["endpoints"] # Unwritten
      /\ c.endpoints # <<>> => all["endpoints"] = endpoints
      /\ c.applications # <<>> <=> all["applications"] # Unwritten
      /\ c.applications # <<>> => all["applications"] = applications
  BY <1>2, <1>3, NotUnwritten DEF WrittenIf
<1>. QED BY <1>2, <1>4, <1>5 DEF endpoints, applications, frames

\* The arrays of a configuration, read of members that have all of them.
LEMMA ArraysReadBack ==
    ASSUME NEW c \in Configs, NEW m, Save(c) = Object(m)
    PROVE  /\ Get(m, "endpoints", "array", <<>>) =
                  [i \in DOMAIN c.endpoints |-> SaveEndpoint(c.endpoints[i])]
           /\ Get(m, "applications", "array", <<>>) =
                  [i \in DOMAIN c.applications |-> SaveApplication(c.applications[i])]
<1>1. c.endpoints \in Seq(Endpoints) /\ c.applications \in Seq(Applications)
  BY ConfigTypes
<1>2. Get(m, "endpoints", "array", <<>>) =
          [i \in DOMAIN c.endpoints |-> SaveEndpoint(c.endpoints[i])]
  <2>. DEFINE items == [i \in DOMAIN c.endpoints |-> SaveEndpoint(c.endpoints[i])]
  <2>1. CASE "endpoints" \in DOMAIN m
    <3>1. m["endpoints"] = Array(items)
      BY <2>1, ConfigMembers
    <3>. QED BY <2>1, <3>1 DEF Get, Has, Array
  <2>2. CASE "endpoints" \notin DOMAIN m
    <3>1. c.endpoints = <<>>
      BY <2>2, ConfigMembers
    <3>2. items = <<>>
      BY <3>1
    <3>. QED BY <2>2, <3>2 DEF Get, Has
  <2>. QED BY <2>1, <2>2
<1>3. Get(m, "applications", "array", <<>>) =
          [i \in DOMAIN c.applications |-> SaveApplication(c.applications[i])]
  <2>. DEFINE items == [i \in DOMAIN c.applications |-> SaveApplication(c.applications[i])]
  <2>1. CASE "applications" \in DOMAIN m
    <3>1. m["applications"] = Array(items)
      BY <2>1, ConfigMembers
    <3>. QED BY <2>1, <3>1 DEF Get, Has, Array
  <2>2. CASE "applications" \notin DOMAIN m
    <3>1. c.applications = <<>>
      BY <2>2, ConfigMembers
    <3>2. items = <<>>
      BY <3>1
    <3>. QED BY <2>2, <3>2 DEF Get, Has
  <2>. QED BY <2>1, <2>2
<1>. QED BY <1>2, <1>3

\* load undoes save, but for a minimum of one or two frames.
LEMMA ConfigReadsBack ==
    ASSUME NEW c \in Configs
    PROVE  Keeps(FromValue(Save(c)), c)
<1>. DEFINE m == Save(c)[2]
<1>1. Save(c) = Object(m) /\ FromValue(Save(c)) = Load(m)
  BY DEF Save, Members, Object, FromValue
<1>. HIDE DEF m
<1>2. LoadEndpoints(m) = c.endpoints /\ LoadApplications(m) = c.applications
  <2>1. c.endpoints \in Seq(Endpoints) /\ c.applications \in Seq(Applications)
    BY ConfigTypes
  <2>2. /\ Get(m, "endpoints", "array", <<>>) =
               [i \in DOMAIN c.endpoints |-> SaveEndpoint(c.endpoints[i])]
        /\ Get(m, "applications", "array", <<>>) =
               [i \in DOMAIN c.applications |-> SaveApplication(c.applications[i])]
    BY <1>1, ArraysReadBack
  <2>3. LoadEndpoints(m) = c.endpoints
    BY <2>1, <2>2, EndpointsReadBack
  <2>4. LoadApplications(m) = c.applications
    BY <2>1, <2>2, ApplicationsReadBack
  <2>. QED BY <2>3, <2>4
<1>3. /\ {"driverClsid", "enableApplicationRouting"} \subseteq DOMAIN m
      /\ m["driverClsid"] = Text(c.driverClsid)
      /\ m["enableApplicationRouting"] = Bool(c.enableApplicationRouting)
  BY <1>1, ConfigMembers
<1>4. /\ Get(m, "driverClsid", "string", "") = c.driverClsid
      /\ Get(m, "enableApplicationRouting", "boolean", FALSE) = c.enableApplicationRouting
  BY <1>3 DEF Get, Has, Text, Bool
<1>5. CASE c.waveRtMinimumFrames > 2
  <2>1. "waveRtMinimumFrames" \in DOMAIN m
        /\ m["waveRtMinimumFrames"] = Number(c.waveRtMinimumFrames)
    BY <1>1, <1>5, ConfigMembers
  <2>2. Get(m, "waveRtMinimumFrames", "number", 0) = c.waveRtMinimumFrames
    BY <2>1 DEF Get, Has, Number
  <2>3. Load(m) = c
    BY <1>2, <1>4, <2>2, ConfigParts DEF Load
  <2>. QED BY <1>1, <2>3 DEF Keeps
<1>6. CASE ~(c.waveRtMinimumFrames > 2)
  <2>1. "waveRtMinimumFrames" \notin DOMAIN m
    BY <1>1, <1>6, ConfigMembers
  <2>2. Get(m, "waveRtMinimumFrames", "number", 0) = 0
    BY <2>1 DEF Get, Has
  <2>3. Load(m) = [driverClsid |-> c.driverClsid, endpoints |-> c.endpoints,
                   applications |-> c.applications, waveRtMinimumFrames |-> 0,
                   enableApplicationRouting |-> c.enableApplicationRouting]
    BY <1>2, <1>4, <2>2 DEF Load
  <2>4. [c EXCEPT !.waveRtMinimumFrames = 0] =
            [driverClsid |-> c.driverClsid, endpoints |-> c.endpoints,
             applications |-> c.applications, waveRtMinimumFrames |-> 0,
             enableApplicationRouting |-> c.enableApplicationRouting]
    <3>. DEFINE d == [c EXCEPT !.waveRtMinimumFrames = 0]
    <3>1. d \in Configs
      BY DEF Configs
    <3>2. /\ d.driverClsid = c.driverClsid /\ d.endpoints = c.endpoints
          /\ d.applications = c.applications /\ d.waveRtMinimumFrames = 0
          /\ d.enableApplicationRouting = c.enableApplicationRouting
      BY DEF Configs
    <3>. HIDE DEF d
    <3>3. d = [driverClsid |-> c.driverClsid, endpoints |-> c.endpoints,
               applications |-> c.applications, waveRtMinimumFrames |-> 0,
               enableApplicationRouting |-> c.enableApplicationRouting]
      BY <3>1, <3>2, ConfigParts
    <3>. QED BY <3>3 DEF d
  <2>5. c.waveRtMinimumFrames <= 2
    <3>1. c.waveRtMinimumFrames \in Nat
      BY ConfigTypes
    <3>. QED BY <1>6, <3>1
  <2>. QED BY <1>1, <2>3, <2>4, <2>5 DEF Keeps
<1>. QED BY <1>5, <1>6


\* Whatever of the file is read is a part of what was written.
LEMMA PartReadsBack ==
    ASSUME NEW c \in Configs, NEW read, ValueBegins(read, Save(c))
    PROVE  FromValue(read) \in Configs /\ IsPart(FromValue(read), c)
<1>. DEFINE m == Save(c)[2]
            w == IF read[1] = "object" THEN read[2] ELSE <<>>
            endpoints == Get(w, "endpoints", "array", <<>>)
            applications == Get(w, "applications", "array", <<>>)
<1>1. Save(c) = Object(m) /\ m = Save(c)[2] /\ FromValue(read) = Load(w)
  BY DEF Save, Members, Object, FromValue
<1>2. /\ DOMAIN w \subseteq DOMAIN m
      /\ \A key \in DOMAIN w, earlier \in DOMAIN m : Before(earlier, key) =>
             earlier \in DOMAIN w /\ w[earlier] = m[earlier]
      /\ \A key \in DOMAIN w : IF m[key][1] = "array" THEN ArrayBegins(w[key], m[key])
                                ELSE AtomBegins(w[key], m[key])
  <2>1. CASE read = Null
    <3>1. w = <<>>
      BY <2>1 DEF Null
    <3>2. DOMAIN w = {}
      BY <3>1
    <3>. QED BY <3>2
  <2>2. CASE read # Null
    <3>1. w = read[2]
      BY <2>2 DEF ValueBegins, ObjectBegins
    <3>. QED BY <2>2, <3>1 DEF ValueBegins, ObjectBegins
  <2>. QED BY <2>1, <2>2
<1>. HIDE DEF m, w
<1>3. /\ DOMAIN m \subseteq {"driverClsid", "enableApplicationRouting", "waveRtMinimumFrames",
                             "endpoints", "applications"}
      /\ m["driverClsid"] = Text(c.driverClsid)
      /\ m["enableApplicationRouting"] = Bool(c.enableApplicationRouting)
      /\ "waveRtMinimumFrames" \in DOMAIN m =>
            m["waveRtMinimumFrames"] = Number(c.waveRtMinimumFrames)
  BY <1>1, ConfigMembers
<1>4. Get(w, "driverClsid", "string", "") \in Range(Interfaces) \cup {"", Cut}
  <2>1. c.driverClsid \in Range(Interfaces) \cup {"", Cut}
    BY ConfigTypes
  <2>2. CASE Has(w, "driverClsid", "string")
    <3>1. "driverClsid" \in DOMAIN w
      BY <2>2 DEF Has
    <3>2. AtomBegins(w["driverClsid"], Text(c.driverClsid))
      BY <1>2, <1>3, <3>1 DEF Text
    <3>3. w["driverClsid"] \in {Null, Text(c.driverClsid), Text(Cut)}
      BY <3>2 DEF AtomBegins, Text
    <3>4. w["driverClsid"][2] \in {c.driverClsid, Cut}
      BY <2>2, <3>3 DEF Has, Null, Text
    <3>. QED BY <2>1, <2>2, <3>4 DEF Get
  <2>3. CASE ~Has(w, "driverClsid", "string")
    BY <2>3 DEF Get
  <2>. QED BY <2>2, <2>3
<1>5. Get(w, "waveRtMinimumFrames", "number", 0) \in Nat
  <2>1. CASE Has(w, "waveRtMinimumFrames", "number")
    <3>1. "waveRtMinimumFrames" \in DOMAIN w /\ w["waveRtMinimumFrames"][1] = "number"
      BY <2>1 DEF Has
    <3>2. AtomBegins(w["waveRtMinimumFrames"], Number(c.waveRtMinimumFrames))
      BY <1>2, <1>3, <3>1 DEF Number
    <3>3. w["waveRtMinimumFrames"][2] \in Nat
      BY <3>1, <3>2 DEF AtomBegins, Number, Null
    <3>. QED BY <2>1, <3>3 DEF Get
  <2>2. CASE ~Has(w, "waveRtMinimumFrames", "number")
    BY <2>2 DEF Get
  <2>. QED BY <2>1, <2>2
<1>6. Get(w, "enableApplicationRouting", "boolean", FALSE) \in BOOLEAN
  <2>1. CASE Has(w, "enableApplicationRouting", "boolean")
    <3>1. /\ "enableApplicationRouting" \in DOMAIN w
          /\ w["enableApplicationRouting"][1] = "boolean"
      BY <2>1 DEF Has
    <3>2. AtomBegins(w["enableApplicationRouting"], Bool(c.enableApplicationRouting))
      BY <1>2, <1>3, <3>1 DEF Bool
    <3>3. /\ w["enableApplicationRouting"] \in {Null, Bool(c.enableApplicationRouting)}
          /\ Null[1] = "null" /\ Bool(c.enableApplicationRouting)[2] = c.enableApplicationRouting
      BY <3>2 DEF AtomBegins, Bool, Null
    <3>4. w["enableApplicationRouting"][2] = c.enableApplicationRouting
      BY <3>1, <3>3
    <3>5. c.enableApplicationRouting \in BOOLEAN
      BY ConfigTypes
    <3>. QED BY <2>1, <3>4, <3>5 DEF Get
  <2>2. CASE ~Has(w, "enableApplicationRouting", "boolean")
    BY <2>2 DEF Get
  <2>. QED BY <2>1, <2>2
<1>7. /\ LoadEndpoints(w) \in Seq(Endpoints) /\ Len(LoadEndpoints(w)) <= Len(c.endpoints)
      /\ \A e \in DOMAIN LoadEndpoints(w) :
            \/ LoadEndpoints(w)[e] = c.endpoints[e]
            \/ /\ e = Len(LoadEndpoints(w))
               /\ LoadEndpoints(w)[e] = [c.endpoints[e] EXCEPT !.type = "Playback"]
  <2>. DEFINE s == c.endpoints
              whole == [i \in DOMAIN s |-> SaveEndpoint(s[i])]
  <2>1. s \in Seq(Endpoints)
    BY ConfigTypes
  <2>2. /\ endpoints \in Seq(Range(endpoints)) /\ Len(endpoints) <= Len(s)
        /\ \A i \in DOMAIN endpoints :
              \/ endpoints[i] = SaveEndpoint(s[i])
              \/ i = Len(endpoints) /\ ItemBegins(endpoints[i], SaveEndpoint(s[i]))
    <3>1. CASE Has(w, "endpoints", "array")
      <4>1. "endpoints" \in DOMAIN w /\ w["endpoints"][1] = "array" /\ endpoints = w["endpoints"][2]
        BY <3>1 DEF Has, Get
      <4>2. m["endpoints"] = Array(whole)
        BY <1>1, <1>2, <4>1, ConfigMembers
      <4>3. ArrayBegins(w["endpoints"], Array(whole))
        BY <1>2, <4>1, <4>2 DEF Array
      <4>4. whole \in Seq(Range(whole)) /\ Len(whole) = Len(s)
        BY <2>1 DEF Range
      <4>5. \A i \in 1..Len(s) : whole[i] = SaveEndpoint(s[i])
        BY <2>1
      <4>. HIDE DEF s, whole, endpoints
      <4>6. /\ endpoints \in Seq(Range(endpoints)) /\ Len(endpoints) <= Len(whole)
            /\ \A i \in DOMAIN endpoints :
                  \/ endpoints[i] = whole[i]
                  \/ i = Len(endpoints) /\ ItemBegins(endpoints[i], whole[i])
        BY <4>1, <4>3 DEF ArrayBegins, Array, Null
      <4>7. DOMAIN endpoints \subseteq 1..Len(s)
        BY <2>1, <4>4, <4>6
      <4>. QED BY <4>4, <4>5, <4>6, <4>7
    <3>2. CASE ~Has(w, "endpoints", "array")
      <4>1. endpoints = <<>>
        BY <3>2 DEF Get
      <4>. HIDE DEF endpoints
      <4>. QED BY <2>1, <4>1
    <3>. QED BY <3>1, <3>2
  <2>. QED BY <2>1, <2>2, EndpointsOfPart
<1>8. /\ LoadApplications(w) \in Seq(Applications)
      /\ Len(LoadApplications(w)) <= Len(c.applications)
      /\ \A a \in DOMAIN LoadApplications(w) :
            LoadApplications(w)[a].defaults = c.applications[a].defaults
  <2>. DEFINE s == c.applications
              whole == [i \in DOMAIN s |-> SaveApplication(s[i])]
  <2>1. s \in Seq(Applications)
    BY ConfigTypes
  <2>2. /\ applications \in Seq(Range(applications)) /\ Len(applications) <= Len(s)
        /\ \A i \in DOMAIN applications :
              \/ applications[i] = SaveApplication(s[i])
              \/ i = Len(applications) /\ ItemBegins(applications[i], SaveApplication(s[i]))
    <3>1. CASE Has(w, "applications", "array")
      <4>1. /\ "applications" \in DOMAIN w /\ w["applications"][1] = "array"
            /\ applications = w["applications"][2]
        BY <3>1 DEF Has, Get
      <4>2. m["applications"] = Array(whole)
        BY <1>1, <1>2, <4>1, ConfigMembers
      <4>3. ArrayBegins(w["applications"], Array(whole))
        BY <1>2, <4>1, <4>2 DEF Array
      <4>4. whole \in Seq(Range(whole)) /\ Len(whole) = Len(s)
        BY <2>1 DEF Range
      <4>5. \A i \in 1..Len(s) : whole[i] = SaveApplication(s[i])
        BY <2>1
      <4>. HIDE DEF s, whole, applications
      <4>6. /\ applications \in Seq(Range(applications)) /\ Len(applications) <= Len(whole)
            /\ \A i \in DOMAIN applications :
                  \/ applications[i] = whole[i]
                  \/ i = Len(applications) /\ ItemBegins(applications[i], whole[i])
        BY <4>1, <4>3 DEF ArrayBegins, Array, Null
      <4>7. DOMAIN applications \subseteq 1..Len(s)
        BY <2>1, <4>4, <4>6
      <4>. QED BY <4>4, <4>5, <4>6, <4>7
    <3>2. CASE ~Has(w, "applications", "array")
      <4>1. applications = <<>>
        BY <3>2 DEF Get
      <4>. HIDE DEF applications
      <4>. QED BY <2>1, <4>1
    <3>. QED BY <3>1, <3>2
  <2>. QED BY <2>1, <2>2, ApplicationsOfPart
\* The applications come before the member that enables their routing.
<1>9. Get(w, "enableApplicationRouting", "boolean", FALSE) =>
          LoadApplications(w) = c.applications
  <2>1. SUFFICES ASSUME "enableApplicationRouting" \in DOMAIN w
                 PROVE  LoadApplications(w) = c.applications
    BY DEF Get, Has
  <2>2. "applications" \in DOMAIN m =>
            "applications" \in DOMAIN w /\ w["applications"] = m["applications"]
    BY <1>2, <2>1, KeyOrder
  <2>3. applications = Get(m, "applications", "array", <<>>)
    BY <1>2, <2>2 DEF Get, Has
  <2>4. applications = [i \in DOMAIN c.applications |-> SaveApplication(c.applications[i])]
    BY <1>1, <2>3, ArraysReadBack
  <2>5. c.applications \in Seq(Applications)
    BY ConfigTypes
  <2>. QED BY <2>4, <2>5, ApplicationsReadBack
<1>10. Load(w) \in Configs
  <2>1. PICK clsid \in Range(Interfaces) \cup {"", Cut} :
               clsid = Get(w, "driverClsid", "string", "")
    BY <1>4
  <2>2. PICK frames \in Nat : frames = Get(w, "waveRtMinimumFrames", "number", 0)
    BY <1>5
  <2>3. PICK routing \in BOOLEAN :
               routing = Get(w, "enableApplicationRouting", "boolean", FALSE)
    BY <1>6
  <2>4. PICK e \in Seq(Endpoints) : e = LoadEndpoints(w)
    BY <1>7
  <2>5. PICK a \in Seq(Applications) : a = LoadApplications(w)
    BY <1>8
  <2>6. Load(w) = [driverClsid |-> clsid, endpoints |-> e, applications |-> a,
                   waveRtMinimumFrames |-> frames, enableApplicationRouting |-> routing]
    BY <2>1, <2>2, <2>3, <2>4, <2>5 DEF Load
  <2>7. [driverClsid |-> clsid, endpoints |-> e, applications |-> a,
         waveRtMinimumFrames |-> frames, enableApplicationRouting |-> routing] \in Configs
    BY DEF Configs
  <2>. QED BY <2>6, <2>7
<1>11. IsPart(Load(w), c)
  BY <1>7, <1>8, <1>9, LoadedParts DEF IsPart
<1>. QED BY <1>1, <1>10, <1>11

\* What is promised of the file: a configuration is written as some tokens, all
\* of them give it back, and a beginning of them gives a part of it.
ReadsBack(c) ==
    LET tokens == ToFile(c)
    IN /\ tokens \in Seq(Range(tokens)) \ {<<>>}
       /\ Keeps(Read(tokens, Len(tokens)), c)
       /\ \A n \in 0..Len(tokens) - 1 :
             Read(tokens, n) \in Configs /\ IsPart(Read(tokens, n), c)
FileReadsBack == \A c \in Configs : ReadsBack(c)

\* With a library that keeps its promise the file keeps it.
LEMMA FileOfText ==
    ASSUME TextReadsBack
    PROVE  FileReadsBack
<1>. SUFFICES ASSUME NEW c \in Configs PROVE ReadsBack(c)
  BY DEF FileReadsBack
<1>. DEFINE text == ToText(Save(c))
<1>1. /\ text \in Seq(Range(text)) \ {<<>>} /\ FromText(text) = Save(c)
      /\ \A n \in 0..Len(text) - 1 : ValueBegins(FromText(SubSeq(text, 1, n)), Save(c))
  BY DEF TextReadsBack, KeptByText
<1>2. ToFile(c) = text
  BY DEF ToFile
<1>. HIDE DEF text
<1>3. SubSeq(text, 1, Len(text)) = text
  BY <1>1, SubSeqFull
<1>4. Keeps(Read(text, Len(text)), c)
  BY <1>1, <1>3, ConfigReadsBack DEF Read
<1>5. ASSUME NEW n \in 0..Len(text) - 1
      PROVE  Read(text, n) \in Configs /\ IsPart(Read(text, n), c)
  BY <1>1, PartReadsBack DEF Read
<1>. QED BY <1>1, <1>2, <1>4, <1>5 DEF ReadsBack

-----------------------------------------------------------------------------
(* The edits                                                               *)

LEMMA EndpointEdits ==
    ASSUME WellFormed(dialog), EditEndpoints
    PROVE  WellFormed(dialog')
<1>. DEFINE s == dialog.endpoints
<1>1. dialog \in Configs /\ s \in Seq(Endpoints) /\ IdsUnique(s)
  BY ConfigTypes DEF WellFormed
<1>2. ASSUME NEW index \in 0..Len(Interfaces), OnHardwareInterfaceChanged(index)
      PROVE  WellFormed(dialog')
  <2>. DEFINE clsid == IF index \in DOMAIN Interfaces THEN Interfaces[index] ELSE ""
  <2>1. clsid \in Range(Interfaces) \cup {""}
    BY DEF Range
  <2>2. dialog' = [dialog EXCEPT !.driverClsid = clsid]
    BY <1>2 DEF OnHardwareInterfaceChanged
  <2>. HIDE DEF clsid
  <2>. QED BY <2>1, <2>2, WithDriver
<1>3. ASSUME NEW type \in {"Playback", "Recording"}, NEW channels \in ChannelCounts,
             OnAddEndpoint(type, channels)
      PROVE  WellFormed(dialog')
  <2>. DEFINE e == NewEndpoint(type, channels)
  <2>1. Len(s) < MaxEndpoints /\ dialog' = [dialog EXCEPT !.endpoints = Append(s, e)]
    BY <1>3 DEF OnAddEndpoint
  <2>2. NextId(s) \in Ids /\ FindEndpoint(s, NextId(s)) = {}
    BY <1>1, <2>1, NextIdIsFree
  <2>3. Max({1, channels}) \in Nat
    <3>1. channels \in Nat
      BY ConfigurationAssumption
    <3>2. \E x \in {1, channels} : \A y \in {1, channels} : x >= y
      BY <3>1
    <3>3. Max({1, channels}) \in {1, channels}
      BY <3>2 DEF Max
    <3>. QED BY <3>1, <3>3
  <2>4. e = [id |-> NextId(s), description |-> "description", type |-> type,
             channelCount |-> Max({1, channels}), attachPhysical |-> FALSE,
             physicalChannelBase |-> 0]
    BY DEF NewEndpoint
  <2>5. e \in Endpoints /\ e.id = NextId(s)
    BY <2>2, <2>3, <2>4 DEF Endpoints
  <2>. HIDE DEF e
  <2>6. Append(s, e) \in Seq(Endpoints) /\ IdsUnique(Append(s, e))
    BY <1>1, <2>2, <2>5, IdsUniqueAdded
  <2>. QED BY <2>1, <2>6, WithEndpoints
<1>4. ASSUME NEW e \in EndpointRows, OnRemoveEndpoint(e)
      PROVE  WellFormed(dialog')
  <2>1. e \in DOMAIN s /\ dialog' = [dialog EXCEPT !.endpoints = RemoveAt(s, e)]
    BY <1>4 DEF EndpointRows, OnRemoveEndpoint
  <2>2. RemoveAt(s, e) \in Seq(Endpoints) /\ IdsUnique(RemoveAt(s, e))
    BY <1>1, <2>1, RemovedItem, IdsUniqueRemoved
  <2>. QED BY <2>1, <2>2, WithEndpoints
<1>. QED BY <1>2, <1>3, <1>4 DEF EditEndpoints

LEMMA DialogApplication ==
    ASSUME WellFormed(dialog), NEW a, NEW path \in AllPaths, NEW regex \in BOOLEAN,
           NEW slot \in Slots, NEW index \in DropdownIndices(dialog.endpoints, slot)
    PROVE  /\ ApplicationDialog(a, path, regex, slot, index) \in Applications
           /\ OneDefault(ApplicationDialog(a, path, regex, slot, index))
<1>. DEFINE s == dialog.endpoints
            before == [t \in Slots |-> Selected(s, a, t)]
            after == [before EXCEPT ![slot] = index]
<1>1. s \in Seq(Endpoints)
  BY ConfigTypes DEF WellFormed
<1>2. \A t \in Slots : after[t] = IF t = slot THEN index ELSE Selected(s, a, t)
  OBVIOUS
<1>3. ApplicationDialog(a, path, regex, slot, index) = FromDropdowns(s, path, regex, after)
  BY DEF ApplicationDialog
<1>. HIDE DEF after
<1>4. StandOnRows(s, after)
  BY <1>1, <1>2, SelectedStands DEF StandOnRows
<1>. QED BY <1>1, <1>3, <1>4, StoredApplication DEF OneDefault

LEMMA ApplicationEdits ==
    ASSUME WellFormed(dialog), EditApplications
    PROVE  WellFormed(dialog')
<1>. DEFINE s == dialog.applications
<1>1. dialog \in Configs /\ s \in Seq(Applications) /\ OneDefaultForASlot(s)
      /\ dialog.enableApplicationRouting \in BOOLEAN
  BY ConfigTypes DEF WellFormed
<1>2. ASSUME NEW a, a.path \in AllPaths, NEW path \in PathsOf(a) PROVE path \in AllPaths
  BY <1>2 DEF PathsOf, AllPaths
<1>3. CASE EnableRouting
  <2>. DEFINE enabled == ~dialog.enableApplicationRouting
  <2>1. enabled \in BOOLEAN /\ dialog' = [dialog EXCEPT !.enableApplicationRouting = enabled]
    BY <1>3 DEF EnableRouting
  <2>. HIDE DEF enabled
  <2>. QED BY <2>1, WithRouting
<1>4. ASSUME NEW path \in AnyPath, NEW regex \in BOOLEAN, NEW slot \in Slots,
             NEW index \in DropdownIndices(dialog.endpoints, slot),
             OnAddApplication(path, regex, slot, index)
      PROVE  WellFormed(dialog')
  <2>. DEFINE a == ApplicationDialog(NewApplication, path, regex, slot, index)
  <2>1. path \in PathsOf(NewApplication) /\ dialog' = [dialog EXCEPT !.applications = Append(s, a)]
    BY <1>4 DEF OnAddApplication
  <2>2. NewApplication.path \in AllPaths
    BY DEF NewApplication, AllPaths
  <2>3. path \in AllPaths
    BY <1>2, <2>1, <2>2
  <2>4. a \in Applications /\ OneDefault(a)
    BY <2>3, DialogApplication
  <2>. HIDE DEF a
  <2>5. Append(s, a) \in Seq(Applications) /\ OneDefaultForASlot(Append(s, a))
    BY <1>1, <2>4, OneDefaultAdded
  <2>. QED BY <2>1, <2>5, WithApplications
<1>5. ASSUME NEW path \in AnyPath, NEW regex \in BOOLEAN, NEW slot \in Slots,
             NEW index \in DropdownIndices(dialog.endpoints, slot), NEW n \in ApplicationRows,
             OnOpenApplication(n, path, regex, slot, index)
      PROVE  WellFormed(dialog')
  <2>. DEFINE a == ApplicationDialog(s[n], path, regex, slot, index)
              t == [s EXCEPT ![n] = a]
  <2>1. n \in DOMAIN s
    BY DEF ApplicationRows
  <2>2. path \in PathsOf(s[n]) /\ dialog' = [dialog EXCEPT !.applications[n] = a]
    BY <1>5 DEF OnOpenApplication
  <2>3. [dialog EXCEPT !.applications[n] = a] = [dialog EXCEPT !.applications = t]
    OBVIOUS
  <2>4. s[n].path \in AllPaths
    <3>1. s[n] \in Applications
      BY <1>1, <2>1
    <3>. QED BY <3>1 DEF Applications, AllPaths
  <2>5. path \in AllPaths
    BY <1>2, <2>2, <2>4
  <2>6. a \in Applications /\ OneDefault(a)
    BY <2>5, DialogApplication
  <2>. HIDE DEF a
  <2>7. t \in Seq(Applications) /\ OneDefaultForASlot(t)
    <3>1. t \in Seq(Applications)
      BY <1>1, <2>1, <2>6, ExceptSeq
    <3>. QED BY <1>1, <2>1, <2>6, <3>1, OneDefaultReplaced
  <2>. HIDE DEF t
  <2>. QED BY <2>2, <2>3, <2>7, WithApplications
<1>6. ASSUME NEW n \in ApplicationRows, OnRemoveApplication(n)
      PROVE  WellFormed(dialog')
  <2>1. n \in DOMAIN s /\ dialog' = [dialog EXCEPT !.applications = RemoveAt(s, n)]
    BY <1>6 DEF ApplicationRows, OnRemoveApplication
  <2>2. RemoveAt(s, n) \in Seq(Applications) /\ OneDefaultForASlot(RemoveAt(s, n))
    BY <1>1, <2>1, RemovedItem, OneDefaultRemoved
  <2>. QED BY <2>1, <2>2, WithApplications
<1>. QED BY <1>3, <1>4, <1>5, <1>6 DEF EditApplications

-----------------------------------------------------------------------------
(* The steps                                                               *)

\* What is read of the file is what the host saved, or a part of it.
LEMMA WellFormedIsRead ==
    ASSUME FileReadsBack, IInv
    PROVE  ReadIsWellFormed
<1>1. WellFormed(saved) /\ saved \in Configs
  BY DEF IInv, WellFormed
<1>2. written \in 0..Len(file) /\ Len(file) \in Nat
  BY DEF IInv, FileInv
<1>3. CASE written = Len(file)
  <2>1. Keeps(Read(file, written), saved)
    BY <1>3 DEF IInv, SavedConfigKept
  <2>. QED BY <1>1, <2>1, KeptWellFormed DEF ReadIsWellFormed
<1>4. CASE written # Len(file)
  <2>1. written < Len(file) /\ file = ToFile(saved)
    BY <1>2, <1>4 DEF IInv, FileInv
  <2>2. ReadsBack(saved)
    BY <1>1 DEF FileReadsBack
  <2>3. Read(file, written) \in Configs /\ IsPart(Read(file, written), saved)
    BY <1>2, <2>1, <2>2 DEF ReadsBack
  <2>. QED BY <1>1, <2>3, PartWellFormed DEF ReadIsWellFormed
<1>. QED BY <1>3, <1>4

\* A configuration that was just given to the stream.
LEMMA GivenToStream ==
    ASSUME FileReadsBack, NEW c, WellFormed(c)
    PROVE  /\ ToFile(c) \in Seq(Range(ToFile(c))) /\ Len(ToFile(c)) \in Nat \ {0}
           /\ Keeps(Read(ToFile(c), Len(ToFile(c))), c)
<1>1. ReadsBack(c)
  BY DEF FileReadsBack, WellFormed
<1>2. /\ ToFile(c) \in Seq(Range(ToFile(c))) /\ ToFile(c) # <<>>
      /\ Keeps(Read(ToFile(c), Len(ToFile(c))), c)
  BY <1>1 DEF ReadsBack
<1>. QED BY <1>2, EmptySeq

LEMMA InitIInv ==
    ASSUME FileReadsBack, Init
    PROVE  IInv
<1>1. PICK frames \in MinimumFrames : config = FirstConfig(frames)
  BY DEF Init
<1>2. frames \in Nat
  BY ConfigurationAssumption
<1>3. WellFormed(config)
  BY <1>1, <1>2, FirstConfigWellFormed
<1>4. /\ dialog = NoConfig /\ edits = 0 /\ pc = "idle"
      /\ file = ToFile(config) /\ written = Len(file) /\ saved = config
  BY DEF Init
<1>5. /\ file \in Seq(Range(file)) /\ Len(file) \in Nat
      /\ Keeps(Read(file, written), saved)
  BY <1>3, <1>4, GivenToStream
<1>6. FileInv /\ SavedConfigKept
  BY <1>4, <1>5 DEF FileInv, SavedConfigKept
<1>. QED BY <1>3, <1>4, <1>6, NoConfigWellFormed, ConfigurationAssumption DEF IInv

\* A step that leaves the file and what it is to hold alone.
LEMMA FileStays ==
    ASSUME IInv, UNCHANGED <<file, written, saved>>,
           pc' \in {"idle", "dialog", "write", "down"},
           pc' = "write" => pc = "write",
           pc \in {"write", "down"} => pc' \in {"write", "down"}
    PROVE  FileInv' /\ SavedConfigKept' /\ WellFormed(saved)'
<1>1. file' = file /\ written' = written /\ saved' = saved
  OBVIOUS
<1>2. FileInv'
  BY <1>1 DEF IInv, FileInv
<1>3. SavedConfigKept'
  BY <1>1 DEF IInv, SavedConfigKept
<1>4. WellFormed(saved)'
  BY <1>1 DEF IInv
<1>. QED BY <1>2, <1>3, <1>4

LEMMA DialogKeeps ==
    ASSUME IInv, OpenDialog \/ Edit \/ Cancel
    PROVE  IInv'
<1>1. /\ WellFormed(config) /\ WellFormed(dialog)
      /\ edits \in 0..MaxEdits /\ MaxEdits \in Nat
  BY ConfigurationAssumption DEF IInv
<1>2. CASE OpenDialog
  <2>1. /\ pc' = "dialog" /\ pc = "idle" /\ edits' = 0 /\ dialog' = config /\ config' = config
        /\ UNCHANGED <<file, written, saved>>
    BY <1>2 DEF OpenDialog
  <2>2. WellFormed(config') /\ WellFormed(dialog')
    BY <1>1, <2>1
  <2>. QED BY <1>1, <2>1, <2>2, FileStays DEF IInv
<1>3. CASE Edit
  <2>1. /\ pc' = pc /\ pc = "dialog" /\ edits < MaxEdits /\ edits' = edits + 1
        /\ config' = config /\ UNCHANGED <<file, written, saved>>
        /\ EditEndpoints \/ EditApplications
    BY <1>3 DEF Edit
  <2>2. WellFormed(config') /\ WellFormed(dialog')
    BY <1>1, <2>1, EndpointEdits, ApplicationEdits
  <2>3. edits' \in 0..MaxEdits
    BY <1>1, <2>1
  <2>. QED BY <2>1, <2>2, <2>3, FileStays DEF IInv
<1>4. CASE Cancel
  <2>1. /\ pc' = "idle" /\ pc = "dialog" /\ edits' = 0 /\ dialog' = NoConfig
        /\ config' = config /\ UNCHANGED <<file, written, saved>>
    BY <1>4 DEF Cancel
  <2>2. WellFormed(config') /\ WellFormed(dialog')
    BY <1>1, <2>1, NoConfigWellFormed
  <2>. QED BY <1>1, <2>1, <2>2, FileStays DEF IInv
<1>. QED BY <1>2, <1>3, <1>4

LEMMA OKKeeps ==
    ASSUME FileReadsBack, IInv, OK
    PROVE  IInv'
<1>1. /\ config' = dialog /\ saved' = dialog /\ file' = ToFile(dialog) /\ written' = 0
      /\ dialog' = NoConfig /\ edits' = 0 /\ pc' = "write"
  BY DEF OK
<1>2. WellFormed(dialog)
  BY DEF IInv
<1>3. WellFormed(config') /\ WellFormed(dialog') /\ WellFormed(saved')
  BY <1>1, <1>2, NoConfigWellFormed
<1>4. ToFile(dialog) \in Seq(Range(ToFile(dialog))) /\ Len(ToFile(dialog)) \in Nat \ {0}
  BY <1>2, GivenToStream
<1>5. /\ file' \in Seq(Range(file')) /\ Len(file') \in Nat \ {0} /\ file' = ToFile(saved')
  BY <1>1, <1>4
<1>6. FileInv' /\ SavedConfigKept'
  BY <1>1, <1>5 DEF FileInv, SavedConfigKept
<1>. QED BY <1>1, <1>3, <1>6, ConfigurationAssumption DEF IInv

LEMMA WriteKeeps ==
    ASSUME FileReadsBack, IInv, Write
    PROVE  IInv'
<1>1. /\ pc = "write" /\ written' = written + 1
      /\ pc' = IF written' = Len(file) THEN "idle" ELSE "write"
      /\ config' = config /\ dialog' = dialog /\ edits' = edits
      /\ file' = file /\ saved' = saved
  BY DEF Write
<1>2. /\ WellFormed(config) /\ WellFormed(dialog) /\ WellFormed(saved)
      /\ edits \in 0..MaxEdits /\ file \in Seq(Range(file)) /\ Len(file) \in Nat
      /\ written \in 0..Len(file) /\ written < Len(file) /\ file = ToFile(saved)
  BY <1>1 DEF IInv, FileInv
<1>3. WellFormed(config') /\ WellFormed(dialog') /\ WellFormed(saved')
  BY <1>1, <1>2
<1>4. FileInv'
  <2>1. /\ file' \in Seq(Range(file')) /\ written' \in 0..Len(file') /\ file' = ToFile(saved')
        /\ pc' = "write" => written' < Len(file')
        /\ written' < Len(file') => pc' = "write"
    BY <1>1, <1>2
  <2>. QED BY <2>1 DEF FileInv
<1>5. SavedConfigKept'
  <2>1. Keeps(Read(file, Len(file)), saved)
    BY <1>2, GivenToStream
  <2>2. written' = Len(file') => Keeps(Read(file', written'), saved')
    BY <1>1, <2>1
  <2>. QED BY <2>2 DEF SavedConfigKept
<1>6. edits' \in 0..MaxEdits /\ pc' \in {"idle", "dialog", "write", "down"}
  BY <1>1, <1>2
<1>. QED BY <1>3, <1>4, <1>5, <1>6 DEF IInv

LEMMA DieKeeps ==
    ASSUME IInv, Die
    PROVE  IInv'
<1>1. /\ config' = NoConfig /\ dialog' = NoConfig /\ edits' = 0 /\ pc' = "down"
      /\ UNCHANGED <<file, written, saved>>
  BY DEF Die
<1>2. WellFormed(config') /\ WellFormed(dialog')
  BY <1>1, NoConfigWellFormed
<1>. QED BY <1>1, <1>2, FileStays, ConfigurationAssumption DEF IInv

\* A host that starts takes what is there for the whole.
LEMMA NewWrapperKeeps ==
    ASSUME FileReadsBack, IInv, NewWrapper
    PROVE  IInv'
<1>. DEFINE read == Read(file, written)
            tokens == SubSeq(file, 1, written)
<1>1. /\ config' \in Initialized(read) /\ pc' = "idle" /\ saved' = read /\ file' = tokens
      /\ dialog' = dialog /\ edits' = edits /\ written' = written
  BY DEF NewWrapper
<1>2. /\ WellFormed(dialog) /\ edits \in 0..MaxEdits /\ file \in Seq(Range(file))
      /\ Len(file) \in Nat /\ written \in 0..Len(file)
  BY DEF IInv, FileInv
<1>3. WellFormed(read)
  BY WellFormedIsRead DEF ReadIsWellFormed
<1>4. \A c \in Initialized(read) : WellFormed(c)
  <2>1. WellFormed([read EXCEPT !.driverClsid = ""])
    BY <1>3, WithDriver
  <2>2. \A c \in Initialized(read) : c = read \/ c = [read EXCEPT !.driverClsid = ""]
    BY DEF Initialized
  <2>. HIDE DEF read
  <2>. QED BY <1>3, <2>1, <2>2
<1>5. tokens \in Seq(Range(tokens)) /\ Len(tokens) = written
  <2>1. \A i \in 1..written : file[i] \in Range(file)
    BY <1>2
  <2>2. /\ tokens \in Seq(Range(file))
        /\ Len(tokens) = IF 1 <= written THEN written - 1 + 1 ELSE 0
    BY <1>2, <2>1, SubSeqProperties
  <2>3. Len(tokens) = written
    BY <1>2, <2>2
  <2>. HIDE DEF tokens
  <2>4. tokens \in [1..written -> Range(tokens)]
    BY <1>2, <2>2, <2>3 DEF Range
  <2>5. tokens \in Seq(Range(tokens))
    BY <1>2, <2>4, SeqDef
  <2>. QED BY <2>3, <2>5
<1>6. Read(tokens, written) = read
  <2>1. SubSeq(tokens, 1, Len(tokens)) = tokens
    <3>. HIDE DEF tokens
    <3>. QED BY <1>5, SubSeqFull
  <2>. QED BY <1>5, <2>1 DEF Read
<1>. HIDE DEF read, tokens
<1>7. WellFormed(config') /\ WellFormed(dialog') /\ WellFormed(saved')
  BY <1>1, <1>2, <1>3, <1>4
<1>8. file' \in Seq(Range(file')) /\ written' \in 0..Len(file') /\ ~(written' < Len(file'))
  BY <1>1, <1>2, <1>5
<1>9. FileInv'
  BY <1>1, <1>8 DEF FileInv
<1>10. SavedConfigKept'
  <2>1. Read(file', written') = saved'
    BY <1>1, <1>6
  <2>2. Keeps(Read(file', written'), saved')
    BY <2>1 DEF Keeps
  <2>. QED BY <2>2 DEF SavedConfigKept
<1>. QED BY <1>1, <1>2, <1>7, <1>9, <1>10 DEF IInv

LEMMA NextKeepsIInv ==
    ASSUME FileReadsBack, IInv, [Next]_vars
    PROVE  IInv'
<1>1. CASE UNCHANGED vars
  BY <1>1 DEF vars, IInv, FileInv, SavedConfigKept
<1>2. CASE Next
  BY <1>2, DialogKeeps, OKKeeps, WriteKeeps, DieKeeps, NewWrapperKeeps DEF Next
<1>. QED BY <1>1, <1>2

-----------------------------------------------------------------------------
(* The theorems                                                            *)

\* With a JSON library that keeps its promise, and any drivers, slots and bounds: the
\* configurations the host, its dialog and the file have are well formed, and
\* the file has a beginning of one that was saved, or all that was read of it.
THEOREM ConfigurationInvariant == TextReadsBack => (Spec => []IInv)
<1>. SUFFICES ASSUME TextReadsBack PROVE Spec => []IInv
  OBVIOUS
<1>1. FileReadsBack
  BY FileOfText
<1>2. Init => IInv
  BY <1>1, InitIInv
<1>3. IInv /\ [Next]_vars => IInv'
  BY <1>1, NextKeepsIInv
<1>. QED BY <1>2, <1>3, PTL DEF Spec

\* What a host reads of any beginning of the file has the type of a
\* configuration, and keeps it through any dialogs.
THEOREM Typed == TextReadsBack => (Spec => []TypeOK)
<1>. SUFFICES ASSUME TextReadsBack PROVE Spec => []TypeOK
  OBVIOUS
<1>1. IInv => TypeOK
  BY DEF IInv, FileInv, WellFormed, TypeOK
<1>. QED BY <1>1, ConfigurationInvariant, PTL

\* With any number of endpoints, added and removed in any order by hosts that
\* die and start: no two have one id.
THEOREM IdsStayUnique == TextReadsBack => (Spec => []EndpointIdsUnique)
<1>. SUFFICES ASSUME TextReadsBack PROVE Spec => []EndpointIdsUnique
  OBVIOUS
<1>1. IInv => EndpointIdsUnique
  BY DEF IInv, WellFormed, EndpointIdsUnique
<1>. QED BY <1>1, ConfigurationInvariant, PTL

\* With any endpoints and slots: a dropdown stores the endpoint its row shows,
\* and a dialog opened and closed again leads every slot where it led.
THEOREM DialogStoresWhatItShows == TextReadsBack => (Spec => []DialogShowsWhatItStores)
<1>. SUFFICES ASSUME TextReadsBack PROVE Spec => []DialogShowsWhatItStores
  OBVIOUS
<1>1. ASSUME IInv PROVE DialogShowsWhatItStores
  <2>. DEFINE s == dialog.endpoints
  <2>1. /\ s \in Seq(Endpoints) /\ IdsUnique(s) /\ dialog.applications \in Seq(Applications)
        /\ OneDefaultForASlot(dialog.applications)
    BY <1>1, ConfigTypes DEF IInv, WellFormed
  <2>2. ASSUME NEW a \in Range(dialog.applications)
        PROVE  /\ a \in Applications
               /\ \A d, e \in a.defaults : d.type = e.type /\ d.role = e.role => d = e
    BY <2>1 DEF Range, OneDefaultForASlot
  <2>3. ASSUME NEW slot \in Slots
        PROVE  /\ StoresWhatIsShown(s, slot)
               /\ \A a \in Range(dialog.applications) : KeepsWhatItStored(s, a, slot)
    BY <2>1, <2>2, WhatIsShownIsStored, ReopenedKeeps
  <2>. QED BY <2>3 DEF DialogShowsWhatItStores
<1>. QED BY <1>1, ConfigurationInvariant, PTL

\* Through hosts that die while they write and read what is left: a file that
\* is whole gives what the dialog returned last, or a host found of it.
THEOREM SavedStays == TextReadsBack => (Spec => []SavedConfigKept)
<1>. SUFFICES ASSUME TextReadsBack PROVE Spec => []SavedConfigKept
  OBVIOUS
<1>1. IInv => SavedConfigKept
  BY DEF IInv
<1>. QED BY <1>1, ConfigurationInvariant, PTL

\* Whoever reads the file, while it is written too or after a host died over
\* it, gets endpoints of distinct ids and one default for a slot at most.
THEOREM ReadersAreServed == TextReadsBack => (Spec => []ReadIsWellFormed)
<1>. SUFFICES ASSUME TextReadsBack PROVE Spec => []ReadIsWellFormed
  OBVIOUS
<1>1. IInv => ReadIsWellFormed
  BY FileOfText, WellFormedIsRead
<1>. QED BY <1>1, ConfigurationInvariant, PTL

\* At any place where the file may stop, with any endpoints and applications:
\* whoever reads it is routed as the configuration says, or not at all.
THEOREM HalfWrittenStaysAPrefix == TextReadsBack => (Spec => []HalfWrittenIsAPrefix)
<1>. SUFFICES ASSUME TextReadsBack PROVE Spec => []HalfWrittenIsAPrefix
  OBVIOUS
<1>1. ASSUME IInv PROVE HalfWrittenIsAPrefix
  <2>1. SUFFICES ASSUME pc = "write" PROVE IsPart(Read(file, written), saved)
    BY DEF HalfWrittenIsAPrefix
  <2>2. /\ saved \in Configs /\ file = ToFile(saved) /\ Len(file) \in Nat
        /\ written \in 0..Len(file) - 1
    BY <1>1, <2>1 DEF IInv, FileInv, WellFormed
  <2>3. ReadsBack(saved)
    BY <2>2, FileOfText DEF FileReadsBack
  <2>. QED BY <2>2, <2>3 DEF ReadsBack
<1>. QED BY <1>1, ConfigurationInvariant, PTL

=============================================================================
