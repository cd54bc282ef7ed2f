------------------------- MODULE Registration_proofs -------------------------
(* Safety of Registration: what Windows finds registered, and what is left. *)
EXTENDS Registration, SequenceTheorems, TLAPS

-----------------------------------------------------------------------------
(* Lemmas about the operators *)

\* A triple is a pair with one more.
LEMMA AppendToPair ==
    ASSUME NEW x, NEW y, NEW z
    PROVE  Append(<<x, y>>, z) = <<x, y, z>>
<1>. DEFINE S == {x, y, z}
<1>1. /\ <<x, y>> \in Seq(S) /\ Len(<<x, y>>) = 2
      /\ <<x, y, z>> \in Seq(S) /\ Len(<<x, y, z>>) = 3
  OBVIOUS
<1>2. Append(<<x, y>>, z) \in Seq(S) /\ Len(Append(<<x, y>>, z)) = 3
  BY <1>1
<1>3. \A i \in 1..3 : Append(<<x, y>>, z)[i] = <<x, y, z>>[i]
  <2>1. Append(<<x, y>>, z)[1] = x /\ Append(<<x, y>>, z)[2] = y
    BY <1>1
  <2>2. Append(<<x, y>>, z)[3] = z
    BY <1>1
  <2>. QED BY <2>1, <2>2
<1>. QED BY <1>1, <1>2, <1>3, SeqEqual

LEMMA MaxOfInterval ==
    ASSUME NEW n \in Nat \ {0}
    PROVE  Max(1..n) = n
<1>1. n \in 1..n /\ \A y \in 1..n : n >= y
  OBVIOUS
<1>2. \A x \in 1..n : (\A y \in 1..n : x >= y) => x = n
  BY <1>1
<1>. QED BY <1>1, <1>2, Zenon DEF Max

\* The first of the steps that fail is one of them.
LEMMA FirstFatal ==
    ASSUME NEW S \in SUBSET Fatal, S # {}
    PROVE  Min(S) \in S
<1>1. \E x \in S : \A y \in S : x =< y
  <2>. USE DEF Fatal
  <2>1. CASE 1 \in S
    BY <2>1
  <2>2. CASE 1 \notin S /\ 2 \in S
    BY <2>2
  <2>3. CASE {1, 2} \cap S = {} /\ 3 \in S
    BY <2>3
  <2>4. CASE {1, 2, 3} \cap S = {} /\ 4 \in S
    BY <2>4
  <2>5. CASE {1, 2, 3, 4} \cap S = {} /\ 5 \in S
    BY <2>5
  <2>6. CASE {1, 2, 3, 4, 5} \cap S = {} /\ 6 \in S
    BY <2>6
  <2>7. CASE {1, 2, 3, 4, 5, 6} \cap S = {} /\ 7 \in S
    BY <2>7
  <2>8. CASE {1, 2, 3, 4, 5, 6, 7} \cap S = {}
    <3>1. PICK x \in S : TRUE
      OBVIOUS
    <3>2. \A y \in S : y = 8
      BY <2>8
    <3>. QED BY <3>1, <3>2
  <2>. QED BY <2>1, <2>2, <2>3, <2>4, <2>5, <2>6, <2>7, <2>8
<1>. QED BY <1>1, Zenon DEF Min

\* SarSetDeviceInterfaceProperties returns success only if what Windows needs
\* is written, whichever of its eleven steps fail.
LEMMA SuccessWritesNeeded ==
    ASSUME NEW failing \in SUBSET (DOMAIN Steps), Succeeds(failing)
    PROVE  Values(failing) = Needed
<1>0. DOMAIN Steps = 1..11
  BY DEF Steps
<1>1. failing \cap Fatal = {}
  <2>. SUFFICES ASSUME failing \cap Fatal # {} PROVE FALSE
    OBVIOUS
  <2>. DEFINE n == Min(failing \cap Fatal)
  <2>1. n \in failing /\ n \in Fatal
    BY FirstFatal
  <2>2. Executed(failing) = 1..n
    BY DEF Executed
  <2>3. Max(1..n) = n
    BY <2>1, MaxOfInterval DEF Fatal
  <2>. QED BY <2>1, <2>2, <2>3 DEF Succeeds
<1>2. Executed(failing) = 1..11
  BY <1>0, <1>1 DEF Executed
<1>3. 11 \notin failing
  <2>1. 11 \in Nat \ {0}
    OBVIOUS
  <2>2. Max(1..11) = 11
    BY <2>1, MaxOfInterval
  <2>. QED BY <1>2, <2>2 DEF Succeeds
<1>4. {4, 5, 8, 11} \subseteq Executed(failing) \ failing
  BY <1>1, <1>2, <1>3 DEF Fatal
<1>5. /\ Steps[4] = "FriendlyName" /\ Steps[5] = "CLSID"
      /\ Steps[8] = "EventMode" /\ Steps[11] = "SarId"
  BY DEF Steps
<1>6. Needed \subseteq {Steps[n] : n \in Executed(failing) \ failing}
  BY <1>4, <1>5 DEF Needed
<1>. QED BY <1>6 DEF Values

\* After references were released an endpoint is as it was, or freed because
\* no one has it any longer.
LEMMA Released ==
    ASSUME NEW c, NEW w, NEW st, NEW fac, NEW filters,
           AfterRelease(c, w, st, fac, filters),
           st \in [Endpoints -> Stages],
           fac \in [Filters -> {"none", "made", "enabled"}]
    PROVE  /\ stage' \in [Endpoints -> Stages]
           /\ factory' \in [Filters -> {"none", "made", "enabled"}]
           /\ \A e \in Endpoints :
                 \/ /\ stage'[e] = st[e]
                    /\ \A kind \in Kinds : factory'[<<kind, e>>] = fac[<<kind, e>>]
                    /\ st[e] = "released" => UsersOf(e, filters) # {}
                    /\ st[e] = "active" => ContextHeld(c, w, st, filters)
                 \/ /\ stage'[e] = "freed"
                    /\ \A kind \in Kinds : factory'[<<kind, e>>] = "none"
                    /\ \/ st[e] = "released" /\ UsersOf(e, filters) = {}
                       \/ st[e] = "active" /\ ~ContextHeld(c, w, st, filters)
<1>. DEFINE Dead(e) == \/ st[e] = "released" /\ UsersOf(e, filters) = {}
                       \/ st[e] = "active" /\ ~ContextHeld(c, w, st, filters)
<1>1. /\ stage' = [e \in Endpoints |-> IF Dead(e) THEN "freed" ELSE st[e]]
      /\ factory' = [f \in Filters |-> IF Dead(f[2]) THEN "none" ELSE fac[f]]
  BY DEF AfterRelease
<1>2. /\ stage' \in [Endpoints -> Stages]
      /\ factory' \in [Filters -> {"none", "made", "enabled"}]
  <2>. HIDE DEF Dead
  <2>1. \A f \in Filters : fac[f] \in {"none", "made", "enabled"}
    OBVIOUS
  <2>2. \A e \in Endpoints : st[e] \in Stages /\ "freed" \in Stages
    BY DEF Stages
  <2>. QED BY <1>1, <2>1, <2>2
<1>3. ASSUME NEW e \in Endpoints
      PROVE  /\ stage'[e] = IF Dead(e) THEN "freed" ELSE st[e]
             /\ \A kind \in Kinds : factory'[<<kind, e>>] =
                   IF Dead(e) THEN "none" ELSE fac[<<kind, e>>]
  <2>. HIDE DEF Dead
  <2>1. \A kind \in Kinds : <<kind, e>> \in Filters /\ <<kind, e>>[2] = e
    BY DEF Filters
  <2>. QED BY <1>1, <2>1
<1>. QED BY <1>2, <1>3

LEMMA InitIInv == Init => IInv
<1>. SUFFICES ASSUME Init PROVE IInv
  OBVIOUS
<1>1. TypeOK
  BY DEF Init, TypeOK, Stages
<1>2. FactoryInv /\ AnswerInv
  BY DEF Init, FactoryInv, FactoryOf, AnswerInv, Filters, Kinds, Registering
<1>3. WorkerInv /\ HolderInv
  BY RegistrationAssumption DEF Init, WorkerInv, HolderInv, Registering
<1>4. WrittenInv /\ LinkInv
  BY DEF Init, WrittenInv, LinkInv
<1>. QED BY <1>1, <1>2, <1>3, <1>4 DEF IInv

-----------------------------------------------------------------------------
(* The device, the handle and the create request *)

\* Steps that change neither endpoints nor who holds them.
LEMMA DeviceKeeps ==
    ASSUME IInv,
           CreateDeviceNode \/ RemoveDeviceNode \/ SarKsDeviceAdd \/ SarKsDevicePostStart
    PROVE  IInv'
<1>1. /\ device' \in {"none", "registered", "added", "started"}
      /\ UNCHANGED <<client, stage, worker, factory, written, link, answer, opened, halted>>
  BY DEF CreateDeviceNode, RemoveDeviceNode, SarKsDeviceAdd, SarKsDevicePostStart, endpointVars
<1>. QED
  BY <1>1 DEF IInv, TypeOK, FactoryInv, FactoryOf, AnswerInv, WorkerInv, HolderInv, ContextHeld,
              UsersOf,
              WrittenInv, LinkInv

LEMMA HandleKeeps ==
    ASSUME IInv, OpenControlDevice \/ CloseControlDevice
    PROVE  IInv'
<1>1. /\ client \in {"new", "open"} /\ client' \in {"open", "closing"}
      /\ UNCHANGED <<device, stage, worker, factory, written, link, answer, opened, halted>>
  BY DEF OpenControlDevice, CloseControlDevice, InTable, endpointVars
<1>2. TypeOK' /\ FactoryInv' /\ AnswerInv' /\ WorkerInv' /\ WrittenInv' /\ LinkInv'
  BY <1>1 DEF IInv, TypeOK, FactoryInv, FactoryOf, AnswerInv, WorkerInv, WrittenInv, LinkInv
<1>3. HolderInv'
  BY <1>1 DEF IInv, HolderInv, ContextHeld, UsersOf
<1>. QED BY <1>2, <1>3 DEF IInv

LEMMA RequestUnreadableKeeps ==
    ASSUME IInv, NEW e \in Endpoints, RequestUnreadable(e)
    PROVE  IInv'
<1>1. /\ answer[e] = "none" /\ answer' = [answer EXCEPT ![e] = "failure"]
      /\ UNCHANGED <<device, client, stage, worker, factory, written, link, opened, halted>>
  BY DEF RequestUnreadable, MayRequest, endpointVars
<1>2. stage[e] = "absent"
  BY <1>1 DEF IInv, TypeOK, AnswerInv, Stages
<1>3. TypeOK' /\ FactoryInv' /\ WorkerInv' /\ WrittenInv' /\ LinkInv'
  BY <1>1 DEF IInv, TypeOK, FactoryInv, FactoryOf, WorkerInv, WrittenInv, LinkInv
<1>4. AnswerInv'
  BY <1>1, <1>2 DEF IInv, TypeOK, AnswerInv, Registering
<1>5. HolderInv'
  BY <1>1 DEF IInv, HolderInv, ContextHeld, UsersOf
<1>. QED BY <1>3, <1>4, <1>5 DEF IInv

LEMMA SarCreateEndpointKeeps ==
    ASSUME IInv, NEW e \in Endpoints, SarCreateEndpoint(e)
    PROVE  IInv'
<1>1. /\ client = "open" /\ answer[e] = "none"
      /\ stage' = [stage EXCEPT ![e] = "building"]
      /\ answer' = [answer EXCEPT ![e] = "pending"]
      /\ UNCHANGED <<device, client, worker, factory, written, link, opened, halted>>
  BY DEF SarCreateEndpoint, MayRequest, InTable
<1>2. stage[e] = "absent"
  BY <1>1 DEF IInv, TypeOK, AnswerInv, Stages
<1>3. TypeOK'
  BY <1>1 DEF IInv, TypeOK, Stages
<1>4. FactoryInv' /\ AnswerInv'
  BY <1>1, <1>2 DEF IInv, TypeOK, FactoryInv, FactoryOf, AnswerInv, Registering
<1>5. WorkerInv' /\ WrittenInv' /\ LinkInv'
  BY <1>1, <1>2 DEF IInv, TypeOK, WorkerInv, WrittenInv, LinkInv, Registering
<1>6. HolderInv'
  BY <1>1, <1>2 DEF IInv, TypeOK, HolderInv, ContextHeld, UsersOf, Filters
<1>. QED BY <1>3, <1>4, <1>5, <1>6 DEF IInv

\* The factories of an endpoint that is deleted.
LEMMA WithoutFactoriesOf ==
    ASSUME TypeOK, NEW e \in Endpoints
    PROVE  /\ WithoutFactories(e) \in [Filters -> {"none", "made", "enabled"}]
           /\ \A d \in Endpoints, kind \in Kinds :
                 WithoutFactories(e)[<<kind, d>>] =
                    IF d = e THEN "none" ELSE factory[<<kind, d>>]
<1>1. \A d \in Endpoints, kind \in Kinds : <<kind, d>> \in Filters /\ <<kind, d>>[2] = d
  BY DEF Filters
<1>. QED BY <1>1 DEF TypeOK, WithoutFactories

LEMMA BuildFailsKeeps ==
    ASSUME IInv, NEW e \in Endpoints, BuildFails(e)
    PROVE  IInv'
<1>1. /\ stage[e] = "building"
      /\ stage' = [stage EXCEPT ![e] = "freed"]
      /\ factory' = WithoutFactories(e)
      /\ answer' = [answer EXCEPT ![e] = "failure"]
      /\ UNCHANGED <<device, client, worker, written, link, opened, halted>>
  BY DEF BuildFails
<1>2. /\ factory' \in [Filters -> {"none", "made", "enabled"}]
      /\ \A d \in Endpoints, kind \in Kinds :
            factory'[<<kind, d>>] = IF d = e THEN "none" ELSE factory[<<kind, d>>]
  BY <1>1, WithoutFactoriesOf DEF IInv
<1>3. TypeOK'
  BY <1>1, <1>2 DEF IInv, TypeOK, Stages
<1>4. FactoryInv'
  <2>. SUFFICES ASSUME NEW d \in Endpoints PROVE FactoryOf(d)'
    BY DEF FactoryInv
  <2>1. /\ factory'[<<"wave", d>>] = IF d = e THEN "none" ELSE factory[<<"wave", d>>]
        /\ factory'[<<"topology", d>>] = IF d = e THEN "none" ELSE factory[<<"topology", d>>]
    BY <1>2 DEF Kinds
  <2>. QED BY <1>1, <2>1 DEF IInv, TypeOK, FactoryInv, FactoryOf
<1>5. AnswerInv'
  BY <1>1 DEF IInv, TypeOK, AnswerInv, Registering
<1>7. WorkerInv'
  BY <1>1 DEF IInv, TypeOK, WorkerInv, Registering
<1>8. WrittenInv'
  BY <1>1 DEF IInv, TypeOK, WrittenInv
<1>9. LinkInv'
  BY <1>1 DEF IInv, TypeOK, LinkInv
<1>6. HolderInv'
  BY <1>1 DEF IInv, TypeOK, HolderInv, ContextHeld, UsersOf, Filters
<1>. QED BY <1>3, <1>4, <1>5, <1>6, <1>7, <1>8, <1>9 DEF IInv

LEMMA CreateFilterFactoriesKeeps ==
    ASSUME IInv, NEW e \in Endpoints, CreateFilterFactories(e)
    PROVE  IInv'
<1>1. /\ stage[e] = "building"
      /\ UNCHANGED <<device, client, worker, written, link, answer, opened>>
  BY DEF CreateFilterFactories
<1>2. CASE halted' = TRUE /\ UNCHANGED endpointVars
  <2>1. TypeOK' /\ FactoryInv' /\ AnswerInv' /\ WorkerInv' /\ WrittenInv' /\ LinkInv'
    BY <1>1, <1>2 DEF IInv, TypeOK, FactoryInv, FactoryOf, AnswerInv, WorkerInv, WrittenInv,
                      LinkInv, endpointVars
  <2>2. HolderInv'
    BY <1>1, <1>2 DEF IInv, HolderInv, ContextHeld, UsersOf, endpointVars
  <2>. QED BY <2>1, <2>2 DEF IInv
<1>3. CASE /\ factory' = [f \in Filters |-> IF f[2] = e THEN "made" ELSE factory[f]]
           /\ stage' = [stage EXCEPT ![e] = "queued"]
           /\ UNCHANGED halted
  <2>1. \A d \in Endpoints, kind \in Kinds :
           /\ <<kind, d>> \in Filters /\ <<kind, d>>[2] = d
           /\ factory'[<<kind, d>>] = IF d = e THEN "made" ELSE factory[<<kind, d>>]
    BY <1>3 DEF Filters
  <2>2. TypeOK'
    BY <1>1, <1>3 DEF IInv, TypeOK, Stages
  <2>3. FactoryInv'
    <3>. SUFFICES ASSUME NEW d \in Endpoints PROVE FactoryOf(d)'
      BY DEF FactoryInv
    <3>1. /\ factory'[<<"wave", d>>] = IF d = e THEN "made" ELSE factory[<<"wave", d>>]
          /\ factory'[<<"topology", d>>] = IF d = e THEN "made" ELSE factory[<<"topology", d>>]
      BY <2>1 DEF Kinds
    <3>. QED BY <1>1, <1>3, <3>1 DEF IInv, TypeOK, FactoryInv, FactoryOf
  <2>4. AnswerInv' /\ WorkerInv' /\ WrittenInv' /\ LinkInv'
    BY <1>1, <1>3 DEF IInv, TypeOK, AnswerInv, WorkerInv, WrittenInv, LinkInv, Registering
  <2>5. HolderInv'
    BY <1>1, <1>3 DEF IInv, TypeOK, HolderInv, ContextHeld, UsersOf, Filters
  <2>. QED BY <2>2, <2>3, <2>4, <2>5 DEF IInv
<1>. QED BY <1>2, <1>3 DEF CreateFilterFactories

-----------------------------------------------------------------------------
(* SarProcessPendingEndpoints *)

LEMMA StartWorkKeeps ==
    ASSUME IInv, NEW e \in Endpoints, StartWork(e)
    PROVE  IInv'
<1>1. /\ stage[e] = "queued" /\ worker \in {"none", "exit"}
      /\ stage' = [stage EXCEPT ![e] = "properties"] /\ worker' = e
      /\ UNCHANGED <<device, client, factory, written, link, answer, opened, halted>>
  BY DEF StartWork
<1>2. TypeOK'
  BY <1>1 DEF IInv, TypeOK, Stages, Registering
<1>3. FactoryInv' /\ AnswerInv'
  BY <1>1 DEF IInv, TypeOK, FactoryInv, FactoryOf, AnswerInv, Registering
<1>4. WorkerInv'
  BY <1>1, RegistrationAssumption DEF IInv, TypeOK, WorkerInv, Registering
<1>5. WrittenInv'
  BY <1>1 DEF IInv, TypeOK, WrittenInv
<1>6. LinkInv'
  BY <1>1 DEF IInv, TypeOK, LinkInv
<1>7. HolderInv'
  BY <1>1, RegistrationAssumption DEF IInv, TypeOK, HolderInv, ContextHeld, UsersOf, Filters
<1>. QED BY <1>2, <1>3, <1>4, <1>5, <1>6, <1>7 DEF IInv

\* The worker's step from one stage of an endpoint to the next, except for
\* what the step itself is about.
LEMMA WorkerStepKeeps ==
    ASSUME IInv, NEW e \in Endpoints, NEW next \in Registering,
           stage[e] \in Registering,
           stage' = [stage EXCEPT ![e] = next],
           UNCHANGED <<device, client, worker, answer, opened, halted>>
    PROVE  /\ stage' \in [Endpoints -> Stages]
           /\ AnswerInv' /\ WorkerInv' /\ HolderInv'
<1>1. stage' \in [Endpoints -> Stages]
  BY DEF IInv, TypeOK, Stages
<1>2. AnswerInv'
  BY DEF IInv, TypeOK, AnswerInv, Registering
<1>3. WorkerInv'
  BY DEF IInv, TypeOK, WorkerInv
<1>4. worker # "none"
  BY RegistrationAssumption DEF IInv, WorkerInv
<1>5. HolderInv'
  BY <1>4 DEF IInv, TypeOK, HolderInv, ContextHeld, UsersOf, Filters, Registering
<1>. QED BY <1>1, <1>2, <1>3, <1>5

LEMMA CopyLinksKeeps ==
    ASSUME IInv, NEW e \in Endpoints, CopyLinks(e)
    PROVE  IInv'
<1>1. /\ stage[e] = "links"
      /\ link' = [f \in Filters |-> IF f[2] = e THEN f ELSE link[f]]
      /\ stage' = [stage EXCEPT ![e] = "enableWave"]
      /\ UNCHANGED <<device, client, worker, factory, written, answer, opened, halted>>
  BY DEF CopyLinks
<1>2. stage' \in [Endpoints -> Stages] /\ AnswerInv' /\ WorkerInv' /\ HolderInv'
  <2>. "enableWave" \in Registering /\ "links" \in Registering
    BY DEF Registering
  <2>. QED BY <1>1, WorkerStepKeeps
<1>3. TypeOK'
  BY <1>1, <1>2 DEF IInv, TypeOK
<1>4. FactoryInv'
  BY <1>1 DEF IInv, TypeOK, FactoryInv, FactoryOf
<1>5. WrittenInv'
  BY <1>1 DEF IInv, TypeOK, WrittenInv
<1>6. LinkInv'
  <2>1. \A d \in Endpoints, kind \in Kinds :
           link'[<<kind, d>>] = IF d = e THEN <<kind, d>> ELSE link[<<kind, d>>]
    BY <1>1 DEF Filters
  <2>. QED BY <1>1, <2>1 DEF IInv, TypeOK, LinkInv
<1>. QED BY <1>2, <1>3, <1>4, <1>5, <1>6 DEF IInv

LEMMA EnableKeeps ==
    ASSUME IInv, NEW e \in Endpoints, Enable(e)
    PROVE  IInv'
<1>1. /\ UNCHANGED <<device, client, worker, written, link, answer, opened, halted>>
      /\ \/ /\ stage[e] = "enableWave" /\ stage' = [stage EXCEPT ![e] = "enableTopology"]
            /\ factory' = [factory EXCEPT ![<<"wave", e>>] = "enabled"]
         \/ /\ stage[e] = "enableTopology" /\ stage' = [stage EXCEPT ![e] = "insert"]
            /\ factory' = [factory EXCEPT ![<<"topology", e>>] = "enabled"]
         \/ /\ stage[e] \in {"enableWave", "enableTopology"}
            /\ stage' = [stage EXCEPT ![e] = "fail"] /\ factory' = factory
  BY DEF Enable, EnableFactory
<1>2. PICK next \in Registering :
         stage[e] \in Registering /\ stage' = [stage EXCEPT ![e] = next]
  BY <1>1 DEF Registering
<1>3. stage' \in [Endpoints -> Stages] /\ AnswerInv' /\ WorkerInv' /\ HolderInv'
  BY <1>1, <1>2, WorkerStepKeeps
<1>4. TypeOK'
  BY <1>1, <1>3 DEF IInv, TypeOK
<1>5. FactoryInv'
  <2>. SUFFICES ASSUME NEW d \in Endpoints PROVE FactoryOf(d)'
    BY DEF FactoryInv
  <2>1. <<"wave", d>> \in Filters /\ <<"topology", d>> \in Filters
    BY DEF Filters, Kinds
  <2>2. CASE d # e
    <3>1. /\ stage'[d] = stage[d]
          /\ factory'[<<"wave", d>>] = factory[<<"wave", d>>]
          /\ factory'[<<"topology", d>>] = factory[<<"topology", d>>]
      BY <1>1, <2>1, <2>2 DEF IInv, TypeOK
    <3>. QED BY <3>1 DEF IInv, FactoryInv, FactoryOf
  <2>3. CASE d = e
    BY <1>1, <2>1, <2>3 DEF IInv, TypeOK, FactoryInv, FactoryOf
  <2>. QED BY <2>2, <2>3
<1>6. WrittenInv'
  BY <1>1 DEF IInv, TypeOK, WrittenInv
<1>7. LinkInv'
  BY <1>1 DEF IInv, TypeOK, LinkInv
<1>. QED BY <1>3, <1>4, <1>5, <1>6, <1>7 DEF IInv

LEMMA SetPropertiesKeeps ==
    ASSUME IInv, NEW e \in Endpoints, SetProperties(e)
    PROVE  IInv'
<1>. DEFINE I(d) == Interfaces(TypeOf[d])
            Last(failing, n) == IF Succeeds(failing) THEN 5 ELSE n
            Written(failing, n, i) == IF i = n THEN Values(failing) ELSE Needed
            All(failing, n) == UNION {{Append(I(e)[i], v) : v \in Written(failing, n, i)}
                                         : i \in 1..Last(failing, n)}
<1>1. PICK n \in 1..5, failing \in Failures :
         /\ written' = [written EXCEPT ![e] = All(failing, n)]
         /\ stage' = [stage EXCEPT ![e] = IF Succeeds(failing) THEN "links" ELSE "fail"]
  BY DEF SetProperties
<1>2. /\ stage[e] = "properties"
      /\ UNCHANGED <<device, client, worker, factory, link, answer, opened, halted>>
  BY DEF SetProperties
<1>3. stage' \in [Endpoints -> Stages] /\ AnswerInv' /\ WorkerInv' /\ HolderInv'
  <2>1. PICK next \in {"links", "fail"} : stage' = [stage EXCEPT ![e] = next]
    BY <1>1
  <2>2. next \in Registering /\ "properties" \in Registering
    BY DEF Registering
  <2>. QED BY <1>2, <2>1, <2>2, WorkerStepKeeps
<1>4. /\ DOMAIN I(e) = 1..5
      /\ \A i \in 1..5 :
            I(e)[i] \in Kinds \X {"AUDIO", "REALTIME", "RENDER", "CAPTURE", "TOPOLOGY"}
  BY DEF Interfaces, Kinds
<1>. HIDE DEF I
<1>5. All(failing, n) \subseteq
         Kinds \X {"AUDIO", "REALTIME", "RENDER", "CAPTURE", "TOPOLOGY"} \X Needed
  <2>1. Last(failing, n) \in 1..5
    OBVIOUS
  <2>2. \A i \in 1..5 : Written(failing, n, i) \subseteq Needed
    BY DEF Values
  <2>3. ASSUME NEW i \in 1..5, NEW v \in Needed
        PROVE  Append(I(e)[i], v) \in
                  Kinds \X {"AUDIO", "REALTIME", "RENDER", "CAPTURE", "TOPOLOGY"} \X Needed
    <3>1. PICK x \in Kinds, y \in {"AUDIO", "REALTIME", "RENDER", "CAPTURE", "TOPOLOGY"} :
             I(e)[i] = <<x, y>>
      BY <1>4
    <3>. QED BY <3>1, AppendToPair
  <2>. HIDE DEF Last, Written
  <2>4. ASSUME NEW x \in All(failing, n)
        PROVE  x \in Kinds \X {"AUDIO", "REALTIME", "RENDER", "CAPTURE", "TOPOLOGY"} \X Needed
    <3>1. PICK i \in 1..Last(failing, n) :
             x \in {Append(I(e)[i], v) : v \in Written(failing, n, i)}
      OBVIOUS
    <3>2. PICK v \in Written(failing, n, i) : x = Append(I(e)[i], v)
      BY <3>1
    <3>3. i \in 1..5 /\ v \in Needed
      BY <2>1, <2>2
    <3>. QED BY <2>3, <3>2, <3>3
  <2>. HIDE DEF All
  <2>. QED BY <2>4
<1>6. TypeOK'
  <2>1. written' \in [Endpoints -> SUBSET
           (Kinds \X {"AUDIO", "REALTIME", "RENDER", "CAPTURE", "TOPOLOGY"} \X Needed)]
    BY <1>1, <1>5 DEF IInv, TypeOK
  <2>. QED BY <1>2, <1>3, <2>1 DEF IInv, TypeOK
<1>7. FactoryInv'
  BY <1>1, <1>2 DEF IInv, TypeOK, FactoryInv, FactoryOf
<1>8. WrittenInv'
  <2>. SUFFICES ASSUME NEW d \in Endpoints,
                       stage'[d] \in {"links", "enableWave", "enableTopology", "insert", "active"},
                       NEW i \in DOMAIN I(d), NEW v \in Needed
                PROVE  Append(I(d)[i], v) \in written'[d]
    BY DEF WrittenInv, I
  <2>1. CASE d # e
    BY <1>1, <2>1 DEF IInv, TypeOK, WrittenInv, I
  <2>2. CASE d = e
    <3>1. Succeeds(failing)
      BY <1>1, <2>2 DEF IInv, TypeOK
    <3>2. failing \in SUBSET (DOMAIN Steps)
      BY DEF Failures, Steps
    <3>3. v \in Written(failing, n, i) /\ i \in 1..Last(failing, n)
      BY <1>4, <2>2, <3>1, <3>2, SuccessWritesNeeded
    <3>. HIDE DEF Last, Written
    <3>4. Append(I(e)[i], v) \in All(failing, n)
      BY <3>3
    <3>5. written'[e] = All(failing, n)
      BY <1>1 DEF IInv, TypeOK
    <3>. QED BY <2>2, <3>4, <3>5
  <2>. QED BY <2>1, <2>2
<1>9. LinkInv'
  BY <1>1, <1>2 DEF IInv, TypeOK, LinkInv
<1>. QED BY <1>3, <1>6, <1>7, <1>8, <1>9 DEF IInv

LEMMA InsertKeeps ==
    ASSUME IInv, NEW e \in Endpoints, Insert(e)
    PROVE  IInv'
<1>1. /\ stage[e] = "insert" /\ worker' = "exit"
      /\ stage' = [stage EXCEPT ![e] = "active"]
      /\ answer' = [answer EXCEPT ![e] = "success"]
      /\ UNCHANGED <<device, client, factory, written, link, opened, halted>>
  BY DEF Insert
<1>2. worker = e
  BY <1>1 DEF IInv, WorkerInv, Registering
<1>3. TypeOK'
  BY <1>1 DEF IInv, TypeOK, Stages
<1>4. FactoryInv'
  BY <1>1 DEF IInv, TypeOK, FactoryInv, FactoryOf
<1>5. AnswerInv'
  BY <1>1 DEF IInv, TypeOK, AnswerInv, Registering
<1>6. WorkerInv'
  BY <1>1, <1>2, RegistrationAssumption DEF IInv, TypeOK, WorkerInv, Registering
<1>7. HolderInv'
  BY <1>1 DEF IInv, TypeOK, HolderInv, ContextHeld, UsersOf, Filters
<1>8. WrittenInv'
  BY <1>1 DEF IInv, TypeOK, WrittenInv
<1>9. LinkInv'
  BY <1>1 DEF IInv, TypeOK, LinkInv
<1>. QED BY <1>3, <1>4, <1>5, <1>6, <1>7, <1>8, <1>9 DEF IInv

LEMMA FailKeeps ==
    ASSUME IInv, NEW e \in Endpoints, Fail(e)
    PROVE  IInv'
<1>1. /\ stage[e] = "fail" /\ worker' = "exit"
      /\ stage' = [stage EXCEPT ![e] = "freed"]
      /\ factory' = WithoutFactories(e)
      /\ answer' = [answer EXCEPT ![e] = "failure"]
      /\ UNCHANGED <<device, client, written, link, opened, halted>>
  BY DEF Fail
<1>2. worker = e
  BY <1>1 DEF IInv, WorkerInv, Registering
<1>3. /\ factory' \in [Filters -> {"none", "made", "enabled"}]
      /\ \A d \in Endpoints, kind \in Kinds :
            factory'[<<kind, d>>] = IF d = e THEN "none" ELSE factory[<<kind, d>>]
  BY <1>1, WithoutFactoriesOf DEF IInv
<1>4. TypeOK'
  BY <1>1, <1>3 DEF IInv, TypeOK, Stages
<1>5. FactoryInv'
  <2>. SUFFICES ASSUME NEW d \in Endpoints PROVE FactoryOf(d)'
    BY DEF FactoryInv
  <2>1. /\ factory'[<<"wave", d>>] = IF d = e THEN "none" ELSE factory[<<"wave", d>>]
        /\ factory'[<<"topology", d>>] = IF d = e THEN "none" ELSE factory[<<"topology", d>>]
    BY <1>3 DEF Kinds
  <2>. QED BY <1>1, <2>1 DEF IInv, TypeOK, FactoryInv, FactoryOf
<1>6. AnswerInv'
  BY <1>1 DEF IInv, TypeOK, AnswerInv, Registering
<1>7. WorkerInv'
  BY <1>1, <1>2, RegistrationAssumption DEF IInv, TypeOK, WorkerInv, Registering
<1>8. HolderInv'
  BY <1>1 DEF IInv, TypeOK, HolderInv, ContextHeld, UsersOf, Filters
<1>9. WrittenInv'
  BY <1>1 DEF IInv, TypeOK, WrittenInv
<1>10. LinkInv'
  BY <1>1 DEF IInv, TypeOK, LinkInv
<1>. QED BY <1>4, <1>5, <1>6, <1>7, <1>8, <1>9, <1>10 DEF IInv

-----------------------------------------------------------------------------
(* References *)

\* Whoever releases a reference, or takes the endpoints of the list, leaves
\* the invariant true: a freed endpoint is one that nobody has any longer.
LEMMA ReleaseKeeps ==
    ASSUME IInv, NEW w, NEW st, NEW fac, NEW c, NEW filters,
           AfterRelease(c, w, st, fac, filters),
           client' = c, worker' = w, opened' = filters,
           UNCHANGED <<device, written, link, answer, halted>>,
           c \in {"new", "open", "closing", "draining", "gone"},
           w \in Endpoints \cup {"none", "exit"},
           st \in [Endpoints -> Stages],
           fac \in [Filters -> {"none", "made", "enabled"}],
           filters \in [Clients -> Filters \cup {Nothing}],
           \A d \in Clients : filters[d] # Nothing =>
              filters[d] = opened[d] /\ st[filters[d][2]] \in {"active", "orphaning", "released"},
           \A e \in Endpoints :
              /\ \/ /\ st[e] = stage[e]
                    /\ \A kind \in Kinds : fac[<<kind, e>>] = factory[<<kind, e>>]
                 \/ /\ stage[e] = "orphaning" /\ st[e] = "released"
                    /\ \A kind \in Kinds : fac[<<kind, e>>] = "made"
              /\ st[e] = "orphaning" => c = "draining"
              /\ st[e] \in Registering <=> w = e
    PROVE  IInv'
<1>1. /\ stage' \in [Endpoints -> Stages]
      /\ factory' \in [Filters -> {"none", "made", "enabled"}]
      /\ \A e \in Endpoints :
            \/ /\ stage'[e] = st[e]
               /\ \A kind \in Kinds : factory'[<<kind, e>>] = fac[<<kind, e>>]
               /\ st[e] = "released" => UsersOf(e, filters) # {}
               /\ st[e] = "active" => ContextHeld(c, w, st, filters)
            \/ /\ stage'[e] = "freed"
               /\ \A kind \in Kinds : factory'[<<kind, e>>] = "none"
               /\ \/ st[e] = "released" /\ UsersOf(e, filters) = {}
                  \/ st[e] = "active" /\ ~ContextHeld(c, w, st, filters)
  BY Released
<1>2. TypeOK'
  BY <1>1 DEF IInv, TypeOK
<1>3. FactoryInv'
  <2>. SUFFICES ASSUME NEW e \in Endpoints PROVE FactoryOf(e)'
    BY DEF FactoryInv
  <2>1. FactoryOf(e) /\ stage[e] \in Stages
    BY DEF IInv, FactoryInv, TypeOK
  <2>2. "wave" \in Kinds /\ "topology" \in Kinds
    BY DEF Kinds
  <2>. QED BY <1>1, <2>1, <2>2 DEF FactoryOf
<1>4. AnswerInv'
  BY <1>1 DEF IInv, TypeOK, AnswerInv, Registering
<1>5. WorkerInv'
  BY <1>1 DEF WorkerInv, Registering
<1>6. HolderInv'
  <2>1. ASSUME NEW d \in Clients, opened'[d] # Nothing
        PROVE  stage'[opened'[d][2]] \in {"active", "orphaning", "released"}
    <3>1. opened'[d] \in Filters /\ opened'[d][2] \in Endpoints
      BY <2>1 DEF Filters
    <3>2. d \in UsersOf(opened'[d][2], filters)
      BY <3>1 DEF UsersOf, Filters
    <3>3. ContextHeld(c, w, st, filters)
      BY <2>1 DEF ContextHeld
    <3>. QED BY <1>1, <2>1, <3>1, <3>2, <3>3
  <2>2. ASSUME NEW e \in Endpoints
        PROVE  /\ stage'[e] = "active" => ContextHeld(client, worker, stage, opened)'
               /\ stage'[e] = "orphaning" => client' = "draining"
               /\ stage'[e] = "released" => UsersOf(e, opened') # {}
    <3>1. ContextHeld(c, w, st, filters) => ContextHeld(c, w, stage', filters)
      BY <1>1 DEF ContextHeld
    <3>2. stage'[e] = "active" => ContextHeld(c, w, st, filters)
      BY <1>1
    <3>3. stage'[e] = "released" => UsersOf(e, filters) # {}
      BY <1>1
    <3>4. stage'[e] = "orphaning" => c = "draining"
      BY <1>1
    <3>. QED BY <3>1, <3>2, <3>3, <3>4
  <2>. QED BY <2>1, <2>2 DEF HolderInv, UsersOf
<1>7. \A e \in Endpoints : stage'[e] \in {"links", "enableWave", "enableTopology", "insert", "active"}
         => stage'[e] = stage[e]
  BY <1>1
<1>8. WrittenInv'
  BY <1>7 DEF IInv, WrittenInv
<1>9. LinkInv'
  BY <1>7 DEF IInv, LinkInv
<1>. QED BY <1>2, <1>3, <1>4, <1>5, <1>6, <1>8, <1>9 DEF IInv

LEMMA ExitWorkKeeps ==
    ASSUME IInv, ExitWork
    PROVE  IInv'
<1>1. /\ worker = "exit" /\ worker' = "none"
      /\ AfterRelease(client, "none", stage, factory, opened)
      /\ UNCHANGED <<device, client, written, link, answer, opened, halted>>
  BY DEF ExitWork
<1>2. \A e \in Endpoints : worker # e /\ e # "none"
  BY <1>1, RegistrationAssumption
<1>. QED BY <1>1, <1>2, ReleaseKeeps DEF IInv, TypeOK, WorkerInv, HolderInv

LEMMA ReleaseContextKeeps ==
    ASSUME IInv, ReleaseContext
    PROVE  IInv'
<1>1. /\ client' = "gone" /\ \A e \in Endpoints : stage[e] # "orphaning"
      /\ AfterRelease("gone", worker, stage, factory, opened)
      /\ UNCHANGED <<device, worker, written, link, answer, opened, halted>>
  BY DEF ReleaseContext
<1>. QED BY <1>1, ReleaseKeeps DEF IInv, TypeOK, WorkerInv, HolderInv

LEMMA SarOrphanEndpointKeeps ==
    ASSUME IInv, NEW e \in Endpoints, SarOrphanEndpoint(e)
    PROVE  IInv'
<1>. DEFINE st == [stage EXCEPT ![e] = "released"]
            fac == [f \in Filters |-> IF f[2] = e THEN "made" ELSE factory[f]]
<1>1. /\ stage[e] = "orphaning"
      /\ AfterRelease(client, worker, st, fac, opened)
      /\ UNCHANGED <<device, client, worker, written, link, answer, opened, halted>>
  BY DEF SarOrphanEndpoint
<1>2. /\ st \in [Endpoints -> Stages]
      /\ fac \in [Filters -> {"none", "made", "enabled"}]
  BY DEF IInv, TypeOK, Stages
<1>3. \A d \in Endpoints : st[d] = IF d = e THEN "released" ELSE stage[d]
  BY DEF IInv, TypeOK
<1>4. \A d \in Endpoints, kind \in Kinds :
         fac[<<kind, d>>] = IF d = e THEN "made" ELSE factory[<<kind, d>>]
  BY DEF Filters
<1>. HIDE DEF st, fac
<1>5. ASSUME NEW c \in Clients, opened[c] # Nothing
      PROVE  st[opened[c][2]] \in {"active", "orphaning", "released"}
  BY <1>3, <1>5 DEF IInv, TypeOK, HolderInv, Filters
<1>6. ASSUME NEW d \in Endpoints
      PROVE  /\ \/ /\ st[d] = stage[d]
                   /\ \A kind \in Kinds : fac[<<kind, d>>] = factory[<<kind, d>>]
                \/ /\ stage[d] = "orphaning" /\ st[d] = "released"
                   /\ \A kind \in Kinds : fac[<<kind, d>>] = "made"
             /\ st[d] = "orphaning" => client = "draining"
             /\ st[d] \in Registering <=> worker = d
  BY <1>1, <1>3, <1>4 DEF IInv, WorkerInv, HolderInv, Registering
<1>. QED BY <1>1, <1>2, <1>5, <1>6, ReleaseKeeps DEF IInv, TypeOK

LEMMA SarKsFilterCloseKeeps ==
    ASSUME IInv, NEW c \in Clients, SarKsFilterClose(c)
    PROVE  IInv'
<1>. DEFINE filters == [opened EXCEPT ![c] = Nothing]
<1>1. /\ opened' = filters
      /\ AfterRelease(client, worker, stage, factory, filters)
      /\ UNCHANGED <<device, client, worker, written, link, answer, halted>>
  BY DEF SarKsFilterClose
<1>2. /\ filters \in [Clients -> Filters \cup {Nothing}]
      /\ \A d \in Clients : filters[d] # Nothing => filters[d] = opened[d]
  BY DEF IInv, TypeOK
<1>. HIDE DEF filters
<1>. QED BY <1>1, <1>2, ReleaseKeeps DEF IInv, TypeOK, WorkerInv, HolderInv

LEMMA TakeEndpointsKeeps ==
    ASSUME IInv, TakeEndpoints
    PROVE  IInv'
<1>1. /\ client = "closing" /\ client' = "draining"
      /\ stage' = [e \in Endpoints |-> IF stage[e] = "active" THEN "orphaning" ELSE stage[e]]
      /\ UNCHANGED <<device, worker, factory, written, link, answer, opened, halted>>
  BY DEF TakeEndpoints
<1>2. TypeOK'
  BY <1>1 DEF IInv, TypeOK, Stages
<1>3. FactoryInv'
  BY <1>1 DEF IInv, TypeOK, FactoryInv, FactoryOf
<1>4. AnswerInv'
  BY <1>1 DEF IInv, TypeOK, AnswerInv, Registering
<1>5. WorkerInv'
  BY <1>1 DEF IInv, TypeOK, WorkerInv, Registering
<1>6. HolderInv'
  BY <1>1 DEF IInv, TypeOK, HolderInv, ContextHeld, UsersOf, Filters
<1>7. WrittenInv' /\ LinkInv'
  BY <1>1 DEF IInv, TypeOK, WrittenInv, LinkInv
<1>. QED BY <1>2, <1>3, <1>4, <1>5, <1>6, <1>7 DEF IInv

-----------------------------------------------------------------------------
(* Audio clients *)

LEMMA SarKsFilterCreateKeeps ==
    ASSUME IInv, NEW c \in Clients, NEW f \in Filters, SarKsFilterCreate(c, f)
    PROVE  IInv'
<1>1. /\ opened[c] = Nothing /\ stage[f[2]] = "active"
      /\ opened' = [opened EXCEPT ![c] = f]
      /\ UNCHANGED <<device, client, stage, worker, factory, written, link, answer, halted>>
  BY DEF SarKsFilterCreate, Found, endpointVars
<1>2. TypeOK'
  BY <1>1 DEF IInv, TypeOK
<1>3. FactoryInv' /\ AnswerInv' /\ WorkerInv' /\ WrittenInv' /\ LinkInv'
  BY <1>1 DEF IInv, FactoryInv, FactoryOf, AnswerInv, WorkerInv, WrittenInv, LinkInv
<1>4. HolderInv'
  <2>1. \A e \in Endpoints : UsersOf(e, opened) \subseteq UsersOf(e, opened')
    BY <1>1, RegistrationAssumption DEF IInv, TypeOK, UsersOf, Filters
  <2>2. \A e \in Endpoints : UsersOf(e, opened)' = UsersOf(e, opened')
    BY DEF UsersOf
  <2>3. ContextHeld(client, worker, stage, opened)'
    BY <1>1, RegistrationAssumption DEF IInv, TypeOK, ContextHeld
  <2>4. \A d \in Clients : opened'[d] # Nothing =>
           stage[opened'[d][2]] \in {"active", "orphaning", "released"}
    BY <1>1 DEF IInv, TypeOK, HolderInv
  <2>. QED BY <1>1, <2>1, <2>2, <2>3, <2>4 DEF IInv, HolderInv
<1>. QED BY <1>2, <1>3, <1>4 DEF IInv

-----------------------------------------------------------------------------
(* The theorems *)

LEMMA NextKeepsIInv == IInv /\ [Next]_vars => IInv'
<1>. SUFFICES ASSUME IInv, [Next]_vars PROVE IInv'
  OBVIOUS
<1>1. ASSUME NEW e \in Endpoints,
             \/ RequestUnreadable(e) \/ SarCreateEndpoint(e) \/ BuildFails(e)
             \/ CreateFilterFactories(e)
             \/ StartWork(e) \/ SetProperties(e) \/ CopyLinks(e) \/ Enable(e)
             \/ Insert(e) \/ Fail(e) \/ SarOrphanEndpoint(e)
      PROVE  IInv'
  BY <1>1, RequestUnreadableKeeps, SarCreateEndpointKeeps, BuildFailsKeeps,
     CreateFilterFactoriesKeeps, StartWorkKeeps, SetPropertiesKeeps, CopyLinksKeeps,
     EnableKeeps, InsertKeeps, FailKeeps, SarOrphanEndpointKeeps
<1>2. ASSUME NEW c \in Clients,
             (\E f \in Filters : SarKsFilterCreate(c, f)) \/ SarKsFilterClose(c)
      PROVE  IInv'
  BY <1>2, SarKsFilterCreateKeeps, SarKsFilterCloseKeeps
<1>3. CASE UNCHANGED vars
  BY <1>3 DEF vars, IInv, TypeOK, FactoryInv, FactoryOf, AnswerInv, WorkerInv, HolderInv,
              ContextHeld, UsersOf, WrittenInv, LinkInv
<1>. QED BY <1>1, <1>2, <1>3, DeviceKeeps, HandleKeeps, TakeEndpointsKeeps, ReleaseContextKeeps,
            ExitWorkKeeps DEF Next

\* The inductive invariant: the stage of an endpoint decides its factories,
\* its answer, who works on it and who holds it (control.cpp
\* SarCreateEndpoint, SarProcessPendingEndpoints, SarDeleteEndpoint).
THEOREM StageDecides == Spec => []IInv
<1>. QED BY InitIInv, NextKeepsIInv, PTL DEF Spec

\* Whatever fails, and whenever the handle is closed, a factory belongs to an
\* endpoint that is not freed, and none is left when the context is (control.cpp
\* SarDeleteEndpoint, entry.cpp SarOrphanControlContext).
THEOREM LeavesNothingBehind == Spec => []NothingLeftBehind
<1>1. IInv => NothingLeftBehind
  <2>. SUFFICES ASSUME IInv PROVE NothingLeftBehind
    OBVIOUS
  <2>1. ASSUME NEW f \in Filters
        PROVE  /\ (factory[f] = "none") = (stage[f[2]] \in {"absent", "building", "freed"})
               /\ factory[f] = "enabled" => stage[f[2]] \in Registering \cup {"active", "orphaning"}
               /\ answer[f[2]] = "failure" => stage[f[2]] \in {"absent", "freed"}
    <3>1. PICK e \in Endpoints : f = <<"wave", e>> \/ f = <<"topology", e>>
      BY DEF Filters, Kinds
    <3>2. f[2] = e /\ stage[e] \in Stages /\ FactoryOf(e)
      BY <3>1 DEF IInv, TypeOK, FactoryInv
    <3>3. (factory[f] = "none") <=> (stage[e] \in {"absent", "building", "freed"})
      BY <3>1, <3>2 DEF FactoryOf, Stages, Registering
    <3>4. factory[f] = "enabled" => stage[e] \in Registering \cup {"active", "orphaning"}
      BY <3>1, <3>2 DEF FactoryOf, Stages, Registering
    <3>5. answer[e] = "failure" => stage[e] \in {"absent", "freed"}
      BY <3>2 DEF IInv, AnswerInv, Stages
    <3>. QED BY <3>2, <3>3, <3>4, <3>5
  <2>2. ASSUME NEW c \in Clients, opened[c] # Nothing
        PROVE  factory[opened[c]] # "none"
    <3>1. opened[c] \in Filters
      BY <2>2 DEF IInv, TypeOK
    <3>2. stage[opened[c][2]] \in {"active", "orphaning", "released"}
      BY <2>2 DEF IInv, HolderInv
    <3>. QED BY <2>1, <3>1, <3>2
  <2>3. ASSUME ~ContextHeld(client, worker, stage, opened), NEW f \in Filters
        PROVE  factory[f] = "none"
    <3>1. PICK e \in Endpoints : f[2] = e
      BY DEF Filters
    <3>2. /\ client = "gone" /\ worker = "none" /\ stage[e] # "queued"
          /\ \A d \in Clients : opened[d] = Nothing
      BY <2>3 DEF ContextHeld
    <3>3. UsersOf(e, opened) = {}
      BY <3>2, RegistrationAssumption DEF UsersOf, Filters
    <3>4. stage[e] \notin {"active", "orphaning", "released"}
      BY <2>3, <3>2, <3>3 DEF IInv, HolderInv
    <3>5. stage[e] \notin Registering
      BY <3>2, RegistrationAssumption DEF IInv, WorkerInv
    <3>6. stage[e] \in {"absent", "building", "freed"}
      BY <3>2, <3>4, <3>5 DEF IInv, TypeOK, Stages
    <3>. QED BY <2>1, <3>1, <3>6
  <2>. QED BY <2>1, <2>2, <2>3 DEF NothingLeftBehind
<1>. QED BY <1>1, StageDecides, PTL

\* An endpoint that a filter can be opened of was registered as a whole,
\* whichever steps of the registration failed for it or others (control.cpp
\* SarSetDeviceInterfaceProperties, SarProcessPendingEndpoints).
THEOREM FoundIsRegistered == Spec => []RegisteredAsAWhole
<1>1. IInv => RegisteredAsAWhole
  <2>. SUFFICES ASSUME IInv, NEW e \in Endpoints, Found(e)
                PROVE  /\ answer[e] = "success"
                       /\ \A kind \in Kinds : factory[<<kind, e>>] = "enabled"
                       /\ \A category \in WaveCategories(TypeOf[e]), v \in Needed :
                             <<"wave", category, v>> \in written[e]
                       /\ \A category \in TopologyCategories, v \in Needed :
                             <<"topology", category, v>> \in written[e]
    BY DEF RegisteredAsAWhole
  <2>1. stage[e] = "active"
    BY DEF Found
  <2>2. answer[e] = "success" /\ \A kind \in Kinds : factory[<<kind, e>>] = "enabled"
    BY <2>1 DEF IInv, AnswerInv, FactoryInv, FactoryOf, Kinds
  <2>. DEFINE I == Interfaces(TypeOf[e])
  <2>3. \A i \in 1..5, v \in Needed : Append(I[i], v) \in written[e]
    <3>1. DOMAIN I = 1..5
      BY DEF Interfaces
    <3>. QED BY <2>1, <3>1 DEF IInv, WrittenInv
  <2>4. TypeOf[e] \in {"Playback", "Recording"}
    BY RegistrationAssumption
  <2>5. /\ I[1] = <<"wave", "AUDIO">> /\ I[2] = <<"wave", "REALTIME">>
        /\ I[3] = <<"wave", IF TypeOf[e] = "Playback" THEN "RENDER" ELSE "CAPTURE">>
        /\ I[4] = <<"topology", "AUDIO">> /\ I[5] = <<"topology", "TOPOLOGY">>
    BY DEF Interfaces
  <2>6. ASSUME NEW category \in WaveCategories(TypeOf[e]), NEW v \in Needed
        PROVE  <<"wave", category, v>> \in written[e]
    <3>1. \E i \in 1..5 : I[i] = <<"wave", category>>
      BY <2>4, <2>5 DEF WaveCategories
    <3>. QED BY <2>3, <3>1, AppendToPair
  <2>7. ASSUME NEW category \in TopologyCategories, NEW v \in Needed
        PROVE  <<"topology", category, v>> \in written[e]
    <3>1. \E i \in 1..5 : I[i] = <<"topology", category>>
      BY <2>5 DEF TopologyCategories
    <3>. QED BY <2>3, <3>1, AppendToPair
  <2>. QED BY <2>2, <2>6, <2>7
<1>. QED BY <1>1, StageDecides, PTL

-----------------------------------------------------------------------------
(* The way through the filters *)

LEMMA ReachesSelf ==
    ASSUME NEW a, NEW edges
    PROVE  Reaches(a, a, edges)
BY DEF Reaches

LEMMA ReachesStep ==
    ASSUME NEW a, NEW b, NEW c, NEW edges, Reaches(a, b, edges), <<b, c>> \in edges
    PROVE  Reaches(a, c, edges)
<1>. DEFINE places == {x[1] : x \in edges} \cup {x[2] : x \in edges}
<1>1. ASSUME NEW S \in SUBSET places, a \in S, \A x \in edges : x[1] \in S => x[2] \in S
      PROVE  c \in S
  <2>1. b \in S
    BY <1>1 DEF Reaches
  <2>2. <<b, c>>[1] = b /\ <<b, c>>[2] = c
    OBVIOUS
  <2>. QED BY <1>1, <2>1, <2>2
<1>. QED BY <1>1 DEF Reaches

\* The seven places on the way through both filters, in order, each with an
\* edge to the next.
LEMMA ReachesAlong ==
    ASSUME NEW edges, NEW a, NEW b, NEW c, NEW d, NEW e, NEW f, NEW g,
           {<<a, b>>, <<b, c>>, <<c, d>>, <<d, e>>, <<e, f>>, <<f, g>>} \subseteq edges
    PROVE  /\ \A x \in {a, b, c, d, e, f, g} : Reaches(a, x, edges)
           /\ \A x \in {a, b, c, d, e, f, g} : Reaches(x, g, edges)
<1>1. /\ <<a, b>> \in edges /\ <<b, c>> \in edges /\ <<c, d>> \in edges
      /\ <<d, e>> \in edges /\ <<e, f>> \in edges /\ <<f, g>> \in edges
  OBVIOUS
<1>2. /\ Reaches(a, a, edges) /\ Reaches(a, b, edges) /\ Reaches(a, c, edges)
      /\ Reaches(a, d, edges) /\ Reaches(a, e, edges) /\ Reaches(a, f, edges)
      /\ Reaches(a, g, edges)
  BY <1>1, ReachesSelf, ReachesStep
<1>3. /\ Reaches(b, g, edges) /\ Reaches(c, g, edges) /\ Reaches(d, g, edges)
  <2>1. Reaches(b, c, edges) /\ Reaches(b, d, edges) /\ Reaches(b, e, edges)
        /\ Reaches(b, f, edges) /\ Reaches(b, g, edges)
    BY <1>1, ReachesSelf, ReachesStep
  <2>2. Reaches(c, d, edges) /\ Reaches(c, e, edges) /\ Reaches(c, f, edges)
        /\ Reaches(c, g, edges)
    BY <1>1, ReachesSelf, ReachesStep
  <2>3. Reaches(d, e, edges) /\ Reaches(d, f, edges) /\ Reaches(d, g, edges)
    BY <1>1, ReachesSelf, ReachesStep
  <2>. QED BY <2>1, <2>2, <2>3
<1>4. Reaches(e, g, edges) /\ Reaches(f, g, edges) /\ Reaches(g, g, edges)
  <2>1. Reaches(e, f, edges) /\ Reaches(e, g, edges)
    BY <1>1, ReachesSelf, ReachesStep
  <2>. QED BY <1>1, <2>1, ReachesSelf, ReachesStep
<1>. QED BY <1>2, <1>3, <1>4

LEMMA ThereAndBack ==
    ASSUME NEW a, NEW b, NEW S, S = {<<a, b>>, <<b, a>>}
    PROVE  S # {} /\ \A x \in S : <<x[2], x[1]>> \in S
<1>1. <<a, b>>[1] = a /\ <<a, b>>[2] = b /\ <<b, a>>[1] = b /\ <<b, a>>[2] = a
  OBVIOUS
<1>2. ASSUME NEW x \in S PROVE <<x[2], x[1]>> \in S
  <2>1. CASE x = <<a, b>>
    BY <1>1, <2>1
  <2>2. CASE x = <<b, a>>
    BY <1>1, <2>2
  <2>. QED BY <2>1, <2>2
<1>. QED BY <1>2

\* From the pin that streams to the pin with the name for a playback endpoint,
\* the other way round for a recording one, past every node of both filters
\* and back by the names in the descriptors (SarWaveFilterDescriptor,
\* SarTopologyFilterDescriptor; pin.cpp SarKsPinGetName).
THEOREM FoundIsConnected == Spec => []ConnectionsLeadBack
<1>1. IInv => ConnectionsLeadBack
  <2>. SUFFICES ASSUME IInv, NEW e \in Endpoints, Found(e)
                PROVE
        LET type == TypeOf[e]
            To(x) == PhysicalConnection(<<x[1], e>>, x[2])
            Connected == {x \in Kinds \X {0, 1} : To(x) # Nothing}
            Across == {<<Pin(x[1], x[2]), Pin(To(x)[1][1], To(x)[2])>> : x \in Connected}
            edges == WaveConnections(type) \cup TopologyConnections(type) \cup Across
            streams == CHOOSE p \in Kinds \X {0, 1} : PossibleCount(p[1], p[2]) = 1
            named == CHOOSE p \in Kinds \X {0, 1} : IsNamed(p[1], p[2])
            ends == IF type = "Playback" THEN <<streams, named>> ELSE <<named, streams>>
        IN /\ \A x \in Connected : To(x)[1][2] = e
           /\ Across # {} /\ \A x \in Across : <<x[2], x[1]>> \in Across
           /\ \A node \in UNION {NodeDescriptors(kind) : kind \in Kinds} :
                 /\ Reaches(Pin(ends[1][1], ends[1][2]), node, edges)
                 /\ Reaches(node, Pin(ends[2][1], ends[2][2]), edges)
           /\ DataFlow(ends[1][1], type, ends[1][2]) = "in"
           /\ DataFlow(ends[2][1], type, ends[2][2]) = "out"
    BY DEF ConnectionsLeadBack
  <2>. DEFINE type == TypeOf[e]
              To(x) == PhysicalConnection(<<x[1], e>>, x[2])
              Connected == {x \in Kinds \X {0, 1} : To(x) # Nothing}
              Across == {<<Pin(x[1], x[2]), Pin(To(x)[1][1], To(x)[2])>> : x \in Connected}
              edges == WaveConnections(type) \cup TopologyConnections(type) \cup Across
              streams == CHOOSE p \in Kinds \X {0, 1} : PossibleCount(p[1], p[2]) = 1
              named == CHOOSE p \in Kinds \X {0, 1} : IsNamed(p[1], p[2])
              ends == IF type = "Playback" THEN <<streams, named>> ELSE <<named, streams>>
              w == <<"wave", 1>>
              t == <<"topology", 0>>
  <2>1. link[<<"wave", e>>] = <<"wave", e>> /\ link[<<"topology", e>>] = <<"topology", e>>
    BY DEF IInv, LinkInv, Found, Kinds
  <2>2. /\ To(w) = <<<<"topology", e>>, 0>> /\ To(t) = <<<<"wave", e>>, 1>>
        /\ To(<<"wave", 0>>) = Nothing /\ To(<<"topology", 1>>) = Nothing
    BY <2>1 DEF PhysicalConnection, WavePhysicalConnection, TopologyPhysicalConnection
  <2>3. To(w) # Nothing /\ To(t) # Nothing
    BY <2>2, RegistrationAssumption DEF Filters, Kinds
  <2>4. Kinds \X {0, 1} = {<<"wave", 0>>, w, t, <<"topology", 1>>}
    BY DEF Kinds
  <2>. HIDE DEF To
  <2>5. Connected = {w, t}
    BY <2>2, <2>3, <2>4
  <2>6. Across = {<<Pin("wave", 1), Pin("topology", 0)>>, <<Pin("topology", 0), Pin("wave", 1)>>}
    BY <2>2, <2>5
  <2>7. streams = <<"wave", 0>>
    BY <2>4 DEF PossibleCount, Answers, WaveProperties, TopologyProperties
  <2>8. named = <<"topology", 1>>
    BY <2>4 DEF IsNamed, Answers, WaveProperties, TopologyProperties
  <2>9. \A x \in Connected : To(x)[1][2] = e
    BY <2>2, <2>5
  <2>10. Across # {} /\ \A x \in Across : <<x[2], x[1]>> \in Across
    <3>. HIDE DEF Across
    <3>. QED BY <2>6, ThereAndBack
  <2>. HIDE DEF Connected, Across, streams, named
  <2>. DEFINE Way(x) == \/ x = Node("wave", 0) \/ x = Node("topology", 0)
                        \/ x = Node("topology", 1)
              Whole == /\ \A node \in UNION {NodeDescriptors(kind) : kind \in Kinds} :
                             /\ Reaches(Pin(ends[1][1], ends[1][2]), node, edges)
                             /\ Reaches(node, Pin(ends[2][1], ends[2][2]), edges)
                       /\ DataFlow(ends[1][1], type, ends[1][2]) = "in"
                       /\ DataFlow(ends[2][1], type, ends[2][2]) = "out"
  <2>11. \A node \in UNION {NodeDescriptors(kind) : kind \in Kinds} : Way(node)
    BY DEF NodeDescriptors, Kinds
  <2>12. /\ <<Pin("wave", 1), Pin("topology", 0)>> \in edges
         /\ <<Pin("topology", 0), Pin("wave", 1)>> \in edges
    BY <2>6
  <2>13. ASSUME type = "Playback" PROVE Whole
    <3>1. ends[1] = <<"wave", 0>> /\ ends[2] = <<"topology", 1>>
      BY <2>7, <2>8, <2>13
    <3>2. /\ <<Pin("wave", 0), Node("wave", 0)>> \in edges
          /\ <<Node("wave", 0), Pin("wave", 1)>> \in edges
          /\ <<Pin("topology", 0), Node("topology", 0)>> \in edges
          /\ <<Node("topology", 0), Node("topology", 1)>> \in edges
          /\ <<Node("topology", 1), Pin("topology", 1)>> \in edges
      BY <2>13 DEF WaveConnections, TopologyConnections
    <3>. HIDE DEF edges, ends
    <3>3. \A x : Way(x) => /\ Reaches(Pin("wave", 0), x, edges)
                           /\ Reaches(x, Pin("topology", 1), edges)
      BY <2>12, <3>2, ReachesAlong
    <3>4. /\ DataFlow("wave", type, 0) = "in"
          /\ DataFlow("topology", type, 1) = "out"
      BY <2>13 DEF DataFlow, WavePins, TopologyPins
    <3>. HIDE DEF Way
    <3>. QED BY <2>11, <3>1, <3>3, <3>4 DEF Whole
  <2>14. ASSUME type = "Recording" PROVE Whole
    <3>1. ends[1] = <<"topology", 1>> /\ ends[2] = <<"wave", 0>>
      BY <2>7, <2>8, <2>14
    <3>2. /\ <<Pin("topology", 1), Node("topology", 0)>> \in edges
          /\ <<Node("topology", 0), Node("topology", 1)>> \in edges
          /\ <<Node("topology", 1), Pin("topology", 0)>> \in edges
          /\ <<Pin("wave", 1), Node("wave", 0)>> \in edges
          /\ <<Node("wave", 0), Pin("wave", 0)>> \in edges
      BY <2>14 DEF WaveConnections, TopologyConnections
    <3>. HIDE DEF edges, ends
    <3>3. \A x : Way(x) => /\ Reaches(Pin("topology", 1), x, edges)
                           /\ Reaches(x, Pin("wave", 0), edges)
      BY <2>12, <3>2, ReachesAlong
    <3>4. /\ DataFlow("topology", type, 1) = "in"
          /\ DataFlow("wave", type, 0) = "out"
      BY <2>14 DEF DataFlow, WavePins, TopologyPins
    <3>. HIDE DEF Way
    <3>. QED BY <2>11, <3>1, <3>3, <3>4 DEF Whole
  <2>15. type \in {"Playback", "Recording"}
    BY RegistrationAssumption
  <2>16. Whole
    BY <2>13, <2>14, <2>15
  <2>. QED BY <2>9, <2>10, <2>16 DEF To, Connected, Across, streams, named
<1>. QED BY <1>1, StageDecides, PTL
=============================================================================
