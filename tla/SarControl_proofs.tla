-------------------------- MODULE SarControl_proofs --------------------------
(* Safety of SarControl for a client that waits for the answer to a create. *)
EXTENDS SarControl, FiniteSetTheorems, TLAPS

\* What adding or removing one element does to a cardinality.
LEMMA CardinalityStep ==
    ASSUME NEW S, IsFiniteSet(S), NEW x
    PROVE  /\ IsFiniteSet(S \cup {x}) /\ IsFiniteSet(S \ {x})
           /\ Cardinality(S) \in Nat
           /\ x \notin S => Cardinality(S \cup {x}) = Cardinality(S) + 1
           /\ x \in S => Cardinality(S \ {x}) = Cardinality(S) - 1
                         /\ Cardinality(S) > 0
<1>1. /\ IsFiniteSet(S \cup {x}) /\ IsFiniteSet(S \ {x})
      /\ Cardinality(S) \in Nat
      /\ x \notin S => Cardinality(S \cup {x}) = Cardinality(S) + 1
      /\ x \in S => Cardinality(S \ {x}) = Cardinality(S) - 1
  BY FS_AddElement, FS_RemoveElement, FS_CardinalityType
<1>2. x \in S => Cardinality(S) > 0
  BY FS_EmptySet, FS_CardinalityType
<1>. QED BY <1>1, <1>2

\* The sets whose sizes the reference counts are compared with are finite.
LEMMA HoldersFinite ==
    /\ \A f : /\ IsFiniteSet(CtxWorkers(f)) /\ Cardinality(CtxWorkers(f)) \in Nat
              /\ IsFiniteSet(CtxHolders(f)) /\ Cardinality(CtxHolders(f)) \in Nat
    /\ \A e : IsFiniteSet(EpHolders(e)) /\ Cardinality(EpHolders(e)) \in Nat
<1>1. \A f : CtxWorkers(f) \subseteq Workers /\ CtxHolders(f) \subseteq Holders
  BY DEF CtxWorkers, CtxHolders
<1>2. \A e : EpHolders(e) \subseteq Holders
  BY DEF EpHolders
<1>. QED BY <1>1, <1>2, FS_Subset, FS_CardinalityType, FiniteAssumption

LEMMA InitIInv == Init => IInv
<1>. SUFFICES ASSUME Init PROVE IInv
  OBVIOUS
<1>1. TypeOK
  BY DistinctAssumption DEF Init, TypeOK, FileStates, Stages, IrpStates,
     HolderStates, IdleWorker, ClosedHolder
<1>2. FileInv /\ EndpointInv /\ ListInv
  BY DistinctAssumption DEF Init, FileInv, EndpointInv, ListInv, Waiting
<1>3. WorkerInv /\ HolderInv
  BY DistinctAssumption DEF Init, WorkerInv, HolderInv, IdleWorker, ClosedHolder
<1>4. \A f \in Files : CtxWorkers(f) = {} /\ CtxHolders(f) = {}
  BY DistinctAssumption
     DEF Init, CtxWorkers, CtxHolders, IdleWorker, ClosedHolder
<1>5. \A e \in Endpoints : EpHolders(e) = {}
  BY DistinctAssumption DEF Init, EpHolders, ClosedHolder
<1>6. /\ \A f \in Files : /\ Cardinality(CtxWorkers(f)) = 0
                          /\ Cardinality(CtxHolders(f)) = 0
      /\ \A e \in Endpoints : Cardinality(EpHolders(e)) = 0
  BY <1>4, <1>5, HoldersFinite, FS_EmptySet
<1>7. ContextRefsExact /\ EndpointRefsExact
  BY <1>6 DEF Init, ContextRefsExact, EndpointRefsExact, CtxBaseRefs,
              EpBaseRefs, CtxBase, EpBase
<1>8. OwnerOutlivesEndpoint
  BY DEF Init, OwnerOutlivesEndpoint
<1>. QED BY <1>1, <1>2, <1>3, <1>7, <1>8 DEF IInv

\* Steps that move no reference leave the counts as they are.
LEMMA CountsUnchanged ==
    /\ worker' = worker => \A f : Cardinality(CtxWorkers(f))' = Cardinality(CtxWorkers(f))
    /\ holder' = holder => \A f : Cardinality(CtxHolders(f))' = Cardinality(CtxHolders(f))
    /\ holder' = holder => \A e : Cardinality(EpHolders(e))' = Cardinality(EpHolders(e))
BY DEF CtxWorkers, CtxHolders, EpHolders

\* The counts, with the types their arithmetic needs.
LEMMA CountsTyped ==
    ASSUME IInv
    PROVE  /\ \A f \in Files :
                 /\ ctxRefs[f] \in Nat /\ itemQueued[f] \in Nat
                 /\ CtxBaseRefs(f) = IF CtxBase(f) THEN 1 ELSE 0
                 /\ Cardinality(CtxWorkers(f)) \in Nat
                 /\ Cardinality(CtxHolders(f)) \in Nat
                 /\ ctxRefs[f] = CtxBaseRefs(f) + itemQueued[f]
                       + Cardinality(CtxWorkers(f)) + Cardinality(CtxHolders(f))
           /\ \A e \in Endpoints :
                 /\ epRefs[e] \in Nat
                 /\ EpBaseRefs(e) = IF EpBase(e) THEN 1 ELSE 0
                 /\ Cardinality(EpHolders(e)) \in Nat
                 /\ epRefs[e] = EpBaseRefs(e) + Cardinality(EpHolders(e))
BY HoldersFinite DEF IInv, TypeOK, ContextRefsExact, EndpointRefsExact,
                     CtxBaseRefs, EpBaseRefs

\* Whatever points to a context or an endpoint is counted.
LEMMA ReferencedIsAlive ==
    ASSUME IInv
    PROVE  /\ \A f \in Files : CtxBase(f) \/ itemQueued[f] > 0 => ctxRefs[f] > 0
           /\ \A w \in Workers : worker[w].file \in Files => ctxRefs[worker[w].file] > 0
           /\ \A h \in Holders : holder[h].file \in Files => ctxRefs[holder[h].file] > 0
           /\ \A e \in Endpoints : EpBase(e) => epRefs[e] > 0
           /\ \A h \in Holders :
                 holder[h].pc \in {"looked", "claimed", "open", "dropEp"}
                 => epRefs[holder[h].ep] > 0
<1>1. /\ \A f \in Files : CtxBase(f) \/ itemQueued[f] > 0 => ctxRefs[f] > 0
      /\ \A e \in Endpoints : EpBase(e) => epRefs[e] > 0
  BY CountsTyped
<1>2. ASSUME NEW w \in Workers, worker[w].file \in Files
      PROVE  ctxRefs[worker[w].file] > 0
  <2>1. w \in CtxWorkers(worker[w].file)
    BY DEF CtxWorkers
  <2>2. Cardinality(CtxWorkers(worker[w].file)) > 0
    BY <2>1, CardinalityStep, HoldersFinite
  <2>. QED BY <1>2, <2>2, CountsTyped
<1>3. ASSUME NEW h \in Holders, holder[h].file \in Files
      PROVE  ctxRefs[holder[h].file] > 0
  <2>1. h \in CtxHolders(holder[h].file)
    BY DEF CtxHolders
  <2>2. Cardinality(CtxHolders(holder[h].file)) > 0
    BY <2>1, CardinalityStep, HoldersFinite
  <2>. QED BY <1>3, <2>2, CountsTyped
<1>4. ASSUME NEW h \in Holders,
             holder[h].pc \in {"looked", "claimed", "open", "dropEp"}
      PROVE  epRefs[holder[h].ep] > 0
  <2>1. h \in EpHolders(holder[h].ep)
    BY <1>4 DEF EpHolders
  <2>2. Cardinality(EpHolders(holder[h].ep)) > 0
    BY <2>1, CardinalityStep, HoldersFinite
  <2>3. holder[h].ep \in Endpoints
    BY <1>4 DEF IInv, TypeOK, HolderInv
  <2>. QED BY <2>2, <2>3, CountsTyped
<1>. QED BY <1>1, <1>2, <1>3, <1>4

-----------------------------------------------------------------------------
(* The client *)

LEMMA StepIrpCreate ==
    ASSUME IInv, NEW f \in Files, SarIrpCreate(f)
    PROVE  IInv'
<1>. USE DEF SarIrpCreate, listVars, epVars
<1>1. TypeOK'
  BY DEF IInv, TypeOK, FileStates
<1>2. FileInv' /\ EndpointInv' /\ ListInv'
  BY DEF IInv, TypeOK, FileInv, EndpointInv, ListInv, Waiting
<1>3. WorkerInv' /\ HolderInv'
  BY DEF IInv, WorkerInv, HolderInv
<1>4. ctxRefs[f] = 0 /\ ~CtxBase(f)
  BY CountsTyped DEF IInv, FileInv, CtxBase
<1>5. ContextRefsExact'
  <2>1. ctxRefs[f] = itemQueued[f] + Cardinality(CtxWorkers(f))
                     + Cardinality(CtxHolders(f))
    BY <1>4, CountsTyped
  <2>2. ASSUME NEW g \in Files
        PROVE  ctxRefs'[g] = CtxBaseRefs(g)' + itemQueued'[g]
                   + Cardinality(CtxWorkers(g))' + Cardinality(CtxHolders(g))'
    <3>1. CASE g = f
      BY <1>4, <2>1, <3>1, CountsUnchanged, HoldersFinite
         DEF IInv, TypeOK, CtxBaseRefs, CtxBase
    <3>2. CASE g # f
      BY <3>2, CountsUnchanged
         DEF IInv, TypeOK, ContextRefsExact, CtxBaseRefs, CtxBase
    <3>. QED BY <3>1, <3>2
  <2>. QED BY <2>2 DEF ContextRefsExact
<1>6. EndpointRefsExact' /\ OwnerOutlivesEndpoint'
  BY CountsUnchanged
     DEF IInv, TypeOK, EndpointRefsExact, OwnerOutlivesEndpoint, EpBaseRefs, EpBase
<1>. QED BY <1>1, <1>2, <1>3, <1>5, <1>6 DEF IInv

LEMMA StepSetBufferLayout ==
    ASSUME IInv, NEW f \in Files, SarSetBufferLayout(f)
    PROVE  IInv'
<1>. USE DistinctAssumption DEF SarSetBufferLayout, listVars, epVars, ctxVars
<1>1. TypeOK'
  BY DEF IInv, TypeOK
<1>2. FileInv' /\ EndpointInv' /\ ListInv' /\ WorkerInv' /\ HolderInv'
  BY DEF IInv, FileInv, EndpointInv, ListInv, WorkerInv, HolderInv, Waiting
<1>3. ContextRefsExact' /\ EndpointRefsExact' /\ OwnerOutlivesEndpoint'
  BY CountsUnchanged
     DEF IInv, ContextRefsExact, EndpointRefsExact, OwnerOutlivesEndpoint,
         CtxBaseRefs, CtxBase, EpBaseRefs, EpBase
<1>. QED BY <1>1, <1>2, <1>3 DEF IInv

\* The client waits: when it sends a request none of its endpoints is Waiting.
LEMMA StepCreateEndpoint ==
    ASSUME IInv, ~Overlapped, NEW f \in Files, NEW e \in Endpoints,
           SarCreateEndpoint(f, e)
    PROVE  IInv'
<1>. USE DistinctAssumption DEF SarCreateEndpoint, listVars, ctxVars
<1>1. TypeOK'
  BY DEF IInv, TypeOK, Stages, IrpStates
<1>2. \A d \in Endpoints : owner[d] = f => ~Waiting(d)
  BY DEF IInv, EndpointInv, Outstanding, Owned
<1>3. FileInv' /\ EndpointInv'
  BY <1>2 DEF IInv, TypeOK, FileInv, EndpointInv, Waiting
<1>4. ListInv'
  BY <1>2 DEF IInv, TypeOK, EndpointInv, ListInv, Waiting
<1>5. WorkerInv' /\ HolderInv'
  BY DEF IInv, TypeOK, EndpointInv, WorkerInv, HolderInv
<1>6. ContextRefsExact'
  BY CountsUnchanged DEF IInv, ContextRefsExact, CtxBaseRefs, CtxBase
<1>7. epRefs[e] = 0
  BY DEF IInv, EndpointInv
<1>8. EndpointRefsExact'
  <2>1. Cardinality(EpHolders(e)) = 0
    BY <1>7, HoldersFinite DEF IInv, EndpointRefsExact, EpBaseRefs, EpBase
  <2>2. ASSUME NEW d \in Endpoints
        PROVE  epRefs'[d] = EpBaseRefs(d)' + Cardinality(EpHolders(d))'
    <3>1. CASE d = e
      BY <2>1, <3>1, CountsUnchanged DEF IInv, TypeOK, EpBaseRefs, EpBase
    <3>2. CASE d # e
      BY <3>2, CountsUnchanged
         DEF IInv, TypeOK, EndpointRefsExact, EpBaseRefs, EpBase
    <3>. QED BY <3>1, <3>2
  <2>. QED BY <2>2 DEF EndpointRefsExact
<1>9. OwnerOutlivesEndpoint'
  <2>1. ctxState[f] = "live"
    BY ReferencedIsAlive DEF IInv, FileInv, CtxBase
  <2>. QED BY <2>1 DEF IInv, TypeOK, OwnerOutlivesEndpoint
<1>. QED BY <1>1, <1>3, <1>4, <1>5, <1>6, <1>8, <1>9 DEF IInv

LEMMA StepCreateFails ==
    ASSUME IInv, NEW e \in Endpoints, CreateFails(e)
    PROVE  IInv'
<1>. USE DistinctAssumption DEF CreateFails, listVars, ctxVars
<1>1. TypeOK'
  BY DEF IInv, TypeOK, Stages, IrpStates
<1>2. FileInv' /\ EndpointInv' /\ ListInv'
  BY DEF IInv, TypeOK, FileInv, EndpointInv, ListInv, Waiting
<1>3. WorkerInv' /\ HolderInv'
  BY DEF IInv, TypeOK, WorkerInv, HolderInv
<1>4. ContextRefsExact' /\ OwnerOutlivesEndpoint'
  BY CountsUnchanged
     DEF IInv, TypeOK, ContextRefsExact, OwnerOutlivesEndpoint, CtxBaseRefs, CtxBase
<1>5. EndpointRefsExact'
  <2>1. ASSUME NEW d \in Endpoints
        PROVE  epRefs'[d] = EpBaseRefs(d)' + Cardinality(EpHolders(d))'
    <3>1. CASE d = e
      <4>1. epRefs[e] = 1 /\ EpBase(e)
        BY DEF IInv, EndpointInv, Waiting, EpBase
      <4>2. Cardinality(EpHolders(e)) = 0
        BY <4>1, CountsTyped
      <4>. QED BY <3>1, <4>2, CountsUnchanged DEF IInv, TypeOK, EpBaseRefs, EpBase
    <3>2. CASE d # e
      BY <3>2, CountsUnchanged
         DEF IInv, TypeOK, EndpointRefsExact, EpBaseRefs, EpBase
    <3>. QED BY <3>1, <3>2
  <2>. QED BY <2>1 DEF EndpointRefsExact
<1>. QED BY <1>1, <1>2, <1>3, <1>4, <1>5 DEF IInv

\* The request joins the empty list; the work item takes a reference.
LEMMA StepQueuePending ==
    ASSUME IInv, NEW e \in Endpoints, QueuePending(e)
    PROVE  IInv'
<1>. DEFINE f == owner[e]
<1>1. f \in Files /\ stage[e] = "building"
  BY DistinctAssumption DEF IInv, TypeOK, EndpointInv, QueuePending
<1>2. pending[f] = <<>> /\ itemQueued[f] = 0
  BY <1>1 DEF IInv, TypeOK, ListInv, Waiting
<1>3. /\ pending' = [pending EXCEPT ![f] = <<e>>]
      /\ ctxRefs' = [ctxRefs EXCEPT ![f] = @ + 1]
      /\ itemQueued' = [itemQueued EXCEPT ![f] = @ + 1]
      /\ stage' = [stage EXCEPT ![e] = "queued"]
      /\ UNCHANGED <<file, table, ctxState, layoutSet, active, orphans,
                     owner, epRefs, activePin, irp, worker, holder>>
  BY <1>1, <1>2
     DEF QueuePending, RunWorkItem, SarRetainControlContext, IInv, TypeOK
<1>. HIDE DEF f
<1>4. TypeOK'
  BY <1>1, <1>3 DEF IInv, TypeOK, Stages
<1>5. FileInv'
  <2>1. ctxRefs[f] > 0 /\ ctxRefs[f] \in Nat
    BY <1>1, ReferencedIsAlive, CountsTyped DEF f, IInv, EndpointInv, CtxBase
  <2>. QED BY <1>1, <1>3, <2>1 DEF IInv, TypeOK, FileInv
<1>6. EndpointInv'
  <2>1. \A d \in Endpoints : owner[d] = f => stage[d] # "queued"
    <3>1. \A d : <<d>> # << >>
      OBVIOUS
    <3>2. \A d \in Endpoints : stage[d] = "queued" => pending[owner[d]] = <<d>>
      BY DEF IInv, EndpointInv
    <3>. QED BY <1>2, <3>1, <3>2
  <2>2. /\ \A d \in Endpoints : d # e => stage'[d] = stage[d]
        /\ stage'[e] = "queued" /\ pending'[f] = <<e>>
        /\ \A g \in Files : g # f => pending'[g] = pending[g]
    BY <1>1, <1>3 DEF IInv, TypeOK
  <2>3. \A d \in Endpoints : stage[d] = "queued" =>
            owner[d] \in Files /\ owner[d] # f
    BY <2>1 DEF IInv, TypeOK, EndpointInv
  <2>. QED BY <1>1, <1>3, <2>2, <2>3 DEF f, IInv, EndpointInv, Waiting
<1>7. ListInv'
  BY <1>1, <1>2, <1>3 DEF f, IInv, TypeOK, ListInv, Waiting
<1>8. WorkerInv' /\ HolderInv'
  BY <1>1, <1>3 DEF IInv, TypeOK, WorkerInv, HolderInv
<1>9. ContextRefsExact'
  <2>1. ASSUME NEW g \in Files
        PROVE  ctxRefs'[g] = CtxBaseRefs(g)' + itemQueued'[g]
                   + Cardinality(CtxWorkers(g))' + Cardinality(CtxHolders(g))'
    <3>1. CtxBaseRefs(g)' = CtxBaseRefs(g) /\ CtxBaseRefs(g) \in {0, 1}
      BY <1>3 DEF CtxBaseRefs, CtxBase
    <3>2. /\ ctxRefs'[g] = IF g = f THEN ctxRefs[g] + 1 ELSE ctxRefs[g]
          /\ itemQueued'[g] = IF g = f THEN itemQueued[g] + 1 ELSE itemQueued[g]
      BY <1>1, <1>3 DEF IInv, TypeOK
    <3>. QED BY <1>3, <3>1, <3>2, CountsTyped, CountsUnchanged
  <2>. QED BY <2>1 DEF ContextRefsExact
<1>10. EndpointRefsExact' /\ OwnerOutlivesEndpoint'
  BY <1>1, <1>3, CountsUnchanged
     DEF IInv, TypeOK, EndpointRefsExact, OwnerOutlivesEndpoint, EpBaseRefs, EpBase
<1>. QED BY <1>4, <1>5, <1>6, <1>7, <1>8, <1>9, <1>10 DEF IInv

LEMMA StepBeginOrphan ==
    ASSUME IInv, NEW f \in Files, SarIrpCleanup(f) \/ SarIrpClose(f)
    PROVE  IInv'
<1>1. /\ table' = table \ {f}
      /\ file[f] \in {"open", "cleaned"}
      /\ file' = [file EXCEPT ![f] = IF file[f] = "open" THEN "unlinked"
                                                         ELSE "closed"]
      /\ \A e \in Endpoints : owner[e] = f => stage[e] # "building"
      /\ UNCHANGED <<ctxVars, layoutSet, listVars, orphans, itemQueued, epVars,
                     owner, activePin, irp, worker, holder>>
  BY DEF SarIrpCleanup, SarIrpClose, BeginOrphan, FoundInTable, Building, Owned,
         IInv, FileInv, EndpointInv
<1>. USE <1>1 DEF listVars, epVars, ctxVars
<1>2. TypeOK'
  BY DEF IInv, TypeOK, FileStates
<1>3. FileInv' /\ EndpointInv' /\ ListInv'
  BY DEF IInv, TypeOK, FileInv, EndpointInv, ListInv, Waiting
<1>4. WorkerInv' /\ HolderInv'
  BY DEF IInv, WorkerInv, HolderInv
<1>5. ContextRefsExact' /\ EndpointRefsExact' /\ OwnerOutlivesEndpoint'
  BY CountsUnchanged
     DEF IInv, TypeOK, ContextRefsExact, EndpointRefsExact, OwnerOutlivesEndpoint,
         CtxBaseRefs, CtxBase, EpBaseRefs, EpBase
<1>. QED BY <1>2, <1>3, <1>4, <1>5 DEF IInv

LEMMA StepOrphanDetach ==
    ASSUME IInv, NEW f \in Files, OrphanDetach(f)
    PROVE  IInv'
<1>. USE DEF OrphanDetach, listVars, ctxVars
<1>1. TypeOK'
  BY DEF IInv, TypeOK, FileStates, Stages
<1>2. FileInv'
  BY DEF IInv, TypeOK, FileInv
<1>3. EndpointInv' /\ ListInv'
  <2>1. /\ orphans[f] = {}
        /\ \A e \in active[f] : stage[e] = "active" /\ owner[e] = f
    BY DEF IInv, FileInv, ListInv
  <2>2. \A e \in Endpoints : stage[e] = "active" /\ owner[e] = f => e \in active[f]
    BY DEF IInv, EndpointInv
  <2>3. \A e \in Endpoints :
           \/ /\ e \in active[f] /\ stage[e] = "active" /\ owner[e] = f
              /\ stage'[e] = "orphaning"
           \/ e \notin active[f] /\ stage'[e] = stage[e]
    BY <2>1
  <2>4. /\ orphans'[f] = active[f] /\ active'[f] = {}
        /\ \A g \in Files : g # f => orphans'[g] = orphans[g] /\ active'[g] = active[g]
    BY DEF IInv, TypeOK
  <2>5. EndpointInv'
    <3>1. ASSUME NEW e \in Endpoints
          PROVE  /\ stage'[e] = "active" => e \in active'[owner[e]]
                 /\ stage'[e] = "orphaning" => e \in orphans'[owner[e]]
                 /\ stage[e] = "building" => owner[e] # f
                 /\ stage[e] \notin {"active", "orphaning"}
                       => stage'[e] = stage[e]
                 /\ stage[e] \in {"active", "orphaning"}
                       => stage'[e] \in {"active", "orphaning"}
      BY <2>1, <2>2, <2>3, <2>4 DEF IInv, TypeOK, EndpointInv
    <3>2. \A e \in Endpoints : stage[e] = "building" => file'[owner[e]] = "open"
      BY <3>1 DEF IInv, TypeOK, EndpointInv
    <3>. QED BY <3>1, <3>2 DEF IInv, EndpointInv, Waiting
  <2>6. ListInv'
    <3>1. \A e \in Endpoints : /\ stage[e] = "queued" => stage'[e] = "queued"
                               /\ Waiting(e)' <=> Waiting(e)
      BY <2>3 DEF Waiting
    <3>2. \A g \in Files : /\ \A e \in active'[g] : stage'[e] = "active" /\ owner[e] = g
                           /\ \A e \in orphans'[g] : stage'[e] = "orphaning" /\ owner[e] = g
      BY <2>1, <2>3, <2>4 DEF IInv, TypeOK, ListInv
    <3>. QED BY <3>1, <3>2 DEF IInv, ListInv
  <2>. QED BY <2>5, <2>6
<1>4. WorkerInv' /\ HolderInv'
  BY DEF IInv, TypeOK, ListInv, WorkerInv, HolderInv
<1>5. ContextRefsExact'
  BY CountsUnchanged DEF IInv, TypeOK, ContextRefsExact, CtxBaseRefs, CtxBase
<1>6. EndpointRefsExact' /\ OwnerOutlivesEndpoint'
  BY CountsUnchanged
     DEF IInv, TypeOK, ListInv, EndpointRefsExact, OwnerOutlivesEndpoint,
         EpBaseRefs, EpBase
<1>. QED BY <1>1, <1>2, <1>3, <1>4, <1>5, <1>6 DEF IInv

LEMMA StepOrphanEndpoint ==
    ASSUME IInv, NEW f \in Files, NEW e \in Endpoints, SarOrphanEndpoint(f, e)
    PROVE  IInv'
<1>1. stage[e] = "orphaning" /\ owner[e] = f /\ epRefs[e] \in Nat /\ epRefs[e] > 0
  BY ReferencedIsAlive DEF SarOrphanEndpoint, IInv, TypeOK, ListInv, EpBase
<1>2. /\ orphans' = [orphans EXCEPT ![f] = @ \ {e}]
      /\ epRefs' = [epRefs EXCEPT ![e] = @ - 1]
      /\ stage' = [stage EXCEPT ![e] = IF epRefs[e] = 1 THEN "freed" ELSE "released"]
      /\ file[f] = "draining"
      /\ UNCHANGED <<file, table, ctxState, ctxRefs, layoutSet, pending, active,
                     itemQueued, owner, activePin, irp, worker, holder>>
  BY DEF SarOrphanEndpoint, ReleaseEndpoints, listVars, ctxVars, IInv, TypeOK
<1>3. TypeOK'
  BY <1>1, <1>2 DEF IInv, TypeOK, Stages
<1>4. FileInv' /\ EndpointInv' /\ ListInv'
  BY <1>1, <1>2 DEF IInv, TypeOK, FileInv, EndpointInv, ListInv, Waiting
<1>5. WorkerInv' /\ HolderInv'
  BY <1>1, <1>2 DEF IInv, TypeOK, WorkerInv, HolderInv
<1>6. ContextRefsExact'
  BY <1>2, CountsUnchanged DEF IInv, ContextRefsExact, CtxBaseRefs, CtxBase
<1>7. EndpointRefsExact'
  <2>1. ASSUME NEW d \in Endpoints
        PROVE  epRefs'[d] = EpBaseRefs(d)' + Cardinality(EpHolders(d))'
    <3>1. EpBase(e) /\ ~EpBase(e)'
      BY <1>1, <1>2 DEF EpBase, IInv, TypeOK
    <3>2. d # e => epRefs'[d] = epRefs[d] /\ EpBaseRefs(d)' = EpBaseRefs(d)
      BY <1>2 DEF EpBaseRefs, EpBase, IInv, TypeOK
    <3>3. epRefs'[e] = epRefs[e] - 1 /\ EpBaseRefs(e)' = 0
      BY <1>2, <3>1 DEF EpBaseRefs, IInv, TypeOK
    <3>. QED BY <1>2, <3>1, <3>2, <3>3, CountsTyped, CountsUnchanged
  <2>. QED BY <2>1 DEF EndpointRefsExact
<1>8. OwnerOutlivesEndpoint'
  BY <1>1, <1>2 DEF IInv, TypeOK, OwnerOutlivesEndpoint
<1>. QED BY <1>3, <1>4, <1>5, <1>6, <1>7, <1>8 DEF IInv

-----------------------------------------------------------------------------
(* The last reference to a context *)

\* What is left to SarDeleteControlContext: endpoints that only it refers to.
OnlyListed(f) == \A e \in Endpoints :
    owner[e] = f => \/ stage[e] = "active" /\ epRefs[e] = 1
                    \/ stage[e] = "freed"

\* Two members of a set of one element are equal.
LEMMA OneMember ==
    ASSUME NEW S, IsFiniteSet(S), Cardinality(S) = 1, NEW x \in S, NEW y \in S
    PROVE  x = y
BY FS_Singleton

\* When nothing but the releaser refers to the context, nothing but the
\* endpoint list refers to its endpoints.
LEMMA LastReference ==
    ASSUME IInv, NEW f \in Files,
           \A w \in Workers : worker[w].file = f => worker[w].pc = "exiting",
           \A h \in Holders : holder[h].file = f => holder[h].pc = "dropCtx",
           itemQueued[f] = 0, file[f] # "open", orphans[f] = {}
    PROVE  OnlyListed(f)
<1>1. pending[f] = << >>
  BY DEF IInv, ListInv
<1>2. SUFFICES ASSUME NEW e \in Endpoints, owner[e] = f
               PROVE  \/ stage[e] = "active" /\ epRefs[e] = 1
                      \/ stage[e] = "freed"
  BY DEF OnlyListed
<1>3. stage[e] \notin {"absent", "building", "orphaning"}
  BY <1>2, DistinctAssumption DEF IInv, EndpointInv
<1>4. stage[e] # "queued"
  <2>1. << >> # <<e>>
    OBVIOUS
  <2>2. stage[e] = "queued" => pending[f] = <<e>>
    BY <1>2 DEF IInv, EndpointInv
  <2>. QED BY <1>1, <2>1, <2>2
<1>5. stage[e] # "configuring"
  <2>1. stage[e] = "configuring" =>
           \E w \in Workers : worker[w].pc = "configuring" /\ worker[w].file = f
    BY <1>2 DEF IInv, EndpointInv, WorkerInv
  <2>. QED BY <2>1
<1>6. Cardinality(EpHolders(e)) = 0
  <2>1. \A h \in Holders :
           ~(holder[h].ep = e /\ holder[h].pc \in {"looked", "claimed", "open", "dropEp"})
    BY <1>2 DEF IInv, HolderInv
  <2>2. EpHolders(e) = {}
    BY <2>1 DEF EpHolders
  <2>. QED BY <2>2, FS_EmptySet
<1>7. stage[e] \in {"active", "released", "freed"}
  BY <1>3, <1>4, <1>5 DEF IInv, TypeOK, Stages
<1>8. CASE stage[e] = "released"
  <2>1. epRefs[e] = 0
    BY <1>6, <1>8, CountsTyped DEF EpBase
  <2>. QED BY <1>8, <2>1 DEF IInv, EndpointInv
<1>9. CASE stage[e] = "active"
  <2>1. epRefs[e] = 1
    BY <1>6, <1>9, CountsTyped DEF EpBase
  <2>. QED BY <1>9, <2>1
<1>. QED BY <1>7, <1>8, <1>9

\* Without its last reference a context takes its listed endpoints along; its
\* pending list is already empty.
LEMMA ReleaseContextEffect ==
    ASSUME IInv, NEW f \in Files, ReleaseContext(f),
           ctxRefs[f] = 1 => OnlyListed(f)
    PROVE  LET D == IF ctxRefs[f] = 1 THEN active[f] ELSE {} IN
           /\ ctxRefs' = [ctxRefs EXCEPT ![f] = @ - 1]
           /\ ctxState' = [ctxState EXCEPT ![f] = IF ctxRefs[f] = 1 THEN "freed" ELSE @]
           /\ pending' = pending
           /\ active' = [active EXCEPT ![f] = @ \ D]
           /\ stage' = [e \in Endpoints |-> IF e \in D THEN "freed" ELSE stage[e]]
           /\ epRefs' = [e \in Endpoints |-> IF e \in D THEN 0 ELSE epRefs[e]]
           /\ D \subseteq Endpoints
           /\ \A e \in D : stage[e] = "active" /\ owner[e] = f /\ epRefs[e] = 1
<1>1. CASE ctxRefs[f] # 1
  BY <1>1 DEF ReleaseContext, epVars, listVars, IInv, TypeOK
<1>2. CASE ctxRefs[f] = 1
  <2>1. /\ active[f] \subseteq Endpoints
        /\ \A e \in active[f] : stage[e] = "active" /\ owner[e] = f /\ epRefs[e] = 1
    BY <1>2 DEF IInv, TypeOK, ListInv, OnlyListed
  <2>2. pending[f] = << >>
    BY <1>2 DEF IInv, ListInv, OnlyListed
  <2>3. DeletedWith(f) = active[f]
    BY <2>2 DEF DeletedWith, Range
  <2>4. /\ ctxRefs' = [ctxRefs EXCEPT ![f] = @ - 1]
        /\ ctxState' = [ctxState EXCEPT ![f] = "freed"]
        /\ ReleaseEndpoints(active[f])
        /\ active' = [active EXCEPT ![f] = {}]
        /\ pending' = [pending EXCEPT ![f] = << >>]
    BY <1>2, <2>3 DEF ReleaseContext
  <2>5. pending' = pending
    BY <2>2, <2>4 DEF IInv, TypeOK
  <2>6. /\ stage' = [e \in Endpoints |-> IF e \in active[f] THEN "freed" ELSE stage[e]]
        /\ epRefs' = [e \in Endpoints |-> IF e \in active[f] THEN 0 ELSE epRefs[e]]
    BY <2>1, <2>4 DEF ReleaseEndpoints
  <2>7. active' = [active EXCEPT ![f] = @ \ active[f]]
    BY <2>4 DEF IInv, TypeOK
  <2>. QED BY <1>2, <2>1, <2>4, <2>5, <2>6, <2>7
<1>. QED BY <1>1, <1>2

\* What releasing a context keeps, whoever does it.
LEMMA ReleaseKeeps ==
    ASSUME IInv, NEW f \in Files, ReleaseContext(f), ctxRefs[f] > 0,
           ctxRefs[f] = 1 => OnlyListed(f),
           UNCHANGED <<table, layoutSet, orphans, itemQueued, owner, activePin, irp>>,
           \A g \in Files : file[g] = "open" => file'[g] = "open",
           \A w \in Workers : worker[w].pc = "configuring" => worker'[w] = worker[w],
           \A e \in Endpoints : Cardinality(EpHolders(e))' = Cardinality(EpHolders(e))
    PROVE  /\ ctxRefs' = [ctxRefs EXCEPT ![f] = @ - 1]
           /\ ctxState' = [ctxState EXCEPT ![f] = IF ctxRefs[f] = 1 THEN "freed" ELSE @]
           /\ ctxRefs' \in [Files -> Nat]
           /\ ctxState' \in [Files -> {"none", "live", "freed"}]
           /\ pending' \in [Files -> Seq(Endpoints)]
           /\ active' \in [Files -> SUBSET Endpoints]
           /\ stage' \in [Endpoints -> Stages]
           /\ epRefs' \in [Endpoints -> Nat]
           /\ \A e \in Endpoints : stage[e] = "configuring" => stage'[e] = "configuring"
           /\ EndpointInv' /\ ListInv' /\ EndpointRefsExact' /\ OwnerOutlivesEndpoint'
<1>. DEFINE D == IF ctxRefs[f] = 1 THEN active[f] ELSE {}
<1>1. /\ ctxRefs' = [ctxRefs EXCEPT ![f] = @ - 1]
      /\ ctxState' = [ctxState EXCEPT ![f] = IF ctxRefs[f] = 1 THEN "freed" ELSE @]
      /\ pending' = pending
      /\ active' = [active EXCEPT ![f] = @ \ D]
      /\ stage' = [e \in Endpoints |-> IF e \in D THEN "freed" ELSE stage[e]]
      /\ epRefs' = [e \in Endpoints |-> IF e \in D THEN 0 ELSE epRefs[e]]
      /\ D \subseteq Endpoints
      /\ \A e \in D : stage[e] = "active" /\ owner[e] = f /\ epRefs[e] = 1
  BY ReleaseContextEffect
<1>2. ctxRefs[f] = 1 => D = active[f]
  OBVIOUS
<1>. HIDE DEF D
<1>3. /\ ctxRefs' \in [Files -> Nat]
      /\ ctxState' \in [Files -> {"none", "live", "freed"}]
      /\ pending' \in [Files -> Seq(Endpoints)]
      /\ active' \in [Files -> SUBSET Endpoints]
      /\ stage' \in [Endpoints -> Stages]
      /\ epRefs' \in [Endpoints -> Nat]
  BY <1>1 DEF IInv, TypeOK, Stages
<1>4. \A e \in Endpoints :
         \/ /\ e \in D /\ stage[e] = "active" /\ owner[e] = f /\ epRefs[e] = 1
            /\ stage'[e] = "freed" /\ epRefs'[e] = 0
         \/ e \notin D /\ stage'[e] = stage[e] /\ epRefs'[e] = epRefs[e]
  BY <1>1
<1>5. \A g \in Files : active'[g] = active[g] \ D
  BY <1>1 DEF IInv, TypeOK, ListInv
<1>6. EndpointInv'
  <2>1. \A e \in Endpoints : /\ stage'[e] = "active" => e \in active'[owner[e]]
                             /\ stage[e] = "building" => file'[owner[e]] = "open"
    <3>1. ASSUME NEW e \in Endpoints, stage[e] # "absent"
          PROVE  /\ owner[e] \in Files
                 /\ stage[e] = "active" => e \in active[owner[e]]
                 /\ stage[e] = "building" => file[owner[e]] = "open"
      BY <3>1, DistinctAssumption DEF IInv, TypeOK, EndpointInv
    <3>. QED BY <1>4, <1>5, <3>1
  <2>2. \A e \in Endpoints : stage[e] = "configuring" =>
           \E w \in Workers : worker'[w].pc = "configuring" /\ worker'[w].ep = e
    BY DEF IInv, EndpointInv
  <2>. QED BY <1>1, <1>4, <2>1, <2>2 DEF IInv, EndpointInv, Waiting
<1>7. ListInv'
  <2>1. \A e \in Endpoints : /\ Waiting(e)' <=> Waiting(e)
                             /\ stage[e] \in {"queued", "orphaning"} => stage'[e] = stage[e]
    BY <1>4 DEF Waiting
  <2>2. \A g \in Files : \A e \in active'[g] : stage'[e] = "active" /\ owner[e] = g
    BY <1>4, <1>5 DEF IInv, TypeOK, ListInv
  <2>3. \A g \in Files : \A e \in orphans[g] : stage'[e] = "orphaning" /\ owner[e] = g
    BY <2>1 DEF IInv, TypeOK, ListInv
  <2>. QED BY <1>1, <2>1, <2>2, <2>3 DEF IInv, ListInv
<1>8. EndpointRefsExact'
  <2>1. ASSUME NEW e \in Endpoints
        PROVE  epRefs'[e] = EpBaseRefs(e)' + Cardinality(EpHolders(e))'
    <3>1. CASE e \in D
      <4>1. Cardinality(EpHolders(e)) = 0
        BY <1>4, <3>1, CountsTyped DEF EpBase
      <4>. QED BY <1>4, <3>1, <4>1 DEF EpBaseRefs, EpBase
    <3>2. CASE e \notin D
      BY <1>4, <3>2, CountsTyped DEF EpBaseRefs, EpBase
    <3>. QED BY <3>1, <3>2
  <2>. QED BY <2>1 DEF EndpointRefsExact
<1>9. OwnerOutlivesEndpoint'
  <2>1. ASSUME NEW e \in Endpoints, stage'[e] \notin {"absent", "freed"}
        PROVE  ctxState'[owner[e]] = "live"
    <3>1. /\ stage[e] \notin {"absent", "freed"} /\ ctxState[owner[e]] = "live"
          /\ e \notin D /\ stage'[e] = stage[e] /\ owner[e] \in Files
      BY <1>4, <2>1 DEF IInv, TypeOK, EndpointInv, OwnerOutlivesEndpoint
    <3>2. ~(owner[e] = f /\ ctxRefs[f] = 1)
      <4>1. stage[e] = "active" => e \in active[owner[e]]
        BY DEF IInv, EndpointInv
      <4>. QED BY <1>2, <3>1, <4>1 DEF OnlyListed
    <3>. QED BY <1>1, <3>1, <3>2 DEF IInv, TypeOK
  <2>. QED BY <2>1 DEF OwnerOutlivesEndpoint
<1>10. \A e \in Endpoints : stage[e] = "configuring" => stage'[e] = "configuring"
  BY <1>4
<1>. QED BY <1>1, <1>3, <1>6, <1>7, <1>8, <1>9, <1>10

\* The thread orphaning the context drops the reference of the handle.
LEMMA StepOrphanRelease ==
    ASSUME IInv, NEW f \in Files, OrphanRelease(f)
    PROVE  IInv'
<1>1. /\ file[f] = "draining" /\ orphans[f] = {}
      /\ file' = [file EXCEPT ![f] = "cleaned"]
      /\ ReleaseContext(f)
      /\ UNCHANGED <<table, layoutSet, orphans, itemQueued, owner, activePin,
                     irp, worker, holder>>
  BY DEF OrphanRelease
<1>2. ctxRefs[f] \in Nat /\ ctxRefs[f] > 0
  BY <1>1, CountsTyped, ReferencedIsAlive DEF CtxBase
<1>3. ASSUME ctxRefs[f] = 1 PROVE OnlyListed(f)
  <2>1. /\ Cardinality(CtxWorkers(f)) = 0 /\ Cardinality(CtxHolders(f)) = 0
        /\ itemQueued[f] = 0
    BY <1>1, <1>3, CountsTyped DEF CtxBase
  <2>2. CtxWorkers(f) = {} /\ CtxHolders(f) = {}
    BY <2>1, HoldersFinite, FS_EmptySet
  <2>3. /\ \A w \in Workers : worker[w].file # f
        /\ \A h \in Holders : holder[h].file # f
    BY <2>2 DEF CtxWorkers, CtxHolders
  <2>. QED BY <1>1, <2>1, <2>3, LastReference
<1>4. /\ \A g \in Files : file[g] = "open" => file'[g] = "open"
      /\ \A w \in Workers : worker[w].pc = "configuring" => worker'[w] = worker[w]
      /\ \A e \in Endpoints : Cardinality(EpHolders(e))' = Cardinality(EpHolders(e))
  BY <1>1, CountsUnchanged DEF IInv, TypeOK
<1>5. /\ ctxRefs' = [ctxRefs EXCEPT ![f] = @ - 1]
      /\ ctxState' = [ctxState EXCEPT ![f] = IF ctxRefs[f] = 1 THEN "freed" ELSE @]
      /\ ctxRefs' \in [Files -> Nat]
      /\ ctxState' \in [Files -> {"none", "live", "freed"}]
      /\ pending' \in [Files -> Seq(Endpoints)]
      /\ active' \in [Files -> SUBSET Endpoints]
      /\ stage' \in [Endpoints -> Stages]
      /\ epRefs' \in [Endpoints -> Nat]
      /\ \A e \in Endpoints : stage[e] = "configuring" => stage'[e] = "configuring"
      /\ EndpointInv' /\ ListInv' /\ EndpointRefsExact' /\ OwnerOutlivesEndpoint'
  BY <1>1, <1>2, <1>3, <1>4, ReleaseKeeps
<1>6. TypeOK'
  BY <1>1, <1>5 DEF IInv, TypeOK, FileStates
<1>7. FileInv'
  BY <1>1, <1>2, <1>5 DEF IInv, TypeOK, FileInv
<1>8. WorkerInv' /\ HolderInv'
  BY <1>1, <1>5 DEF IInv, TypeOK, WorkerInv, HolderInv
<1>9. ContextRefsExact'
  <2>1. ASSUME NEW g \in Files
        PROVE  ctxRefs'[g] = CtxBaseRefs(g)' + itemQueued'[g]
                   + Cardinality(CtxWorkers(g))' + Cardinality(CtxHolders(g))'
    <3>1. /\ CtxBaseRefs(g) = IF g = f THEN 1 ELSE CtxBaseRefs(g)
          /\ CtxBaseRefs(g)' = IF g = f THEN 0 ELSE CtxBaseRefs(g)
      BY <1>1 DEF CtxBaseRefs, CtxBase, IInv, TypeOK
    <3>2. ctxRefs'[g] = IF g = f THEN ctxRefs[g] - 1 ELSE ctxRefs[g]
      BY <1>5 DEF IInv, TypeOK
    <3>. QED BY <1>1, <3>1, <3>2, CountsTyped, CountsUnchanged
  <2>. QED BY <2>1 DEF ContextRefsExact
<1>. QED BY <1>5, <1>6, <1>7, <1>8, <1>9 DEF IInv

\* The worker that has left the loop drops the work item's reference.
LEMMA StepExitWork ==
    ASSUME IInv, NEW w \in Workers, ExitWork(w)
    PROVE  IInv'
<1>. DEFINE f == worker[w].file
<1>1. /\ worker[w].pc = "exiting"
      /\ f \in Files
      /\ worker' = [worker EXCEPT ![w] = IdleWorker]
      /\ ReleaseContext(f)
      /\ UNCHANGED <<file, table, layoutSet, orphans, itemQueued, owner,
                     activePin, irp, holder>>
  BY DEF ExitWork, IInv, TypeOK, WorkerInv
<1>2. w \in CtxWorkers(f)
  BY DEF CtxWorkers
<1>. HIDE DEF f
<1>3. ctxRefs[f] \in Nat /\ ctxRefs[f] > 0
  BY <1>1, CountsTyped, ReferencedIsAlive DEF f
<1>4. ASSUME ctxRefs[f] = 1 PROVE OnlyListed(f)
  <2>1. Cardinality(CtxWorkers(f)) > 0 /\ Cardinality(CtxWorkers(f)) \in Nat
    BY <1>2, HoldersFinite, CardinalityStep
  <2>2. /\ Cardinality(CtxWorkers(f)) = 1 /\ Cardinality(CtxHolders(f)) = 0
        /\ itemQueued[f] = 0 /\ ~CtxBase(f)
    BY <1>1, <1>4, <2>1, CountsTyped
  <2>3. \A v \in CtxWorkers(f) : v = w
    BY <1>2, <2>2, HoldersFinite, OneMember
  <2>4. \A v \in Workers : worker[v].file = f => worker[v].pc = "exiting"
    BY <1>1, <2>3 DEF CtxWorkers
  <2>5. CtxHolders(f) = {}
    BY <2>2, HoldersFinite, FS_EmptySet
  <2>6. \A h \in Holders : holder[h].file # f
    BY <2>5 DEF CtxHolders
  <2>7. file[f] # "open" /\ orphans[f] = {}
    BY <1>1, <2>2 DEF CtxBase, IInv, FileInv
  <2>. QED BY <1>1, <2>2, <2>4, <2>6, <2>7, LastReference
<1>5. /\ \A g \in Files : file[g] = "open" => file'[g] = "open"
      /\ \A v \in Workers : worker[v].pc = "configuring" => worker'[v] = worker[v]
      /\ \A e \in Endpoints : Cardinality(EpHolders(e))' = Cardinality(EpHolders(e))
  BY <1>1, CountsUnchanged DEF IInv, TypeOK
<1>6. /\ ctxRefs' = [ctxRefs EXCEPT ![f] = @ - 1]
      /\ ctxState' = [ctxState EXCEPT ![f] = IF ctxRefs[f] = 1 THEN "freed" ELSE @]
      /\ ctxRefs' \in [Files -> Nat]
      /\ ctxState' \in [Files -> {"none", "live", "freed"}]
      /\ pending' \in [Files -> Seq(Endpoints)]
      /\ active' \in [Files -> SUBSET Endpoints]
      /\ stage' \in [Endpoints -> Stages]
      /\ epRefs' \in [Endpoints -> Nat]
      /\ \A e \in Endpoints : stage[e] = "configuring" => stage'[e] = "configuring"
      /\ EndpointInv' /\ ListInv' /\ EndpointRefsExact' /\ OwnerOutlivesEndpoint'
  BY <1>1, <1>3, <1>4, <1>5, ReleaseKeeps
<1>7. TypeOK'
  BY <1>1, <1>6 DEF IInv, TypeOK, IdleWorker
<1>8. FileInv'
  BY <1>1, <1>3, <1>6 DEF IInv, TypeOK, FileInv
<1>9. WorkerInv' /\ HolderInv'
  <2>1. WorkerInv'
    BY <1>1, <1>6 DEF IInv, TypeOK, WorkerInv, IdleWorker
  <2>2. HolderInv'
    BY <1>1 DEF IInv, HolderInv
  <2>. QED BY <2>1, <2>2
<1>10. ContextRefsExact'
  <2>1. ASSUME NEW g \in Files
        PROVE  ctxRefs'[g] = CtxBaseRefs(g)' + itemQueued'[g]
                   + Cardinality(CtxWorkers(g))' + Cardinality(CtxHolders(g))'
    <3>1. CtxBaseRefs(g)' = CtxBaseRefs(g) /\ CtxBaseRefs(g) \in Nat
      BY <1>1 DEF CtxBaseRefs, CtxBase
    <3>2. ctxRefs'[g] = IF g = f THEN ctxRefs[g] - 1 ELSE ctxRefs[g]
      BY <1>6 DEF IInv, TypeOK
    <3>3. CtxWorkers(g)' = IF g = f THEN CtxWorkers(g) \ {w} ELSE CtxWorkers(g)
      BY <1>1, DistinctAssumption DEF f, CtxWorkers, IdleWorker, IInv, TypeOK
    <3>4. Cardinality(CtxWorkers(g))' = IF g = f THEN Cardinality(CtxWorkers(g)) - 1
                                                 ELSE Cardinality(CtxWorkers(g))
      BY <1>2, <3>3, HoldersFinite, CardinalityStep
    <3>. QED BY <1>1, <3>1, <3>2, <3>4, CountsTyped, CountsUnchanged
  <2>. QED BY <2>1 DEF ContextRefsExact
<1>. QED BY <1>6, <1>7, <1>8, <1>9, <1>10 DEF IInv

\* The streaming instance that has let go of its endpoint drops the context.
LEMMA StepDropContext ==
    ASSUME IInv, NEW h \in Holders, DropContext(h)
    PROVE  IInv'
<1>. DEFINE f == holder[h].file
<1>1. /\ holder[h].pc = "dropCtx"
      /\ f \in Files
      /\ holder' = [holder EXCEPT ![h] = ClosedHolder]
      /\ ReleaseContext(f)
      /\ UNCHANGED <<file, table, layoutSet, orphans, itemQueued, owner,
                     activePin, irp, worker>>
  BY DEF DropContext, IInv, TypeOK, HolderInv
<1>2. h \in CtxHolders(f)
  BY DEF CtxHolders
<1>. HIDE DEF f
<1>3. ctxRefs[f] \in Nat /\ ctxRefs[f] > 0
  BY <1>1, CountsTyped, ReferencedIsAlive DEF f
<1>4. ASSUME ctxRefs[f] = 1 PROVE OnlyListed(f)
  <2>1. Cardinality(CtxHolders(f)) > 0 /\ Cardinality(CtxHolders(f)) \in Nat
    BY <1>2, HoldersFinite, CardinalityStep
  <2>2. /\ Cardinality(CtxHolders(f)) = 1 /\ Cardinality(CtxWorkers(f)) = 0
        /\ itemQueued[f] = 0 /\ ~CtxBase(f)
    BY <1>1, <1>4, <2>1, CountsTyped
  <2>3. \A i \in CtxHolders(f) : i = h
    BY <1>2, <2>2, HoldersFinite, OneMember
  <2>4. \A i \in Holders : holder[i].file = f => holder[i].pc = "dropCtx"
    BY <1>1, <2>3 DEF CtxHolders
  <2>5. CtxWorkers(f) = {}
    BY <2>2, HoldersFinite, FS_EmptySet
  <2>6. \A w \in Workers : worker[w].file # f
    BY <2>5 DEF CtxWorkers
  <2>7. file[f] # "open" /\ orphans[f] = {}
    BY <1>1, <2>2 DEF CtxBase, IInv, FileInv
  <2>. QED BY <1>1, <2>2, <2>4, <2>6, <2>7, LastReference
<1>5. /\ \A g \in Files : file[g] = "open" => file'[g] = "open"
      /\ \A w \in Workers : worker[w].pc = "configuring" => worker'[w] = worker[w]
      /\ \A e \in Endpoints : Cardinality(EpHolders(e))' = Cardinality(EpHolders(e))
  <2>1. \A e : EpHolders(e)' = EpHolders(e)
    BY <1>1 DEF EpHolders, ClosedHolder, IInv, TypeOK
  <2>. QED BY <1>1, <2>1
<1>6. /\ ctxRefs' = [ctxRefs EXCEPT ![f] = @ - 1]
      /\ ctxState' = [ctxState EXCEPT ![f] = IF ctxRefs[f] = 1 THEN "freed" ELSE @]
      /\ ctxRefs' \in [Files -> Nat]
      /\ ctxState' \in [Files -> {"none", "live", "freed"}]
      /\ pending' \in [Files -> Seq(Endpoints)]
      /\ active' \in [Files -> SUBSET Endpoints]
      /\ stage' \in [Endpoints -> Stages]
      /\ epRefs' \in [Endpoints -> Nat]
      /\ \A e \in Endpoints : stage[e] = "configuring" => stage'[e] = "configuring"
      /\ EndpointInv' /\ ListInv' /\ EndpointRefsExact' /\ OwnerOutlivesEndpoint'
  BY <1>1, <1>3, <1>4, <1>5, ReleaseKeeps
<1>7. TypeOK'
  BY <1>1, <1>6 DEF IInv, TypeOK, ClosedHolder, HolderStates
<1>8. FileInv'
  BY <1>1, <1>3, <1>6 DEF IInv, TypeOK, FileInv
<1>9. WorkerInv' /\ HolderInv'
  <2>1. WorkerInv'
    BY <1>1, <1>6 DEF IInv, TypeOK, WorkerInv
  <2>2. HolderInv'
    BY <1>1 DEF IInv, TypeOK, HolderInv, ClosedHolder
  <2>. QED BY <2>1, <2>2
<1>10. ContextRefsExact'
  <2>1. ASSUME NEW g \in Files
        PROVE  ctxRefs'[g] = CtxBaseRefs(g)' + itemQueued'[g]
                   + Cardinality(CtxWorkers(g))' + Cardinality(CtxHolders(g))'
    <3>1. CtxBaseRefs(g)' = CtxBaseRefs(g) /\ CtxBaseRefs(g) \in Nat
      BY <1>1 DEF CtxBaseRefs, CtxBase
    <3>2. ctxRefs'[g] = IF g = f THEN ctxRefs[g] - 1 ELSE ctxRefs[g]
      BY <1>6 DEF IInv, TypeOK
    <3>3. CtxHolders(g)' = IF g = f THEN CtxHolders(g) \ {h} ELSE CtxHolders(g)
      BY <1>1, DistinctAssumption DEF f, CtxHolders, ClosedHolder, IInv, TypeOK
    <3>4. Cardinality(CtxHolders(g))' = IF g = f THEN Cardinality(CtxHolders(g)) - 1
                                                 ELSE Cardinality(CtxHolders(g))
      BY <1>2, <3>3, HoldersFinite, CardinalityStep
    <3>. QED BY <1>1, <3>1, <3>2, <3>4, CountsTyped, CountsUnchanged
  <2>. QED BY <2>1 DEF ContextRefsExact
<1>. QED BY <1>6, <1>7, <1>8, <1>9, <1>10 DEF IInv

-----------------------------------------------------------------------------
(* The work item *)

\* The work item finds the one request that queued it.
LEMMA StepStartWork ==
    ASSUME IInv, NEW w \in Workers, NEW f \in Files, StartWork(w, f)
    PROVE  IInv'
<1>1. itemQueued[f] = 1 /\ pending[f] # << >>
  BY DEF StartWork, IInv, TypeOK, ListInv
<1>2. PICK e \in Endpoints :
         pending[f] = <<e>> /\ stage[e] = "queued" /\ owner[e] = f
  BY <1>1 DEF IInv, ListInv
<1>3. Head(<<e>>) = e /\ Tail(<<e>>) = << >> /\ Len(<<e>>) = 1
  OBVIOUS
<1>4. /\ worker[w].pc = "idle"
      /\ itemQueued' = [itemQueued EXCEPT ![f] = 0]
      /\ worker' = [worker EXCEPT ![w] = [pc |-> "configuring", file |-> f,
                                          ep |-> e, next |-> Null]]
      /\ pending' = [pending EXCEPT ![f] = << >>]
      /\ stage' = [stage EXCEPT ![e] = "configuring"]
      /\ UNCHANGED <<file, table, ctxVars, layoutSet, active, orphans, epRefs,
                     owner, activePin, irp, holder>>
  <2>1. TakeNext(w, f, Null, active[f], stage)
    BY DEF StartWork
  <2>2. /\ worker' = [worker EXCEPT ![w] = [pc |-> "configuring", file |-> f,
                                          ep |-> e, next |-> Null]]
        /\ pending' = [pending EXCEPT ![f] = << >>]
        /\ active' = [active EXCEPT ![f] = active[f]]
        /\ stage' = [stage EXCEPT ![e] = "configuring"]
    BY <1>1, <1>2, <1>3, <2>1, DistinctAssumption
       DEF TakeNext, SavedEntry, listVars, IInv, TypeOK
  <2>3. active' = active
    BY <2>2 DEF IInv, TypeOK
  <2>4. itemQueued' = [itemQueued EXCEPT ![f] = 0]
    BY <1>1 DEF StartWork
  <2>. QED BY <2>2, <2>3, <2>4 DEF StartWork
<1>5. worker[w].file = Null
  BY <1>4 DEF IInv, WorkerInv
<1>6. TypeOK'
  BY <1>4 DEF IInv, TypeOK, ctxVars, Stages
<1>7. FileInv'
  BY <1>4 DEF IInv, FileInv, ctxVars
<1>8. EndpointInv'
  <2>1. \A d \in Endpoints : d # e => stage'[d] = stage[d]
    BY <1>4
  <2>2. stage'[e] = "configuring" /\ worker'[w].pc = "configuring" /\ worker'[w].ep = e
    BY <1>4 DEF IInv, TypeOK
  <2>3. \A v \in Workers : worker[v].pc = "configuring" => worker'[v] = worker[v]
    BY <1>4 DEF IInv, TypeOK
  <2>4. \A d \in Endpoints : d # e /\ stage[d] = "queued" => pending'[owner[d]] = <<d>>
    <3>1. \A d \in Endpoints : d # e /\ stage[d] = "queued" => owner[d] # f
      BY <1>2 DEF IInv, ListInv, Waiting
    <3>2. \A d \in Endpoints : stage[d] = "queued" =>
             pending[owner[d]] = <<d>> /\ owner[d] \in Files
      BY DistinctAssumption DEF IInv, TypeOK, EndpointInv
    <3>. QED BY <1>4, <3>1, <3>2 DEF IInv, TypeOK
  <2>5. \A d \in Endpoints : stage'[d] = "configuring" =>
             \E v \in Workers : worker'[v].pc = "configuring" /\ worker'[v].ep = d
    BY <2>1, <2>2, <2>3 DEF IInv, EndpointInv
  <2>6. \A d \in Endpoints : Waiting(d)' <=> Waiting(d)
    BY <1>2, <2>1, <2>2 DEF Waiting
  <2>. QED BY <1>2, <1>4, <2>1, <2>2, <2>4, <2>5, <2>6 DEF IInv, EndpointInv
<1>9. ListInv'
  <2>1. \A d \in Endpoints : d # e => stage'[d] = stage[d]
    BY <1>4
  <2>2. \A d \in Endpoints : Waiting(d)' <=> Waiting(d)
    BY <1>2, <1>4, <2>1 DEF Waiting, IInv, TypeOK
  <2>3. \A g \in Files : e \notin active[g] /\ e \notin orphans[g]
    BY <1>2 DEF IInv, ListInv
  <2>4. \A g \in Files : /\ \A d \in active'[g] : stage'[d] = "active" /\ owner[d] = g
                         /\ \A d \in orphans'[g] : stage'[d] = "orphaning" /\ owner[d] = g
    BY <1>4, <2>1, <2>3 DEF IInv, TypeOK, ListInv
  <2>5. ASSUME NEW g \in Files
        PROVE  /\ pending'[g] # << >> => \E d \in Endpoints :
                     pending'[g] = <<d>> /\ stage'[d] = "queued" /\ owner[d] = g
               /\ itemQueued'[g] = IF pending'[g] # << >> THEN 1 ELSE 0
    <3>1. CASE g = f
      BY <1>4, <3>1 DEF IInv, TypeOK
    <3>2. CASE g # f
      BY <1>2, <1>4, <2>1, <3>2 DEF IInv, TypeOK, ListInv
    <3>. QED BY <3>1, <3>2
  <2>. QED BY <1>4, <2>2, <2>4, <2>5 DEF IInv, ListInv
<1>10. WorkerInv'
  <2>1. /\ worker'[w].pc = "configuring" /\ worker'[w].file = f
        /\ worker'[w].ep = e /\ worker'[w].next = Null
        /\ \A v \in Workers : v # w => worker'[v] = worker[v]
    BY <1>4 DEF IInv, TypeOK
  <2>2. \A v \in Workers : worker[v].pc = "configuring" =>
           worker[v].ep # e /\ worker[v].ep \in Endpoints
    BY <1>2 DEF IInv, TypeOK, WorkerInv
  <2>. QED BY <1>2, <1>4, <2>1, <2>2, DistinctAssumption DEF IInv, TypeOK, WorkerInv
<1>11. HolderInv' /\ EndpointRefsExact' /\ OwnerOutlivesEndpoint'
  <2>1. HolderInv'
    BY <1>4 DEF IInv, HolderInv
  <2>2. \A d \in Endpoints : EpBaseRefs(d)' = EpBaseRefs(d)
    BY <1>2, <1>4 DEF EpBaseRefs, EpBase, IInv, TypeOK
  <2>3. EndpointRefsExact'
    BY <1>4, <2>2, CountsUnchanged DEF IInv, EndpointRefsExact
  <2>4. OwnerOutlivesEndpoint'
    BY <1>2, <1>4 DEF ctxVars, IInv, TypeOK, OwnerOutlivesEndpoint
  <2>. QED BY <2>1, <2>3, <2>4
<1>12. ContextRefsExact'
  <2>1. ASSUME NEW g \in Files
        PROVE  ctxRefs'[g] = CtxBaseRefs(g)' + itemQueued'[g]
                   + Cardinality(CtxWorkers(g))' + Cardinality(CtxHolders(g))'
    <3>1. CtxBaseRefs(g)' = CtxBaseRefs(g) /\ CtxBaseRefs(g) \in Nat
      BY <1>4 DEF CtxBaseRefs, CtxBase
    <3>2. itemQueued'[g] = IF g = f THEN itemQueued[g] - 1 ELSE itemQueued[g]
      BY <1>1, <1>4 DEF IInv, TypeOK
    <3>3. CtxWorkers(g)' = IF g = f THEN CtxWorkers(g) \cup {w} ELSE CtxWorkers(g)
      BY <1>4, <1>5, DistinctAssumption DEF CtxWorkers, IInv, TypeOK
    <3>4. w \notin CtxWorkers(g)
      BY <1>5, DistinctAssumption DEF CtxWorkers
    <3>5. Cardinality(CtxWorkers(g))' = IF g = f THEN Cardinality(CtxWorkers(g)) + 1
                                                 ELSE Cardinality(CtxWorkers(g))
      BY <3>3, <3>4, HoldersFinite, CardinalityStep
    <3>. QED BY <1>4, <3>1, <3>2, <3>5, CountsTyped, CountsUnchanged DEF ctxVars
  <2>. QED BY <2>1 DEF ContextRefsExact
<1>. QED BY <1>6, <1>7, <1>8, <1>9, <1>10, <1>11, <1>12 DEF IInv

\* While the client waits, a worker that comes back finds nothing to do next:
\* it completes the request and leaves, its endpoint listed (S) or freed.
LEMMA ConfigureEffect ==
    ASSUME IInv, NEW w \in Workers, ConfigureSucceeds(w) \/ ConfigureFails(w)
    PROVE  \E f \in Files, e \in Endpoints, s \in {"active", "freed"} :
           /\ worker[w].pc = "configuring" /\ worker[w].file = f /\ worker[w].ep = e
           /\ stage[e] = "configuring" /\ owner[e] = f /\ irp[e] = "pending"
           /\ epRefs[e] = 1 /\ pending[f] = << >>
           /\ worker' = [worker EXCEPT ![w] = [pc |-> "exiting", file |-> f,
                                               ep |-> Null, next |-> Null]]
           /\ irp' = [irp EXCEPT ![e] = "completed"]
           /\ active' = [active EXCEPT ![f] = IF s = "active" THEN @ \cup {e} ELSE @]
           /\ stage' = [stage EXCEPT ![e] = s]
           /\ epRefs' = [epRefs EXCEPT ![e] = IF s = "active" THEN 1 ELSE 0]
           /\ UNCHANGED <<file, table, ctxVars, layoutSet, pending, orphans,
                          itemQueued, owner, activePin, holder>>
<1>1. worker[w].pc = "configuring"
  BY DEF ConfigureSucceeds, ConfigureFails
<1>. DEFINE f == worker[w].file
            e == worker[w].ep
<1>2. /\ f \in Files /\ e \in Endpoints /\ worker[w].next = Null
      /\ stage[e] = "configuring" /\ owner[e] = f
  BY <1>1 DEF IInv, TypeOK, WorkerInv
<1>. HIDE DEF f, e
<1>3. irp[e] = "pending" /\ epRefs[e] = 1
  BY <1>2 DEF IInv, EndpointInv, Waiting
<1>4. pending[f] = << >>
  BY <1>2 DEF IInv, ListInv, Waiting
<1>5. irp' = [irp EXCEPT ![e] = "completed"]
  BY <1>3 DEF e, ConfigureSucceeds, ConfigureFails, Complete
<1>6. CASE ConfigureSucceeds(w)
  <2>1. TakeNext(w, f, Null, active[f] \cup {e}, [stage EXCEPT ![e] = "active"])
    BY <1>2, <1>6 DEF ConfigureSucceeds, f, e
  <2>2. /\ worker' = [worker EXCEPT ![w] = [pc |-> "exiting", file |-> f,
                                               ep |-> Null, next |-> Null]]
        /\ active' = [active EXCEPT ![f] = active[f] \cup {e}]
        /\ stage' = [stage EXCEPT ![e] = "active"]
        /\ pending' = pending
    BY <1>4, <2>1 DEF TakeNext
  <2>3. epRefs' = [epRefs EXCEPT ![e] = 1]
    BY <1>3, <1>6 DEF ConfigureSucceeds, IInv, TypeOK
  <2>. QED BY <1>1, <1>2, <1>3, <1>4, <1>5, <1>6, <2>2, <2>3 DEF ConfigureSucceeds, f, e
<1>7. CASE ConfigureFails(w)
  <2>1. TakeNext(w, f, Null, active[f], [stage EXCEPT ![e] = "freed"])
    BY <1>2, <1>3, <1>7 DEF ConfigureFails, f, e
  <2>2. /\ worker' = [worker EXCEPT ![w] = [pc |-> "exiting", file |-> f,
                                               ep |-> Null, next |-> Null]]
        /\ active' = [active EXCEPT ![f] = active[f]]
        /\ stage' = [stage EXCEPT ![e] = "freed"]
        /\ pending' = pending
    BY <1>4, <2>1 DEF TakeNext
  <2>3. epRefs' = [epRefs EXCEPT ![e] = 0]
    BY <1>2, <1>3, <1>7 DEF ConfigureFails, IInv, TypeOK, f, e
  <2>. QED BY <1>1, <1>2, <1>3, <1>4, <1>5, <1>7, <2>2, <2>3 DEF ConfigureFails, f, e
<1>. QED BY <1>6, <1>7

LEMMA StepConfigure ==
    ASSUME IInv, NEW w \in Workers, ConfigureSucceeds(w) \/ ConfigureFails(w)
    PROVE  IInv'
<1>1. PICK f \in Files, e \in Endpoints, s \in {"active", "freed"} :
           /\ worker[w].pc = "configuring" /\ worker[w].file = f /\ worker[w].ep = e
           /\ stage[e] = "configuring" /\ owner[e] = f /\ irp[e] = "pending"
           /\ epRefs[e] = 1 /\ pending[f] = << >>
           /\ worker' = [worker EXCEPT ![w] = [pc |-> "exiting", file |-> f,
                                               ep |-> Null, next |-> Null]]
           /\ irp' = [irp EXCEPT ![e] = "completed"]
           /\ active' = [active EXCEPT ![f] = IF s = "active" THEN @ \cup {e} ELSE @]
           /\ stage' = [stage EXCEPT ![e] = s]
           /\ epRefs' = [epRefs EXCEPT ![e] = IF s = "active" THEN 1 ELSE 0]
           /\ UNCHANGED <<file, table, ctxVars, layoutSet, pending, orphans,
                          itemQueued, owner, activePin, holder>>
  BY ConfigureEffect
<1>2. TypeOK'
  BY <1>1 DEF IInv, TypeOK, ctxVars, Stages, IrpStates
<1>3. FileInv'
  BY <1>1 DEF IInv, FileInv, ctxVars
<1>4. /\ \A d \in Endpoints : d # e =>
            stage'[d] = stage[d] /\ irp'[d] = irp[d] /\ epRefs'[d] = epRefs[d]
      /\ stage'[e] = s /\ irp'[e] = "completed"
      /\ epRefs'[e] = IF s = "active" THEN 1 ELSE 0
      /\ \A g \in Files : /\ active[g] \subseteq active'[g]
                          /\ \A d \in active'[g] : \/ d \in active[g]
                                                   \/ d = e /\ g = f /\ s = "active"
      /\ s = "active" => e \in active'[f]
      /\ \A v \in Workers : v # w => worker'[v] = worker[v]
      /\ worker'[w] = [pc |-> "exiting", file |-> f, ep |-> Null, next |-> Null]
  BY <1>1 DEF IInv, TypeOK
<1>5. EndpointInv'
  <2>1. \A d \in Endpoints : d # e /\ stage[d] = "configuring" =>
           \E v \in Workers : worker'[v].pc = "configuring" /\ worker'[v].ep = d
    BY <1>1, <1>4 DEF IInv, EndpointInv
  <2>2. \A d \in Endpoints : d # e => (Waiting(d)' <=> Waiting(d))
    BY <1>4 DEF Waiting
  <2>3. \A d \in Endpoints : stage'[d] = "active" => d \in active'[owner[d]]
    BY <1>1, <1>4, DistinctAssumption DEF IInv, TypeOK, EndpointInv
  <2>4. ~Waiting(e)' /\ owner[e] # Null
    BY <1>1, <1>4, DistinctAssumption DEF Waiting
  <2>5. ASSUME NEW d \in Endpoints, d # e
        PROVE  /\ stage'[d] = "absent" <=> owner[d] = Null
               /\ stage'[d] \in {"absent", "freed"} <=> epRefs'[d] = 0
               /\ Waiting(d)' => epRefs'[d] = 1
               /\ stage'[d] = "building" => file[owner[d]] = "open"
               /\ stage'[d] = "queued" => pending[owner[d]] = <<d>>
               /\ stage'[d] = "orphaning" => d \in orphans[owner[d]]
               /\ irp'[d] = "pending" <=> Waiting(d)'
               /\ irp'[d] # "completedTwice"
    BY <1>4, <2>2, <2>5 DEF IInv, EndpointInv
  <2>6. /\ stage'[e] # "absent" /\ owner[e] # Null
        /\ stage'[e] \in {"absent", "freed"} <=> epRefs'[e] = 0
        /\ stage'[e] \notin {"building", "queued", "configuring", "orphaning"}
        /\ irp'[e] = "completed"
    BY <1>4, <2>4
  <2>. QED BY <1>1, <2>1, <2>3, <2>4, <2>5, <2>6, <1>4 DEF EndpointInv
<1>6. ListInv'
  <2>1. \A d \in Endpoints : Waiting(d)' => Waiting(d)
    BY <1>1, <1>4 DEF Waiting
  <2>2. \A g \in Files : e \notin orphans[g] /\ e \notin active[g]
    BY <1>1 DEF IInv, ListInv
  <2>3. \A g \in Files :
           /\ \A d \in active'[g] : stage'[d] = "active" /\ owner[d] = g
           /\ \A d \in orphans[g] : stage'[d] = "orphaning" /\ owner[d] = g
    BY <1>1, <1>4, <2>2 DEF IInv, TypeOK, ListInv
  <2>4. \A g \in Files : pending[g] # << >> => \E d \in Endpoints :
                pending[g] = <<d>> /\ stage'[d] = "queued" /\ owner[d] = g
    BY <1>1, <1>4 DEF IInv, ListInv
  <2>. QED BY <1>1, <2>1, <2>3, <2>4 DEF IInv, ListInv
<1>7. WorkerInv'
  <2>1. \A v \in Workers : v # w /\ worker[v].pc = "configuring" =>
           worker[v].ep # e /\ worker[v].ep \in Endpoints
    BY <1>1 DEF IInv, TypeOK, WorkerInv
  <2>. QED BY <1>1, <1>4, <2>1, DistinctAssumption DEF IInv, WorkerInv
<1>8. HolderInv' /\ OwnerOutlivesEndpoint'
  <2>1. HolderInv'
    BY <1>1 DEF IInv, HolderInv
  <2>2. OwnerOutlivesEndpoint'
    BY <1>1, <1>4 DEF ctxVars, IInv, OwnerOutlivesEndpoint
  <2>. QED BY <2>1, <2>2
<1>9. EndpointRefsExact'
  <2>1. ASSUME NEW d \in Endpoints
        PROVE  epRefs'[d] = EpBaseRefs(d)' + Cardinality(EpHolders(d))'
    <3>1. CASE d = e
      <4>1. Cardinality(EpHolders(e)) = 0
        BY <1>1, CountsTyped DEF EpBase
      <4>. QED BY <1>1, <1>4, <3>1, <4>1, CountsUnchanged DEF EpBaseRefs, EpBase
    <3>2. CASE d # e
      BY <1>1, <1>4, <3>2, CountsTyped, CountsUnchanged DEF EpBaseRefs, EpBase
    <3>. QED BY <3>1, <3>2
  <2>. QED BY <2>1 DEF EndpointRefsExact
<1>10. ContextRefsExact'
  <2>1. \A g : CtxWorkers(g)' = CtxWorkers(g)
    BY <1>1, <1>4 DEF CtxWorkers
  <2>2. \A g : CtxBaseRefs(g)' = CtxBaseRefs(g)
    BY <1>1 DEF CtxBaseRefs, CtxBase
  <2>. QED BY <1>1, <2>1, <2>2, CountsUnchanged DEF ctxVars, IInv, ContextRefsExact
<1>. QED BY <1>2, <1>3, <1>5, <1>6, <1>7, <1>8, <1>9, <1>10 DEF IInv

-----------------------------------------------------------------------------
(* Kernel streaming *)

\* The states in which an instance counts in its endpoint's references.
Attached == {"looked", "claimed", "open", "dropEp"}

\* A lookup finds a listed endpoint and adds one to both counts.
LEMMA StepLookup ==
    ASSUME IInv, NEW h \in Holders, NEW e \in Endpoints, NEW q \in {"looked", "open"},
           holder[h].pc = "closed", LookupAndRetain(h, e, q)
    PROVE  IInv'
<1>. DEFINE f == owner[e]
<1>1. /\ f \in Files /\ stage[e] = "active" /\ file[f] = "open"
      /\ ctxRefs' = [ctxRefs EXCEPT ![f] = @ + 1]
      /\ epRefs' = [epRefs EXCEPT ![e] = @ + 1]
      /\ holder' = [holder EXCEPT ![h] = [pc |-> q, file |-> f, ep |-> e]]
      /\ UNCHANGED <<file, table, ctxState, layoutSet, listVars, orphans,
                     itemQueued, stage, owner, activePin, irp, worker>>
  <2>1. f \in table /\ e \in active[f]
    BY DEF LookupAndRetain, Reachable
  <2>2. f \in Files /\ stage[e] = "active" /\ file[f] = "open"
    BY <2>1 DEF IInv, TypeOK, FileInv, ListInv
  <2>. QED BY <2>2 DEF LookupAndRetain, SarRetainControlContext, SarRetainEndpoint
<1>. HIDE DEF f
<1>2. holder[h].file = Null
  BY DEF IInv, HolderInv
<1>3. /\ epRefs[e] \in Nat /\ epRefs[e] > 0 /\ ctxRefs[f] \in Nat /\ ctxRefs[f] > 0
  BY <1>1, CountsTyped, ReferencedIsAlive DEF EpBase, CtxBase
<1>4. TypeOK'
  BY <1>1 DEF IInv, TypeOK, listVars, HolderStates
<1>5. FileInv'
  BY <1>1, <1>3 DEF IInv, TypeOK, FileInv
<1>6. EndpointInv'
  <2>1. \A d \in Endpoints : epRefs'[d] = IF d = e THEN epRefs[d] + 1 ELSE epRefs[d]
    BY <1>1 DEF IInv, TypeOK
  <2>2. \A d \in Endpoints : /\ epRefs'[d] = 0 <=> epRefs[d] = 0
                             /\ Waiting(d) => epRefs'[d] = epRefs[d]
    BY <1>1, <1>3, <2>1 DEF Waiting
  <2>. QED BY <1>1, <2>2 DEF listVars, IInv, EndpointInv, Waiting
<1>7. ListInv' /\ WorkerInv' /\ OwnerOutlivesEndpoint'
  BY <1>1 DEF listVars, IInv, ListInv, WorkerInv, OwnerOutlivesEndpoint, Waiting
<1>8. HolderInv'
  BY <1>1, DistinctAssumption DEF f, IInv, TypeOK, HolderInv
<1>9. EndpointRefsExact'
  <2>1. ASSUME NEW d \in Endpoints
        PROVE  epRefs'[d] = EpBaseRefs(d)' + Cardinality(EpHolders(d))'
    <3>1. EpBaseRefs(d)' = EpBaseRefs(d) /\ EpBaseRefs(d) \in Nat
      BY <1>1 DEF EpBaseRefs, EpBase
    <3>2. epRefs'[d] = IF d = e THEN epRefs[d] + 1 ELSE epRefs[d]
      BY <1>1 DEF IInv, TypeOK
    <3>3. /\ h \notin EpHolders(d)
          /\ EpHolders(d)' = IF d = e THEN EpHolders(d) \cup {h} ELSE EpHolders(d)
      BY <1>1 DEF EpHolders, IInv, TypeOK
    <3>4. Cardinality(EpHolders(d))' = IF d = e THEN Cardinality(EpHolders(d)) + 1
                                                ELSE Cardinality(EpHolders(d))
      BY <3>3, HoldersFinite, CardinalityStep
    <3>. QED BY <3>1, <3>2, <3>4, CountsTyped
  <2>. QED BY <2>1 DEF EndpointRefsExact
<1>10. ContextRefsExact'
  <2>1. ASSUME NEW g \in Files
        PROVE  ctxRefs'[g] = CtxBaseRefs(g)' + itemQueued'[g]
                   + Cardinality(CtxWorkers(g))' + Cardinality(CtxHolders(g))'
    <3>1. CtxBaseRefs(g)' = CtxBaseRefs(g) /\ CtxBaseRefs(g) \in Nat
      BY <1>1 DEF CtxBaseRefs, CtxBase
    <3>2. ctxRefs'[g] = IF g = f THEN ctxRefs[g] + 1 ELSE ctxRefs[g]
      BY <1>1 DEF IInv, TypeOK
    <3>3. /\ h \notin CtxHolders(g)
          /\ CtxHolders(g)' = IF g = f THEN CtxHolders(g) \cup {h} ELSE CtxHolders(g)
      BY <1>1, <1>2, DistinctAssumption DEF CtxHolders, IInv, TypeOK
    <3>4. Cardinality(CtxHolders(g))' = IF g = f THEN Cardinality(CtxHolders(g)) + 1
                                                 ELSE Cardinality(CtxHolders(g))
      BY <3>3, HoldersFinite, CardinalityStep
    <3>. QED BY <1>1, <3>1, <3>2, <3>4, CountsTyped, CountsUnchanged
  <2>. QED BY <2>1 DEF ContextRefsExact
<1>. QED BY <1>4, <1>5, <1>6, <1>7, <1>8, <1>9, <1>10 DEF IInv

\* An instance that goes on without a reference changing hands.
LEMMA StepHolderMoves ==
    ASSUME IInv, NEW h \in Holders, NEW q \in Attached, holder[h].pc \in Attached,
           holder' = [holder EXCEPT ![h].pc = q],
           activePin' \in [Endpoints -> Pins \cup {Null}],
           UNCHANGED <<file, table, ctxVars, layoutSet, listVars, orphans,
                       itemQueued, epVars, owner, irp, worker>>
    PROVE  IInv'
<1>. USE DEF ctxVars, listVars, epVars
<1>1. /\ \A i \in Holders : /\ holder'[i].file = holder[i].file
                            /\ holder'[i].ep = holder[i].ep
                            /\ holder'[i].pc = IF i = h THEN q ELSE holder[i].pc
      /\ TypeOK'
  BY DEF IInv, TypeOK, HolderStates, Attached
<1>2. FileInv' /\ EndpointInv' /\ ListInv' /\ WorkerInv' /\ OwnerOutlivesEndpoint'
  BY DEF IInv, FileInv, EndpointInv, ListInv, WorkerInv, OwnerOutlivesEndpoint, Waiting
<1>3. HolderInv'
  BY <1>1 DEF IInv, HolderInv, Attached
<1>4. /\ \A g : CtxHolders(g)' = CtxHolders(g)
      /\ \A d : EpHolders(d)' = EpHolders(d)
  BY <1>1 DEF CtxHolders, EpHolders, Attached
<1>5. ContextRefsExact'
  BY <1>4, CountsUnchanged DEF IInv, ContextRefsExact, CtxBaseRefs, CtxBase
<1>6. EndpointRefsExact'
  BY <1>4 DEF IInv, EndpointRefsExact, EpBaseRefs, EpBase
<1>. QED BY <1>1, <1>2, <1>3, <1>5, <1>6 DEF IInv

LEMMA StepFilters ==
    ASSUME IInv, NEW h \in Filters,
           (\E e \in Endpoints : SarKsFilterCreate(h, e)) \/ SarKsFilterClose(h)
    PROVE  IInv'
<1>1. ASSUME NEW e \in Endpoints, SarKsFilterCreate(h, e) PROVE IInv'
  BY <1>1, StepLookup DEF SarKsFilterCreate, Holders
<1>2. CASE SarKsFilterClose(h)
  <2>1. activePin' \in [Endpoints -> Pins \cup {Null}]
    BY <1>2 DEF SarKsFilterClose, IInv, TypeOK
  <2>. QED BY <1>2, <2>1, StepHolderMoves DEF SarKsFilterClose, Holders, Attached
<1>. QED BY <1>1, <1>2

LEMMA StepPins ==
    ASSUME IInv, NEW p \in Pins,
           PinLookup(p) \/ PinClaim(p) \/ PinReady(p) \/ PinLeave(p)
    PROVE  IInv'
<1>1. p \in Holders /\ ParentOf[p] \in Holders
  BY DistinctAssumption DEF Holders
<1>2. CASE PinLookup(p)
  <2>1. holder[ParentOf[p]].ep \in Endpoints
    BY <1>1, <1>2 DEF PinLookup, IInv, TypeOK, HolderInv
  <2>. QED BY <1>1, <1>2, <2>1, StepLookup DEF PinLookup
<1>3. CASE PinClaim(p)
  <2>1. activePin' \in [Endpoints -> Pins \cup {Null}]
    BY <1>3 DEF PinClaim, IInv, TypeOK
  <2>2. PICK q \in Attached : holder' = [holder EXCEPT ![p].pc = q]
    BY <1>3 DEF PinClaim, Attached
  <2>. QED BY <1>1, <1>3, <2>1, <2>2, StepHolderMoves DEF PinClaim, Attached
<1>4. CASE PinReady(p)
  <2>1. activePin' \in [Endpoints -> Pins \cup {Null}]
    BY <1>4 DEF PinReady, IInv, TypeOK
  <2>. QED BY <1>1, <1>4, <2>1, StepHolderMoves DEF PinReady, Attached
<1>5. CASE PinLeave(p)
  <2>1. activePin' \in [Endpoints -> Pins \cup {Null}]
    BY <1>5 DEF PinLeave, IInv, TypeOK
  <2>. QED BY <1>1, <1>5, <2>1, StepHolderMoves DEF PinLeave, Attached
<1>. QED BY <1>2, <1>3, <1>4, <1>5

LEMMA StepDropEndpoint ==
    ASSUME IInv, NEW h \in Holders, DropEndpoint(h)
    PROVE  IInv'
<1>. DEFINE e == holder[h].ep
<1>1. /\ e \in Endpoints /\ holder[h].pc = "dropEp"
      /\ epRefs[e] \in Nat /\ epRefs[e] > 0
      /\ holder[h].file # Null
  BY ReferencedIsAlive DEF DropEndpoint, IInv, TypeOK, HolderInv
<1>2. h \in EpHolders(e)
  BY <1>1 DEF EpHolders
<1>3. Cardinality(EpHolders(e)) > 0
  BY <1>2, HoldersFinite, CardinalityStep
<1>4. /\ epRefs' = [epRefs EXCEPT ![e] = @ - 1]
      /\ stage' = [stage EXCEPT ![e] = IF epRefs[e] = 1 THEN "freed" ELSE @]
      /\ holder' = [holder EXCEPT ![h].pc = "dropCtx"]
      /\ UNCHANGED <<file, table, ctxVars, layoutSet, listVars, orphans,
                     itemQueued, owner, activePin, irp, worker>>
  BY <1>1 DEF DropEndpoint, IInv, TypeOK
<1>5. epRefs[e] = 1 => stage[e] = "released"
  <2>1. epRefs[e] = 1 => ~EpBase(e)
    BY <1>1, <1>3, CountsTyped
  <2>2. stage[e] \notin {"absent", "freed"}
    BY <1>1 DEF IInv, EndpointInv
  <2>. QED BY <1>1, <2>1, <2>2 DEF EpBase, IInv, TypeOK, Stages
<1>6. ~Waiting(e)
  <2>1. Waiting(e) => epRefs[e] = 1
    BY <1>1 DEF IInv, EndpointInv
  <2>. QED BY <1>5, <2>1 DEF Waiting
<1>. HIDE DEF e
<1>7. /\ \A d \in Endpoints : \/ stage'[d] = stage[d]
                              \/ /\ d = e /\ epRefs[e] = 1
                                 /\ stage[d] = "released" /\ stage'[d] = "freed"
      /\ \A d \in Endpoints : epRefs'[d] = IF d = e THEN epRefs[d] - 1 ELSE epRefs[d]
      /\ epRefs[e] = 1 => stage'[e] = "freed"
  BY <1>1, <1>4, <1>5 DEF IInv, TypeOK
<1>8. TypeOK'
  <2>1. epRefs[e] - 1 \in Nat
    BY <1>1
  <2>2. epRefs' \in [Endpoints -> Nat]
    BY <1>4, <2>1 DEF IInv, TypeOK
  <2>3. stage' \in [Endpoints -> Stages]
    BY <1>4 DEF IInv, TypeOK, Stages
  <2>4. holder' \in [Holders -> [pc : HolderStates, file : Files \cup {Null},
                                 ep : Endpoints \cup {Null}]]
    BY <1>4 DEF IInv, TypeOK, HolderStates
  <2>. QED BY <1>4, <2>2, <2>3, <2>4 DEF IInv, TypeOK, ctxVars, listVars
<1>9. FileInv'
  BY <1>4 DEF IInv, FileInv, ctxVars, listVars
<1>10. \A d \in Endpoints : Waiting(d)' <=> Waiting(d)
  BY <1>7 DEF Waiting
<1>11. EndpointInv'
  <2>1. \A d \in Endpoints : /\ stage'[d] \in {"absent", "freed"} <=> epRefs'[d] = 0
                             /\ Waiting(d) => epRefs'[d] = 1
    BY <1>1, <1>5, <1>6, <1>7 DEF IInv, TypeOK, EndpointInv
  <2>. QED BY <1>4, <1>7, <1>10, <2>1 DEF listVars, IInv, EndpointInv
<1>12. ListInv'
  BY <1>4, <1>7, <1>10 DEF listVars, IInv, TypeOK, ListInv
<1>13. WorkerInv' /\ OwnerOutlivesEndpoint'
  BY <1>4, <1>7 DEF ctxVars, IInv, TypeOK, WorkerInv, OwnerOutlivesEndpoint
<1>14. HolderInv'
  BY <1>1, <1>4 DEF IInv, TypeOK, HolderInv
<1>15. ContextRefsExact'
  <2>1. \A g : CtxHolders(g)' = CtxHolders(g)
    BY <1>4 DEF CtxHolders, IInv, TypeOK
  <2>2. \A g : CtxBaseRefs(g)' = CtxBaseRefs(g)
    BY <1>4 DEF CtxBaseRefs, CtxBase
  <2>. QED BY <1>4, <2>1, <2>2, CountsUnchanged DEF ctxVars, IInv, ContextRefsExact
<1>16. EndpointRefsExact'
  <2>1. ASSUME NEW d \in Endpoints
        PROVE  epRefs'[d] = EpBaseRefs(d)' + Cardinality(EpHolders(d))'
    <3>1. EpBaseRefs(d)' = EpBaseRefs(d) /\ EpBaseRefs(d) \in Nat
      BY <1>7 DEF EpBaseRefs, EpBase
    <3>2. EpHolders(d)' = IF d = e THEN EpHolders(d) \ {h} ELSE EpHolders(d)
      BY <1>4 DEF e, EpHolders, IInv, TypeOK
    <3>3. Cardinality(EpHolders(d))' = IF d = e THEN Cardinality(EpHolders(d)) - 1
                                                ELSE Cardinality(EpHolders(d))
      BY <1>2, <3>2, HoldersFinite, CardinalityStep
    <3>. QED BY <1>7, <3>1, <3>3, CountsTyped
  <2>. QED BY <2>1 DEF EndpointRefsExact
<1>. QED BY <1>8, <1>9, <1>11, <1>12, <1>13, <1>14, <1>15, <1>16 DEF IInv

-----------------------------------------------------------------------------
(* The theorems *)

LEMMA StutterKeepsIInv == IInv /\ UNCHANGED vars => IInv'
<1>. SUFFICES ASSUME IInv, UNCHANGED vars PROVE IInv'
  OBVIOUS
<1>. USE DEF vars, ctxVars, listVars, epVars
<1>1. TypeOK' /\ FileInv' /\ EndpointInv' /\ ListInv'
  BY DEF IInv, TypeOK, FileInv, EndpointInv, ListInv, Waiting
<1>2. WorkerInv' /\ HolderInv' /\ OwnerOutlivesEndpoint'
  BY DEF IInv, WorkerInv, HolderInv, OwnerOutlivesEndpoint
<1>3. ContextRefsExact' /\ EndpointRefsExact'
  BY CountsUnchanged
     DEF IInv, ContextRefsExact, EndpointRefsExact, CtxBaseRefs, CtxBase,
         EpBaseRefs, EpBase
<1>. QED BY <1>1, <1>2, <1>3 DEF IInv

\* Every step of the driver keeps the invariant while its client waits.
THEOREM NextKeepsIInv ==
    ASSUME ~Overlapped, IInv, [Next]_vars
    PROVE  IInv'
<1>1. CASE UNCHANGED vars
  BY <1>1, StutterKeepsIInv
<1>2. CASE Next
  <2>1. ASSUME NEW f \in Files,
               SarIrpCreate(f) \/ SarSetBufferLayout(f) \/ SarIrpCleanup(f)
               \/ SarIrpClose(f) \/ (\E e \in Endpoints : SarCreateEndpoint(f, e))
        PROVE  IInv'
    BY <2>1, StepIrpCreate, StepSetBufferLayout, StepBeginOrphan, StepCreateEndpoint
  <2>2. ASSUME NEW f \in Files, Orphaning(f) PROVE IInv'
    BY <2>2, StepOrphanDetach, StepOrphanEndpoint, StepOrphanRelease DEF Orphaning
  <2>3. ASSUME NEW e \in Endpoints, Dispatch(e) PROVE IInv'
    BY <2>3, StepCreateFails, StepQueuePending DEF Dispatch
  <2>4. ASSUME NEW w \in Workers, Work(w) PROVE IInv'
    BY <2>4, StepStartWork, StepConfigure, StepExitWork DEF Work
  <2>5. ASSUME NEW h \in Holders, Dropping(h) PROVE IInv'
    BY <2>5, StepDropEndpoint, StepDropContext DEF Dropping
  <2>. QED BY <1>2, <2>1, <2>2, <2>3, <2>4, <2>5, StepFilters, StepPins DEF Next
<1>. QED BY <1>1, <1>2

\* IInv holds throughout, for any number of files, endpoints, worker threads,
\* filters and pins.
THEOREM Invariance == ASSUME ~Overlapped PROVE Spec => []IInv
<1>1. Init => IInv
  BY InitIInv
<1>2. IInv /\ [Next]_vars => IInv'
  BY NextKeepsIInv
<1>. QED BY <1>1, <1>2, PTL DEF Spec

\* Every variable of the driver keeps its type.
THEOREM TypeCorrect == ASSUME ~Overlapped PROVE Spec => []TypeOK
<1>1. IInv => TypeOK
  BY DEF IInv
<1>. QED BY <1>1, Invariance, PTL

\* The reference count of a control context (sar.h) is exact: the open handle,
\* the work item, each worker and each instance count once.
THEOREM RefsExact == ASSUME ~Overlapped PROVE Spec => []ContextRefsExact
<1>1. IInv => ContextRefsExact
  BY DEF IInv
<1>. QED BY <1>1, Invariance, PTL

\* That of an endpoint is exact too: its list and each instance count once.
THEOREM EndpointsExact == ASSUME ~Overlapped PROVE Spec => []EndpointRefsExact
<1>1. IInv => EndpointRefsExact
  BY DEF IInv
<1>. QED BY <1>1, Invariance, PTL

\* Nobody who will still follow a pointer finds the object freed.
THEOREM NoDangling == ASSUME ~Overlapped PROVE Spec => []NoDanglingReference
<1>1. IInv => NoDanglingReference
  <2>. SUFFICES ASSUME IInv PROVE NoDanglingReference
    OBVIOUS
  <2>1. ASSUME NEW f \in Files,
               \/ f \in table \/ CtxBase(f) \/ itemQueued[f] > 0
               \/ CtxWorkers(f) # {} \/ CtxHolders(f) # {}
        PROVE  ctxState[f] = "live"
    <3>1. f \in table => CtxBase(f)
      BY DEF IInv, FileInv, CtxBase
    <3>2. CtxWorkers(f) # {} => ctxRefs[f] > 0
      BY ReferencedIsAlive DEF CtxWorkers
    <3>3. CtxHolders(f) # {} => ctxRefs[f] > 0
      BY ReferencedIsAlive DEF CtxHolders
    <3>4. ctxRefs[f] > 0
      BY <2>1, <3>1, <3>2, <3>3, ReferencedIsAlive
    <3>. QED BY <3>4 DEF IInv, FileInv
  <2>2. ASSUME NEW f \in Files,
               NEW e \in active[f] \cup Range(pending[f]) \cup orphans[f]
        PROVE  EpBase(e) /\ owner[e] = f
    <3>1. CASE e \in Range(pending[f])
      <4>1. pending[f] # << >>
        BY <3>1 DEF Range
      <4>2. PICK d \in Endpoints : pending[f] = <<d>> /\ stage[d] = "queued" /\ owner[d] = f
        BY <4>1 DEF IInv, ListInv
      <4>3. e = d
        BY <3>1, <4>2 DEF Range
      <4>. QED BY <4>2, <4>3 DEF EpBase
    <3>2. CASE e \in active[f] \cup orphans[f]
      BY <3>2 DEF IInv, ListInv, EpBase
    <3>. QED BY <3>1, <3>2
  <2>3. ASSUME NEW w \in Workers, worker[w].pc = "configuring"
        PROVE  EpBase(worker[w].ep) /\ owner[worker[w].ep] = worker[w].file
    BY <2>3 DEF IInv, WorkerInv, EpBase
  <2>4. ASSUME NEW h \in Holders,
               holder[h].pc \in {"looked", "claimed", "open", "dropEp"}
        PROVE  stage[holder[h].ep] \in Stages \ {"absent", "freed"}
    <3>1. holder[h].ep \in Endpoints /\ epRefs[holder[h].ep] > 0
      BY <2>4, ReferencedIsAlive DEF IInv, TypeOK, HolderInv
    <3>. QED BY <3>1 DEF IInv, TypeOK, EndpointInv
  <2>. QED BY <2>1, <2>2, <2>3, <2>4 DEF NoDanglingReference
<1>. QED BY <1>1, Invariance, PTL

\* An endpoint never outlives the context it has no reference on.
THEOREM OwnerOutlives == ASSUME ~Overlapped PROVE Spec => []OwnerOutlivesEndpoint
<1>1. IInv => OwnerOutlivesEndpoint
  BY DEF IInv
<1>. QED BY <1>1, Invariance, PTL

\* A waiting client's request is answered once, by a worker whose saved entry
\* is the end of the list, from a work item queued once.
THEOREM AnsweredOnce ==
    ASSUME ~Overlapped
    PROVE  Spec => [](CreateCompletedOnce /\ SavedEntryStillPending /\ WorkItemQueuedOnce)
<1>1. IInv => CreateCompletedOnce
  BY DEF IInv, EndpointInv, CreateCompletedOnce
<1>2. IInv => SavedEntryStillPending
  BY DEF IInv, WorkerInv, SavedEntryStillPending
<1>3. IInv => WorkItemQueuedOnce
  BY DEF IInv, ListInv, WorkItemQueuedOnce
<1>. QED BY <1>1, <1>2, <1>3, Invariance, PTL

=============================================================================
