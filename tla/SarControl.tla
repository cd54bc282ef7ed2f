------------------------------ MODULE SarControl ------------------------------
(***************************************************************************)
(* Lifetime of the driver's control contexts and endpoints.                *)
(*                                                                         *)
(* A user-mode client opens the control device (one SarControlContext per  *)
(* file object), asks for endpoints (one SarEndpoint per request, its IRP  *)
(* left pending), and closes the handle.  A system worker thread runs      *)
(* SarProcessPendingEndpoints, which configures the endpoints with the     *)
(* context's mutex dropped and completes the IRPs.  Kernel streaming       *)
(* opens filters and pins on configured endpoints; each of them holds a    *)
(* reference on the endpoint and one on its owner.  An endpoint holds no   *)
(* reference on its owner.                                                 *)
(*                                                                         *)
(* One action is one critical section of the code, or one step between     *)
(* two of them: extension->mutex covers table, the context's mutex covers  *)
(* pending[f] and active[f], the interlocked counters are refs.            *)
(***************************************************************************)
EXTENDS Integers, Sequences, FiniteSets, Functions

CONSTANTS
    Files,      \* file objects opened on the control device, each once
    Endpoints,  \* SarEndpoint allocations, each made by one create request
    Workers,    \* system worker threads that run the context's work item
    Filters,    \* kernel streaming filter instances
    Pins,       \* kernel streaming pin instances
    ParentOf,   \* the filter instance a pin is opened on
    Overlapped, \* TRUE: a client sends a create before the last one is answered
    Null,       \* no file, no endpoint, or the end of a list
    Garbage     \* a list head read as if it were an endpoint

Holders == Filters \cup Pins

ASSUME DistinctAssumption ==
    /\ Null \notin Files \cup Endpoints \cup Pins
    /\ Garbage \notin Endpoints \cup {Null}
    /\ Filters \cap Pins = {}
    /\ ParentOf \in [Pins -> Filters]
    /\ Overlapped \in BOOLEAN

ASSUME FiniteAssumption == IsFiniteSet(Workers) /\ IsFiniteSet(Holders)

VARIABLES
    file,       \* [Files -> FileStates]: progress of open, cleanup and close
    table,      \* extension->controlContextTable: the contexts a lookup finds
    ctxState,   \* [Files -> {"none", "live", "freed"}]
    ctxRefs,    \* SarControlContext.refs
    layoutSet,  \* the contexts whose bufferSize is not 0
    pending,    \* SarControlContext.pendingEndpointList
    active,     \* SarControlContext.endpointList
    orphans,    \* SarOrphanControlContext's local orphanEndpoints list
    itemQueued, \* how often the context's IO_WORKITEM is in the system queue
    stage,      \* [Endpoints -> Stages]: where the endpoint is in its life
    owner,      \* SarEndpoint.owner
    epRefs,     \* SarEndpoint.refs
    activePin,  \* SarEndpoint.activePin
    irp,        \* the create request's IRP
    worker,     \* locals of SarProcessPendingEndpoints, per worker thread
    holder      \* kernel streaming instances and what their Context points to

ctxVars == <<ctxState, ctxRefs>>
listVars == <<pending, active>>
epVars == <<stage, epRefs>>
vars == <<file, table, ctxVars, layoutSet, listVars, orphans, itemQueued,
          epVars, owner, activePin, irp, worker, holder>>

FileStates == {"new", "open", "unlinked", "draining", "cleaned", "closed"}
Stages == {"absent", "building", "queued", "configuring", "active",
           "orphaning", "released", "freed"}
IrpStates == {"none", "pending", "completed", "completedTwice"}
HolderStates == {"closed", "looked", "claimed", "open", "dropEp", "dropCtx"}
IdleWorker == [pc |-> "idle", file |-> Null, ep |-> Null, next |-> Null]
ClosedHolder == [pc |-> "closed", file |-> Null, ep |-> Null]

Owned(f) == {e \in Endpoints : owner[e] = f}
Outstanding(f) == {e \in Owned(f) : irp[e] = "pending"}
Building(f) == {e \in Owned(f) : stage[e] = "building"}

Init ==
    /\ file = [f \in Files |-> "new"]
    /\ table = {}
    /\ ctxState = [f \in Files |-> "none"]
    /\ ctxRefs = [f \in Files |-> 0]
    /\ layoutSet = {}
    /\ pending = [f \in Files |-> <<>>]
    /\ active = [f \in Files |-> {}]
    /\ orphans = [f \in Files |-> {}]
    /\ itemQueued = [f \in Files |-> 0]
    /\ stage = [e \in Endpoints |-> "absent"]
    /\ owner = [e \in Endpoints |-> Null]
    /\ epRefs = [e \in Endpoints |-> 0]
    /\ activePin = [e \in Endpoints |-> Null]
    /\ irp = [e \in Endpoints |-> "none"]
    /\ worker = [w \in Workers |-> IdleWorker]
    /\ holder = [h \in Holders |-> ClosedHolder]

-----------------------------------------------------------------------------
(* Reference counts.  A definition named Mutant is the code with a mistake  *)
(* in it that the runs must notice; nothing else uses it.                  *)

SarRetainEndpointMutant(e) == epRefs
SarRetainEndpoint(e) == [epRefs EXCEPT ![e] = @ + 1]

SarRetainControlContextMutant(f) == ctxRefs
SarRetainControlContext(f) == [ctxRefs EXCEPT ![f] = @ + 1]

\* SarReleaseEndpoint on each endpoint of S: the last reference deletes it.
ReleaseEndpoints(S) ==
    /\ epRefs' = [e \in Endpoints |-> IF e \in S THEN epRefs[e] - 1
                                                 ELSE epRefs[e]]
    /\ stage' = [e \in Endpoints |->
                    IF e \notin S THEN stage[e]
                    ELSE IF epRefs[e] = 1 THEN "freed" ELSE "released"]

\* The endpoints SarDeleteControlContext releases: those still on a list.
DeletedWithMutant(f) == {}
DeletedWith(f) == active[f] \cup Range(pending[f])

\* SarReleaseControlContext: the last reference runs SarDeleteControlContext.
ReleaseContext(f) ==
    /\ ctxRefs' = [ctxRefs EXCEPT ![f] = @ - 1]
    /\ IF ctxRefs[f] = 1
       THEN /\ ctxState' = [ctxState EXCEPT ![f] = "freed"]
            /\ ReleaseEndpoints(DeletedWith(f))
            /\ active' = [active EXCEPT ![f] = {}]
            /\ pending' = [pending EXCEPT ![f] = <<>>]
       ELSE UNCHANGED <<ctxState, epVars, listVars>>

-----------------------------------------------------------------------------
(* The client: open, set the buffer layout, create endpoints, close.       *)
(* A client closes its handle only when none of its requests is being      *)
(* dispatched (SarClient::stop holds the lock its other requests run       *)
(* under); requests already left pending do not prevent it.                *)

SarIrpCreate(f) ==
    /\ file[f] = "new"
    /\ file' = [file EXCEPT ![f] = "open"]
    /\ ctxState' = [ctxState EXCEPT ![f] = "live"]
    /\ ctxRefs' = [ctxRefs EXCEPT ![f] = 1]
    /\ table' = table \cup {f}
    /\ UNCHANGED <<layoutSet, listVars, orphans, itemQueued, epVars, owner,
                   activePin, irp, worker, holder>>

\* A second SAR_SET_BUFFER_LAYOUT fails and leaves the first one's fields.
SarSetBufferLayout(f) ==
    /\ file[f] = "open" /\ f \in table
    /\ f \notin layoutSet
    /\ layoutSet' = layoutSet \cup {f}
    /\ UNCHANGED <<file, table, ctxVars, listVars, orphans, itemQueued,
                   epVars, owner, activePin, irp, worker, holder>>

\* SarCreateEndpoint up to the allocation: the endpoint starts with one
\* reference and an owner it does not retain.
SarCreateEndpoint(f, e) ==
    /\ file[f] = "open" /\ f \in table
    /\ f \in layoutSet
    /\ stage[e] = "absent"
    /\ Overlapped \/ Outstanding(f) = {}
    /\ stage' = [stage EXCEPT ![e] = "building"]
    /\ epRefs' = [epRefs EXCEPT ![e] = 1]
    /\ owner' = [owner EXCEPT ![e] = f]
    /\ irp' = [irp EXCEPT ![e] = "pending"]
    /\ UNCHANGED <<file, table, ctxVars, layoutSet, listVars, orphans,
                   itemQueued, activePin, worker, holder>>

\* A string or a filter factory could not be made: the endpoint is deleted
\* and SarIrpDeviceControl completes the IRP with the error.
CreateFails(e) ==
    /\ stage[e] = "building"
    /\ stage' = [stage EXCEPT ![e] = "freed"]
    /\ epRefs' = [epRefs EXCEPT ![e] = 0]
    /\ irp' = [irp EXCEPT ![e] = "completed"]
    /\ UNCHANGED <<file, table, ctxVars, layoutSet, listVars, orphans,
                   itemQueued, owner, activePin, worker, holder>>

\* runWorkItem: only a request that finds the pending list empty retains the
\* context and queues the work item.
RunWorkItemMutant(f) == FALSE
RunWorkItem(f) == pending[f] = <<>>

\* The last critical section of SarCreateEndpoint.
QueuePending(e) ==
    LET f == owner[e]
    IN /\ stage[e] = "building"
       /\ stage' = [stage EXCEPT ![e] = "queued"]
       /\ pending' = [pending EXCEPT ![f] = Append(@, e)]
       /\ IF RunWorkItem(f)
          THEN /\ ctxRefs' = SarRetainControlContext(f)
               /\ itemQueued' = [itemQueued EXCEPT ![f] = @ + 1]
          ELSE UNCHANGED <<ctxRefs, itemQueued>>
       /\ UNCHANGED <<file, table, ctxState, layoutSet, active, orphans,
                      owner, epRefs, activePin, irp, worker, holder>>

\* Whether SarOrphanControlContext found the context: cleanup and close both
\* run it, and only the first may go on.
FoundInTableMutant(f) == TRUE
FoundInTable(f) == f \in table

\* SarOrphanControlContext up to the release of extension->mutex.
BeginOrphan(f, otherwise) ==
    /\ table' = table \ {f}
    /\ file' = [file EXCEPT ![f] = IF FoundInTable(f) THEN "unlinked"
                                                        ELSE otherwise]
    /\ UNCHANGED <<ctxVars, layoutSet, listVars, orphans, itemQueued, epVars,
                   owner, activePin, irp, worker, holder>>

\* IRP_MJ_CLEANUP: the last handle on the file object is closed.
SarIrpCleanup(f) ==
    /\ file[f] = "open"
    /\ Building(f) = {}
    /\ BeginOrphan(f, "cleaned")

\* IRP_MJ_CLOSE: sent once no IRP of the file object is outstanding.
SarIrpClose(f) ==
    /\ file[f] = "cleaned"
    /\ Outstanding(f) = {}
    /\ BeginOrphan(f, "closed")

\* The endpoints configured so far move to the local list.
OrphanDetach(f) ==
    /\ file[f] = "unlinked"
    /\ file' = [file EXCEPT ![f] = "draining"]
    /\ orphans' = [orphans EXCEPT ![f] = active[f]]
    /\ active' = [active EXCEPT ![f] = {}]
    /\ stage' = [e \in Endpoints |-> IF e \in active[f] THEN "orphaning"
                                                        ELSE stage[e]]
    /\ UNCHANGED <<table, ctxVars, layoutSet, pending, itemQueued, epRefs,
                   owner, activePin, irp, worker, holder>>

\* SarOrphanEndpoint: disable the device interfaces, release the endpoint.
SarOrphanEndpoint(f, e) ==
    /\ file[f] = "draining"
    /\ e \in orphans[f]
    /\ orphans' = [orphans EXCEPT ![f] = @ \ {e}]
    /\ ReleaseEndpoints({e})
    /\ UNCHANGED <<file, table, ctxVars, layoutSet, listVars, itemQueued,
                   owner, activePin, irp, worker, holder>>

\* The reference SarCreateControlContext started with is dropped.
OrphanRelease(f) ==
    /\ file[f] = "draining"
    /\ orphans[f] = {}
    /\ file' = [file EXCEPT ![f] = "cleaned"]
    /\ ReleaseContext(f)
    /\ UNCHANGED <<table, layoutSet, orphans, itemQueued, owner, activePin,
                   irp, worker, holder>>

-----------------------------------------------------------------------------
(* The work item: SarProcessPendingEndpoints                               *)

\* The Flink the worker saves before it unlinks the first of the requests.
SavedEntryMutant(requests) == requests[1]
SavedEntry(requests) == IF Len(requests) = 1 THEN Null ELSE requests[2]

\* What one pass through the loop head does under the mutex, given the entry
\* saved before the mutex was dropped (Null is the list's head) and the
\* endpoint list act and stages stg left by the part before it.  At the end
\* of the list the loop looks once more for requests added meanwhile.  The
\* saved entry is followed as it is: when another worker has moved it to the
\* endpoint list it is taken from there, and when it is on no list the
\* unlinking finds broken links and the system stops.
TakeNext(w, f, saved, act, stg) ==
    LET entry == IF saved = Null /\ pending[f] # <<>> THEN Head(pending[f])
                                                      ELSE saved
        isHead == pending[f] # <<>> /\ Head(pending[f]) = entry
        At(pc, e, next) == worker' = [worker EXCEPT ![w] =
                              [pc |-> pc, file |-> f, ep |-> e, next |-> next]]
    IN \/ /\ entry = Null
          /\ At("exiting", Null, Null)
          /\ active' = [active EXCEPT ![f] = act]
          /\ stage' = stg
          /\ UNCHANGED pending
       \/ /\ entry # Null /\ isHead
          /\ At("configuring", entry, SavedEntry(pending[f]))
          /\ pending' = [pending EXCEPT ![f] = Tail(@)]
          /\ active' = [active EXCEPT ![f] = act]
          /\ stage' = [stg EXCEPT ![entry] = "configuring"]
       \/ /\ entry # Null /\ ~isHead /\ entry \in act
          /\ \E after \in (act \ {entry}) \cup {Garbage} :
                At("configuring", entry, after)
          /\ active' = [active EXCEPT ![f] = act \ {entry}]
          /\ stage' = [stg EXCEPT ![entry] = "configuring"]
          /\ UNCHANGED pending
       \/ /\ entry # Null /\ ~isHead /\ entry \notin act
          /\ At("bugcheck", Null, Null)
          /\ UNCHANGED <<listVars, stage>>

\* A system worker thread dequeues the work item and enters the loop.
StartWork(w, f) ==
    /\ worker[w].pc = "idle"
    /\ itemQueued[f] > 0
    /\ itemQueued' = [itemQueued EXCEPT ![f] = @ - 1]
    /\ TakeNext(w, f, Null, active[f], stage)
    /\ UNCHANGED <<file, table, ctxVars, layoutSet, orphans, epRefs, owner,
                   activePin, irp, holder>>

Complete(e) ==
    irp' = [irp EXCEPT ![e] = IF @ = "pending" THEN "completed"
                                               ELSE "completedTwice"]

\* The device interfaces are configured: the endpoint joins the endpoint
\* list, the IRP is completed and the loop goes on, under one lock.
ConfigureSucceeds(w) ==
    LET f == worker[w].file
        e == worker[w].ep
    IN /\ worker[w].pc = "configuring"
       /\ Complete(e)
       /\ TakeNext(w, f, worker[w].next, active[f] \cup {e},
                   [stage EXCEPT ![e] = "active"])
       /\ UNCHANGED <<file, table, ctxVars, layoutSet, orphans, itemQueued,
                      epRefs, owner, activePin, holder>>

\* A property, a link or an interface could not be set: the endpoint is
\* released and the IRP is completed with the error.
ConfigureFails(w) ==
    LET f == worker[w].file
        e == worker[w].ep
    IN /\ worker[w].pc = "configuring"
       /\ Complete(e)
       /\ epRefs' = [epRefs EXCEPT ![e] = @ - 1]
       /\ TakeNext(w, f, worker[w].next, active[f],
                   [stage EXCEPT ![e] = IF epRefs[e] = 1 THEN "freed"
                                                         ELSE "released"])
       /\ UNCHANGED <<file, table, ctxVars, layoutSet, orphans, itemQueued,
                      owner, activePin, holder>>

\* With the mutex released, the reference taken for the work item is dropped.
ExitWork(w) ==
    /\ worker[w].pc = "exiting"
    /\ worker' = [worker EXCEPT ![w] = IdleWorker]
    /\ ReleaseContext(worker[w].file)
    /\ UNCHANGED <<file, table, layoutSet, orphans, itemQueued, owner,
                   activePin, irp, holder>>

-----------------------------------------------------------------------------
(* Kernel streaming: filters and pins                                      *)

\* What SarGetEndpointFromIrp can find.
Reachable(e) == owner[e] \in table /\ e \in active[owner[e]]

\* SarGetEndpointFromIrp(irp, TRUE): found and retained under both mutexes.
LookupAndRetain(h, e, pc) ==
    /\ Reachable(e)
    /\ ctxRefs' = SarRetainControlContext(owner[e])
    /\ epRefs' = SarRetainEndpoint(e)
    /\ holder' = [holder EXCEPT ![h] = [pc |-> pc, file |-> owner[e], ep |-> e]]
    /\ UNCHANGED <<file, table, ctxState, layoutSet, listVars, orphans,
                   itemQueued, stage, owner, activePin, irp, worker>>

SarKsFilterCreate(h, e) ==
    /\ holder[h].pc = "closed"
    /\ LookupAndRetain(h, e, "open")

\* SarKsPinCreate finds the endpoint again, through its filter's factory.
PinLookup(p) ==
    /\ holder[p].pc = "closed"
    /\ holder[ParentOf[p]].pc = "open"
    /\ LookupAndRetain(p, holder[ParentOf[p]].ep, "looked")

\* InterlockedCompareExchangePointer on activePin.
ClaimWon(e) == activePin[e] = Null

\* The pin that loses backs out.
PinClaim(p) ==
    LET e == holder[p].ep
        won == ClaimWon(e)
    IN /\ holder[p].pc = "looked"
       /\ activePin' = [activePin EXCEPT ![e] = IF won THEN p ELSE @]
       /\ holder' = [holder EXCEPT ![p].pc = IF won THEN "claimed"
                                                    ELSE "dropEp"]
       /\ UNCHANGED <<file, table, ctxVars, layoutSet, listVars, orphans,
                      itemQueued, epVars, owner, irp, worker>>

\* The process context is there (created or found): the pin is open.
PinReady(p) ==
    /\ holder[p].pc = "claimed"
    /\ holder' = [holder EXCEPT ![p].pc = "open"]
    /\ UNCHANGED <<file, table, ctxVars, layoutSet, listVars, orphans,
                   itemQueued, epVars, owner, activePin, irp, worker>>

\* SarKsPinClose, and SarKsPinCreate when the process context fails: both
\* clear activePin and then drop the references.
PinLeave(p) ==
    /\ holder[p].pc \in {"claimed", "open"}
    /\ activePin' = [activePin EXCEPT ![holder[p].ep] = Null]
    /\ holder' = [holder EXCEPT ![p].pc = "dropEp"]
    /\ UNCHANGED <<file, table, ctxVars, layoutSet, listVars, orphans,
                   itemQueued, epVars, owner, irp, worker>>

\* Kernel streaming closes a filter after the pins opened on it.
SarKsFilterClose(h) ==
    /\ holder[h].pc = "open"
    /\ \A p \in Pins : ParentOf[p] = h => holder[p].pc = "closed"
    /\ holder' = [holder EXCEPT ![h].pc = "dropEp"]
    /\ UNCHANGED <<file, table, ctxVars, layoutSet, listVars, orphans,
                   itemQueued, epVars, owner, activePin, irp, worker>>

\* SarReleaseEndpointAndContext has read the owner; first the endpoint...
DropEndpoint(h) ==
    /\ holder[h].pc = "dropEp"
    /\ epRefs' = [epRefs EXCEPT ![holder[h].ep] = @ - 1]
    /\ stage' = IF epRefs[holder[h].ep] = 1
                THEN [stage EXCEPT ![holder[h].ep] = "freed"] ELSE stage
    /\ holder' = [holder EXCEPT ![h].pc = "dropCtx"]
    /\ UNCHANGED <<file, table, ctxVars, layoutSet, listVars, orphans,
                   itemQueued, owner, activePin, irp, worker>>

\* ... then the context.
DropContext(h) ==
    /\ holder[h].pc = "dropCtx"
    /\ holder' = [holder EXCEPT ![h] = ClosedHolder]
    /\ ReleaseContext(holder[h].file)
    /\ UNCHANGED <<file, table, layoutSet, orphans, itemQueued, owner,
                   activePin, irp, worker>>

-----------------------------------------------------------------------------
Orphaning(f) ==
    OrphanDetach(f) \/ OrphanRelease(f) \/ \E e \in Endpoints : SarOrphanEndpoint(f, e)

Dispatch(e) == CreateFails(e) \/ QueuePending(e)

Work(w) ==
    \/ \E f \in Files : StartWork(w, f)
    \/ ConfigureSucceeds(w) \/ ConfigureFails(w)
    \/ ExitWork(w)

Dropping(h) == DropEndpoint(h) \/ DropContext(h)

Next ==
    \/ \E f \in Files :
          \/ SarIrpCreate(f) \/ SarSetBufferLayout(f)
          \/ SarIrpCleanup(f) \/ SarIrpClose(f)
          \/ Orphaning(f)
          \/ \E e \in Endpoints : SarCreateEndpoint(f, e)
    \/ \E e \in Endpoints : Dispatch(e)
    \/ \E w \in Workers : Work(w)
    \/ \E h \in Filters :
          (\E e \in Endpoints : SarKsFilterCreate(h, e)) \/ SarKsFilterClose(h)
    \/ \E p \in Pins : PinLookup(p) \/ PinClaim(p) \/ PinReady(p) \/ PinLeave(p)
    \/ \E h \in Holders : Dropping(h)

Spec == Init /\ [][Next]_vars

\* Threads inside the driver go on: the dispatched request, the worker that
\* dequeues or runs the work item, the thread in SarOrphanControlContext, the
\* one in SarReleaseEndpointAndContext.  The client and the streaming
\* applications promise nothing.
Fairness ==
    /\ \A e \in Endpoints : WF_vars(Dispatch(e))
    /\ \A f \in Files : WF_vars(\E w \in Workers : StartWork(w, f))
    /\ \A w \in Workers :
          WF_vars(ConfigureSucceeds(w) \/ ConfigureFails(w) \/ ExitWork(w))
    /\ \A f \in Files : WF_vars(Orphaning(f))
    /\ \A h \in Holders : WF_vars(Dropping(h))

FairSpec == Spec /\ Fairness

-----------------------------------------------------------------------------
(* Properties *)

TypeOK ==
    /\ file \in [Files -> FileStates]
    /\ table \subseteq Files
    /\ ctxState \in [Files -> {"none", "live", "freed"}]
    /\ ctxRefs \in [Files -> Nat]
    /\ layoutSet \subseteq Files
    /\ pending \in [Files -> Seq(Endpoints)]
    /\ active \in [Files -> SUBSET Endpoints]
    /\ orphans \in [Files -> SUBSET Endpoints]
    /\ itemQueued \in [Files -> Nat]
    /\ stage \in [Endpoints -> Stages]
    /\ owner \in [Endpoints -> Files \cup {Null}]
    /\ epRefs \in [Endpoints -> Nat]
    /\ activePin \in [Endpoints -> Pins \cup {Null}]
    /\ irp \in [Endpoints -> IrpStates]
    /\ worker \in [Workers ->
          [pc : {"idle", "configuring", "exiting", "bugcheck"},
           file : Files \cup {Null},
           ep : Endpoints \cup {Null},
           next : Endpoints \cup {Null, Garbage}]]
    /\ holder \in [Holders ->
          [pc : HolderStates, file : Files \cup {Null}, ep : Endpoints \cup {Null}]]

\* The references a context and an endpoint start with, until they are dropped.
CtxBase(f) == file[f] \in {"open", "unlinked", "draining"}
EpBase(e) == stage[e] \in {"building", "queued", "configuring", "active",
                           "orphaning"}

CtxWorkers(f) == {w \in Workers : worker[w].file = f}
CtxHolders(f) == {h \in Holders : holder[h].file = f}
EpHolders(e) == {h \in Holders : holder[h].ep = e
                                 /\ holder[h].pc \in {"looked", "claimed",
                                                      "open", "dropEp"}}

CtxBaseRefs(f) == IF CtxBase(f) THEN 1 ELSE 0
EpBaseRefs(e) == IF EpBase(e) THEN 1 ELSE 0

\* SarControlContext.refs and SarEndpoint.refs count exactly the handle, the
\* queued work items, the workers and the streaming instances that still point
\* to the object, whatever the order in which these let go (sar.h 325-433).
ContextRefsExact ==
    \A f \in Files :
       ctxRefs[f] = CtxBaseRefs(f) + itemQueued[f]
                    + Cardinality(CtxWorkers(f)) + Cardinality(CtxHolders(f))

EndpointRefsExact ==
    \A e \in Endpoints :
       epRefs[e] = EpBaseRefs(e) + Cardinality(EpHolders(e))

\* Nobody who will still follow a pointer to a context or an endpoint finds it
\* freed: not the table, the lists, the work item, a worker with the mutex
\* dropped, the thread orphaning the context or a streaming instance.
NoDanglingReference ==
    /\ \A f \in Files :
          (\/ f \in table \/ CtxBase(f) \/ itemQueued[f] > 0
           \/ CtxWorkers(f) # {} \/ CtxHolders(f) # {})
          => ctxState[f] = "live"
    /\ \A f \in Files : \A e \in active[f] \cup Range(pending[f]) \cup orphans[f] :
          EpBase(e) /\ owner[e] = f
    /\ \A w \in Workers : worker[w].pc = "configuring" =>
          EpBase(worker[w].ep) /\ owner[worker[w].ep] = worker[w].file
    /\ \A h \in Holders : holder[h].pc \in {"looked", "claimed", "open", "dropEp"} =>
          stage[holder[h].ep] \in Stages \ {"absent", "freed"}

\* An endpoint never outlives the context its owner field names, although it
\* holds no reference on it (control.cpp:447, pin.cpp:231 and 307 follow it).
OwnerOutlivesEndpoint ==
    \A e \in Endpoints :
       stage[e] \notin {"absent", "freed"} => ctxState[owner[e]] = "live"

\* The entry a worker saved before it dropped the mutex is still on the
\* pending list when the worker comes back to it (control.cpp 309-311).
SavedEntryStillPending ==
    \A w \in Workers :
       worker[w].pc = "configuring" /\ worker[w].next # Null =>
          worker[w].next \in Range(pending[worker[w].file])

\* The one IO_WORKITEM of a context is not handed to IoQueueWorkItem while it
\* is still in the system's queue.
WorkItemQueuedOnce == \A f \in Files : itemQueued[f] <= 1

\* A create request's IRP is completed at most once, even when requests are
\* added while a worker has dropped the mutex (control.cpp 388-389).
CreateCompletedOnce == \A e \in Endpoints : irp[e] # "completedTwice"

\* Every create request left pending is completed.
CreateAnswered == \A e \in Endpoints : irp[e] = "pending" ~> irp[e] = "completed"

\* Once its handle is closed a context is freed with all its endpoints, or
\* a streaming application still has one of its filters or pins open.
OrphanReclaimed ==
    \A f \in Files : file[f] = "unlinked" ~>
       \/ ctxState[f] = "freed" /\ \A e \in Owned(f) : stage[e] = "freed"
       \/ CtxHolders(f) # {}

-----------------------------------------------------------------------------
(* The inductive invariant of a client that waits for each answer          *)

Waiting(e) == stage[e] \in {"building", "queued", "configuring"}

FileInv ==
    \A f \in Files :
       /\ f \in table <=> file[f] = "open"
       /\ ctxState[f] = "none" <=> file[f] = "new"
       /\ ctxState[f] = "live" <=> ctxRefs[f] > 0
       /\ orphans[f] # {} => file[f] = "draining"

\* Every endpoint is where its stage says.
EndpointInv ==
    \A e \in Endpoints :
       /\ stage[e] = "absent" <=> owner[e] = Null
       /\ stage[e] \in {"absent", "freed"} <=> epRefs[e] = 0
       /\ Waiting(e) => epRefs[e] = 1
       /\ stage[e] = "building" => file[owner[e]] = "open"
       /\ stage[e] = "queued" => pending[owner[e]] = <<e>>
       /\ stage[e] = "configuring" =>
             \E w \in Workers : worker[w].pc = "configuring" /\ worker[w].ep = e
       /\ stage[e] = "active" => e \in active[owner[e]]
       /\ stage[e] = "orphaning" => e \in orphans[owner[e]]
       /\ irp[e] = "pending" <=> Waiting(e)
       /\ irp[e] # "completedTwice"

\* At most one request per client is on its way, so the pending list holds
\* one entry at most, and the work item is queued exactly when it does.
ListInv ==
    /\ \A f \in Files :
          /\ \A e \in active[f] : stage[e] = "active" /\ owner[e] = f
          /\ \A e \in orphans[f] : stage[e] = "orphaning" /\ owner[e] = f
          /\ pending[f] # <<>> => \E e \in Endpoints :
                pending[f] = <<e>> /\ stage[e] = "queued" /\ owner[e] = f
          /\ itemQueued[f] = IF pending[f] # <<>> THEN 1 ELSE 0
    /\ \A d, e \in Endpoints :
          Waiting(d) /\ Waiting(e) /\ owner[d] = owner[e] => d = e

WorkerInv ==
    \A w \in Workers :
       /\ worker[w].pc # "bugcheck"
       /\ worker[w].pc = "idle" <=> worker[w].file = Null
       /\ worker[w].pc = "configuring" =>
             /\ worker[w].next = Null
             /\ worker[w].ep # Null
             /\ stage[worker[w].ep] = "configuring"
             /\ owner[worker[w].ep] = worker[w].file
       /\ \A v \in Workers :
             worker[v].pc = "configuring" /\ worker[w].pc = "configuring"
             /\ worker[v].ep = worker[w].ep => v = w

HolderInv ==
    \A h \in Holders :
       /\ holder[h].pc = "closed" <=> holder[h].file = Null
       /\ holder[h].pc \in {"looked", "claimed", "open", "dropEp"} =>
             holder[h].ep # Null /\ owner[holder[h].ep] = holder[h].file

IInv ==
    /\ TypeOK
    /\ FileInv /\ EndpointInv /\ ListInv /\ WorkerInv /\ HolderInv
    /\ ContextRefsExact /\ EndpointRefsExact /\ OwnerOutlivesEndpoint

=============================================================================
