------------------------------ MODULE HandleQueue ------------------------------
(***************************************************************************)
(* The handle queue of a control context.                                  *)
(*                                                                         *)
(* An audio client registers a notification event on its pin; the driver   *)
(* posts the event's handle to the queue of the context that owns the      *)
(* endpoint.  The ASIO client waits for handles with SAR_WAIT_HANDLE_QUEUE *)
(* requests, which stay pending while the queue is empty.  A pending       *)
(* request is completed by a post, by its cancel routine or by the cleanup *)
(* of the client's file object; these run at the same time.  The queue's   *)
(* spin lock covers pendingIrps and pendingItems: one action is one        *)
(* critical section, or the steps between two of them.                     *)
(***************************************************************************)
EXTENDS Integers, Sequences, FiniteSets, Functions

CONSTANTS
    Handles,   \* notification events, each registered once
    Irps,      \* SAR_WAIT_HANDLE_QUEUE requests
    MaxItems,  \* how many responses fit in a request's output buffer
    Null       \* no request

ASSUME QueueAssumption == MaxItems \in Nat \ {0} /\ Null \notin Irps

VARIABLES
    client,         \* "open", "stopping" (in CancelIoEx) or "closed"
    context,        \* "listed", "unlinked", "cancelled": SarOrphanControlContext
    pendingItems,   \* SarHandleQueue.pendingItems
    pendingIrps,    \* SarHandleQueue.pendingIrps
    irpsToCancel,   \* SarCancelAllHandleQueueIrps's local list
    post,           \* the threads in SarKsPinRtRegisterNotificationEvent
    irp,            \* [Irps -> IrpStates]
    given,          \* the handles whose transfer to a request is under way or done
    result,         \* the status a request was completed with
    cancelRoutine,  \* the requests whose cancel routine is set
    canceller       \* [Irps -> CancelStates]: the thread in the cancel routine

clientVars == <<client, context>>
queueVars == <<pendingItems, pendingIrps, irpsToCancel>>
irpVars == <<irp, result, cancelRoutine>>
vars == <<clientVars, queueVars, post, irpVars, given, canceller>>

IrpStates == {"new", "dispatched", "pending", "completed", "completedTwice"}
Results == {"none", "success", "error", "cancelled"}
CancelStates == {"idle", "entered", "searching", "found"}
NewPost == [pc |-> "new", irp |-> Null]

Init ==
    /\ client = "open"
    /\ context = "listed"
    /\ pendingItems = <<>>
    /\ pendingIrps = <<>>
    /\ irpsToCancel = <<>>
    /\ post = [h \in Handles |-> NewPost]
    /\ irp = [i \in Irps |-> "new"]
    /\ given = [i \in Irps |-> <<>>]
    /\ result = [i \in Irps |-> "none"]
    /\ cancelRoutine = {}
    /\ canceller = [i \in Irps |-> "idle"]

\* RemoveEntryList on an entry in the list s.
Without(s, i) ==
    LET k == CHOOSE j \in DOMAIN s : s[j] = i
    IN [j \in 1..(Len(s) - 1) |-> IF j < k THEN s[j] ELSE s[j + 1]]

\* IoCompleteRequest; a request that already has a result keeps the first.
Complete(i, status) ==
    /\ irp' = [irp EXCEPT ![i] = IF @ \in {"dispatched", "pending"}
                                 THEN "completed" ELSE "completedTwice"]
    /\ result' = [result EXCEPT ![i] = IF @ = "none" THEN status ELSE @]

-----------------------------------------------------------------------------
(* Posting: SarKsPinRtRegisterNotificationEvent and SarPostHandleQueue      *)

\* The endpoint is found and retained, with its owner, while the context is
\* in the table.
RegisterNotificationEvent(h) ==
    /\ post[h].pc = "new"
    /\ context = "listed"
    /\ post' = [post EXCEPT ![h].pc = "posting"]
    /\ UNCHANGED <<clientVars, queueVars, irpVars, given, canceller>>

\* A waiting request is taken off its list, to be completed without the lock.
ClaimWaitMutant(h) ==
    /\ given' = [given EXCEPT ![Head(pendingIrps)] = <<h>>]
    /\ post' = [post EXCEPT ![h] = [pc |-> "claimed", irp |-> Head(pendingIrps)]]
    /\ UNCHANGED pendingIrps
ClaimWait(h) ==
    /\ given' = [given EXCEPT ![Head(pendingIrps)] = <<h>>]
    /\ post' = [post EXCEPT ![h] = [pc |-> "claimed", irp |-> Head(pendingIrps)]]
    /\ pendingIrps' = Tail(pendingIrps)

PostToWait(h) ==
    /\ post[h].pc = "posting"
    /\ pendingIrps # <<>>
    /\ ClaimWait(h)
    /\ UNCHANGED <<clientVars, pendingItems, irpsToCancel, irpVars, canceller>>

\* Without a request the handle is queued.
PostToQueue(h) ==
    /\ post[h].pc = "posting"
    /\ pendingIrps = <<>>
    /\ pendingItems' = Append(pendingItems, h)
    /\ post' = [post EXCEPT ![h].pc = "done"]
    /\ UNCHANGED <<clientVars, pendingIrps, irpsToCancel, irpVars, given, canceller>>

\* The process could not be opened, or there is no memory for the item.
PostFails(h) ==
    /\ post[h].pc = "posting"
    /\ post' = [post EXCEPT ![h].pc = "done"]
    /\ UNCHANGED <<clientVars, queueVars, irpVars, given, canceller>>

\* SarTransferQueuedHandle duplicates the handle or fails; either way the
\* request is completed.
CompletePosted(h) ==
    LET i == post[h].irp
    IN /\ post[h].pc = "claimed"
       /\ post' = [post EXCEPT ![h] = [pc |-> "done", irp |-> Null]]
       /\ \E status \in {"success", "error"} : Complete(i, status)
       /\ cancelRoutine' = cancelRoutine \ {i}
       /\ UNCHANGED <<clientVars, queueVars, given, canceller>>

-----------------------------------------------------------------------------
(* Waiting: SarWaitHandleQueue                                             *)

\* Queued handles are taken, as many as fit.
BatchMutant == pendingItems
Batch == SubSeq(pendingItems, 1, IF MaxItems < Len(pendingItems)
                                 THEN MaxItems ELSE Len(pendingItems))

WaitTakes(i) ==
    /\ client = "open" /\ irp[i] = "new"
    /\ pendingItems # <<>>
    /\ irp' = [irp EXCEPT ![i] = "dispatched"]
    /\ given' = [given EXCEPT ![i] = Batch]
    /\ pendingItems' = SubSeq(pendingItems, Len(Batch) + 1, Len(pendingItems))
    /\ UNCHANGED <<clientVars, pendingIrps, irpsToCancel, post, result,
                   cancelRoutine, canceller>>

\* The handles are duplicated without the lock, up to the first failure;
\* SarIrpDeviceControl completes the request.
CompleteTaken(i) ==
    /\ irp[i] = "dispatched"
    /\ \E status \in {"success", "error"} : Complete(i, status)
    /\ UNCHANGED <<clientVars, queueVars, post, given, cancelRoutine, canceller>>

\* Nothing is queued: the request is left pending.
MayPendMutant == TRUE
MayPend == pendingItems = <<>>

WaitPends(i) ==
    /\ client = "open" /\ irp[i] = "new"
    /\ MayPend
    /\ irp' = [irp EXCEPT ![i] = "pending"]
    /\ cancelRoutine' = cancelRoutine \cup {i}
    /\ pendingIrps' = Append(pendingIrps, i)
    /\ UNCHANGED <<clientVars, pendingItems, irpsToCancel, post, result, given,
                   canceller>>

\* The process could not be opened, or there is no memory for the list entry.
WaitFails(i) ==
    /\ client = "open" /\ irp[i] = "new"
    /\ irp' = [irp EXCEPT ![i] = "completed"]
    /\ result' = [result EXCEPT ![i] = "error"]
    /\ UNCHANGED <<clientVars, queueVars, post, cancelRoutine, given, canceller>>

-----------------------------------------------------------------------------
(* Cancelling one request: CancelIoEx and SarCancelHandleQueueIrp          *)

\* SarClient::stop has the lock tick sends its waits under.
Stop ==
    /\ client = "open"
    /\ \A i \in Irps : irp[i] # "dispatched"
    /\ client' = "stopping"
    /\ UNCHANGED <<context, queueVars, post, irpVars, given, canceller>>

\* IoCancelIrp takes the cancel routine of a request and calls it.
IoCancelIrp(i) ==
    /\ client = "stopping"
    /\ irp[i] = "pending" /\ i \in cancelRoutine
    /\ cancelRoutine' = cancelRoutine \ {i}
    /\ canceller' = [canceller EXCEPT ![i] = "entered"]
    /\ UNCHANGED <<clientVars, queueVars, post, irp, result, given>>

\* The context is looked up again; without it the routine does nothing.
CancelLookup(i) ==
    /\ canceller[i] = "entered"
    /\ canceller' = [canceller EXCEPT ![i] = IF context = "listed"
                                             THEN "searching" ELSE "idle"]
    /\ UNCHANGED <<clientVars, queueVars, post, irpVars, given>>

\* Only a request still on the list is the routine's to complete.
MayCancelMutant(i) == TRUE
MayCancel(i) == i \in Range(pendingIrps)

CancelSearch(i) ==
    /\ canceller[i] = "searching"
    /\ pendingIrps' = IF i \in Range(pendingIrps) THEN Without(pendingIrps, i)
                                                  ELSE pendingIrps
    /\ canceller' = [canceller EXCEPT ![i] = IF MayCancel(i) THEN "found" ELSE "idle"]
    /\ UNCHANGED <<clientVars, pendingItems, irpsToCancel, post, irpVars, given>>

CancelComplete(i) ==
    /\ canceller[i] = "found"
    /\ Complete(i, "cancelled")
    /\ canceller' = [canceller EXCEPT ![i] = "idle"]
    /\ UNCHANGED <<clientVars, queueVars, post, cancelRoutine, given>>

-----------------------------------------------------------------------------
(* Cancelling all of them: SarOrphanControlContext                         *)

\* The handle is closed, by stop() after CancelIoEx has come back or with the
\* process; the context leaves the table.
Cleanup ==
    /\ client \in {"open", "stopping"}
    /\ \A i \in Irps : irp[i] # "dispatched" /\ canceller[i] = "idle"
    /\ client = "stopping" => \A i \in cancelRoutine : irp[i] # "pending"
    /\ client' = "closed"
    /\ context' = "unlinked"
    /\ UNCHANGED <<queueVars, post, irpVars, given, canceller>>

\* SarCancelAllHandleQueueIrps empties the list under the lock...
TakenByCleanupMutant == <<>>
TakenByCleanup == pendingIrps

CancelAllDetach ==
    /\ context = "unlinked"
    /\ context' = "cancelled"
    /\ irpsToCancel' = TakenByCleanup
    /\ pendingIrps' = <<>>
    /\ UNCHANGED <<client, pendingItems, post, irpVars, given, canceller>>

\* ... and completes what it took.
CancelAllComplete ==
    /\ irpsToCancel # <<>>
    /\ Complete(Head(irpsToCancel), "cancelled")
    /\ cancelRoutine' = cancelRoutine \ {Head(irpsToCancel)}
    /\ irpsToCancel' = Tail(irpsToCancel)
    /\ UNCHANGED <<clientVars, pendingItems, pendingIrps, post, given, canceller>>

-----------------------------------------------------------------------------
Posting(h) ==
    PostToWait(h) \/ PostToQueue(h) \/ PostFails(h) \/ CompletePosted(h)
Waiting(i) == WaitTakes(i) \/ WaitPends(i) \/ WaitFails(i)
Cancelling(i) == CancelLookup(i) \/ CancelSearch(i) \/ CancelComplete(i)
CancellingAll == CancelAllDetach \/ CancelAllComplete

Next ==
    \/ \E h \in Handles : RegisterNotificationEvent(h) \/ Posting(h)
    \/ \E i \in Irps : \/ Waiting(i) \/ CompleteTaken(i)
                       \/ IoCancelIrp(i) \/ Cancelling(i)
    \/ Stop \/ Cleanup \/ CancellingAll

Spec == Init /\ [][Next]_vars

\* The threads inside the driver go on; nobody has to register an event, to
\* wait, to stop or to close.
Fairness ==
    /\ \A h \in Handles : WF_vars(Posting(h))
    /\ \A i \in Irps : WF_vars(CompleteTaken(i)) /\ WF_vars(Cancelling(i))
    /\ WF_vars(CancellingAll)

FairSpec == Spec /\ Fairness

-----------------------------------------------------------------------------
(* Properties *)

TypeOK ==
    /\ client \in {"open", "stopping", "closed"}
    /\ context \in {"listed", "unlinked", "cancelled"}
    /\ pendingItems \in Seq(Handles)
    /\ pendingIrps \in Seq(Irps)
    /\ irpsToCancel \in Seq(Irps)
    /\ post \in [Handles -> [pc : {"new", "posting", "claimed", "done"},
                             irp : Irps \cup {Null}]]
    /\ irp \in [Irps -> IrpStates]
    /\ given \in [Irps -> Seq(Handles)]
    /\ \A i \in Irps : Len(given[i]) <= MaxItems
    /\ result \in [Irps -> Results]
    /\ cancelRoutine \subseteq Irps
    /\ canceller \in [Irps -> CancelStates]

\* A wait is completed at most once, although a post, its cancel routine and
\* the cleanup of the file object may be after it at the same time.
WaitCompletedOnce == \A i \in Irps : irp[i] # "completedTwice"

\* A wait that was given handles does not end as cancelled, which would lose
\* them.
CancelledWithoutHandles ==
    \A i \in Irps : result[i] = "cancelled" => given[i] = <<>>

\* Once the client's handle is closed every wait it left pending is completed;
\* the file object could not be closed otherwise.
ClosedWaitsEnd ==
    \A i \in Irps : client = "closed" /\ irp[i] = "pending" ~> irp[i] = "completed"

\* The phase of a wait, as HandleChannel has it.
Phase(i) ==
    CASE irp[i] = "new" -> "new"
      [] irp[i] \in {"completed", "completedTwice"} -> "answered"
      [] i \in Range(pendingIrps) -> "parked"
      [] i \notin Range(pendingIrps) /\ irp[i] \in {"dispatched", "pending"} ->
            IF given[i] = <<>> THEN "cancelled" ELSE "served"

Channel == INSTANCE HandleChannel
    WITH Waits <- Irps, waiting <- pendingItems, phase <- [i \in Irps |-> Phase(i)]

\* The queue with its races keeps what HandleChannel promises: posted handles
\* are given to waits in order and once, and no wait is parked beside a queued
\* handle.
ImplementsChannel == Channel!ChannelSpec

-----------------------------------------------------------------------------
(* The inductive invariant *)

Claimed(h, i) == post[h].pc = "claimed" /\ post[h].irp = i
HeldByPost(i) == \E h \in Handles : Claimed(h, i)

\* A request left pending is in the hands of exactly one of the list, the
\* cleanup, its cancel routine and a post; only the last has a handle for it.
HeldOnce(i) ==
    /\ irp[i] = "pending" => \/ i \in Range(pendingIrps) \cup Range(irpsToCancel)
                             \/ canceller[i] = "found" \/ HeldByPost(i)
    /\ i \in Range(pendingIrps) => /\ i \notin Range(irpsToCancel)
                                   /\ canceller[i] # "found"
    /\ i \in Range(irpsToCancel) => canceller[i] # "found"
    /\ i \in Range(pendingIrps) \cup Range(irpsToCancel) \/ canceller[i] = "found"
       => irp[i] = "pending" /\ given[i] = <<>> /\ ~HeldByPost(i)
    /\ \A h \in Handles : Claimed(h, i) => irp[i] = "pending" /\ given[i] = <<h>>

IrpInv ==
    \A i \in Irps :
       /\ HeldOnce(i)
       /\ irp[i] # "completedTwice"
       /\ result[i] = "none" <=> irp[i] \in {"new", "dispatched", "pending"}
       /\ irp[i] = "new" \/ result[i] = "cancelled" => given[i] = <<>>
       /\ irp[i] = "dispatched" => given[i] # <<>>
       /\ irp[i] = "new" \/ i \in cancelRoutine => canceller[i] = "idle"

QueueInv ==
    /\ IsInjective(pendingIrps) /\ IsInjective(irpsToCancel)
    /\ pendingIrps # <<>> => pendingItems = <<>>
    /\ context = "cancelled" => pendingIrps = <<>>
    /\ context # "cancelled" => irpsToCancel = <<>>
    /\ client = "closed" <=> context # "listed"

\* A handle is on its way once.
HandleInv ==
    \A h \in Handles :
       /\ post[h].pc \in {"new", "posting"} =>
             /\ h \notin Range(pendingItems)
             /\ \A i \in Irps : h \notin Range(given[i])
       /\ post[h].pc = "claimed" => post[h].irp # Null

IInv == TypeOK /\ IrpInv /\ QueueInv /\ HandleInv

=============================================================================
