------------------------------- MODULE LockOrder -------------------------------
(***************************************************************************)
(* The mutexes of the driver and the device mutex of kernel streaming: in  *)
(* which order the driver's operations take them, and whether operations   *)
(* that run at the same time can wait for each other in a circle.          *)
(*                                                                         *)
(* One device, one control context and one endpoint, whose mutexes each    *)
(* operation that needs one takes.  What an operation does between two     *)
(* locks is left out.                                                      *)
(***************************************************************************)
EXTENDS Integers, Sequences

CONSTANTS
    Threads,
    NoThread

VARIABLES
    todo,   \* [Threads -> Seq]: what is left of each thread's operation
    owner   \* [Locks -> Threads or NoThread]

vars == <<todo, owner>>

Locks == {"ksDevice", "extension", "context", "endpoint"}
Step(op, lock) == [op |-> op, lock |-> lock]

\* A path on which lock is held.
Held(lock, path) == <<Step("acquire", lock)>> \o path \o <<Step("release", lock)>>
Briefly(lock) == Held(lock, <<>>)

-----------------------------------------------------------------------------
(* The operations                                                          *)

\* Both filter factories are deleted, each with the device held.
SarDeleteEndpoint == Briefly("ksDevice") \o Briefly("ksDevice")

\* A release deletes the endpoint if it is the last one.
SarReleaseEndpoint == {<<>>, SarDeleteEndpoint}

SarGetEndpointFromIrp == Held("extension", Briefly("context"))

\* The mutex is left while the interfaces are registered.  An endpoint that
\* could not be registered is released with the mutex held again.
SarProcessPendingEndpoints ==
    {Briefly("context") \o Briefly("context"),
     Briefly("context") \o Held("context", SarDeleteEndpoint)}

SarCreateEndpoint ==
    {Briefly("ksDevice") \o Briefly("context"), Briefly("ksDevice") \o SarDeleteEndpoint}

SarOrphanControlContext ==
    {Briefly("extension") \o Briefly("context") \o Briefly("endpoint") \o release :
        release \in SarReleaseEndpoint}

SarSendFormatChangeEvent ==
    {Held("ksDevice", Held("extension", Briefly("context")))}

SarStartRegistryFilter == {Briefly("extension")}

\* Kernel streaming holds the device while it creates a filter.
SarKsFilterCreate == {Held("ksDevice", SarGetEndpointFromIrp)}
SarKsPinCreate == {SarGetEndpointFromIrp \o Briefly("endpoint") \o Briefly("endpoint")}
SarKsPinClose ==
    {Briefly("endpoint") \o Briefly("context") \o release : release \in SarReleaseEndpoint}
SarKsPinGetBuffer ==
    {SarGetEndpointFromIrp \o Briefly("context") \o release : release \in SarReleaseEndpoint}

Operations ==
    SarProcessPendingEndpoints \cup SarCreateEndpoint \cup SarOrphanControlContext
    \cup SarSendFormatChangeEvent \cup SarStartRegistryFilter
    \cup SarKsFilterCreate \cup SarKsPinCreate \cup SarKsPinClose \cup SarKsPinGetBuffer

-----------------------------------------------------------------------------
Init ==
    /\ todo = [t \in Threads |-> <<>>]
    /\ owner = [l \in Locks |-> NoThread]

Begin(t) ==
    /\ todo[t] = <<>>
    /\ \E path \in Operations : todo' = [todo EXCEPT ![t] = path]
    /\ UNCHANGED owner

NextLock(t) == Head(todo[t]).lock
Wants(t, op) == todo[t] # <<>> /\ Head(todo[t]).op = op

Acquire(t) ==
    /\ Wants(t, "acquire")
    /\ owner[NextLock(t)] = NoThread
    /\ owner' = [owner EXCEPT ![NextLock(t)] = t]
    /\ todo' = [todo EXCEPT ![t] = Tail(@)]

Release(t) ==
    /\ Wants(t, "release")
    /\ owner' = [owner EXCEPT ![NextLock(t)] = NoThread]
    /\ todo' = [todo EXCEPT ![t] = Tail(@)]

Next == \E t \in Threads : Begin(t) \/ Acquire(t) \/ Release(t)

Spec == Init /\ [][Next]_vars

-----------------------------------------------------------------------------
\* The order of the locks keeps deadlocks away, as the comment in
\* SarSendFormatChangeEvent wants: no set of threads each waits for a lock
\* that another of the set holds.
NoCircularWait ==
    ~\E S \in SUBSET Threads \ {{}} :
        \A t \in S : Wants(t, "acquire") /\ owner[NextLock(t)] \in S

=============================================================================
