------------------------------ MODULE HandleClient ------------------------------
(***************************************************************************)
(* The ASIO client's side of the handle queue: every tick it takes what    *)
(* the driver has answered, and keeps one wait under way.  The driver's    *)
(* side is what HandleChannel promises of it.                              *)
(*                                                                         *)
(* The device is opened for overlapped I/O and its handle is bound to a    *)
(* completion port, so Windows queues a packet for every wait that         *)
(* succeeds, one that is completed before DeviceIoControl returns          *)
(* included: FILE_SKIP_COMPLETION_PORT_ON_SUCCESS is not set.  All waits   *)
(* share one OVERLAPPED and one buffer of responses.  The handles are      *)
(* those of one endpoint, each of a later generation than those before.    *)
(***************************************************************************)
EXTENDS HandleChannel

CONSTANTS
    MaxResponses,  \* how many responses fit in the buffer
    Null           \* no handle

VARIABLES
    pc,         \* the tick's thread: idle, call (DeviceIoControl), returned
    wait,       \* the wait it sends, last sent after that
    started,    \* _handleQueueStarted
    packets,    \* how many responses each packet of _completionPort is about
    responses,  \* _handleQueueCompletion.responses
    kept,       \* _notificationHandles[0].handle
    open        \* the handles duplicated into the client's process, not closed

clientVars == <<pc, wait, started, packets, responses, kept, open>>
vars == <<channelVars, clientVars>>

Init ==
    /\ ChannelInit
    /\ pc = "idle" /\ wait = Null /\ started = FALSE /\ packets = <<>>
    /\ responses = [k \in 1..MaxResponses |-> Null]
    /\ kept = Null /\ open = {}

\* processNotificationHandleUpdates: each response replaces the handle kept,
\* which is closed.
Process(n) ==
    LET closed == {kept} \cup {responses[k] : k \in 1..n - 1}
    IN /\ kept' = IF n = 0 THEN kept ELSE responses[n]
       /\ open' = IF n = 0 THEN open ELSE open \ closed

\* The first half of updateNotificationHandles: is a packet there?
TakePacket ==
    /\ pc = "idle" /\ started /\ packets # <<>>
    /\ Process(Head(packets))
    /\ packets' = Tail(packets)
    /\ pc' = "call"
    /\ UNCHANGED <<channelVars, wait, started, responses>>

NotStarted ==
    /\ pc = "idle" /\ ~started
    /\ started' = TRUE
    /\ pc' = "call"
    /\ UNCHANGED <<channelVars, wait, packets, responses, kept, open>>

\* The responses are copied into the client's buffer when the request is
\* completed, and a packet is queued.
Deliver(handles) ==
    /\ responses' = [k \in 1..MaxResponses |->
                        IF k <= Len(handles) THEN handles[k] ELSE responses[k]]
    /\ open' = open \cup SeqElements(handles)
    /\ packets' = Append(packets, Len(handles))

\* DeviceIoControl: the driver has handles, and completes the wait at once...
CallTakes(i) ==
    /\ pc = "call"
    /\ TakeBatch(i, IF Len(waiting) < MaxResponses THEN Len(waiting) ELSE MaxResponses)
    /\ Deliver(given'[i])
    /\ wait' = i /\ pc' = "returned"
    /\ UNCHANGED <<started, kept>>

\* ... upon which the client processes the responses itself.
CallReturns ==
    /\ pc = "returned"
    /\ Answer(wait)
    /\ Process(Len(given[wait]))
    /\ started' = FALSE
    /\ pc' = "idle"
    /\ UNCHANGED <<wait, packets, responses>>

\* ERROR_IO_PENDING.
CallPends(i) ==
    /\ pc = "call"
    /\ Park(i)
    /\ wait' = i /\ pc' = "idle"
    /\ UNCHANGED <<started, packets, responses, kept, open>>

\* Any other error: the next tick tries again.
CallFails(i) ==
    /\ pc = "call" /\ phase[i] = "new"
    /\ Answer(i)
    /\ wait' = i /\ started' = FALSE
    /\ pc' = "idle"
    /\ UNCHANGED <<packets, responses, kept, open>>

\* A parked wait that was given a handle is completed.
CompleteParked(i) ==
    /\ phase[i] = "served" /\ ~(pc = "returned" /\ wait = i)
    /\ Answer(i)
    /\ Deliver(given[i])
    /\ UNCHANGED <<pc, wait, started, kept>>

Post(h) ==
    /\ PutAside(h) \/ \E i \in Waits : HandOver(h, i)
    /\ UNCHANGED clientVars

Next ==
    \/ TakePacket \/ NotStarted \/ CallReturns
    \/ \E i \in Waits : CallTakes(i) \/ CallPends(i) \/ CallFails(i) \/ CompleteParked(i)
    \/ \E h \in Handles : Post(h)

Spec == Init /\ [][Next]_vars

\* The client sets the event it keeps when a pin's position has moved on.
\* What a wait answered has been processed when DeviceIoControl returned, so
\* that the handle kept for an endpoint is one that is still open.
KeptHandleIsOpen == kept # Null => kept \in open

=============================================================================
