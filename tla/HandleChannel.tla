----------------------------- MODULE HandleChannel -----------------------------
(***************************************************************************)
(* What the driver's handle queue promises: event handles posted by audio  *)
(* clients reach the ASIO client's waits in the order they were posted,    *)
(* each at most once; a wait is parked only while there is nothing to give *)
(* it; a wait that is cancelled was given nothing.                         *)
(***************************************************************************)
EXTENDS Naturals, Sequences

CONSTANTS
    Handles,  \* event handles, each posted at most once
    Waits     \* the client's waits

VARIABLES
    waiting,  \* the handles posted and not yet given to a wait, in order
    given,    \* [Waits -> Seq(Handles)]: what each wait was given
    phase     \* [Waits -> {"new", "parked", "served", "cancelled", "answered"}]

channelVars == <<waiting, given, phase>>

SeqElements(s) == {s[k] : k \in 1..Len(s)}
Known == SeqElements(waiting) \cup UNION {SeqElements(given[i]) : i \in Waits}
Parked == {i \in Waits : phase[i] = "parked"}

ChannelInit ==
    /\ waiting = <<>>
    /\ given = [i \in Waits |-> <<>>]
    /\ phase = [i \in Waits |-> "new"]

\* A handle is posted while no wait is parked.
PutAside(h) ==
    /\ h \notin Known
    /\ Parked = {}
    /\ waiting' = Append(waiting, h)
    /\ UNCHANGED <<given, phase>>

\* A handle is posted and given to a parked wait; none is before it.
HandOver(h, i) ==
    /\ h \notin Known
    /\ i \in Parked
    /\ waiting = <<>>
    /\ given' = [given EXCEPT ![i] = <<h>>]
    /\ phase' = [phase EXCEPT ![i] = "served"]
    /\ UNCHANGED waiting

\* A new wait takes the first n of the handles.
TakeBatch(i, n) ==
    /\ phase[i] = "new"
    /\ n \in 1..Len(waiting)
    /\ given' = [given EXCEPT ![i] = SubSeq(waiting, 1, n)]
    /\ waiting' = SubSeq(waiting, n + 1, Len(waiting))
    /\ phase' = [phase EXCEPT ![i] = "served"]

\* A new wait finds no handle.
Park(i) ==
    /\ phase[i] = "new"
    /\ waiting = <<>>
    /\ phase' = [phase EXCEPT ![i] = "parked"]
    /\ UNCHANGED <<waiting, given>>

\* Parked waits are given up, some or all at once.
GiveUp(S) ==
    /\ S \subseteq Parked
    /\ phase' = [i \in Waits |-> IF i \in S THEN "cancelled" ELSE phase[i]]
    /\ UNCHANGED <<waiting, given>>

\* The driver answers a wait, or refuses a new one.
Answer(i) ==
    /\ phase[i] \in {"new", "served", "cancelled"}
    /\ phase' = [phase EXCEPT ![i] = "answered"]
    /\ UNCHANGED <<waiting, given>>

ChannelNext ==
    \/ \E h \in Handles : PutAside(h) \/ \E i \in Waits : HandOver(h, i)
    \/ \E i \in Waits : (\E n \in 1..Len(waiting) : TakeBatch(i, n)) \/ Park(i) \/ Answer(i)
    \/ \E S \in SUBSET Waits : GiveUp(S)

ChannelSpec == ChannelInit /\ [][ChannelNext]_channelVars

=============================================================================
