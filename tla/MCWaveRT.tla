------------------------------- MODULE MCWaveRT -------------------------------
(* Instances of WaveRT for TLC. *)
EXTENDS WaveRT, TLC

CONSTANTS e1, e2, p1, p2, q1, q2, q3, left, right

\* Two cells of three bytes, one for a buffer of each endpoint; three cells, of which
\* e1's buffer has two, and no minimum, so that e2's is everything; one layout that
\* is refused.
MCLayouts ==
    {[bufferSize |-> 7, periodSizeBytes |-> 1, sampleSize |-> 1,
      sampleRate |-> 44100, minimumFrameCount |-> 1],
     [bufferSize |-> 10, periodSizeBytes |-> 2, sampleSize |-> 4,
      sampleRate |-> 48000, minimumFrameCount |-> 0],
     [bufferSize |-> 4, periodSizeBytes |-> 5, sampleSize |-> 2,
      sampleRate |-> 48000, minimumFrameCount |-> 2]}
MCChannelCount == (e1 :> 1) @@ (e2 :> 2)
MCFormatChannels == (e1 :> {0}) @@ (e2 :> {2})
MCClients == (e1 :> {q1, q2}) @@ (e2 :> {q3})
MCRequests == (e1 :> {1}) @@ (e2 :> {0})
MCCallerRanges ==
    [channels : {0, 1, 4}, minRate : {8000}, maxRate : {44100, 192000},
     minBits : {8}, maxBits : {8, 32}]
MCSymmetry == Permutations(Pins) \cup Permutations(Clients[e1])
=============================================================================
