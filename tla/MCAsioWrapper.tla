----------------------------- MODULE MCAsioWrapper -----------------------------
(* Instances of AsioWrapper for TLC. *)
EXTENDS AsioWrapper

Playback(n) == [type |-> "Playback", channelCount |-> n]
Recording(n) == [type |-> "Recording", channelCount |-> n]

\* With the channels of one listed and the other in force, a channel may be of
\* the wrong direction, or of no endpoint at all.
MCConfigs == {<<Playback(1)>>, <<Recording(2), Playback(1)>>}
Input(n) == [isInput |-> TRUE, index |-> n]
Output(n) == [isInput |-> FALSE, index |-> n]
\* The last one has a channel that is there with the second configuration only.
MCInfos == {{Input(0), Output(0)}, {Input(0), Input(1)}, {Input(1), Output(1), Output(2)}}
MCSizes(min, max, preferred, granularity) ==
    [min |-> min, max |-> max, preferred |-> preferred, granularity |-> granularity]
\* Powers of two, steps, a fixed size, and a minimum above the limit.
MCInnerSizes == {MCSizes(2, 16, 16, -1), MCSizes(3, 15, 9, 4), MCSizes(8, 8, 8, 0),
                 MCSizes(12, 24, 12, 4)}
MCSampleTypes == {"Int24LSB", "Float32LSB"}
=============================================================================
