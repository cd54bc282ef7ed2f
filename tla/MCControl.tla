------------------------------ MODULE MCControl ------------------------------
(* Instances of SarControl for TLC. *)
EXTENDS SarControl

CONSTANTS h1, p1, p2

MCFilters == {h1}
MCOnePin == {p1}
MCTwoPins == {p1, p2}
MCOnePinParent == [p \in {p1} |-> h1]
MCTwoPinsParent == [p \in {p1, p2} |-> h1]

=============================================================================
