------------------------------ MODULE MCRouting ------------------------------
(* Instances of Routing for TLC. *)
EXTENDS Routing

MCSlots == {<<"eRender", "eConsole">>, <<"eCapture", "eConsole">>}

\* One application that matches and leads both ways, one that does not.
Leads(render, capture) == [slot \in MCSlots |-> IF slot[1] = "eRender" THEN render ELSE capture]
MCApplications ==
    {[path |-> "game", regexMatch |-> FALSE, defaults |-> Leads(1, 2)],
     [path |-> "game", regexMatch |-> TRUE, defaults |-> Leads(2, 1)]}
MCMatching == {<<"game", FALSE>>}
=============================================================================
