------------------------------ MODULE Handover -------------------------------
(***************************************************************************)
(* What the transfer of a server promises: the node to which the panel     *)
(* sends the users holds a whole copy of the files at all times.           *)
(***************************************************************************)
CONSTANTS Source, Target

VARIABLES
    owner,   \* the node the server belongs to, for the panel
    copies   \* the nodes that hold all of its files

Init == owner = Source /\ copies = {Source}

\* The target has received everything.
Receive ==
    /\ owner = Source
    /\ copies' = copies \cup {Target}
    /\ UNCHANGED owner

\* The target starts again, or gives its copy up.
Forget ==
    /\ owner = Source
    /\ copies' = copies \ {Target}
    /\ UNCHANGED owner

\* The panel moves the server to a node that has the files.
Move ==
    /\ owner = Source /\ Target \in copies
    /\ owner' = Target
    /\ UNCHANGED copies

\* The old node deletes its copy.
Release ==
    /\ owner = Target
    /\ copies' = copies \ {Source}
    /\ UNCHANGED owner

Next == Receive \/ Forget \/ Move \/ Release

Spec == Init /\ [][Next]_<<owner, copies>>
==============================================================================
