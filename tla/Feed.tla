-------------------------------- MODULE Feed ---------------------------------
(***************************************************************************)
(* What a listener of a sink pool may rely on: from the moment it joins it *)
(* gets the messages of each publisher in the order of their publication,  *)
(* none of them twice.  Messages may be lost; once the feed is over, a     *)
(* listener may be woken with nothing.                                     *)
(***************************************************************************)
EXTENDS Naturals

CONSTANTS Publishers, Listeners

VARIABLES
    members,     \* listeners that have joined and not left
    taking,      \* members that have been given something and work on it
    published,   \* number of messages of each publisher
    got,         \* the last message of each publisher that a listener got
    over         \* the feed has ended

feedVars == <<members, taking, published, got, over>>

Init ==
    /\ members = {} /\ taking = {} /\ over = FALSE
    /\ published = [p \in Publishers |-> 0]
    /\ got = [l \in Listeners |-> published]

Publish(p) ==
    /\ published' = [published EXCEPT ![p] = @ + 1]
    /\ UNCHANGED <<members, taking, got, over>>

\* Nothing that was published before is delivered.
Join(l) ==
    /\ l \notin members /\ members' = members \cup {l}
    /\ got' = [got EXCEPT ![l] = published]
    /\ UNCHANGED <<taking, published, over>>

Give(l) == l \in members \ taking /\ taking' = taking \cup {l}

Deliver(l, p, i) ==
    /\ Give(l)
    /\ got[l][p] < i /\ i <= published[p]
    /\ got' = [got EXCEPT ![l][p] = i]
    /\ UNCHANGED <<members, published, over>>

WakeUp(l) == over /\ Give(l) /\ UNCHANGED <<members, published, got, over>>

Ready(l) == l \in taking /\ taking' = taking \ {l} /\ UNCHANGED <<members, published, got, over>>

Part(l) ==
    /\ l \in members /\ members' = members \ {l} /\ taking' = taking \ {l}
    /\ got' = [got EXCEPT ![l] = [p \in Publishers |-> 0]]
    /\ UNCHANGED <<published, over>>

End == over' = TRUE /\ UNCHANGED <<members, taking, published, got>>

Next ==
    \/ \E p \in Publishers : Publish(p)
    \/ \E l \in Listeners : Join(l) \/ WakeUp(l) \/ Ready(l) \/ Part(l)
    \/ \E l \in Listeners, p \in Publishers : \E i \in 1 .. published[p] : Deliver(l, p, i)
    \/ End

Spec == Init /\ [][Next]_feedVars
=============================================================================
