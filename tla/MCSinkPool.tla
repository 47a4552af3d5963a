----------------------------- MODULE MCSinkPool ------------------------------
(***************************************************************************)
(* SinkPool with two listeners: one without a buffer, like the channel for *)
(* the events of a server, one with, like those for its output.            *)
(***************************************************************************)
EXTENDS SinkPool

CONSTANTS p1, p2, l1, l2

MCPublishers == {p1, p2}
MCMaxMsgs    == [p \in MCPublishers |-> IF p = p1 THEN 2 ELSE 1]
MCListeners  == {l1, l2}
MCCapacity   == [l \in MCListeners |-> IF l = l1 THEN 0 ELSE 1]
=============================================================================
