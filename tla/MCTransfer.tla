----------------------------- MODULE MCTransfer ------------------------------
(***************************************************************************)
(* Instances of Transfer for TLC.                                          *)
(***************************************************************************)
EXTENDS Transfer, TLC

CONSTANTS p1, p2

MCPushes == {p1, p2}
MCCallers == MCPushes \X {"source", "target"}
==============================================================================
