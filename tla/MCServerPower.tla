--------------------------- MODULE MCServerPower ---------------------------
(***************************************************************************)
(* Instances of ServerPower for TLC: two clients, up to two event          *)
(* handlers, one console goroutine.                                        *)
(***************************************************************************)
EXTENDS ServerPower, TLC

\* Clients, handlers and readers are interchangeable.
Symmetry == Permutations(Clients) \cup Permutations(Handlers) \cup Permutations(Readers)
=============================================================================
