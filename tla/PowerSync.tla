----------------------------- MODULE PowerSync -----------------------------
(***************************************************************************)
(* What the power actions of a server promise (the comment on              *)
(* HandlePowerAction and its constants in server/power.go): one worker at  *)
(* a time processes an action, and only that worker boots the process.     *)
(* The process may end at any time.  Once the server is closed for         *)
(* deletion no further worker is taken.                                    *)
(***************************************************************************)
CONSTANT Threads

VARIABLES workers, up, open

syncVars == <<workers, up, open>>

Init == workers = {} /\ up = FALSE /\ open = TRUE

Take(t) == open /\ workers = {} /\ workers' = {t} /\ UNCHANGED <<up, open>>

Drop(t) == workers = {t} /\ workers' = {} /\ UNCHANGED <<up, open>>

Boot == workers # {} /\ ~up /\ up' = TRUE /\ UNCHANGED <<workers, open>>

Down == up /\ up' = FALSE /\ UNCHANGED <<workers, open>>

Close == open /\ open' = FALSE /\ UNCHANGED <<workers, up>>

Next ==
  \/ \E t \in Threads : Take(t) \/ Drop(t)
  \/ Boot \/ Down \/ Close

Spec == Init /\ [][Next]_syncVars
=============================================================================
