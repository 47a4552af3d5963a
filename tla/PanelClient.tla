---------------------------- MODULE PanelClient ------------------------------
(***************************************************************************)
(* A request to the panel (remote/http.go): request repeats requestOnce    *)
(* with an exponential backoff until it is answered, refused, or out of    *)
(* time. The panel is external: whether it has processed an attempt is     *)
(* only known to the daemon when the answer arrives.                       *)
(***************************************************************************)
EXTENDS Naturals

CONSTANTS
    Callers,     \* goroutines that make requests
    Bodies,      \* what a request may carry
    MaxTries     \* executions that the backoff allows

ASSUME PanelClientAssumption == MaxTries \in Nat \ {0}

VARIABLE call    \* the request of each goroutine

NoCall == [pc |-> "none"]

CallInit == call = [c \in Callers |-> NoCall]

CallTypeOK ==
    call \in [Callers -> {NoCall} \cup
        [pc : {"trying", "done", "failed"}, body : Bodies, tries : 0 .. MaxTries]]

\* ok: processed and answered. lost: processed, but the answer is a 5xx or does
\* not arrive. down: not processed, no answer or a 5xx. refused: a 4xx.
Outcomes == {"ok", "lost", "down", "refused"}

\* The panel acts on the attempt.
Processed(outcome) == outcome \in {"ok", "lost"}

Trying(c) == call[c].pc = "trying"

\* Post or Get: the body is kept as a buffer for all the attempts.
Request(c, body) ==
    /\ call[c] = NoCall
    /\ call' = [call EXCEPT ![c] = [pc |-> "trying", body |-> body, tries |-> 0]]

\* Mutant: the number of executions is not limited.
BackoffForever(c, tries, pc) == pc \in {"trying", "failed"}

\* MaxElapsedTime may pass during any attempt: the backoff gives up, or goes on.
Backoff(c, tries, pc) ==
    \/ pc = "failed"
    \/ pc = "trying" /\ tries < MaxTries

\* The whole body is sent again, from a copy of the buffer.
RequestOnce(c, outcome) ==
    LET tries == call[c].tries + 1 IN
    /\ Trying(c)
    /\ \E pc \in {"trying", "done", "failed"} :
         /\ CASE outcome = "ok"      -> pc = "done"
              [] outcome = "refused" -> pc = "failed"
              [] OTHER               -> Backoff(c, tries, pc)
         /\ call' = [call EXCEPT ![c].pc = pc, ![c].tries = tries]

\* The caller takes the result.
Returns(c, pc) ==
    /\ call[c].pc = pc
    /\ call' = [call EXCEPT ![c] = NoCall]
==============================================================================
