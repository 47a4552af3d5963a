------------------------------- MODULE Locker -------------------------------
(***************************************************************************)
(* The power lock of a server (system/locker.go): a channel of capacity    *)
(* one.  A value in the channel means "locked"; Destroy drains the channel *)
(* and closes it, and a send on the closed channel panics the daemon.      *)
(* Every operation below is one atomic step on the channel.                *)
(***************************************************************************)
EXTENDS Naturals

VARIABLES
  ch,      \* number of values in the channel
  closed   \* the channel has been closed by Destroy

lockerVars == <<ch, closed>>

LockerInit == ch = 0 /\ closed = FALSE

LockerTypeOK == ch \in 0..1 /\ closed \in BOOLEAN

\* Whether a power action is being processed right now.
IsLocked == ch = 1

\* Mutant: a channel made with room for more than one value.
AcquiredTwice == ~closed /\ ch' = ch + 1 /\ UNCHANGED closed

\* The send of Acquire or TryAcquire goes through.
Acquired == ~closed /\ ch = 0 /\ ch' = 1 /\ UNCHANGED closed

\* Acquire finds the channel full, or the context of TryAcquire ends first:
\* both return ErrLockerLocked.
ErrLockerLocked(ctxDone) ==
  /\ IsLocked \/ ctxDone
  /\ UNCHANGED lockerVars

\* Acquire or TryAcquire selects the send on the closed channel.
SendOnClosed == closed /\ UNCHANGED lockerVars

\* Release drains the channel and is a no-op on an empty or a closed one.
Release == ch' = 0 /\ UNCHANGED closed

\* Destroy drains the channel and closes it.
Destroy == ch' = 0 /\ closed' = TRUE
=============================================================================
