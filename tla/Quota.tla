-------------------------------- MODULE Quota --------------------------------
(***************************************************************************)
(* The counter of internal/ufs/fs_quota.go: the usage that Wings tracks    *)
(* for a server's data directory, and the limit it is held against.  Both  *)
(* are 64-bit atomics; the compare-and-swap loop of Add makes it one step. *)
(***************************************************************************)
EXTENDS Integers

CONSTANT MaxInt64

ASSUME QuotaAssumption == MaxInt64 \in Nat \ {0}

Disabled  == -1
Unlimited == 0

\* A plausible bug: no clamp at zero.
AddPlain(usage, i) == usage + i

\* Quota.Add: saturates at both ends instead of wrapping.
Add(usage, i) ==
    IF i > 0 THEN IF usage > MaxInt64 - i THEN MaxInt64 ELSE usage + i
    ELSE IF i < 0 /\ usage <= -i THEN 0 ELSE usage + i

\* Quota.CanFit; `limit - usage' cannot overflow, `usage + size' could.
CanFit(usage, limit, size) ==
    /\ limit # Disabled
    /\ \/ limit = Unlimited
       \/ usage = -1
       \/ size <= 0
       \/ usage < limit /\ size <= limit - usage

\* Filesystem.HasSpaceAvailable on the usage that DiskUsage returned.
HasSpace(usage, limit) == limit = Unlimited \/ usage <= limit
=============================================================================
