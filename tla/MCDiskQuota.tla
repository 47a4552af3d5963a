----------------------------- MODULE MCDiskQuota -----------------------------
(***************************************************************************)
(* DiskQuota with two workers, so that any two operations overlap.         *)
(***************************************************************************)
EXTENDS DiskLedger, TLC

CONSTANTS w1, w2, f1, f2

MCWorkers == {w1, w2}
MCSolo    == {w1}
MCFiles   == {f1, f2}
MCLimits  == {Unlimited, 3}
Symmetry  == Permutations(MCWorkers) \cup Permutations(MCFiles)
=============================================================================
