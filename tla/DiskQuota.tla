------------------------------ MODULE DiskQuota ------------------------------
(***************************************************************************)
(* Disk accounting of one server: the file operations of package           *)
(* server/filesystem and the SFTP handler, each a sequence of system calls *)
(* and updates of the tracked usage, interleaved with each other, with the *)
(* directory walk that recomputes the usage, and with the game process,    *)
(* which writes to the same disk and tells nobody.                         *)
(*                                                                         *)
(* A worker runs one operation at a time.  Its record holds the locals of  *)
(* the operation: the name f, the inode ino it has open, the size cur read *)
(* by the stat, the bytes len asked for and n written, and for a walk the  *)
(* names todo it has listed and the sum acc.                               *)
(***************************************************************************)
EXTENDS Quota, FiniteSets, FiniteSetsExt, Functions

CONSTANTS
    Workers,    \* requests and goroutines that touch the disk
    Files,      \* names under the data directory
    MaxSize,    \* bound on the size of a file
    Limits,     \* disk limits the Panel may configure
    MaxOps      \* bound on the operations and untracked writes of a behaviour

None == 0

\* No disk holds 2^63 bytes: the files, and one more for each operation in
\* flight, can be counted.
ASSUME DiskQuotaAssumption ==
    /\ IsFiniteSet(Workers) /\ IsFiniteSet(Files)
    /\ None \notin Workers /\ None \notin Files
    /\ MaxSize \in Nat /\ MaxOps \in Nat
    /\ (Cardinality(Files) + Cardinality(Workers)) * MaxSize <= MaxInt64
    /\ Limits \subseteq {Disabled} \cup Nat /\ Limits # {}

VARIABLES
    link,       \* the inode a name refers to, None if there is no such file
    bytes,      \* the size of an inode
    usage,      \* Quota.usage
    limit,      \* Quota.limit
    mu,         \* the walk holding Filesystem.mu, or None
    looked,     \* lastLookupTime is set: a walk has ended
    task,       \* what each worker is doing
    ops         \* operations begun so far

vars == <<link, bytes, usage, limit, mu, looked, task, ops>>

Inodes == 1 .. Cardinality(Files) + Cardinality(Workers)
Ops    == {"write", "copy", "rename", "decompress", "compress", "delete",
           "deltree", "handle", "walk"}
Steps  == {"stat", "check", "open", "copy", "account", "unlink", "debit",
           "ready", "write", "adjust", "settle", "lock", "visit"}

Idle == [op |-> "none", pc |-> "stat", f |-> None, to |-> None, ino |-> None,
         cur |-> 0, len |-> 0, n |-> 0, off |-> 0, todo |-> {}, acc |-> 0]

Linked    == {f \in Files : link[f] # None}
SizeOf(f) == IF f \in Linked THEN bytes[link[f]] ELSE 0
Sizes     == [f \in Files |-> SizeOf(f)]
Total     == SumFunction(Sizes)

Larger(a, b) == IF a > b THEN a ELSE b

Init ==
    /\ link = [f \in Files |-> None]
    /\ bytes = [i \in Inodes |-> 0]
    /\ usage = 0 /\ limit \in Limits
    /\ mu = None /\ looked = FALSE
    /\ task = [w \in Workers |-> Idle] /\ ops = 0
------------------------------------------------------------------------------
(***************************************************************************)
(* What a step can do: change the locals of its worker, open, write or     *)
(* unlink a file, and add to the usage.                                    *)
(***************************************************************************)
At(w, op, pc) == task[w].op = op /\ task[w].pc = pc

\* An inode that no name and no open file refers to is free.
Held(l, t) == {l[f] : f \in Files} \cup {t[w].ino : w \in Workers}
FreeInode  == Min(Inodes \ Held(link, task))

Effect(w, l, b, u, t) ==
    /\ link' = l /\ usage' = u /\ task' = [task EXCEPT ![w] = t]
    /\ LET held == Held(link', task') IN
       bytes' = [i \in Inodes |-> IF i \in held THEN b[i] ELSE 0]
    /\ UNCHANGED <<limit, mu, looked, ops>>

Local(w, t)      == Effect(w, link, bytes, usage, t)
Disk(w, l, b, t) == Effect(w, l, b, usage, t)

\* Quota.Add, from an operation that does not hold fs.mu.
Charge(w, i, t) == Effect(w, link, bytes, Add(usage, i), t)

\* reserveDisk and adjustDisk add under fs.mu; for 0 they do not take it.
ChargeLocked(w, i, t) == (i # 0 => mu = None) /\ Charge(w, i, t)

OpenFile(w, f, truncate, pc) ==
    LET i == IF f \in Linked THEN link[f] ELSE FreeInode IN
    Disk(w, [link EXCEPT ![f] = i],
            [bytes EXCEPT ![i] = IF truncate THEN 0 ELSE @],
            [task[w] EXCEPT !.pc = pc, !.f = f, !.ino = i])

WriteTo(w, end, t) ==
    Disk(w, link, [bytes EXCEPT ![task[w].ino] = Larger(@, end)], t)

\* unlinkat fails if the file is gone; whoever has it open keeps the inode.
Unlink(w, f, t) ==
    Disk(w, IF f \in Linked THEN [link EXCEPT ![f] = None] ELSE link, bytes, t)

\* A request arrives, for a file or for the answer to `is there room?'.
Begin(w, op, pc, f) ==
    /\ task[w].op = "none" /\ ops < MaxOps
    /\ task' = [task EXCEPT ![w] = [Idle EXCEPT !.op = op, !.pc = pc, !.f = f]]
    /\ ops' = ops + 1
    /\ UNCHANGED <<link, bytes, usage, limit, mu, looked>>
------------------------------------------------------------------------------
(***************************************************************************)
(* Filesystem.Write: stat, check the growth, truncate, copy, account.      *)
(***************************************************************************)
WriteStat(w, size) ==
    /\ At(w, "write", "stat")
    /\ Local(w, [task[w] EXCEPT !.pc = "check", !.cur = SizeOf(task[w].f), !.len = size])

WriteCheck(w) ==
    LET t == task[w] IN
    /\ At(w, "write", "check")
    /\ Local(w, IF CanFit(usage, limit, t.len - t.cur)
                THEN [t EXCEPT !.pc = "open"] ELSE Idle)

WriteOpen(w) == At(w, "write", "open") /\ OpenFile(w, task[w].f, TRUE, "copy")

\* The body may end early: n bytes arrive of the len announced.
WriteCopy(w, n) ==
    /\ At(w, "write", "copy") /\ n <= task[w].len
    /\ WriteTo(w, n, [task[w] EXCEPT !.pc = "account", !.len = 0, !.n = n])

\* A plausible bug: the old size is forgotten.
WriteAccountsAll(w) ==
    /\ At(w, "write", "account") /\ Charge(w, task[w].n, Idle)

WriteAccount(w) ==
    /\ At(w, "write", "account") /\ Charge(w, task[w].n - task[w].cur, Idle)

WriteFile(w) ==
    \/ \E f \in Files : Begin(w, "write", "stat", f)
    \/ \E s \in 0 .. MaxSize : WriteStat(w, s) \/ WriteCopy(w, s)
    \/ WriteCheck(w) \/ WriteOpen(w) \/ WriteAccount(w)
------------------------------------------------------------------------------
(***************************************************************************)
(* Filesystem.Copy: the name is looked up before the file is created, and  *)
(* the file is opened without O_TRUNC.                                     *)
(***************************************************************************)
CopyStat(w) ==
    LET t == task[w] IN
    /\ At(w, "copy", "stat")
    /\ Local(w, IF t.f \in Linked /\ CanFit(usage, limit, SizeOf(t.f))
                THEN [t EXCEPT !.pc = "check", !.len = SizeOf(t.f)] ELSE Idle)

FindCopySuffix(w, g) ==
    /\ At(w, "copy", "check") /\ g \notin Linked
    /\ Local(w, [task[w] EXCEPT !.pc = "open", !.f = g])

CopyOpen(w) == At(w, "copy", "open") /\ OpenFile(w, task[w].f, FALSE, "copy")

CopyBytes(w, n) ==
    /\ At(w, "copy", "copy") /\ n <= task[w].len
    /\ WriteTo(w, n, [task[w] EXCEPT !.pc = "account", !.len = 0, !.n = n])

CopyAccount(w) == At(w, "copy", "account") /\ Charge(w, task[w].n, Idle)

CopyFile(w) ==
    \/ \E f \in Files : Begin(w, "copy", "stat", f) \/ FindCopySuffix(w, f)
    \/ \E n \in 0 .. MaxSize : CopyBytes(w, n)
    \/ CopyStat(w) \/ CopyOpen(w) \/ CopyAccount(w)
------------------------------------------------------------------------------
(***************************************************************************)
(* UnixFS.Rename: neither system call counts anything; the second replaces *)
(* a target that has appeared since the first.                             *)
(***************************************************************************)
RenameStat(w, g) ==
    LET t == task[w] IN
    /\ At(w, "rename", "stat")
    /\ Local(w, IF t.f \in Linked /\ g \notin Linked
                THEN [t EXCEPT !.pc = "check", !.to = g] ELSE Idle)

Renameat(w) ==
    LET t == task[w] IN
    /\ At(w, "rename", "check")
    /\ Disk(w, IF t.f \in Linked
               THEN [link EXCEPT ![t.to] = link[t.f], ![t.f] = None] ELSE link, bytes, Idle)

Rename(w) ==
    \/ \E f \in Files : Begin(w, "rename", "stat", f) \/ RenameStat(w, f)
    \/ Renameat(w)
------------------------------------------------------------------------------
(***************************************************************************)
(* Filesystem.CompressFiles: writes first, checks afterwards, and removes  *)
(* an archive that does not fit through Quota.Remove, which subtracts its  *)
(* size.  extractStream on a single compressed file checks, writes and     *)
(* accounts chunk by chunk.  Neither truncates what it opens.              *)
(***************************************************************************)
CompressBegin(w, f) ==
    /\ HasSpace(usage, limit) /\ Begin(w, "compress", "open", f)

CompressOpen(w) ==
    At(w, "compress", "open") /\ OpenFile(w, task[w].f, FALSE, "copy")

CompressStream(w, n) ==
    /\ At(w, "compress", "copy")
    /\ \/ WriteTo(w, n, [task[w] EXCEPT !.pc = "check", !.n = n])
       \/ WriteTo(w, n, Idle)

CompressAccount(w) ==
    /\ At(w, "compress", "check") /\ CanFit(usage, limit, task[w].n)
    /\ Charge(w, task[w].n, Idle)

\* Quota.Remove: RemoveStat, then the size it returned comes off the usage.
CompressReject(w) ==
    /\ At(w, "compress", "check") /\ ~CanFit(usage, limit, task[w].n)
    /\ Local(w, IF task[w].f \in Linked
                THEN [task[w] EXCEPT !.pc = "unlink", !.cur = SizeOf(task[w].f)] ELSE Idle)

Compress(w) ==
    \/ \E f \in Files : CompressBegin(w, f)
    \/ \E n \in 0 .. MaxSize : CompressStream(w, n)
    \/ CompressOpen(w) \/ CompressAccount(w) \/ CompressReject(w)

DecompressOpen(w) ==
    At(w, "decompress", "open") /\ OpenFile(w, task[w].f, FALSE, "check")

\* The reader is at its end, or holds a chunk of n bytes.
DecompressCheck(w, n) ==
    LET t == task[w] IN
    /\ At(w, "decompress", "check")
    /\ IF n > 0 /\ CanFit(usage, limit, n) /\ t.off + n <= MaxSize
       THEN Local(w, [t EXCEPT !.pc = "copy", !.n = n])
       ELSE Local(w, Idle)

DecompressChunk(w) ==
    LET t == task[w] IN
    /\ At(w, "decompress", "copy")
    /\ WriteTo(w, t.off + t.n, [t EXCEPT !.pc = "account", !.off = @ + t.n])

\* The write fails after n bytes of the chunk: nothing is added to the usage.
DecompressFails(w, n) ==
    LET t == task[w] IN
    /\ At(w, "decompress", "copy") /\ n < t.n
    /\ WriteTo(w, IF n > 0 THEN t.off + n ELSE 0, Idle)

DecompressAccount(w) ==
    /\ At(w, "decompress", "account")
    /\ Charge(w, task[w].n, [task[w] EXCEPT !.pc = "check", !.n = 0])

Decompress(w) ==
    \/ \E f \in Files : Begin(w, "decompress", "open", f)
    \/ \E n \in 0 .. MaxSize : DecompressCheck(w, n) \/ DecompressFails(w, n)
    \/ DecompressOpen(w) \/ DecompressChunk(w) \/ DecompressAccount(w)
------------------------------------------------------------------------------
(***************************************************************************)
(* Filesystem.Delete.  Quota.Remove stats, unlinks and subtracts; inside a *)
(* directory Quota.unlinkat stats, subtracts and unlinks.                  *)
(***************************************************************************)
RemoveStat(w) ==
    LET t == task[w] IN
    /\ At(w, "delete", "stat")
    /\ Local(w, IF t.f \in Linked
                THEN [t EXCEPT !.pc = "unlink", !.cur = SizeOf(t.f)] ELSE Idle)

\* Shared with the rejected archive of CompressFiles.
RemoveUnlink(w) ==
    LET t == task[w] IN
    /\ At(w, "delete", "unlink") \/ At(w, "compress", "unlink")
    /\ Unlink(w, t.f, IF t.f \in Linked THEN [t EXCEPT !.pc = "debit"] ELSE Idle)

\* Any other error sends removeAll on to removeAllFrom, and so to unlinkat.
RemoveFails(w) ==
    /\ At(w, "delete", "unlink") /\ task[w].f \in Linked
    /\ Local(w, [task[w] EXCEPT !.op = "deltree", !.pc = "stat", !.cur = 0])

RemoveDebit(w) ==
    /\ At(w, "delete", "debit") \/ At(w, "compress", "debit")
    /\ Charge(w, -task[w].cur, Idle)

UnlinkatDebit(w) ==
    LET t == task[w] IN
    /\ At(w, "deltree", "stat")
    /\ Charge(w, -SizeOf(t.f), [t EXCEPT !.pc = "unlink", !.cur = SizeOf(t.f)])

\* The unlink may also fail on a file that is still there.
Unlinkat(w) ==
    /\ At(w, "deltree", "unlink")
    /\ Unlink(w, task[w].f, Idle) \/ Local(w, Idle)

Delete(w) ==
    \/ \E f \in Files : Begin(w, "delete", "stat", f) \/ Begin(w, "deltree", "stat", f)
    \/ RemoveStat(w) \/ RemoveUnlink(w) \/ RemoveFails(w) \/ RemoveDebit(w)
    \/ UnlinkatDebit(w) \/ Unlinkat(w)
------------------------------------------------------------------------------
(***************************************************************************)
(* An SFTP upload: Filesystem.Touch hands out a quotaFile, whose writes    *)
(* reserve their growth before they reach the disk.  cur is the size the   *)
(* quotaFile keeps.                                                        *)
(***************************************************************************)
FilewriteBegin(w, f) ==
    \/ looked /\ HasSpace(usage, limit) /\ Begin(w, "handle", "stat", f)
    \/ Begin(w, "handle", "lock", f)

TouchStat(w) ==
    /\ At(w, "handle", "stat")
    /\ Local(w, [task[w] EXCEPT !.pc = "open", !.cur = SizeOf(task[w].f)])

TouchOpen(w) == At(w, "handle", "open") /\ OpenFile(w, task[w].f, TRUE, "ready")

\* writeAtLocked: the bytes that this write can add beyond the tracked size.
Growth(t) == Larger(0, t.off + t.len - t.cur)

ReserveDisk(w, off, len) ==
    LET t == [task[w] EXCEPT !.off = off, !.len = len] IN
    /\ At(w, "handle", "ready") /\ len > 0 /\ off + len <= MaxSize
    /\ Growth(t) > 0 => CanFit(usage, limit, Growth(t))
    /\ ChargeLocked(w, Growth(t), [t EXCEPT !.pc = "write"])

WriteAt(w, n) ==
    LET t == task[w] IN
    /\ At(w, "handle", "write") /\ n <= t.len
    /\ WriteTo(w, IF n > 0 THEN t.off + n ELSE 0, [t EXCEPT !.pc = "adjust", !.n = n])

\* What was reserved and not written goes back.
AdjustDisk(w) ==
    LET t    == task[w]
        size == IF t.n > 0 THEN Larger(t.cur, t.off + t.n) ELSE t.cur
    IN
    /\ At(w, "handle", "adjust")
    /\ ChargeLocked(w, (size - t.cur) - Growth(t),
            [t EXCEPT !.pc = "ready", !.cur = size, !.off = 0, !.len = 0, !.n = 0])

\* quotaFile.Close: the difference to the size on disk is settled.
CloseStat(w) ==
    /\ At(w, "handle", "ready")
    /\ Local(w, [task[w] EXCEPT !.pc = "settle", !.n = bytes[task[w].ino] - task[w].cur])

CloseSettle(w) ==
    At(w, "handle", "settle") /\ ChargeLocked(w, task[w].n, Idle)

Upload(w) ==
    \/ \E f \in Files : FilewriteBegin(w, f)
    \/ TouchStat(w) \/ TouchOpen(w)
    \/ \E off, len \in 0 .. MaxSize : ReserveDisk(w, off, len)
    \/ \E n \in 0 .. MaxSize : WriteAt(w, n)
    \/ AdjustDisk(w) \/ CloseStat(w) \/ CloseSettle(w)
------------------------------------------------------------------------------
(***************************************************************************)
(* updateCachedDiskUsage: the walk, under fs.mu from the first name to the *)
(* last.  A name that is gone when its turn comes ends the walk, and the   *)
(* partial sum is stored all the same.                                     *)
(***************************************************************************)
LookupInProgress == mu # None

\* A caller that accepts a stale value starts a walk in the background unless
\* one is known to be running; any other caller walks itself.
DiskUsage(w, allowStaleValue) ==
    /\ allowStaleValue => ~LookupInProgress
    /\ Begin(w, "walk", "lock", None)

Walking(w) == task[w].op \in {"walk", "handle"}

WalkLock(w) ==
    /\ Walking(w) /\ task[w].pc = "lock" /\ mu = None
    /\ mu' = w
    /\ task' = [task EXCEPT ![w].pc = "visit", ![w].todo = Linked]
    /\ UNCHANGED <<link, bytes, usage, limit, looked, ops>>

WalkVisit(w, f) ==
    LET t == task[w] IN
    /\ Walking(w) /\ t.pc = "visit" /\ f \in t.todo
    /\ Local(w, IF f \in Linked
                THEN [t EXCEPT !.todo = @ \ {f}, !.acc = @ + SizeOf(f)]
                ELSE [t EXCEPT !.todo = {}])

\* A plausible bug: the sum is added to the usage instead of replacing it.
WalkAdds(w) ==
    LET t == task[w] IN
    /\ Walking(w) /\ t.pc = "visit" /\ t.todo = {}
    /\ looked' = TRUE /\ usage' = Add(usage, t.acc) /\ mu' = None
    /\ task' = [task EXCEPT ![w] = Idle]
    /\ UNCHANGED <<link, bytes, limit, ops>>

WalkStore(w) ==
    LET t == task[w] IN
    /\ Walking(w) /\ t.pc = "visit" /\ t.todo = {}
    /\ looked' = TRUE /\ usage' = t.acc /\ mu' = None
    /\ task' = [task EXCEPT ![w] =
                    IF t.op = "handle" /\ HasSpace(t.acc, limit)
                    THEN [t EXCEPT !.pc = "stat", !.acc = 0] ELSE Idle]
    /\ UNCHANGED <<link, bytes, limit, ops>>

Walk(w) ==
    \/ \E stale \in BOOLEAN : DiskUsage(w, stale)
    \/ WalkLock(w) \/ WalkStore(w)
    \/ \E f \in Files : WalkVisit(w, f)
------------------------------------------------------------------------------
SetDiskLimit(l) ==
    /\ l # limit /\ limit' = l
    /\ UNCHANGED <<link, bytes, usage, mu, looked, task, ops>>

\* The game process, and the configuration parser, write without accounting.
Untracked(f, s) ==
    LET i == IF f \in Linked THEN link[f] ELSE FreeInode IN
    /\ ops < MaxOps /\ ops' = ops + 1
    /\ link' = [link EXCEPT ![f] = i] /\ bytes' = [bytes EXCEPT ![i] = s]
    /\ UNCHANGED <<usage, limit, mu, looked, task>>

Work(w) ==
    \/ WriteFile(w) \/ CopyFile(w) \/ Rename(w) \/ Compress(w) \/ Decompress(w)
    \/ Delete(w) \/ Upload(w) \/ Walk(w)

Next ==
    \/ \E w \in Workers : Work(w)
    \/ \E l \in Limits : SetDiskLimit(l)
    \/ \E f \in Files, s \in 0 .. MaxSize : Untracked(f, s)

Spec == Init /\ [][Next]_vars
------------------------------------------------------------------------------
Task == [op : Ops \cup {"none"}, pc : Steps, f : Files \cup {None}, to : Files \cup {None},
         ino : Inodes \cup {None}, cur : Nat, len : Nat, n : Int, off : Nat,
         todo : SUBSET Files, acc : Nat]

TypeOK ==
    /\ link \in [Files -> Inodes \cup {None}]
    /\ bytes \in [Inodes -> Nat]
    /\ usage \in 0 .. MaxInt64 /\ limit \in Limits
    /\ mu \in Workers \cup {None}
    /\ looked \in BOOLEAN
    /\ task \in [Workers -> Task] /\ ops \in 0 .. MaxOps
=============================================================================
