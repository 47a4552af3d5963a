----------------------------- MODULE DiskLedger ------------------------------
(***************************************************************************)
(* What the tracked usage of DiskQuota is worth.  Two history variables    *)
(* tell operations that met on one file, and walks that the disk moved     *)
(* under, from those that had the disk to themselves.                      *)
(***************************************************************************)
EXTENDS DiskQuota

VARIABLES
    mixed,      \* workers whose file someone else has worked on meanwhile
    quiet       \* nothing has changed on disk since fs.mu was taken

ledgerVars == <<vars, mixed, quiet>>

\* The names an operation is about.
Names(t) == {t.f, t.to} \ {None}

LedgerInit == Init /\ mixed = {} /\ quiet = FALSE

Untouched(f) == link'[f] = link[f] /\ (SizeOf(f))' = SizeOf(f)

LedgerNext ==
    /\ Next
    /\ mixed' = {w \in Workers : task'[w].op # "none" /\
                    \/ w \in mixed
                    \/ \E v \in Workers \ {w} : Names(task'[v]) \cap Names(task'[w]) # {}
                    \/ task'[w] = task[w] /\ ~\A f \in Names(task[w]) : Untouched(f)}
    /\ quiet' = ((mu = None /\ mu' # None) \/ (quiet /\ \A f \in Files : Untouched(f)))

LedgerSpec == LedgerInit /\ [][LedgerNext]_ledgerVars
------------------------------------------------------------------------------
\* What the usage still has to be corrected by for the operation of w: its
\* bytes are on disk and not yet counted, or counted and not yet on disk.
Owes(t) ==
    CASE t.op = "write" /\ t.pc \in {"copy", "account"}    -> t.cur - t.n
      [] t.op = "copy" /\ t.pc = "account"                 -> -t.n
      [] t.op = "decompress" /\ t.pc = "account"           -> -t.n
      [] t.op = "compress" /\ t.pc \in {"check", "unlink"} -> -t.n
      [] t.op = "delete" /\ t.pc = "debit"                 -> t.cur
      [] t.op = "deltree" /\ t.pc = "unlink"               -> -t.cur
      [] t.op = "handle" /\ t.pc \in {"ready", "write", "adjust"} ->
                                          t.cur + Growth(t) - bytes[t.ino]
      [] t.op = "handle" /\ t.pc = "settle"                -> -t.n
      [] OTHER -> 0

Owed(w) == Owes(task[w])

Balanced == usage = Total + SumFunction([w \in Workers |-> Owed(w)])

\* The steps of an operation that lose count by themselves: writing in place
\* over old bytes; a chunk of which a part is written before the write fails; an
\* archive that fails, or is removed before it was ever counted; and an unlink
\* that fails after the size came off.
LosesCount(w) ==
    /\ task'[w] # task[w]
    /\ \/ /\ At(w, "decompress", "copy")
          /\ bytes[task[w].ino] # task[w].off \/ (task'[w] = Idle /\ bytes' # bytes)
       \/ At(w, "compress", "copy") /\ (bytes[task[w].ino] > 0 \/ task'[w] = Idle)
       \/ At(w, "compress", "unlink") \/ At(w, "compress", "debit")
       \/ At(w, "deltree", "unlink") /\ task[w].f \in Linked /\ link' = link

\* So does a walk that stores its sum while the disk or the usage is about to
\* move, and so do the writers nobody counts.
Miscounts ==
    \/ \E f \in Files, s \in 0 .. MaxSize : Untracked(f, s)
    \/ \E w \in Workers :
        \/ LosesCount(w)
        \/ WalkStore(w) /\ ~(quiet /\ \A v \in Workers : Owed(v) = 0)

\* Outside those steps, and unless operations meet on one file, the tracked
\* usage never drifts: it is the size of the files corrected by what the
\* operations in flight owe (Write, Copy, Delete and quotaFile with short
\* writes, early ends, refusals and truncation, and extractStream as long as its
\* writes succeed).
LedgerKept == [][mixed = {} /\ Balanced /\ ~Miscounts => Balanced']_ledgerVars

\* updateCachedDiskUsage repairs any drift: after a walk during which nothing
\* changed on disk, the usage is the size of the files.
WalkRepairs == [][\A w \in Workers : WalkStore(w) /\ quiet => usage' = Total']_ledgerVars

\* quotaFile reserves before it writes: an SFTP upload that has its file to
\* itself never has bytes on disk that were not added to the usage first,
\* however writes fall short, so that CanFit keeps uploads inside the limit.
UploadsCovered == \A w \in Workers \ mixed : task[w].op = "handle" => Owed(w) >= 0
=============================================================================
