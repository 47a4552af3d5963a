------------------------- MODULE DiskLedger_proofs ---------------------------
(***************************************************************************)
(* The disk accounting, for any number of workers and files and any sizes  *)
(* that 64 bits can count: type correctness of DiskQuota; that uploads are *)
(* covered by what they reserved; that an undisturbed walk stores the size *)
(* of all files; and that the usage never drifts outside the steps         *)
(* Miscounts names, unless operations meet on one file.                    *)
(***************************************************************************)
EXTENDS DiskLedger, FiniteSetTheorems, WellFoundedInduction, TLAPS

\* The places in an operation where it has a file open.
Opened(t) ==
    \/ t.pc \in {"copy", "account", "ready", "write", "adjust", "settle"}
    \/ t.op = "decompress" /\ t.pc = "check"

\* What the locals of an operation have to do with each other.
TaskOK(t) ==
    /\ t.op = "none" => t = Idle
    /\ t.op \notin {"none", "walk"} => t.f \in Files
    /\ t.op = "rename" /\ t.pc = "check" => t.to \in Files
    /\ Opened(t) => t.ino \in Inodes
    /\ t.cur <= MaxSize
    /\ t.pc # "settle" => t.n >= 0
    /\ t.pc = "settle" => t.n >= -t.cur
    /\ t.op = "decompress" /\ t.pc = "copy" => t.off + t.n <= MaxSize
    /\ t.op = "handle" => t.off + t.len <= MaxSize
    /\ t.op = "handle" /\ t.pc = "adjust" => t.n <= t.len
    /\ t.op = "handle" /\ t.pc \notin {"write", "adjust"} => t.off = 0 /\ t.len = 0
    /\ t.pc \in {"lock", "visit"} => t.ino = None
    /\ t.pc # "visit" => t.acc = 0
    /\ t.pc = "visit" => t.acc + Cardinality(t.todo) * MaxSize <= Cardinality(Files) * MaxSize

\* No two names for one inode.
OneName(l) == \A f, g \in Files : l[f] # None /\ l[f] = l[g] => f = g

\* The disk: a file is under one name, and an inode nobody holds is empty.
DiskOK ==
    /\ bytes \in [Inodes -> 0 .. MaxSize]
    /\ OneName(link)
    /\ \A i \in Inodes \ Held(link, task) : bytes[i] = 0

QuotaInv == TypeOK /\ DiskOK /\ \A w \in Workers : TaskOK(task[w])

\* What an operation that has its file to itself knows of it, where l leads from
\* names to inodes and z to sizes: the size it has read is the size of the file,
\* the inode it has open is the file's, and the bytes it is about to count are on
\* disk.
WriteOK(t, l, z) ==
    /\ t.pc \in {"stat", "check", "open"} => t.n = 0
    /\ t.pc \in {"check", "open"} => t.cur = z[t.f]
    /\ t.pc = "copy" => l[t.f] = t.ino /\ z[t.f] = 0 /\ t.n = 0
    /\ t.pc = "account" => z[t.f] = t.n

CopyOK(t, l, z) ==
    /\ t.pc = "open" => z[t.f] = 0
    /\ t.pc = "copy" => l[t.f] = t.ino /\ z[t.f] = 0
    /\ t.pc = "account" => z[t.f] = t.n

RenameOK(t, l) == t.pc = "check" => l[t.f] # None /\ l[t.to] = None

CompressOK(t, l, z) ==
    /\ t.pc = "copy" => l[t.f] = t.ino
    /\ t.pc \in {"check", "unlink"} => t.n <= z[t.f]

DecompressOK(t, l, z) ==
    /\ t.pc \in {"check", "copy", "account"} => l[t.f] = t.ino
    /\ t.pc = "account" => t.n <= z[t.f]

DeleteOK(t, l, z) ==
    /\ t.op = "delete" /\ t.pc = "unlink" => l[t.f] # None
    /\ t.pc = "unlink" => t.cur = z[t.f]

UploadOK(t, l, z) ==
    /\ t.pc = "open" => t.cur = z[t.f]
    /\ t.pc \in {"ready", "write", "adjust"} => l[t.f] = t.ino
    /\ t.pc \in {"ready", "write"} => z[t.f] <= t.cur
    /\ t.pc = "adjust" => z[t.f] <= (IF t.n > 0 THEN Larger(t.cur, t.off + t.n) ELSE t.cur)
    /\ t.pc = "settle" => t.n <= 0

OwnOK(t, l, z) ==
    /\ t.op = "write" => WriteOK(t, l, z)
    /\ t.op = "copy" => CopyOK(t, l, z)
    /\ t.op = "rename" => RenameOK(t, l)
    /\ t.op = "compress" => CompressOK(t, l, z)
    /\ t.op = "decompress" => DecompressOK(t, l, z)
    /\ t.op \in {"delete", "deltree"} => DeleteOK(t, l, z)
    /\ t.op = "handle" => UploadOK(t, l, z)

\* Operations that have their file to themselves are about different files.
Apart(w) ==
    task[w].op # "none" =>
        \A v \in Workers \ {w} : Names(task[v]) \cap Names(task[w]) = {}

\* A walk holds fs.mu, and while the disk stands still what it has added up
\* and what it has still to visit make the size of all files.
WalkOK(w) ==
    LET t == task[w] IN
    t.pc = "visit" =>
        /\ mu = w
        /\ quiet => t.todo \subseteq Linked /\ t.acc + SumFunctionOnSet(Sizes, t.todo) = Total

LedgerInv ==
    /\ QuotaInv
    /\ mixed \subseteq Workers /\ quiet \in BOOLEAN
    /\ \A w \in Workers \ mixed : OwnOK(task[w], link, Sizes) /\ Apart(w)
    /\ \A w \in Workers : WalkOK(w)
------------------------------------------------------------------------------
(***************************************************************************)
(* Sums over finite sets.  What a fold computes is told by counting: no    *)
(* induction principle is instantiated, a smallest counterexample is taken *)
(* instead.                                                                *)
(***************************************************************************)
\* One element for each unit of each value.
Units(f, T) == {p \in T \X Nat : 1 <= p[2] /\ p[2] <= f[p[1]]}

\* A sum by counting: the units of what is positive less those of what is negative.
Counted(f, T) == Cardinality(Units(f, T)) - Cardinality(Units([x \in T |-> -f[x]], T))

\* How many units one value has.
LEMMA UnitsOfOne ==
    ASSUME NEW x, NEW m \in Int
    PROVE  /\ IsFiniteSet({x} \X (1 .. m))
           /\ Cardinality({x} \X (1 .. m)) = IF m > 0 THEN m ELSE 0
<1>1. IsFiniteSet({x}) /\ Cardinality({x}) = 1
  BY FS_Singleton
<1>2. IsFiniteSet(1 .. m) /\ Cardinality(1 .. m) = IF m > 0 THEN m ELSE 0
  BY FS_Interval
<1>3. /\ IsFiniteSet({x} \X (1 .. m))
      /\ Cardinality({x} \X (1 .. m)) = Cardinality({x}) * Cardinality(1 .. m)
  BY <1>1, <1>2, FS_Product
<1>4. QED  BY <1>1, <1>2, <1>3

\* The units of a set are those of one member and those of the rest.
LEMMA UnitsSplit ==
    ASSUME NEW T, NEW f, \A y \in T : f[y] \in Int, NEW x \in T,
           IsFiniteSet(Units(f, T \ {x}))
    PROVE  /\ IsFiniteSet(Units(f, T))
           /\ Cardinality(Units(f, T)) =
                Cardinality(Units(f, T \ {x})) + IF f[x] > 0 THEN f[x] ELSE 0
<1> DEFINE A == Units(f, T \ {x})
           B == {x} \X (1 .. f[x])
<1>1. Units(f, T) = A \cup B /\ A \cap B = {}
  BY DEF Units
<1>2. IsFiniteSet(B) /\ Cardinality(B) = IF f[x] > 0 THEN f[x] ELSE 0
  BY UnitsOfOne
<1> HIDE DEF A, B
<1>3. Cardinality(A \cap B) = 0
  BY <1>1, FS_EmptySet
<1>4. /\ IsFiniteSet(A \cup B)
      /\ Cardinality(A \cup B) = Cardinality(A) + Cardinality(B) - Cardinality(A \cap B)
  BY <1>2, FS_Union DEF A
<1>5. Cardinality(A) \in Nat /\ Cardinality(B) \in Nat
  BY <1>2, FS_CardinalityType DEF A
<1>6. QED  BY <1>1, <1>2, <1>3, <1>4, <1>5 DEF A

\* Among the subsets of a finite set that are bad there is one that is good as soon as
\* any member is taken away: induction over finite sets, by minimal counterexample.
LEMMA MinimalSubset ==
    ASSUME NEW S, IsFiniteSet(S), NEW Bad \in SUBSET SUBSET S, Bad # {}
    PROVE  \E T \in Bad : \A x \in T : T \ {x} \notin Bad
<1> DEFINE R == {ss \in (SUBSET S) \X (SUBSET S) : ss[1] \subseteq ss[2] /\ ss[1] # ss[2]}
<1>1. IsWellFoundedOn(R, SUBSET S)
  <2>1. FiniteSubsetsOf(S) = SUBSET S
    BY FS_FiniteSubsetsOfFinite
  <2>2. R = StrictSubsetOrdering(S)
    BY DEF StrictSubsetOrdering
  <2>3. IsWellFoundedOn(StrictSubsetOrdering(S), FiniteSubsetsOf(S))
    BY FS_StrictSubsetOrderingWellFounded
  <2>4. QED  BY <2>1, <2>2, <2>3
<1>2. PICK T \in Bad : \A y \in Bad : <<y, T>> \notin R
  BY <1>1, WFMin
<1>3. QED  BY <1>2

\* Finitely many values have finitely many units.
LEMMA UnitsFinite ==
    ASSUME NEW S, IsFiniteSet(S), NEW f, \A y \in S : f[y] \in Int
    PROVE  IsFiniteSet(Units(f, S))
<1> DEFINE Bad == {T \in SUBSET S : ~IsFiniteSet(Units(f, T))}
<1>1. Bad = {}
  <2> SUFFICES ASSUME Bad # {} PROVE FALSE
    OBVIOUS
  <2>1. PICK T \in Bad : \A x \in T : T \ {x} \notin Bad
    BY MinimalSubset
  <2>2. CASE T = {}
    <3>1. Units(f, T) = {}
      BY <2>2 DEF Units
    <3>2. QED  BY <3>1, FS_EmptySet
  <2>3. CASE T # {}
    <3>1. PICK x \in T : TRUE
      BY <2>3
    <3>2. IsFiniteSet(Units(f, T \ {x}))
      BY <2>1
    <3>3. QED  BY <3>2, UnitsSplit
  <2>4. QED  BY <2>2, <2>3
<1>2. QED  BY <1>1

\* Counting goes member by member.
LEMMA CountedStep ==
    ASSUME NEW S, IsFiniteSet(S), NEW f, \A y \in S : f[y] \in Int
    PROVE  /\ Counted(f, S) \in Int
           /\ \A x \in S : Counted(f, S) = f[x] + Counted(f, S \ {x})
<1>1. Counted(f, S) \in Int
  <2> DEFINE g == [x \in S |-> -f[x]]
  <2>1. IsFiniteSet(Units(f, S)) /\ IsFiniteSet(Units(g, S))
    BY UnitsFinite
  <2>2. QED  BY <2>1, FS_CardinalityType DEF Counted
<1>2. ASSUME NEW x \in S PROVE Counted(f, S) = f[x] + Counted(f, S \ {x})
  <2> DEFINE g == [y \in S |-> -f[y]]
             h == [y \in S \ {x} |-> -f[y]]
  <2>1. Units(g, S \ {x}) = Units(h, S \ {x})
    BY DEF Units
  <2>2. /\ \A y \in S : g[y] \in Int
        /\ \A y \in S \ {x} : f[y] \in Int
        /\ \A y \in S \ {x} : g[y] \in Int
        /\ g[x] = -f[x] /\ f[x] \in Int
    OBVIOUS
  <2> HIDE DEF g, h
  <2>3. IsFiniteSet(S \ {x})
    BY FS_RemoveElement
  <2>4. IsFiniteSet(Units(f, S \ {x})) /\ IsFiniteSet(Units(g, S \ {x}))
    BY <2>2, <2>3, UnitsFinite
  <2>5. Cardinality(Units(f, S)) = Cardinality(Units(f, S \ {x})) + IF f[x] > 0 THEN f[x] ELSE 0
    BY <2>2, <2>4, UnitsSplit
  <2>6. Cardinality(Units(g, S)) = Cardinality(Units(g, S \ {x})) + IF g[x] > 0 THEN g[x] ELSE 0
    BY <2>2, <2>4, UnitsSplit
  <2>7. Cardinality(Units(f, S \ {x})) \in Nat /\ Cardinality(Units(g, S \ {x})) \in Nat
    BY <2>4, FS_CardinalityType
  <2>8. /\ Counted(f, S) = Cardinality(Units(f, S)) - Cardinality(Units(g, S))
        /\ Counted(f, S \ {x}) = Cardinality(Units(f, S \ {x})) - Cardinality(Units(h, S \ {x}))
    BY DEF Counted, g, h
  <2>9. QED  BY <2>1, <2>2, <2>5, <2>6, <2>7, <2>8
<1>3. QED  BY <1>1, <1>2

\* Nothing counts as nothing.
LEMMA CountedEmpty ==
    ASSUME NEW f
    PROVE  Counted(f, {}) = 0
<1>1. Units(f, {}) = {} /\ Units([x \in {} |-> -f[x]], {}) = {}
  BY DEF Units
<1>2. QED  BY <1>1, FS_EmptySet DEF Counted

\* The sum that the fold of Functions computes, in whatever order it takes the members,
\* is what counting units gives.
LEMMA SumCounted ==
    ASSUME NEW S, IsFiniteSet(S), NEW f, \A y \in S : f[y] \in Int
    PROVE  SumFunctionOnSet(f, S) = Counted(f, S)
<1> DEFINE pick(s) == CHOOSE x \in s : TRUE
           Is(g) == g = [s \in SUBSET S |-> IF s = {} THEN 0 ELSE f[pick(s)] + g[s \ {pick(s)}]]
           sum == CHOOSE g : Is(g)
           count == [s \in SUBSET S |-> Counted(f, s)]
<1>1. SumFunctionOnSet(f, S) = sum[S]
  BY DEF SumFunctionOnSet, FoldFunctionOnSet, MapThenFoldSet
<1>2. \A s \in SUBSET S : s # {} => pick(s) \in s
  OBVIOUS
<1> HIDE DEF pick
<1>3. \A s \in SUBSET S : IsFiniteSet(s) /\ Counted(f, s) \in Int
  BY FS_Subset, CountedStep
<1>4. \A s \in SUBSET S : s # {} => Counted(f, s) = f[pick(s)] + Counted(f, s \ {pick(s)})
  BY <1>2, <1>3, CountedStep
<1>5. Is(count)
  BY <1>2, <1>4, CountedEmpty
<1>6. Is(sum)
  BY <1>5
<1> HIDE DEF sum
<1>7. \A s \in SUBSET S : sum[s] = IF s = {} THEN 0 ELSE f[pick(s)] + sum[s \ {pick(s)}]
  BY <1>6
<1> DEFINE Bad == {s \in SUBSET S : sum[s] # Counted(f, s)}
<1>8. Bad = {}
  <2> SUFFICES ASSUME Bad # {} PROVE FALSE
    OBVIOUS
  <2>1. PICK T \in Bad : \A x \in T : T \ {x} \notin Bad
    BY MinimalSubset
  <2>2. CASE T = {}
    BY <1>7, <2>2, CountedEmpty
  <2>3. CASE T # {}
    <3>1. sum[T \ {pick(T)}] = Counted(f, T \ {pick(T)})
      BY <1>2, <2>1, <2>3
    <3>2. QED  BY <1>4, <1>7, <2>3, <3>1
  <2>4. QED  BY <2>2, <2>3
<1>9. QED  BY <1>1, <1>8

\* The sum over no members.
LEMMA SumEmpty == \A f : SumFunctionOnSet(f, {}) = 0
BY SumCounted, CountedEmpty, FS_EmptySet

\* One member can be taken out of a sum.
LEMMA SumRemove ==
    ASSUME NEW S, IsFiniteSet(S), NEW f, \A y \in S : f[y] \in Int
    PROVE  /\ SumFunctionOnSet(f, S) \in Int
           /\ \A x \in S : SumFunctionOnSet(f, S) = f[x] + SumFunctionOnSet(f, S \ {x})
<1>1. SumFunctionOnSet(f, S) = Counted(f, S)
  BY SumCounted
<1>2. ASSUME NEW x \in S PROVE SumFunctionOnSet(f, S \ {x}) = Counted(f, S \ {x})
  <2>1. IsFiniteSet(S \ {x}) /\ \A y \in S \ {x} : f[y] \in Int
    BY FS_RemoveElement
  <2>2. QED  BY <2>1, SumCounted
<1>3. QED  BY <1>1, <1>2, CountedStep

\* Sums of the same values are the same.
LEMMA SumSame ==
    ASSUME NEW S, IsFiniteSet(S), NEW f, NEW g,
           \A y \in S : f[y] \in Int /\ g[y] = f[y]
    PROVE  SumFunctionOnSet(g, S) = SumFunctionOnSet(f, S)
<1>1. Units(f, S) = Units(g, S)
  BY DEF Units
<1>2. [y \in S |-> -f[y]] = [y \in S |-> -g[y]]
  OBVIOUS
<1>3. Counted(f, S) = Counted(g, S)
  BY <1>1, <1>2 DEF Counted
<1>4. QED  BY <1>3, SumCounted

\* A sum changes by what one of its values changes by.
LEMMA SumChange ==
    ASSUME NEW S, IsFiniteSet(S), NEW f, NEW g, NEW x \in S,
           \A y \in S : f[y] \in Int /\ g[y] \in Int,
           \A y \in S \ {x} : g[y] = f[y]
    PROVE  SumFunctionOnSet(g, S) = SumFunctionOnSet(f, S) + g[x] - f[x]
<1>1. IsFiniteSet(S \ {x})
  BY FS_RemoveElement
<1>2. SumFunctionOnSet(g, S \ {x}) = SumFunctionOnSet(f, S \ {x})
  BY <1>1, SumSame
<1>3. SumFunctionOnSet(f, S \ {x}) \in Int
  BY <1>1, SumRemove
<1>4. QED  BY <1>2, <1>3, SumRemove

\* Nothing outside T counts.
LEMMA SumZeros ==
    ASSUME NEW S, IsFiniteSet(S), NEW T \in SUBSET S, NEW f, \A y \in S : f[y] \in Int,
           \A y \in S \ T : f[y] = 0
    PROVE  SumFunctionOnSet(f, T) = SumFunctionOnSet(f, S)
<1>1. Units(f, S) = Units(f, T)
  BY DEF Units
<1>2. Units([y \in S |-> -f[y]], S) = Units([y \in T |-> -f[y]], T)
  BY DEF Units
<1>3. IsFiniteSet(T) /\ \A y \in T : f[y] \in Int
  BY FS_Subset
<1>4. Counted(f, S) = Counted(f, T)
  BY <1>1, <1>2 DEF Counted
<1>5. QED  BY <1>3, <1>4, SumCounted

\* A bound on the values bounds the sum.
LEMMA SumUpper ==
    ASSUME NEW S, IsFiniteSet(S), NEW m \in Nat, NEW f,
           \A y \in S : f[y] \in Int /\ f[y] <= m
    PROVE  SumFunctionOnSet(f, S) <= Cardinality(S) * m
<1> DEFINE sum(T) == SumFunctionOnSet(f, T)
           Bad == {T \in SUBSET S : ~(sum(T) <= Cardinality(T) * m)}
<1>1. Bad = {}
  <2> SUFFICES ASSUME Bad # {} PROVE FALSE
    OBVIOUS
  <2>1. PICK T \in Bad : \A x \in T : T \ {x} \notin Bad
    BY MinimalSubset
  <2>2. CASE T = {}
    <3>1. sum(T) = 0 /\ Cardinality(T) = 0
      BY <2>2, SumEmpty, FS_EmptySet
    <3>2. QED  BY <3>1
  <2>3. CASE T # {}
    <3>1. PICK x \in T : TRUE
      BY <2>3
    <3>2. IsFiniteSet(T) /\ IsFiniteSet(T \ {x})
      BY FS_Subset
    <3>3. sum(T) = f[x] + sum(T \ {x}) /\ sum(T \ {x}) \in Int
      BY <3>2, SumRemove
    <3>4. Cardinality(T \ {x}) = Cardinality(T) - 1 /\ Cardinality(T) \in Nat
      BY <3>2, FS_RemoveElement, FS_CardinalityType
    <3>5. sum(T \ {x}) <= Cardinality(T \ {x}) * m
      BY <2>1
    <3>6. f[x] \in Int /\ f[x] <= m
      OBVIOUS
    <3>7. (Cardinality(T) - 1) * m = Cardinality(T) * m - m /\ Cardinality(T) * m \in Int
      BY <3>4
    <3>8. ~(sum(T) <= Cardinality(T) * m)
      BY <2>1
    <3> HIDE DEF sum, Bad
    <3>9. QED  BY <3>3, <3>4, <3>5, <3>6, <3>7, <3>8
  <2>4. QED  BY <2>2, <2>3
<1>2. QED  BY <1>1

\* A sum of sizes is a size.
LEMMA SumNat ==
    ASSUME NEW S, IsFiniteSet(S), NEW f, \A y \in S : f[y] \in Nat
    PROVE  SumFunctionOnSet(f, S) \in Nat
<1>1. Units([y \in S |-> -f[y]], S) = {}
  BY DEF Units
<1>2. Cardinality(Units([y \in S |-> -f[y]], S)) = 0
  BY <1>1, FS_EmptySet
<1>3. IsFiniteSet(Units(f, S))
  BY UnitsFinite
<1>4. Cardinality(Units(f, S)) \in Nat
  BY <1>3, FS_CardinalityType
<1>5. QED  BY <1>2, <1>4, SumCounted DEF Counted

\* Negative terms that each have a positive one of their own to cover them.
LEMMA SumCovered ==
    ASSUME NEW W, IsFiniteSet(W), NEW F, IsFiniteSet(F),
           NEW a, \A w \in W : a[w] \in Int,
           NEW b, \A f \in F : b[f] \in Nat,
           NEW name, \A w \in W : a[w] < 0 => name[w] \in F /\ a[w] + b[name[w]] >= 0,
           \A v, w \in W : a[v] < 0 /\ a[w] < 0 /\ name[v] = name[w] => v = w
    PROVE  SumFunctionOnSet(b, F) + SumFunctionOnSet(a, W) >= 0
<1> DEFINE sa(T) == SumFunctionOnSet(a, T)
           sb(G) == SumFunctionOnSet(b, G)
           Covers(G, T) == \A w \in T : a[w] < 0 => name[w] \in G
           Bad == {T \in SUBSET W : \E G \in SUBSET F : Covers(G, T) /\ ~(sb(G) + sa(T) >= 0)}
<1>1. ASSUME NEW T \in SUBSET W, NEW G \in SUBSET F
      PROVE  IsFiniteSet(T) /\ IsFiniteSet(G) /\ sa(T) \in Int /\ sb(G) \in Nat
  <2>1. IsFiniteSet(T) /\ IsFiniteSet(G)
    BY FS_Subset
  <2>2. sa(T) \in Int
    BY <2>1, SumRemove
  <2>3. sb(G) \in Nat
    BY <2>1, SumNat
  <2>4. QED  BY <2>1, <2>2, <2>3
<1>2. Bad = {}
  <2> SUFFICES ASSUME Bad # {} PROVE FALSE
    OBVIOUS
  <2>1. PICK T \in Bad : \A x \in T : T \ {x} \notin Bad
    BY MinimalSubset
  <2>2. PICK G \in SUBSET F : Covers(G, T) /\ ~(sb(G) + sa(T) >= 0)
    BY <2>1
  <2>3. CASE T = {}
    <3>1. sa(T) = 0
      BY <2>3, SumEmpty
    <3>2. sb(G) \in Nat
      BY <1>1
    <3> HIDE DEF sa, sb
    <3>3. QED  BY <2>2, <3>1, <3>2
  <2>4. CASE T # {}
    <3>1. PICK x \in T : TRUE
      BY <2>4
    <3>2. sa(T) = a[x] + sa(T \ {x}) /\ a[x] \in Int
      BY <1>1, SumRemove
    <3>3. sa(T \ {x}) \in Int /\ sb(G) \in Nat
      BY <1>1
    <3>4. CASE a[x] >= 0
      <4>1. Covers(G, T \ {x})
        BY <2>2
      <4>2. sb(G) + sa(T \ {x}) >= 0
        BY <2>1, <4>1
      <4> HIDE DEF sa, sb
      <4>3. QED  BY <2>2, <3>2, <3>3, <3>4, <4>2
    <3>5. CASE a[x] < 0
      <4> DEFINE f == name[x]
      <4>1. f \in G /\ f \in F /\ a[x] + b[f] >= 0 /\ b[f] \in Nat
        BY <2>2, <3>5
      <4>2. sb(G) = b[f] + sb(G \ {f}) /\ sb(G \ {f}) \in Nat
        <5>1. IsFiniteSet(G) /\ \A y \in G : b[y] \in Int
          BY <1>1
        <5>2. sb(G \ {f}) \in Nat
          BY <1>1
        <5> HIDE DEF f
        <5>3. sb(G) = b[f] + sb(G \ {f})
          BY <4>1, <5>1, SumRemove
        <5>4. QED  BY <5>2, <5>3
      <4>3. Covers(G \ {f}, T \ {x})
        BY <2>2, <3>5
      <4>4. sb(G \ {f}) + sa(T \ {x}) >= 0
        BY <2>1, <4>3
      <4> HIDE DEF sa, sb, f
      <4>5. QED  BY <2>2, <3>2, <3>3, <4>1, <4>2, <4>4
    <3>6. QED  BY <3>2, <3>4, <3>5
  <2>5. QED  BY <2>3, <2>4
<1>3. Covers(F, W)
  OBVIOUS
<1>4. QED  BY <1>2, <1>3
------------------------------------------------------------------------------
\* Quota.Add stays in the range of the counter, whatever is added to it.
LEMMA AddRange ==
    ASSUME NEW u \in 0 .. MaxInt64, NEW i \in Int
    PROVE  Add(u, i) \in 0 .. MaxInt64
BY QuotaAssumption DEF Add

\* A function has no more values than arguments.
LEMMA FewValues ==
    ASSUME NEW S, IsFiniteSet(S), NEW f
    PROVE  LET T == {f[x] : x \in S} IN IsFiniteSet(T) /\ Cardinality(T) <= Cardinality(S)
<1> DEFINE T == {f[x] : x \in S}
           g == [x \in S |-> f[x]]
<1>1. g \in Surjection(S, T)
  BY DEF Surjection
<1> HIDE DEF g, T
<1>2. QED  BY <1>1, FS_Surjection DEF T

\* A set of naturals that is not empty has a least element.
LEMMA LeastExists ==
    ASSUME NEW S \in SUBSET Nat, S # {}
    PROVE  Min(S) \in S
<1> DEFINE R == {ss \in Nat \X Nat : ss[1] < ss[2]}
<1>1. IsWellFoundedOn(R, Nat)
  BY NatLessThanWellFounded DEF OpToRel
<1>2. PICK x \in S : \A y \in S : <<y, x>> \notin R
  BY <1>1, WFMin
<1>3. ASSUME NEW y \in S PROVE x <= y
  <2>1. y \in Nat /\ x \in Nat /\ ~(y < x)
    BY <1>2
  <2>2. QED  BY <2>1
<1>4. QED  BY <1>3 DEF Min

\* There is an inode for a file that is created: names and open files hold fewer
\* than there are.
LEMMA FreeInodeExists ==
    ASSUME TypeOK, NEW f \in Files, link[f] = None
    PROVE  FreeInode \in Inodes \ Held(link, task)
<1> DEFINE A == {link[x] : x \in Files \ {f}}
           B == {task[w].ino : w \in Workers}
           ino == [w \in Workers |-> task[w].ino]
           free == Inodes \ Held(link, task)
<1>1. /\ IsFiniteSet(Files \ {f}) /\ Cardinality(Files \ {f}) = Cardinality(Files) - 1
      /\ Cardinality(Files) \in Nat /\ Cardinality(Workers) \in Nat
  BY DiskQuotaAssumption, FS_RemoveElement, FS_CardinalityType
<1>2. IsFiniteSet(A) /\ Cardinality(A) <= Cardinality(Files) - 1
  <2>1. IsFiniteSet(A) /\ Cardinality(A) <= Cardinality(Files \ {f})
    BY <1>1, FewValues
  <2>2. QED  BY <1>1, <2>1
<1>3. IsFiniteSet(B) /\ Cardinality(B) <= Cardinality(Workers)
  <2>1. B = {ino[w] : w \in Workers}
    OBVIOUS
  <2> HIDE DEF ino, B
  <2>2. /\ IsFiniteSet({ino[w] : w \in Workers})
        /\ Cardinality({ino[w] : w \in Workers}) <= Cardinality(Workers)
    BY FewValues, DiskQuotaAssumption
  <2>3. QED  BY <2>1, <2>2
<1>4. Held(link, task) \cap Inodes \subseteq A \cup B
  BY DEF Held, Inodes, None
<1>5. IsFiniteSet(Inodes) /\ Cardinality(Inodes) = Cardinality(Files) + Cardinality(Workers)
  <2>1. Cardinality(Files) + Cardinality(Workers) \in Nat
    BY <1>1
  <2>2. QED  BY <2>1, FS_Interval DEF Inodes
<1> HIDE DEF A, B
<1>6. /\ IsFiniteSet(A \cup B) /\ Cardinality(A \cup B) \in Nat
      /\ Cardinality(A \cup B) <= Cardinality(Files) - 1 + Cardinality(Workers)
  <2>1. Cardinality(A) \in Nat /\ Cardinality(B) \in Nat /\ IsFiniteSet(A \cap B)
    BY <1>2, <1>3, FS_CardinalityType, FS_Subset
  <2>2. Cardinality(A \cap B) \in Nat
    BY <2>1, FS_CardinalityType
  <2>3. /\ IsFiniteSet(A \cup B)
        /\ Cardinality(A \cup B) = Cardinality(A) + Cardinality(B) - Cardinality(A \cap B)
    BY <1>2, <1>3, FS_Union
  <2>4. QED  BY <1>1, <1>2, <1>3, <2>1, <2>2, <2>3, FS_CardinalityType
<1>7. free # {}
  <2> SUFFICES ASSUME free = {} PROVE FALSE
    OBVIOUS
  <2>1. Inodes \subseteq A \cup B
    BY <1>4
  <2>2. Cardinality(Inodes) <= Cardinality(A \cup B)
    BY <1>6, <2>1, FS_Subset
  <2>3. QED  BY <1>1, <1>5, <1>6, <2>2
<1>8. free \subseteq Nat
  BY <1>1 DEF Inodes
<1> HIDE DEF free
<1>9. Min(free) \in free
  BY <1>7, <1>8, LeastExists
<1>10. QED  BY <1>9 DEF FreeInode, free
------------------------------------------------------------------------------
\* What most proofs use of the invariant.
LEMMA QuotaFacts ==
    ASSUME QuotaInv
    PROVE  /\ link \in [Files -> Inodes \cup {None}] /\ OneName(link)
           /\ bytes \in [Inodes -> 0 .. MaxSize]
           /\ usage \in 0 .. MaxInt64
           /\ \A w \in Workers : task[w] \in Task /\ TaskOK(task[w])
BY DEF QuotaInv, TypeOK, DiskOK

\* The size of a file.
LEMMA SizeRange ==
    ASSUME QuotaInv, NEW f
    PROVE  SizeOf(f) \in 0 .. MaxSize
BY QuotaFacts, DiskQuotaAssumption DEF SizeOf, Linked

\* A worker that does nothing.
LEMMA IdleOK == Idle \in Task /\ TaskOK(Idle)
<1>1. Idle \in Task
  BY DEF Idle, Task, Ops, Steps
<1>2. TaskOK(Idle)
  BY DiskQuotaAssumption DEF Idle, TaskOK, Opened
<1>3. QED  BY <1>1, <1>2

\* A step of a worker: what it has to show of the disk, the usage and its locals.
LEMMA EffectKeeps ==
    ASSUME QuotaInv, NEW w \in Workers,
           NEW l \in [Files -> Inodes \cup {None}], OneName(l),
           NEW b \in [Inodes -> 0 .. MaxSize],
           NEW u \in 0 .. MaxInt64, NEW t \in Task, TaskOK(t), Effect(w, l, b, u, t)
    PROVE  QuotaInv'
<1>1. /\ link' = l /\ usage' = u /\ task' = [task EXCEPT ![w] = t]
      /\ bytes' = [i \in Inodes |-> IF i \in Held(link', task') THEN b[i] ELSE 0]
      /\ UNCHANGED <<limit, mu, looked, ops>>
  BY DEF Effect
<1>2. bytes' \in [Inodes -> 0 .. MaxSize]
  BY <1>1, DiskQuotaAssumption
<1>3. bytes' \in [Inodes -> Nat]
  BY <1>2
<1>4. task' \in [Workers -> Task]
  BY <1>1 DEF QuotaInv, TypeOK
<1>5. TypeOK'
  BY <1>1, <1>3, <1>4 DEF QuotaInv, TypeOK
<1>6. ASSUME NEW v \in Workers PROVE TaskOK(task'[v])
  BY <1>1 DEF QuotaInv, TypeOK
<1>7. DiskOK'
  BY <1>1, <1>2 DEF DiskOK, OneName, Held
<1>8. QED  BY <1>5, <1>6, <1>7 DEF QuotaInv, TaskOK, Opened

\* Steps that change locals only.
LEMMA LocalKeeps ==
    ASSUME QuotaInv, NEW w \in Workers, NEW t \in Task, TaskOK(t), Local(w, t)
    PROVE  QuotaInv'
BY QuotaFacts, EffectKeeps DEF Local

\* Steps that add to the usage.
LEMMA ChargeKeeps ==
    ASSUME QuotaInv, NEW w \in Workers, NEW i \in Int, NEW t \in Task, TaskOK(t), Charge(w, i, t)
    PROVE  QuotaInv'
<1>1. Add(usage, i) \in 0 .. MaxInt64
  BY QuotaFacts, AddRange
<1>2. QED  BY <1>1, QuotaFacts, EffectKeeps DEF Charge

\* Steps that write to the open file.
LEMMA WriteKeeps ==
    ASSUME QuotaInv, NEW w \in Workers, NEW end \in 0 .. MaxSize, NEW t \in Task, TaskOK(t),
           Opened(task[w]), WriteTo(w, end, t)
    PROVE  QuotaInv'
<1> DEFINE b == [bytes EXCEPT ![task[w].ino] = Larger(@, end)]
<1>1. task[w].ino \in Inodes
  BY QuotaFacts DEF TaskOK
<1>2. Larger(bytes[task[w].ino], end) \in 0 .. MaxSize
  BY <1>1, QuotaFacts, DiskQuotaAssumption DEF Larger
<1>3. b \in [Inodes -> 0 .. MaxSize]
  BY <1>1, <1>2, QuotaFacts
<1>4. Effect(w, link, b, usage, t)
  BY DEF WriteTo, Disk
<1> HIDE DEF b
<1>5. QED  BY <1>3, <1>4, QuotaFacts, EffectKeeps

\* Steps that unlink.
LEMMA UnlinkKeeps ==
    ASSUME QuotaInv, NEW w \in Workers, NEW f, NEW t \in Task, TaskOK(t), Unlink(w, f, t)
    PROVE  QuotaInv'
<1> DEFINE l == IF f \in Linked THEN [link EXCEPT ![f] = None] ELSE link
<1>1. l \in [Files -> Inodes \cup {None}]
  BY QuotaFacts
<1>2. OneName(l)
  BY QuotaFacts DEF OneName
<1>3. Effect(w, l, bytes, usage, t)
  BY DEF Unlink, Disk
<1> HIDE DEF l
<1>4. QED  BY <1>1, <1>2, <1>3, QuotaFacts, EffectKeeps

\* The inode that opening a file leads to.
LEMMA OpenInode ==
    ASSUME QuotaInv, NEW f \in Files
    PROVE  LET i == IF f \in Linked THEN link[f] ELSE FreeInode IN
           /\ i \in Inodes
           /\ \A g \in Files \ {f} : link[g] # i
           /\ f \notin Linked => i \notin Held(link, task)
<1>1. CASE f \in Linked
  BY <1>1, QuotaFacts DEF Linked, OneName, None, Inodes
<1>2. CASE f \notin Linked
  <2>1. FreeInode \in Inodes \ Held(link, task)
    BY <1>2, FreeInodeExists DEF QuotaInv, Linked
  <2>2. QED  BY <1>2, <2>1 DEF Held
<1>3. QED  BY <1>1, <1>2

\* Opening a file, for an operation that has it open afterwards.
LEMMA OpenKeeps ==
    ASSUME QuotaInv, NEW w \in Workers, NEW truncate \in BOOLEAN,
           NEW pc \in {"copy", "check", "ready"},
           task[w].op \in {"write", "copy", "compress", "decompress", "handle"},
           task[w].pc = "open",
           task[w].op = "decompress" => pc = "check",
           OpenFile(w, task[w].f, truncate, pc)
    PROVE  QuotaInv'
<1> DEFINE f == task[w].f
           i == IF f \in Linked THEN link[f] ELSE FreeInode
           l == [link EXCEPT ![f] = i]
           b == [bytes EXCEPT ![i] = IF truncate THEN 0 ELSE @]
           t == [task[w] EXCEPT !.pc = pc, !.f = f, !.ino = i]
<1>1. f \in Files /\ task[w] \in Task /\ TaskOK(task[w])
  BY QuotaFacts DEF TaskOK
<1>2. i \in Inodes /\ \A g \in Files \ {f} : link[g] # i
  BY <1>1, OpenInode
<1>3. Effect(w, l, b, usage, t)
  BY DEF OpenFile, Disk
<1> HIDE DEF i
<1>4. l \in [Files -> Inodes \cup {None}] /\ b \in [Inodes -> 0 .. MaxSize]
  BY <1>1, <1>2, QuotaFacts, DiskQuotaAssumption
<1>5. OneName(l)
  BY <1>1, <1>2, QuotaFacts DEF OneName
<1>6. t \in Task
  BY <1>1, <1>2 DEF Task, Steps
<1>7. TaskOK(t)
  BY <1>1, <1>2 DEF Task, TaskOK, Opened
<1> HIDE DEF l, b, t
<1>8. QED  BY <1>3, <1>4, <1>5, <1>6, <1>7, QuotaFacts, EffectKeeps

\* A step that changes the locals of a worker and not the inode it has open.
LEMMA TaskStepKeeps ==
    ASSUME QuotaInv, NEW w \in Workers, NEW t \in Task, TaskOK(t), t.ino = task[w].ino,
           task' = [task EXCEPT ![w] = t], UNCHANGED <<link, bytes, limit>>,
           usage' \in 0 .. MaxInt64, mu' \in Workers \cup {None}, looked' \in BOOLEAN,
           ops' \in 0 .. MaxOps
    PROVE  QuotaInv'
<1>1. TypeOK'
  BY DEF QuotaInv, TypeOK
<1>2. ASSUME NEW v \in Workers PROVE TaskOK(task'[v])
  BY DEF QuotaInv, TypeOK
<1>3. \A v \in Workers : task'[v].ino = task[v].ino
  BY DEF QuotaInv, TypeOK
<1>4. Held(link', task') = Held(link, task)
  BY <1>3 DEF Held
<1>5. DiskOK'
  BY <1>4 DEF QuotaInv, DiskOK, OneName
<1>6. QED  BY <1>1, <1>2, <1>5 DEF QuotaInv, TaskOK, Opened

\* The beginning of an operation.
LEMMA BeginKeeps ==
    ASSUME QuotaInv, NEW w \in Workers, NEW op \in Ops, NEW pc \in {"stat", "open", "lock"},
           NEW f \in Files \cup {None}, op # "walk" => f \in Files, Begin(w, op, pc, f)
    PROVE  QuotaInv'
<1> DEFINE t == [Idle EXCEPT !.op = op, !.pc = pc, !.f = f]
<1>1. /\ t.op = op /\ t.pc = pc /\ t.f = f /\ t.ino = None /\ t.cur = 0 /\ t.len = 0
      /\ t.n = 0 /\ t.off = 0 /\ t.todo = {} /\ t.acc = 0
  BY DEF Idle
<1>2. task[w] = Idle
  BY QuotaFacts DEF Begin, TaskOK
<1>3. task' = [task EXCEPT ![w] = t] /\ ops \in 0 .. MaxOps /\ ops < MaxOps /\ ops' = ops + 1
  BY DEF Begin, QuotaInv, TypeOK
<1>4. ops' \in 0 .. MaxOps
  BY <1>3, DiskQuotaAssumption
<1>5. t \in Task
  BY IdleOK DEF Task, Steps
<1> HIDE DEF t
<1>6. TaskOK(t)
  BY <1>1, DiskQuotaAssumption DEF TaskOK, Opened, Ops
<1>7. t.ino = task[w].ino
  BY <1>1, <1>2 DEF Idle
<1>8. /\ UNCHANGED <<link, bytes, limit>> /\ usage' \in 0 .. MaxInt64
      /\ mu' \in Workers \cup {None} /\ looked' \in BOOLEAN
  BY DEF Begin, QuotaInv, TypeOK
<1>9. QED  BY <1>3, <1>4, <1>5, <1>6, <1>7, <1>8, TaskStepKeeps

\* For the record updates with 0, which Zenon does without arithmetic.
LEMMA ZeroTyped == 0 \in Nat /\ 0 \in Int
OBVIOUS
------------------------------------------------------------------------------
(***************************************************************************)
(* Every operation keeps QuotaInv, one step per action.                    *)
(***************************************************************************)
LEMMA WriteFileKeeps ==
    ASSUME QuotaInv, NEW w \in Workers, WriteFile(w)
    PROVE  QuotaInv'
<1> DEFINE t == task[w]
<1>0. t \in Task /\ TaskOK(t) /\ SizeOf(t.f) \in 0 .. MaxSize /\ SizeOf(t.f) \in Nat
  BY QuotaFacts, SizeRange
<1>1. CASE \E f \in Files : Begin(w, "write", "stat", f)
  BY <1>1, BeginKeeps DEF Ops
<1>2. CASE \E s \in 0 .. MaxSize : WriteStat(w, s)
  <2>1. PICK s \in 0 .. MaxSize : s \in Nat /\ WriteStat(w, s)
    BY <1>2
  <2> DEFINE u == [t EXCEPT !.pc = "check", !.cur = SizeOf(t.f), !.len = s]
  <2>2. Local(w, u) /\ t.op = "write" /\ t.pc = "stat"
    BY <2>1 DEF WriteStat, At
  <2>3. u \in Task
    BY <1>0, <2>1 DEF Task, Steps
  <2>4. TaskOK(u)
    BY <1>0, <2>2 DEF Task, TaskOK, Opened
  <2>5. QED  BY <2>2, <2>3, <2>4, LocalKeeps
<1>3. CASE \E n \in 0 .. MaxSize : WriteCopy(w, n)
  <2>1. PICK n \in 0 .. MaxSize : n \in Nat /\ n \in Int /\ WriteCopy(w, n)
    BY <1>3
  <2> DEFINE u == [t EXCEPT !.pc = "account", !.len = 0, !.n = n]
  <2>2. WriteTo(w, n, u) /\ t.op = "write" /\ t.pc = "copy"
    BY <2>1 DEF WriteCopy, At
  <2>3. u \in Task
    BY <1>0, <2>1, ZeroTyped, Zenon DEF Task, Steps
  <2>4. TaskOK(u) /\ Opened(t)
    BY <1>0, <2>2 DEF Task, TaskOK, Opened
  <2>5. QED  BY <2>2, <2>3, <2>4, WriteKeeps
<1>4. CASE WriteCheck(w)
  <2> DEFINE u == [t EXCEPT !.pc = "open"]
  <2>1. (Local(w, u) \/ Local(w, Idle)) /\ t.op = "write" /\ t.pc = "check"
    BY <1>4 DEF WriteCheck, At
  <2>2. u \in Task
    BY <1>0 DEF Task, Steps
  <2>3. TaskOK(u)
    BY <1>0, <2>1 DEF Task, TaskOK, Opened
  <2>4. QED  BY <2>1, <2>2, <2>3, LocalKeeps, IdleOK
<1>5. CASE WriteOpen(w)
  BY <1>5, OpenKeeps DEF WriteOpen, At
<1>6. CASE WriteAccount(w)
  <2>1. Charge(w, t.n - t.cur, Idle) /\ t.n - t.cur \in Int
    BY <1>0, <1>6 DEF WriteAccount, Task
  <2>2. QED  BY <2>1, ChargeKeeps, IdleOK
<1>7. QED  BY <1>1, <1>2, <1>3, <1>4, <1>5, <1>6 DEF WriteFile

\* The steps of Copy.
LEMMA CopyFileKeeps ==
    ASSUME QuotaInv, NEW w \in Workers, CopyFile(w)
    PROVE  QuotaInv'
<1> DEFINE t == task[w]
<1>0. t \in Task /\ TaskOK(t) /\ SizeOf(t.f) \in 0 .. MaxSize /\ SizeOf(t.f) \in Nat
  BY QuotaFacts, SizeRange
<1>1. CASE \E f \in Files : Begin(w, "copy", "stat", f)
  BY <1>1, BeginKeeps DEF Ops
<1>2. CASE \E g \in Files : FindCopySuffix(w, g)
  <2>1. PICK g \in Files : FindCopySuffix(w, g)
    BY <1>2
  <2> DEFINE u == [t EXCEPT !.pc = "open", !.f = g]
  <2>2. Local(w, u) /\ t.op = "copy" /\ t.pc = "check"
    BY <2>1 DEF FindCopySuffix, At
  <2>3. u \in Task
    BY <1>0 DEF Task, Steps
  <2>4. TaskOK(u)
    BY <1>0, <2>2 DEF Task, TaskOK, Opened
  <2>5. QED  BY <2>2, <2>3, <2>4, LocalKeeps
<1>3. CASE \E n \in 0 .. MaxSize : CopyBytes(w, n)
  <2>1. PICK n \in 0 .. MaxSize : n \in Nat /\ n \in Int /\ CopyBytes(w, n)
    BY <1>3
  <2> DEFINE u == [t EXCEPT !.pc = "account", !.len = 0, !.n = n]
  <2>2. WriteTo(w, n, u) /\ t.op = "copy" /\ t.pc = "copy"
    BY <2>1 DEF CopyBytes, At
  <2>3. u \in Task
    BY <1>0, <2>1, ZeroTyped, Zenon DEF Task, Steps
  <2>4. TaskOK(u) /\ Opened(t)
    BY <1>0, <2>2 DEF Task, TaskOK, Opened
  <2>5. QED  BY <2>2, <2>3, <2>4, WriteKeeps
<1>4. CASE CopyStat(w)
  <2> DEFINE u == [t EXCEPT !.pc = "check", !.len = SizeOf(t.f)]
  <2>1. (Local(w, u) \/ Local(w, Idle)) /\ t.op = "copy" /\ t.pc = "stat"
    BY <1>4 DEF CopyStat, At
  <2>2. u \in Task
    BY <1>0 DEF Task, Steps
  <2>3. TaskOK(u)
    BY <1>0, <2>1 DEF Task, TaskOK, Opened
  <2>4. QED  BY <2>1, <2>2, <2>3, LocalKeeps, IdleOK
<1>5. CASE CopyOpen(w)
  BY <1>5, OpenKeeps DEF CopyOpen, At
<1>6. CASE CopyAccount(w)
  <2>1. Charge(w, t.n, Idle) /\ t.n \in Int
    BY <1>0, <1>6 DEF CopyAccount, Task
  <2>2. QED  BY <2>1, ChargeKeeps, IdleOK
<1>7. QED  BY <1>1, <1>2, <1>3, <1>4, <1>5, <1>6 DEF CopyFile

\* The steps of Rename.
LEMMA RenameKeeps ==
    ASSUME QuotaInv, NEW w \in Workers, Rename(w)
    PROVE  QuotaInv'
<1> DEFINE t == task[w]
<1>0. t \in Task /\ TaskOK(t)
  BY QuotaFacts
<1>1. CASE \E f \in Files : Begin(w, "rename", "stat", f)
  BY <1>1, BeginKeeps DEF Ops
<1>2. CASE \E g \in Files : RenameStat(w, g)
  <2>1. PICK g \in Files : RenameStat(w, g)
    BY <1>2
  <2> DEFINE u == [t EXCEPT !.pc = "check", !.to = g]
  <2>2. (Local(w, u) \/ Local(w, Idle)) /\ t.op = "rename" /\ t.pc = "stat"
    BY <2>1 DEF RenameStat, At
  <2>3. u \in Task
    BY <1>0 DEF Task, Steps
  <2>4. TaskOK(u)
    BY <1>0, <2>2 DEF Task, TaskOK, Opened
  <2>5. QED  BY <2>2, <2>3, <2>4, LocalKeeps, IdleOK
<1>3. CASE Renameat(w)
  <2> DEFINE l == IF t.f \in Linked
                  THEN [link EXCEPT ![t.to] = link[t.f], ![t.f] = None] ELSE link
  <2>1. Effect(w, l, bytes, usage, Idle) /\ t.op = "rename" /\ t.pc = "check"
    BY <1>3 DEF Renameat, Disk, At
  <2>2. t.f \in Files /\ t.to \in Files
    BY <1>0, <2>1 DEF TaskOK
  <2>3. l \in [Files -> Inodes \cup {None}]
    BY <2>2, QuotaFacts
  <2>4. OneName(l)
    BY <2>2, QuotaFacts DEF OneName, Linked
  <2> HIDE DEF l
  <2>5. QED  BY <2>1, <2>3, <2>4, QuotaFacts, IdleOK, EffectKeeps
<1>4. QED  BY <1>1, <1>2, <1>3 DEF Rename

\* The steps of CompressFiles.
LEMMA CompressKeeps ==
    ASSUME QuotaInv, NEW w \in Workers, Compress(w)
    PROVE  QuotaInv'
<1> DEFINE t == task[w]
<1>0. t \in Task /\ TaskOK(t) /\ SizeOf(t.f) \in 0 .. MaxSize /\ SizeOf(t.f) \in Nat
  BY QuotaFacts, SizeRange
<1>1. CASE \E f \in Files : CompressBegin(w, f)
  BY <1>1, BeginKeeps DEF CompressBegin, Ops
<1>2. CASE \E n \in 0 .. MaxSize : CompressStream(w, n)
  <2>1. PICK n \in 0 .. MaxSize : n \in Nat /\ n \in Int /\ CompressStream(w, n)
    BY <1>2
  <2> DEFINE u == [t EXCEPT !.pc = "check", !.n = n]
  <2>2. (WriteTo(w, n, u) \/ WriteTo(w, n, Idle)) /\ t.op = "compress" /\ t.pc = "copy"
    BY <2>1 DEF CompressStream, At
  <2>3. u \in Task
    BY <1>0, <2>1, ZeroTyped, Zenon DEF Task, Steps
  <2>4. TaskOK(u) /\ Opened(t)
    BY <1>0, <2>2 DEF Task, TaskOK, Opened
  <2>5. QED  BY <2>2, <2>3, <2>4, WriteKeeps, IdleOK
<1>3. CASE CompressOpen(w)
  BY <1>3, OpenKeeps DEF CompressOpen, At
<1>4. CASE CompressAccount(w)
  <2>1. Charge(w, t.n, Idle) /\ t.n \in Int
    BY <1>0, <1>4 DEF CompressAccount, Task
  <2>2. QED  BY <2>1, ChargeKeeps, IdleOK
<1>5. CASE CompressReject(w)
  <2> DEFINE u == [t EXCEPT !.pc = "unlink", !.cur = SizeOf(t.f)]
  <2>1. (Local(w, u) \/ Local(w, Idle)) /\ t.op = "compress" /\ t.pc = "check"
    BY <1>5 DEF CompressReject, At
  <2>2. u \in Task
    BY <1>0 DEF Task, Steps
  <2>3. TaskOK(u)
    BY <1>0, <2>1 DEF Task, TaskOK, Opened
  <2>4. QED  BY <2>1, <2>2, <2>3, LocalKeeps, IdleOK
<1>6. QED  BY <1>1, <1>2, <1>3, <1>4, <1>5 DEF Compress

\* The steps of extractStream.
LEMMA DecompressKeeps ==
    ASSUME QuotaInv, NEW w \in Workers, Decompress(w)
    PROVE  QuotaInv'
<1> DEFINE t == task[w]
<1>0. t \in Task /\ TaskOK(t) /\ MaxSize \in Nat
  BY QuotaFacts, DiskQuotaAssumption
<1>1. CASE \E f \in Files : Begin(w, "decompress", "open", f)
  BY <1>1, BeginKeeps DEF Ops
<1>2. CASE \E n \in 0 .. MaxSize : DecompressCheck(w, n)
  <2>1. PICK n \in 0 .. MaxSize : n \in Nat /\ n \in Int /\ DecompressCheck(w, n)
    BY <1>2
  <2> DEFINE u == [t EXCEPT !.pc = "copy", !.n = n]
  <2>2. /\ (t.off + n <= MaxSize /\ Local(w, u)) \/ Local(w, Idle)
        /\ t.op = "decompress" /\ t.pc = "check"
    BY <2>1 DEF DecompressCheck, At
  <2>3. u \in Task
    BY <1>0, <2>1, ZeroTyped, Zenon DEF Task, Steps
  <2>4. t.off + n <= MaxSize => TaskOK(u)
    BY <1>0, <2>2 DEF Task, TaskOK, Opened
  <2>5. QED  BY <2>2, <2>3, <2>4, LocalKeeps, IdleOK
<1>3. CASE DecompressOpen(w)
  BY <1>3, OpenKeeps DEF DecompressOpen, At
<1>4. CASE DecompressChunk(w)
  <2> DEFINE u == [t EXCEPT !.pc = "account", !.off = @ + t.n]
  <2>1. WriteTo(w, t.off + t.n, u) /\ t.op = "decompress" /\ t.pc = "copy"
    BY <1>4 DEF DecompressChunk, At
  <2>2. t.n \in Nat /\ t.off \in Nat /\ t.off + t.n \in 0 .. MaxSize /\ t.off + t.n \in Nat
    BY <1>0, <2>1 DEF Task, TaskOK
  <2>3. u \in Task
    BY <1>0, <2>2 DEF Task, Steps
  <2>4. TaskOK(u) /\ Opened(t)
    BY <1>0, <2>1, <2>2 DEF Task, TaskOK, Opened
  <2>5. QED  BY <2>1, <2>2, <2>3, <2>4, WriteKeeps
<1>4a. CASE \E n \in 0 .. MaxSize : DecompressFails(w, n)
  <2>1. PICK n \in 0 .. MaxSize : n \in Nat /\ DecompressFails(w, n)
    BY <1>4a
  <2> DEFINE end == IF n > 0 THEN t.off + n ELSE 0
  <2>2. WriteTo(w, end, Idle) /\ t.op = "decompress" /\ t.pc = "copy" /\ n < t.n
    BY <2>1 DEF DecompressFails, At
  <2>3. Opened(t) /\ end \in 0 .. MaxSize /\ end \in Nat
    BY <1>0, <2>1, <2>2 DEF Task, TaskOK, Opened
  <2> HIDE DEF end
  <2>4. QED  BY <2>2, <2>3, WriteKeeps, IdleOK
<1>5. CASE DecompressAccount(w)
  <2> DEFINE u == [t EXCEPT !.pc = "check", !.n = 0]
  <2>1. Charge(w, t.n, u) /\ t.n \in Int /\ t.op = "decompress" /\ t.pc = "account"
    BY <1>0, <1>5 DEF DecompressAccount, At, Task
  <2>2. u \in Task
    BY <1>0, ZeroTyped, Zenon DEF Task, Steps
  <2>3. TaskOK(u)
    BY <1>0, <2>1 DEF Task, TaskOK, Opened
  <2>4. QED  BY <2>1, <2>2, <2>3, ChargeKeeps
<1>6. QED  BY <1>1, <1>2, <1>3, <1>4, <1>4a, <1>5 DEF Decompress

\* The steps of Delete.
LEMMA DeleteKeeps ==
    ASSUME QuotaInv, NEW w \in Workers, Delete(w)
    PROVE  QuotaInv'
<1> DEFINE t == task[w]
<1>0. t \in Task /\ TaskOK(t) /\ SizeOf(t.f) \in 0 .. MaxSize /\ SizeOf(t.f) \in Nat
  BY QuotaFacts, SizeRange
<1>1. CASE \E f \in Files : Begin(w, "delete", "stat", f) \/ Begin(w, "deltree", "stat", f)
  BY <1>1, BeginKeeps DEF Ops
<1>2. CASE RemoveStat(w)
  <2> DEFINE u == [t EXCEPT !.pc = "unlink", !.cur = SizeOf(t.f)]
  <2>1. (Local(w, u) \/ Local(w, Idle)) /\ t.op = "delete" /\ t.pc = "stat"
    BY <1>2 DEF RemoveStat, At
  <2>2. u \in Task
    BY <1>0 DEF Task, Steps
  <2>3. TaskOK(u)
    BY <1>0, <2>1 DEF Task, TaskOK, Opened
  <2>4. QED  BY <2>1, <2>2, <2>3, LocalKeeps, IdleOK
<1>3. CASE RemoveUnlink(w)
  <2> DEFINE u == [t EXCEPT !.pc = "debit"]
  <2>1. /\ Unlink(w, t.f, u) \/ Unlink(w, t.f, Idle)
        /\ t.op \in {"delete", "compress"} /\ t.pc = "unlink"
    BY <1>3 DEF RemoveUnlink, At
  <2>2. u \in Task
    BY <1>0 DEF Task, Steps
  <2>3. TaskOK(u)
    BY <1>0, <2>1 DEF Task, TaskOK, Opened
  <2>4. QED  BY <2>1, <2>2, <2>3, UnlinkKeeps, IdleOK
<1>4. CASE RemoveFails(w)
  <2> DEFINE u == [t EXCEPT !.op = "deltree", !.pc = "stat", !.cur = 0]
  <2>1. Local(w, u) /\ t.op = "delete" /\ t.pc = "unlink"
    BY <1>4 DEF RemoveFails, At
  <2>2. u \in Task
    BY <1>0 DEF Task, Steps, Ops
  <2>3. TaskOK(u)
    BY <1>0, <2>1, DiskQuotaAssumption DEF Task, TaskOK, Opened
  <2>4. QED  BY <2>1, <2>2, <2>3, LocalKeeps
<1>5. CASE RemoveDebit(w)
  <2>1. Charge(w, -t.cur, Idle) /\ -t.cur \in Int
    BY <1>0, <1>5 DEF RemoveDebit, Task
  <2>2. QED  BY <2>1, ChargeKeeps, IdleOK
<1>6. CASE UnlinkatDebit(w)
  <2> DEFINE u == [t EXCEPT !.pc = "unlink", !.cur = SizeOf(t.f)]
  <2>1. Charge(w, -SizeOf(t.f), u) /\ -SizeOf(t.f) \in Int /\ t.op = "deltree" /\ t.pc = "stat"
    BY <1>0, <1>6 DEF UnlinkatDebit, At
  <2>2. u \in Task
    BY <1>0 DEF Task, Steps
  <2>3. TaskOK(u)
    BY <1>0, <2>1 DEF Task, TaskOK, Opened
  <2>4. QED  BY <2>1, <2>2, <2>3, ChargeKeeps
<1>7. CASE Unlinkat(w)
  BY <1>7, UnlinkKeeps, LocalKeeps, IdleOK DEF Unlinkat
<1>8. QED  BY <1>1, <1>2, <1>3, <1>4, <1>5, <1>6, <1>7 DEF Delete

\* The steps of an upload.
LEMMA UploadKeeps ==
    ASSUME QuotaInv, NEW w \in Workers, Upload(w)
    PROVE  QuotaInv'
<1> DEFINE t == task[w]
<1>0. /\ t \in Task /\ TaskOK(t) /\ SizeOf(t.f) \in 0 .. MaxSize /\ SizeOf(t.f) \in Nat
      /\ MaxSize \in Nat
  BY QuotaFacts, SizeRange, DiskQuotaAssumption
<1>1. CASE \E f \in Files : FilewriteBegin(w, f)
  BY <1>1, BeginKeeps DEF FilewriteBegin, Ops
<1>2. CASE TouchStat(w)
  <2> DEFINE u == [t EXCEPT !.pc = "open", !.cur = SizeOf(t.f)]
  <2>1. Local(w, u) /\ t.op = "handle" /\ t.pc = "stat"
    BY <1>2 DEF TouchStat, At
  <2>2. u \in Task
    BY <1>0 DEF Task, Steps
  <2>3. TaskOK(u)
    BY <1>0, <2>1 DEF Task, TaskOK, Opened
  <2>4. QED  BY <2>1, <2>2, <2>3, LocalKeeps
<1>3. CASE TouchOpen(w)
  BY <1>3, OpenKeeps DEF TouchOpen, At
<1>4. CASE \E off, len \in 0 .. MaxSize : ReserveDisk(w, off, len)
  <2>1. PICK off \in 0 .. MaxSize, len \in 0 .. MaxSize :
            off \in Nat /\ len \in Nat /\ ReserveDisk(w, off, len)
    BY <1>4
  <2> DEFINE v == [t EXCEPT !.off = off, !.len = len]
             u == [t EXCEPT !.off = off, !.len = len, !.pc = "write"]
  <2>2. /\ Charge(w, Growth(v), u) /\ off + len <= MaxSize
        /\ t.op = "handle" /\ t.pc = "ready"
    BY <2>1 DEF ReserveDisk, ChargeLocked, At
  <2>3. Growth(v) \in Int
    BY <1>0, <2>1 DEF Growth, Larger, Task
  <2>4. u \in Task
    BY <1>0, <2>1 DEF Task, Steps
  <2>5. TaskOK(u)
    BY <1>0, <2>1, <2>2 DEF Task, TaskOK, Opened
  <2>6. QED  BY <2>2, <2>3, <2>4, <2>5, ChargeKeeps
<1>5. CASE \E n \in 0 .. MaxSize : WriteAt(w, n)
  <2>1. PICK n \in 0 .. MaxSize : n \in Nat /\ n \in Int /\ WriteAt(w, n)
    BY <1>5
  <2> DEFINE u == [t EXCEPT !.pc = "adjust", !.n = n]
             end == IF n > 0 THEN t.off + n ELSE 0
  <2>2. WriteTo(w, end, u) /\ t.op = "handle" /\ t.pc = "write" /\ n <= t.len
    BY <2>1 DEF WriteAt, At
  <2>3. end \in 0 .. MaxSize
    BY <1>0, <2>1, <2>2 DEF Task, TaskOK
  <2>4. u \in Task
    BY <1>0, <2>1, ZeroTyped, Zenon DEF Task, Steps
  <2>5. TaskOK(u) /\ Opened(t)
    BY <1>0, <2>1, <2>2 DEF Task, TaskOK, Opened
  <2> HIDE DEF end
  <2>6. QED  BY <2>2, <2>3, <2>4, <2>5, WriteKeeps
<1>6. CASE AdjustDisk(w)
  <2> DEFINE size == IF t.n > 0 THEN Larger(t.cur, t.off + t.n) ELSE t.cur
             u == [t EXCEPT !.pc = "ready", !.cur = size, !.off = 0, !.len = 0, !.n = 0]
  <2>1. /\ Charge(w, (size - t.cur) - Growth(t), u)
        /\ t.op = "handle" /\ t.pc = "adjust"
    BY <1>6 DEF AdjustDisk, ChargeLocked, At
  <2>2. size \in Nat /\ size <= MaxSize
    BY <1>0, <2>1 DEF Task, TaskOK, Larger
  <2> HIDE DEF size
  <2>3. (size - t.cur) - Growth(t) \in Int
    BY <1>0, <2>2 DEF Growth, Larger, Task
  <2>4. u \in Task
    BY <1>0, <2>2, ZeroTyped, Zenon DEF Task, Steps
  <2>5. TaskOK(u)
    BY <1>0, <2>1, <2>2 DEF Task, TaskOK, Opened
  <2>6. QED  BY <2>1, <2>3, <2>4, <2>5, ChargeKeeps
<1>7. CASE CloseStat(w)
  <2> DEFINE n == bytes[t.ino] - t.cur
             u == [t EXCEPT !.pc = "settle", !.n = n]
  <2>1. Local(w, u) /\ t.op = "handle" /\ t.pc = "ready"
    BY <1>7 DEF CloseStat, At
  <2>2. t.ino \in Inodes /\ t.cur \in Nat
    BY <1>0, <2>1 DEF Task, TaskOK, Opened
  <2>3. n \in Int /\ n >= -t.cur
    BY <1>0, <2>2, QuotaFacts
  <2> HIDE DEF n
  <2>4. u \in Task
    BY <1>0, <2>3, ZeroTyped, Zenon DEF Task, Steps
  <2>5. TaskOK(u)
    BY <1>0, <2>1, <2>3 DEF Task, TaskOK, Opened
  <2>6. QED  BY <2>1, <2>4, <2>5, LocalKeeps
<1>8. CASE CloseSettle(w)
  <2>1. Charge(w, t.n, Idle) /\ t.n \in Int
    BY <1>0, <1>8 DEF CloseSettle, ChargeLocked, Task
  <2>2. QED  BY <2>1, ChargeKeeps, IdleOK
<1>9. QED  BY <1>1, <1>2, <1>3, <1>4, <1>5, <1>6, <1>7, <1>8 DEF Upload

\* What a walk has added up, and could still find, fits the counter.
LEMMA WalkBound ==
    ASSUME NEW todo \in SUBSET Files, NEW f \in todo, NEW s \in 0 .. MaxSize, NEW acc \in Nat,
           acc + Cardinality(todo) * MaxSize <= Cardinality(Files) * MaxSize
    PROVE  acc + s + Cardinality(todo \ {f}) * MaxSize <= Cardinality(Files) * MaxSize
<1>1. IsFiniteSet(todo)
  BY DiskQuotaAssumption, FS_Subset
<1>2. Cardinality(todo \ {f}) = Cardinality(todo) - 1 /\ Cardinality(todo) \in Nat
  BY <1>1, FS_RemoveElement, FS_CardinalityType
<1>3. Cardinality(Files) \in Nat /\ MaxSize \in Nat
  BY DiskQuotaAssumption, FS_CardinalityType
<1> DEFINE c == Cardinality(todo)
<1>4. (c - 1) * MaxSize = c * MaxSize - MaxSize
  BY <1>2, <1>3
<1>5. c * MaxSize \in Int /\ Cardinality(Files) * MaxSize \in Int
  BY <1>2, <1>3
<1>6. QED  BY <1>2, <1>3, <1>4, <1>5

\* All files, and one more for each operation, can be counted.
LEMMA FilesFit ==
    /\ Cardinality(Files) \in Nat /\ Cardinality(Workers) \in Nat
    /\ Cardinality(Files) * MaxSize \in Nat /\ Cardinality(Workers) * MaxSize \in Nat
    /\ Cardinality(Files) * MaxSize + Cardinality(Workers) * MaxSize <= MaxInt64
<1>1. Cardinality(Files) \in Nat /\ Cardinality(Workers) \in Nat /\ MaxSize \in Nat
  BY DiskQuotaAssumption, FS_CardinalityType
<1>2. (Cardinality(Files) + Cardinality(Workers)) * MaxSize
        = Cardinality(Files) * MaxSize + Cardinality(Workers) * MaxSize
  BY <1>1
<1>3. Cardinality(Files) * MaxSize \in Nat /\ Cardinality(Workers) * MaxSize \in Nat
  BY <1>1
<1>4. QED  BY <1>1, <1>2, <1>3, DiskQuotaAssumption

\* The steps of updateCachedDiskUsage.
LEMMA WalkKeeps ==
    ASSUME QuotaInv, NEW w \in Workers, Walk(w)
    PROVE  QuotaInv'
<1> DEFINE t == task[w]
<1>0. t \in Task /\ TaskOK(t) /\ MaxSize \in Nat
  BY QuotaFacts, DiskQuotaAssumption
<1>1. CASE \E stale \in BOOLEAN : DiskUsage(w, stale)
  BY <1>1, BeginKeeps DEF DiskUsage, Ops
<1>2. CASE WalkLock(w)
  <2> DEFINE u == [t EXCEPT !.pc = "visit", !.todo = Linked]
  <2>1. /\ task' = [task EXCEPT ![w] = u] /\ mu' = w
        /\ UNCHANGED <<link, bytes, usage, limit, looked, ops>>
        /\ t.op \in {"walk", "handle"} /\ t.pc = "lock"
    BY <1>2 DEF WalkLock, Walking, QuotaInv, TypeOK
  <2>2. u \in Task
    BY <1>0 DEF Task, Steps, Linked
  <2>3. Cardinality(Linked) * MaxSize <= Cardinality(Files) * MaxSize
    <3>1. Cardinality(Linked) <= Cardinality(Files)
      BY DiskQuotaAssumption, FS_Subset DEF Linked
    <3>2. Cardinality(Linked) \in Nat /\ Cardinality(Files) \in Nat
      BY DiskQuotaAssumption, FS_Subset, FS_CardinalityType DEF Linked
    <3>3. QED  BY <1>0, <3>1, <3>2
  <2>4. Cardinality(Linked) * MaxSize \in Int
    <3>1. Cardinality(Linked) \in Nat
      BY DiskQuotaAssumption, FS_Subset, FS_CardinalityType DEF Linked
    <3>2. QED  BY <1>0, <3>1
  <2>5. /\ u.op = t.op /\ u.pc = "visit" /\ u.f = t.f /\ u.to = t.to /\ u.ino = None
        /\ u.cur = t.cur /\ u.n = t.n /\ u.off = t.off /\ u.len = t.len
        /\ u.todo = Linked /\ u.acc = 0
    BY <1>0, <2>1 DEF Task, TaskOK
  <2> HIDE DEF u
  <2>6. TaskOK(u)
    BY <1>0, <2>1, <2>3, <2>4, <2>5 DEF TaskOK, Opened
  <2>7. u.ino = t.ino
    BY <1>0, <2>1, <2>5 DEF TaskOK
  <2>8. QED  BY <2>1, <2>2, <2>6, <2>7, TaskStepKeeps DEF QuotaInv, TypeOK
<1>3. CASE \E f \in Files : WalkVisit(w, f)
  <2>1. PICK f \in Files : WalkVisit(w, f)
    BY <1>3
  <2> DEFINE u == [t EXCEPT !.todo = @ \ {f}, !.acc = @ + SizeOf(f)]
             v == [t EXCEPT !.todo = {}]
  <2>2. /\ Local(w, u) \/ Local(w, v)
        /\ t.op \in {"walk", "handle"} /\ t.pc = "visit" /\ f \in t.todo
    BY <2>1 DEF WalkVisit, Walking
  <2>3. /\ t.acc \in Nat /\ t.todo \in SUBSET Files
        /\ SizeOf(f) \in 0 .. MaxSize /\ t.acc + SizeOf(f) \in Nat
    BY <1>0, SizeRange DEF Task
  <2>4. u \in Task /\ v \in Task
    BY <1>0, <2>3 DEF Task
  <2>5. t.acc + SizeOf(f) + Cardinality(t.todo \ {f}) * MaxSize <= Cardinality(Files) * MaxSize
    BY <1>0, <2>2, <2>3, WalkBound DEF TaskOK
  <2>6. t.acc + Cardinality({}) * MaxSize <= Cardinality(Files) * MaxSize
    <3>1. Cardinality(t.todo) \in Nat /\ IsFiniteSet(t.todo)
      BY <2>3, DiskQuotaAssumption, FS_Subset, FS_CardinalityType
    <3>2. Cardinality(t.todo) * MaxSize \in Nat
      BY <1>0, <3>1
    <3>3. Cardinality({}) * MaxSize = 0
      BY <1>0, FS_EmptySet
    <3>4. t.acc + Cardinality(t.todo) * MaxSize <= Cardinality(Files) * MaxSize
      BY <1>0, <2>2 DEF TaskOK
    <3>5. QED  BY <2>3, <3>2, <3>3, <3>4, FilesFit
  <2>7. TaskOK(u)
    <3>1. /\ u.op = t.op /\ u.pc = t.pc /\ u.f = t.f /\ u.to = t.to /\ u.ino = t.ino
          /\ u.cur = t.cur /\ u.n = t.n /\ u.off = t.off /\ u.len = t.len
          /\ u.todo = t.todo \ {f} /\ u.acc = t.acc + SizeOf(f)
      BY <1>0 DEF Task
    <3> HIDE DEF u
    <3>2. QED  BY <1>0, <2>2, <2>5, <3>1 DEF TaskOK, Opened
  <2>8. TaskOK(v)
    <3>1. /\ v.op = t.op /\ v.pc = t.pc /\ v.f = t.f /\ v.to = t.to /\ v.ino = t.ino
          /\ v.cur = t.cur /\ v.n = t.n /\ v.off = t.off /\ v.len = t.len
          /\ v.todo = {} /\ v.acc = t.acc
      BY <1>0 DEF Task
    <3> HIDE DEF v
    <3>2. QED  BY <1>0, <2>2, <2>6, <3>1 DEF TaskOK, Opened
  <2>9. QED  BY <2>2, <2>4, <2>7, <2>8, LocalKeeps
<1>4. CASE WalkStore(w)
  <2> DEFINE u == IF t.op = "handle" /\ HasSpace(t.acc, limit)
                  THEN [t EXCEPT !.pc = "stat", !.acc = 0] ELSE Idle
  <2>1. /\ task' = [task EXCEPT ![w] = u]
        /\ looked' = TRUE /\ usage' = t.acc /\ mu' = None /\ UNCHANGED <<link, bytes, limit, ops>>
        /\ t.op \in {"walk", "handle"} /\ t.pc = "visit" /\ t.todo = {}
    BY <1>4 DEF WalkStore, Walking
  <2>2. t.acc \in 0 .. MaxInt64
    <3>1. Cardinality({}) * MaxSize = 0
      BY <1>0, FS_EmptySet
    <3>2. t.acc <= Cardinality(Files) * MaxSize /\ t.acc \in Nat
      BY <1>0, <2>1, <3>1 DEF TaskOK, Task
    <3>3. QED  BY <3>2, FilesFit, QuotaAssumption
  <2>3. u \in Task
    <3>1. [t EXCEPT !.pc = "stat", !.acc = 0] \in Task
      BY <1>0, ZeroTyped, Zenon DEF Task, Steps
    <3>2. QED  BY <3>1, IdleOK
  <2>4. TaskOK(u)
    BY <1>0, <2>1, IdleOK DEF Task, TaskOK, Opened
  <2>5. u.ino = t.ino
    BY <1>0, <2>1 DEF TaskOK, Task, Idle
  <2> HIDE DEF u
  <2>6. QED  BY <2>1, <2>2, <2>3, <2>4, <2>5, TaskStepKeeps DEF QuotaInv, TypeOK
<1>5. QED  BY <1>1, <1>2, <1>3, <1>4 DEF Walk

\* The writers nobody counts.
LEMMA UntrackedKeeps ==
    ASSUME QuotaInv, NEW f \in Files, NEW s \in 0 .. MaxSize, Untracked(f, s)
    PROVE  QuotaInv'
<1> DEFINE i == IF f \in Linked THEN link[f] ELSE FreeInode
<1>1. /\ ops < MaxOps /\ ops' = ops + 1
      /\ link' = [link EXCEPT ![f] = i] /\ bytes' = [bytes EXCEPT ![i] = s]
      /\ UNCHANGED <<usage, limit, mu, looked, task>>
  BY DEF Untracked
<1>2. i \in Inodes /\ \A g \in Files \ {f} : link[g] # i
  BY OpenInode
<1>3. f \in Linked => i = link[f]
  OBVIOUS
<1> HIDE DEF i
<1>4. ops' \in 0 .. MaxOps
  BY <1>1, DiskQuotaAssumption DEF QuotaInv, TypeOK
<1>5. link' \in [Files -> Inodes \cup {None}] /\ bytes' \in [Inodes -> 0 .. MaxSize]
  BY <1>1, <1>2, QuotaFacts
<1>6. bytes' \in [Inodes -> Nat]
  BY <1>5
<1>7. TypeOK'
  BY <1>1, <1>4, <1>5, <1>6 DEF QuotaInv, TypeOK
<1>8. OneName(link')
  BY <1>1, <1>2, QuotaFacts DEF OneName
<1>9. \A j \in Inodes \ Held(link', task') : bytes'[j] = 0
  <2> SUFFICES ASSUME NEW j \in Inodes, j \notin Held(link', task') PROVE bytes'[j] = 0
    OBVIOUS
  <2>1. link'[f] = i
    BY <1>1, QuotaFacts
  <2>2. j # i
    BY <2>1 DEF Held
  <2>3. j \notin Held(link, task)
    <3>1. \A g \in Files : link[g] # j
      <4>1. \A g \in Files \ {f} : link'[g] = link[g] /\ link'[g] # j
        BY <1>1, QuotaFacts DEF Held
      <4>2. link[f] # j
        BY <1>3, <2>2 DEF Linked, Inodes, None
      <4>3. QED  BY <4>1, <4>2
    <3>2. \A w \in Workers : task[w].ino # j
      BY <1>1 DEF Held
    <3>3. QED  BY <3>1, <3>2 DEF Held
  <2>4. QED  BY <1>1, <2>2, <2>3, QuotaFacts DEF QuotaInv, DiskOK
<1>10. DiskOK'
  BY <1>5, <1>8, <1>9 DEF DiskOK, OneName, Held
<1>11. \A w \in Workers : TaskOK(task[w])'
  BY <1>1 DEF QuotaInv, TaskOK, Opened
<1>12. QED  BY <1>7, <1>10, <1>11 DEF QuotaInv

\* Every step keeps the invariant of DiskQuota.
LEMMA QuotaStep == QuotaInv /\ [Next]_vars => QuotaInv'
<1> SUFFICES ASSUME QuotaInv, [Next]_vars PROVE QuotaInv'
  OBVIOUS
<1>1. CASE \E w \in Workers : Work(w)
  BY <1>1, WriteFileKeeps, CopyFileKeeps, RenameKeeps, CompressKeeps, DecompressKeeps,
     DeleteKeeps, UploadKeeps, WalkKeeps DEF Work
<1>2. CASE \E l \in Limits : SetDiskLimit(l)
  <2>1. limit' \in Limits /\ UNCHANGED <<link, bytes, usage, mu, looked, task, ops>>
    BY <1>2 DEF SetDiskLimit
  <2>2. TypeOK' /\ DiskOK'
    BY <2>1 DEF QuotaInv, TypeOK, DiskOK, OneName, Held
  <2>3. QED  BY <2>1, <2>2 DEF QuotaInv, TaskOK, Opened
<1>3. CASE \E f \in Files, s \in 0 .. MaxSize : Untracked(f, s)
  BY <1>3, UntrackedKeeps
<1>4. CASE UNCHANGED vars
  <2>1. TypeOK' /\ DiskOK'
    BY <1>4 DEF vars, QuotaInv, TypeOK, DiskOK, OneName, Held
  <2>2. QED  BY <1>4, <2>1 DEF vars, QuotaInv, TaskOK, Opened
<1>5. QED  BY <1>1, <1>2, <1>3, <1>4 DEF Next

\* It holds initially.
LEMMA QuotaInit == Init => QuotaInv
<1> SUFFICES ASSUME Init PROVE QuotaInv
  OBVIOUS
<1>1. task \in [Workers -> Task] /\ \A w \in Workers : task[w] = Idle
  BY IdleOK DEF Init
<1>2. TypeOK
  <2>1. link \in [Files -> Inodes \cup {None}] /\ bytes \in [Inodes -> Nat]
    BY DEF Init
  <2>2. usage \in 0 .. MaxInt64 /\ ops \in 0 .. MaxOps
    BY QuotaAssumption, DiskQuotaAssumption DEF Init
  <2>3. limit \in Limits /\ mu \in Workers \cup {None} /\ looked \in BOOLEAN
    BY DEF Init
  <2>4. QED  BY <1>1, <2>1, <2>2, <2>3 DEF TypeOK
<1>3. DiskOK
  BY DiskQuotaAssumption DEF Init, DiskOK, OneName
<1>4. QED  BY <1>1, <1>2, <1>3, IdleOK DEF QuotaInv

\* The state of the quota stays typed: the tracked usage never leaves the range
\* of the counter, a name always leads to an inode, and there is always an inode
\* left for a file that is created.
THEOREM TypeCorrect == Spec => []TypeOK
<1>1. QuotaInv => TypeOK
  BY DEF QuotaInv
<1>2. QED  BY <1>1, QuotaInit, QuotaStep, PTL DEF Spec
------------------------------------------------------------------------------
(***************************************************************************)
(* What the kinds of steps do to the names and the sizes of the files.     *)
(***************************************************************************)
Same(f) == link'[f] = link[f] /\ Sizes'[f] = Sizes[f]

\* What a step does to the state, told by the sizes under the names.
LEMMA EffectFacts ==
    ASSUME QuotaInv, NEW w \in Workers, NEW l \in [Files -> Inodes \cup {None}], NEW b, NEW u, NEW t,
           Effect(w, l, b, u, t)
    PROVE  /\ link' = l /\ usage' = u /\ UNCHANGED <<limit, mu, looked, ops>>
           /\ task'[w] = t /\ \A v \in Workers \ {w} : task'[v] = task[v]
           /\ \A f \in Files : Sizes'[f] = IF l[f] # None THEN b[l[f]] ELSE 0
<1>1. /\ link' = l /\ usage' = u /\ task' = [task EXCEPT ![w] = t]
      /\ bytes' = [i \in Inodes |-> IF i \in Held(link', task') THEN b[i] ELSE 0]
      /\ UNCHANGED <<limit, mu, looked, ops>>
  BY DEF Effect
<1>2. task \in [Workers -> Task]
  BY DEF QuotaInv, TypeOK
<1>3. ASSUME NEW f \in Files PROVE Sizes'[f] = IF l[f] # None THEN b[l[f]] ELSE 0
  <2>1. l[f] \in Held(link', task')
    BY <1>1 DEF Held
  <2>2. l[f] # None => l[f] \in Inodes
    OBVIOUS
  <2>3. Sizes'[f] = IF l[f] # None THEN bytes'[l[f]] ELSE 0
    BY <1>1 DEF Sizes, SizeOf, Linked
  <2>4. QED  BY <1>1, <2>1, <2>2, <2>3
<1>4. QED  BY <1>1, <1>2, <1>3

\* A step that leaves the disk alone.
LEMMA LocalFacts ==
    ASSUME QuotaInv, NEW w \in Workers, NEW u, NEW t, Effect(w, link, bytes, u, t)
    PROVE  /\ \A f \in Files : Same(f)
           /\ usage' = u /\ task'[w] = t /\ \A v \in Workers \ {w} : task'[v] = task[v]
<1>1. link \in [Files -> Inodes \cup {None}]
  BY QuotaFacts
<1>2. /\ link' = link /\ usage' = u /\ task'[w] = t /\ \A v \in Workers \ {w} : task'[v] = task[v]
      /\ \A f \in Files : Sizes'[f] = IF link[f] # None THEN bytes[link[f]] ELSE 0
  BY <1>1, EffectFacts
<1>3. \A f \in Files : Sizes'[f] = Sizes[f]
  BY <1>2 DEF Sizes, SizeOf, Linked
<1>4. QED  BY <1>2, <1>3 DEF Same

\* A write to the open file, which is still under the name of the operation.
LEMMA WriteFacts ==
    ASSUME QuotaInv, NEW w \in Workers, NEW end, NEW t, WriteTo(w, end, t),
           NEW f \in Files, task[w].ino \in Inodes, link[f] = task[w].ino
    PROVE  /\ \A g \in Files \ {f} : Same(g)
           /\ link' = link /\ Sizes'[f] = Larger(Sizes[f], end)
           /\ usage' = usage /\ task'[w] = t /\ \A v \in Workers \ {w} : task'[v] = task[v]
<1> DEFINE i == task[w].ino
           b == [bytes EXCEPT ![i] = Larger(@, end)]
<1>1. Effect(w, link, b, usage, t)
  BY DEF WriteTo, Disk
<1>2. /\ link \in [Files -> Inodes \cup {None}] /\ OneName(link)
      /\ bytes \in [Inodes -> 0 .. MaxSize] /\ i # None
  BY QuotaFacts DEF Inodes, None
<1> HIDE DEF b
<1>3. /\ link' = link /\ usage' = usage /\ task'[w] = t /\ \A v \in Workers \ {w} : task'[v] = task[v]
      /\ \A g \in Files : Sizes'[g] = IF link[g] # None THEN b[link[g]] ELSE 0
  BY <1>1, <1>2, EffectFacts
<1>4. \A g \in Files : Sizes[g] = IF link[g] # None THEN bytes[link[g]] ELSE 0
  BY DEF Sizes, SizeOf, Linked
<1>5. b[i] = Larger(bytes[i], end) /\ \A j \in Inodes \ {i} : b[j] = bytes[j]
  BY <1>2 DEF b
<1>6. Sizes'[f] = Larger(Sizes[f], end)
  BY <1>2, <1>3, <1>4, <1>5
<1>7. ASSUME NEW g \in Files \ {f} PROVE Sizes'[g] = Sizes[g]
  <2>1. link[g] # i
    BY <1>2 DEF OneName
  <2>2. QED  BY <1>2, <1>3, <1>4, <1>5, <2>1
<1>8. QED  BY <1>3, <1>6, <1>7 DEF Same

\* Opening a file: it exists afterwards, under the inode that the operation holds.
InodeFor(f) == IF f \in Linked THEN link[f] ELSE FreeInode

Opens(w, pc, f, s) ==
    Effect(w, [link EXCEPT ![f] = InodeFor(f)], [bytes EXCEPT ![InodeFor(f)] = s], usage,
           [task[w] EXCEPT !.pc = pc, !.f = f, !.ino = InodeFor(f)])

HasOpened(w, pc, f, s) ==
    /\ \A g \in Files \ {f} : Same(g)
    /\ Sizes'[f] = s /\ link'[f] \in Inodes
    /\ task'[w] = [task[w] EXCEPT !.pc = pc, !.f = f, !.ino = link'[f]]
    /\ usage' = usage /\ \A v \in Workers \ {w} : task'[v] = task[v]

\* Opening, whatever size it leaves the file.
LEMMA OpenFacts ==
    ASSUME QuotaInv, NEW w \in Workers, NEW pc, NEW f \in Files, NEW s, Opens(w, pc, f, s)
    PROVE  HasOpened(w, pc, f, s)
<1> DEFINE i == InodeFor(f)
           l == [link EXCEPT ![f] = i]
           b == [bytes EXCEPT ![i] = s]
           t == [task[w] EXCEPT !.pc = pc, !.f = f, !.ino = i]
<1>1. Effect(w, l, b, usage, t)
  BY DEF Opens
<1>2. i \in Inodes /\ (\A g \in Files \ {f} : link[g] # i)
  BY OpenInode DEF InodeFor
<1>3. /\ link \in [Files -> Inodes \cup {None}] /\ bytes \in [Inodes -> 0 .. MaxSize]
      /\ i # None
  BY <1>2, QuotaFacts DEF Inodes, None
<1> HIDE DEF i
<1>4. l \in [Files -> Inodes \cup {None}]
  BY <1>2, <1>3
<1>5. l[f] = i /\ \A g \in Files \ {f} : l[g] = link[g]
  BY <1>3
<1>6. b[i] = s /\ \A j \in Inodes \ {i} : b[j] = bytes[j]
  BY <1>2, <1>3
<1> HIDE DEF l, b, t
<1>7. /\ link' = l /\ usage' = usage /\ task'[w] = t /\ \A v \in Workers \ {w} : task'[v] = task[v]
      /\ \A g \in Files : Sizes'[g] = IF l[g] # None THEN b[l[g]] ELSE 0
  BY <1>1, <1>4, EffectFacts
<1>8. Sizes'[f] = s
  BY <1>3, <1>5, <1>6, <1>7
<1>9. ASSUME NEW g \in Files \ {f} PROVE Same(g)
  <2>1. Sizes[g] = IF link[g] # None THEN bytes[link[g]] ELSE 0
    BY DEF Sizes, SizeOf, Linked
  <2>2. QED  BY <1>2, <1>3, <1>5, <1>6, <1>7, <2>1 DEF Same
<1>10. link'[f] = i
  BY <1>5, <1>7
<1>11. task'[w] = [task[w] EXCEPT !.pc = pc, !.f = f, !.ino = link'[f]]
  BY <1>7, <1>10 DEF t
<1>12. QED  BY <1>2, <1>7, <1>8, <1>9, <1>10, <1>11 DEF HasOpened

\* Opening with O_TRUNC.
LEMMA OpenTruncates ==
    ASSUME QuotaInv, NEW w \in Workers, NEW pc,
           NEW f \in Files, f = task[w].f, OpenFile(w, task[w].f, TRUE, pc)
    PROVE  HasOpened(w, pc, f, 0)
<1>1. Opens(w, pc, f, 0)
  BY DEF Opens, OpenFile, Disk, Effect, InodeFor
<1>2. QED  BY <1>1, OpenFacts

\* Opening without.
LEMMA OpenInPlace ==
    ASSUME QuotaInv, NEW w \in Workers, NEW pc,
           NEW f \in Files, f = task[w].f, OpenFile(w, task[w].f, FALSE, pc)
    PROVE  \E s : s = Sizes[f] /\ HasOpened(w, pc, f, s)
<1> DEFINE i == InodeFor(f)
<1>1. i \in Inodes /\ (f \notin Linked => i \notin Held(link, task))
  BY OpenInode DEF InodeFor
<1>2. bytes[i] = Sizes[f]
  <2>1. CASE f \in Linked
    BY <2>1 DEF InodeFor, Sizes, SizeOf
  <2>2. CASE f \notin Linked
    BY <1>1, <2>2 DEF QuotaInv, DiskOK, Sizes, SizeOf
  <2>3. QED  BY <2>1, <2>2
<1>3. PICK s : s = bytes[i]
  OBVIOUS
<1>4. Opens(w, pc, f, s)
  BY <1>3 DEF Opens, OpenFile, Disk, Effect, InodeFor
<1>5. QED  BY <1>2, <1>3, <1>4, OpenFacts

\* Unlinking a file.
LEMMA UnlinkFacts ==
    ASSUME QuotaInv, NEW w \in Workers, NEW f \in Files, f = task[w].f, NEW t,
           Unlink(w, task[w].f, t)
    PROVE  /\ \A g \in Files \ {f} : Same(g)
           /\ link'[f] = None /\ Sizes'[f] = 0
           /\ usage' = usage /\ task'[w] = t /\ \A v \in Workers \ {w} : task'[v] = task[v]
<1> DEFINE l == IF f \in Linked THEN [link EXCEPT ![f] = None] ELSE link
<1>1. Effect(w, l, bytes, usage, t)
  BY DEF Unlink, Disk, Effect
<1>2. /\ link \in [Files -> Inodes \cup {None}]
      /\ l \in [Files -> Inodes \cup {None}]
  BY QuotaFacts
<1>3. l[f] = None /\ \A g \in Files \ {f} : l[g] = link[g]
  BY <1>2 DEF Linked
<1> HIDE DEF l
<1>4. /\ link' = l /\ usage' = usage /\ task'[w] = t /\ \A v \in Workers \ {w} : task'[v] = task[v]
      /\ \A g \in Files : Sizes'[g] = IF l[g] # None THEN bytes[l[g]] ELSE 0
  BY <1>1, <1>2, EffectFacts
<1>5. ASSUME NEW g \in Files \ {f} PROVE Same(g)
  BY <1>3, <1>4 DEF Same, Sizes, SizeOf, Linked
<1>6. QED  BY <1>3, <1>4, <1>5

\* Renaming a file to a name that is free.
LEMMA RenameFacts ==
    ASSUME QuotaInv, NEW w \in Workers, Renameat(w),
           NEW f \in Linked, NEW to \in Files \ Linked, f = task[w].f, to = task[w].to
    PROVE  /\ \A g \in Files \ {f, to} : Same(g)
           /\ Sizes'[f] = 0 /\ Sizes'[to] = Sizes[f]
           /\ usage' = usage /\ task'[w] = Idle /\ \A v \in Workers \ {w} : task'[v] = task[v]
<1> DEFINE l == [link EXCEPT ![to] = link[f], ![f] = None]
<1>1. Effect(w, l, bytes, usage, Idle)
  BY DEF Renameat, Disk
<1>2. link \in [Files -> Inodes \cup {None}] /\ f \in Files /\ to \in Files /\ f # to
  BY QuotaFacts DEF Linked
<1>3. /\ l \in [Files -> Inodes \cup {None}]
      /\ l[f] = None /\ l[to] = link[f] /\ \A g \in Files \ {f, to} : l[g] = link[g]
  BY <1>2
<1> HIDE DEF l
<1>4. /\ link' = l /\ usage' = usage /\ task'[w] = Idle /\ \A v \in Workers \ {w} : task'[v] = task[v]
      /\ \A g \in Files : Sizes'[g] = IF l[g] # None THEN bytes[l[g]] ELSE 0
  BY <1>1, <1>3, EffectFacts
<1>5. ASSUME NEW g \in Files \ {f, to} PROVE Same(g)
  BY <1>3, <1>4 DEF Same, Sizes, SizeOf, Linked
<1>6. Sizes'[f] = 0 /\ Sizes'[to] = Sizes[f]
  BY <1>2, <1>3, <1>4 DEF Sizes, SizeOf, Linked
<1>7. QED  BY <1>4, <1>5, <1>6
------------------------------------------------------------------------------
(***************************************************************************)
(* What an operation owes, told from the size z of the file under its name *)
(* instead of the inode it has open.                                       *)
(***************************************************************************)
Due(t, z) ==
    CASE t.op = "write" /\ t.pc \in {"copy", "account"}    -> t.cur - t.n
      [] t.op = "copy" /\ t.pc = "account"                 -> -t.n
      [] t.op = "decompress" /\ t.pc = "account"           -> -t.n
      [] t.op = "compress" /\ t.pc \in {"check", "unlink"} -> -t.n
      [] t.op = "delete" /\ t.pc = "debit"                 -> t.cur
      [] t.op = "deltree" /\ t.pc = "unlink"               -> -t.cur
      [] t.op = "handle" /\ t.pc \in {"ready", "write", "adjust"} ->
                                          t.cur + Growth(t) - z[t.f]
      [] t.op = "handle" /\ t.pc = "settle"                -> -t.n
      [] OTHER -> 0

\* An operation owes no more than a file can hold, and if bytes are not counted
\* yet then they are in its file.
LEMMA DueRange ==
    ASSUME NEW t \in Task, TaskOK(t), NEW l, NEW z \in [Files -> 0 .. MaxSize], OwnOK(t, l, z)
    PROVE  /\ Due(t, z) \in Int /\ Due(t, z) <= MaxSize
           /\ Due(t, z) < 0 => t.f \in Files /\ Due(t, z) + z[t.f] >= 0 /\ t.op # "none"
           /\ t.op = "handle" => Due(t, z) >= 0
<1>0. /\ t.cur \in Nat /\ t.n \in Int /\ t.off \in Nat /\ t.len \in Nat /\ MaxSize \in Nat
      /\ t.f \in Files => z[t.f] \in 0 .. MaxSize
  BY DiskQuotaAssumption DEF Task
<1>1. CASE t.op = "write"
  BY <1>0, <1>1 DEF Due, TaskOK, OwnOK, WriteOK
<1>2. CASE t.op = "copy"
  BY <1>0, <1>2 DEF Due, TaskOK, OwnOK, CopyOK
<1>3. CASE t.op = "decompress"
  BY <1>0, <1>3 DEF Due, TaskOK, OwnOK, DecompressOK
<1>4. CASE t.op = "compress"
  BY <1>0, <1>4 DEF Due, TaskOK, OwnOK, CompressOK
<1>5. CASE t.op \in {"delete", "deltree"}
  <2>1. CASE t.op = "delete"
    BY <1>0, <2>1 DEF Due, TaskOK, OwnOK, DeleteOK
  <2>2. CASE t.op = "deltree"
    BY <1>0, <2>2 DEF Due, TaskOK, OwnOK, DeleteOK
  <2>3. QED  BY <1>5, <2>1, <2>2
<1>6. CASE t.op = "handle"
  <2>1. CASE t.pc \in {"ready", "write", "adjust"}
    <3>1. Due(t, z) = t.cur + Growth(t) - z[t.f]
      BY <1>6, <2>1 DEF Due
    <3>2. /\ t.f \in Files /\ t.cur <= MaxSize /\ t.off + t.len <= MaxSize /\ t.n \in Nat
          /\ t.pc = "adjust" => t.n <= t.len
      BY <1>0, <1>6, <2>1 DEF TaskOK
    <3>3. z[t.f] <= t.cur + Growth(t) /\ Growth(t) \in Nat /\ t.cur + Growth(t) <= MaxSize
      BY <1>0, <1>6, <2>1, <3>2 DEF OwnOK, UploadOK, Growth, Larger
    <3>4. QED  BY <1>0, <3>1, <3>2, <3>3
  <2>2. CASE t.pc = "settle"
    BY <1>0, <1>6, <2>2 DEF Due, TaskOK, OwnOK, UploadOK
  <2>3. CASE t.pc \notin {"ready", "write", "adjust", "settle"}
    BY <1>0, <1>6, <2>3 DEF Due
  <2>4. QED  BY <2>1, <2>2, <2>3
<1>7. CASE t.op \notin {"write", "copy", "decompress", "compress", "delete", "deltree", "handle"}
  <2>1. Due(t, z) = 0
    BY <1>7 DEF Due
  <2>2. QED  BY <1>0, <1>7, <2>1
<1>8. QED  BY <1>1, <1>2, <1>3, <1>4, <1>5, <1>6, <1>7

\* The sizes of the files.
LEMMA SizesTyped ==
    ASSUME QuotaInv
    PROVE  Sizes \in [Files -> 0 .. MaxSize]
BY SizeRange DEF Sizes

\* The same after a step.
LEMMA SizesTypedNext ==
    ASSUME QuotaInv'
    PROVE  Sizes' \in [Files -> 0 .. MaxSize]
BY DiskQuotaAssumption DEF QuotaInv, TypeOK, DiskOK, Sizes, SizeOf, Linked

\* An operation that has its file to itself has the inode of its file open.
LEMMA OwesDue ==
    ASSUME QuotaInv, NEW w \in Workers, OwnOK(task[w], link, Sizes)
    PROVE  Owes(task[w]) = Due(task[w], Sizes)
<1> DEFINE t == task[w]
<1>1. t \in Task /\ TaskOK(t)
  BY QuotaFacts
<1>2. CASE t.op = "handle" /\ t.pc \in {"ready", "write", "adjust"}
  <2>1. link[t.f] = t.ino /\ t.f \in Files /\ t.ino \in Inodes
    BY <1>1, <1>2 DEF OwnOK, UploadOK, TaskOK, Opened
  <2>2. Sizes[t.f] = bytes[t.ino]
    BY <2>1 DEF Sizes, SizeOf, Linked, Inodes, None
  <2>3. QED  BY <1>2, <2>2 DEF Owes, Due
<1>3. CASE ~(t.op = "handle" /\ t.pc \in {"ready", "write", "adjust"})
  BY <1>3 DEF Owes, Due
<1>4. QED  BY <1>2, <1>3

\* The same after a step.
LEMMA OwesDueNext ==
    ASSUME QuotaInv', NEW w \in Workers, OwnOK(task'[w], link', Sizes')
    PROVE  (Owes(task[w]))' = Due(task'[w], Sizes')
<1> DEFINE t == task'[w]
<1>1. t \in Task /\ TaskOK(t)
  BY DEF QuotaInv, TypeOK, TaskOK, Opened
<1>2. CASE t.op = "handle" /\ t.pc \in {"ready", "write", "adjust"}
  <2>1. link'[t.f] = t.ino /\ t.f \in Files /\ t.ino \in Inodes
    BY <1>1, <1>2 DEF OwnOK, UploadOK, TaskOK, Opened
  <2>2. Sizes'[t.f] = bytes'[t.ino]
    BY <2>1 DEF Sizes, SizeOf, Linked, Inodes, None
  <2>3. QED  BY <1>2, <2>2 DEF Owes, Due, Growth
<1>3. CASE ~(t.op = "handle" /\ t.pc \in {"ready", "write", "adjust"})
  BY <1>3 DEF Owes, Due
<1>4. QED  BY <1>2, <1>3
------------------------------------------------------------------------------
(***************************************************************************)
(* How a step of an operation that has its file to itself moves usage,     *)
(* sizes and what the operation owes against each other.                   *)
(***************************************************************************)
Rests(w) ==
    usage' = usage /\ Sizes' = Sizes /\ Due(task'[w], Sizes') = Due(task[w], Sizes)

Pays(w) ==
    \E i \in Int :
        /\ usage' = Add(usage, i) /\ Sizes' = Sizes
        /\ Due(task'[w], Sizes') = Due(task[w], Sizes) + i
        /\ task'[w].f = task[w].f \/ Due(task'[w], Sizes') = 0

Moves(w) ==
    \E f \in Files :
        /\ usage' = usage /\ \A g \in Files \ {f} : Sizes'[g] = Sizes[g]
        /\ Sizes'[f] + Due(task'[w], Sizes') = Sizes[f] + Due(task[w], Sizes)

Swaps(w) ==
    \E f, g \in Files :
        /\ f # g /\ usage' = usage /\ \A h \in Files \ {f, g} : Sizes'[h] = Sizes[h]
        /\ Sizes'[f] = 0 /\ Sizes'[g] = Sizes[f] /\ Sizes[g] = 0
        /\ Due(task'[w], Sizes') = Due(task[w], Sizes)

KeepsCount(w) == Rests(w) \/ Pays(w) \/ Moves(w) \/ Swaps(w)

StepOK(w) ==
    /\ OwnOK(task'[w], link', Sizes')
    /\ \A v \in Workers \ {w} : task'[v] = task[v]
    /\ \A g \in Files \ Names(task[w]) : Same(g)
    /\ LosesCount(w) \/ KeepsCount(w)

\* A worker that does nothing owes nothing.
LEMMA IdleOwn ==
    ASSUME NEW l, NEW z
    PROVE  OwnOK(Idle, l, z) /\ Due(Idle, z) = 0 /\ Idle.op = "none" /\ Idle.pc = "stat"
<1>1. Idle.op = "none" /\ Idle.pc = "stat"
  BY DEF Idle
<1>2. QED  BY <1>1 DEF OwnOK, Due

\* Steps that leave the disk alone and add i to the usage.
LEMMA PayStep ==
    ASSUME QuotaInv, NEW w \in Workers, NEW i \in Int, NEW t, Charge(w, i, t),
           OwnOK(t, link, Sizes), Due(t, Sizes) = Due(task[w], Sizes) + i,
           t.f = task[w].f \/ Due(t, Sizes) = 0
    PROVE  StepOK(w)
<1>1. /\ \A f \in Files : Same(f)
      /\ usage' = Add(usage, i) /\ task'[w] = t /\ \A v \in Workers \ {w} : task'[v] = task[v]
  BY LocalFacts DEF Charge
<1>2. Sizes' = Sizes
  BY <1>1 DEF Same, Sizes
<1>3. link' = link
  BY DEF Charge, Effect
<1>4. Pays(w)
  BY <1>1, <1>2 DEF Pays
<1>5. QED  BY <1>1, <1>2, <1>3, <1>4 DEF StepOK, KeepsCount

\* Steps that leave disk and usage alone.
LEMMA LocalStep ==
    ASSUME QuotaInv, NEW w \in Workers, NEW t, Local(w, t),
           OwnOK(t, link, Sizes), Due(t, Sizes) = Due(task[w], Sizes)
    PROVE  StepOK(w)
<1>1. /\ \A f \in Files : Same(f)
      /\ usage' = usage /\ task'[w] = t /\ \A v \in Workers \ {w} : task'[v] = task[v]
  BY LocalFacts DEF Local
<1>2. Sizes' = Sizes
  BY <1>1 DEF Same, Sizes
<1>3. link' = link
  BY DEF Local, Effect
<1>4. Rests(w)
  BY <1>1, <1>2 DEF Rests
<1>5. QED  BY <1>1, <1>2, <1>3, <1>4 DEF StepOK, KeepsCount

\* The beginning of an operation.
LEMMA BeginStep ==
    ASSUME QuotaInv, NEW w \in Workers, NEW op \in Ops, NEW pc \in {"stat", "open", "lock"}, NEW f,
           pc = "open" => op \in {"compress", "decompress"}, Begin(w, op, pc, f)
    PROVE  StepOK(w)
<1>1. task[w] = Idle /\ task \in [Workers -> Task]
  BY QuotaFacts DEF Begin, TaskOK, QuotaInv, TypeOK
<1> DEFINE t == [Idle EXCEPT !.op = op, !.pc = pc, !.f = f]
<1>2. /\ task'[w] = t /\ (\A v \in Workers \ {w} : task'[v] = task[v])
      /\ link' = link /\ bytes' = bytes /\ usage' = usage
  BY <1>1 DEF Begin
<1>3. Sizes' = Sizes
  BY <1>2 DEF Sizes, SizeOf, Linked
<1>4. t.op = op /\ t.pc = pc /\ t.n = 0
  BY DEF Idle
<1> HIDE DEF t
<1>5. OwnOK(t, link, Sizes)
  BY <1>4 DEF OwnOK, WriteOK, CopyOK, RenameOK, CompressOK, DecompressOK, DeleteOK, UploadOK
<1>6. Due(t, Sizes) = 0 /\ Due(Idle, Sizes) = 0
  BY <1>4, IdleOwn DEF Due
<1>7. Rests(w)
  BY <1>1, <1>2, <1>3, <1>6 DEF Rests
<1>8. QED  BY <1>2, <1>3, <1>5, <1>7 DEF StepOK, Same, KeepsCount

\* An operation on a file is about that file.
LEMMA OwnName ==
    ASSUME NEW t, t.f \in Files
    PROVE  t.f \in Names(t)
BY DiskQuotaAssumption DEF Names

\* Steps that change the file of the operation and not the usage.
LEMMA MoveStep ==
    ASSUME NEW w \in Workers, NEW f \in Files, f = task[w].f, \A g \in Files \ {f} : Same(g),
           usage' = usage, \A v \in Workers \ {w} : task'[v] = task[v],
           OwnOK(task'[w], link', Sizes'),
           \/ LosesCount(w)
           \/ Sizes'[f] + Due(task'[w], Sizes') = Sizes[f] + Due(task[w], Sizes)
    PROVE  StepOK(w)
<1>1. f \in Names(task[w])
  BY OwnName
<1>2. LosesCount(w) \/ Moves(w)
  BY DEF Moves, Same
<1>3. QED  BY <1>1, <1>2 DEF StepOK, KeepsCount

\* Steps that leave the disk alone and lose count.
LEMMA LosingStep ==
    ASSUME QuotaInv, NEW w \in Workers, NEW u, NEW t, Effect(w, link, bytes, u, t),
           OwnOK(t, link, Sizes), LosesCount(w)
    PROVE  StepOK(w)
<1>1. /\ \A f \in Files : Same(f)
      /\ task'[w] = t /\ \A v \in Workers \ {w} : task'[v] = task[v]
  BY LocalFacts
<1>2. Sizes' = Sizes
  BY <1>1 DEF Same, Sizes
<1>3. link' = link
  BY DEF Effect
<1>4. QED  BY <1>1, <1>2, <1>3 DEF StepOK

\* The steps of Write.
LEMMA WriteFileStep ==
    ASSUME QuotaInv, NEW w \in Workers, OwnOK(task[w], link, Sizes), WriteFile(w)
    PROVE  StepOK(w)
<1> DEFINE t == task[w]
           f == t.f
<1>0. /\ t \in Task /\ TaskOK(t) /\ Sizes \in [Files -> 0 .. MaxSize] /\ MaxSize \in Nat
      /\ OwnOK(Idle, link, Sizes) /\ Due(Idle, Sizes) = 0
  BY QuotaFacts, SizesTyped, DiskQuotaAssumption, IdleOwn
<1>1. CASE \E g \in Files : Begin(w, "write", "stat", g)
  BY <1>1, BeginStep DEF Ops
<1>2. CASE \E s \in 0 .. MaxSize : WriteStat(w, s)
  <2>1. PICK s \in 0 .. MaxSize : WriteStat(w, s)
    BY <1>2
  <2> DEFINE u == [t EXCEPT !.pc = "check", !.cur = SizeOf(f), !.len = s]
  <2>2. Local(w, u) /\ t.op = "write" /\ t.pc = "stat"
    BY <2>1 DEF WriteStat, At
  <2>3. f \in Files /\ SizeOf(f) = Sizes[f]
    BY <1>0, <2>2 DEF TaskOK, Sizes
  <2>4. OwnOK(u, link, Sizes) /\ Due(u, Sizes) = 0 /\ Due(t, Sizes) = 0
    BY <1>0, <2>2, <2>3 DEF Task, OwnOK, WriteOK, Due
  <2>5. QED  BY <2>2, <2>4, LocalStep
<1>3. CASE \E n \in 0 .. MaxSize : WriteCopy(w, n)
  <2>1. PICK n \in 0 .. MaxSize : WriteCopy(w, n)
    BY <1>3
  <2> DEFINE u == [t EXCEPT !.pc = "account", !.len = 0, !.n = n]
  <2>2. WriteTo(w, n, u) /\ t.op = "write" /\ t.pc = "copy"
    BY <2>1 DEF WriteCopy, At
  <2>3. /\ f \in Files /\ t.ino \in Inodes /\ link[f] = t.ino /\ Sizes[f] = 0 /\ t.n = 0
    BY <1>0, <2>2 DEF TaskOK, Opened, OwnOK, WriteOK
  <2>4. PICK h \in Files : h = f
    BY <2>3
  <2>5. /\ \A g \in Files \ {h} : Same(g)
        /\ link' = link /\ Sizes'[h] = Larger(Sizes[h], n)
        /\ usage' = usage /\ task'[w] = u /\ \A v \in Workers \ {w} : task'[v] = task[v]
    BY <2>2, <2>3, <2>4, WriteFacts
  <2>6. Sizes'[h] = n
    BY <2>3, <2>4, <2>5 DEF Larger
  <2>7. u.op = "write" /\ u.pc = "account" /\ u.f = h /\ u.n = n /\ u.cur = t.cur
    BY <1>0, <2>2, <2>4 DEF Task
  <2> HIDE DEF u
  <2>8. OwnOK(u, link', Sizes')
    BY <2>6, <2>7 DEF OwnOK, WriteOK
  <2>9. Due(u, Sizes') = t.cur - n /\ Due(t, Sizes) = t.cur - 0
    BY <2>2, <2>3, <2>7 DEF Due
  <2>10. t.cur \in Nat
    BY <1>0 DEF Task
  <2>11. Sizes'[h] + Due(u, Sizes') = Sizes[h] + Due(t, Sizes)
    BY <2>3, <2>4, <2>6, <2>9, <2>10
  <2>12. QED  BY <2>4, <2>5, <2>8, <2>11, MoveStep
<1>4. CASE WriteCheck(w)
  <2> DEFINE u == [t EXCEPT !.pc = "open"]
  <2>1. (Local(w, u) \/ Local(w, Idle)) /\ t.op = "write" /\ t.pc = "check"
    BY <1>4 DEF WriteCheck, At
  <2>2. OwnOK(u, link, Sizes) /\ Due(u, Sizes) = 0 /\ Due(t, Sizes) = 0
    BY <1>0, <2>1 DEF Task, OwnOK, WriteOK, Due
  <2>3. QED  BY <1>0, <2>1, <2>2, LocalStep
<1>5. CASE WriteOpen(w)
  <2>1. OpenFile(w, f, TRUE, "copy") /\ t.op = "write" /\ t.pc = "open"
    BY <1>5 DEF WriteOpen, At
  <2>2. f \in Files /\ t.n = 0 /\ t.cur = Sizes[f]
    BY <1>0, <2>1 DEF TaskOK, OwnOK, WriteOK
  <2>3. PICK h \in Files : h = f
    BY <2>2
  <2>4. /\ \A g \in Files \ {h} : Same(g)
        /\ Sizes'[h] = 0
        /\ task'[w] = [t EXCEPT !.pc = "copy", !.f = h, !.ino = link'[h]]
        /\ usage' = usage /\ \A v \in Workers \ {w} : task'[v] = task[v]
    BY <2>1, <2>3, OpenTruncates DEF HasOpened
  <2> DEFINE u == task'[w]
  <2>5. u.op = "write" /\ u.pc = "copy" /\ u.f = h /\ u.n = 0 /\ u.cur = t.cur /\ u.ino = link'[h]
    BY <1>0, <2>1, <2>2, <2>4 DEF Task
  <2> HIDE DEF u
  <2>6. OwnOK(u, link', Sizes')
    BY <2>4, <2>5 DEF OwnOK, WriteOK
  <2>7. Due(u, Sizes') = t.cur - 0 /\ Due(t, Sizes) = 0
    BY <2>1, <2>5 DEF Due
  <2>8. t.cur \in Nat
    BY <1>0 DEF Task
  <2>9. Sizes'[h] + Due(u, Sizes') = Sizes[h] + Due(t, Sizes)
    BY <2>2, <2>3, <2>4, <2>7, <2>8
  <2>10. QED  BY <2>3, <2>4, <2>6, <2>9, MoveStep DEF u
<1>6. CASE WriteAccount(w)
  <2>1. Charge(w, t.n - t.cur, Idle) /\ t.op = "write" /\ t.pc = "account"
    BY <1>6 DEF WriteAccount, At
  <2>2. t.n - t.cur \in Int /\ Due(t, Sizes) = t.cur - t.n /\ t.n \in Int /\ t.cur \in Int
    BY <1>0, <2>1 DEF Task, Due
  <2>3. Due(Idle, Sizes) = Due(t, Sizes) + (t.n - t.cur)
    BY <1>0, <2>2
  <2>4. QED  BY <1>0, <2>1, <2>2, <2>3, PayStep
<1>7. QED  BY <1>1, <1>2, <1>3, <1>4, <1>5, <1>6 DEF WriteFile

\* The steps of Copy.
LEMMA CopyFileStep ==
    ASSUME QuotaInv, NEW w \in Workers, OwnOK(task[w], link, Sizes), CopyFile(w)
    PROVE  StepOK(w)
<1> DEFINE t == task[w]
           f == t.f
<1>0. /\ t \in Task /\ TaskOK(t) /\ Sizes \in [Files -> 0 .. MaxSize] /\ MaxSize \in Nat
      /\ OwnOK(Idle, link, Sizes) /\ Due(Idle, Sizes) = 0
  BY QuotaFacts, SizesTyped, DiskQuotaAssumption, IdleOwn
<1>1. CASE \E g \in Files : Begin(w, "copy", "stat", g)
  BY <1>1, BeginStep DEF Ops
<1>2. CASE \E g \in Files : FindCopySuffix(w, g)
  <2>1. PICK g \in Files : FindCopySuffix(w, g)
    BY <1>2
  <2> DEFINE u == [t EXCEPT !.pc = "open", !.f = g]
  <2>2. Local(w, u) /\ t.op = "copy" /\ t.pc = "check" /\ g \notin Linked
    BY <2>1 DEF FindCopySuffix, At
  <2>3. Sizes[g] = 0
    BY <2>2 DEF Sizes, SizeOf
  <2>4. u.op = "copy" /\ u.pc = "open" /\ u.f = g
    BY <1>0, <2>2 DEF Task
  <2> HIDE DEF u
  <2>5. OwnOK(u, link, Sizes) /\ Due(u, Sizes) = 0 /\ Due(t, Sizes) = 0
    BY <2>2, <2>3, <2>4 DEF OwnOK, CopyOK, Due
  <2>6. QED  BY <2>2, <2>5, LocalStep
<1>3. CASE \E n \in 0 .. MaxSize : CopyBytes(w, n)
  <2>1. PICK n \in 0 .. MaxSize : CopyBytes(w, n)
    BY <1>3
  <2> DEFINE u == [t EXCEPT !.pc = "account", !.len = 0, !.n = n]
  <2>2. WriteTo(w, n, u) /\ t.op = "copy" /\ t.pc = "copy"
    BY <2>1 DEF CopyBytes, At
  <2>3. /\ f \in Files /\ t.ino \in Inodes /\ link[f] = t.ino /\ Sizes[f] = 0
    BY <1>0, <2>2 DEF TaskOK, Opened, OwnOK, CopyOK
  <2>4. PICK h \in Files : h = f
    BY <2>3
  <2>5. /\ \A g \in Files \ {h} : Same(g)
        /\ link' = link /\ Sizes'[h] = Larger(Sizes[h], n)
        /\ usage' = usage /\ task'[w] = u /\ \A v \in Workers \ {w} : task'[v] = task[v]
    BY <2>2, <2>3, <2>4, WriteFacts
  <2>6. Sizes'[h] = n
    BY <2>3, <2>4, <2>5 DEF Larger
  <2>7. u.op = "copy" /\ u.pc = "account" /\ u.f = h /\ u.n = n
    BY <1>0, <2>2, <2>4 DEF Task
  <2> HIDE DEF u
  <2>8. OwnOK(u, link', Sizes')
    BY <2>6, <2>7 DEF OwnOK, CopyOK
  <2>9. Due(u, Sizes') = -n /\ Due(t, Sizes) = 0
    BY <2>2, <2>7 DEF Due
  <2>10. Sizes'[h] + Due(u, Sizes') = Sizes[h] + Due(t, Sizes)
    BY <2>3, <2>4, <2>6, <2>9
  <2>11. QED  BY <2>4, <2>5, <2>8, <2>10, MoveStep
<1>4. CASE CopyStat(w)
  <2> DEFINE u == [t EXCEPT !.pc = "check", !.len = SizeOf(f)]
  <2>1. (Local(w, u) \/ Local(w, Idle)) /\ t.op = "copy" /\ t.pc = "stat"
    BY <1>4 DEF CopyStat, At
  <2>2. u.op = "copy" /\ u.pc = "check"
    BY <1>0, <2>1 DEF Task
  <2> HIDE DEF u
  <2>3. OwnOK(u, link, Sizes) /\ Due(u, Sizes) = 0 /\ Due(t, Sizes) = 0
    BY <2>1, <2>2 DEF OwnOK, CopyOK, Due
  <2>4. QED  BY <1>0, <2>1, <2>3, LocalStep
<1>5. CASE CopyOpen(w)
  <2>1. OpenFile(w, f, FALSE, "copy") /\ t.op = "copy" /\ t.pc = "open"
    BY <1>5 DEF CopyOpen, At
  <2>2. f \in Files /\ Sizes[f] = 0
    BY <1>0, <2>1 DEF TaskOK, OwnOK, CopyOK
  <2>3. PICK h \in Files : h = f
    BY <2>2
  <2>4. /\ \A g \in Files \ {h} : Same(g)
        /\ Sizes'[h] = Sizes[h]
        /\ task'[w] = [t EXCEPT !.pc = "copy", !.f = h, !.ino = link'[h]]
        /\ usage' = usage /\ \A v \in Workers \ {w} : task'[v] = task[v]
    <3>1. PICK s : s = Sizes[h] /\ HasOpened(w, "copy", h, s)
      BY <2>1, <2>3, OpenInPlace
    <3>2. QED  BY <3>1 DEF HasOpened
  <2> DEFINE u == task'[w]
  <2>5. u.op = "copy" /\ u.pc = "copy" /\ u.f = h /\ u.ino = link'[h]
    BY <1>0, <2>1, <2>4 DEF Task
  <2> HIDE DEF u
  <2>6. OwnOK(u, link', Sizes')
    BY <2>2, <2>3, <2>4, <2>5 DEF OwnOK, CopyOK
  <2>7. Due(u, Sizes') = 0 /\ Due(t, Sizes) = 0
    BY <2>1, <2>5 DEF Due
  <2>8. QED  BY <2>3, <2>4, <2>6, <2>7, MoveStep DEF u
<1>6. CASE CopyAccount(w)
  <2>1. Charge(w, t.n, Idle) /\ t.op = "copy" /\ t.pc = "account"
    BY <1>6 DEF CopyAccount, At
  <2>2. Due(t, Sizes) = -t.n /\ t.n \in Int
    BY <1>0, <2>1 DEF Task, Due
  <2>3. Due(Idle, Sizes) = Due(t, Sizes) + t.n
    BY <1>0, <2>2
  <2>4. QED  BY <1>0, <2>1, <2>2, <2>3, PayStep
<1>7. QED  BY <1>1, <1>2, <1>3, <1>4, <1>5, <1>6 DEF CopyFile

\* The steps of Rename.
LEMMA RenameStep ==
    ASSUME QuotaInv, NEW w \in Workers, OwnOK(task[w], link, Sizes), Rename(w)
    PROVE  StepOK(w)
<1> DEFINE t == task[w]
           f == t.f
<1>0. /\ t \in Task /\ TaskOK(t) /\ Sizes \in [Files -> 0 .. MaxSize] /\ MaxSize \in Nat
      /\ OwnOK(Idle, link, Sizes) /\ Due(Idle, Sizes) = 0
  BY QuotaFacts, SizesTyped, DiskQuotaAssumption, IdleOwn
<1>1. CASE \E g \in Files : Begin(w, "rename", "stat", g)
  BY <1>1, BeginStep DEF Ops
<1>2. CASE \E g \in Files : RenameStat(w, g)
  <2>1. PICK g \in Files : RenameStat(w, g)
    BY <1>2
  <2> DEFINE u == [t EXCEPT !.pc = "check", !.to = g]
  <2>2. /\ (Local(w, u) /\ f \in Linked /\ g \notin Linked) \/ Local(w, Idle)
        /\ t.op = "rename" /\ t.pc = "stat"
    BY <2>1 DEF RenameStat, At
  <2>3. u.op = "rename" /\ u.pc = "check" /\ u.f = f /\ u.to = g
    BY <1>0, <2>2 DEF Task
  <2> HIDE DEF u
  <2>4. Due(u, Sizes) = 0 /\ Due(t, Sizes) = 0
    BY <2>2, <2>3 DEF Due
  <2>5. f \in Linked /\ g \notin Linked => OwnOK(u, link, Sizes)
    BY <2>3 DEF OwnOK, RenameOK, Linked
  <2>6. QED  BY <1>0, <2>2, <2>4, <2>5, LocalStep
<1>3. CASE Renameat(w)
  <2>1. t.op = "rename" /\ t.pc = "check"
    BY <1>3 DEF Renameat, At
  <2>2. f \in Linked /\ t.to \in Files \ Linked
    BY <1>0, <2>1 DEF TaskOK, OwnOK, RenameOK, Linked
  <2>3. PICK h \in Linked, to \in Files \ Linked : h = f /\ to = t.to
    BY <2>2
  <2>4. /\ \A g \in Files \ {h, to} : Same(g)
        /\ Sizes'[h] = 0 /\ Sizes'[to] = Sizes[h]
        /\ usage' = usage /\ task'[w] = Idle /\ \A v \in Workers \ {w} : task'[v] = task[v]
    BY <1>3, <2>3, RenameFacts
  <2>5. h \in Names(t) /\ to \in Names(t) /\ h \in Files
    BY <2>3, DiskQuotaAssumption DEF Names, Linked
  <2>6. Sizes[to] = 0 /\ h # to
    BY <2>3 DEF Sizes, SizeOf
  <2>7. Due(t, Sizes) = 0 /\ Due(Idle, Sizes') = 0 /\ OwnOK(Idle, link', Sizes')
    BY <2>1, IdleOwn DEF Due
  <2>8. Swaps(w)
    BY <2>4, <2>5, <2>6, <2>7 DEF Swaps, Same
  <2>9. QED  BY <2>4, <2>5, <2>7, <2>8 DEF StepOK, KeepsCount
<1>4. QED  BY <1>1, <1>2, <1>3 DEF Rename

\* The steps of CompressFiles.
LEMMA CompressStep ==
    ASSUME QuotaInv, NEW w \in Workers, OwnOK(task[w], link, Sizes), Compress(w)
    PROVE  StepOK(w)
<1> DEFINE t == task[w]
           f == t.f
<1>0. /\ t \in Task /\ TaskOK(t) /\ Sizes \in [Files -> 0 .. MaxSize] /\ MaxSize \in Nat
      /\ OwnOK(Idle, link, Sizes) /\ Due(Idle, Sizes) = 0
  BY QuotaFacts, SizesTyped, DiskQuotaAssumption, IdleOwn
<1>1. CASE \E g \in Files : CompressBegin(w, g)
  BY <1>1, BeginStep DEF CompressBegin, Ops
<1>2. CASE \E n \in 0 .. MaxSize : CompressStream(w, n)
  <2>1. PICK n \in 0 .. MaxSize : CompressStream(w, n)
    BY <1>2
  <2> DEFINE v == [t EXCEPT !.pc = "check", !.n = n]
  <2>2. PICK u \in {v, Idle} : WriteTo(w, n, u) /\ t.op = "compress" /\ t.pc = "copy"
    BY <2>1 DEF CompressStream, At
  <2>3. f \in Files /\ t.ino \in Inodes /\ link[f] = t.ino
    BY <1>0, <2>2 DEF TaskOK, Opened, OwnOK, CompressOK
  <2>4. PICK h \in Files : h = f
    BY <2>3
  <2>5. /\ \A g \in Files \ {h} : Same(g)
        /\ link' = link /\ Sizes'[h] = Larger(Sizes[h], n)
        /\ usage' = usage /\ task'[w] = u /\ \A x \in Workers \ {w} : task'[x] = task[x]
    BY <2>2, <2>3, <2>4, WriteFacts
  <2>6. v.op = "compress" /\ v.pc = "check" /\ v.f = h /\ v.n = n
    BY <1>0, <2>2, <2>4 DEF Task
  <2>7. Sizes[h] = bytes[t.ino] /\ bytes[t.ino] \in 0 .. MaxSize
    BY <2>3, <2>4, QuotaFacts DEF Sizes, SizeOf, Linked, Inodes, None
  <2>8. u # t
    BY <2>2, <2>6, IdleOwn
  <2> HIDE DEF v
  <2>9. OwnOK(u, link', Sizes')
    <3>1. n <= Sizes'[h]
      BY <2>5, <2>7 DEF Larger
    <3>2. OwnOK(v, link', Sizes')
      BY <2>6, <3>1 DEF OwnOK, CompressOK
    <3>3. QED  BY <3>2, IdleOwn
  <2>10. CASE bytes[t.ino] > 0 \/ u = Idle
    <3>1. LosesCount(w)
      BY <2>2, <2>5, <2>8, <2>10 DEF LosesCount, At
    <3>2. QED  BY <2>4, <2>5, <2>9, <3>1, MoveStep
  <2>11. CASE ~(bytes[t.ino] > 0) /\ u = v
    <3>1. Due(v, Sizes') = -n /\ Due(t, Sizes) = 0
      BY <2>2, <2>6 DEF Due
    <3>2. Sizes[h] = 0 /\ Sizes'[h] = n
      BY <2>5, <2>7, <2>11 DEF Larger
    <3>3. Sizes'[h] + Due(v, Sizes') = Sizes[h] + Due(t, Sizes)
      BY <3>1, <3>2
    <3>4. QED  BY <2>4, <2>5, <2>9, <2>11, <3>3, MoveStep
  <2>12. QED  BY <2>2, <2>10, <2>11
<1>3. CASE CompressOpen(w)
  <2>1. OpenFile(w, f, FALSE, "copy") /\ t.op = "compress" /\ t.pc = "open"
    BY <1>3 DEF CompressOpen, At
  <2>2. f \in Files
    BY <1>0, <2>1 DEF TaskOK
  <2>3. PICK h \in Files : h = f
    BY <2>2
  <2>4. /\ \A g \in Files \ {h} : Same(g)
        /\ Sizes'[h] = Sizes[h]
        /\ task'[w] = [t EXCEPT !.pc = "copy", !.f = h, !.ino = link'[h]]
        /\ usage' = usage /\ \A v \in Workers \ {w} : task'[v] = task[v]
    <3>1. PICK s : s = Sizes[h] /\ HasOpened(w, "copy", h, s)
      BY <2>1, <2>3, OpenInPlace
    <3>2. QED  BY <3>1 DEF HasOpened
  <2> DEFINE u == task'[w]
  <2>5. u.op = "compress" /\ u.pc = "copy" /\ u.f = h /\ u.ino = link'[h]
    BY <1>0, <2>1, <2>4 DEF Task
  <2> HIDE DEF u
  <2>6. OwnOK(u, link', Sizes')
    BY <2>5 DEF OwnOK, CompressOK
  <2>7. Due(u, Sizes') = 0 /\ Due(t, Sizes) = 0
    BY <2>1, <2>5 DEF Due
  <2>8. QED  BY <2>3, <2>4, <2>6, <2>7, MoveStep DEF u
<1>4. CASE CompressAccount(w)
  <2>1. Charge(w, t.n, Idle) /\ t.op = "compress" /\ t.pc = "check"
    BY <1>4 DEF CompressAccount, At
  <2>2. Due(t, Sizes) = -t.n /\ t.n \in Int
    BY <1>0, <2>1 DEF Task, Due
  <2>3. Due(Idle, Sizes) = Due(t, Sizes) + t.n
    BY <1>0, <2>2
  <2>4. QED  BY <1>0, <2>1, <2>2, <2>3, PayStep
<1>5. CASE CompressReject(w)
  <2> DEFINE u == [t EXCEPT !.pc = "unlink", !.cur = SizeOf(f)]
  <2>1. /\ Local(w, u) \/ (Local(w, Idle) /\ f \notin Linked)
        /\ t.op = "compress" /\ t.pc = "check"
    BY <1>5 DEF CompressReject, At
  <2>2. u.op = "compress" /\ u.pc = "unlink" /\ u.f = f /\ u.n = t.n /\ t.n \in Int /\ f \in Files
    BY <1>0, <2>1 DEF Task, TaskOK
  <2> HIDE DEF u
  <2>3. OwnOK(u, link, Sizes)
    BY <2>1, <2>2 DEF OwnOK, CompressOK
  <2>4. Due(u, Sizes) = -t.n /\ Due(t, Sizes) = -t.n
    BY <2>1, <2>2 DEF Due
  <2>5. f \notin Linked => t.n = 0
    <3>1. t.n <= Sizes[f] /\ t.n >= 0
      BY <1>0, <2>1 DEF TaskOK, OwnOK, CompressOK
    <3>2. f \notin Linked => Sizes[f] = 0
      BY <2>2 DEF Sizes, SizeOf
    <3>3. QED  BY <2>2, <3>1, <3>2
  <2>6. QED  BY <1>0, <2>1, <2>3, <2>4, <2>5, LocalStep
<1>6. QED  BY <1>1, <1>2, <1>3, <1>4, <1>5 DEF Compress

\* The steps of extractStream.
LEMMA DecompressStep ==
    ASSUME QuotaInv, NEW w \in Workers, OwnOK(task[w], link, Sizes), Decompress(w)
    PROVE  StepOK(w)
<1> DEFINE t == task[w]
           f == t.f
<1>0. /\ t \in Task /\ TaskOK(t) /\ Sizes \in [Files -> 0 .. MaxSize] /\ MaxSize \in Nat
      /\ OwnOK(Idle, link, Sizes) /\ Due(Idle, Sizes) = 0
  BY QuotaFacts, SizesTyped, DiskQuotaAssumption, IdleOwn
<1>1. CASE \E g \in Files : Begin(w, "decompress", "open", g)
  BY <1>1, BeginStep DEF Ops
<1>2. CASE \E n \in 0 .. MaxSize : DecompressCheck(w, n)
  <2>1. PICK n \in 0 .. MaxSize : DecompressCheck(w, n)
    BY <1>2
  <2> DEFINE u == [t EXCEPT !.pc = "copy", !.n = n]
  <2>2. (Local(w, u) \/ Local(w, Idle)) /\ t.op = "decompress" /\ t.pc = "check"
    BY <2>1 DEF DecompressCheck, At
  <2>3. u.op = "decompress" /\ u.pc = "copy" /\ u.f = f /\ u.ino = t.ino
    BY <1>0, <2>2 DEF Task
  <2> HIDE DEF u
  <2>4. OwnOK(u, link, Sizes)
    BY <2>2, <2>3 DEF OwnOK, DecompressOK
  <2>5. Due(u, Sizes) = 0 /\ Due(t, Sizes) = 0
    BY <2>2, <2>3 DEF Due
  <2>6. QED  BY <1>0, <2>2, <2>4, <2>5, LocalStep
<1>3. CASE DecompressOpen(w)
  <2>1. OpenFile(w, f, FALSE, "check") /\ t.op = "decompress" /\ t.pc = "open"
    BY <1>3 DEF DecompressOpen, At
  <2>2. f \in Files
    BY <1>0, <2>1 DEF TaskOK
  <2>3. PICK h \in Files : h = f
    BY <2>2
  <2>4. /\ \A g \in Files \ {h} : Same(g)
        /\ Sizes'[h] = Sizes[h]
        /\ task'[w] = [t EXCEPT !.pc = "check", !.f = h, !.ino = link'[h]]
        /\ usage' = usage /\ \A v \in Workers \ {w} : task'[v] = task[v]
    <3>1. PICK s : s = Sizes[h] /\ HasOpened(w, "check", h, s)
      BY <2>1, <2>3, OpenInPlace
    <3>2. QED  BY <3>1 DEF HasOpened
  <2> DEFINE u == task'[w]
  <2>5. u.op = "decompress" /\ u.pc = "check" /\ u.f = h /\ u.ino = link'[h]
    BY <1>0, <2>1, <2>4 DEF Task
  <2> HIDE DEF u
  <2>6. OwnOK(u, link', Sizes')
    BY <2>5 DEF OwnOK, DecompressOK
  <2>7. Due(u, Sizes') = 0 /\ Due(t, Sizes) = 0
    BY <2>1, <2>5 DEF Due
  <2>8. QED  BY <2>3, <2>4, <2>6, <2>7, MoveStep DEF u
<1>4. CASE DecompressChunk(w)
  <2> DEFINE u == [t EXCEPT !.pc = "account", !.off = @ + t.n]
             end == t.off + t.n
  <2>1. WriteTo(w, end, u) /\ t.op = "decompress" /\ t.pc = "copy"
    BY <1>4 DEF DecompressChunk, At
  <2>2. f \in Files /\ t.ino \in Inodes /\ link[f] = t.ino /\ t.off \in Nat /\ t.n \in Nat
    BY <1>0, <2>1 DEF Task, TaskOK, Opened, OwnOK, DecompressOK
  <2>3. PICK h \in Files, n \in Nat, off \in Nat : h = f /\ n = t.n /\ off = t.off
    BY <2>2
  <2>4. u.op = "decompress" /\ u.pc = "account" /\ u.f = h /\ u.n = n /\ u.ino = t.ino
    BY <1>0, <2>1, <2>3 DEF Task
  <2> HIDE DEF u
  <2>5. /\ \A g \in Files \ {h} : Same(g)
        /\ link' = link /\ Sizes'[h] = Larger(Sizes[h], off + n)
        /\ usage' = usage /\ task'[w] = u /\ \A v \in Workers \ {w} : task'[v] = task[v]
    BY <2>1, <2>2, <2>3, WriteFacts
  <2>6. Sizes[h] = bytes[t.ino] /\ bytes[t.ino] \in 0 .. MaxSize
    BY <2>2, <2>3, QuotaFacts DEF Sizes, SizeOf, Linked, Inodes, None
  <2>7. u # t
    BY <2>1, <2>4
  <2>8. OwnOK(u, link', Sizes')
    <3>1. n <= Sizes'[h]
      BY <2>3, <2>5, <2>6 DEF Larger
    <3>2. QED  BY <2>2, <2>3, <2>4, <2>5, <3>1 DEF OwnOK, DecompressOK
  <2>9. CASE bytes[t.ino] # t.off
    <3>1. LosesCount(w)
      BY <2>1, <2>5, <2>7, <2>9 DEF LosesCount, At
    <3>2. QED  BY <2>3, <2>5, <2>8, <3>1, MoveStep
  <2>10. CASE bytes[t.ino] = t.off
    <3>1. Due(u, Sizes') = -n /\ Due(t, Sizes) = 0
      BY <2>1, <2>4 DEF Due
    <3>2. Sizes[h] = off /\ Sizes'[h] = off + n
      BY <2>3, <2>5, <2>6, <2>10 DEF Larger
    <3>3. Sizes'[h] + Due(u, Sizes') = Sizes[h] + Due(t, Sizes)
      BY <2>3, <3>1, <3>2
    <3>4. QED  BY <2>3, <2>5, <2>8, <3>3, MoveStep
  <2>11. QED  BY <2>9, <2>10
<1>4a. CASE \E n \in 0 .. MaxSize : DecompressFails(w, n)
  <2>1. PICK n \in 0 .. MaxSize : DecompressFails(w, n)
    BY <1>4a
  <2> DEFINE end == IF n > 0 THEN t.off + n ELSE 0
  <2>2. WriteTo(w, end, Idle) /\ t.op = "decompress" /\ t.pc = "copy" /\ n < t.n
    BY <2>1 DEF DecompressFails, At
  <2>3. f \in Files /\ t.ino \in Inodes /\ link[f] = t.ino /\ end \in Nat
    BY <1>0, <2>1, <2>2 DEF Task, TaskOK, Opened, OwnOK, DecompressOK
  <2> HIDE DEF end
  <2>4. PICK h \in Files, e \in Nat : h = f /\ e = end
    BY <2>3
  <2>5. /\ \A g \in Files \ {h} : Same(g)
        /\ link' = link /\ Sizes'[h] = Larger(Sizes[h], e)
        /\ usage' = usage /\ task'[w] = Idle /\ \A v \in Workers \ {w} : task'[v] = task[v]
    BY <2>2, <2>3, <2>4, WriteFacts
  <2>6. task'[w] # task[w]
    BY <2>2, <2>5, IdleOwn
  <2>7. OwnOK(Idle, link', Sizes') /\ Due(Idle, Sizes') = 0 /\ Due(t, Sizes) = 0
    BY <2>2, IdleOwn DEF Due
  <2>8. CASE bytes' # bytes
    <3>1. LosesCount(w)
      BY <2>2, <2>5, <2>6, <2>8 DEF LosesCount, At
    <3>2. QED  BY <2>4, <2>5, <2>7, <3>1, MoveStep
  <2>9. CASE bytes' = bytes
    <3>1. Sizes' = Sizes
      BY <2>5, <2>9 DEF Sizes, SizeOf, Linked
    <3>2. QED  BY <2>4, <2>5, <2>7, <3>1, MoveStep
  <2>10. QED  BY <2>8, <2>9
<1>5. CASE DecompressAccount(w)
  <2> DEFINE u == [t EXCEPT !.pc = "check", !.n = 0]
  <2>1. Charge(w, t.n, u) /\ t.op = "decompress" /\ t.pc = "account"
    BY <1>5 DEF DecompressAccount, At
  <2>2. u.op = "decompress" /\ u.pc = "check" /\ u.f = f /\ u.ino = t.ino
    BY <1>0, <2>1 DEF Task
  <2> HIDE DEF u
  <2>3. Due(t, Sizes) = -t.n /\ t.n \in Int /\ Due(u, Sizes) = 0
    BY <1>0, <2>1, <2>2 DEF Task, Due
  <2>4. Due(u, Sizes) = Due(t, Sizes) + t.n
    BY <2>3
  <2>5. OwnOK(u, link, Sizes)
    BY <2>1, <2>2 DEF OwnOK, DecompressOK
  <2>6. QED  BY <1>0, <2>1, <2>2, <2>3, <2>4, <2>5, PayStep
<1>6. QED  BY <1>1, <1>2, <1>3, <1>4, <1>4a, <1>5 DEF Decompress

\* The steps of Delete.
LEMMA DeleteStep ==
    ASSUME QuotaInv, NEW w \in Workers, OwnOK(task[w], link, Sizes), Delete(w)
    PROVE  StepOK(w)
<1> DEFINE t == task[w]
           f == t.f
<1>0. /\ t \in Task /\ TaskOK(t) /\ Sizes \in [Files -> 0 .. MaxSize] /\ MaxSize \in Nat
      /\ OwnOK(Idle, link, Sizes) /\ Due(Idle, Sizes) = 0 /\ Idle.op = "none"
  BY QuotaFacts, SizesTyped, DiskQuotaAssumption, IdleOwn
<1>1. CASE \E g \in Files : Begin(w, "delete", "stat", g) \/ Begin(w, "deltree", "stat", g)
  BY <1>1, BeginStep DEF Ops
<1>2. CASE RemoveStat(w)
  <2> DEFINE u == [t EXCEPT !.pc = "unlink", !.cur = SizeOf(f)]
  <2>1. ((Local(w, u) /\ f \in Linked) \/ Local(w, Idle)) /\ t.op = "delete" /\ t.pc = "stat"
    BY <1>2 DEF RemoveStat, At
  <2>2. f \in Files /\ SizeOf(f) = Sizes[f]
    BY <1>0, <2>1 DEF TaskOK, Sizes
  <2>3. u.op = "delete" /\ u.pc = "unlink" /\ u.f = f /\ u.cur = Sizes[f]
    BY <1>0, <2>1, <2>2 DEF Task
  <2> HIDE DEF u
  <2>4. f \in Linked => OwnOK(u, link, Sizes)
    BY <2>3 DEF OwnOK, DeleteOK, Linked
  <2>5. Due(u, Sizes) = 0 /\ Due(t, Sizes) = 0
    BY <2>1, <2>3 DEF Due
  <2>6. QED  BY <1>0, <2>1, <2>4, <2>5, LocalStep
<1>3. CASE RemoveUnlink(w)
  <2> DEFINE v == [t EXCEPT !.pc = "debit"]
  <2>1. /\ t.op \in {"delete", "compress"} /\ t.pc = "unlink"
        /\ (Unlink(w, f, v) /\ f \in Linked) \/ (Unlink(w, f, Idle) /\ f \notin Linked)
    BY <1>3 DEF RemoveUnlink, At
  <2>2. f \in Files
    BY <1>0, <2>1 DEF TaskOK
  <2>3. v.op = t.op /\ v.pc = "debit" /\ v.f = f /\ v.cur = t.cur
    BY <1>0, <2>1 DEF Task
  <2>4. v # t /\ Idle # t
    BY <1>0, <2>1, <2>3
  <2> HIDE DEF v
  <2>5. PICK u \in {v, Idle} : Unlink(w, f, u) /\ (f \in Linked => u = v)
    BY <2>1
  <2>6. PICK h \in Files : h = f
    BY <2>2
  <2>7. /\ \A g \in Files \ {h} : Same(g)
        /\ link'[h] = None /\ Sizes'[h] = 0
        /\ usage' = usage /\ task'[w] = u /\ \A x \in Workers \ {w} : task'[x] = task[x]
    BY <2>5, <2>6, UnlinkFacts
  <2>8. OwnOK(u, link', Sizes')
    <3>1. OwnOK(v, link', Sizes')
      BY <2>1, <2>3 DEF OwnOK, DeleteOK, CompressOK
    <3>2. QED  BY <2>5, <3>1, IdleOwn
  <2>9. CASE t.op = "delete"
    <3>1. f \in Linked /\ t.cur = Sizes[f]
      BY <2>1, <2>2, <2>9 DEF OwnOK, DeleteOK, Linked
    <3>2. Due(v, Sizes') = t.cur /\ Due(t, Sizes) = 0
      BY <2>1, <2>3, <2>9 DEF Due
    <3>3. Sizes[h] \in Int /\ Sizes'[h] + Due(u, Sizes') = Sizes[h] + Due(t, Sizes)
      BY <1>0, <2>5, <2>6, <2>7, <3>1, <3>2
    <3>4. QED  BY <2>6, <2>7, <2>8, <3>3, MoveStep
  <2>10. CASE t.op = "compress"
    <3>1. LosesCount(w)
      BY <2>1, <2>4, <2>5, <2>7, <2>10 DEF LosesCount, At
    <3>2. QED  BY <2>6, <2>7, <2>8, <3>1, MoveStep
  <2>11. QED  BY <2>1, <2>9, <2>10
<1>4. CASE RemoveFails(w)
  <2> DEFINE u == [t EXCEPT !.op = "deltree", !.pc = "stat", !.cur = 0]
  <2>1. Local(w, u) /\ t.op = "delete" /\ t.pc = "unlink"
    BY <1>4 DEF RemoveFails, At
  <2>2. u.op = "deltree" /\ u.pc = "stat"
    BY <1>0 DEF Task
  <2> HIDE DEF u
  <2>3. OwnOK(u, link, Sizes) /\ Due(u, Sizes) = 0 /\ Due(t, Sizes) = 0
    BY <2>1, <2>2 DEF OwnOK, DeleteOK, Due
  <2>4. QED  BY <2>1, <2>3, LocalStep
<1>5. CASE RemoveDebit(w)
  <2>1. Charge(w, -t.cur, Idle) /\ t.op \in {"delete", "compress"} /\ t.pc = "debit" /\ t.cur \in Nat
    BY <1>0, <1>5 DEF RemoveDebit, At, Task
  <2>2. CASE t.op = "delete"
    <3>1. Due(t, Sizes) = t.cur
      BY <2>1, <2>2 DEF Due
    <3>2. -t.cur \in Int /\ Due(Idle, Sizes) = Due(t, Sizes) + (-t.cur)
      BY <1>0, <2>1, <3>1
    <3>3. QED  BY <1>0, <2>1, <3>2, PayStep
  <2>3. CASE t.op = "compress"
    <3>1. Effect(w, link, bytes, Add(usage, -t.cur), Idle)
      BY <2>1 DEF Charge
    <3>2. task'[w] = Idle /\ Idle # t
      BY <1>0, <2>1, <3>1, LocalFacts
    <3>3. LosesCount(w)
      BY <2>1, <2>3, <3>2 DEF LosesCount, At
    <3>4. QED  BY <1>0, <3>1, <3>3, LosingStep
  <2>4. QED  BY <2>1, <2>2, <2>3
<1>6. CASE UnlinkatDebit(w)
  <2>1. t.op = "deltree" /\ t.pc = "stat"
    BY <1>6 DEF UnlinkatDebit, At
  <2>2. f \in Files /\ SizeOf(f) = Sizes[f] /\ Sizes[f] \in Nat
    BY <1>0, <2>1 DEF TaskOK, Sizes
  <2>3. PICK s \in Nat : s = SizeOf(f)
    BY <2>2
  <2> DEFINE u == [t EXCEPT !.pc = "unlink", !.cur = s]
  <2>4. Charge(w, -s, u)
    BY <1>6, <2>3 DEF UnlinkatDebit
  <2>5. u.op = "deltree" /\ u.pc = "unlink" /\ u.f = f /\ u.cur = s
    BY <1>0, <2>1 DEF Task
  <2> HIDE DEF u
  <2>6. OwnOK(u, link, Sizes)
    BY <2>2, <2>3, <2>5 DEF OwnOK, DeleteOK
  <2>7. Due(u, Sizes) = -s /\ Due(t, Sizes) = 0
    BY <2>1, <2>5 DEF Due
  <2>8. -s \in Int /\ Due(u, Sizes) = Due(t, Sizes) + (-s)
    BY <2>7
  <2>9. QED  BY <2>4, <2>5, <2>6, <2>8, PayStep
<1>7. CASE Unlinkat(w)
  <2>1. t.op = "deltree" /\ t.pc = "unlink" /\ (Unlink(w, f, Idle) \/ Local(w, Idle))
    BY <1>7 DEF Unlinkat, At
  <2>2. f \in Files /\ t.cur = Sizes[f] /\ Sizes[f] \in Nat /\ Due(t, Sizes) = -t.cur
    BY <1>0, <2>1 DEF TaskOK, OwnOK, DeleteOK, Due
  <2>3. Idle # t
    BY <1>0, <2>1
  <2>4. CASE Unlink(w, f, Idle)
    <3>1. PICK h \in Files : h = f
      BY <2>2
    <3>2. /\ \A g \in Files \ {h} : Same(g)
          /\ Sizes'[h] = 0
          /\ usage' = usage /\ task'[w] = Idle /\ \A x \in Workers \ {w} : task'[x] = task[x]
      BY <2>4, <3>1, UnlinkFacts
    <3>3. Due(Idle, Sizes') = 0 /\ OwnOK(Idle, link', Sizes')
      BY IdleOwn
    <3>4. Sizes'[h] + Due(task'[w], Sizes') = Sizes[h] + Due(t, Sizes)
      BY <2>2, <3>1, <3>2, <3>3
    <3>5. QED  BY <3>1, <3>2, <3>3, <3>4, MoveStep
  <2>5. CASE Local(w, Idle) /\ f \in Linked
    <3>1. task'[w] = Idle /\ link' = link
      BY <2>5, LocalFacts DEF Local, Effect
    <3>2. LosesCount(w)
      BY <2>1, <2>3, <2>5, <3>1 DEF LosesCount, At
    <3>3. QED  BY <1>0, <2>5, <3>2, LosingStep DEF Local
  <2>6. CASE Local(w, Idle) /\ f \notin Linked
    <3>1. Sizes[f] = 0
      BY <2>2, <2>6 DEF Sizes, SizeOf
    <3>2. t.cur = 0
      BY <2>2, <3>1
    <3>3. PICK d \in Int, n \in Int : d = Due(t, Sizes) /\ n = t.cur /\ d = -n
      BY <2>2
    <3>4. d + n = 0
      BY <3>3
    <3>5. Due(t, Sizes) = 0
      <4>1. n = 0
        BY <3>2, <3>3
      <4>2. d = 0
        BY <3>4, <4>1
      <4>3. QED  BY <3>3, <4>2
    <3>6. QED  BY <1>0, <2>6, <3>5, LocalStep
  <2>7. QED  BY <2>1, <2>4, <2>5, <2>6
<1>8. QED  BY <1>1, <1>2, <1>3, <1>4, <1>5, <1>6, <1>7 DEF Delete

\* The steps of an upload.
LEMMA UploadStep ==
    ASSUME QuotaInv, NEW w \in Workers, OwnOK(task[w], link, Sizes), Upload(w)
    PROVE  StepOK(w)
<1> DEFINE t == task[w]
           f == t.f
<1>0. /\ t \in Task /\ TaskOK(t) /\ Sizes \in [Files -> 0 .. MaxSize] /\ MaxSize \in Nat
      /\ OwnOK(Idle, link, Sizes) /\ Due(Idle, Sizes) = 0
  BY QuotaFacts, SizesTyped, DiskQuotaAssumption, IdleOwn
<1>1. CASE \E g \in Files : FilewriteBegin(w, g)
  BY <1>1, BeginStep DEF FilewriteBegin, Ops
<1>2. CASE TouchStat(w)
  <2> DEFINE u == [t EXCEPT !.pc = "open", !.cur = SizeOf(f)]
  <2>1. Local(w, u) /\ t.op = "handle" /\ t.pc = "stat"
    BY <1>2 DEF TouchStat, At
  <2>2. f \in Files /\ SizeOf(f) = Sizes[f]
    BY <1>0, <2>1 DEF TaskOK, Sizes
  <2>3. u.op = "handle" /\ u.pc = "open" /\ u.f = f /\ u.cur = Sizes[f]
    BY <1>0, <2>1, <2>2 DEF Task
  <2> HIDE DEF u
  <2>4. OwnOK(u, link, Sizes) /\ Due(u, Sizes) = 0 /\ Due(t, Sizes) = 0
    BY <2>1, <2>3 DEF OwnOK, UploadOK, Due
  <2>5. QED  BY <2>1, <2>4, LocalStep
<1>3. CASE TouchOpen(w)
  <2>1. OpenFile(w, f, TRUE, "ready") /\ t.op = "handle" /\ t.pc = "open"
    BY <1>3 DEF TouchOpen, At
  <2>2. f \in Files /\ t.cur = Sizes[f] /\ t.off = 0 /\ t.len = 0 /\ Sizes[f] \in Nat
    BY <1>0, <2>1 DEF TaskOK, OwnOK, UploadOK
  <2>3. PICK h \in Files : h = f
    BY <2>2
  <2>4. /\ \A g \in Files \ {h} : Same(g)
        /\ Sizes'[h] = 0
        /\ task'[w] = [t EXCEPT !.pc = "ready", !.f = h, !.ino = link'[h]]
        /\ usage' = usage /\ \A v \in Workers \ {w} : task'[v] = task[v]
    BY <2>1, <2>3, OpenTruncates DEF HasOpened
  <2> DEFINE u == task'[w]
  <2>5. /\ u.op = "handle" /\ u.pc = "ready" /\ u.f = h /\ u.ino = link'[h]
        /\ u.cur = Sizes[h] /\ u.off = 0 /\ u.len = 0
    BY <1>0, <2>1, <2>2, <2>3, <2>4 DEF Task
  <2> HIDE DEF u
  <2>6. OwnOK(u, link', Sizes')
    BY <2>2, <2>3, <2>4, <2>5 DEF OwnOK, UploadOK
  <2>7. Growth(u) = 0
    BY <2>2, <2>3, <2>5 DEF Growth, Larger
  <2>8. Due(u, Sizes') = u.cur + Growth(u) - Sizes'[u.f] /\ Due(t, Sizes) = 0
    BY <2>1, <2>5 DEF Due
  <2>9. Sizes'[h] + Due(u, Sizes') = Sizes[h] + Due(t, Sizes)
    BY <2>2, <2>3, <2>4, <2>5, <2>7, <2>8
  <2>10. QED  BY <2>3, <2>4, <2>6, <2>9, MoveStep DEF u
<1>4. CASE \E off, len \in 0 .. MaxSize : ReserveDisk(w, off, len)
  <2>1. PICK off \in 0 .. MaxSize, len \in 0 .. MaxSize : ReserveDisk(w, off, len)
    BY <1>4
  <2> DEFINE r == [t EXCEPT !.off = off, !.len = len]
             u == [r EXCEPT !.pc = "write"]
  <2>2. Charge(w, Growth(r), u) /\ t.op = "handle" /\ t.pc = "ready"
    BY <2>1 DEF ReserveDisk, ChargeLocked, At
  <2>3. /\ f \in Files /\ t.off = 0 /\ t.len = 0 /\ t.cur \in Nat /\ Sizes[f] \in Nat
        /\ link[f] = t.ino /\ Sizes[f] <= t.cur
    BY <1>0, <2>2 DEF Task, TaskOK, OwnOK, UploadOK
  <2>4. /\ u.op = "handle" /\ u.pc = "write" /\ u.f = f /\ u.ino = t.ino /\ u.cur = t.cur
        /\ u.off = off /\ u.len = len /\ r.cur = t.cur /\ r.off = off /\ r.len = len
    BY <1>0, <2>2 DEF Task
  <2> HIDE DEF u, r
  <2>5. Growth(t) = 0 /\ Growth(u) = Growth(r) /\ Growth(r) \in Nat
    BY <2>3, <2>4 DEF Growth, Larger
  <2>6. Due(t, Sizes) = t.cur + Growth(t) - Sizes[f] /\ Due(u, Sizes) = u.cur + Growth(u) - Sizes[u.f]
    BY <2>2, <2>4 DEF Due
  <2>7. Due(u, Sizes) = Due(t, Sizes) + Growth(r)
    BY <2>3, <2>4, <2>5, <2>6
  <2>8. OwnOK(u, link, Sizes)
    BY <2>3, <2>4 DEF OwnOK, UploadOK
  <2>9. QED  BY <2>2, <2>4, <2>5, <2>7, <2>8, PayStep
<1>5. CASE \E n \in 0 .. MaxSize : WriteAt(w, n)
  <2>1. PICK n \in 0 .. MaxSize : WriteAt(w, n)
    BY <1>5
  <2> DEFINE u == [t EXCEPT !.pc = "adjust", !.n = n]
  <2>2. WriteTo(w, IF n > 0 THEN t.off + n ELSE 0, u) /\ t.op = "handle" /\ t.pc = "write"
    BY <2>1 DEF WriteAt, At
  <2>3. /\ f \in Files /\ t.cur \in Nat /\ t.off \in Nat /\ t.len \in Nat /\ Sizes[f] \in Nat
        /\ t.ino \in Inodes /\ link[f] = t.ino /\ Sizes[f] <= t.cur
    BY <1>0, <2>2 DEF Task, TaskOK, Opened, OwnOK, UploadOK
  <2>4. PICK h \in Files, end \in Nat : h = f /\ end = IF n > 0 THEN t.off + n ELSE 0
    BY <2>3
  <2>5. /\ u.op = "handle" /\ u.pc = "adjust" /\ u.f = h /\ u.ino = t.ino /\ u.cur = t.cur
        /\ u.off = t.off /\ u.len = t.len /\ u.n = n
    BY <1>0, <2>2, <2>4 DEF Task
  <2> HIDE DEF u
  <2>6. /\ \A g \in Files \ {h} : Same(g)
        /\ link' = link /\ Sizes'[h] = Larger(Sizes[h], end)
        /\ usage' = usage /\ task'[w] = u /\ \A v \in Workers \ {w} : task'[v] = task[v]
    BY <2>2, <2>3, <2>4, WriteFacts
  <2>7. Sizes'[h] <= (IF n > 0 THEN Larger(t.cur, t.off + n) ELSE t.cur) /\ Sizes'[h] \in Nat
    BY <2>3, <2>4, <2>6 DEF Larger
  <2>8. OwnOK(u, link', Sizes')
    BY <2>3, <2>4, <2>5, <2>6, <2>7 DEF OwnOK, UploadOK
  <2>9. Growth(t) \in Nat /\ Growth(u) = Growth(t)
    BY <2>3, <2>5 DEF Growth, Larger
  <2>10. Due(t, Sizes) = t.cur + Growth(t) - Sizes[f] /\ Due(u, Sizes') = u.cur + Growth(u) - Sizes'[u.f]
    BY <2>2, <2>5 DEF Due
  <2>11. Sizes'[h] + Due(u, Sizes') = Sizes[h] + Due(t, Sizes)
    BY <2>3, <2>4, <2>5, <2>7, <2>9, <2>10
  <2>12. QED  BY <2>4, <2>6, <2>8, <2>11, MoveStep
<1>6. CASE AdjustDisk(w)
  <2> DEFINE size == IF t.n > 0 THEN Larger(t.cur, t.off + t.n) ELSE t.cur
             u == [t EXCEPT !.pc = "ready", !.cur = size, !.off = 0, !.len = 0, !.n = 0]
  <2>1. Charge(w, (size - t.cur) - Growth(t), u) /\ t.op = "handle" /\ t.pc = "adjust"
    BY <1>6 DEF AdjustDisk, ChargeLocked, At
  <2>2. /\ f \in Files /\ t.cur \in Nat /\ t.off \in Nat /\ t.len \in Nat /\ t.n \in Nat
        /\ Sizes[f] \in Nat /\ link[f] = t.ino /\ Sizes[f] <= size
    BY <1>0, <2>1 DEF Task, TaskOK, OwnOK, UploadOK
  <2>3. size \in Nat
    BY <2>2 DEF Larger
  <2>4. /\ u.op = "handle" /\ u.pc = "ready" /\ u.f = f /\ u.ino = t.ino /\ u.cur = size
        /\ u.off = 0 /\ u.len = 0
    BY <1>0, <2>1 DEF Task
  <2> HIDE DEF u, size
  <2>5. Growth(u) = 0 /\ Growth(t) \in Nat
    BY <2>2, <2>3, <2>4 DEF Growth, Larger
  <2>6. Due(t, Sizes) = t.cur + Growth(t) - Sizes[f] /\ Due(u, Sizes) = u.cur + Growth(u) - Sizes[u.f]
    BY <2>1, <2>4 DEF Due
  <2>7. /\ (size - t.cur) - Growth(t) \in Int
        /\ Due(u, Sizes) = Due(t, Sizes) + ((size - t.cur) - Growth(t))
    BY <2>2, <2>3, <2>4, <2>5, <2>6
  <2>8. OwnOK(u, link, Sizes)
    BY <2>2, <2>4 DEF OwnOK, UploadOK
  <2>9. QED  BY <2>1, <2>4, <2>7, <2>8, PayStep
<1>7. CASE CloseStat(w)
  <2> DEFINE u == [t EXCEPT !.pc = "settle", !.n = bytes[t.ino] - t.cur]
  <2>1. Local(w, u) /\ t.op = "handle" /\ t.pc = "ready"
    BY <1>7 DEF CloseStat, At
  <2>2. /\ f \in Files /\ t.off = 0 /\ t.len = 0 /\ t.cur \in Nat /\ Sizes[f] \in Nat
        /\ t.ino \in Inodes /\ link[f] = t.ino /\ Sizes[f] <= t.cur
    BY <1>0, <2>1 DEF Task, TaskOK, Opened, OwnOK, UploadOK
  <2>3. bytes[t.ino] = Sizes[f]
    BY <2>2 DEF Sizes, SizeOf, Linked, Inodes, None
  <2>4. u.op = "handle" /\ u.pc = "settle" /\ u.n = Sizes[f] - t.cur
    BY <1>0, <2>1, <2>3 DEF Task
  <2> HIDE DEF u
  <2>5. OwnOK(u, link, Sizes)
    BY <2>2, <2>4 DEF OwnOK, UploadOK
  <2>6. Growth(t) = 0
    BY <2>2 DEF Growth, Larger
  <2>7. Due(t, Sizes) = t.cur + Growth(t) - Sizes[f] /\ Due(u, Sizes) = -u.n
    BY <2>1, <2>4 DEF Due
  <2>8. Due(u, Sizes) = Due(t, Sizes)
    BY <2>2, <2>4, <2>6, <2>7
  <2>9. QED  BY <2>1, <2>5, <2>8, LocalStep
<1>8. CASE CloseSettle(w)
  <2>1. Charge(w, t.n, Idle) /\ t.op = "handle" /\ t.pc = "settle"
    BY <1>8 DEF CloseSettle, ChargeLocked, At
  <2>2. Due(t, Sizes) = -t.n /\ t.n \in Int
    BY <1>0, <2>1 DEF Task, Due
  <2>3. Due(Idle, Sizes) = Due(t, Sizes) + t.n
    BY <1>0, <2>2
  <2>4. QED  BY <1>0, <2>1, <2>2, <2>3, PayStep
<1>9. QED  BY <1>1, <1>2, <1>3, <1>4, <1>5, <1>6, <1>7, <1>8 DEF Upload

\* The steps of a walk before its end.
LEMMA WalkStep ==
    ASSUME QuotaInv, NEW w \in Workers, Walk(w), ~WalkStore(w)
    PROVE  StepOK(w)
<1> DEFINE t == task[w]
<1>0. t \in Task /\ TaskOK(t) /\ task \in [Workers -> Task]
  BY QuotaFacts DEF QuotaInv, TypeOK
<1>1. CASE \E stale \in BOOLEAN : DiskUsage(w, stale)
  BY <1>1, BeginStep DEF DiskUsage, Ops
<1>2. CASE WalkLock(w)
  <2> DEFINE u == [t EXCEPT !.pc = "visit", !.todo = Linked]
  <2>1. /\ task'[w] = u /\ \A v \in Workers \ {w} : task'[v] = task[v]
        /\ t.op \in {"walk", "handle"} /\ t.pc = "lock" /\ UNCHANGED <<link, bytes, usage>>
    BY <1>0, <1>2 DEF WalkLock, Walking
  <2>2. Sizes' = Sizes
    BY <2>1 DEF Sizes, SizeOf, Linked
  <2>3. u.op = t.op /\ u.pc = "visit"
    BY <1>0 DEF Task
  <2> HIDE DEF u
  <2>4. OwnOK(u, link, Sizes) /\ Due(u, Sizes) = 0 /\ Due(t, Sizes) = 0
    BY <2>1, <2>3 DEF OwnOK, UploadOK, Due
  <2>5. QED  BY <2>1, <2>2, <2>4 DEF StepOK, KeepsCount, Rests, Same
<1>3. CASE \E f \in Files : WalkVisit(w, f)
  <2>1. PICK f \in Files : WalkVisit(w, f)
    BY <1>3
  <2> DEFINE p == [t EXCEPT !.todo = @ \ {f}, !.acc = @ + SizeOf(f)]
             q == [t EXCEPT !.todo = {}]
  <2>2. /\ t.op \in {"walk", "handle"} /\ t.pc = "visit"
        /\ Local(w, p) \/ Local(w, q)
    BY <2>1 DEF WalkVisit, Walking
  <2>3. p.op = t.op /\ p.pc = "visit" /\ q.op = t.op /\ q.pc = "visit"
    BY <1>0, <2>2 DEF Task
  <2> HIDE DEF p, q
  <2>4. Due(p, Sizes) = 0 /\ Due(q, Sizes) = 0 /\ Due(t, Sizes) = 0
    BY <2>2, <2>3 DEF Due
  <2>5. OwnOK(p, link, Sizes) /\ OwnOK(q, link, Sizes)
    BY <2>2, <2>3 DEF OwnOK, UploadOK
  <2>6. QED  BY <2>2, <2>4, <2>5, LocalStep
<1>4. QED  BY <1>1, <1>2, <1>3 DEF Walk

\* The end of a walk replaces the usage and does nothing else.
LEMMA StoreStep ==
    ASSUME QuotaInv, NEW w \in Workers, WalkStore(w)
    PROVE  /\ OwnOK(task'[w], link', Sizes')
           /\ \A v \in Workers \ {w} : task'[v] = task[v]
           /\ \A g \in Files : Same(g)
           /\ Sizes' = Sizes /\ usage' = task[w].acc /\ mu' = None
           /\ task[w].pc = "visit" /\ task[w].todo = {} /\ task'[w].pc = "stat"
           /\ Due(task'[w], Sizes') = 0
<1> DEFINE t == task[w]
           u == [t EXCEPT !.pc = "stat", !.acc = 0]
<1>0. t \in Task /\ task \in [Workers -> Task]
  BY QuotaFacts DEF QuotaInv, TypeOK
<1>1. /\ task'[w] = u \/ task'[w] = Idle
      /\ \A v \in Workers \ {w} : task'[v] = task[v]
      /\ t.op \in {"walk", "handle"} /\ t.pc = "visit" /\ t.todo = {}
      /\ usage' = t.acc /\ mu' = None /\ UNCHANGED <<link, bytes>>
  BY <1>0 DEF WalkStore, Walking
<1>2. Sizes' = Sizes
  BY <1>1 DEF Sizes, SizeOf, Linked
<1>3. u.op = t.op /\ u.pc = "stat"
  BY <1>0 DEF Task
<1> HIDE DEF u
<1>4. OwnOK(u, link, Sizes) /\ Due(u, Sizes) = 0
  BY <1>1, <1>3 DEF OwnOK, UploadOK, Due
<1>5. QED  BY <1>1, <1>2, <1>3, <1>4, IdleOwn DEF Same

\* Any step but the end of a walk.
LEMMA WorkStep ==
    ASSUME QuotaInv, NEW w \in Workers, OwnOK(task[w], link, Sizes), Work(w), ~WalkStore(w)
    PROVE  StepOK(w)
BY WriteFileStep, CopyFileStep, RenameStep, CompressStep, DecompressStep, DeleteStep, UploadStep,
   WalkStep DEF Work
------------------------------------------------------------------------------
(***************************************************************************)
(* What any step leaves alone.                                             *)
(***************************************************************************)
\* Only a walk visits, and only a walk takes fs.mu or gives it back.
Minds(w) ==
    /\ \A v \in Workers \ {w} : task'[v] = task[v]
    /\ mu' = mu /\ task'[w].pc # "visit"

\* A worker that does nothing does not walk.
LEMMA IdleMinds == Idle.pc # "visit"
BY DEF Idle

\* Steps with an effect.
LEMMA EffectMinds ==
    ASSUME QuotaInv, NEW w \in Workers, NEW l, NEW b, NEW u, NEW t, Effect(w, l, b, u, t), t.pc # "visit"
    PROVE  Minds(w)
<1>1. task \in [Workers -> Task]
  BY DEF QuotaInv, TypeOK
<1>2. QED  BY <1>1 DEF Effect, Minds

\* The beginning of an operation.
LEMMA BeginMinds ==
    ASSUME QuotaInv, NEW w \in Workers, NEW op, NEW pc \in {"stat", "open", "lock"}, NEW f,
           Begin(w, op, pc, f)
    PROVE  Minds(w)
<1>1. task \in [Workers -> Task]
  BY DEF QuotaInv, TypeOK
<1>2. [Idle EXCEPT !.op = op, !.pc = pc, !.f = f].pc = pc
  BY DEF Idle
<1>3. QED  BY <1>1, <1>2 DEF Begin, Minds

\* The steps of Write.
LEMMA WriteFileMinds ==
    ASSUME QuotaInv, NEW w \in Workers, WriteFile(w)
    PROVE  Minds(w)
<1>0. task[w] \in Task /\ task \in [Workers -> Task] /\ Idle.pc # "visit"
  BY QuotaFacts, IdleMinds DEF QuotaInv, TypeOK
<1>1. CASE \E f \in Files : Begin(w, "write", "stat", f)
  BY <1>1, BeginMinds
<1>2. CASE \E s \in 0 .. MaxSize : WriteStat(w, s)
  BY <1>0, <1>2 DEF WriteStat, Local, Effect, Minds, Task
<1>3. CASE \E s \in 0 .. MaxSize : WriteCopy(w, s)
  BY <1>0, <1>3 DEF WriteCopy, WriteTo, Disk, Effect, Minds, Task
<1>4. CASE WriteCheck(w)
  BY <1>0, <1>4 DEF WriteCheck, Local, Effect, Minds, Task
<1>5. CASE WriteOpen(w)
  BY <1>0, <1>5 DEF WriteOpen, OpenFile, Disk, Effect, Minds, Task
<1>6. CASE WriteAccount(w)
  BY <1>0, <1>6 DEF WriteAccount, Charge, Effect, Minds, Task
<1>7. QED  BY <1>1, <1>2, <1>3, <1>4, <1>5, <1>6 DEF WriteFile

\* The steps of Copy.
LEMMA CopyFileMinds ==
    ASSUME QuotaInv, NEW w \in Workers, CopyFile(w)
    PROVE  Minds(w)
<1>0. task[w] \in Task /\ task \in [Workers -> Task] /\ Idle.pc # "visit"
  BY QuotaFacts, IdleMinds DEF QuotaInv, TypeOK
<1>1. CASE \E f \in Files : Begin(w, "copy", "stat", f)
  BY <1>1, BeginMinds
<1>2. CASE \E f \in Files : FindCopySuffix(w, f)
  BY <1>0, <1>2 DEF FindCopySuffix, Local, Effect, Minds, Task
<1>3. CASE \E n \in 0 .. MaxSize : CopyBytes(w, n)
  BY <1>0, <1>3 DEF CopyBytes, WriteTo, Disk, Effect, Minds, Task
<1>4. CASE CopyStat(w)
  BY <1>0, <1>4 DEF CopyStat, Local, Effect, Minds, Task
<1>5. CASE CopyOpen(w)
  BY <1>0, <1>5 DEF CopyOpen, OpenFile, Disk, Effect, Minds, Task
<1>6. CASE CopyAccount(w)
  BY <1>0, <1>6 DEF CopyAccount, Charge, Effect, Minds, Task
<1>7. QED  BY <1>1, <1>2, <1>3, <1>4, <1>5, <1>6 DEF CopyFile

\* The steps of Rename.
LEMMA RenameMinds ==
    ASSUME QuotaInv, NEW w \in Workers, Rename(w)
    PROVE  Minds(w)
<1>0. task[w] \in Task /\ task \in [Workers -> Task] /\ Idle.pc # "visit"
  BY QuotaFacts, IdleMinds DEF QuotaInv, TypeOK
<1>1. CASE \E f \in Files : Begin(w, "rename", "stat", f)
  BY <1>1, BeginMinds
<1>2. CASE \E f \in Files : RenameStat(w, f)
  BY <1>0, <1>2 DEF RenameStat, Local, Effect, Minds, Task
<1>3. CASE Renameat(w)
  BY <1>0, <1>3 DEF Renameat, Disk, Effect, Minds, Task
<1>4. QED  BY <1>1, <1>2, <1>3 DEF Rename

\* The steps of CompressFiles.
LEMMA CompressMinds ==
    ASSUME QuotaInv, NEW w \in Workers, Compress(w)
    PROVE  Minds(w)
<1>0. task[w] \in Task /\ task \in [Workers -> Task] /\ Idle.pc # "visit"
  BY QuotaFacts, IdleMinds DEF QuotaInv, TypeOK
<1>1. CASE \E f \in Files : CompressBegin(w, f)
  BY <1>1, BeginMinds DEF CompressBegin
<1>2. CASE \E n \in 0 .. MaxSize : CompressStream(w, n)
  BY <1>0, <1>2 DEF CompressStream, WriteTo, Disk, Effect, Minds, Task
<1>3. CASE CompressOpen(w)
  BY <1>0, <1>3 DEF CompressOpen, OpenFile, Disk, Effect, Minds, Task
<1>4. CASE CompressAccount(w)
  BY <1>0, <1>4 DEF CompressAccount, Charge, Effect, Minds, Task
<1>5. CASE CompressReject(w)
  BY <1>0, <1>5 DEF CompressReject, Local, Effect, Minds, Task
<1>6. QED  BY <1>1, <1>2, <1>3, <1>4, <1>5 DEF Compress

\* The steps of extractStream.
LEMMA DecompressMinds ==
    ASSUME QuotaInv, NEW w \in Workers, Decompress(w)
    PROVE  Minds(w)
<1>0. task[w] \in Task /\ task \in [Workers -> Task] /\ Idle.pc # "visit"
  BY QuotaFacts, IdleMinds DEF QuotaInv, TypeOK
<1>1. CASE \E f \in Files : Begin(w, "decompress", "open", f)
  BY <1>1, BeginMinds
<1>2. CASE \E n \in 0 .. MaxSize : DecompressCheck(w, n)
  BY <1>0, <1>2 DEF DecompressCheck, Local, Effect, Minds, Task
<1>3. CASE DecompressOpen(w)
  BY <1>0, <1>3 DEF DecompressOpen, OpenFile, Disk, Effect, Minds, Task
<1>4. CASE DecompressChunk(w)
  BY <1>0, <1>4 DEF DecompressChunk, WriteTo, Disk, Effect, Minds, Task
<1>4a. CASE \E n \in 0 .. MaxSize : DecompressFails(w, n)
  BY <1>0, <1>4a DEF DecompressFails, WriteTo, Disk, Effect, Minds, Task
<1>5. CASE DecompressAccount(w)
  BY <1>0, <1>5 DEF DecompressAccount, Charge, Effect, Minds, Task
<1>6. QED  BY <1>1, <1>2, <1>3, <1>4, <1>4a, <1>5 DEF Decompress

\* The steps of Delete.
LEMMA DeleteMinds ==
    ASSUME QuotaInv, NEW w \in Workers, Delete(w)
    PROVE  Minds(w)
<1>0. task[w] \in Task /\ task \in [Workers -> Task] /\ Idle.pc # "visit"
  BY QuotaFacts, IdleMinds DEF QuotaInv, TypeOK
<1>1. CASE \E f \in Files : Begin(w, "delete", "stat", f) \/ Begin(w, "deltree", "stat", f)
  BY <1>1, BeginMinds
<1>2. CASE RemoveStat(w)
  BY <1>0, <1>2 DEF RemoveStat, Local, Effect, Minds, Task
<1>3. CASE RemoveUnlink(w)
  BY <1>0, <1>3 DEF RemoveUnlink, Unlink, Disk, Effect, Minds, Task
<1>4. CASE RemoveFails(w)
  BY <1>0, <1>4 DEF RemoveFails, Local, Effect, Minds, Task
<1>5. CASE RemoveDebit(w)
  BY <1>0, <1>5 DEF RemoveDebit, Charge, Effect, Minds, Task
<1>6. CASE UnlinkatDebit(w)
  BY <1>0, <1>6 DEF UnlinkatDebit, Charge, Effect, Minds, Task
<1>7. CASE Unlinkat(w)
  BY <1>0, <1>7 DEF Unlinkat, Unlink, Local, Disk, Effect, Minds, Task
<1>8. QED  BY <1>1, <1>2, <1>3, <1>4, <1>5, <1>6, <1>7 DEF Delete

\* The steps of an upload.
LEMMA UploadMinds ==
    ASSUME QuotaInv, NEW w \in Workers, Upload(w)
    PROVE  Minds(w)
<1>0. task[w] \in Task /\ task \in [Workers -> Task] /\ Idle.pc # "visit"
  BY QuotaFacts, IdleMinds DEF QuotaInv, TypeOK
<1>1. CASE \E f \in Files : FilewriteBegin(w, f)
  BY <1>1, BeginMinds DEF FilewriteBegin
<1>2. CASE TouchStat(w)
  BY <1>0, <1>2 DEF TouchStat, Local, Effect, Minds, Task
<1>3. CASE TouchOpen(w)
  BY <1>0, <1>3 DEF TouchOpen, OpenFile, Disk, Effect, Minds, Task
<1>4. CASE \E off, len \in 0 .. MaxSize : ReserveDisk(w, off, len)
  BY <1>0, <1>4 DEF ReserveDisk, ChargeLocked, Charge, Effect, Minds, Task
<1>5. CASE \E n \in 0 .. MaxSize : WriteAt(w, n)
  BY <1>0, <1>5 DEF WriteAt, WriteTo, Disk, Effect, Minds, Task
<1>6. CASE AdjustDisk(w)
  BY <1>0, <1>6 DEF AdjustDisk, ChargeLocked, Charge, Effect, Minds, Task
<1>7. CASE CloseStat(w)
  BY <1>0, <1>7 DEF CloseStat, Local, Effect, Minds, Task
<1>8. CASE CloseSettle(w)
  BY <1>0, <1>8 DEF CloseSettle, ChargeLocked, Charge, Effect, Minds, Task
<1>9. QED  BY <1>1, <1>2, <1>3, <1>4, <1>5, <1>6, <1>7, <1>8 DEF Upload
------------------------------------------------------------------------------
(***************************************************************************)
(* LedgerInv is inductive.                                                 *)
(***************************************************************************)
LEMMA UntouchedSame ==
    ASSUME NEW f \in Files
    PROVE  Untouched(f) <=> Same(f)
BY DEF Untouched, Same, Sizes, SizeOf, Linked

\* What an operation knows and owes depends on its own file only.
LEMMA OwnSame ==
    ASSUME NEW t \in Task, TaskOK(t), NEW l, NEW z, NEW m, NEW y,
           \A f \in Names(t) : m[f] = l[f] /\ y[f] = z[f]
    PROVE  /\ OwnOK(t, l, z) => OwnOK(t, m, y)
           /\ Due(t, y) = Due(t, z)
<1>1. t.op \notin {"none", "walk"} => m[t.f] = l[t.f] /\ y[t.f] = z[t.f]
  BY DiskQuotaAssumption DEF TaskOK, Names
<1>2. t.op = "rename" /\ t.pc = "check" => m[t.to] = l[t.to]
  BY DiskQuotaAssumption DEF TaskOK, Names
<1>3. ASSUME OwnOK(t, l, z) PROVE OwnOK(t, m, y)
  BY <1>1, <1>2, <1>3
  DEF OwnOK, WriteOK, CopyOK, RenameOK, CompressOK, DecompressOK, DeleteOK, UploadOK
<1>4. Due(t, y) = Due(t, z)
  BY <1>1 DEF Due
<1>5. QED  BY <1>3, <1>4

\* What an operation is about is a file.
LEMMA NamesInFiles ==
    ASSUME NEW t \in Task
    PROVE  Names(t) \subseteq Files
BY DEF Task, Names

\* So an operation that is not stepping keeps what it knows and owes.
LEMMA OwnFrame ==
    ASSUME QuotaInv, NEW v \in Workers, task'[v] = task[v],
           \A f \in Names(task[v]) : Same(f)
    PROVE  /\ OwnOK(task[v], link, Sizes) => OwnOK(task'[v], link', Sizes')
           /\ Due(task'[v], Sizes') = Due(task[v], Sizes)
<1>1. task[v] \in Task /\ TaskOK(task[v])
  BY QuotaFacts
<1>2. \A f \in Names(task[v]) : link'[f] = link[f] /\ Sizes'[f] = Sizes[f]
  BY DEF Same
<1>3. QED  BY <1>1, <1>2, OwnSame

\* While the disk stands still nothing changes for a walk.
LEMMA StillSame ==
    ASSUME QuotaInv, QuotaInv', \A f \in Files : Untouched(f)
    PROVE  link' = link /\ Sizes' = Sizes /\ Total' = Total /\ Linked' = Linked
<1>1. \A f \in Files : link'[f] = link[f] /\ Sizes'[f] = Sizes[f]
  BY UntouchedSame DEF Same
<1>2. link \in [Files -> Inodes \cup {None}] /\ link' \in [Files -> Inodes \cup {None}]
  BY DEF QuotaInv, TypeOK
<1>3. link' = link /\ Sizes' = Sizes
  BY <1>1, <1>2 DEF Sizes
<1>4. QED  BY <1>3 DEF Total, Linked

\* A walk that is not stepping.
LEMMA WalkFrame ==
    ASSUME QuotaInv, QuotaInv', LedgerNext, NEW v \in Workers, task'[v] = task[v], WalkOK(v),
           mu = v => mu' = v
    PROVE  WalkOK(v)'
<1> SUFFICES ASSUME task[v].pc = "visit"
             PROVE  /\ mu' = v
                    /\ quiet' => /\ task[v].todo \subseteq Linked'
                                 /\ task[v].acc + SumFunctionOnSet(Sizes', task[v].todo) = Total'
  BY DEF WalkOK
<1>1. mu = v /\ v # None
  BY DiskQuotaAssumption DEF WalkOK
<1>2. quiet' => quiet /\ \A f \in Files : Untouched(f)
  BY <1>1 DEF LedgerNext
<1>3. quiet => task[v].todo \subseteq Linked /\ task[v].acc + SumFunctionOnSet(Sizes, task[v].todo) = Total
  BY DEF WalkOK
<1>4. QED  BY <1>1, <1>2, <1>3, StillSame

\* The steps of a walk.
LEMMA WalkInv ==
    ASSUME QuotaInv, QuotaInv', LedgerNext, NEW w \in Workers, Walk(w), WalkOK(w)
    PROVE  WalkOK(w)'
<1> DEFINE t == task[w]
<1>0. /\ t \in Task /\ TaskOK(t) /\ task \in [Workers -> Task] /\ w # None
      /\ Sizes \in [Files -> 0 .. MaxSize] /\ IsFiniteSet(Files)
  BY QuotaFacts, SizesTyped, DiskQuotaAssumption DEF QuotaInv, TypeOK
<1>1. CASE \E stale \in BOOLEAN : DiskUsage(w, stale)
  BY <1>1, BeginMinds DEF DiskUsage, Minds, WalkOK
<1>2. CASE WalkLock(w)
  <2>1. /\ task'[w] = [t EXCEPT !.pc = "visit", !.todo = Linked] /\ mu' = w
        /\ t.pc = "lock" /\ UNCHANGED <<link, bytes>>
    BY <1>0, <1>2 DEF WalkLock
  <2>2. task'[w].pc = "visit" /\ task'[w].todo = Linked /\ task'[w].acc = 0
    BY <1>0, <2>1 DEF Task, TaskOK
  <2>3. Linked' = Linked /\ Sizes' = Sizes /\ Total' = Total
    BY <2>1 DEF Sizes, SizeOf, Linked, Total
  <2>4. SumFunctionOnSet(Sizes, Linked) = Total /\ Total \in Int
    <3>1. \A f \in Files \ Linked : Sizes[f] = 0
      BY DEF Sizes, SizeOf
    <3>2. Linked \in SUBSET Files /\ \A f \in Files : Sizes[f] \in Int
      BY <1>0 DEF Linked
    <3>3. Total = SumFunctionOnSet(Sizes, Files)
      BY <1>0 DEF Total, SumFunction
    <3>4. QED  BY <1>0, <3>1, <3>2, <3>3, SumZeros, SumRemove
  <2>5. QED  BY <2>1, <2>2, <2>3, <2>4 DEF WalkOK
<1>3. CASE \E f \in Files : WalkVisit(w, f)
  <2>1. PICK f \in Files : WalkVisit(w, f)
    BY <1>3
  <2>2. /\ t.pc = "visit" /\ f \in t.todo /\ mu = w /\ mu' = mu
        /\ Local(w, IF f \in Linked THEN [t EXCEPT !.todo = @ \ {f}, !.acc = @ + SizeOf(f)]
                                    ELSE [t EXCEPT !.todo = {}])
    BY <2>1 DEF WalkVisit, Local, Effect, WalkOK
  <2> SUFFICES ASSUME quiet'
               PROVE  /\ task'[w].todo \subseteq Linked'
                      /\ task'[w].acc + SumFunctionOnSet(Sizes', task'[w].todo) = Total'
    BY <2>2 DEF WalkOK
  <2>3. quiet /\ \A g \in Files : Untouched(g)
    BY <1>0, <2>2 DEF LedgerNext
  <2>4. Sizes' = Sizes /\ Total' = Total /\ Linked' = Linked
    BY <2>3, StillSame
  <2>5. t.todo \subseteq Linked /\ t.acc + SumFunctionOnSet(Sizes, t.todo) = Total
    BY <2>2, <2>3 DEF WalkOK
  <2> DEFINE u == [t EXCEPT !.todo = @ \ {f}, !.acc = @ + SizeOf(f)]
  <2>6. Local(w, u)
    BY <2>2, <2>5
  <2>7. u.todo = t.todo \ {f} /\ u.acc = t.acc + Sizes[f]
    BY <1>0, <2>2 DEF Task, Sizes
  <2> HIDE DEF u
  <2>8. task'[w] = u
    BY <2>6, LocalFacts DEF Local
  <2>9. IsFiniteSet(t.todo) /\ \A g \in t.todo : Sizes[g] \in Int
    BY <1>0, FS_Subset DEF Task
  <2>10. /\ SumFunctionOnSet(Sizes, t.todo) = Sizes[f] + SumFunctionOnSet(Sizes, t.todo \ {f})
         /\ SumFunctionOnSet(Sizes, t.todo \ {f}) \in Int
    <3>1. IsFiniteSet(t.todo \ {f}) /\ \A g \in t.todo \ {f} : Sizes[g] \in Int
      BY <2>9, FS_RemoveElement
    <3>2. QED  BY <2>2, <2>9, <3>1, SumRemove
  <2>11. t.acc \in Int /\ Sizes[f] \in Int
    BY <1>0 DEF Task
  <2>12. u.acc + SumFunctionOnSet(Sizes, u.todo) = Total
    BY <2>5, <2>7, <2>10, <2>11
  <2>13. QED  BY <2>4, <2>5, <2>7, <2>8, <2>12
<1>4. CASE WalkStore(w)
  BY <1>4, StoreStep DEF WalkOK
<1>5. QED  BY <1>1, <1>2, <1>3, <1>4 DEF Walk

\* SetDiskLimit changes the limit only.
LEMMA LimitRests ==
    ASSUME NEW l, SetDiskLimit(l)
    PROVE  task' = task /\ mu' = mu /\ Sizes' = Sizes /\ UNCHANGED <<link, bytes, usage>>
BY DEF SetDiskLimit, Sizes, SizeOf, Linked

\* An untracked write is nobody's step.
LEMMA UntrackedRests ==
    ASSUME NEW f, NEW s, Untracked(f, s)
    PROVE  task' = task /\ mu' = mu
BY DEF Untracked

\* A step of a worker leaves the other workers and their walks alone.
LEMMA WorkMinds ==
    ASSUME QuotaInv, NEW w \in Workers, Work(w)
    PROVE  Walk(w) \/ Minds(w)
BY WriteFileMinds, CopyFileMinds, RenameMinds, CompressMinds, DecompressMinds, DeleteMinds,
   UploadMinds DEF Work

\* A step of a walk leaves the other workers alone, and fs.mu if another has it.
LEMMA WalkMinds ==
    ASSUME QuotaInv, NEW w \in Workers, Walk(w), WalkOK(w)
    PROVE  /\ \A v \in Workers \ {w} : task'[v] = task[v]
           /\ \A v \in Workers \ {w} : mu = v => mu' = v
<1>1. CASE WalkStore(w)
  <2>1. mu = w
    BY <1>1, StoreStep DEF WalkOK
  <2>2. QED  BY <1>1, <2>1, StoreStep
<1>2. CASE ~WalkStore(w)
  <2>1. \A v \in Workers \ {w} : task'[v] = task[v]
    BY <1>2, WalkStep DEF StepOK
  <2>2. CASE \E stale \in BOOLEAN : DiskUsage(w, stale)
    BY <2>1, <2>2 DEF DiskUsage, Begin
  <2>3. CASE WalkLock(w)
    BY <2>1, <2>3, DiskQuotaAssumption DEF WalkLock
  <2>4. CASE \E f \in Files : WalkVisit(w, f)
    BY <2>1, <2>4 DEF WalkVisit, Local, Effect
  <2>5. QED  BY <1>2, <2>2, <2>3, <2>4 DEF Walk
<1>3. QED  BY <1>1, <1>2

\* Every step keeps LedgerInv.
LEMMA LedgerStep ==
    ASSUME LedgerInv, [LedgerNext]_ledgerVars
    PROVE  LedgerInv'
<1>1. QuotaInv /\ QuotaInv'
  <2>1. [Next]_vars
    BY DEF LedgerNext, ledgerVars
  <2>2. QED  BY <2>1, QuotaStep DEF LedgerInv
<1>2. CASE UNCHANGED ledgerVars
  <2>1. UNCHANGED <<link, bytes, task, mu, mixed, quiet>>
    BY <1>2 DEF ledgerVars, vars
  <2>2. Sizes' = Sizes /\ Linked' = Linked /\ Total' = Total
    BY <2>1 DEF Sizes, SizeOf, Linked, Total
  <2>3. \A w \in Workers \ mixed' : OwnOK(task'[w], link', Sizes') /\ Apart(w)'
    BY <2>1, <2>2 DEF LedgerInv, Apart
  <2>4. \A w \in Workers : WalkOK(w)'
    BY <2>1, <2>2 DEF LedgerInv, WalkOK
  <2>5. QED  BY <1>1, <2>1, <2>3, <2>4 DEF LedgerInv
<1>3. CASE LedgerNext
  <2>1. mixed' \subseteq Workers /\ quiet' \in BOOLEAN
    BY <1>3 DEF LedgerNext, LedgerInv
  \* Only one worker moves.
  <2>2. \/ \E w \in Workers : Work(w) /\ \A v \in Workers \ {w} : task'[v] = task[v] /\ (mu = v => mu' = v)
        \/ task' = task /\ mu' = mu
    <3>1. ASSUME NEW w \in Workers, Work(w)
          PROVE  \A v \in Workers \ {w} : task'[v] = task[v] /\ (mu = v => mu' = v)
      BY <1>1, <3>1, WorkMinds, WalkMinds DEF Minds, LedgerInv
    <3>2. QED  BY <1>3, <3>1, LimitRests, UntrackedRests DEF LedgerNext, Next
  <2>3. ASSUME NEW v \in Workers \ mixed'
        PROVE  OwnOK(task'[v], link', Sizes') /\ Apart(v)'
    <3>1. CASE task'[v].op = "none"
      <4>1. task'[v] = Idle
        BY <1>1, <3>1 DEF QuotaInv, TaskOK
      <4>2. QED  BY <3>1, <4>1, IdleOwn DEF Apart
    <3>2. CASE task'[v].op # "none"
      <4>1. /\ v \notin mixed
            /\ \A u \in Workers \ {v} : Names(task'[u]) \cap Names(task'[v]) = {}
            /\ task'[v] = task[v] => \A f \in Names(task[v]) : Untouched(f)
        BY <1>3, <2>3, <3>2 DEF LedgerNext
      <4>2. OwnOK(task[v], link, Sizes)
        BY <4>1 DEF LedgerInv
      <4>3. Apart(v)'
        BY <4>1 DEF Apart, Names
      <4>4. ASSUME task'[v] = task[v] PROVE OwnOK(task'[v], link', Sizes')
        <5>1. \A f \in Names(task[v]) : Same(f)
          BY <1>1, <4>1, <4>4, QuotaFacts, NamesInFiles, UntouchedSame
        <5>2. QED  BY <1>1, <4>2, <4>4, <5>1, OwnFrame
      <4>5. ASSUME Work(v) PROVE OwnOK(task'[v], link', Sizes')
        BY <1>1, <4>2, <4>5, WorkStep, StoreStep DEF StepOK
      <4>6. QED  BY <2>2, <4>3, <4>4, <4>5
    <3>3. QED  BY <3>1, <3>2
  <2>4. ASSUME NEW v \in Workers PROVE WalkOK(v)'
    <3>1. WalkOK(v)
      BY DEF LedgerInv
    <3>2. CASE task'[v] = task[v] /\ (mu = v => mu' = v)
      BY <1>1, <1>3, <3>1, <3>2, WalkFrame
    <3>3. CASE Work(v)
      BY <1>1, <1>3, <3>1, <3>3, WorkMinds, WalkInv DEF Minds, WalkOK
    <3>4. QED  BY <2>2, <3>2, <3>3
  <2>5. QED  BY <1>1, <2>1, <2>3, <2>4 DEF LedgerInv
<1>4. QED  BY <1>2, <1>3

\* It holds initially.
LEMMA LedgerStart == LedgerInit => LedgerInv
<1> SUFFICES ASSUME LedgerInit PROVE LedgerInv
  OBVIOUS
<1>1. QuotaInv /\ mixed = {} /\ quiet = FALSE /\ \A w \in Workers : task[w] = Idle
  BY QuotaInit DEF LedgerInit, Init
<1>2. \A w \in Workers : OwnOK(task[w], link, Sizes) /\ Apart(w) /\ WalkOK(w)
  BY <1>1, IdleOwn DEF Apart, WalkOK
<1>3. QED  BY <1>1, <1>2 DEF LedgerInv

\* The invariant holds: operations that have their file to themselves know its size,
\* and the sum of an undisturbed walk is right for the names it has visited.
THEOREM LedgerInvariant == LedgerSpec => []LedgerInv
<1>1. LedgerInv /\ [LedgerNext]_ledgerVars => LedgerInv'
  BY LedgerStep
<1>2. QED  BY <1>1, LedgerStart, PTL DEF LedgerSpec

\* UploadsCovered holds: quotaFile never has bytes on disk that writeAtLocked has
\* not reserved first.
THEOREM UploadsAreCovered == LedgerSpec => []UploadsCovered
<1>1. LedgerInv => UploadsCovered
  <2> SUFFICES ASSUME LedgerInv, NEW w \in Workers \ mixed, task[w].op = "handle" PROVE Owed(w) >= 0
    BY DEF UploadsCovered
  <2>1. QuotaInv /\ OwnOK(task[w], link, Sizes)
    BY DEF LedgerInv
  <2>2. task[w] \in Task /\ TaskOK(task[w]) /\ Sizes \in [Files -> 0 .. MaxSize]
    BY <2>1, QuotaFacts, SizesTyped
  <2>3. QED  BY <2>1, <2>2, OwesDue, DueRange DEF Owed
<1>2. QED  BY <1>1, LedgerInvariant, PTL

\* WalkRepairs holds: a walk that the disk did not move under stores the size of
\* all files.
THEOREM WalksRepair == LedgerSpec => WalkRepairs
<1>1. ASSUME LedgerInv, [LedgerNext]_ledgerVars
      PROVE  [\A w \in Workers : WalkStore(w) /\ quiet => usage' = Total']_ledgerVars
  <2> SUFFICES ASSUME NEW w \in Workers, WalkStore(w), quiet PROVE usage' = Total'
    OBVIOUS
  <2>1. QuotaInv /\ WalkOK(w)
    BY <1>1 DEF LedgerInv
  <2>2. /\ usage' = task[w].acc /\ task[w].pc = "visit" /\ task[w].todo = {} /\ Sizes' = Sizes
    BY <2>1, StoreStep
  <2>3. task[w].acc + SumFunctionOnSet(Sizes, {}) = Total /\ Total' = Total
    BY <2>1, <2>2 DEF WalkOK, Total
  <2>4. task[w].acc \in Nat
    BY <2>1, QuotaFacts DEF Task
  <2>5. QED  BY <2>2, <2>3, <2>4, SumEmpty
<1>2. QED  BY <1>1, LedgerInvariant, PTL DEF LedgerSpec, WalkRepairs
------------------------------------------------------------------------------
(***************************************************************************)
(* LedgerKept: usage, sizes and what is owed move together.                *)
(***************************************************************************)
\* What each worker owes.
Dues == [v \in Workers |-> Due(task[v], Sizes)]

\* Every operation has its file to itself.
AllOwn == \A v \in Workers : OwnOK(task[v], link, Sizes)

\* Balanced, told from sizes and dues.
LEMMA BalancedDues ==
    ASSUME QuotaInv, AllOwn
    PROVE  Balanced <=> usage = SumFunctionOnSet(Sizes, Files) + SumFunctionOnSet(Dues, Workers)
<1>1. [w \in Workers |-> Owed(w)] = Dues
  BY OwesDue DEF Dues, Owed, AllOwn
<1>2. DOMAIN Sizes = Files /\ DOMAIN Dues = Workers
  BY DEF Sizes, Dues
<1>3. QED  BY <1>1, <1>2 DEF Balanced, Total, SumFunction

\* The same after a step.
LEMMA BalancedDuesNext ==
    ASSUME QuotaInv', \A v \in Workers : OwnOK(task'[v], link', Sizes')
    PROVE  Balanced' <=> usage' = SumFunctionOnSet(Sizes', Files) + SumFunctionOnSet(Dues', Workers)
<1>1. [w \in Workers |-> (Owes(task[w]))'] = Dues'
  BY OwesDueNext DEF Dues
<1>2. [w \in Workers |-> (Owed(w))'] = Dues'
  BY <1>1 DEF Owed
<1>3. DOMAIN Sizes' = Files /\ DOMAIN Dues' = Workers
  BY DEF Sizes, Dues
<1>4. QED  BY <1>2, <1>3 DEF Balanced, Total, SumFunction

\* The bounds of what is owed.
LEMMA DuesRange ==
    ASSUME QuotaInv, AllOwn, NEW v \in Workers
    PROVE  /\ Dues[v] \in Int /\ Dues[v] <= MaxSize
           /\ Dues[v] < 0 => task[v].f \in Files /\ Dues[v] + Sizes[task[v].f] >= 0 /\ task[v].op # "none"
<1>1. task[v] \in Task /\ TaskOK(task[v]) /\ Sizes \in [Files -> 0 .. MaxSize]
  BY QuotaFacts, SizesTyped
<1>2. Dues[v] = Due(task[v], Sizes)
  BY DEF Dues
<1>3. QED  BY <1>1, <1>2, DueRange DEF AllOwn

\* The same after a step.
LEMMA DuesRangeNext ==
    ASSUME QuotaInv', NEW v \in Workers, OwnOK(task'[v], link', Sizes')
    PROVE  /\ Dues'[v] \in Int /\ Dues'[v] <= MaxSize
           /\ Dues'[v] < 0 => /\ task'[v].f \in Files /\ Dues'[v] + Sizes'[task'[v].f] >= 0
                              /\ task'[v].op # "none"
<1>1. task'[v] \in Task /\ TaskOK(task'[v]) /\ Sizes' \in [Files -> 0 .. MaxSize]
  BY SizesTypedNext DEF QuotaInv, TypeOK, TaskOK, Opened
<1>2. Dues'[v] = Due(task'[v], Sizes')
  BY DEF Dues
<1>3. QED  BY <1>1, <1>2, DueRange

\* Adding to the usage is exact while the sum is a size a disk can have.
LEMMA AddExact ==
    ASSUME NEW u \in 0 .. MaxInt64, NEW i \in Int, 0 <= u + i, u + i <= MaxInt64
    PROVE  Add(u, i) = u + i
BY QuotaAssumption DEF Add

\* Two operations that have bytes to count are about different files.
Distinct ==
    \A u, v \in Workers : Dues'[u] < 0 /\ Dues'[v] < 0 /\ task'[u].f = task'[v].f => u = v

\* What the usage should be is never below zero nor beyond int64.
LEMMA SumInRange ==
    ASSUME QuotaInv', \A v \in Workers : OwnOK(task'[v], link', Sizes'), Distinct
    PROVE  LET s == SumFunctionOnSet(Sizes', Files) + SumFunctionOnSet(Dues', Workers)
           IN  0 <= s /\ s <= MaxInt64
<1> DEFINE a == SumFunctionOnSet(Sizes', Files)
           b == SumFunctionOnSet(Dues', Workers)
<1>1. IsFiniteSet(Files) /\ IsFiniteSet(Workers) /\ MaxSize \in Nat
  BY DiskQuotaAssumption
<1>2. \A f \in Files : Sizes'[f] \in Nat /\ Sizes'[f] \in Int /\ Sizes'[f] <= MaxSize
  BY <1>1, SizesTypedNext
<1>3. \A v \in Workers : Dues'[v] \in Int /\ Dues'[v] <= MaxSize
  BY DuesRangeNext
<1>4. a <= Cardinality(Files) * MaxSize /\ a \in Int
  BY <1>1, <1>2, SumUpper, SumRemove
<1>5. b <= Cardinality(Workers) * MaxSize /\ b \in Int
  BY <1>1, <1>3, SumUpper, SumRemove
<1>6. a + b >= 0
  <2> DEFINE name == [v \in Workers |-> task'[v].f]
  <2>1. \A v \in Workers : Dues'[v] < 0 => name[v] \in Files /\ Dues'[v] + Sizes'[name[v]] >= 0
    BY DuesRangeNext
  <2>2. \A u, v \in Workers : Dues'[u] < 0 /\ Dues'[v] < 0 /\ name[u] = name[v] => u = v
    BY DEF Distinct
  <2> HIDE DEF name
  <2>3. QED  BY <1>1, <1>2, <1>3, <2>1, <2>2, SumCovered
<1>7. a + b <= MaxInt64
  BY <1>4, <1>5, FilesFit, QuotaAssumption
<1>8. QED  BY <1>4, <1>5, <1>6, <1>7

\* What a step of w leaves to the others if they work on other files.
LEMMA OthersRest ==
    ASSUME LedgerInv, mixed = {}, NEW w \in Workers, StepOK(w), NEW v \in Workers \ {w}
    PROVE  task'[v] = task[v] /\ OwnOK(task'[v], link', Sizes') /\ Dues'[v] = Dues[v]
<1>1. QuotaInv /\ Apart(w) /\ OwnOK(task[v], link, Sizes)
  BY DEF LedgerInv
<1>2. Names(task[v]) \cap Names(task[w]) = {}
  <2>1. CASE task[w].op = "none"
    <3>1. task[w] = Idle
      BY <1>1, <2>1, QuotaFacts DEF TaskOK
    <3>2. Names(Idle) = {}
      BY DEF Names, Idle
    <3>3. QED  BY <3>1, <3>2
  <2>2. CASE task[w].op # "none"
    BY <1>1, <2>2 DEF Apart
  <2>3. QED  BY <2>1, <2>2
<1>3. task'[v] = task[v]
  BY DEF StepOK
<1>4. \A f \in Names(task[v]) : Same(f)
  BY <1>1, <1>2, QuotaFacts, NamesInFiles DEF StepOK
<1>5. OwnOK(task'[v], link', Sizes') /\ Due(task'[v], Sizes') = Due(task[v], Sizes)
  BY <1>1, <1>3, <1>4, OwnFrame
<1>6. QED  BY <1>3, <1>5 DEF Dues

\* A step that keeps count keeps the balance.
LEMMA KeepsCountBalance ==
    ASSUME LedgerInv, QuotaInv', mixed = {}, Balanced, NEW w \in Workers, StepOK(w), KeepsCount(w)
    PROVE  Balanced'
<1> DEFINE a == SumFunctionOnSet(Sizes, Files)
           b == SumFunctionOnSet(Dues, Workers)
           c == SumFunctionOnSet(Sizes', Files)
           d == SumFunctionOnSet(Dues', Workers)
<1>1. QuotaInv /\ AllOwn /\ \A v \in Workers : Apart(v)
  BY DEF LedgerInv, AllOwn
<1>2. \A v \in Workers : OwnOK(task'[v], link', Sizes')
  BY OthersRest DEF StepOK
<1>3. \A v \in Workers \ {w} : task'[v] = task[v] /\ Dues'[v] = Dues[v]
  BY OthersRest
<1>4. \A v \in Workers : Dues[v] \in Int /\ Dues'[v] \in Int
  BY <1>1, <1>2, DuesRange, DuesRangeNext
<1>5. /\ \A f \in Files : Sizes[f] \in Int /\ Sizes'[f] \in Int
      /\ IsFiniteSet(Files) /\ IsFiniteSet(Workers)
  BY <1>1, SizesTyped, SizesTypedNext, DiskQuotaAssumption
<1>6. a \in Int /\ b \in Int /\ c \in Int /\ d \in Int
  BY <1>4, <1>5, SumRemove
<1>7. d = b + Dues'[w] - Dues[w]
  BY <1>3, <1>4, <1>5, SumChange
<1>8. usage = a + b
  BY <1>1, BalancedDues
<1>9. Dues[w] = Due(task[w], Sizes) /\ Dues'[w] = Due(task'[w], Sizes')
  BY DEF Dues
<1> HIDE DEF a, b, c, d
<1>10. usage' = c + d
  <2>1. CASE Rests(w)
    <3>1. usage' = usage /\ Dues'[w] = Dues[w] /\ c = a
      BY <1>9, <2>1 DEF Rests, a, c
    <3>2. QED  BY <1>4, <1>6, <1>7, <1>8, <3>1
  <2>2. CASE Pays(w)
    <3>1. PICK i \in Int : /\ usage' = Add(usage, i) /\ Sizes' = Sizes
                           /\ Dues'[w] = Dues[w] + i
                           /\ task'[w].f = task[w].f \/ Dues'[w] = 0
      BY <1>9, <2>2 DEF Pays
    <3>2. c = a
      BY <3>1 DEF a, c
    <3>3. usage + i = c + d
      BY <1>4, <1>6, <1>7, <1>8, <3>1, <3>2
    <3>4. Distinct
      <4> SUFFICES ASSUME NEW u \in Workers, NEW v \in Workers, Dues'[u] < 0, Dues'[v] < 0,
                          task'[u].f = task'[v].f, u # v
                   PROVE  FALSE
        BY DEF Distinct
      <4>1. \A x \in {u, v} : task'[x].f = task[x].f /\ task[x].f \in Files
        BY <1>2, <1>3, <3>1, DuesRangeNext
      <4>2. task[u].f = task[v].f /\ task[u].f \in Names(task[u]) /\ task[v].f \in Names(task[v])
        BY <4>1, OwnName
      <4>3. task[u].op # "none" \/ task[v].op # "none"
        BY <1>2, <1>3, DuesRangeNext
      <4>4. Names(task[v]) \cap Names(task[u]) = {}
        BY <1>1, <4>3 DEF Apart
      <4>5. QED  BY <4>2, <4>4
    <3>5. 0 <= c + d /\ c + d <= MaxInt64
      BY <1>2, <3>4, SumInRange DEF c, d
    <3>6. usage \in 0 .. MaxInt64
      BY <1>1, QuotaFacts
    <3>7. Add(usage, i) = usage + i
      BY <3>3, <3>5, <3>6, AddExact
    <3>8. QED  BY <3>1, <3>3, <3>7
  <2>3. CASE Moves(w)
    <3>1. PICK f \in Files : /\ usage' = usage /\ \A g \in Files \ {f} : Sizes'[g] = Sizes[g]
                             /\ Sizes'[f] + Dues'[w] = Sizes[f] + Dues[w]
      BY <1>9, <2>3 DEF Moves
    <3>2. c = a + Sizes'[f] - Sizes[f]
      BY <1>5, <3>1, SumChange DEF a, c
    <3>3. QED  BY <1>4, <1>5, <1>6, <1>7, <1>8, <3>1, <3>2
  <2>4. CASE Swaps(w)
    <3>1. PICK f \in Files, g \in Files :
               /\ f # g /\ usage' = usage /\ \A h \in Files \ {f, g} : Sizes'[h] = Sizes[h]
               /\ Sizes'[f] = 0 /\ Sizes'[g] = Sizes[f] /\ Sizes[g] = 0
               /\ Dues'[w] = Dues[w]
      BY <1>9, <2>4 DEF Swaps
    <3> DEFINE m == [h \in Files |-> IF h = f THEN 0 ELSE Sizes[h]]
               e == SumFunctionOnSet(m, Files)
    <3>2. /\ \A h \in Files : m[h] \in Int
          /\ \A h \in Files \ {f} : m[h] = Sizes[h]
          /\ \A h \in Files \ {g} : Sizes'[h] = m[h]
          /\ m[f] = 0 /\ m[g] = 0
      BY <1>5, <3>1
    <3> HIDE DEF m
    <3>3. e = a + m[f] - Sizes[f] /\ c = e + Sizes'[g] - m[g]
      <4>1. e = a + m[f] - Sizes[f]
        BY <1>5, <3>2, SumChange DEF a
      <4>2. /\ \A h \in Files : m[h] \in Int /\ Sizes'[h] \in Int
            /\ \A h \in Files \ {g} : Sizes'[h] = m[h]
        BY <1>5, <3>2
      <4>3. c = e + Sizes'[g] - m[g]
        BY <1>5, <4>2, SumChange DEF c
      <4>4. QED  BY <4>1, <4>3
    <3>4. e \in Int
      BY <1>5, <3>2, SumRemove
    <3> HIDE DEF e
    <3>5. c = a
      BY <1>5, <1>6, <3>1, <3>2, <3>3, <3>4
    <3>6. QED  BY <1>4, <1>6, <1>7, <1>8, <3>1, <3>5
  <2>5. QED  BY <2>1, <2>2, <2>3, <2>4 DEF KeepsCount
<1>11. QED  BY <1>2, <1>10, BalancedDuesNext DEF c, d

\* So does the end of a walk during which the disk stood still and nothing was owed.
LEMMA StoreBalances ==
    ASSUME LedgerInv, QuotaInv', mixed = {}, NEW w \in Workers, WalkStore(w), quiet,
           \A v \in Workers : Owed(v) = 0
    PROVE  Balanced'
<1>1. QuotaInv /\ WalkOK(w) /\ \A v \in Workers : OwnOK(task[v], link, Sizes)
  BY DEF LedgerInv
<1>2. /\ OwnOK(task'[w], link', Sizes') /\ Due(task'[w], Sizes') = 0
      /\ \A v \in Workers \ {w} : task'[v] = task[v]
      /\ \A g \in Files : Same(g)
      /\ Sizes' = Sizes /\ usage' = task[w].acc /\ task[w].pc = "visit" /\ task[w].todo = {}
  BY <1>1, StoreStep
<1>3. ASSUME NEW v \in Workers \ {w} PROVE OwnOK(task'[v], link', Sizes') /\ Due(task'[v], Sizes') = 0
  <2>1. Due(task[v], Sizes) = 0
    BY <1>1, OwesDue DEF Owed
  <2>2. \A f \in Names(task[v]) : Same(f)
    BY <1>1, <1>2, QuotaFacts, NamesInFiles
  <2>3. QED  BY <1>1, <1>2, <2>1, <2>2, OwnFrame
<1>4. \A v \in Workers : OwnOK(task'[v], link', Sizes') /\ Dues'[v] = 0
  BY <1>2, <1>3 DEF Dues
<1>5. SumFunctionOnSet(Dues', Workers) = 0
  <2>1. IsFiniteSet(Workers) /\ {} \in SUBSET Workers /\ \A v \in Workers : Dues'[v] \in Int
    BY <1>4, DiskQuotaAssumption
  <2>2. SumFunctionOnSet(Dues', {}) = SumFunctionOnSet(Dues', Workers)
    BY <1>4, <2>1, SumZeros
  <2>3. QED  BY <2>2, SumEmpty
<1>6. task[w].acc + SumFunctionOnSet(Sizes, {}) = Total /\ task[w].acc \in Nat
  BY <1>1, <1>2, QuotaFacts DEF WalkOK, Task
<1>7. Total = SumFunctionOnSet(Sizes', Files)
  BY <1>2 DEF Total, SumFunction, Sizes
<1>8. task[w].acc = Total
  BY <1>6, SumEmpty
<1>9. usage' = SumFunctionOnSet(Sizes', Files) + SumFunctionOnSet(Dues', Workers)
  BY <1>2, <1>5, <1>6, <1>7, <1>8
<1>10. QED  BY <1>4, <1>9, BalancedDuesNext

\* Any step that does not lose count keeps the balance.
LEMMA BalanceKept ==
    ASSUME LedgerInv, QuotaInv', LedgerNext, mixed = {}, Balanced, ~Miscounts
    PROVE  Balanced'
<1>1. QuotaInv /\ \A v \in Workers : OwnOK(task[v], link, Sizes)
  BY DEF LedgerInv
<1>2. CASE \E w \in Workers : Work(w)
  <2>1. PICK w \in Workers : Work(w)
    BY <1>2
  <2>2. CASE WalkStore(w)
    BY <2>2, StoreBalances DEF Miscounts
  <2>3. CASE ~WalkStore(w)
    <3>1. StepOK(w)
      BY <1>1, <2>1, <2>3, WorkStep
    <3>2. KeepsCount(w)
      BY <3>1 DEF StepOK, Miscounts
    <3>3. QED  BY <3>1, <3>2, KeepsCountBalance
  <2>4. QED  BY <2>2, <2>3
<1>3. CASE \E l \in Limits : SetDiskLimit(l)
  <2>1. task' = task /\ Sizes' = Sizes /\ UNCHANGED <<link, bytes, usage>>
    BY <1>3, LimitRests
  <2>2. QED  BY <2>1 DEF Balanced, Total, Owed, Owes
<1>4. CASE \E f \in Files, s \in 0 .. MaxSize : Untracked(f, s)
  BY <1>4 DEF Miscounts
<1>5. QED  BY <1>2, <1>3, <1>4 DEF LedgerNext, Next

\* LedgerKept holds: outside the steps that Miscounts names, and while no two
\* operations meet on one file, the usage that the file operations of package
\* filesystem keep is the size of the files corrected by what is in flight.
THEOREM LedgerIsKept == LedgerSpec => LedgerKept
<1>1. ASSUME LedgerInv, [LedgerNext]_ledgerVars
      PROVE  [mixed = {} /\ Balanced /\ ~Miscounts => Balanced']_ledgerVars
  <2>1. QuotaInv'
    BY <1>1, LedgerStep DEF LedgerInv
  <2>2. QED  BY <1>1, <2>1, BalanceKept
<1>2. QED  BY <1>1, LedgerInvariant, PTL DEF LedgerSpec, LedgerKept
=============================================================================
