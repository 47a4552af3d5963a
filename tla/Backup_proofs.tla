---------------------------- MODULE Backup_proofs ----------------------------
(***************************************************************************)
(* Type correctness of module Backup, and that a backup listed as          *)
(* successful is whole, for every number of backups, archive size and part *)
(* size.                                                                   *)
(***************************************************************************)
EXTENDS Backup, TLAPS

------------------------------------------------------------------------------
\* The arithmetic of the parts (generateRemoteRequest).

\* Where part i begins.
Start(i) == i * PartSize

\* The quotient of a division: what the ceiling in Urls rests on.
LEMMA Division ==
    ASSUME NEW a \in Nat, NEW n \in Nat \ {0}
    PROVE  a \div n \in Nat /\ (a \div n) * n <= a /\ a < (a \div n) * n + n
PROOF OBVIOUS

\* Multiplication is monotone, and distributes over a successor.
LEMMA Product ==
    ASSUME NEW i \in Nat, NEW k \in Nat, NEW n \in Nat, i <= k
    PROVE  i * n \in Nat /\ i * n <= k * n /\ (i + 1) * n = i * n + n
PROOF OBVIOUS

\* Parts follow one another without a gap and end with the archive.
LEMMA PartFacts ==
    ASSUME NEW size \in Nat, NEW i \in Nat
    PROVE  /\ Urls(size) \in Nat
           /\ Start(i) \in Nat /\ Start(0) = 0
           /\ size >= 1 => Urls(size) >= 1
           /\ i < Urls(size) =>
                 /\ PartLength(i, size) \in Nat
                 /\ Start(i) + PartLength(i, size) <= size
           /\ i + 1 < Urls(size) => Start(i) + PartLength(i, size) = Start(i + 1)
           /\ i < Urls(size) /\ ~(i + 1 < Urls(size)) => Start(i) + PartLength(i, size) = size
PROOF
<1> DEFINE u == Urls(size)
<1>1. PartSize \in Nat \ {0} /\ size + PartSize - 1 \in Nat
  BY BackupAssumption
<1>2. u \in Nat /\ u * PartSize <= size + PartSize - 1 /\ size + PartSize - 1 < u * PartSize + PartSize
  BY <1>1, Division DEF Urls
<1>3. i * PartSize \in Nat /\ (i + 1) * PartSize = i * PartSize + PartSize /\ 0 * PartSize = 0
  BY <1>1, Product
<1>4. size >= 1 => u >= 1
  BY <1>1, <1>2
<1>5. ASSUME i < u PROVE i * PartSize <= size - 1
  <2>1. (i + 1) * PartSize <= u * PartSize
    BY <1>1, <1>2, <1>5, Product
  <2>2. QED
    BY <2>1, <1>1, <1>2, <1>3
<1>6. ASSUME i + 1 < u PROVE (i + 1) * PartSize <= size - 1
  <2>1. (i + 2) * PartSize <= u * PartSize /\ (i + 2) * PartSize = (i + 1) * PartSize + PartSize
    <3>1. i + 1 \in Nat /\ i + 2 \in Nat /\ i + 2 <= u /\ i + 2 = (i + 1) + 1
      BY <1>2, <1>6
    <3>2. QED
      BY <3>1, <1>1, <1>2, Product
  <2>2. QED
    BY <2>1, <1>1, <1>2, <1>3
<1>7. QED
  BY <1>1, <1>2, <1>3, <1>4, <1>5, <1>6 DEF Start, PartLength
------------------------------------------------------------------------------
\* The inductive invariant of one backup.

\* The part under way ends where it has to, and the parts before it fit together.
Chained(b) ==
    LET p == parts[b] n == Len(parts[b]) IN
    /\ p # << >> => p[1][1] = 0 /\ p[n][2] = Start(n)
    /\ \A i \in 1 .. n - 1 : p[i][2] = p[i + 1][1]

Uploading(b) ==
    LET n == Len(parts[b]) IN
    /\ n < Urls(put[b].size) /\ put[b].size = content[b]
    /\ put[b].pos + put[b].left = Start(n) + PartLength(n, put[b].size)
    /\ put[b].left <= PartLength(n, put[b].size)
    /\ Chained(b)

\* Before its upload nothing is kept of one.
Fresh(b) ==
    /\ pc[b] \in {"idle", "ignore", "open"} => content[b] = 0
    /\ pc[b] = "walk" => content[b] <= entries[b]
    /\ pc[b] = "close" => content[b] = entries[b]
    /\ pc[b] \in {"idle", "ignore", "open", "walk", "close", "size"} =>
          put[b] = NoPut /\ parts[b] = << >>
    /\ pc[b] = "urls" =>
          put[b] = [NoPut EXCEPT !.size = content[b]] /\ parts[b] = << >>

\* The archive is whole where it is kept.
Stored(b) == IF b \in s3 THEN Assembled(b) ELSE linked[b] /\ content[b] = Whole(b)

\* What is about to be reported as successful, or is listed so, is stored.
Truthful(b) ==
    /\ pc[b] \in {"size", "urls", "put", "details", "report"} /\ b \notin excused =>
          content[b] = Whole(b)
    /\ pc[b] = "put" => Uploading(b)
    /\ pc[b] = "details" /\ b \in s3 /\ b \notin excused => Assembled(b)
    /\ pc[b] = "report" /\ b \notin excused => Stored(b)
    /\ call[b].pc = "trying" /\ call[b].body = "successful" => pc[b] = "report"
    /\ listed[b] = "successful" =>
          pc[b] \in {"report", "ended"} /\ (b \notin excused => Stored(b))

\* A request that is tried again is within its limit.
Calls ==
    /\ CallTypeOK
    /\ \A c \in Callers : call[c].pc = "trying" => call[c].tries < MaxTries

Good(b) == InFile(b) /\ Fresh(b) /\ Truthful(b)

\* The variables have their shapes: TypeOK without the bounds of an upload.
Shape ==
    /\ pc \in [Backups -> {"idle", "ignore", "open", "walk", "close", "size", "urls", "put",
                           "details", "report", "reportFailure", "ended"}]
    /\ s3 \subseteq Backups /\ entries \in [Backups -> 0 .. Files]
    /\ content \in [Backups -> Nat] /\ linked \in [Backups -> BOOLEAN]
    /\ put \in [Backups -> [size : Nat, pos : Nat, left : Nat, puts : Nat]]
    /\ parts \in [Backups -> Seq(Nat \X Nat)]
    /\ Calls
    /\ listed \in [Backups -> {"nothing", "successful", "failed"}]
    /\ cancelled \in BOOLEAN /\ crashed \in BOOLEAN
    /\ excused \subseteq Backups /\ kept \subseteq Backups /\ faults \in 0 .. MaxFaults

BackupInv == Shape /\ \A b \in Backups : Good(b)

LEMMA InitInv == Init => BackupInv
PROOF
<1> SUFFICES ASSUME Init PROVE BackupInv
  OBVIOUS
<1>1. Shape
  <2>1. parts \in [Backups -> Seq(Nat \X Nat)]
    BY DEF Init
  <2>2. Calls
    BY DEF Init, CallInit, Calls, CallTypeOK, NoCall
  <2>3. put \in [Backups -> [size : Nat, pos : Nat, left : Nat, puts : Nat]]
    BY DEF Init, NoPut
  <2>4. linked \in [Backups -> BOOLEAN] /\ cancelled \in BOOLEAN /\ crashed \in BOOLEAN
    BY DEF Init
  <2>5. /\ pc \in [Backups -> {"idle", "ignore", "open", "walk", "close", "size", "urls", "put",
                                "details", "report", "reportFailure", "ended"}]
        /\ listed \in [Backups -> {"nothing", "successful", "failed"}]
        /\ s3 \subseteq Backups /\ excused \subseteq Backups /\ kept \subseteq Backups
    BY DEF Init
  <2>6. entries \in [Backups -> 0 .. Files] /\ content \in [Backups -> Nat]
        /\ faults \in 0 .. MaxFaults
    BY BackupAssumption DEF Init
  <2>7. QED
    BY <2>1, <2>2, <2>3, <2>4, <2>5, <2>6 DEF Shape
<1>2. ASSUME NEW b \in Backups PROVE Good(b)
  <2>1. InFile(b)
    BY BackupAssumption DEF Init, InFile, Whole, NoPut
  <2>2. Fresh(b) /\ Truthful(b)
    BY DEF Init, Fresh, Truthful, CallInit, NoCall, Backups
  <2>3. QED
    BY <2>1, <2>2 DEF Good
<1>3. QED
  BY <1>1, <1>2 DEF BackupInv

\* What an archive is depends on its own state only.
LEMMA SameArchive ==
    ASSUME NEW b \in Backups, parts'[b] = parts[b], entries'[b] = entries[b],
           content'[b] = content[b]
    PROVE  /\ Assembled(b)' <=> Assembled(b)
           /\ Chained(b)' <=> Chained(b)
           /\ Whole(b)' = Whole(b)
PROOF
  BY DEF Assembled, Chained, Whole

LEMMA SameStored ==
    ASSUME NEW b \in Backups, parts'[b] = parts[b], entries'[b] = entries[b],
           content'[b] = content[b], linked'[b] = linked[b], b \in s3' <=> b \in s3
    PROVE  Stored(b)' <=> Stored(b)
PROOF
  BY SameArchive DEF Stored

\* A backup of which nothing changes stays good: being excused only takes away.
LEMMA Others ==
    ASSUME NEW b \in Backups, Good(b),
           pc'[b] = pc[b], entries'[b] = entries[b], content'[b] = content[b],
           linked'[b] = linked[b], put'[b] = put[b], parts'[b] = parts[b],
           call'[b] = call[b], listed'[b] = listed[b],
           b \in s3' <=> b \in s3, excused \subseteq excused'
    PROVE  Good(b)'
PROOF
<1>1. /\ Assembled(b)' <=> Assembled(b)
      /\ Chained(b)' <=> Chained(b)
      /\ Whole(b)' = Whole(b)
      /\ Stored(b)' <=> Stored(b)
  BY SameArchive, SameStored
<1>2. InFile(b)' /\ Fresh(b)'
  BY <1>1 DEF Good, InFile, Fresh
<1>3. Uploading(b) => Uploading(b)'
  BY <1>1 DEF Uploading
<1>4. Truthful(b)'
  BY <1>1, <1>3 DEF Good, Truthful
<1>5. QED
  BY <1>2, <1>4 DEF Good
------------------------------------------------------------------------------
\* Generate returns.

Working == {"ignore", "open", "walk", "close", "size", "urls", "put", "details"}

LEMMA ReturnEffect ==
    ASSUME Shape, NEW c \in Backups, NEW body \in {"successful", "failed"}, Return(c, body)
    PROVE  /\ pc' \in [Backups -> {"idle", "ignore", "open", "walk", "close", "size", "urls",
                                    "put", "details", "report", "reportFailure", "ended"}]
           /\ linked' \in [Backups -> BOOLEAN] /\ kept' \subseteq Backups /\ Calls'
           /\ pc'[c] = IF body = "successful" THEN "report" ELSE "reportFailure"
           /\ call'[c].body = body
           /\ c \notin s3 => linked'[c] = linked[c]
           /\ \A b \in Backups : b # c =>
                 pc'[b] = pc[b] /\ linked'[b] = linked[b] /\ call'[b] = call[b]
PROOF
<1>1. /\ pc' = [pc EXCEPT ![c] = IF body = "successful" THEN "report" ELSE "reportFailure"]
      /\ call' = [call EXCEPT ![c] = [pc |-> "trying", body |-> body, tries |-> 0]]
      /\ linked' = linked \/ (c \in s3 /\ linked' = [linked EXCEPT ![c] = FALSE])
      /\ kept' = kept \/ kept' = kept \cup {c}
  BY DEF Return, GoesTo, Remove, files
<1>2. [pc |-> "trying", body |-> body, tries |-> 0] \in
        [pc : {"trying", "done", "failed"}, body : Bodies, tries : 0 .. MaxTries]
      /\ 0 < MaxTries
  BY BackupAssumption, PanelClientAssumption
<1>3. Calls' /\ call'[c].body = body /\ \A b \in Backups : b # c => call'[b] = call[b]
  BY <1>1, <1>2 DEF Shape, Calls, CallTypeOK, Backups
<1>4. /\ pc' \in [Backups -> {"idle", "ignore", "open", "walk", "close", "size", "urls",
                               "put", "details", "report", "reportFailure", "ended"}]
      /\ pc'[c] = IF body = "successful" THEN "report" ELSE "reportFailure"
      /\ \A b \in Backups : b # c => pc'[b] = pc[b]
  BY <1>1 DEF Shape
<1>5. /\ linked' \in [Backups -> BOOLEAN] /\ kept' \subseteq Backups
      /\ (c \notin s3 => linked'[c] = linked[c])
      /\ \A b \in Backups : b # c => linked'[b] = linked[b]
  BY <1>1 DEF Shape
<1>6. QED
  BY <1>3, <1>4, <1>5

\* A failure is reported, and says nothing about the archive.
LEMMA FailureGood ==
    ASSUME Shape, NEW c \in Backups, Good(c), GenerateFails(c), pc[c] \in Working,
           entries'[c] = entries[c], content'[c] = content[c], put'[c] = put[c],
           listed'[c] = listed[c]
    PROVE  Good(c)'
PROOF
<1>1. pc'[c] = "reportFailure" /\ call'[c].body = "failed"
  BY ReturnEffect DEF GenerateFails
<1>2. listed[c] # "successful"
  BY DEF Good, Truthful, Working
<1>3. InFile(c)'
  BY DEF Good, InFile, Whole
<1>4. Fresh(c)' /\ Truthful(c)'
  BY <1>1, <1>2 DEF Fresh, Truthful
<1>5. QED
  BY <1>3, <1>4 DEF Good
------------------------------------------------------------------------------
\* One lemma for each action.

LEMMA PostStep ==
    ASSUME BackupInv, NEW c \in Backups, PostServerBackup(c)
    PROVE  BackupInv'
PROOF
<1> USE DEF BackupInv
<1>1. Shape'
  BY DEF PostServerBackup, GoesTo, Shape, upload, world, Calls, CallTypeOK, files
<1>2. /\ pc' = [pc EXCEPT ![c] = "ignore"] /\ s3 \subseteq s3' /\ s3' \subseteq s3 \cup {c}
      /\ UNCHANGED <<entries, content, linked, kept, put, parts, call, listed, excused>>
  BY DEF PostServerBackup, GoesTo, upload, files
<1>3. Good(c)'
  <2>1. InFile(c)'
    BY <1>2 DEF Good, InFile, Whole
  <2>2. pc'[c] = "ignore" /\ pc[c] = "idle"
    BY <1>2 DEF Shape, PostServerBackup, files
  <2>3. Fresh(c)' /\ Truthful(c)'
    BY <1>2, <2>2 DEF Good, Fresh, Truthful
  <2>4. QED
    BY <2>1, <2>3 DEF Good
<1>4. ASSUME NEW b \in Backups, b # c PROVE Good(b)'
  <2>1. pc'[b] = pc[b] /\ (b \in s3' <=> b \in s3)
    BY <1>2, <1>4 DEF Shape
  <2>2. QED
    BY <1>2, <2>1, Others
<1>5. QED
  BY <1>1, <1>3, <1>4

LEMMA IgnoredStep ==
    ASSUME BackupInv, NEW c \in Backups, Ignored(c)
    PROVE  BackupInv'
PROOF
<1> USE DEF BackupInv
<1>1. PICK n \in 0 .. Files : entries' = [entries EXCEPT ![c] = n]
  BY DEF Ignored, files
<1>2. /\ pc' = [pc EXCEPT ![c] = "open"] /\ pc[c] = "ignore"
      /\ UNCHANGED <<s3, content, linked, kept, put, parts, call, listed, cancelled, crashed,
                     excused, faults>>
  BY DEF Ignored, GoesTo, upload, world, files
<1>3. Shape'
  BY <1>1, <1>2 DEF Shape, Calls, CallTypeOK
<1>4. Good(c)'
  <2>1. pc'[c] = "open" /\ content[c] = 0 /\ put[c] = NoPut /\ entries'[c] = n
    BY <1>1, <1>2 DEF Shape, Good, Fresh
  <2>2. InFile(c)'
    BY <1>2, <2>1, BackupAssumption DEF InFile, Whole, NoPut
  <2>3. Fresh(c)' /\ Truthful(c)'
    BY <1>2, <2>1 DEF Good, Fresh, Truthful
  <2>4. QED
    BY <2>2, <2>3 DEF Good
<1>5. ASSUME NEW b \in Backups, b # c PROVE Good(b)'
  <2>1. pc'[b] = pc[b] /\ entries'[b] = entries[b]
    BY <1>1, <1>2, <1>5 DEF Shape
  <2>2. QED
    BY <1>2, <2>1, Others
<1>6. QED
  BY <1>3, <1>4, <1>5

LEMMA OpenStep ==
    ASSUME BackupInv, NEW c \in Backups, Open(c)
    PROVE  BackupInv'
PROOF
<1> USE DEF BackupInv
<1>1. /\ pc[c] = "open"
      /\ UNCHANGED <<s3, entries, content, put, parts, listed, cancelled, crashed, excused>>
  BY DEF Open, upload, world, files
<1>2. CASE /\ GoesTo(c, "walk") /\ linked' = [linked EXCEPT ![c] = TRUE]
           /\ UNCHANGED <<kept, call, faults>>
  <2>1. pc' = [pc EXCEPT ![c] = "walk"]
    BY <1>2 DEF GoesTo
  <2>2. Shape'
    BY <1>1, <1>2, <2>1 DEF Shape, Calls, CallTypeOK
  <2>3. Good(c)'
    <3>1. pc'[c] = "walk" /\ content[c] = 0 /\ entries[c] \in 0 .. Files
      BY <1>1, <2>1 DEF Shape, Good, Fresh
    <3>2. InFile(c)'
      BY <1>1 DEF Good, InFile, Whole
    <3>3. Fresh(c)'
      <4>1. put[c] = NoPut /\ parts[c] = << >>
        BY <1>1 DEF Good, Fresh
      <4>2. content[c] <= entries[c]
        BY <3>1, BackupAssumption
      <4>3. QED
        BY <1>1, <3>1, <4>1, <4>2 DEF Fresh
    <3>4. Truthful(c)'
      BY <1>1, <1>2, <3>1 DEF Good, Truthful
    <3>5. QED
      BY <3>2, <3>3, <3>4 DEF Good
  <2>4. ASSUME NEW b \in Backups, b # c PROVE Good(b)'
    <3>1. pc'[b] = pc[b] /\ linked'[b] = linked[b]
      BY <1>2, <2>1, <2>4 DEF Shape
    <3>2. QED
      BY <1>1, <1>2, <3>1, Others
  <2>5. QED
    BY <2>2, <2>3, <2>4
<1>3. CASE Fault /\ GenerateFails(c)
  <2>1. Return(c, "failed") /\ faults' \in 0 .. MaxFaults
    BY <1>3, BackupAssumption DEF GenerateFails, Fault, Shape
  <2>2. Shape'
    BY <1>1, <2>1, ReturnEffect DEF Shape
  <2>3. Good(c)'
    BY <1>1, <1>3, FailureGood DEF Working
  <2>4. ASSUME NEW b \in Backups, b # c PROVE Good(b)'
    BY <1>1, <2>1, <2>4, ReturnEffect, Others
  <2>5. QED
    BY <2>2, <2>3, <2>4
<1>4. QED
  BY <1>2, <1>3 DEF Open, files

LEMMA WalkStep ==
    ASSUME BackupInv, NEW c \in Backups, WalkDirectory(c)
    PROVE  BackupInv'
PROOF
<1> USE DEF BackupInv
<1>1. /\ pc[c] = "walk"
      /\ UNCHANGED <<s3, put, parts, listed, cancelled, crashed, excused>>
  BY DEF WalkDirectory, upload, world, files
<1>2. /\ content[c] <= entries[c] /\ put[c] = NoPut /\ parts[c] = << >>
      /\ entries[c] \in 0 .. Files /\ content[c] \in Nat
      /\ listed[c] # "successful"
      /\ ~(call[c].pc = "trying" /\ call[c].body = "successful")
  BY <1>1 DEF Shape, Good, Fresh, Truthful
<1>3. CASE /\ content[c] < entries[c]
           /\ \/ content' = [content EXCEPT ![c] = @ + 1] /\ UNCHANGED entries
              \/ entries' = [entries EXCEPT ![c] = @ - 1] /\ UNCHANGED content
           /\ UNCHANGED <<pc, linked, kept, call, faults>>
  <2>1. Shape'
    <3>1. content' \in [Backups -> Nat] /\ entries' \in [Backups -> 0 .. Files]
      <4>1. CASE content' = [content EXCEPT ![c] = @ + 1] /\ UNCHANGED entries
        BY <1>2, <4>1 DEF Shape
      <4>2. CASE entries' = [entries EXCEPT ![c] = @ - 1] /\ UNCHANGED content
        <5>1. entries[c] - 1 \in 0 .. Files
          BY <1>2, <1>3, BackupAssumption
        <5>2. QED
          BY <4>2, <5>1 DEF Shape
      <4>3. QED
        BY <1>3, <4>1, <4>2
    <3>2. QED
      BY <1>1, <1>3, <3>1 DEF Shape, Calls, CallTypeOK
  <2>2. /\ content'[c] \in Nat /\ entries'[c] \in Nat /\ content'[c] <= entries'[c]
        /\ \A b \in Backups : b # c => content'[b] = content[b] /\ entries'[b] = entries[b]
    BY <1>2, <1>3 DEF Shape
  <2>3. Good(c)'
    <3>1. InFile(c)'
      BY <1>1, <1>2, <2>2, BackupAssumption DEF InFile, Whole, NoPut
    <3>2. Fresh(c)' /\ Truthful(c)'
      BY <1>1, <1>2, <1>3, <2>2 DEF Fresh, Truthful
    <3>3. QED
      BY <3>1, <3>2 DEF Good
  <2>4. ASSUME NEW b \in Backups, b # c PROVE Good(b)'
    BY <1>1, <1>3, <2>2, <2>4, Others
  <2>5. QED
    BY <2>1, <2>3, <2>4
<1>4. CASE /\ content[c] = entries[c] /\ GoesTo(c, "close")
           /\ UNCHANGED <<entries, content, linked, kept, call, faults>>
  <2>1. pc' = [pc EXCEPT ![c] = "close"]
    BY <1>4 DEF GoesTo
  <2>2. Shape'
    BY <1>1, <1>4, <2>1 DEF Shape, Calls, CallTypeOK
  <2>3. Good(c)'
    <3>1. pc'[c] = "close"
      BY <2>1 DEF Shape
    <3>2. InFile(c)' /\ Fresh(c)' /\ Truthful(c)'
      BY <1>1, <1>2, <1>4, <3>1 DEF Good, InFile, Whole, Fresh, Truthful
    <3>3. QED
      BY <3>2 DEF Good
  <2>4. ASSUME NEW b \in Backups, b # c PROVE Good(b)'
    <3>1. pc'[b] = pc[b]
      BY <2>1, <2>4 DEF Shape
    <3>2. QED
      BY <1>1, <1>4, <3>1, Others
  <2>5. QED
    BY <2>2, <2>3, <2>4
<1>5. CASE /\ IF cancelled THEN UNCHANGED faults ELSE Fault
           /\ GenerateFails(c) /\ UNCHANGED <<entries, content>>
  <2>1. Return(c, "failed") /\ faults' \in 0 .. MaxFaults
    BY <1>5, BackupAssumption DEF GenerateFails, Fault, Shape
  <2>2. Shape'
    BY <1>1, <1>5, <2>1, ReturnEffect DEF Shape
  <2>3. Good(c)'
    BY <1>1, <1>5, FailureGood DEF Working
  <2>4. ASSUME NEW b \in Backups, b # c PROVE Good(b)'
    BY <1>1, <1>5, <2>1, <2>4, ReturnEffect, Others
  <2>5. QED
    BY <2>2, <2>3, <2>4
<1>6. QED
  BY <1>3, <1>4, <1>5 DEF WalkDirectory, files

LEMMA CloseStep ==
    ASSUME BackupInv, NEW c \in Backups, Close(c)
    PROVE  BackupInv'
PROOF
<1> USE DEF BackupInv
<1>1. /\ pc[c] = "close" /\ pc' = [pc EXCEPT ![c] = IF c \in s3 THEN "size" ELSE "details"]
      /\ UNCHANGED <<s3, entries, linked, kept, put, parts, call, listed, cancelled, crashed>>
  BY DEF Close, GoesTo, upload, world, files
<1>2. /\ content[c] = entries[c] /\ put[c] = NoPut /\ parts[c] = << >>
      /\ entries[c] \in 0 .. Files /\ content[c] \in Nat
      /\ listed[c] # "successful"
      /\ ~(call[c].pc = "trying" /\ call[c].body = "successful")
  BY <1>1 DEF Shape, Good, Fresh, Truthful
<1>3. /\ content' \in [Backups -> Nat] /\ faults' \in 0 .. MaxFaults
      /\ excused \subseteq excused' /\ excused' \subseteq Backups
      /\ \A b \in Backups : b # c => content'[b] = content[b]
      /\ content'[c] \in Nat /\ content'[c] <= entries[c] + 1
      /\ c \notin excused' => content'[c] = entries[c] + 1
  <2>1. CASE content' = [content EXCEPT ![c] = @ + 1] /\ UNCHANGED <<excused, faults>>
    BY <1>2, <2>1 DEF Shape
  <2>2. CASE Fault /\ excused' = excused \cup {c} /\ UNCHANGED content
    <3>1. faults' \in 0 .. MaxFaults
      BY <2>2, BackupAssumption DEF Fault, Shape
    <3>2. QED
      BY <1>2, <2>2, <3>1 DEF Shape
  <2>3. QED
    BY <2>1, <2>2 DEF Close, files
<1>4. Shape'
  BY <1>1, <1>3 DEF Shape, Calls, CallTypeOK
<1>5. Good(c)'
  <2>1. pc'[c] = IF c \in s3 THEN "size" ELSE "details"
    BY <1>1 DEF Shape
  <2>2. InFile(c)'
    BY <1>1, <1>2, <1>3, BackupAssumption DEF InFile, Whole, NoPut
  <2>3. Fresh(c)' /\ Truthful(c)'
    BY <1>1, <1>2, <1>3, <2>1 DEF Fresh, Truthful, Whole
  <2>4. QED
    BY <2>2, <2>3 DEF Good
<1>6. ASSUME NEW b \in Backups, b # c PROVE Good(b)'
  <2>1. pc'[b] = pc[b]
    BY <1>1, <1>6 DEF Shape
  <2>2. QED
    BY <1>1, <1>3, <1>6, <2>1, Others
<1>7. QED
  BY <1>4, <1>5, <1>6

LEMMA DetailsStep ==
    ASSUME BackupInv, NEW c \in Backups, Details(c)
    PROVE  BackupInv'
PROOF
<1> USE DEF BackupInv
<1>1. /\ pc[c] = "details"
      /\ UNCHANGED <<s3, entries, content, put, parts, listed, cancelled, crashed, excused>>
  BY DEF Details, upload, world, files
<1>2. PICK body \in {"successful", "failed"} :
        Return(c, body) /\ (body = "successful" => linked[c])
  BY DEF Details, GenerateFails, files
<1>3. faults' \in 0 .. MaxFaults
  BY BackupAssumption DEF Details, Fault, Shape, files
<1>4. Shape'
  BY <1>1, <1>2, <1>3, ReturnEffect DEF Shape
<1>5. Good(c)'
  <2>1. CASE body = "failed"
    BY <1>1, <1>2, <2>1, FailureGood DEF Working, GenerateFails
  <2>2. CASE body = "successful"
    <3>1. /\ pc'[c] = "report" /\ listed[c] # "successful"
          /\ c \notin s3 => linked'[c] /\ linked[c]
      BY <1>1, <1>2, <2>2, ReturnEffect DEF Good, Truthful
    <3>2. c \notin excused => Stored(c)'
      <4>1. c \notin excused => content[c] = Whole(c) /\ (c \in s3 => Assembled(c))
        BY <1>1 DEF Good, Truthful
      <4>2. (Assembled(c)' <=> Assembled(c)) /\ Whole(c)' = Whole(c)
        BY <1>1, SameArchive
      <4>3. QED
        BY <1>1, <3>1, <4>1, <4>2 DEF Stored
    <3>3. InFile(c)' /\ Fresh(c)'
      BY <1>1, <3>1 DEF Good, InFile, Whole, Fresh
    <3>4. c \notin excused => content'[c] = Whole(c)'
      BY <1>1 DEF Good, Truthful, Whole
    <3>5. Truthful(c)'
      BY <1>1, <3>1, <3>2, <3>4 DEF Truthful
    <3>6. QED
      BY <3>3, <3>5 DEF Good
  <2>3. QED
    BY <2>1, <2>2
<1>6. ASSUME NEW b \in Backups, b # c PROVE Good(b)'
  BY <1>1, <1>2, <1>6, ReturnEffect, Others
<1>7. QED
  BY <1>4, <1>5, <1>6

LEMMA SizeStep ==
    ASSUME BackupInv, NEW c \in Backups, Size(c)
    PROVE  BackupInv'
PROOF
<1> USE DEF BackupInv
<1>1. /\ pc[c] = "size"
      /\ UNCHANGED <<s3, entries, content, parts, listed, cancelled, crashed, excused>>
  BY DEF Size, world, files
<1>2. CASE /\ GoesTo(c, "urls")
           /\ put' = [put EXCEPT ![c] = [NoPut EXCEPT !.size = content[c]]]
           /\ call' = [call EXCEPT ![c] = [pc |-> "trying", body |-> "urls", tries |-> 0]]
           /\ UNCHANGED <<linked, kept, faults>>
  <2>1. pc' = [pc EXCEPT ![c] = "urls"]
    BY <1>2 DEF GoesTo
  <2>2. [pc |-> "trying", body |-> "urls", tries |-> 0] \in
          [pc : {"trying", "done", "failed"}, body : Bodies, tries : 0 .. MaxTries]
        /\ 0 < MaxTries
    BY BackupAssumption, PanelClientAssumption
  <2>3. Calls' /\ call'[c].body = "urls" /\ \A b \in Backups : b # c => call'[b] = call[b]
    BY <1>2, <2>2 DEF Shape, Calls, CallTypeOK, Backups
  <2>4. put' \in [Backups -> [size : Nat, pos : Nat, left : Nat, puts : Nat]]
    BY <1>2 DEF Shape, NoPut
  <2>5. Shape'
    BY <1>1, <1>2, <2>1, <2>3, <2>4 DEF Shape
  <2>6. Good(c)'
    <3>1. pc'[c] = "urls" /\ put'[c] = [NoPut EXCEPT !.size = content[c]]
      BY <1>2, <2>1 DEF Shape
    <3>2. InFile(c)'
      <4>1. content[c] \in Nat /\ content[c] <= Whole(c) /\ Whole(c)' = Whole(c)
        BY <1>1 DEF Shape, Good, InFile, Whole
      <4>2. QED
        BY <1>1, <3>1, <4>1, BackupAssumption DEF InFile, NoPut
    <3>3. Fresh(c)'
      BY <1>1, <3>1 DEF Good, Fresh
    <3>4. Truthful(c)'
      BY <1>1, <2>3, <3>1 DEF Good, Truthful, Whole
    <3>5. QED
      BY <3>2, <3>3, <3>4 DEF Good
  <2>7. ASSUME NEW b \in Backups, b # c PROVE Good(b)'
    <3>1. pc'[b] = pc[b] /\ put'[b] = put[b]
      BY <1>2, <2>1, <2>7 DEF Shape
    <3>2. QED
      BY <1>1, <1>2, <2>3, <2>7, <3>1, Others
  <2>8. QED
    BY <2>5, <2>6, <2>7
<1>3. CASE /\ GenerateFails(c) /\ UNCHANGED put
           /\ UNCHANGED faults \/ Fault
  <2>1. Return(c, "failed") /\ faults' \in 0 .. MaxFaults
    BY <1>3, BackupAssumption DEF GenerateFails, Fault, Shape
  <2>2. Shape'
    BY <1>1, <1>3, <2>1, ReturnEffect DEF Shape
  <2>3. Good(c)'
    BY <1>1, <1>3, FailureGood DEF Working
  <2>4. ASSUME NEW b \in Backups, b # c PROVE Good(b)'
    BY <1>1, <1>3, <2>1, <2>4, ReturnEffect, Others
  <2>5. QED
    BY <2>2, <2>3, <2>4
<1>4. QED
  BY <1>2, <1>3 DEF Size, files

------------------------------------------------------------------------------
\* The upload.

\* NextPart starts the part that follows the parts so far, or ends the upload.
LEMMA NextPartGood ==
    ASSUME Shape, NEW c \in Backups, NEW pos \in Nat, NEW n \in Nat,
           parts' \in [Backups -> Seq(Nat \X Nat)], Len(parts'[c]) = n,
           NextPart(c, n, pos, put[c].size),
           put[c].size = content[c], content[c] <= Whole(c),
           content'[c] = content[c], entries'[c] = entries[c], s3' = s3,
           listed'[c] = listed[c], listed[c] # "successful",
           ~(call'[c].pc = "trying" /\ call'[c].body = "successful"),
           excused' = excused, c \notin excused => content[c] = Whole(c),
           Chained(c)' \/ n = Urls(content[c]), n <= Urls(content[c]),
           n < Urls(content[c]) => pos = Start(n),
           n = Urls(content[c]) => pos <= content[c] /\ (c \notin excused => Assembled(c)')
    PROVE  /\ Good(c)' /\ put' \in [Backups -> [size : Nat, pos : Nat, left : Nat, puts : Nat]]
           /\ pc' \in [Backups -> {"idle", "ignore", "open", "walk", "close", "size", "urls",
                                    "put", "details", "report", "reportFailure", "ended"}]
           /\ \A b \in Backups : b # c => pc'[b] = pc[b] /\ put'[b] = put[b]
PROOF
<1> DEFINE size == content[c]
<1>1. size \in Nat /\ Whole(c)' = Whole(c)
  BY DEF Shape, Whole
<1>2. CASE n < Urls(size)
  <2> DEFINE left == PartLength(n, size)
  <2>1. left \in Nat /\ Start(n) + left <= size /\ Start(n) \in Nat
    BY <1>1, <1>2, PartFacts
  <2>2. /\ pc' = [pc EXCEPT ![c] = "put"]
        /\ put' = [put EXCEPT ![c] = [size |-> size, pos |-> pos, puts |-> 0, left |-> left]]
    BY <1>2 DEF NextPart, GoesTo
  <2>3. /\ put' \in [Backups -> [size : Nat, pos : Nat, left : Nat, puts : Nat]]
        /\ put'[c] = [size |-> size, pos |-> pos, puts |-> 0, left |-> left]
        /\ \A b \in Backups : b # c => put'[b] = put[b]
    BY <1>1, <2>1, <2>2 DEF Shape
  <2>4. /\ pc' \in [Backups -> {"idle", "ignore", "open", "walk", "close", "size", "urls",
                                 "put", "details", "report", "reportFailure", "ended"}]
        /\ pc'[c] = "put" /\ \A b \in Backups : b # c => pc'[b] = pc[b]
    BY <2>2 DEF Shape
  <2>5. InFile(c)'
    BY <1>1, <1>2, <2>1, <2>3, BackupAssumption DEF InFile
  <2>6. Chained(c)'
    BY <1>1, <1>2, PartFacts
  <2>7. Uploading(c)'
    BY <1>2, <2>1, <2>3, <2>6 DEF Uploading
  <2>8. Fresh(c)' /\ Truthful(c)'
    BY <1>1, <2>4, <2>7 DEF Fresh, Truthful
  <2>9. QED
    BY <2>3, <2>4, <2>5, <2>8 DEF Good
<1>3. CASE ~(n < Urls(size))
  <2>1. n = Urls(size)
    <3>1. Urls(size) \in Nat
      BY <1>1, PartFacts
    <3>2. QED
      BY <1>3, <3>1
  <2>2. /\ pc' = [pc EXCEPT ![c] = "details"]
        /\ put' = [put EXCEPT ![c] = [size |-> size, pos |-> pos, puts |-> 0, left |-> 0]]
    BY <1>3 DEF NextPart, GoesTo
  <2>3. /\ put' \in [Backups -> [size : Nat, pos : Nat, left : Nat, puts : Nat]]
        /\ put'[c] = [size |-> size, pos |-> pos, puts |-> 0, left |-> 0]
        /\ \A b \in Backups : b # c => put'[b] = put[b]
    BY <1>1, <2>2 DEF Shape
  <2>4. /\ pc' \in [Backups -> {"idle", "ignore", "open", "walk", "close", "size", "urls",
                                 "put", "details", "report", "reportFailure", "ended"}]
        /\ pc'[c] = "details" /\ \A b \in Backups : b # c => pc'[b] = pc[b]
    BY <2>2 DEF Shape
  <2>5. InFile(c)'
    BY <1>1, <2>1, <2>3, BackupAssumption DEF InFile
  <2>6. Fresh(c)' /\ Truthful(c)'
    BY <1>1, <2>1, <2>4 DEF Fresh, Truthful
  <2>7. QED
    BY <2>3, <2>4, <2>5, <2>6 DEF Good
<1>4. QED
  BY <1>2, <1>3

LEMMA GetUrlsStep ==
    ASSUME BackupInv, NEW c \in Backups, GetUrls(c)
    PROVE  BackupInv'
PROOF
<1> USE DEF BackupInv
<1>1. /\ pc[c] = "urls"
      /\ UNCHANGED <<s3, entries, content, parts, listed, cancelled, crashed, excused, faults>>
  BY DEF GetUrls, world, files
<1>2. CASE Returns(c, "done") /\ NextPart(c, 0, 0, put[c].size) /\ UNCHANGED <<linked, kept>>
  <2>1. call' = [call EXCEPT ![c] = NoCall]
    BY <1>2 DEF Returns
  <2>2. Calls' /\ call'[c] = NoCall /\ \A b \in Backups : b # c => call'[b] = call[b]
    <3>1. call'[c] = NoCall /\ \A b \in Backups : b # c => call'[b] = call[b]
      BY <2>1 DEF Shape, Calls, CallTypeOK, Backups
    <3>2. Calls'
      BY <2>1 DEF Shape, Calls, CallTypeOK, NoCall, Backups
    <3>3. QED
      BY <3>1, <3>2
  <2>3. /\ put[c].size = content[c] /\ content[c] \in Nat /\ parts[c] = << >>
        /\ content[c] <= Whole(c) /\ listed[c] # "successful"
        /\ c \notin excused => content[c] = Whole(c)
    BY <1>1 DEF Shape, Good, InFile, Fresh, Truthful, NoPut
  <2>4. call'[c].pc = "none"
    BY <2>2 DEF NoCall
  <2>5. /\ 0 <= Urls(content[c]) /\ Urls(content[c]) \in Nat /\ Start(0) = 0
        /\ content[c] >= 1 => Urls(content[c]) >= 1
    BY <2>3, PartFacts
  <2>6. 0 = Urls(content[c]) => c \in excused
    BY <2>3, <2>5, BackupAssumption DEF Whole, Shape
  <2>7. Len(parts'[c]) = 0 /\ Chained(c)'
    BY <1>1, <2>3 DEF Chained
  <2>8. /\ Good(c)' /\ put' \in [Backups -> [size : Nat, pos : Nat, left : Nat, puts : Nat]]
        /\ pc' \in [Backups -> {"idle", "ignore", "open", "walk", "close", "size", "urls",
                                 "put", "details", "report", "reportFailure", "ended"}]
        /\ \A b \in Backups : b # c => pc'[b] = pc[b] /\ put'[b] = put[b]
    <3>1. parts' \in [Backups -> Seq(Nat \X Nat)] /\ 0 \in Nat
      BY <1>1 DEF Shape
    <3>2. QED
      BY <1>1, <1>2, <2>3, <2>4, <2>5, <2>6, <2>7, <3>1, NextPartGood
  <2>9. Shape'
    BY <1>1, <1>2, <2>2, <2>8 DEF Shape
  <2>10. ASSUME NEW b \in Backups, b # c PROVE Good(b)'
    BY <1>1, <1>2, <2>2, <2>8, <2>10, Others
  <2>11. QED
    BY <2>8, <2>9, <2>10
<1>3. CASE GenerateFails(c) /\ UNCHANGED put
  <2>1. Return(c, "failed")
    BY <1>3 DEF GenerateFails
  <2>2. Shape'
    BY <1>1, <1>3, <2>1, ReturnEffect DEF Shape
  <2>3. Good(c)'
    BY <1>1, <1>3, FailureGood DEF Working
  <2>4. ASSUME NEW b \in Backups, b # c PROVE Good(b)'
    BY <1>1, <1>3, <2>1, <2>4, ReturnEffect, Others
  <2>5. QED
    BY <2>2, <2>3, <2>4
<1>4. QED
  BY <1>2, <1>3 DEF GetUrls, files

\* An execution without an answer leaves a rest of the part, or ends the backup.
LEMMA UnansweredStep ==
    ASSUME BackupInv, NEW c \in Backups, pc[c] = "put",
           NEW n \in 0 .. put[c].left, Unanswered(c, n),
           UNCHANGED <<s3, entries, content, parts, listed, cancelled, crashed, excused>>,
           faults' \in 0 .. MaxFaults
    PROVE  BackupInv'
PROOF
<1> USE DEF BackupInv
<1>1. CASE /\ put[c].puts + 1 < MaxPuts
           /\ put' = [put EXCEPT ![c].pos = @ + n, ![c].left = @ - n, ![c].puts = put[c].puts + 1]
           /\ UNCHANGED <<pc, linked, kept, call>>
  <2> DEFINE p == put[c]
  <2>1. p \in [size : Nat, pos : Nat, left : Nat, puts : Nat]
    BY DEF Shape
  <2>2. /\ p.pos + n \in Nat /\ p.left - n \in Nat /\ p.puts + 1 \in Nat
        /\ (p.pos + n) + (p.left - n) = p.pos + p.left /\ p.left - n <= p.left
    BY <2>1
  <2>3. /\ put' \in [Backups -> [size : Nat, pos : Nat, left : Nat, puts : Nat]]
        /\ put'[c].size = p.size /\ put'[c].pos = p.pos + n /\ put'[c].left = p.left - n
        /\ put'[c].puts = p.puts + 1
        /\ \A b \in Backups : b # c => put'[b] = put[b]
    BY <1>1, <2>1, <2>2 DEF Shape
  <2>4. Shape'
    BY <1>1, <2>3 DEF Shape, Calls, CallTypeOK
  <2>5. Good(c)'
    <3>1. InFile(c)'
      BY <1>1, <2>1, <2>2, <2>3, BackupAssumption DEF Good, InFile, Whole
    <3>2. Uploading(c)'
      <4>1. Uploading(c) /\ content[c] \in Nat /\ Len(parts[c]) \in Nat
        BY DEF Good, Truthful, Shape
      <4>2. PartLength(Len(parts[c]), p.size) \in Nat
        BY <2>1, <4>1, PartFacts DEF Uploading
      <4>3. Chained(c)'
        BY <4>1, SameArchive DEF Uploading
      <4>4. QED
        BY <2>1, <2>2, <2>3, <4>1, <4>2, <4>3 DEF Uploading
    <3>3. Fresh(c)' /\ Truthful(c)'
      BY <1>1, <3>2 DEF Good, Fresh, Truthful, Whole
    <3>4. QED
      BY <3>1, <3>3 DEF Good
  <2>6. ASSUME NEW b \in Backups, b # c PROVE Good(b)'
    BY <1>1, <2>3, <2>6, Others
  <2>7. QED
    BY <2>4, <2>5, <2>6
<1>2. CASE GenerateFails(c) /\ UNCHANGED put
  <2>1. Return(c, "failed")
    BY <1>2 DEF GenerateFails
  <2>2. Shape'
    BY <1>2, <2>1, ReturnEffect DEF Shape
  <2>3. Good(c)'
    BY <1>2, FailureGood DEF Working
  <2>4. ASSUME NEW b \in Backups, b # c PROVE Good(b)'
    BY <1>2, <2>1, <2>4, ReturnEffect, Others
  <2>5. QED
    BY <2>2, <2>3, <2>4
<1>3. QED
  BY <1>1, <1>2 DEF Unanswered, files

\* The parts follow each other from the start of the archive to s.
ChainTo(p, s) ==
    /\ p # << >> => p[1][1] = 0 /\ p[Len(p)][2] = s
    /\ p = << >> => s = 0
    /\ \A i \in 1 .. Len(p) - 1 : p[i][2] = p[i + 1][1]

\* A part that begins where the parts before it end continues their chain.
LEMMA AppendChain ==
    ASSUME NEW p \in Seq(Nat \X Nat), NEW s \in Nat, NEW t \in Nat, ChainTo(p, s)
    PROVE  /\ Append(p, <<s, t>>) \in Seq(Nat \X Nat)
           /\ Len(Append(p, <<s, t>>)) = Len(p) + 1
           /\ Append(p, <<s, t>>) # << >>
           /\ ChainTo(Append(p, <<s, t>>), t)
PROOF
<1> DEFINE q == Append(p, <<s, t>>)
<1>0. /\ p # << >> => p[1][1] = 0 /\ p[Len(p)][2] = s
      /\ p = << >> => s = 0
      /\ \A i \in 1 .. Len(p) - 1 : p[i][2] = p[i + 1][1]
  BY DEF ChainTo
<1>1. PICK n \in Nat : n = Len(p)
  OBVIOUS
<1>2. <<s, t>> \in Nat \X Nat /\ <<s, t>>[1] = s /\ <<s, t>>[2] = t
  OBVIOUS
<1>3. q \in Seq(Nat \X Nat) /\ Len(q) = n + 1
  BY <1>1, <1>2
<1>4. q[n + 1] = <<s, t>> /\ \A i \in 1 .. n : q[i] = p[i]
  BY <1>1, <1>2
<1>5. p = << >> <=> n = 0
  BY <1>1
<1> HIDE DEF q
<1>6. q[1][1] = 0
  <2>1. CASE n = 0
    BY <1>0, <1>2, <1>4, <1>5, <2>1
  <2>2. CASE n # 0
    <3>1. 1 \in 1 .. n
      BY <2>2
    <3>2. QED
      BY <1>0, <1>4, <1>5, <2>2, <3>1
  <2>3. QED
    BY <2>1, <2>2
<1>7. ASSUME NEW i \in 1 .. n PROVE q[i][2] = q[i + 1][1]
  <2>1. q[i] = p[i]
    BY <1>4
  <2>2. CASE i = n
    <3>1. n # 0
      BY <2>2
    <3>2. p[n][2] = s
      BY <1>0, <1>1, <1>5, <3>1
    <3>3. QED
      BY <1>2, <1>4, <2>1, <2>2, <3>2
  <2>3. CASE i # n
    <3>1. i \in 1 .. n - 1 /\ i + 1 \in 1 .. n
      BY <2>3
    <3>2. p[i][2] = p[i + 1][1]
      BY <1>0, <1>1, <3>1
    <3>3. QED
      BY <1>4, <2>1, <3>1, <3>2
  <2>4. QED
    BY <2>2, <2>3
<1>8. 1 .. Len(q) - 1 = 1 .. n
  BY <1>3
<1>9. q # << >>
  BY <1>3
<1>10. q[Len(q)][2] = t
  BY <1>2, <1>3, <1>4
<1>11. ChainTo(q, t)
  BY <1>6, <1>7, <1>8, <1>9, <1>10 DEF ChainTo
<1>12. QED
  BY <1>1, <1>3, <1>9, <1>11 DEF q

\* An answered part continues the parts before it; the last one ends the archive.
LEMMA AnsweredStep ==
    ASSUME BackupInv, NEW c \in Backups, pc[c] = "put", FullBody(c), NEW to,
           to = put[c].pos + put[c].left,
           parts' = [parts EXCEPT ![c] = Append(@, <<put[c].pos, to>>)],
           NextPart(c, Len(parts[c]) + 1, to, put[c].size),
           UNCHANGED <<s3, entries, content, linked, kept, call, listed, cancelled, crashed,
                       excused, faults>>
    PROVE  BackupInv'
PROOF
<1> USE DEF BackupInv
<1> DEFINE p == parts[c]  n == Len(parts[c])  size == put[c].size  q == parts'[c]
<1>1. /\ put[c] \in [size : Nat, pos : Nat, left : Nat, puts : Nat]
      /\ p \in Seq(Nat \X Nat) /\ n \in Nat /\ content[c] \in Nat
  BY DEF Shape
<1>2. Uploading(c) /\ listed[c] # "successful"
      /\ ~(call[c].pc = "trying" /\ call[c].body = "successful")
      /\ (c \notin excused => content[c] = Whole(c))
  BY DEF Good, Truthful
<1>3. n < Urls(size) /\ size = content[c] /\ Chained(c)
  BY <1>2 DEF Uploading
<1>4. /\ Urls(size) \in Nat /\ Start(n) \in Nat /\ Start(0) = 0
      /\ PartLength(n, size) \in Nat /\ Start(n) + PartLength(n, size) <= size
      /\ n + 1 < Urls(size) => Start(n) + PartLength(n, size) = Start(n + 1)
      /\ ~(n + 1 < Urls(size)) => Start(n) + PartLength(n, size) = size
  BY <1>1, <1>3, PartFacts
<1>5. put[c].pos = Start(n) /\ to = Start(n) + PartLength(n, size) /\ to \in Nat
  BY <1>1, <1>2, <1>4 DEF FullBody, Uploading
<1>6. /\ q = Append(p, <<Start(n), to>>)
      /\ \A b \in Backups : b # c => parts'[b] = parts[b]
  BY <1>5 DEF Shape
<1>7. ChainTo(p, Start(n))
  BY <1>1, <1>3, <1>4 DEF Chained, ChainTo
<1>8. /\ q \in Seq(Nat \X Nat) /\ Len(q) = n + 1 /\ q # << >>
      /\ q[1][1] = 0 /\ q[Len(q)][2] = to
      /\ \A i \in 1 .. Len(q) - 1 : q[i][2] = q[i + 1][1]
  <2> HIDE DEF p, q, n, size, BackupInv
  <2>1. p \in Seq(Nat \X Nat) /\ Start(n) \in Nat /\ to \in Nat
    BY <1>1, <1>4, <1>5
  <2>2. /\ Append(p, <<Start(n), to>>) \in Seq(Nat \X Nat)
        /\ Len(Append(p, <<Start(n), to>>)) = Len(p) + 1
        /\ Append(p, <<Start(n), to>>) # << >>
        /\ ChainTo(Append(p, <<Start(n), to>>), to)
    BY <1>7, <2>1, AppendChain
  <2>3. q \in Seq(Nat \X Nat) /\ Len(q) = Len(p) + 1 /\ q # << >> /\ ChainTo(q, to)
    BY <1>6, <2>2
  <2>4. Len(p) = n
    BY DEF p, n
  <2>5. QED
    BY <2>3, <2>4 DEF ChainTo
<1>9. parts' \in [Backups -> Seq(Nat \X Nat)]
  BY <1>8 DEF Shape
<1>10. n + 1 < Urls(size) => to = Start(n + 1)
  BY <1>4, <1>5
<1>11. n + 1 < Urls(size) => Chained(c)'
  BY <1>8, <1>10 DEF Chained
<1>12. ~(n + 1 < Urls(size)) => n + 1 = Urls(size) /\ to = size
  BY <1>1, <1>3, <1>4, <1>5
<1>13. n + 1 = Urls(size) /\ c \notin excused => Assembled(c)'
  <2>1. SUFFICES ASSUME n + 1 = Urls(size), c \notin excused PROVE Assembled(c)'
    OBVIOUS
  <2>2. to = Whole(c)'
    BY <1>1, <1>2, <1>3, <1>4, <1>12, <2>1 DEF Whole
  <2>3. QED
    BY <1>8, <2>2 DEF Assembled
<1>14. /\ Good(c)' /\ put' \in [Backups -> [size : Nat, pos : Nat, left : Nat, puts : Nat]]
       /\ pc' \in [Backups -> {"idle", "ignore", "open", "walk", "close", "size", "urls",
                                "put", "details", "report", "reportFailure", "ended"}]
       /\ \A b \in Backups : b # c => pc'[b] = pc[b] /\ put'[b] = put[b]
  <2>1. n + 1 \in Nat /\ n + 1 <= Urls(size) /\ content[c] <= Whole(c)
        /\ (n + 1 = Urls(size) => to <= size) /\ (Chained(c)' \/ n + 1 = Urls(size))
    BY <1>1, <1>3, <1>4, <1>5, <1>10, <1>11, <1>12 DEF Good, InFile
  <2>2. QED
    BY <1>2, <1>3, <1>5, <1>8, <1>9, <1>10, <1>13, <2>1, NextPartGood
<1>15. Shape'
  BY <1>9, <1>14 DEF Shape, Calls, CallTypeOK
<1>16. ASSUME NEW b \in Backups, b # c PROVE Good(b)'
  BY <1>6, <1>14, <1>16, Others
<1>17. QED
  BY <1>14, <1>15, <1>16

LEMMA UploadPartStep ==
    ASSUME BackupInv, NEW c \in Backups, UploadPart(c)
    PROVE  BackupInv'
PROOF
<1> USE DEF BackupInv
<1>1. /\ pc[c] = "put" /\ put[c].left \in Nat
      /\ UNCHANGED <<s3, entries, content, listed, cancelled, crashed, excused>>
  BY DEF UploadPart, world, Shape, files
<1>2. UNCHANGED faults \/ Fault => faults' \in 0 .. MaxFaults
  BY BackupAssumption DEF Fault, Shape
<1>3. ASSUME NEW n \in 0 .. put[c].left, Unanswered(c, n), UNCHANGED parts,
             UNCHANGED faults \/ Fault
      PROVE  BackupInv'
  BY <1>1, <1>2, <1>3, UnansweredStep
<1>4. CASE /\ IF cancelled THEN UNCHANGED faults ELSE Fault
           /\ \E n \in 0 .. put[c].left : Unanswered(c, n)
           /\ UNCHANGED parts
  BY <1>3, <1>4
<1>5. CASE ~FullBody(c) /\ Unanswered(c, put[c].left) /\ UNCHANGED <<parts, faults>>
  <2>1. put[c].left \in 0 .. put[c].left
    BY <1>1
  <2>2. QED
    BY <1>3, <1>5, <2>1
<1>6. CASE LET to == put[c].pos + put[c].left IN
           /\ FullBody(c) /\ ~cancelled
           /\ parts' = [parts EXCEPT ![c] = Append(@, <<put[c].pos, to>>)]
           /\ NextPart(c, Len(parts[c]) + 1, to, put[c].size)
           /\ UNCHANGED <<linked, kept, call, faults>>
  BY <1>1, <1>6, AnsweredStep
<1>7. CASE Fault /\ GenerateFails(c) /\ UNCHANGED upload
  <2>1. Return(c, "failed") /\ UNCHANGED <<put, parts>> /\ faults' \in 0 .. MaxFaults
    BY <1>2, <1>7 DEF GenerateFails, upload
  <2>2. Shape'
    BY <1>1, <2>1, ReturnEffect DEF Shape
  <2>3. Good(c)'
    BY <1>1, <1>7, <2>1, FailureGood DEF Working
  <2>4. ASSUME NEW b \in Backups, b # c PROVE Good(b)'
    BY <1>1, <2>1, <2>4, ReturnEffect, Others
  <2>5. QED
    BY <2>2, <2>3, <2>4
<1>8. QED
  BY <1>4, <1>5, <1>6, <1>7 DEF UploadPart, files

------------------------------------------------------------------------------
\* Reports, deletions and the crash.

LEMMA AttemptStep ==
    ASSUME BackupInv, NEW c \in Backups, Attempt(c)
    PROVE  BackupInv'
PROOF
<1> USE DEF BackupInv
<1>1. /\ Trying(c)
      /\ UNCHANGED <<pc, s3, entries, content, linked, kept, put, parts, cancelled, crashed, excused>>
  BY DEF Attempt, local, upload, world, files
<1>2. PICK outcome \in Outcomes :
        /\ IF outcome = "ok" \/ (cancelled /\ call[c].body # "urls") THEN UNCHANGED faults ELSE Fault
        /\ RequestOnce(c, outcome)
        /\ IF Processed(outcome) /\ call[c].body # "urls"
           THEN listed' = [listed EXCEPT ![c] = call[c].body] ELSE UNCHANGED listed
  BY DEF Attempt, Outcomes, files
<1>3. faults' \in 0 .. MaxFaults
  BY <1>2, BackupAssumption DEF Fault, Shape
<1>4. /\ call[c] \in [pc : {"trying", "done", "failed"}, body : Bodies, tries : 0 .. MaxTries]
      /\ call[c].tries < MaxTries
  BY <1>1 DEF Trying, Shape, Calls, CallTypeOK, NoCall, Backups
<1> DEFINE tries == call[c].tries + 1
<1>5. PICK to \in {"trying", "done", "failed"} :
        /\ to = "trying" => tries < MaxTries
        /\ call' = [call EXCEPT ![c].pc = to, ![c].tries = tries]
  BY <1>2 DEF RequestOnce, Backoff
<1>6. tries \in 0 .. MaxTries
  BY <1>4, PanelClientAssumption
<1>7. /\ call'[c] = [call[c] EXCEPT !.pc = to, !.tries = tries]
      /\ \A b \in Backups : b # c => call'[b] = call[b]
      /\ call'[c].body = call[c].body /\ call'[c].pc = to /\ call'[c].tries = tries
  BY <1>4, <1>5 DEF Shape, Calls, CallTypeOK, Backups
<1>8. Calls'
  <2>1. call'[c] \in [pc : {"trying", "done", "failed"}, body : Bodies, tries : 0 .. MaxTries]
    BY <1>4, <1>6, <1>7
  <2>2. CallTypeOK'
    BY <1>5, <1>7, <2>1 DEF Shape, Calls, CallTypeOK, Backups
  <2>3. QED
    BY <1>5, <1>7, <2>2 DEF Shape, Calls, Backups
<1>9. /\ listed' \in [Backups -> {"nothing", "successful", "failed"}]
      /\ \A b \in Backups : b # c => listed'[b] = listed[b]
      /\ listed'[c] = "successful" => listed[c] = "successful" \/ call[c].body = "successful"
  BY <1>2, <1>4, BackupAssumption DEF Shape
<1>10. Shape'
  BY <1>1, <1>3, <1>8, <1>9 DEF Shape
<1>11. Good(c)'
  <2>1. call[c].body = "successful" => pc[c] = "report"
    BY <1>1 DEF Good, Truthful, Trying
  <2>2. /\ Assembled(c)' <=> Assembled(c)
        /\ Chained(c)' <=> Chained(c)
        /\ Whole(c)' = Whole(c)
        /\ Stored(c)' <=> Stored(c)
    BY <1>1, SameArchive, SameStored
  <2>3. InFile(c)' /\ Fresh(c)'
    BY <1>1, <2>2 DEF Good, InFile, Fresh
  <2>4. Uploading(c) => Uploading(c)'
    BY <1>1, <2>2 DEF Uploading
  <2>5. Truthful(c)'
    BY <1>1, <1>7, <1>9, <2>1, <2>2, <2>4 DEF Good, Truthful
  <2>6. QED
    BY <2>3, <2>5 DEF Good
<1>12. ASSUME NEW b \in Backups, b # c PROVE Good(b)'
  BY <1>1, <1>7, <1>9, <1>12, Others
<1>13. QED
  BY <1>10, <1>11, <1>12

LEMMA ReportedStep ==
    ASSUME BackupInv, NEW c \in Backups, Reported(c)
    PROVE  BackupInv'
PROOF
<1> USE DEF BackupInv
<1>1. /\ pc[c] \in {"report", "reportFailure"} /\ pc' = [pc EXCEPT ![c] = "ended"]
      /\ call' = [call EXCEPT ![c] = NoCall]
      /\ UNCHANGED <<s3, entries, content, put, parts, listed, cancelled, crashed, faults>>
  BY DEF Reported, GoesTo, upload, world, Returns, files
<1>2. /\ linked' \in [Backups -> BOOLEAN] /\ kept' \subseteq Backups /\ excused \subseteq excused'
      /\ excused' \subseteq Backups
      /\ \A b \in Backups : b # c => linked'[b] = linked[b]
      /\ c \in s3 \/ linked'[c] = linked[c] \/ c \in excused'
  BY DEF Reported, Remove, Shape, files
<1>3. Calls' /\ call'[c].pc = "none" /\ \A b \in Backups : b # c => call'[b] = call[b]
  BY <1>1 DEF Shape, Calls, CallTypeOK, NoCall, Backups
<1>4. Shape'
  BY <1>1, <1>2, <1>3 DEF Shape
<1>5. Good(c)'
  <2>1. pc'[c] = "ended"
    BY <1>1 DEF Shape
  <2>2. c \notin excused' /\ Stored(c) => Stored(c)'
    BY <1>1, <1>2, SameArchive DEF Stored
  <2>3. InFile(c)' /\ Fresh(c)'
    BY <1>1, <2>1 DEF Good, InFile, Whole, Fresh
  <2>4. Truthful(c)'
    BY <1>1, <1>2, <1>3, <2>1, <2>2 DEF Good, Truthful
  <2>5. QED
    BY <2>3, <2>4 DEF Good
<1>6. ASSUME NEW b \in Backups, b # c PROVE Good(b)'
  <2>1. pc'[b] = pc[b]
    BY <1>1, <1>6 DEF Shape
  <2>2. QED
    BY <1>1, <1>2, <1>3, <1>6, <2>1, Others
<1>7. QED
  BY <1>4, <1>5, <1>6

LEMMA DeleteStep ==
    ASSUME BackupInv, NEW c \in Backups, DeleteServerBackup(c)
    PROVE  BackupInv'
PROOF
<1> USE DEF BackupInv
<1>1. UNCHANGED <<pc, s3, entries, content, put, parts, call, listed, cancelled, crashed, faults>>
  BY DEF DeleteServerBackup, upload, world, files
<1>2. /\ linked' \in [Backups -> BOOLEAN] /\ kept' \subseteq Backups /\ excused \subseteq excused'
      /\ excused' \subseteq Backups
      /\ \A b \in Backups : b # c => linked'[b] = linked[b]
      /\ c \in s3 \/ linked'[c] = linked[c] \/ c \in excused'
  BY DEF DeleteServerBackup, Remove, Shape, files
<1>3. Shape'
  BY <1>1, <1>2 DEF Shape, Calls, CallTypeOK
<1>4. Good(c)'
  <2>1. /\ Assembled(c)' <=> Assembled(c)
        /\ Chained(c)' <=> Chained(c)
        /\ Whole(c)' = Whole(c)
    BY <1>1, SameArchive
  <2>2. c \notin excused' /\ Stored(c) => Stored(c)'
    BY <1>1, <1>2, <2>1 DEF Stored
  <2>3. InFile(c)' /\ Fresh(c)'
    BY <1>1, <2>1 DEF Good, InFile, Fresh
  <2>4. Uploading(c) => Uploading(c)'
    BY <1>1, <2>1 DEF Uploading
  <2>5. Truthful(c)'
    BY <1>1, <1>2, <2>1, <2>2, <2>4 DEF Good, Truthful
  <2>6. QED
    BY <2>3, <2>5 DEF Good
<1>5. ASSUME NEW b \in Backups, b # c PROVE Good(b)'
  BY <1>1, <1>2, <1>5, Others
<1>6. QED
  BY <1>3, <1>4, <1>5

LEMMA CrashStep ==
    ASSUME BackupInv, Crash
    PROVE  BackupInv'
PROOF
<1> USE DEF BackupInv
<1>1. /\ pc' = [b \in Backups |-> IF pc[b] = "idle" THEN "idle" ELSE "ended"]
      /\ call' = [b \in Backups |-> NoCall] /\ crashed' = TRUE
      /\ UNCHANGED <<s3, entries, content, linked, kept, put, parts, listed, cancelled, excused, faults>>
  BY DEF Crash, upload, files
<1>2. Calls' /\ \A b \in Backups : call'[b].pc = "none"
  BY <1>1 DEF Calls, CallTypeOK, NoCall, Backups
<1>3. pc' \in [Backups -> {"idle", "ignore", "open", "walk", "close", "size", "urls",
                           "put", "details", "report", "reportFailure", "ended"}]
  BY <1>1
<1>4. Shape'
  BY <1>1, <1>2, <1>3 DEF Shape
<1>5. ASSUME NEW b \in Backups PROVE Good(b)'
  <2>1. pc'[b] = IF pc[b] = "idle" THEN "idle" ELSE "ended"
    BY <1>1
  <2>2. Stored(b)' <=> Stored(b)
    BY <1>1, SameStored
  <2>3. InFile(b)' /\ Fresh(b)'
    BY <1>1, <2>1 DEF Good, InFile, Whole, Fresh
  <2>4. Truthful(b)'
    BY <1>1, <1>2, <2>1, <2>2 DEF Good, Truthful
  <2>5. QED
    BY <2>3, <2>4 DEF Good
<1>6. QED
  BY <1>4, <1>5

LEMMA QuietStep ==
    ASSUME BackupInv, UNCHANGED <<local, upload, call, listed, crashed, excused, faults>>,
           cancelled' \in BOOLEAN
    PROVE  BackupInv'
PROOF
<1> USE DEF BackupInv
<1>1. UNCHANGED <<pc, s3, entries, content, linked, kept, put, parts, call, listed, crashed, excused,
                 faults>>
  BY DEF local, upload, files
<1>2. Shape'
  BY <1>1 DEF Shape, Calls, CallTypeOK
<1>3. ASSUME NEW b \in Backups PROVE Good(b)'
  BY <1>1, Others
<1>4. QED
  BY <1>2, <1>3

LEMMA NextInv == BackupInv /\ [Next]_vars => BackupInv'
PROOF
<1> SUFFICES ASSUME BackupInv, [Next]_vars PROVE BackupInv'
  OBVIOUS
<1>1. ASSUME NEW c \in Backups, PostServerBackup(c) \/ Step(c) \/ DeleteServerBackup(c)
      PROVE  BackupInv'
  BY <1>1, PostStep, IgnoredStep, OpenStep, WalkStep, CloseStep, DetailsStep, SizeStep,
     GetUrlsStep, UploadPartStep, AttemptStep, ReportedStep, DeleteStep DEF Step
<1>2. CASE CtxCancel
  <2>1. cancelled' \in BOOLEAN /\ UNCHANGED <<local, upload, call, listed, crashed, excused, faults>>
    BY <1>2 DEF CtxCancel
  <2>2. QED
    BY <2>1, QuietStep
<1>3. CASE UNCHANGED vars
  <2>1. cancelled' \in BOOLEAN /\ UNCHANGED <<local, upload, call, listed, crashed, excused, faults>>
    BY <1>3 DEF vars, world, BackupInv, Shape
  <2>2. QED
    BY <2>1, QuietStep
<1>4. QED
  BY <1>1, <1>2, <1>3, CrashStep DEF Next, Quiet
------------------------------------------------------------------------------
\* Every variable keeps its type, and an upload stays within its archive, for any
\* number of backups, any archive and any size of the parts.
THEOREM TypeCorrect == Spec => []TypeOK
PROOF
<1>1. BackupInv => TypeOK
  BY DEF BackupInv, Shape, Good, Calls, TypeOK
<1>2. QED
  BY <1>1, InitInv, NextInv, PTL DEF Spec

\* What the panel lists as successful is whole: whatever part of an upload is cut,
\* repeated or refused, and wherever the daemon or the server ends.
THEOREM ListedIsWhole == Spec => []ListedWhole
PROOF
<1>1. BackupInv => ListedWhole
  BY DEF BackupInv, Good, Truthful, Stored, ListedWhole
<1>2. QED
  BY <1>1, InitInv, NextInv, PTL DEF Spec
==============================================================================
