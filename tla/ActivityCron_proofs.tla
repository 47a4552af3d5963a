------------------------- MODULE ActivityCron_proofs -------------------------
(***************************************************************************)
(* Type correctness of module ActivityCron, that no activity is lost, and  *)
(* that none is reported twice, for every number of rows, groups,          *)
(* goroutines and faults, every batch size and every size of a delete      *)
(* statement.                                                              *)
(***************************************************************************)
EXTENDS ActivityCron, FiniteSetTheorems, TLAPS

RunRec ==
    [pc : {"fetch", "purge", "post", "delete"}, job : Jobs, offset : Nat,
     ids : SUBSET Rows, twice : SUBSET Rows, bad : SUBSET Rows]

\* What a run is about to delete has been received, or cannot be sent.
RunOK(t) ==
    runner[t] # Idle =>
        /\ runner[t].bad \subseteq 1 .. next - 1
        /\ runner[t].pc = "purge" => \A i \in runner[t].bad : attr[i] = Invalid
        /\ runner[t].pc = "delete" => \A i \in runner[t].ids : received[i] > 0

\* A request belongs to a run that waits for it, and carries its rows. Once it
\* is done the panel has them.
CallOK(t) ==
    call[t].pc # "none" =>
        /\ runner[t] # Idle /\ runner[t].pc = "post"
        /\ call[t].body.ids = runner[t].ids
        /\ call[t].pc = "trying" => call[t].tries < MaxTries
        /\ call[t].pc = "done" => \A i \in runner[t].ids : received[i] > 0

Saved == table \subseteq 1 .. next - 1

CronInv ==
    /\ TypeOK /\ Saved /\ NothingLost
    /\ \A t \in Threads : RunOK(t) /\ CallOK(t)
------------------------------------------------------------------------------
\* What the steps have in common.

\* A call has the request's fields unless there is none.
LEMMA CallShape ==
    ASSUME CronInv, NEW t \in Threads
    PROVE  /\ call[t].pc = "none" <=> call[t] = Client!NoCall
           /\ call[t].pc # "none" =>
                call[t] \in [pc : {"trying", "done", "failed"}, body : Bodies,
                             tries : 0 .. MaxTries]
PROOF
<1>1. call[t] \in {Client!NoCall} \cup
        [pc : {"trying", "done", "failed"}, body : Bodies, tries : 0 .. MaxTries]
  BY DEF CronInv, TypeOK, Client!CallTypeOK
<1>2. QED
  BY <1>1 DEF Client!NoCall

\* A run has its fields unless the goroutine is idle.
LEMMA RunShape ==
    ASSUME CronInv, NEW t \in Threads
    PROVE  runner[t] # Idle => runner[t] \in RunRec
PROOF BY DEF CronInv, TypeOK, RunRec

\* A goroutine's new record replaces its old one.
LEMMA NowEffect ==
    ASSUME CronInv, NEW t \in Threads, NEW r, r = Idle \/ r \in RunRec, Now(t, r)
    PROVE  /\ runner' \in [Threads -> {Idle} \cup RunRec]
           /\ runner'[t] = r
           /\ \A u \in Threads : u # t => runner'[u] = runner[u]
PROOF BY DEF CronInv, TypeOK, RunRec, Now

\* A run that has begun has a program counter of its own.
LEMMA NotIdle == \A r \in RunRec : r # Idle
PROOF BY DEF RunRec, Idle

\* The end of a run.
LEMMA FinishEffect ==
    ASSUME CronInv, NEW t \in Threads, runner[t] # Idle, Finish(t)
    PROVE  /\ runner' \in [Threads -> {Idle} \cup RunRec]
           /\ mu' \in [Jobs -> BOOLEAN]
           /\ runner'[t] = Idle
           /\ \A u \in Threads : u # t => runner'[u] = runner[u]
PROOF
<1>1. Now(t, Idle) /\ mu' = [mu EXCEPT ![runner[t].job] = FALSE]
  BY DEF Finish
<1>2. mu' \in [Jobs -> BOOLEAN]
  BY <1>1 DEF CronInv, TypeOK
<1>3. QED
  BY <1>1, <1>2, NowEffect

\* A change of the program counter only.
LEMMA StepEffect ==
    ASSUME CronInv, NEW t \in Threads, runner[t] # Idle,
           NEW p \in {"fetch", "purge", "post", "delete"}, Step(t, p)
    PROVE  /\ runner' \in [Threads -> {Idle} \cup RunRec]
           /\ runner'[t] = [runner[t] EXCEPT !.pc = p]
           /\ runner'[t] \in RunRec /\ runner'[t] # Idle
           /\ \A u \in Threads : u # t => runner'[u] = runner[u]
PROOF
<1> DEFINE r == [runner[t] EXCEPT !.pc = p]
<1>1. runner[t] \in RunRec
  BY RunShape
<1>2. r \in RunRec
  BY <1>1 DEF RunRec
<1>3. Now(t, r)
  BY DEF Step
<1> HIDE DEF r
<1>4. /\ runner' \in [Threads -> {Idle} \cup RunRec]
      /\ runner'[t] = r
      /\ \A u \in Threads : u # t => runner'[u] = runner[u]
  BY <1>2, <1>3, NowEffect
<1>5. QED
  BY <1>2, <1>4, NotIdle DEF r

\* The ids of rows, and the facts about them that last.
Lasting ==
    /\ next <= next' /\ \A i \in 1 .. next - 1 : attr'[i] = attr[i]
    /\ \A i \in Rows : received[i] > 0 => received'[i] > 0

\* What is saved stays among the saved.
LEMMA Wider ==
    ASSUME NEW m \in Nat, NEW n \in Nat, m <= n
    PROVE  1 .. m - 1 \subseteq 1 .. n - 1
PROOF OBVIOUS

\* A goroutine keeps its part of the invariant while others work.
LEMMA Others ==
    ASSUME CronInv, TypeOK', Lasting, NEW u \in Threads,
           runner'[u] = runner[u], call'[u] = call[u]
    PROVE  RunOK(u)' /\ CallOK(u)'
PROOF
<1>1. RunOK(u) /\ CallOK(u) /\ next \in Nat /\ next' \in Nat
  BY DEF CronInv, TypeOK
<1>2. 1 .. next - 1 \subseteq 1 .. next' - 1
  <2>1. next <= next'
    BY DEF Lasting
  <2>2. QED
    BY <1>1, <2>1, Wider
<1>3. runner[u] # Idle => runner[u].ids \subseteq Rows
  BY RunShape DEF RunRec
<1>4. RunOK(u)'
  BY <1>1, <1>2, <1>3 DEF RunOK, Lasting
<1>5. CallOK(u)'
  BY <1>1, <1>3 DEF CallOK, Lasting
<1>6. QED
  BY <1>4, <1>5

\* What a step of one goroutine has to show.
LEMMA OneStep ==
    ASSUME CronInv, TypeOK', Lasting, Saved', NothingLost', NEW t \in Threads,
           \A u \in Threads : u # t => runner'[u] = runner[u] /\ call'[u] = call[u],
           RunOK(t)', CallOK(t)'
    PROVE  CronInv'
PROOF
<1>1. ASSUME NEW u \in Threads PROVE RunOK(u)' /\ CallOK(u)'
  <2>1. CASE u = t
    BY <2>1
  <2>2. CASE u # t
    BY <2>2, Others
  <2>3. QED
    BY <2>1, <2>2
<1>2. QED
  BY <1>1 DEF CronInv

\* The rows stay as they are.
LEMMA SameRows ==
    ASSUME CronInv, UNCHANGED <<next, attr, received>>
    PROVE  Lasting
PROOF BY DEF CronInv, TypeOK, Lasting
------------------------------------------------------------------------------
LEMMA InitInv == Init => CronInv
PROOF
<1> SUFFICES ASSUME Init PROVE CronInv
  OBVIOUS
<1>1. TypeOK
  BY ActivityCronAssumption
  DEF Init, TypeOK, Client!CallInit, Client!CallTypeOK, Attrs, Unsaved, Many
<1>2. Saved /\ NothingLost
  BY DEF Init, Saved, NothingLost
<1>3. ASSUME NEW t \in Threads PROVE RunOK(t) /\ CallOK(t)
  BY DEF Init, RunOK, CallOK, Client!CallInit, Client!NoCall
<1>4. QED
  BY <1>1, <1>2, <1>3 DEF CronInv

LEMMA CreateStep ==
    ASSUME CronInv, NEW a \in Attrs, Create(a)
    PROVE  CronInv'
PROOF
<1>1. UNCHANGED <<mu, runner, call, received>> /\ next <= MaxRow
  BY DEF Create, runVars, panelVars
<1>2. CASE /\ table' = table \cup {next} /\ next' = next + 1
           /\ attr' = [attr EXCEPT ![next] = a]
           /\ excused' = excused \cup Shifted(a) /\ UNCHANGED faults
  <2>1. next \in Rows /\ next' \in 1 .. MaxRow + 1
    BY <1>1, <1>2, ActivityCronAssumption DEF CronInv, TypeOK, Rows
  <2>2. Shifted(a) \subseteq Rows
    BY RunShape DEF Shifted, At, RunRec
  <2>3. TypeOK'
    BY <1>1, <1>2, <2>1, <2>2 DEF CronInv, TypeOK, Client!CallTypeOK
  <2>4. Lasting
    BY <1>1, <1>2, <2>1 DEF CronInv, TypeOK, Lasting
  <2>5. Saved'
    BY <1>2, <2>1 DEF CronInv, TypeOK, Saved
  <2>6. NothingLost'
    BY <1>1, <1>2, <2>1 DEF CronInv, TypeOK, NothingLost
  <2>7. QED
    BY <1>1, <2>3, <2>4, <2>5, <2>6, Others DEF CronInv
<1>3. CASE Fault /\ UNCHANGED <<table, next, attr, excused>>
  <2>1. TypeOK'
    BY <1>1, <1>3, ActivityCronAssumption DEF CronInv, TypeOK, Fault, Client!CallTypeOK
  <2>2. Lasting /\ Saved' /\ NothingLost'
    BY <1>1, <1>3, SameRows DEF CronInv, Saved, NothingLost
  <2>3. QED
    BY <1>1, <2>1, <2>2, Others DEF CronInv
<1>4. QED
  BY <1>2, <1>3 DEF Create

LEMMA StartStep ==
    ASSUME CronInv, NEW t \in Threads, NEW j \in Jobs, Start(t, j)
    PROVE  CronInv'
PROOF
<1> DEFINE r == [pc |-> "fetch", job |-> j, offset |-> 0, ids |-> {}, twice |-> {}, bad |-> {}]
<1>1. /\ runner[t] = Idle /\ mu' = [mu EXCEPT ![j] = TRUE] /\ Now(t, r)
      /\ UNCHANGED <<next, attr, table, call, received, excused, faults>>
  BY DEF Start, panelVars
<1>2. r \in RunRec
  BY DEF RunRec
<1> HIDE DEF r
<1>3. /\ runner' \in [Threads -> {Idle} \cup RunRec] /\ runner'[t] = r
      /\ \A u \in Threads : u # t => runner'[u] = runner[u]
  BY <1>1, <1>2, NowEffect
<1>4. mu' \in [Jobs -> BOOLEAN]
  BY <1>1 DEF CronInv, TypeOK
<1>5. TypeOK'
  BY <1>1, <1>3, <1>4 DEF CronInv, TypeOK, RunRec, Client!CallTypeOK
<1>6. Lasting /\ Saved' /\ NothingLost'
  BY <1>1, SameRows DEF CronInv, Saved, NothingLost
<1>7. RunOK(t)'
  BY <1>3 DEF RunOK, r
<1>8. CallOK(t)'
  BY <1>1 DEF CronInv, CallOK
<1>9. QED
  BY <1>1, <1>3, <1>5, <1>6, <1>7, <1>8, OneStep

\* A step that only ends a run and takes rows off the table.
LEMMA EndOfRun ==
    ASSUME CronInv, NEW t \in Threads, runner[t] # Idle, Finish(t),
           UNCHANGED <<next, attr, received>>,
           \A u \in Threads : u # t => call'[u] = call[u],
           call' \in [Threads -> {Client!NoCall} \cup
               [pc : {"trying", "done", "failed"}, body : Bodies, tries : 0 .. MaxTries]],
           call'[t].pc = "none",
           table' \subseteq table, NothingLost',
           excused' \subseteq Rows, faults' \in 0 .. MaxFaults
    PROVE  CronInv'
PROOF
<1>1. /\ runner' \in [Threads -> {Idle} \cup RunRec] /\ mu' \in [Jobs -> BOOLEAN]
      /\ runner'[t] = Idle /\ \A u \in Threads : u # t => runner'[u] = runner[u]
  BY FinishEffect
<1>2. TypeOK'
  BY <1>1 DEF CronInv, TypeOK, RunRec, Client!CallTypeOK, Client!NoCall
<1>3. Lasting /\ Saved'
  BY SameRows DEF CronInv, Saved
<1>4. RunOK(t)' /\ CallOK(t)'
  BY <1>1 DEF RunOK, CallOK
<1>5. QED
  BY <1>1, <1>2, <1>3, <1>4, OneStep

\* A step that goes on with a run without a request, and takes rows off the table.
LEMMA RunGoesOn ==
    ASSUME CronInv, NEW t \in Threads, runner[t] # Idle, call[t].pc = "none",
           NEW r \in RunRec, Now(t, r),
           UNCHANGED <<next, attr, received, mu, call, excused, faults>>,
           table' \subseteq table, NothingLost', RunOK(t)'
    PROVE  CronInv'
PROOF
<1>1. /\ runner' \in [Threads -> {Idle} \cup RunRec] /\ runner'[t] = r
      /\ \A u \in Threads : u # t => runner'[u] = runner[u]
  BY NowEffect
<1>2. TypeOK'
  BY <1>1 DEF CronInv, TypeOK, RunRec, Client!CallTypeOK
<1>3. Lasting /\ Saved'
  BY SameRows DEF CronInv, Saved
<1>4. CallOK(t)'
  BY DEF CallOK
<1>5. QED
  BY <1>1, <1>2, <1>3, <1>4, OneStep

\* A run that is not at its post has no request.
LEMMA NoRequest ==
    ASSUME CronInv, NEW t \in Threads, runner[t] # Idle, runner[t].pc # "post"
    PROVE  call[t].pc = "none"
PROOF BY DEF CronInv, CallOK

LEMMA CallsTyped ==
    ASSUME CronInv
    PROVE  call \in [Threads -> {Client!NoCall} \cup
               [pc : {"trying", "done", "failed"}, body : Bodies, tries : 0 .. MaxTries]]
PROOF BY DEF CronInv, TypeOK, Client!CallTypeOK

LEMMA QueryFailsStep ==
    ASSUME CronInv, NEW t \in Threads, QueryFails(t)
    PROVE  CronInv'
PROOF
<1>1. /\ runner[t] # Idle /\ runner[t].pc \in {"fetch", "purge", "delete"} /\ Fault /\ Finish(t)
      /\ UNCHANGED <<next, attr, table, call, received>>
      /\ excused' = excused \cup (IF runner[t].pc = "delete" THEN runner[t].ids ELSE {})
  BY DEF QueryFails, panelVars
<1>2. call[t].pc = "none"
  BY <1>1, NoRequest
<1>3. excused' \subseteq Rows
  BY <1>1, RunShape DEF RunRec, CronInv, TypeOK
<1>4. faults' \in 0 .. MaxFaults
  BY <1>1, ActivityCronAssumption DEF Fault, CronInv, TypeOK
<1>5. NothingLost'
  BY <1>1 DEF CronInv, NothingLost
<1>6. QED
  BY <1>1, <1>2, <1>3, <1>4, <1>5, CallsTyped, EndOfRun

LEMMA FetchStep ==
    ASSUME CronInv, NEW t \in Threads, Fetch(t)
    PROVE  CronInv'
PROOF
<1> DEFINE bad == {r \in Batch : attr[r] = Invalid}
           r == [runner[t] EXCEPT !.pc = "purge", !.ids = Batch \ bad, !.bad = bad]
<1>1. /\ runner[t] # Idle /\ runner[t].pc = "fetch"
      /\ UNCHANGED <<next, attr, table, call, received, excused, faults>>
  BY DEF Fetch, At, panelVars
<1>2. call[t].pc = "none" /\ NothingLost'
  BY <1>1, NoRequest DEF CronInv, NothingLost
<1>3. CASE Finish(t)
  BY <1>1, <1>2, <1>3, CallsTyped, EndOfRun DEF CronInv, TypeOK
<1>4. CASE Now(t, r) /\ UNCHANGED mu
  <2>1. Batch \subseteq table /\ table \subseteq Rows /\ table \subseteq 1 .. next - 1
    BY DEF Batch, CronInv, TypeOK, Saved
  <2>2. runner[t] \in RunRec
    BY <1>1, RunShape
  <2>3. r \in RunRec /\ r.bad = bad /\ r.pc = "purge"
    BY <2>1, <2>2 DEF RunRec
  <2>4. bad \subseteq 1 .. next - 1 /\ \A i \in bad : attr[i] = Invalid
    BY <2>1
  <2> HIDE DEF r, bad
  <2>5. runner'[t] = r
    BY <1>4, <2>3, NowEffect
  <2>6. RunOK(t)'
    BY <1>1, <2>3, <2>4, <2>5 DEF RunOK
  <2>7. QED
    BY <1>1, <1>2, <1>4, <2>3, <2>6, RunGoesOn
<1>5. QED
  BY <1>3, <1>4 DEF Fetch

LEMMA PurgeStep ==
    ASSUME CronInv, NEW t \in Threads, Purge(t)
    PROVE  CronInv'
PROOF
<1>1. /\ runner[t] # Idle /\ runner[t].pc = "purge" /\ table' = table \ runner[t].bad
      /\ UNCHANGED <<next, attr, call, received, excused, faults>>
  BY DEF Purge, At, panelVars
<1>2. call[t].pc = "none"
  BY <1>1, NoRequest
<1>3. NothingLost'
  BY <1>1 DEF CronInv, NothingLost, RunOK
<1>4. CASE Finish(t)
  BY <1>1, <1>2, <1>3, <1>4, CallsTyped, EndOfRun DEF CronInv, TypeOK
<1>5. CASE Step(t, "post") /\ UNCHANGED mu
  <2>1. /\ runner'[t] = [runner[t] EXCEPT !.pc = "post"] /\ runner'[t] \in RunRec
    BY <1>1, <1>5, StepEffect
  <2>2. RunOK(t)'
    <3>1. runner'[t].pc = "post" /\ runner'[t].bad = runner[t].bad
      BY <1>1, <2>1, RunShape DEF RunRec
    <3>2. QED
      BY <1>1, <3>1 DEF RunOK, CronInv
  <2>3. Now(t, [runner[t] EXCEPT !.pc = "post"])
    BY <1>5 DEF Step
  <2>4. QED
    BY <1>1, <1>2, <1>3, <1>5, <2>1, <2>2, <2>3, RunGoesOn
<1>6. QED
  BY <1>4, <1>5 DEF Purge

\* A page is a finite set of rows.
LEMMA PageFacts ==
    ASSUME CronInv, NEW n
    PROVE  Page(n) \subseteq Rows /\ Cardinality(Page(n)) \in Nat
PROOF
<1>1. Page(n) \subseteq Rows
  BY DEF Page, SftpRows, CronInv, TypeOK
<1>2. IsFiniteSet(Rows)
  BY ActivityCronAssumption, FS_Interval DEF Rows
<1>3. IsFiniteSet(Page(n))
  BY <1>1, <1>2, FS_Subset
<1>4. QED
  BY <1>1, <1>3, FS_CardinalityType

LEMMA FetchRecordsStep ==
    ASSUME CronInv, NEW t \in Threads, FetchRecords(t)
    PROVE  CronInv'
PROOF
<1> DEFINE page == Page(runner[t].offset)
           r == Push(t, page)
<1>1. /\ runner[t] # Idle /\ runner[t].pc = "fetch"
      /\ UNCHANGED <<next, attr, table, call, received, excused, faults>>
  BY DEF FetchRecords, At, panelVars
<1>2. call[t].pc = "none" /\ NothingLost'
  BY <1>1, NoRequest DEF CronInv, NothingLost
<1>3. runner[t] \in RunRec
  BY <1>1, RunShape
<1>4. CASE Now(t, r) /\ UNCHANGED mu
  <2>1. page \subseteq Rows /\ Cardinality(page) \in Nat
    BY PageFacts
  <2> HIDE DEF page
  <2> DEFINE taken == Taken(page, {attr[q] : q \in runner[t].ids})
  <2>2. taken \subseteq Rows
    BY <2>1 DEF Taken
  <2> DEFINE n == runner[t].offset + Cardinality(page)
             x == runner[t].ids \cup taken
             y == runner[t].twice \cup (taken \cap runner[t].ids)
  <2>3. r = [runner[t] EXCEPT !.offset = n, !.ids = x, !.twice = y]
    BY <1>3 DEF Push, RunRec
  <2>4. r \in RunRec /\ r.pc = "fetch" /\ r.bad = runner[t].bad
    <3>1. n \in Nat /\ x \subseteq Rows /\ y \subseteq Rows
      BY <1>3, <2>1, <2>2 DEF RunRec
    <3> HIDE DEF n, x, y, r, taken
    <3>2. QED
      BY <1>1, <1>3, <2>3, <3>1 DEF RunRec
  <2> HIDE DEF r
  <2>5. runner'[t] = r
    BY <1>4, <2>4, NowEffect
  <2>6. RunOK(t)'
    BY <1>1, <2>4, <2>5 DEF RunOK, CronInv
  <2>7. QED
    BY <1>1, <1>2, <1>4, <2>4, <2>6, RunGoesOn
<1>5. CASE Finish(t)
  BY <1>1, <1>2, <1>5, CallsTyped, EndOfRun DEF CronInv, TypeOK
<1>6. CASE Step(t, "post") /\ UNCHANGED mu
  <2>1. /\ runner'[t] = [runner[t] EXCEPT !.pc = "post"] /\ runner'[t] \in RunRec
    BY <1>1, <1>6, StepEffect
  <2>2. RunOK(t)'
    <3>1. runner'[t].pc = "post" /\ runner'[t].bad = runner[t].bad
      BY <1>3, <2>1 DEF RunRec
    <3>2. QED
      BY <1>1, <3>1 DEF RunOK, CronInv
  <2>3. Now(t, [runner[t] EXCEPT !.pc = "post"])
    BY <1>6 DEF Step
  <2>4. QED
    BY <1>1, <1>2, <1>6, <2>1, <2>2, <2>3, RunGoesOn
<1>7. QED
  BY <1>4, <1>5, <1>6 DEF FetchRecords

LEMMA SendStep ==
    ASSUME CronInv, NEW t \in Threads, Send(t)
    PROVE  CronInv'
PROOF
<1> DEFINE body == [ids |-> runner[t].ids, twice |-> runner[t].twice]
           c == [pc |-> "trying", body |-> body, tries |-> 0]
<1>1. /\ runner[t] # Idle /\ runner[t].pc = "post" /\ call' = [call EXCEPT ![t] = c]
      /\ UNCHANGED <<next, attr, table, mu, runner, received, excused, faults>>
  BY DEF Send, Client!Request, runVars
<1>2. body \in Bodies
  BY <1>1, RunShape DEF RunRec, Bodies
<1>3. /\ c \in [pc : {"trying", "done", "failed"}, body : Bodies, tries : 0 .. MaxTries]
      /\ c.pc = "trying" /\ c.body.ids = runner[t].ids /\ c.tries = 0 /\ 0 < MaxTries
  BY <1>2, ActivityCronAssumption
<1> HIDE DEF c
<1>4. /\ call' \in [Threads -> {Client!NoCall} \cup
               [pc : {"trying", "done", "failed"}, body : Bodies, tries : 0 .. MaxTries]]
      /\ call'[t] = c /\ \A u \in Threads : u # t => call'[u] = call[u]
  BY <1>1, <1>3, CallsTyped
<1>5. TypeOK'
  BY <1>1, <1>4 DEF CronInv, TypeOK, Client!CallTypeOK, Client!NoCall
<1>6. Lasting /\ Saved' /\ NothingLost'
  BY <1>1, SameRows DEF CronInv, Saved, NothingLost
<1>7. RunOK(t)'
  BY <1>1 DEF RunOK, CronInv
<1>8. CallOK(t)'
  BY <1>1, <1>3, <1>4 DEF CallOK
<1>9. QED
  BY <1>1, <1>4, <1>5, <1>6, <1>7, <1>8, OneStep

\* The panel never forgets; whoever it is told of has been received.
LEMMA Received ==
    ASSUME NEW n \in 0 .. Many, NEW m \in Nat
    PROVE  /\ AtMost(n + m, Many) \in 0 .. Many
           /\ n > 0 \/ m > 0 => AtMost(n + m, Many) > 0
PROOF BY DEF AtMost, Many

\* An attempt: the request of a run at its post, and what becomes of it.
LEMMA AttemptEffect ==
    ASSUME CronInv, NEW t \in Threads, NEW o \in Client!Outcomes, Attempt(t, o)
    PROVE  LET body == call[t].body
               times(r) == IF r \in body.twice THEN 2 ELSE IF r \in body.ids THEN 1 ELSE 0
               tries == call[t].tries + 1
           IN
           /\ call[t].pc = "trying" /\ tries \in 0 .. MaxTries
           /\ runner[t] # Idle /\ runner[t].pc = "post"
           /\ body.ids = runner[t].ids /\ body.ids \subseteq Rows
           /\ IF o = "ok" THEN UNCHANGED faults ELSE Fault
           /\ IF Client!Processed(o)
                THEN received' = [r \in Rows |-> AtMost(received[r] + times(r), Many)]
                ELSE UNCHANGED received
           /\ excused' = excused \cup (IF o = "lost" THEN body.ids ELSE {})
           /\ UNCHANGED <<next, attr, table, mu, runner>>
           /\ call' \in [Threads -> {Client!NoCall} \cup
                [pc : {"trying", "done", "failed"}, body : Bodies, tries : 0 .. MaxTries]]
           /\ o = "ok" => call'[t].pc = "done"
           /\ o # "ok" => \/ call'[t].pc = "failed"
                          \/ call'[t].pc = "trying" /\ tries < MaxTries
           /\ call'[t].tries = tries /\ call'[t].body = body
           /\ \A u \in Threads : u # t => call'[u] = call[u]
PROOF
<1> DEFINE body == call[t].body
           times(r) == IF r \in body.twice THEN 2 ELSE IF r \in body.ids THEN 1 ELSE 0
           tries == call[t].tries + 1
<1>1. /\ call[t].pc = "trying" /\ Client!RequestOnce(t, o)
      /\ IF o = "ok" THEN UNCHANGED faults ELSE Fault
      /\ IF Client!Processed(o)
           THEN received' = [r \in Rows |-> AtMost(received[r] + times(r), Many)]
           ELSE UNCHANGED received
      /\ excused' = excused \cup (IF o = "lost" THEN body.ids ELSE {})
      /\ UNCHANGED <<next, attr, table, mu, runner>>
  BY DEF Attempt, runVars, Client!RequestOnce, Client!Trying
<1>2. /\ call[t] \in [pc : {"trying", "done", "failed"}, body : Bodies, tries : 0 .. MaxTries]
      /\ call[t].tries < MaxTries /\ body.ids \subseteq Rows
      /\ runner[t] # Idle /\ runner[t].pc = "post" /\ body.ids = runner[t].ids
  <2>1. call[t] \in [pc : {"trying", "done", "failed"}, body : Bodies, tries : 0 .. MaxTries]
    BY <1>1, CallShape
  <2>2. body \in Bodies
    BY <2>1
  <2>3. body.ids \subseteq Rows
    BY <2>2 DEF Bodies
  <2>4. CallOK(t)
    BY DEF CronInv
  <2>5. QED
    BY <1>1, <2>1, <2>3, <2>4 DEF CallOK
<1>3. PICK p \in {"trying", "done", "failed"} :
        /\ o = "ok" => p = "done"
        /\ o # "ok" => p = "failed" \/ (p = "trying" /\ tries < MaxTries)
        /\ call' = [call EXCEPT ![t].pc = p, ![t].tries = tries]
  BY <1>1 DEF Client!RequestOnce, Client!Backoff, Client!Outcomes
<1>4. tries \in 0 .. MaxTries
  BY <1>2, ActivityCronAssumption
<1>5. /\ call' \in [Threads -> {Client!NoCall} \cup
               [pc : {"trying", "done", "failed"}, body : Bodies, tries : 0 .. MaxTries]]
      /\ call'[t].pc = p /\ call'[t].tries = tries /\ call'[t].body = body
      /\ \A u \in Threads : u # t => call'[u] = call[u]
  <2> DEFINE c == [call[t] EXCEPT !.pc = p, !.tries = tries]
  <2>1. call' = [call EXCEPT ![t] = c]
    BY <1>3, CallsTyped
  <2>2. /\ c \in [pc : {"trying", "done", "failed"}, body : Bodies, tries : 0 .. MaxTries]
        /\ c.pc = p /\ c.tries = tries /\ c.body = body
    BY <1>2, <1>4
  <2> HIDE DEF c
  <2>3. QED
    BY <2>1, <2>2, CallsTyped
<1>6. QED
  BY <1>1, <1>2, <1>3, <1>4, <1>5

LEMMA AttemptStep ==
    ASSUME CronInv, NEW t \in Threads, NEW o \in Client!Outcomes, Attempt(t, o)
    PROVE  CronInv'
PROOF
<1> DEFINE body == call[t].body
           times(r) == IF r \in body.twice THEN 2 ELSE IF r \in body.ids THEN 1 ELSE 0
           tries == call[t].tries + 1
           p == call'[t].pc
<1>1. /\ IF o = "ok" THEN UNCHANGED faults ELSE Fault
      /\ IF Client!Processed(o)
           THEN received' = [r \in Rows |-> AtMost(received[r] + times(r), Many)]
           ELSE UNCHANGED received
      /\ excused' = excused \cup (IF o = "lost" THEN body.ids ELSE {})
      /\ UNCHANGED <<next, attr, table, mu, runner>>
  BY AttemptEffect
<1>2. /\ call[t].pc = "trying" /\ body.ids \subseteq Rows
      /\ runner[t] # Idle /\ runner[t].pc = "post" /\ body.ids = runner[t].ids
  BY AttemptEffect
<1>3. /\ o = "ok" => p = "done"
      /\ o # "ok" => p = "failed" \/ (p = "trying" /\ tries < MaxTries)
  BY AttemptEffect
<1>4. /\ call' \in [Threads -> {Client!NoCall} \cup
               [pc : {"trying", "done", "failed"}, body : Bodies, tries : 0 .. MaxTries]]
      /\ call'[t].tries = tries /\ call'[t].body = body
      /\ \A u \in Threads : u # t => call'[u] = call[u]
  BY AttemptEffect
<1> HIDE DEF p
<1>5. /\ received' \in [Rows -> 0 .. Many]
      /\ \A i \in Rows : received[i] > 0 => received'[i] > 0
      /\ p = "done" => \A i \in body.ids : received'[i] > 0
  <2>1. received \in [Rows -> 0 .. Many]
    BY DEF CronInv, TypeOK
  <2>2. \A i \in Rows : times(i) \in Nat /\ (i \in body.ids => times(i) > 0)
    OBVIOUS
  <2>3. CASE Client!Processed(o)
    <3> HIDE DEF times
    <3>1. received' = [r \in Rows |-> AtMost(received[r] + times(r), Many)]
      BY <1>1, <2>3
    <3>2. \A i \in Rows : /\ received'[i] \in 0 .. Many
                          /\ received[i] > 0 \/ times(i) > 0 => received'[i] > 0
      BY <2>1, <2>2, <3>1, Received
    <3>3. QED
      BY <1>2, <2>2, <3>1, <3>2
  <2>4. CASE ~Client!Processed(o)
    <3>1. o # "ok" /\ received' = received
      BY <1>1, <2>4 DEF Client!Processed
    <3>2. QED
      BY <1>3, <2>1, <3>1
  <2>5. QED
    BY <2>3, <2>4
<1>6. faults' \in 0 .. MaxFaults /\ excused' \subseteq Rows
  BY <1>1, <1>2, ActivityCronAssumption DEF CronInv, TypeOK, Fault
<1>7. TypeOK'
  BY <1>1, <1>4, <1>5, <1>6 DEF CronInv, TypeOK, Client!CallTypeOK, Client!NoCall
<1>8. Lasting
  BY <1>1, <1>5 DEF CronInv, TypeOK, Lasting
<1>9. Saved' /\ NothingLost'
  <2>1. 1 .. next - 1 \subseteq Rows
    BY ActivityCronAssumption DEF CronInv, TypeOK, Rows
  <2>2. QED
    BY <1>1, <1>5, <2>1 DEF CronInv, Saved, NothingLost
<1>10. RunOK(t)'
  BY <1>1, <1>2 DEF RunOK, CronInv
<1>11. CallOK(t)'
  BY <1>1, <1>2, <1>3, <1>4, <1>5 DEF CallOK, p
<1>12. QED
  BY <1>1, <1>4, <1>7, <1>8, <1>9, <1>10, <1>11, OneStep

LEMMA SentStep ==
    ASSUME CronInv, NEW t \in Threads, Sent(t)
    PROVE  CronInv'
PROOF
<1>1. /\ call[t].pc \in {"done", "failed"} /\ call' = [call EXCEPT ![t] = Client!NoCall]
      /\ UNCHANGED <<next, attr, table, received, excused, faults>>
  BY DEF Sent, Client!Returns
<1>2. /\ call' \in [Threads -> {Client!NoCall} \cup
               [pc : {"trying", "done", "failed"}, body : Bodies, tries : 0 .. MaxTries]]
      /\ call'[t] = Client!NoCall /\ \A u \in Threads : u # t => call'[u] = call[u]
  BY <1>1, CallsTyped
<1>3. call'[t].pc = "none"
  BY <1>2 DEF Client!NoCall
<1>4. CallOK(t) /\ RunOK(t) /\ runner[t] # Idle
  BY <1>1 DEF CronInv, CallOK
<1>5. NothingLost'
  BY <1>1 DEF CronInv, NothingLost
<1>6. CASE Finish(t)
  BY <1>1, <1>2, <1>3, <1>4, <1>5, <1>6, EndOfRun DEF CronInv, TypeOK
<1>7. CASE call[t].pc = "done" /\ Step(t, "delete") /\ UNCHANGED mu
  <2>1. /\ runner' \in [Threads -> {Idle} \cup RunRec]
        /\ runner'[t] = [runner[t] EXCEPT !.pc = "delete"] /\ runner'[t] \in RunRec
        /\ \A u \in Threads : u # t => runner'[u] = runner[u]
    BY <1>4, <1>7, StepEffect
  <2>2. /\ runner'[t].bad = runner[t].bad /\ runner'[t].pc = "delete"
        /\ runner'[t].ids = runner[t].ids
    BY <1>4, <2>1, RunShape DEF RunRec
  <2>3. TypeOK'
    BY <1>1, <1>2, <1>7, <2>1 DEF CronInv, TypeOK, RunRec, Client!CallTypeOK, Client!NoCall
  <2>4. Lasting /\ Saved'
    BY <1>1, SameRows DEF CronInv, Saved
  <2>5. RunOK(t)'
    BY <1>1, <1>4, <1>7, <2>2 DEF RunOK, CallOK
  <2>6. CallOK(t)'
    BY <1>3 DEF CallOK
  <2>7. QED
    BY <1>2, <1>5, <2>1, <2>3, <2>4, <2>5, <2>6, OneStep
<1>8. QED
  BY <1>6, <1>7 DEF Sent, Client!Returns

LEMMA DeleteStep ==
    ASSUME CronInv, NEW t \in Threads, Delete(t)
    PROVE  CronInv'
PROOF
<1>1. /\ runner[t] # Idle /\ runner[t].pc = "delete"
      /\ UNCHANGED <<next, attr, call, received, excused, faults>>
  BY DEF Delete, panelVars
<1>2. PICK ids \in SUBSET runner[t].ids :
        /\ table' = table \ ids
        /\ \/ Finish(t)
           \/ Now(t, [runner[t] EXCEPT !.ids = @ \ ids]) /\ UNCHANGED mu
  BY DEF Delete
<1>3. call[t].pc = "none"
  BY <1>1, NoRequest
<1>4. runner[t] \in RunRec /\ \A i \in runner[t].ids : received[i] > 0
  BY <1>1, RunShape DEF CronInv, RunOK
<1>5. NothingLost'
  BY <1>1, <1>2, <1>4 DEF CronInv, NothingLost
<1>6. CASE Finish(t)
  BY <1>1, <1>2, <1>3, <1>5, <1>6, CallsTyped, EndOfRun DEF CronInv, TypeOK
<1>7. CASE Now(t, [runner[t] EXCEPT !.ids = @ \ ids]) /\ UNCHANGED mu
  <2> DEFINE r == [runner[t] EXCEPT !.ids = @ \ ids]
  <2>1. r \in RunRec /\ r.pc = "delete" /\ r.bad = runner[t].bad /\ r.ids = runner[t].ids \ ids
    BY <1>1, <1>4 DEF RunRec
  <2>2. Now(t, r)
    BY <1>7
  <2> HIDE DEF r
  <2>3. runner'[t] = r
    BY <2>1, <2>2, NowEffect
  <2>4. RunOK(t)'
    BY <1>1, <1>4, <2>1, <2>3 DEF RunOK, CronInv
  <2>5. QED
    BY <1>1, <1>2, <1>3, <1>5, <1>7, <2>1, <2>2, <2>4, RunGoesOn
<1>8. QED
  BY <1>2, <1>6, <1>7

LEMMA CrashStep ==
    ASSUME CronInv, Crash
    PROVE  CronInv'
PROOF
<1>1. /\ Fault /\ mu' = [j \in Jobs |-> FALSE] /\ runner' = [t \in Threads |-> Idle]
      /\ call' = [t \in Threads |-> Client!NoCall] /\ excused' \subseteq excused \cup Rows
      /\ UNCHANGED <<next, attr, table, received>>
  BY DEF Crash
<1>2. TypeOK'
  BY <1>1, ActivityCronAssumption DEF CronInv, TypeOK, Fault, Client!CallTypeOK
<1>3. Saved' /\ NothingLost'
  BY <1>1 DEF CronInv, Saved, NothingLost
<1>4. \A t \in Threads : RunOK(t)' /\ CallOK(t)'
  BY <1>1 DEF RunOK, CallOK, Client!NoCall
<1>5. QED
  BY <1>2, <1>3, <1>4 DEF CronInv

LEMMA NextInv ==
    ASSUME CronInv, [Next]_vars
    PROVE  CronInv'
PROOF
<1>1. CASE SaveActivity \/ Log
  BY <1>1, CreateStep DEF SaveActivity, Log, Attrs
<1>2. ASSUME NEW t \in Threads, Run(t) \/ Fails(t) PROVE CronInv'
  BY <1>2, FetchStep, PurgeStep, FetchRecordsStep, SendStep, SentStep, DeleteStep, AttemptStep,
     QueryFailsStep DEF Run, Fails, Client!Outcomes
<1>3. ASSUME NEW t \in Threads, NEW j \in Jobs, Start(t, j) PROVE CronInv'
  BY <1>3, StartStep
<1>4. CASE Crash
  BY <1>4, CrashStep
<1>5. CASE UNCHANGED vars
  <2>1. TypeOK' /\ Saved' /\ NothingLost'
    BY <1>5 DEF vars, CronInv, TypeOK, Saved, NothingLost, Client!CallTypeOK
  <2>2. \A t \in Threads : RunOK(t)' /\ CallOK(t)'
    BY <1>5 DEF vars, CronInv, RunOK, CallOK
  <2>3. QED
    BY <2>1, <2>2 DEF CronInv
<1>6. QED
  BY <1>1, <1>2, <1>3, <1>4, <1>5 DEF Next

\* The state of the table, the jobs and their requests keeps its type (activityCron,
\* sftpCron): a delete only ever names rows, a request is tried within its limit.
THEOREM TypeCorrect == Spec => []TypeOK
PROOF
<1>1. CronInv => TypeOK
  BY DEF CronInv
<1>2. QED
  BY <1>1, InitInv, NextInv, PTL DEF Spec

\* No activity is lost (Run of both jobs): whatever fails, crashes, is repeated or
\* skipped, a saved row is in the table until the panel has it, unless its address
\* was invalid.
THEOREM NoActivityLost == Spec => []NothingLost
PROOF
<1>1. CronInv => NothingLost
  BY DEF CronInv
<1>2. QED
  BY <1>1, InitInv, NextInv, PTL DEF Spec
------------------------------------------------------------------------------
\* At most once: whose rows are whose, and which of them the panel has.

\* A run whose rows the panel has, and which deletes them.
Holder(t) == runner[t] # Idle /\ (runner[t].pc = "delete" \/ call[t].pc = "done")

\* A row that the panel has and must not be told of again.
Told(r) == received[r] > 0 /\ r \notin excused

\* A job has one run at a time.
Serial ==
    /\ \A t \in Threads : runner[t] # Idle => mu[runner[t].job]
    /\ \A t, u \in Threads :
         runner[t] # Idle /\ runner[u] # Idle /\ runner[t].job = runner[u].job => t = u

\* The rows of a run are its job's; what it sends twice is excused.
OwnOK(t) ==
    runner[t] # Idle =>
        /\ runner[t].ids \subseteq 1 .. next - 1
        /\ \A r \in runner[t].ids : attr[r] \in Groups <=> runner[t].job = "sftp"
        /\ runner[t].twice \subseteq (1 .. next - 1) \cap excused
        /\ call[t].pc # "none" => call[t].body.twice = runner[t].twice

\* What a run is going to send has not been sent.
FreshOK(t) ==
    runner[t] # Idle /\ ~Holder(t) => \A r \in runner[t].ids : ~Told(r)

\* The rows that the SFTP job has read are in front of its offset.
PageOK(t) ==
    At(t, "sftp", "fetch") =>
        \A r \in runner[t].ids \ excused : Rank(r) < runner[t].offset

\* A row that was sent is in the table only until the run that sent it deletes it.
HeldOK ==
    \A r \in table : Told(r) => \E t \in Threads : Holder(t) /\ r \in runner[t].ids

Unborn == \A r \in Rows : r >= next => received[r] = 0

OnceInv ==
    /\ CronInv /\ Serial /\ HeldOK /\ Unborn /\ AtMostOnce
    /\ \A t \in Threads : OwnOK(t) /\ FreshOK(t) /\ PageOK(t)
------------------------------------------------------------------------------
\* The order of the SFTP job's query.

\* The rows of the job are a finite set of numbered rows, whose attributes are numbers.
LEMMA SftpFinite ==
    ASSUME TypeOK
    PROVE  /\ SftpRows \subseteq Rows /\ IsFiniteSet(SftpRows)
           /\ \A r \in SftpRows : r \in Nat /\ attr[r] \in Nat
<1>1. SftpRows \subseteq Rows
  BY DEF SftpRows, TypeOK
<1>2. IsFiniteSet(Rows)
  BY ActivityCronAssumption, FS_Interval DEF Rows
<1>3. IsFiniteSet(SftpRows)
  BY <1>1, <1>2, FS_Subset
<1>4. \A r \in SftpRows : r \in Nat /\ attr[r] \in Nat
  <2>1. \A r \in Rows : r \in Nat
    BY ActivityCronAssumption DEF Rows
  <2>2. \A g \in Groups : g \in Nat
    BY ActivityCronAssumption
  <2>3. QED  BY <1>1, <2>1, <2>2 DEF SftpRows
<1>5. QED  BY <1>1, <1>3, <1>4

LEMMA RankNat ==
    ASSUME TypeOK, NEW r
    PROVE  IsFiniteSet({q \in SftpRows : Before(q, r)}) /\ Rank(r) \in Nat
<1>1. IsFiniteSet({q \in SftpRows : Before(q, r)})
  BY SftpFinite, FS_Subset
<1>2. QED  BY <1>1, FS_CardinalityType DEF Rank

\* A row in front of another has a smaller rank.
LEMMA RankOrder ==
    ASSUME TypeOK, NEW q \in SftpRows, NEW r \in SftpRows, Before(q, r)
    PROVE  Rank(q) < Rank(r)
<1> DEFINE A == {x \in SftpRows : Before(x, q)}
           B == {x \in SftpRows : Before(x, r)}
<1>1. q \notin A /\ A \cup {q} \subseteq B
  BY SftpFinite DEF Before
<1>2. IsFiniteSet(A) /\ IsFiniteSet(B) /\ Rank(q) = Cardinality(A) /\ Rank(r) = Cardinality(B)
  BY RankNat DEF Rank
<1>3. Cardinality(A) \in Nat /\ Cardinality(B) \in Nat
  BY <1>2, FS_CardinalityType
<1> HIDE DEF A, B
<1>4. Cardinality(A \cup {q}) = Cardinality(A) + 1
  BY <1>1, <1>2, FS_AddElement
<1>5. Cardinality(A \cup {q}) <= Cardinality(B)
  BY <1>1, <1>2, FS_Subset
<1>6. QED  BY <1>2, <1>3, <1>4, <1>5

LEMMA RankDistinct ==
    ASSUME TypeOK, NEW q \in SftpRows, NEW r \in SftpRows, Rank(q) = Rank(r)
    PROVE  q = r
<1>1. q = r \/ Before(q, r) \/ Before(r, q)
  BY SftpFinite DEF Before
<1>2. Rank(q) \in Nat /\ Rank(r) \in Nat
  BY RankNat
<1>3. QED  BY <1>1, <1>2, RankOrder

\* At most n rows have a rank below n.
LEMMA FewInFront ==
    ASSUME TypeOK, NEW n \in Nat
    PROVE  LET L == {q \in SftpRows : Rank(q) < n} IN
           IsFiniteSet(L) /\ Cardinality(L) <= n
<1> DEFINE L == {q \in SftpRows : Rank(q) < n}
           f == [q \in L |-> Rank(q)]
<1>1. f \in [L -> 0 .. n - 1]
  <2>1. \A q \in L : Rank(q) \in Nat /\ Rank(q) < n
    BY RankNat
  <2>2. \A q \in L : Rank(q) \in 0 .. n - 1
    BY <2>1
  <2>3. QED  BY <2>2
<1>2. \A q, r \in L : f[q] = f[r] => q = r
  BY RankDistinct
<1>3. f \in Injection(L, 0 .. n - 1)
  BY <1>1, <1>2 DEF Injection, IsInjective
<1>4. IsFiniteSet(0 .. n - 1) /\ Cardinality(0 .. n - 1) = n
  BY FS_Interval
<1> HIDE DEF f
<1>5. IsFiniteSet(L) /\ Cardinality(L) <= Cardinality(0 .. n - 1)
  BY <1>3, <1>4, FS_Injection
<1>6. QED  BY <1>4, <1>5

\* A page ends within its length of its offset.
LEMMA PageCount ==
    ASSUME TypeOK, NEW n \in Nat, NEW r \in Page(n)
    PROVE  Rank(r) < n + Cardinality(Page(n))
<1> DEFINE L == {q \in SftpRows : Rank(q) < n}
           P == Page(n) \ {r}
           F == {q \in SftpRows : Before(q, r)}
<1>1. r \in SftpRows /\ Rank(r) < n + Max
  BY DEF Page
<1>2. F \subseteq L \cup P
  <2> SUFFICES ASSUME NEW q \in F, q \notin L PROVE q \in P
    OBVIOUS
  <2>1. Rank(q) < Rank(r)
    BY <1>1, RankOrder
  <2>2. Rank(q) \in Nat /\ Rank(r) \in Nat
    BY RankNat
  <2>3. q # r
    BY <2>1, <2>2
  <2>4. Rank(q) >= n /\ Rank(q) < n + Max
    BY <1>1, <2>1, <2>2, ActivityCronAssumption
  <2>5. QED  BY <2>3, <2>4 DEF Page
<1>3. IsFiniteSet(Page(n))
  <2>1. Page(n) \subseteq SftpRows
    BY DEF Page
  <2>2. QED  BY <2>1, SftpFinite, FS_Subset
<1>4. IsFiniteSet(P) /\ Cardinality(P) = Cardinality(Page(n)) - 1
  BY <1>3, FS_RemoveElement
<1>5. IsFiniteSet(L) /\ Cardinality(L) <= n
  BY FewInFront
<1>6. Rank(r) = Cardinality(F) /\ IsFiniteSet(F)
  BY RankNat DEF Rank
<1> HIDE DEF L, P, F
<1>7. Cardinality(L) \in Nat /\ Cardinality(P) \in Nat /\ Cardinality(F) \in Nat
      /\ Cardinality(Page(n)) \in Nat
  BY <1>3, <1>4, <1>5, <1>6, FS_CardinalityType
<1>8. /\ IsFiniteSet(L \cup P) /\ IsFiniteSet(L \cap P)
      /\ Cardinality(L \cup P) = Cardinality(L) + Cardinality(P) - Cardinality(L \cap P)
  BY <1>4, <1>5, FS_Union, FS_Subset
<1>9. Cardinality(L \cap P) \in Nat
  BY <1>8, FS_CardinalityType
<1>10. Cardinality(F) <= Cardinality(L \cup P)
  BY <1>2, <1>8, FS_Subset
<1>11. QED  BY <1>4, <1>5, <1>6, <1>7, <1>8, <1>9, <1>10

\* Rows that go make no rank larger.
LEMMA RankShrinks ==
    ASSUME TypeOK, UNCHANGED attr, table' \subseteq table, NEW r
    PROVE  Rank(r)' \in Nat /\ Rank(r)' <= Rank(r)
<1> DEFINE A == {q \in SftpRows : Before(q, r)}
           B == {q \in SftpRows' : Before(q, r)'}
<1>1. B \subseteq A
  BY DEF SftpRows, Before
<1>2. IsFiniteSet(A) /\ Rank(r) = Cardinality(A) /\ Rank(r)' = Cardinality(B)
  BY RankNat DEF Rank
<1> HIDE DEF A, B
<1>3. IsFiniteSet(B) /\ Cardinality(B) <= Cardinality(A)
  BY <1>1, <1>2, FS_Subset
<1>4. QED  BY <1>2, <1>3, FS_CardinalityType
------------------------------------------------------------------------------
\* What a step has to leave of the others' rows.
LEMMA OtherOnce ==
    ASSUME OnceInv, NEW u \in Threads, runner'[u] = runner[u], call'[u] = call[u],
           next' \in Nat, next <= next', \A i \in 1 .. next - 1 : attr'[i] = attr[i],
           excused \subseteq excused',
           runner[u] # Idle => \A r \in runner[u].ids : Told(r)' => Told(r),
           At(u, "sftp", "fetch") =>
               \A r \in runner[u].ids \ excused' : Rank(r)' \in Nat /\ Rank(r)' <= Rank(r)
    PROVE  OwnOK(u)' /\ FreshOK(u)' /\ PageOK(u)'
<1>1. OwnOK(u) /\ FreshOK(u) /\ PageOK(u) /\ TypeOK /\ CronInv
  BY DEF OnceInv, CronInv
<1>2. 1 .. next - 1 \subseteq 1 .. next' - 1
  <2>1. next \in Nat
    BY <1>1 DEF TypeOK
  <2>2. QED  BY <2>1, Wider
<1>3. OwnOK(u)'
  BY <1>1, <1>2 DEF OwnOK
<1>4. FreshOK(u)'
  BY <1>1 DEF FreshOK, Holder
<1>5. PageOK(u)'
  <2> SUFFICES ASSUME At(u, "sftp", "fetch"), NEW r \in runner[u].ids, r \notin excused'
               PROVE  Rank(r)' < runner[u].offset
    BY DEF PageOK, At
  <2>1. Rank(r) < runner[u].offset
    BY <1>1 DEF PageOK
  <2>2. Rank(r)' \in Nat /\ Rank(r)' <= Rank(r)
    BY DEF At
  <2>3. Rank(r) \in Nat /\ runner[u].offset \in Nat
    BY <1>1, RankNat, RunShape DEF At, RunRec
  <2>4. QED  BY <2>1, <2>2, <2>3
<1>6. QED  BY <1>3, <1>4, <1>5

\* A step of one goroutine that tells the panel nothing and saves no row.
LEMMA QuietStep ==
    ASSUME OnceInv, CronInv', NEW t \in Threads,
           \A u \in Threads : u # t => runner'[u] = runner[u] /\ call'[u] = call[u],
           UNCHANGED <<next, attr, received>>, table' \subseteq table, excused \subseteq excused',
           Serial', OwnOK(t)', FreshOK(t)', PageOK(t)',
           \A r \in table' : Told(r)' /\ Holder(t) /\ r \in runner[t].ids =>
               Holder(t)' /\ r \in runner'[t].ids
    PROVE  OnceInv'
<1>0. TypeOK /\ CronInv
  BY DEF OnceInv, CronInv
<1>1. \A r : Told(r)' => Told(r)
  BY DEF Told
<1>2. ASSUME NEW u \in Threads PROVE OwnOK(u)' /\ FreshOK(u)' /\ PageOK(u)'
  <2>1. CASE u = t
    BY <2>1
  <2>2. CASE u # t
    <3>1. \A r : Rank(r)' \in Nat /\ Rank(r)' <= Rank(r)
      BY <1>0, RankShrinks
    <3>2. next' \in Nat /\ next <= next'
      BY <1>0 DEF TypeOK
    <3>3. QED  BY <1>1, <2>2, <3>1, <3>2, OtherOnce
  <2>3. QED  BY <2>1, <2>2
<1>3. HeldOK'
  <2> SUFFICES ASSUME NEW r \in table', Told(r)'
               PROVE  \E u \in Threads : Holder(u)' /\ r \in runner'[u].ids
    BY DEF HeldOK
  <2>1. PICK u \in Threads : Holder(u) /\ r \in runner[u].ids
    BY <1>1 DEF OnceInv, HeldOK
  <2>2. Holder(u)' /\ r \in runner'[u].ids
    BY <2>1 DEF Holder
  <2>3. QED  BY <2>2
<1>4. Unborn' /\ AtMostOnce'
  BY DEF OnceInv, Unborn, AtMostOnce
<1>5. QED  BY <1>2, <1>3, <1>4 DEF OnceInv

\* A run goes on with the same job.
LEMMA SerialGoesOn ==
    ASSUME OnceInv, NEW t \in Threads, runner[t] # Idle, runner'[t].job = runner[t].job,
           UNCHANGED mu, \A u \in Threads : u # t => runner'[u] = runner[u]
    PROVE  Serial'
<1>1. \A u \in Threads : runner'[u] # Idle => runner[u] # Idle /\ runner'[u].job = runner[u].job
  OBVIOUS
<1>2. QED  BY <1>1 DEF OnceInv, Serial

\* A run ends: its rows in the table, if the panel has them, are excused.
LEMMA EndOnce ==
    ASSUME OnceInv, CronInv', NEW t \in Threads, runner[t] # Idle, Finish(t),
           \A u \in Threads : u # t => call'[u] = call[u],
           UNCHANGED <<next, attr, received>>, table' \subseteq table, excused \subseteq excused',
           Holder(t) => \A r \in runner[t].ids \cap table' : ~Told(r)'
    PROVE  OnceInv'
<1>0. CronInv /\ Serial
  BY DEF OnceInv
<1>1. runner'[t] = Idle /\ \A u \in Threads : u # t => runner'[u] = runner[u]
  BY <1>0, FinishEffect
<1>2. Serial'
  <2>1. mu' = [mu EXCEPT ![runner[t].job] = FALSE]
    BY DEF Finish
  <2>2. ASSUME NEW u \in Threads, runner'[u] # Idle PROVE mu'[runner'[u].job]
    <3>1. u # t /\ runner'[u] = runner[u] /\ runner[u].job # runner[t].job
      BY <1>0, <1>1, <2>2 DEF Serial
    <3>2. mu[runner[u].job] /\ runner[u].job \in Jobs
      BY <1>0, <2>2, <3>1, RunShape DEF Serial, RunRec
    <3>3. QED  BY <1>0, <2>1, <3>1, <3>2 DEF CronInv, TypeOK
  <2>3. \A u, v \in Threads :
          runner'[u] # Idle /\ runner'[v] # Idle /\ runner'[u].job = runner'[v].job => u = v
    BY <1>0, <1>1 DEF Serial
  <2>4. QED  BY <2>2, <2>3 DEF Serial
<1>3. OwnOK(t)' /\ FreshOK(t)' /\ PageOK(t)'
  BY <1>1 DEF OwnOK, FreshOK, PageOK, At
<1>4. QED  BY <1>1, <1>2, <1>3, QuietStep

\* A run goes on without a request; its rows and the rest of what is known follow.
LEMMA GoesOnOnce ==
    ASSUME OnceInv, CronInv', NEW t \in Threads, runner[t] # Idle, NEW r \in RunRec,
           r.job = runner[t].job, Now(t, r), UNCHANGED mu,
           UNCHANGED <<next, attr, received, call, excused>>, table' \subseteq table,
           OwnOK(t)', FreshOK(t)', PageOK(t)',
           Holder(t) => Holder(t)' /\ runner[t].ids \cap table' \subseteq r.ids
    PROVE  OnceInv'
<1>1. runner'[t] = r /\ \A u \in Threads : u # t => runner'[u] = runner[u]
  BY NowEffect DEF OnceInv
<1>2. Serial'
  BY <1>1, SerialGoesOn
<1>3. QED  BY <1>1, <1>2, QuietStep
------------------------------------------------------------------------------
LEMMA OnceInit == Init => OnceInv
<1> SUFFICES ASSUME Init PROVE OnceInv
  OBVIOUS
<1>1. Serial /\ HeldOK
  BY DEF Init, Serial, HeldOK
<1>2. Unborn /\ AtMostOnce
  BY DEF Init, Unborn, AtMostOnce, Many
<1>3. \A t \in Threads : OwnOK(t) /\ FreshOK(t) /\ PageOK(t)
  BY DEF Init, OwnOK, FreshOK, PageOK, At
<1>4. QED  BY <1>1, <1>2, <1>3, InitInv DEF OnceInv

LEMMA StartOnce ==
    ASSUME OnceInv, CronInv', NEW t \in Threads, NEW j \in Jobs, Start(t, j)
    PROVE  OnceInv'
<1> DEFINE r == [pc |-> "fetch", job |-> j, offset |-> 0, ids |-> {}, twice |-> {}, bad |-> {}]
<1>0. CronInv /\ Serial
  BY DEF OnceInv
<1>1. /\ runner[t] = Idle /\ ~mu[j] /\ mu' = [mu EXCEPT ![j] = TRUE] /\ Now(t, r)
      /\ UNCHANGED <<next, attr, table, call, received, excused, faults>>
  BY DEF Start, panelVars
<1>2. r \in RunRec /\ r.ids = {} /\ r.twice = {} /\ r.job = j
  BY DEF RunRec
<1>3. runner'[t] = r /\ \A u \in Threads : u # t => runner'[u] = runner[u]
  BY <1>0, <1>1, <1>2, NowEffect
<1> HIDE DEF r
<1>4. Serial'
  <2>1. \A u \in Threads : u # t /\ runner[u] # Idle => runner[u].job # j
    BY <1>0, <1>1 DEF Serial
  <2>2. \A u \in Threads : runner'[u] # Idle => mu'[runner'[u].job]
    <3> SUFFICES ASSUME NEW u \in Threads, runner'[u] # Idle PROVE mu'[runner'[u].job]
      OBVIOUS
    <3>1. CASE u = t
      BY <1>0, <1>1, <1>2, <1>3, <3>1 DEF CronInv, TypeOK
    <3>2. CASE u # t
      <4>1. mu[runner[u].job] /\ runner[u].job \in Jobs /\ runner[u].job # j
        BY <1>0, <1>3, <2>1, <3>2, RunShape DEF Serial, RunRec
      <4>2. QED  BY <1>0, <1>1, <1>3, <3>2, <4>1 DEF CronInv, TypeOK
    <3>3. QED  BY <3>1, <3>2
  <2>3. QED  BY <1>0, <1>2, <1>3, <2>1, <2>2 DEF Serial
<1>5. call[t].pc = "none"
  BY <1>0, <1>1 DEF CronInv, CallOK
<1>6. OwnOK(t)' /\ FreshOK(t)' /\ PageOK(t)'
  BY <1>1, <1>2, <1>3, <1>5 DEF OwnOK, FreshOK, PageOK
<1>7. ~Holder(t)
  BY <1>1 DEF Holder
<1>8. QED  BY <1>1, <1>3, <1>4, <1>6, <1>7, QuietStep

LEMMA QueryFailsOnce ==
    ASSUME OnceInv, CronInv', NEW t \in Threads, QueryFails(t)
    PROVE  OnceInv'
<1>0. CronInv
  BY DEF OnceInv
<1>1. /\ runner[t] # Idle /\ runner[t].pc \in {"fetch", "purge", "delete"} /\ Finish(t)
      /\ UNCHANGED <<next, attr, table, call, received>>
      /\ excused' = excused \cup (IF runner[t].pc = "delete" THEN runner[t].ids ELSE {})
  BY DEF QueryFails, panelVars
<1>2. call[t].pc = "none"
  BY <1>0, <1>1, NoRequest
<1>3. Holder(t) => \A r \in runner[t].ids : ~Told(r)'
  BY <1>1, <1>2 DEF Holder, Told
<1>4. QED  BY <1>1, <1>3, EndOnce

\* A row of the table that a run of its job is about to read has not been told.
LEMMA NotTold ==
    ASSUME OnceInv, NEW t \in Threads, runner[t] # Idle, ~Holder(t), NEW r \in table,
           attr[r] \in Groups <=> runner[t].job = "sftp"
    PROVE  ~Told(r)
<1> SUFFICES ASSUME Told(r) PROVE FALSE
  OBVIOUS
<1>1. PICK u \in Threads : Holder(u) /\ r \in runner[u].ids
  BY DEF OnceInv, HeldOK
<1>2. runner[u] # Idle
  BY <1>1 DEF Holder
<1>3. attr[r] \in Groups <=> runner[u].job = "sftp"
  BY <1>1, <1>2 DEF OnceInv, OwnOK
<1>4. runner[t].job \in Jobs /\ runner[u].job \in Jobs
  BY <1>2, RunShape DEF OnceInv, RunRec
<1>5. runner[t].job = runner[u].job
  BY <1>3, <1>4 DEF Jobs
<1>6. t = u
  BY <1>2, <1>5 DEF OnceInv, Serial
<1>7. QED  BY <1>1, <1>6

LEMMA FetchOnce ==
    ASSUME OnceInv, CronInv', NEW t \in Threads, Fetch(t)
    PROVE  OnceInv'
<1> DEFINE bad == {q \in Batch : attr[q] = Invalid}
           r == [runner[t] EXCEPT !.pc = "purge", !.ids = Batch \ bad, !.bad = bad]
<1>0. CronInv /\ OwnOK(t) /\ TypeOK
  BY DEF OnceInv, CronInv
<1>1. /\ runner[t] # Idle /\ runner[t].pc = "fetch" /\ runner[t].job = "activity"
      /\ UNCHANGED <<next, attr, table, call, received, excused, faults>>
  BY DEF Fetch, At, panelVars
<1>2. call[t].pc = "none" /\ ~Holder(t)
  BY <1>0, <1>1, NoRequest DEF Holder
<1>3. CASE Finish(t)
  BY <1>1, <1>2, <1>3, EndOnce
<1>4. CASE Now(t, r) /\ UNCHANGED mu
  <2>1. Batch \subseteq table /\ table \subseteq Rows /\ table \subseteq 1 .. next - 1
        /\ \A q \in Batch : attr[q] \notin Groups
    BY <1>0 DEF Batch, SftpRows, CronInv, TypeOK, Saved
  <2>2. runner[t] \in RunRec
    BY <1>0, <1>1, RunShape
  <2>3. /\ r \in RunRec /\ r.ids = Batch \ bad /\ r.pc = "purge" /\ r.job = "activity"
        /\ r.twice = runner[t].twice
    BY <1>1, <2>1, <2>2 DEF RunRec
  <2> HIDE DEF r, bad
  <2>4. runner'[t] = r
    BY <1>0, <1>4, <2>3, NowEffect
  <2>5. OwnOK(t)'
    BY <1>0, <1>1, <1>2, <2>1, <2>3, <2>4 DEF OwnOK
  <2>6. \A q \in r.ids : ~Told(q)
    BY <1>1, <1>2, <2>1, <2>3, NotTold
  <2>7. FreshOK(t)' /\ PageOK(t)'
    BY <1>1, <2>3, <2>4, <2>6 DEF FreshOK, PageOK, Told, At
  <2>8. QED  BY <1>1, <1>2, <1>4, <2>3, <2>5, <2>7, GoesOnOnce
<1>5. QED  BY <1>3, <1>4 DEF Fetch

\* A run that only changes its program counter, before its post.
LEMMA StepOnce ==
    ASSUME OnceInv, CronInv', NEW t \in Threads, runner[t] # Idle,
           runner[t].pc \in {"fetch", "purge"}, Step(t, "post"), UNCHANGED mu,
           UNCHANGED <<next, attr, received, call, excused>>, table' \subseteq table
    PROVE  OnceInv'
<1> DEFINE r == [runner[t] EXCEPT !.pc = "post"]
<1>0. CronInv /\ OwnOK(t) /\ FreshOK(t)
  BY DEF OnceInv
<1>1. call[t].pc = "none" /\ ~Holder(t)
  BY <1>0, NoRequest DEF Holder
<1>2. /\ r \in RunRec /\ r.pc = "post" /\ r.job = runner[t].job
      /\ r.ids = runner[t].ids /\ r.twice = runner[t].twice
  BY <1>0, RunShape DEF RunRec
<1>3. Now(t, r)
  BY DEF Step
<1> HIDE DEF r
<1>4. runner'[t] = r
  BY <1>0, <1>2, <1>3, NowEffect
<1>5. OwnOK(t)' /\ FreshOK(t)' /\ PageOK(t)'
  BY <1>0, <1>1, <1>2, <1>4 DEF OwnOK, FreshOK, PageOK, At, Told
<1>6. QED  BY <1>1, <1>2, <1>3, <1>5, GoesOnOnce

LEMMA PurgeOnce ==
    ASSUME OnceInv, CronInv', NEW t \in Threads, Purge(t)
    PROVE  OnceInv'
<1>0. CronInv
  BY DEF OnceInv
<1>1. /\ runner[t] # Idle /\ runner[t].pc = "purge" /\ table' = table \ runner[t].bad
      /\ UNCHANGED <<next, attr, call, received, excused, faults>>
  BY DEF Purge, At, panelVars
<1>2. call[t].pc = "none" /\ ~Holder(t)
  BY <1>0, <1>1, NoRequest DEF Holder
<1>3. CASE Finish(t)
  BY <1>1, <1>2, <1>3, EndOnce
<1>4. CASE Step(t, "post") /\ UNCHANGED mu
  BY <1>1, <1>4, StepOnce
<1>5. QED  BY <1>3, <1>4 DEF Purge

\* A page of the SFTP job: a row that it has read before is excused, and the
\* offset moves behind what it has read now.
LEMMA FetchRecordsOnce ==
    ASSUME OnceInv, CronInv', NEW t \in Threads, FetchRecords(t)
    PROVE  OnceInv'
<1> DEFINE page == Page(runner[t].offset)
           r == Push(t, page)
<1>0. CronInv /\ OwnOK(t) /\ FreshOK(t) /\ PageOK(t) /\ TypeOK
  BY DEF OnceInv, CronInv
<1>1. /\ runner[t] # Idle /\ runner[t].pc = "fetch" /\ runner[t].job = "sftp"
      /\ At(t, "sftp", "fetch")
      /\ UNCHANGED <<next, attr, table, call, received, excused, faults>>
  BY DEF FetchRecords, At, panelVars
<1>2. call[t].pc = "none" /\ ~Holder(t)
  BY <1>0, <1>1, NoRequest DEF Holder
<1>3. runner[t] \in RunRec /\ runner[t].offset \in Nat
  BY <1>0, <1>1, RunShape DEF RunRec
<1>4. CASE Now(t, r) /\ UNCHANGED mu
  <2>1. page \subseteq SftpRows /\ page \subseteq Rows /\ Cardinality(page) \in Nat
    BY <1>0, PageFacts DEF Page
  <2>2. page \subseteq 1 .. next - 1 /\ page \subseteq table /\ \A q \in page : attr[q] \in Groups
    BY <1>0, <2>1 DEF SftpRows, CronInv, Saved
  <2>3. \A q \in page : /\ Rank(q) >= runner[t].offset
                        /\ Rank(q) < runner[t].offset + Cardinality(page)
    BY <1>0, <1>3, PageCount DEF Page
  <2> HIDE DEF page
  <2> DEFINE taken == Taken(page, {attr[q] : q \in runner[t].ids})
             n == runner[t].offset + Cardinality(page)
             x == runner[t].ids \cup taken
             y == runner[t].twice \cup (taken \cap runner[t].ids)
  <2>4. taken \subseteq page
    BY DEF Taken
  <2>5. r = [runner[t] EXCEPT !.offset = n, !.ids = x, !.twice = y]
    BY <1>3 DEF Push, RunRec
  <2> HIDE DEF taken
  <2>6. /\ r \in RunRec /\ r.pc = "fetch" /\ r.job = "sftp"
        /\ r.ids = x /\ r.twice = y /\ r.offset = n
    <3>1. n \in Nat /\ x \subseteq Rows /\ y \subseteq Rows
      BY <1>3, <2>1, <2>4 DEF RunRec
    <3> HIDE DEF n, x, y, r
    <3>2. QED  BY <1>1, <1>3, <2>5, <3>1 DEF RunRec
  <2> HIDE DEF r
  <2>7. runner'[t] = r
    BY <1>0, <1>4, <2>6, NowEffect
  <2>8. taken \cap runner[t].ids \subseteq excused
    <3> SUFFICES ASSUME NEW q \in taken, q \in runner[t].ids, q \notin excused PROVE FALSE
      OBVIOUS
    <3>1. Rank(q) < runner[t].offset
      BY <1>0, <1>1 DEF PageOK
    <3>2. Rank(q) >= runner[t].offset /\ Rank(q) \in Nat
      BY <1>0, <2>3, <2>4, RankNat
    <3>3. QED  BY <1>3, <3>1, <3>2
  <2>9. OwnOK(t)'
    BY <1>0, <1>1, <1>2, <2>2, <2>4, <2>6, <2>7, <2>8 DEF OwnOK
  <2>10. FreshOK(t)'
    <3>1. \A q \in page : ~Told(q)
      BY <1>1, <1>2, <2>2, NotTold
    <3>2. QED  BY <1>0, <1>1, <1>2, <2>4, <2>6, <2>7, <3>1 DEF FreshOK, Told
  <2>11. PageOK(t)'
    <3> SUFFICES ASSUME NEW q \in x, q \notin excused PROVE Rank(q)' < n
      BY <1>1, <2>6, <2>7 DEF PageOK
    <3>1. Rank(q)' = Rank(q)
      BY <1>1 DEF Rank, SftpRows, Before
    <3>2. CASE q \in taken
      BY <2>3, <2>4, <3>1, <3>2
    <3>3. CASE q \in runner[t].ids
      <4>1. Rank(q) < runner[t].offset /\ Rank(q) \in Nat
        BY <1>0, <1>1, <3>3, RankNat DEF PageOK
      <4>2. QED  BY <1>3, <2>1, <3>1, <4>1
    <3>4. QED  BY <3>2, <3>3
  <2>12. QED  BY <1>1, <1>2, <1>4, <2>6, <2>9, <2>10, <2>11, GoesOnOnce
<1>5. CASE Finish(t)
  BY <1>1, <1>2, <1>5, EndOnce
<1>6. CASE Step(t, "post") /\ UNCHANGED mu
  BY <1>1, <1>6, StepOnce
<1>7. QED  BY <1>4, <1>5, <1>6 DEF FetchRecords

LEMMA SendOnce ==
    ASSUME OnceInv, CronInv', NEW t \in Threads, Send(t)
    PROVE  OnceInv'
<1> DEFINE c == [pc |-> "trying", tries |-> 0,
                 body |-> [ids |-> runner[t].ids, twice |-> runner[t].twice]]
<1>0. CronInv /\ OwnOK(t) /\ FreshOK(t)
  BY DEF OnceInv
<1>1. /\ runner[t] # Idle /\ runner[t].pc = "post" /\ call[t] = Client!NoCall
      /\ call' = [call EXCEPT ![t] = c]
      /\ UNCHANGED <<next, attr, table, mu, runner, received, excused, faults>>
  BY DEF Send, Client!Request, runVars
<1>2. c.pc = "trying" /\ c.body.twice = runner[t].twice
  OBVIOUS
<1> HIDE DEF c
<1>3. call'[t] = c /\ \A u \in Threads : u # t => call'[u] = call[u]
  BY <1>0, <1>1, CallsTyped
<1>4. ~Holder(t)
  BY <1>1 DEF Holder, Client!NoCall
<1>5. OwnOK(t)' /\ FreshOK(t)' /\ PageOK(t)'
  BY <1>0, <1>1, <1>2, <1>3, <1>4 DEF OwnOK, FreshOK, PageOK, At, Told
<1>6. Serial'
  BY <1>1, SerialGoesOn
<1>7. QED  BY <1>1, <1>3, <1>4, <1>5, <1>6, QuietStep

LEMMA SentOnce ==
    ASSUME OnceInv, CronInv', NEW t \in Threads, Sent(t)
    PROVE  OnceInv'
<1>0. CronInv /\ OwnOK(t) /\ CallOK(t)
  BY DEF OnceInv, CronInv
<1>1. /\ call[t].pc \in {"done", "failed"} /\ call' = [call EXCEPT ![t] = Client!NoCall]
      /\ UNCHANGED <<next, attr, table, received, excused, faults>>
  BY DEF Sent, Client!Returns
<1>2. call'[t].pc = "none" /\ \A u \in Threads : u # t => call'[u] = call[u]
  BY <1>0, <1>1, CallsTyped DEF Client!NoCall
<1>3. runner[t] # Idle /\ runner[t].pc = "post"
  BY <1>0, <1>1 DEF CallOK
<1>4. CASE call[t].pc = "failed" /\ Finish(t)
  <2>1. ~Holder(t)
    BY <1>3, <1>4 DEF Holder
  <2>2. QED  BY <1>1, <1>2, <1>3, <1>4, <2>1, EndOnce
<1>5. CASE call[t].pc = "done" /\ Step(t, "delete") /\ UNCHANGED mu
  <2>1. /\ runner'[t] = [runner[t] EXCEPT !.pc = "delete"] /\ runner'[t] # Idle
        /\ \A u \in Threads : u # t => runner'[u] = runner[u]
    BY <1>0, <1>3, <1>5, StepEffect
  <2>2. /\ runner'[t].pc = "delete" /\ runner'[t].ids = runner[t].ids
        /\ runner'[t].twice = runner[t].twice /\ runner'[t].job = runner[t].job
    BY <1>0, <1>3, <2>1, RunShape DEF RunRec
  <2>3. Holder(t)'
    BY <2>1, <2>2 DEF Holder
  <2>4. OwnOK(t)' /\ FreshOK(t)' /\ PageOK(t)'
    BY <1>0, <1>1, <1>2, <1>3, <2>2, <2>3 DEF OwnOK, FreshOK, PageOK, At
  <2>5. Serial'
    BY <1>3, <1>5, <2>1, <2>2, SerialGoesOn
  <2>6. QED  BY <1>1, <1>2, <2>1, <2>2, <2>3, <2>4, <2>5, QuietStep
<1>6. QED  BY <1>4, <1>5 DEF Sent, Client!Returns

LEMMA DeleteOnce ==
    ASSUME OnceInv, CronInv', NEW t \in Threads, Delete(t)
    PROVE  OnceInv'
<1>0. CronInv /\ OwnOK(t)
  BY DEF OnceInv
<1>1. /\ runner[t] # Idle /\ runner[t].pc = "delete"
      /\ UNCHANGED <<next, attr, call, received, excused, faults>>
  BY DEF Delete, panelVars
<1>2. PICK ids \in SUBSET runner[t].ids :
        /\ table' = table \ ids
        /\ \/ ids = runner[t].ids /\ Finish(t)
           \/ Now(t, [runner[t] EXCEPT !.ids = @ \ ids]) /\ UNCHANGED mu
  BY DEF Delete
<1>3. call[t].pc = "none" /\ runner[t] \in RunRec
  BY <1>0, <1>1, NoRequest, RunShape
<1>4. CASE ids = runner[t].ids /\ Finish(t)
  BY <1>1, <1>2, <1>4, EndOnce
<1>5. CASE Now(t, [runner[t] EXCEPT !.ids = @ \ ids]) /\ UNCHANGED mu
  <2> DEFINE r == [runner[t] EXCEPT !.ids = @ \ ids]
  <2>1. /\ r \in RunRec /\ r.pc = "delete" /\ r.job = runner[t].job
        /\ r.ids = runner[t].ids \ ids /\ r.twice = runner[t].twice
    BY <1>1, <1>3 DEF RunRec
  <2>2. Now(t, r)
    BY <1>5
  <2> HIDE DEF r
  <2>3. runner'[t] = r /\ runner'[t] # Idle
    BY <1>0, <2>1, <2>2, NowEffect, NotIdle
  <2>4. Holder(t)'
    BY <2>1, <2>3 DEF Holder
  <2>5. OwnOK(t)' /\ FreshOK(t)' /\ PageOK(t)'
    BY <1>0, <1>1, <1>3, <2>1, <2>3, <2>4 DEF OwnOK, FreshOK, PageOK, At
  <2>6. QED  BY <1>1, <1>2, <1>5, <2>1, <2>2, <2>4, <2>5, GoesOnOnce
<1>6. QED  BY <1>2, <1>4, <1>5

\* A new row that sorts behind a saved one leaves its rank alone.
LEMMA RankOfOld ==
    ASSUME CronInv, NEW a \in Attrs, next \in Rows, NEW r \in 1 .. next - 1,
           table' = table \cup {next}, attr' = [attr EXCEPT ![next] = a],
           a \in Groups => ~(a >= attr[r])
    PROVE  Rank(r)' = Rank(r)
<1>1. /\ attr \in [Rows -> Attrs \cup {Unsaved}] /\ next \in Nat /\ MaxRow \in Nat
      /\ next \in 1 .. MaxRow
  BY ActivityCronAssumption DEF CronInv, TypeOK, Rows
<1>2. 1 .. next - 1 \subseteq Rows /\ next \notin 1 .. next - 1
  BY <1>1 DEF Rows
<1>3. table \subseteq 1 .. next - 1
  BY DEF CronInv, Saved
<1>4. attr'[next] = a /\ \A q \in 1 .. next - 1 : attr'[q] = attr[q]
  BY <1>1, <1>2
<1>5. \A q \in table : Before(q, r)' <=> Before(q, r)
  BY <1>3, <1>4 DEF Before
<1>6. \A q : q = next /\ a \in Groups => ~Before(q, r)'
  <2> SUFFICES ASSUME NEW q, q = next, a \in Groups PROVE ~Before(q, r)'
    OBVIOUS
  <2>1. attr'[q] = a /\ attr'[r] = attr[r]
    BY <1>4
  <2>2. a \in Int /\ attr[r] \in Int
    <3>1. Regular \in Int /\ Invalid \in Int /\ Unsaved \in Int
      BY DEF Regular, Invalid, Unsaved
    <3>2. \A g \in Groups : g \in Int
      BY ActivityCronAssumption
    <3>3. attr[r] \in Attrs \cup {Unsaved}
      BY <1>1, <1>2
    <3>4. QED  BY <3>1, <3>2, <3>3 DEF Attrs
  <2>3. ~(a > attr[r]) /\ a # attr[r]
    BY <2>2
  <2>4. QED  BY <2>1, <2>3 DEF Before
<1>7. {q \in SftpRows : Before(q, r)}' = {q \in SftpRows : Before(q, r)}
  <2> DEFINE A == {q \in table : attr[q] \in Groups /\ Before(q, r)}
             B == {q \in table' : attr'[q] \in Groups /\ Before(q, r)'}
  <2>1. \A q \in B : q \in A
    BY <1>3, <1>4, <1>5, <1>6
  <2>2. \A q \in A : q \in B
    BY <1>3, <1>4, <1>5
  <2>3. A = B
    BY <2>1, <2>2
  <2>4. QED  BY <2>3 DEF SftpRows
<1>8. QED  BY <1>7 DEF Rank

LEMMA CreateOnce ==
    ASSUME OnceInv, CronInv', NEW a \in Attrs, Create(a)
    PROVE  OnceInv'
<1>0. CronInv /\ TypeOK /\ Serial /\ Unborn /\ HeldOK
  BY DEF OnceInv, CronInv
<1>1. UNCHANGED <<mu, runner, call, received>> /\ next <= MaxRow
  BY DEF Create, runVars, panelVars
<1>2. Serial'
  BY <1>0, <1>1 DEF Serial
<1>3. /\ next \in Rows /\ next \in Nat /\ 1 .. next - 1 \subseteq Rows
      /\ next \notin 1 .. next - 1
  BY <1>0, <1>1, ActivityCronAssumption DEF TypeOK, Rows
<1>4. CASE /\ table' = table \cup {next} /\ next' = next + 1
           /\ attr' = [attr EXCEPT ![next] = a]
           /\ excused' = excused \cup Shifted(a) /\ UNCHANGED faults
  <2>1. \A r : Told(r)' => Told(r)
    BY <1>1, <1>4 DEF Told
  <2>2. /\ next' \in Nat /\ next <= next' /\ excused \subseteq excused'
        /\ \A i \in 1 .. next - 1 : attr'[i] = attr[i]
    BY <1>0, <1>3, <1>4 DEF TypeOK
  <2>3. ASSUME NEW u \in Threads PROVE OwnOK(u)' /\ FreshOK(u)' /\ PageOK(u)'
    <3>1. ASSUME At(u, "sftp", "fetch"), NEW r \in runner[u].ids, r \notin excused'
          PROVE  Rank(r)' \in Nat /\ Rank(r)' <= Rank(r)
      <4>1. ~(a \in Groups /\ a >= attr[r])
        BY <1>4, <3>1 DEF Shifted
      <4>2. r \in 1 .. next - 1
        BY <3>1 DEF At, OnceInv, OwnOK
      <4>3. Rank(r)' = Rank(r) /\ Rank(r) \in Nat
        BY <1>0, <1>3, <1>4, <4>1, <4>2, RankOfOld, RankNat
      <4>4. QED  BY <4>3
    <3>2. QED  BY <1>1, <2>1, <2>2, <3>1, OtherOnce
  <2>4. HeldOK'
    <3> SUFFICES ASSUME NEW r \in table', Told(r)'
                 PROVE  \E u \in Threads : Holder(u)' /\ r \in runner'[u].ids
      BY DEF HeldOK
    <3>1. Told(r) /\ r # next
      BY <1>0, <1>3, <2>1 DEF Told, Unborn
    <3>2. PICK u \in Threads : Holder(u) /\ r \in runner[u].ids
      BY <1>0, <1>4, <3>1 DEF HeldOK
    <3>3. QED  BY <1>1, <3>2 DEF Holder
  <2>5. Unborn'
    <3>1. \A r \in Rows : r >= next' => r >= next
      BY <1>3, <1>4, ActivityCronAssumption DEF Rows
    <3>2. QED  BY <1>0, <1>1, <3>1 DEF Unborn
  <2>6. AtMostOnce'
    BY <1>1, <1>4 DEF OnceInv, AtMostOnce
  <2>7. QED  BY <1>2, <2>3, <2>4, <2>5, <2>6 DEF OnceInv
<1>5. CASE Fault /\ UNCHANGED <<table, next, attr, excused>>
  <2>1. ASSUME NEW u \in Threads PROVE OwnOK(u)' /\ FreshOK(u)' /\ PageOK(u)'
    <3>1. \A r : Told(r)' => Told(r)
      BY <1>1, <1>5 DEF Told
    <3>2. \A r : Rank(r)' \in Nat /\ Rank(r)' <= Rank(r)
      BY <1>0, <1>5, RankShrinks
    <3>3. QED  BY <1>1, <1>3, <1>5, <3>1, <3>2, OtherOnce
  <2>2. HeldOK' /\ Unborn' /\ AtMostOnce'
    BY <1>0, <1>1, <1>5 DEF OnceInv, HeldOK, Unborn, AtMostOnce, Holder, Told
  <2>3. QED  BY <1>2, <2>1, <2>2 DEF OnceInv
<1>6. QED  BY <1>4, <1>5 DEF Create

\* How often the panel is told.
LEMMA Counted ==
    ASSUME NEW n \in 0 .. Many
    PROVE  AtMost(n + 0, Many) = n /\ (n = 0 => AtMost(n + 1, Many) = 1)
BY DEF AtMost, Many

LEMMA AttemptOnce ==
    ASSUME OnceInv, CronInv', NEW t \in Threads, NEW o \in Client!Outcomes, Attempt(t, o)
    PROVE  OnceInv'
<1> DEFINE ids == runner[t].ids
           twice == runner[t].twice
           times(r) == IF r \in twice THEN 2 ELSE IF r \in ids THEN 1 ELSE 0
<1>0. /\ CronInv /\ TypeOK /\ Serial /\ Unborn /\ HeldOK /\ AtMostOnce
      /\ OwnOK(t) /\ FreshOK(t)
  BY DEF OnceInv, CronInv
<1>1. /\ call[t].pc = "trying" /\ runner[t] # Idle /\ runner[t].pc = "post"
      /\ call[t].body.ids = ids /\ ids \subseteq Rows
      /\ UNCHANGED <<next, attr, table, mu, runner>>
      /\ call'[t].body = call[t].body
      /\ \A u \in Threads : u # t => call'[u] = call[u]
  BY <1>0, AttemptEffect
<1>2. call'[t].pc # "none" /\ (call'[t].pc = "done" <=> o = "ok")
  BY <1>0, AttemptEffect
<1>3. call[t].body.twice = twice /\ twice \subseteq (1 .. next - 1) \cap excused
      /\ ids \subseteq 1 .. next - 1
  BY <1>0, <1>1 DEF OwnOK
<1>4. /\ Client!Processed(o) =>
           received' = [r \in Rows |-> AtMost(received[r] + times(r), Many)]
      /\ ~Client!Processed(o) => received' = received
      /\ excused' = excused \cup (IF o = "lost" THEN ids ELSE {})
  BY <1>0, <1>1, <1>3, AttemptEffect
<1>5. ~Holder(t)
  BY <1>1 DEF Holder
<1>6. \A r \in Rows : received[r] \in 0 .. Many
  BY <1>0 DEF TypeOK
<1>7. \A r \in Rows : r \notin ids \cup twice => received'[r] = received[r]
  BY <1>4, <1>6, Counted
<1>8. \A r \in ids \ twice : r \notin excused => received[r] = 0 /\ received'[r] \in {0, 1}
  <2> SUFFICES ASSUME NEW r \in ids, r \notin twice, r \notin excused
               PROVE  received[r] = 0 /\ received'[r] \in {0, 1}
    OBVIOUS
  <2>1. r \in Rows /\ received[r] = 0
    BY <1>0, <1>1, <1>5, <1>6 DEF FreshOK, Told
  <2>2. Client!Processed(o) => received'[r] = AtMost(0 + 1, Many)
    BY <1>4, <2>1
  <2>3. AtMost(0 + 1, Many) = 1
    BY DEF AtMost, Many
  <2>4. QED  BY <1>4, <2>1, <2>2, <2>3
<1> HIDE DEF ids, twice, times
<1>9. \A r \in Rows : Told(r)' => Told(r) \/ (r \in ids /\ o = "ok")
  <2> SUFFICES ASSUME NEW r \in Rows, Told(r)', ~Told(r) PROVE r \in ids /\ o = "ok"
    OBVIOUS
  <2>1. r \notin excused /\ r \notin excused' /\ received'[r] # received[r]
    BY <1>4 DEF Told
  <2>2. r \in ids
    BY <1>3, <1>7, <2>1
  <2>3. o \in {"ok", "lost"}
    BY <1>4, <2>1 DEF Client!Processed
  <2>4. QED  BY <1>4, <2>1, <2>2, <2>3
<1>10. ASSUME NEW u \in Threads, u # t PROVE OwnOK(u)' /\ FreshOK(u)' /\ PageOK(u)'
  <2>1. ASSUME runner[u] # Idle, NEW r \in runner[u].ids, Told(r)' PROVE Told(r)
    <3>1. r \in 1 .. next - 1 /\ (attr[r] \in Groups <=> runner[u].job = "sftp")
      BY <2>1 DEF OnceInv, OwnOK
    <3>2. r \in Rows
      BY <1>0, <3>1, ActivityCronAssumption DEF TypeOK, Rows
    <3>3. r \notin ids
      <4> SUFFICES ASSUME r \in ids PROVE FALSE
        OBVIOUS
      <4>1. attr[r] \in Groups <=> runner[t].job = "sftp"
        BY <1>0, <1>1 DEF OwnOK, ids
      <4>2. runner[t].job \in Jobs /\ runner[u].job \in Jobs
        BY <1>0, <1>1, <2>1, RunShape DEF RunRec
      <4>3. runner[t].job = runner[u].job
        BY <3>1, <4>1, <4>2 DEF Jobs
      <4>4. QED  BY <1>0, <1>1, <1>10, <2>1, <4>3 DEF Serial
    <3>4. QED  BY <1>9, <2>1, <3>2, <3>3
  <2>2. \A r : Rank(r)' \in Nat /\ Rank(r)' <= Rank(r)
    BY <1>0, <1>1, RankShrinks
  <2>3. next' \in Nat /\ next <= next'
    BY <1>0, <1>1 DEF TypeOK
  <2>4. QED  BY <1>1, <1>4, <1>10, <2>1, <2>2, <2>3, OtherOnce
<1>11. OwnOK(t)' /\ PageOK(t)'
  BY <1>0, <1>1, <1>3, <1>4 DEF OwnOK, PageOK, At
<1>12. FreshOK(t)'
  <2> SUFFICES ASSUME ~Holder(t)', NEW r \in ids PROVE ~Told(r)'
    BY <1>1 DEF FreshOK, ids
  <2>1. o # "ok"
    BY <1>1, <1>2 DEF Holder
  <2>2. ~Told(r)
    BY <1>0, <1>1, <1>5 DEF FreshOK, ids
  <2>3. QED  BY <1>1, <1>9, <2>1, <2>2
<1>13. HeldOK'
  <2> SUFFICES ASSUME NEW r \in table, Told(r)'
               PROVE  \E u \in Threads : Holder(u)' /\ r \in runner'[u].ids
    BY <1>1 DEF HeldOK
  <2>1. CASE Told(r)
    <3>1. PICK u \in Threads : Holder(u) /\ r \in runner[u].ids
      BY <1>0, <2>1 DEF HeldOK
    <3>2. u # t
      BY <1>5, <3>1
    <3>3. QED  BY <1>1, <3>1, <3>2 DEF Holder
  <2>2. CASE ~Told(r)
    <3>1. r \in ids /\ o = "ok"
      BY <1>0, <1>9, <2>2 DEF TypeOK
    <3>2. Holder(t)'
      BY <1>1, <1>2, <3>1 DEF Holder
    <3>3. QED  BY <1>1, <3>1, <3>2 DEF ids
  <2>3. QED  BY <2>1, <2>2
<1>14. Unborn'
  <2> SUFFICES ASSUME NEW r \in Rows, r >= next PROVE received'[r] = 0
    BY <1>1 DEF Unborn
  <2>1. r \notin 1 .. next - 1
    BY <1>0 DEF TypeOK, Rows
  <2>2. QED  BY <1>0, <1>3, <1>7, <2>1 DEF Unborn
<1>15. AtMostOnce'
  <2> SUFFICES ASSUME NEW r \in Rows, received'[r] = Many, r \notin excused PROVE FALSE
    BY <1>4 DEF AtMostOnce
  <2>1. received[r] # Many
    BY <1>0 DEF AtMostOnce
  <2>2. r \in ids \ twice
    BY <1>3, <1>7, <2>1
  <2>3. received'[r] \in {0, 1}
    BY <1>8, <2>2
  <2>4. QED  BY <2>3 DEF Many
<1>16. Serial'
  BY <1>0, <1>1 DEF Serial
<1>17. \A u \in Threads : OwnOK(u)' /\ FreshOK(u)' /\ PageOK(u)'
  BY <1>10, <1>11, <1>12
<1>18. QED  BY <1>13, <1>14, <1>15, <1>16, <1>17 DEF OnceInv

LEMMA CrashOnce ==
    ASSUME OnceInv, CronInv', Crash
    PROVE  OnceInv'
<1>1. /\ runner' = [t \in Threads |-> Idle] /\ UNCHANGED <<next, attr, table, received>>
      /\ excused' = excused \cup
           {r \in Rows : \E t \in Threads : Holder(t) /\ r \in runner[t].ids}
  BY DEF Crash, Holder
<1>2. Serial' /\ \A t \in Threads : OwnOK(t)' /\ FreshOK(t)' /\ PageOK(t)'
  BY <1>1 DEF Serial, OwnOK, FreshOK, PageOK, At
<1>3. HeldOK'
  <2> SUFFICES ASSUME NEW r \in table, Told(r)' PROVE FALSE
    BY <1>1 DEF HeldOK
  <2>1. Told(r) /\ r \in Rows
    BY <1>1 DEF Told, OnceInv, CronInv, TypeOK
  <2>2. r \in excused'
    BY <1>1, <2>1 DEF OnceInv, HeldOK
  <2>3. QED  BY <2>2 DEF Told
<1>4. Unborn' /\ AtMostOnce'
  BY <1>1 DEF OnceInv, Unborn, AtMostOnce
<1>5. QED  BY <1>2, <1>3, <1>4 DEF OnceInv

LEMMA OnceNext ==
    ASSUME OnceInv, [Next]_vars
    PROVE  OnceInv'
<1>0. CronInv'
  BY NextInv DEF OnceInv
<1>1. CASE SaveActivity \/ Log
  BY <1>0, <1>1, CreateOnce DEF SaveActivity, Log, Attrs
<1>2. ASSUME NEW t \in Threads, Run(t) \/ Fails(t) PROVE OnceInv'
  BY <1>0, <1>2, FetchOnce, PurgeOnce, FetchRecordsOnce, SendOnce, SentOnce, DeleteOnce,
     AttemptOnce, QueryFailsOnce DEF Run, Fails, Client!Outcomes
<1>3. ASSUME NEW t \in Threads, NEW j \in Jobs, Start(t, j) PROVE OnceInv'
  BY <1>0, <1>3, StartOnce
<1>4. CASE Crash
  BY <1>0, <1>4, CrashOnce
<1>5. CASE UNCHANGED vars
  <2>1. Serial' /\ HeldOK' /\ Unborn' /\ AtMostOnce'
    BY <1>5 DEF vars, OnceInv, Serial, HeldOK, Unborn, AtMostOnce, Holder, Told
  <2>2. \A t \in Threads : OwnOK(t)' /\ FreshOK(t)' /\ PageOK(t)'
    BY <1>5 DEF vars, OnceInv, OwnOK, FreshOK, PageOK, Holder, Told, At, Rank, SftpRows, Before
  <2>3. QED  BY <1>0, <2>1, <2>2 DEF OnceInv
<1>6. QED  BY <1>1, <1>2, <1>3, <1>4, <1>5 DEF Next

\* No activity is reported twice (Run of both jobs): whatever the interleaving of the
\* jobs, of new rows and of the deletes, the panel is told of a row once, unless an
\* answer was lost, a delete failed, the daemon died before it, or a newer row pushed
\* the row onto the next page of the SFTP job.
THEOREM NoActivityTwice == Spec => []AtMostOnce
<1>1. OnceInv => AtMostOnce
  BY DEF OnceInv
<1>2. QED  BY <1>1, OnceInit, OnceNext, PTL DEF Spec
==============================================================================
