---------------------------- MODULE ActivityCron -----------------------------
(***************************************************************************)
(* The activity log: rows are saved to the local database by SaveActivity  *)
(* and by the SFTP handlers, and two jobs of internal/cron send them to    *)
(* the panel and delete them. A row is its id; its attribute says which    *)
(* job sends it: Regular, Invalid (its IP does not parse), or the group     *)
(* into which the SFTP job merges it, a number that is larger for an event *)
(* that comes later in the alphabet.                                       *)
(***************************************************************************)
EXTENDS Integers, FiniteSets

CONSTANTS
    MaxRow,      \* bound on the rows
    Groups,      \* keys of the SFTP job's map, as numbers
    Max,         \* ActivitySendCount, for both jobs
    Chunk,       \* ids of one delete statement (32000)
    Threads,     \* goroutines of the scheduler
    MaxTries,    \* attempts of a request to the panel
    MaxFaults    \* bound on crashes and failures

ASSUME ActivityCronAssumption ==
    /\ MaxRow \in Nat /\ MaxFaults \in Nat /\ MaxTries \in Nat \ {0}
    /\ Max \in Nat \ {0} /\ Chunk \in Nat \ {0}
    /\ Groups \subseteq Nat \ {0}

VARIABLES
    next,        \* the next id
    attr,        \* attribute of a row
    table,       \* rows in the database
    mu,          \* the running flag of each job
    runner,      \* the run that a goroutine executes, and its locals
    call,        \* requests to the panel
    received,    \* how often the panel has been told of a row: 0, 1, or more
    excused,     \* history: rows that may be sent again, see AtMostOnce
    faults       \* crashes and failures so far

vars == <<next, attr, table, mu, runner, call, received, excused, faults>>
runVars == <<mu, runner>>
panelVars == <<call, received>>

Rows == 1 .. MaxRow
Jobs == {"activity", "sftp"}
Regular == 0
Invalid == -1
Unsaved == -2
Attrs == {Regular, Invalid} \cup Groups
Many == 2
Idle == [pc |-> "idle"]

\* The post of a run: the rows of ids, those in twice with their files doubled.
Bodies == [ids : SUBSET Rows, twice : SUBSET Rows]
Client == INSTANCE PanelClient WITH Callers <- Threads

Init ==
    /\ next = 1 /\ table = {}
    /\ attr = [r \in Rows |-> Unsaved]
    /\ mu = [j \in Jobs |-> FALSE]
    /\ runner = [t \in Threads |-> Idle]
    /\ Client!CallInit
    /\ received = [r \in Rows |-> 0]
    /\ excused = {} /\ faults = 0

TypeOK ==
    /\ next \in 1 .. MaxRow + 1 /\ table \subseteq Rows
    /\ attr \in [Rows -> Attrs \cup {Unsaved}]
    /\ mu \in [Jobs -> BOOLEAN]
    /\ runner \in [Threads -> {Idle} \cup
         [pc : {"fetch", "purge", "post", "delete"}, job : Jobs, offset : Nat,
          ids : SUBSET Rows, twice : SUBSET Rows, bad : SUBSET Rows]]
    /\ Client!CallTypeOK
    /\ received \in [Rows -> 0 .. Many]
    /\ excused \subseteq Rows /\ faults \in 0 .. MaxFaults
------------------------------------------------------------------------------
\* The database.

SftpRows == {r \in table : attr[r] \in Groups}

\* "event DESC", by the index: the newest first among equals.
Before(q, r) == attr[q] > attr[r] \/ (attr[q] = attr[r] /\ q > r)

\* fetchRecords. Rank counts the rows in front of one.
Rank(r) == Cardinality({q \in SftpRows : Before(q, r)})
Page(offset) == {r \in SftpRows : Rank(r) >= offset /\ Rank(r) < offset + Max}

\* The activity job's query, in the order of the ids.
Batch ==
    LET other == table \ SftpRows IN
    {r \in other : Cardinality({q \in other : q < r}) < Max}

At(t, job, pc) == runner[t] # Idle /\ runner[t].job = job /\ runner[t].pc = pc

Fault == faults < MaxFaults /\ faults' = faults + 1

\* SFTP rows that a run has already read and that come after a new row.
Shifted(a) ==
    UNION {{q \in runner[t].ids : a \in Groups /\ a >= attr[q]} :
             t \in {u \in Threads : At(u, "sftp", "fetch")}}

\* A row is created, or creating it fails and this is only logged.
Create(a) ==
    /\ next <= MaxRow
    /\ \/ /\ table' = table \cup {next} /\ next' = next + 1
          /\ attr' = [attr EXCEPT ![next] = a]
          /\ excused' = excused \cup Shifted(a)
          /\ UNCHANGED faults
       \/ Fault /\ UNCHANGED <<table, next, attr, excused>>
    /\ UNCHANGED <<runVars, panelVars>>

\* A power action, a command or an upload, in a goroutine of its own.
SaveActivity == \E a \in {Regular, Invalid} : Create(a)

\* A file event of SFTP.
Log == \E g \in Groups : Create(g)
------------------------------------------------------------------------------
\* A run of a job.

Now(t, r) == runner' = [runner EXCEPT ![t] = r]
Step(t, pc) == Now(t, [runner[t] EXCEPT !.pc = pc])

\* Mutant: a job that is already running is started again.
StartAlways(t, job) ==
    /\ runner[t] = Idle
    /\ mu' = [mu EXCEPT ![job] = TRUE]
    /\ Now(t, [pc |-> "fetch", job |-> job, offset |-> 0,
               ids |-> {}, twice |-> {}, bad |-> {}])
    /\ UNCHANGED <<next, attr, table, panelVars, excused, faults>>

\* The scheduler calls Run; a run that finds the flag set returns at once.
Start(t, job) ==
    /\ ~mu[job]
    /\ runner[t] = Idle
    /\ mu' = [mu EXCEPT ![job] = TRUE]
    /\ Now(t, [pc |-> "fetch", job |-> job, offset |-> 0,
               ids |-> {}, twice |-> {}, bad |-> {}])
    /\ UNCHANGED <<next, attr, table, panelVars, excused, faults>>

\* Mutant: the flag is not cleared.
FinishKeeping(t) == Now(t, Idle) /\ UNCHANGED mu

\* Run returns, with the deferred Store(false).
Finish(t) ==
    /\ Now(t, Idle)
    /\ mu' = [mu EXCEPT ![runner[t].job] = FALSE]

\* A query fails: Run returns its error.
QueryFails(t) ==
    /\ runner[t] # Idle /\ runner[t].pc \in {"fetch", "purge", "delete"}
    /\ Fault /\ Finish(t)
    /\ excused' = excused \cup (IF runner[t].pc = "delete" THEN runner[t].ids ELSE {})
    /\ UNCHANGED <<next, attr, table, panelVars>>

\* activityCron: the rows, and among them those whose address is invalid.
Fetch(t) ==
    LET bad == {r \in Batch : attr[r] = Invalid} IN
    /\ At(t, "activity", "fetch")
    /\ IF Batch = {}
         THEN Finish(t)
         ELSE /\ Now(t, [runner[t] EXCEPT !.pc = "purge", !.ids = Batch \ bad, !.bad = bad])
              /\ UNCHANGED mu
    /\ UNCHANGED <<next, attr, table, panelVars, excused, faults>>

\* Invalid rows are deleted unsent; the run ends if there are no others.
Purge(t) ==
    /\ At(t, "activity", "purge")
    /\ table' = table \ runner[t].bad
    /\ IF runner[t].ids = {} THEN Finish(t) ELSE Step(t, "post") /\ UNCHANGED mu
    /\ UNCHANGED <<next, attr, panelVars, excused, faults>>

\* forActivity: the rows of a page that find a place in the map. A new group
\* is only opened while the map, with the groups opened before it, has room.
Taken(page, have) ==
    {r \in page :
        \/ attr[r] \in have
        \/ \E f \in page :
             /\ attr[f] = attr[r]
             /\ Cardinality(have \cup {attr[q] : q \in {p \in page : ~Before(f, p)}}) <= Max}

\* The events of a page are merged into the map. A row that was read before
\* adds its files once more.
Push(t, page) ==
    LET taken == Taken(page, {attr[r] : r \in runner[t].ids}) IN
    [runner[t] EXCEPT !.offset = @ + Cardinality(page),
                      !.ids = @ \cup taken,
                      !.twice = @ \cup (taken \cap runner[t].ids)]

\* sftpCron: a page, as long as the last one has added something.
FetchRecords(t) ==
    LET page == Page(runner[t].offset)
        taken == Taken(page, {attr[r] : r \in runner[t].ids})
    IN
    /\ At(t, "sftp", "fetch")
    /\ \/ page # {} /\ taken # {} /\ Now(t, Push(t, page)) /\ UNCHANGED mu
       \/ /\ page = {} \/ taken = {}
          /\ IF runner[t].ids = {} THEN Finish(t) ELSE Step(t, "post") /\ UNCHANGED mu
    /\ UNCHANGED <<next, attr, table, panelVars, excused, faults>>

\* SendActivityLogs.
Send(t) ==
    /\ runner[t] # Idle /\ runner[t].pc = "post"
    /\ Client!Request(t, [ids |-> runner[t].ids, twice |-> runner[t].twice])
    /\ UNCHANGED <<next, attr, table, runVars, received, excused, faults>>

AtMost(n, m) == IF n < m THEN n ELSE m

\* An attempt to reach the panel; a repetition tells it everything again.
Attempt(t, outcome) ==
    LET body == call[t].body
        times(r) == IF r \in body.twice THEN 2 ELSE IF r \in body.ids THEN 1 ELSE 0
    IN
    /\ Client!RequestOnce(t, outcome)
    /\ IF outcome = "ok" THEN UNCHANGED faults ELSE Fault
    /\ IF Client!Processed(outcome)
         THEN received' = [r \in Rows |-> AtMost(received[r] + times(r), Many)]
         ELSE UNCHANGED received
    /\ excused' = excused \cup (IF outcome = "lost" THEN body.ids ELSE {})
    /\ UNCHANGED <<next, attr, table, runVars>>

\* Mutant: the error of the send is only logged.
SentAnyway(t) ==
    /\ \E pc \in {"done", "failed"} : Client!Returns(t, pc)
    /\ Step(t, "delete")
    /\ UNCHANGED <<next, attr, table, mu, received, excused, faults>>

\* SendActivityLogs returns.
Sent(t) ==
    /\ \/ Client!Returns(t, "done") /\ Step(t, "delete") /\ UNCHANGED mu
       \/ Client!Returns(t, "failed") /\ Finish(t)
    /\ UNCHANGED <<next, attr, table, received, excused, faults>>

\* The ids are deleted in chunks.
Delete(t) ==
    /\ runner[t] # Idle /\ runner[t].pc = "delete"
    /\ \E ids \in SUBSET runner[t].ids :
         /\ \/ Cardinality(ids) = Chunk
            \/ Cardinality(ids) < Chunk /\ ids = runner[t].ids
         /\ table' = table \ ids
         /\ IF ids = runner[t].ids
              THEN Finish(t)
              ELSE Now(t, [runner[t] EXCEPT !.ids = @ \ ids]) /\ UNCHANGED mu
    /\ UNCHANGED <<next, attr, panelVars, excused, faults>>

\* The daemon dies and is started again: the database survives.
Crash ==
    /\ Fault
    /\ mu' = [j \in Jobs |-> FALSE]
    /\ runner' = [t \in Threads |-> Idle]
    /\ call' = [t \in Threads |-> Client!NoCall]
    /\ excused' = excused \cup
         {r \in Rows : \E t \in Threads :
             /\ runner[t] # Idle /\ r \in runner[t].ids
             /\ runner[t].pc = "delete" \/ call[t].pc = "done"}
    /\ UNCHANGED <<next, attr, table, received>>

Run(t) ==
    \/ Fetch(t) \/ Purge(t) \/ FetchRecords(t) \/ Send(t) \/ Sent(t) \/ Delete(t)
    \/ Attempt(t, "ok")

Fails(t) == QueryFails(t) \/ \E o \in Client!Outcomes \ {"ok"} : Attempt(t, o)

Next ==
    \/ SaveActivity \/ Log
    \/ \E t \in Threads : Run(t) \/ Fails(t)
    \/ \E t \in Threads, j \in Jobs : Start(t, j)
    \/ Crash

\* The scheduler starts each job again and again, and a run that has begun
\* goes on. Nothing makes anybody use the server, or a call fail.
Fairness ==
    /\ \A t \in Threads : WF_vars(Run(t))
    /\ \A j \in Jobs : WF_vars(\E t \in Threads : Start(t, j))

Spec == Init /\ [][Next]_vars
FairSpec == Spec /\ Fairness
------------------------------------------------------------------------------
\* Properties.

\* No activity is lost: a saved row that is no longer in the table has reached
\* the panel, unless its address was invalid. Crashes, failed queries, lost
\* answers and rows skipped at the cap of the map included.
NothingLost ==
    \A r \in 1 .. next - 1 :
        r \in table \/ received[r] > 0 \/ attr[r] = Invalid

\* No activity is reported twice, except for the reasons in excused: an answer
\* of the panel that was lost, a delete that failed or a crash before it was
\* done, or a row that a newer one pushed onto the next page of a run.
AtMostOnce == \A r \in Rows : received[r] = Many => r \in excused

\* Whatever is saved is eventually sent or discarded: no failure, crash or cap
\* leaves a row behind for ever or a job's flag set.
Drained == table # {} ~> table = {}
==============================================================================
