------------------------------ MODULE SinkPool -------------------------------
(***************************************************************************)
(* A pool of sinks (system/sink_pool.go), which carries the events of a    *)
(* server, its console output and its installation output (events/         *)
(* events.go, server/events.go) to the goroutines that listen to them.     *)
(*                                                                         *)
(* A listener stands for its channel.  Push starts one goroutine per sink  *)
(* and waits for all of them: job[p][l] is what the goroutine of publisher *)
(* p for the sink of l does next.  The lock of the pool is held by readers *)
(* for a whole Push; On, Off and Destroy are one step each under the write *)
(* lock.                                                                   *)
(***************************************************************************)
EXTENDS Naturals, Sequences

CONSTANTS
    Publishers,   \* goroutines that publish
    Listeners,    \* goroutines that listen, each with a channel of its own
    Capacity,     \* the capacity of each channel
    MaxMsgs       \* bound on the messages of each publisher

ASSUME SinkPoolAssumption ==
    Capacity \in [Listeners -> Nat] /\ MaxMsgs \in [Publishers -> Nat]

VARIABLES
    sinks,      \* the registered channels
    buf,        \* the content of each channel
    closed,     \* the channel has been closed
    reading,    \* publishers that hold the read lock
    job,        \* the goroutines of each Push
    sent,       \* the number of the last message of a publisher
    at,         \* where a listener is
    done,       \* the context of a listener has been cancelled
    deleted,    \* Destroy has been called
    panicked,   \* a send on a closed channel, or a second close
    seen        \* history: the last message of a publisher that a listener received

poolVars == <<sinks, buf, closed, reading, job, sent>>
listenVars == <<at, done, seen>>
vars == <<poolVars, listenVars, deleted, panicked>>

Msg == [from : Publishers, id : Nat]
Jobs == {"none", "send", "drop", "retry"}
Places == {"new", "select", "busy", "off", "gone"}

Init ==
    /\ sinks = {} /\ reading = {}
    /\ buf = [l \in Listeners |-> <<>>]
    /\ closed = [l \in Listeners |-> FALSE]
    /\ job = [p \in Publishers |-> [l \in Listeners |-> "none"]]
    /\ sent = [p \in Publishers |-> 0]
    /\ at = [l \in Listeners |-> "new"]
    /\ done = [l \in Listeners |-> FALSE]
    /\ deleted = FALSE /\ panicked = FALSE
    /\ seen = [l \in Listeners |-> [p \in Publishers |-> 0]]

TypeOK ==
    /\ sinks \subseteq Listeners /\ reading \subseteq Publishers
    /\ buf \in [Listeners -> Seq(Msg)]
    /\ closed \in [Listeners -> BOOLEAN]
    /\ job \in [Publishers -> [Listeners -> Jobs]]
    /\ sent \in [Publishers -> Nat]
    /\ at \in [Listeners -> Places]
    /\ done \in [Listeners -> BOOLEAN]
    /\ deleted \in BOOLEAN /\ panicked \in BOOLEAN
    /\ seen \in [Listeners -> [Publishers -> Nat]]
------------------------------------------------------------------------------
\* Channels.

Room(l) == Len(buf[l]) < Capacity[l]

\* Without a buffer a message goes straight to a listener that is waiting.
Waits(l) == Capacity[l] = 0 /\ at[l] = "select"

\* Listener l has the message m in its hands and goes on to send it.
Take(l, m) ==
    /\ at' = [at EXCEPT ![l] = "busy"]
    /\ seen' = [seen EXCEPT ![l][m.from] = m.id]
    /\ UNCHANGED done

Message(p) == [from |-> p, id |-> sent[p]]

Become(p, l, j) == job' = [job EXCEPT ![p][l] = j]

\* Mutant: the goroutine goes on to the drop after it has sent.
PutAndDrop(p, l) ==
    /\ Become(p, l, "drop")
    /\ \/ Room(l) /\ buf' = [buf EXCEPT ![l] = Append(@, Message(p))]
          /\ UNCHANGED listenVars
       \/ Waits(l) /\ Take(l, Message(p)) /\ UNCHANGED buf
    /\ UNCHANGED panicked

\* The goroutine of p puts its message into the channel of l and ends.
Put(p, l) ==
    /\ Become(p, l, "none")
    /\ \/ Room(l) /\ buf' = [buf EXCEPT ![l] = Append(@, Message(p))]
          /\ UNCHANGED listenVars
       \/ Waits(l) /\ Take(l, Message(p)) /\ UNCHANGED buf
    /\ UNCHANGED panicked

SendPanics(l) ==
    /\ closed[l] /\ panicked' = TRUE
    /\ UNCHANGED <<buf, job, listenVars>>
------------------------------------------------------------------------------
\* Push.

\* Mutant: the sinks are copied under the lock and served after its release.
PushUnlocked(p) ==
    /\ p \notin reading /\ sent[p] < MaxMsgs[p]
    /\ job[p] = [l \in Listeners |-> "none"]
    /\ job' = [job EXCEPT ![p] = [l \in Listeners |-> IF l \in sinks THEN "send" ELSE "none"]]
    /\ sent' = [sent EXCEPT ![p] = @ + 1]
    /\ UNCHANGED <<reading, sinks, buf, closed, listenVars, deleted, panicked>>

PushBegin(p) ==
    /\ p \notin reading /\ sent[p] < MaxMsgs[p]
    /\ reading' = reading \cup {p}
    /\ job' = [job EXCEPT ![p] = [l \in Listeners |-> IF l \in sinks THEN "send" ELSE "none"]]
    /\ sent' = [sent EXCEPT ![p] = @ + 1]
    /\ UNCHANGED <<sinks, buf, closed, listenVars, deleted, panicked>>

Send(p, l) ==
    /\ job[p][l] = "send"
    /\ IF closed[l] THEN SendPanics(l) ELSE Put(p, l)
    /\ UNCHANGED <<sinks, closed, reading, sent, deleted>>

\* Mutant: a send that waits for the listener, however long it takes.
SendWaits(p, l) == FALSE /\ UNCHANGED vars

\* Ten milliseconds have passed.
Timeout(p, l) ==
    /\ job[p][l] = "send" /\ Become(p, l, "drop")
    /\ UNCHANGED <<sinks, buf, closed, reading, sent, listenVars, deleted, panicked>>

\* The oldest message is taken out; without a buffer that is the message of
\* another publisher that is waiting to send.  With nothing there the message
\* that was to be sent is given up.
Drop(p, l) ==
    /\ job[p][l] = "drop"
    /\ \/ /\ buf[l] # <<>> /\ buf' = [buf EXCEPT ![l] = Tail(@)]
          /\ Become(p, l, "retry")
       \/ /\ Capacity[l] = 0 /\ UNCHANGED buf
          /\ \E q \in Publishers \ {p} :
               /\ job[q][l] = "send"
               /\ job' = [job EXCEPT ![q][l] = "none", ![p][l] = "retry"]
       \/ /\ buf[l] = <<>> /\ UNCHANGED buf
          /\ \A q \in Publishers : Capacity[l] = 0 => job[q][l] # "send"
          /\ Become(p, l, "none")
    /\ UNCHANGED <<sinks, closed, reading, sent, listenVars, deleted, panicked>>

\* The send into the space that was made, which somebody else may have filled.
Retry(p, l) ==
    /\ job[p][l] = "retry"
    /\ IF closed[l] THEN SendPanics(l)
       ELSE \/ Put(p, l)
            \/ /\ ~Room(l) /\ ~Waits(l) /\ Become(p, l, "none")
               /\ UNCHANGED <<buf, listenVars, panicked>>
    /\ UNCHANGED <<sinks, closed, reading, sent, deleted>>

PushEnd(p) ==
    /\ p \in reading /\ \A l \in Listeners : job[p][l] = "none"
    /\ reading' = reading \ {p}
    /\ UNCHANGED <<sinks, buf, closed, job, sent, listenVars, deleted, panicked>>

PushStep(p) ==
    \/ \E l \in Listeners : Send(p, l) \/ Timeout(p, l) \/ Drop(p, l) \/ Retry(p, l)
    \/ PushEnd(p)
------------------------------------------------------------------------------
\* On, Off and Destroy.

Lock == reading = {}

On(l) ==
    /\ at[l] = "new" /\ Lock
    /\ sinks' = sinks \cup {l}
    /\ at' = [at EXCEPT ![l] = "select"]
    /\ seen' = [seen EXCEPT ![l] = sent]
    /\ UNCHANGED <<buf, closed, reading, job, sent, done, deleted, panicked>>

\* Mutant: the slice is shifted and not shortened.
OffLeavesNil(l) ==
    /\ at[l] = "off" /\ Lock
    /\ at' = [at EXCEPT ![l] = "gone"] /\ buf' = [buf EXCEPT ![l] = <<>>]
    /\ sinks' = (sinks \ {l}) \cup {"nil"}
    /\ closed' = [closed EXCEPT ![l] = TRUE] /\ panicked' = closed[l]
    /\ UNCHANGED <<reading, job, sent, done, seen, deleted>>

\* Only a registered channel is closed.  What is left in it is gone with it.
Off(l) ==
    /\ at[l] = "off" /\ Lock
    /\ at' = [at EXCEPT ![l] = "gone"] /\ buf' = [buf EXCEPT ![l] = <<>>]
    /\ IF l \in sinks
         THEN /\ sinks' = sinks \ {l}
              /\ closed' = [closed EXCEPT ![l] = TRUE] /\ panicked' = closed[l]
         ELSE UNCHANGED <<sinks, closed, panicked>>
    /\ UNCHANGED <<reading, job, sent, done, seen, deleted>>

Destroy ==
    /\ ~deleted /\ deleted' = TRUE /\ Lock
    /\ sinks' = {}
    /\ closed' = [l \in Listeners |-> closed[l] \/ l \in sinks]
    /\ panicked' = (\E l \in sinks : closed[l])
    /\ UNCHANGED <<buf, reading, job, sent, listenVars>>
------------------------------------------------------------------------------
\* A listener (listenForServerEvents): it receives, sends what it received over
\* its connection, and leaves when its context is cancelled or a send fails.
\* What cannot be decoded is skipped, which is a send that succeeds.

Receive(l) ==
    /\ at[l] = "select" /\ buf[l] # <<>>
    /\ Take(l, Head(buf[l])) /\ buf' = [buf EXCEPT ![l] = Tail(@)]
    /\ UNCHANGED <<sinks, closed, reading, job, sent, deleted, panicked>>

\* A closed channel yields empty messages without end.
ReceiveClosed(l) ==
    /\ at[l] = "select" /\ closed[l] /\ buf[l] = <<>>
    /\ at' = [at EXCEPT ![l] = "busy"]
    /\ UNCHANGED <<poolVars, done, seen, deleted, panicked>>

\* Out of the loop, on the way to Off.  What was received is forgotten.
Depart(l) ==
    /\ at' = [at EXCEPT ![l] = "off"]
    /\ seen' = [seen EXCEPT ![l] = [p \in Publishers |-> 0]]

SendJson(l) ==
    /\ at[l] = "busy"
    /\ \/ at' = [at EXCEPT ![l] = "select"] /\ UNCHANGED seen
       \/ Depart(l)
    /\ UNCHANGED <<poolVars, done, deleted, panicked>>

\* The connection ends, or the server is deleted.
Cancel(l) ==
    /\ at[l] \in {"select", "busy"} /\ ~done[l] /\ done' = [done EXCEPT ![l] = TRUE]
    /\ UNCHANGED <<poolVars, at, seen, deleted, panicked>>

\* Mutant: the break in the select only leaves the select.
LeaveSelect(l) == at[l] = "select" /\ done[l] /\ UNCHANGED vars

Leave(l) ==
    /\ at[l] = "select" /\ done[l] /\ Depart(l)
    /\ UNCHANGED <<poolVars, done, deleted, panicked>>

ListenStep(l) == Receive(l) \/ ReceiveClosed(l) \/ SendJson(l)

Next ==
    /\ ~panicked
    /\ \/ \E p \in Publishers : PushBegin(p) \/ PushStep(p)
       \/ \E l \in Listeners : On(l) \/ Off(l) \/ ListenStep(l) \/ Cancel(l) \/ Leave(l)
       \/ Destroy

Spec == Init /\ [][Next]_vars

\* Goroutines that can run do run.  A select picks among the cases that are
\* ready at random, so a cancelled context is noticed even on a channel that
\* always has something to receive.  A writer that waits for a sync.RWMutex goes
\* before the readers that come after it, so Off gets the lock; the messages are
\* bounded, and weak fairness says as much.
Fairness ==
    /\ \A p \in Publishers : WF_vars(PushStep(p))
    /\ \A l \in Listeners : WF_vars(ListenStep(l)) /\ SF_vars(Leave(l)) /\ WF_vars(Off(l))

FairSpec == Spec /\ Fairness
------------------------------------------------------------------------------
\* Properties.

\* No Push, Off or Destroy ever sends on a closed channel or closes one twice:
\* Push keeps the read lock until its last goroutine has ended, and a channel
\* is closed only by whoever takes it out of the pool.
NeverPanics == ~panicked

\* Every listener gets the messages of a publisher in order, none twice and none
\* from before it joined, whatever the drops of Push take out of its channel.
FeedOf == INSTANCE Feed WITH
    members <- {l \in Listeners : at[l] \in {"select", "busy"}},
    published <- sent,
    got <- seen,
    taking <- {l \in Listeners : at[l] = "busy"},
    over <- deleted
ImplementsFeed == FeedOf!Spec

\* Push returns, whether or not anybody receives (Push: "attempt to push though
\* ... in order to avoid blocking the channel sends").
PushReturns == \A p \in Publishers : p \in reading ~> p \notin reading

\* A listener whose context is cancelled leaves the pool, also after Destroy has
\* closed its channel under it: no connection leaves a sink behind.
ListenersLeave ==
    \A l \in Listeners : done[l] ~> at[l] = "gone"
=============================================================================
