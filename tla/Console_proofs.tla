---------------------------- MODULE Console_proofs ----------------------------
(***************************************************************************)
(* What carries the console of a server to its users.  SinkPool: type      *)
(* correctness, that nothing is ever sent on a closed channel, and the     *)
(* refinement of Feed, for any number of publishers, listeners and         *)
(* messages and any capacities.  Websocket: type correctness, and that a   *)
(* revocation cuts off, for any number of connections, messages and        *)
(* revocations and any limit.                                              *)
(***************************************************************************)
EXTENDS SinkPool, Websocket, TLAPS

USE DEF Jobs, Places

LEMMA TypeInit == Init => TypeOK
<1> SUFFICES ASSUME Init PROVE TypeOK
    OBVIOUS
<1>1. sinks \subseteq Listeners /\ reading \subseteq Publishers /\ buf \in [Listeners -> Seq(Msg)]
    BY DEF Init
<1>2. closed \in [Listeners -> BOOLEAN] /\ done \in [Listeners -> BOOLEAN]
    BY DEF Init
<1>3. job \in [Publishers -> [Listeners -> Jobs]] /\ sent \in [Publishers -> Nat]
    BY DEF Init
<1>4. at \in [Listeners -> Places] /\ seen \in [Listeners -> [Publishers -> Nat]]
    BY DEF Init
<1>5. deleted \in BOOLEAN /\ panicked \in BOOLEAN
    BY DEF Init
<1>6. QED
    BY <1>1, <1>2, <1>3, <1>4, <1>5 DEF TypeOK

\* What a listener has received is a message.
LEMMA TakeType ==
    ASSUME TypeOK, NEW l \in Listeners, NEW m \in Msg, Take(l, m)
    PROVE  seen' \in [Listeners -> [Publishers -> Nat]]
<1>1. m.from \in Publishers /\ m.id \in Nat
    BY DEF Msg
<1>2. [seen[l] EXCEPT ![m.from] = m.id] \in [Publishers -> Nat]
    BY <1>1 DEF TypeOK
<1>3. QED
    BY <1>2 DEF TypeOK, Take

\* What Put does to a channel keeps the types.
LEMMA PutType ==
    ASSUME TypeOK, NEW p \in Publishers, NEW l \in Listeners, Put(p, l)
    PROVE  /\ buf' \in [Listeners -> Seq(Msg)]
           /\ job' \in [Publishers -> [Listeners -> Jobs]]
           /\ at' \in [Listeners -> Places]
           /\ seen' \in [Listeners -> [Publishers -> Nat]]
           /\ done' = done /\ panicked' = panicked
<1>1. Message(p) \in Msg
    BY DEF TypeOK, Message, Msg
<1>2. job' \in [Publishers -> [Listeners -> Jobs]]
    BY DEF TypeOK, Put, Become
<1>3. CASE buf' = [buf EXCEPT ![l] = Append(@, Message(p))] /\ UNCHANGED listenVars
  <2>1. Append(buf[l], Message(p)) \in Seq(Msg)
    BY <1>1 DEF TypeOK
  <2>2. QED
    BY <1>2, <1>3, <2>1 DEF TypeOK, Put, listenVars
<1>4. CASE Take(l, Message(p)) /\ UNCHANGED buf
  <2>1. at' \in [Listeners -> Places]
    BY <1>4 DEF TypeOK, Take
  <2>2. seen' \in [Listeners -> [Publishers -> Nat]]
    BY <1>4, TakeType, <1>1
  <2>3. QED
    BY <1>2, <1>4, <2>1, <2>2 DEF TypeOK, Put, Take
<1>5. QED
    BY <1>3, <1>4 DEF Put

\* Every step of Next, and a step that changes nothing, keeps the types.
LEMMA TypeStep == TypeOK /\ [Next]_vars => TypeOK'
<1> SUFFICES ASSUME TypeOK, [Next]_vars PROVE TypeOK'
    OBVIOUS
<1>1. ASSUME NEW p \in Publishers, PushBegin(p) PROVE TypeOK'
    BY <1>1 DEF TypeOK, PushBegin, listenVars
<1>2. ASSUME NEW p \in Publishers, NEW l \in Listeners, Send(p, l) \/ Retry(p, l) PROVE TypeOK'
  <2>1. CASE Put(p, l)
    BY <1>2, <2>1, PutType DEF TypeOK, Send, Retry
  <2>2. CASE SendPanics(l)
    BY <1>2, <2>2 DEF TypeOK, Send, Retry, SendPanics, listenVars
  <2>3. CASE Become(p, l, "none") /\ UNCHANGED <<buf, listenVars, panicked>>
    BY <1>2, <2>3 DEF TypeOK, Send, Retry, Become, listenVars
  <2>4. QED
    BY <1>2, <2>1, <2>2, <2>3 DEF Send, Retry
<1>3. ASSUME NEW p \in Publishers, NEW l \in Listeners, Timeout(p, l) PROVE TypeOK'
    BY <1>3 DEF TypeOK, Timeout, Become, listenVars
<1>4. ASSUME NEW p \in Publishers, NEW l \in Listeners, Drop(p, l) PROVE TypeOK'
  <2>1. buf' \in [Listeners -> Seq(Msg)]
    <3>1. buf[l] \in Seq(Msg) /\ (buf[l] # <<>> => Tail(buf[l]) \in Seq(Msg))
      BY DEF TypeOK
    <3>2. QED
      BY <1>4, <3>1 DEF TypeOK, Drop
  <2>2. job' \in [Publishers -> [Listeners -> Jobs]]
    <3>1. ASSUME NEW j \in Jobs, Become(p, l, j) PROVE job' \in [Publishers -> [Listeners -> Jobs]]
      BY <3>1 DEF TypeOK, Become
    <3>2. ASSUME NEW q \in Publishers, job' = [job EXCEPT ![q][l] = "none", ![p][l] = "retry"]
          PROVE job' \in [Publishers -> [Listeners -> Jobs]]
      <4> DEFINE J == [job EXCEPT ![q][l] = "none"]
      <4>1. J \in [Publishers -> [Listeners -> Jobs]]
        BY DEF TypeOK
      <4>2. job' = [J EXCEPT ![p][l] = "retry"]
        BY <3>2
      <4>3. QED
        BY <4>1, <4>2
    <3>3. QED
      BY <1>4, <3>1, <3>2 DEF Drop
  <2>3. QED
    BY <1>4, <2>1, <2>2 DEF TypeOK, Drop, listenVars
<1>5. ASSUME NEW p \in Publishers, PushEnd(p) PROVE TypeOK'
    BY <1>5 DEF TypeOK, PushEnd, listenVars
<1>6. ASSUME NEW l \in Listeners, On(l) PROVE TypeOK'
    BY <1>6 DEF TypeOK, On
<1>7. ASSUME NEW l \in Listeners, Off(l) PROVE TypeOK'
  <2>1. at' \in [Listeners -> Places] /\ buf' \in [Listeners -> Seq(Msg)]
    BY <1>7 DEF TypeOK, Off
  <2>2. sinks' \subseteq Listeners /\ closed' \in [Listeners -> BOOLEAN] /\ panicked' \in BOOLEAN
    <3>1. CASE l \in sinks
      BY <1>7, <3>1 DEF TypeOK, Off
    <3>2. CASE l \notin sinks
      BY <1>7, <3>2 DEF TypeOK, Off
    <3>3. QED
      BY <3>1, <3>2
  <2>3. QED
    BY <1>7, <2>1, <2>2 DEF TypeOK, Off
<1>8. CASE Destroy
  <2>1. closed' \in [Listeners -> BOOLEAN] /\ panicked' \in BOOLEAN /\ deleted' \in BOOLEAN
    BY <1>8 DEF TypeOK, Destroy
  <2>2. QED
    BY <1>8, <2>1 DEF TypeOK, Destroy, listenVars
<1>9. ASSUME NEW l \in Listeners, Receive(l) PROVE TypeOK'
  <2>1. Head(buf[l]) \in Msg /\ Tail(buf[l]) \in Seq(Msg)
    BY <1>9 DEF TypeOK, Receive
  <2>2. at' \in [Listeners -> Places] /\ seen' \in [Listeners -> [Publishers -> Nat]]
    BY <1>9, <2>1, TakeType DEF TypeOK, Receive, Take
  <2>3. buf' \in [Listeners -> Seq(Msg)]
    BY <1>9, <2>1 DEF TypeOK, Receive
  <2>4. QED
    BY <1>9, <2>2, <2>3 DEF TypeOK, Receive, Take
<1>10. ASSUME NEW l \in Listeners, ReceiveClosed(l) \/ SendJson(l) \/ Cancel(l) \/ Leave(l) PROVE TypeOK'
  <2>1. CASE ReceiveClosed(l) \/ Cancel(l)
    BY <2>1 DEF TypeOK, ReceiveClosed, Cancel, poolVars
  <2>2. CASE Depart(l) /\ (SendJson(l) \/ Leave(l))
    BY <2>2 DEF TypeOK, SendJson, Leave, Depart, poolVars
  <2>3. CASE SendJson(l) /\ ~Depart(l)
    BY <2>3 DEF TypeOK, SendJson, poolVars
  <2>4. QED
    BY <1>10, <2>1, <2>2, <2>3 DEF Leave
<1>11. CASE UNCHANGED vars
    BY <1>11 DEF TypeOK, vars, poolVars, listenVars
<1>12. QED
    BY <1>1, <1>2, <1>3, <1>4, <1>5, <1>6, <1>7, <1>8, <1>9, <1>10, <1>11
       DEF Next, PushStep, ListenStep

\* Every variable of the pool keeps its type, whatever publishers and listeners do.
THEOREM TypeCorrect == Spec => []TypeOK
    BY TypeInit, TypeStep, PTL DEF Spec
------------------------------------------------------------------------------
\* The strengthening of NeverPanics.

\* A goroutine of a Push works under the read lock on a registered channel.
JobsUnderLock ==
    \A p \in Publishers, l \in Listeners : job[p][l] # "none" => p \in reading /\ l \in sinks

\* A registered channel is open and belongs to a listener that has not left; a
\* channel that has never been registered is untouched.
SinksOpen ==
    \A l \in Listeners :
        /\ l \in sinks => ~closed[l] /\ at[l] \in {"select", "busy", "off"}
        /\ at[l] = "new" => ~closed[l] /\ buf[l] = <<>>

PoolInv == TypeOK /\ JobsUnderLock /\ SinksOpen /\ NeverPanics

LEMMA PoolInit == Init => PoolInv
<1> SUFFICES ASSUME Init PROVE PoolInv
    OBVIOUS
<1>1. JobsUnderLock
    BY DEF Init, JobsUnderLock
<1>2. SinksOpen /\ NeverPanics
    BY DEF Init, SinksOpen, NeverPanics
<1>3. QED
    BY <1>1, <1>2, TypeInit DEF PoolInv

\* Every step keeps the locks, the registrations and the channels in order.
LEMMA PoolStep == PoolInv /\ [Next]_vars => PoolInv'
<1> SUFFICES ASSUME PoolInv, [Next]_vars PROVE JobsUnderLock' /\ SinksOpen' /\ NeverPanics'
    BY TypeStep DEF PoolInv
<1> USE DEF PoolInv
<1>1. ASSUME NEW p \in Publishers, PushBegin(p) PROVE JobsUnderLock' /\ SinksOpen' /\ NeverPanics'
    BY <1>1 DEF TypeOK, JobsUnderLock, SinksOpen, NeverPanics, PushBegin, listenVars
<1>2. ASSUME NEW p \in Publishers, NEW l \in Listeners, Send(p, l) \/ Retry(p, l)
      PROVE JobsUnderLock' /\ SinksOpen' /\ NeverPanics'
  <2>1. job[p][l] # "none" /\ ~closed[l] /\ l \in sinks
    BY <1>2 DEF JobsUnderLock, SinksOpen, Send, Retry
  <2>2. Become(p, l, "none") /\ UNCHANGED <<sinks, closed, reading, panicked>>
    BY <1>2, <2>1 DEF Send, Retry, Put
  <2>3. JobsUnderLock'
    BY <2>2 DEF TypeOK, JobsUnderLock, Become
  <2>4. \A k \in Listeners : at'[k] = at[k] \/ (at[k] = "select" /\ at'[k] = "busy")
    <3>1. CASE UNCHANGED listenVars
      BY <3>1 DEF listenVars
    <3>2. CASE Waits(l) /\ Take(l, Message(p))
      BY <3>2 DEF TypeOK, Take, Waits
    <3>3. QED
      BY <1>2, <2>1, <3>1, <3>2 DEF Send, Retry, Put, listenVars
  <2>5. \A k \in Listeners : at[k] = "new" => buf'[k] = buf[k]
    <3>1. at[l] # "new"
      BY <2>1 DEF SinksOpen
    <3>2. QED
      BY <1>2, <2>1, <3>1 DEF TypeOK, Send, Retry, Put
  <2>6. SinksOpen' /\ NeverPanics'
    BY <2>2, <2>4, <2>5 DEF SinksOpen, NeverPanics
  <2>7. QED
    BY <2>3, <2>6
<1>3. ASSUME NEW p \in Publishers, NEW l \in Listeners, Timeout(p, l)
      PROVE JobsUnderLock' /\ SinksOpen' /\ NeverPanics'
    BY <1>3 DEF TypeOK, JobsUnderLock, SinksOpen, NeverPanics, Timeout, Become, listenVars
<1>4. ASSUME NEW p \in Publishers, NEW l \in Listeners, Drop(p, l)
      PROVE JobsUnderLock' /\ SinksOpen' /\ NeverPanics'
  <2>1. \A q \in Publishers, k \in Listeners : job'[q][k] # "none" => job[q][k] # "none"
    <3>1. ASSUME NEW j, Become(p, l, j), NEW q \in Publishers, NEW k \in Listeners, job'[q][k] # "none"
          PROVE job[q][k] # "none"
      BY <1>4, <3>1 DEF TypeOK, Become, Drop
    <3>2. ASSUME NEW r \in Publishers, job' = [job EXCEPT ![r][l] = "none", ![p][l] = "retry"],
                 NEW q \in Publishers, NEW k \in Listeners, job'[q][k] # "none"
          PROVE job[q][k] # "none"
      BY <1>4, <3>2 DEF TypeOK, Drop
    <3>3. QED
      BY <1>4, <3>1, <3>2 DEF Drop
  <2>2. JobsUnderLock'
    BY <1>4, <2>1 DEF JobsUnderLock, Drop
  <2>3. \A k \in Listeners : at[k] = "new" => buf'[k] = buf[k]
    BY <1>4 DEF TypeOK, JobsUnderLock, SinksOpen, Drop
  <2>4. SinksOpen' /\ NeverPanics'
    BY <1>4, <2>3 DEF SinksOpen, NeverPanics, Drop, listenVars
  <2>5. QED
    BY <2>2, <2>4
<1>5. ASSUME NEW p \in Publishers, PushEnd(p) PROVE JobsUnderLock' /\ SinksOpen' /\ NeverPanics'
    BY <1>5 DEF TypeOK, JobsUnderLock, SinksOpen, NeverPanics, PushEnd, listenVars
<1>6. ASSUME NEW l \in Listeners, On(l) PROVE JobsUnderLock' /\ SinksOpen' /\ NeverPanics'
    BY <1>6 DEF TypeOK, JobsUnderLock, SinksOpen, NeverPanics, On, Lock
<1>7. ASSUME NEW l \in Listeners, Off(l) PROVE JobsUnderLock' /\ SinksOpen' /\ NeverPanics'
  <2>1. JobsUnderLock'
    BY <1>7 DEF JobsUnderLock, Off, Lock
  <2>2. SinksOpen'
    BY <1>7 DEF TypeOK, SinksOpen, Off
  <2>3. NeverPanics'
    BY <1>7 DEF SinksOpen, NeverPanics, Off
  <2>4. QED
    BY <2>1, <2>2, <2>3
<1>8. CASE Destroy
    BY <1>8 DEF TypeOK, JobsUnderLock, SinksOpen, NeverPanics, Destroy, Lock, listenVars
<1>9. ASSUME NEW l \in Listeners, Receive(l) PROVE JobsUnderLock' /\ SinksOpen' /\ NeverPanics'
    BY <1>9 DEF TypeOK, JobsUnderLock, SinksOpen, NeverPanics, Receive, Take
<1>10. ASSUME NEW l \in Listeners, ReceiveClosed(l) \/ SendJson(l) \/ Cancel(l) \/ Leave(l)
       PROVE JobsUnderLock' /\ SinksOpen' /\ NeverPanics'
  <2>1. UNCHANGED <<poolVars, panicked>>
    BY <1>10 DEF ReceiveClosed, SendJson, Cancel, Leave
  <2>2. \A k \in Listeners : at'[k] = at[k] \/ (at[k] \in {"select", "busy"} /\ at'[k] \in {"select", "busy", "off"})
    BY <1>10 DEF TypeOK, ReceiveClosed, SendJson, Cancel, Leave, Depart
  <2>3. QED
    BY <2>1, <2>2 DEF JobsUnderLock, SinksOpen, NeverPanics, poolVars
<1>11. CASE UNCHANGED vars
    BY <1>11 DEF JobsUnderLock, SinksOpen, NeverPanics, vars, poolVars, listenVars
<1>12. QED
    BY <1>1, <1>2, <1>3, <1>4, <1>5, <1>6, <1>7, <1>8, <1>9, <1>10, <1>11
       DEF Next, PushStep, ListenStep

\* In every state of the pool the goroutines of Push work under the read lock on
\* registered channels, and registered channels are open.
THEOREM PoolInvariant == Spec => []PoolInv
    BY PoolInit, PoolStep, PTL DEF Spec

\* No Push, Off or Destroy ever sends on a closed channel or closes one twice.
THEOREM NoPanic == Spec => []NeverPanics
<1>1. PoolInv => NeverPanics
    BY DEF PoolInv
<1>2. QED
    BY <1>1, PoolInvariant, PTL
------------------------------------------------------------------------------
\* The refinement of Feed.

\* The messages of a publisher are in a channel in the order of publication.
InOrder(b) ==
    \A i, j \in 1 .. Len(b) : i < j /\ b[i].from = b[j].from => b[i].id < b[j].id

\* They have been published and are newer than what the listener has received.
Fresh(b, last, pub) ==
    \A i \in 1 .. Len(b) : last[b[i].from] < b[i].id /\ b[i].id <= pub[b[i].from]

\* The messages of p in the channel are older than n.
Before(b, p, n) == \A i \in 1 .. Len(b) : b[i].from = p => b[i].id < n

\* The message of a goroutine that has not ended is newer than whatever its
\* publisher has in the channel or the listener has received.
InFlight(l) ==
    \A p \in Publishers : job[p][l] # "none" => seen[l][p] < sent[p] /\ Before(buf[l], p, sent[p])

ChannelInv(l) ==
    /\ InOrder(buf[l]) /\ Fresh(buf[l], seen[l], sent) /\ Len(buf[l]) <= Capacity[l]
    /\ closed[l] => deleted \/ at[l] = "gone"
    /\ \A p \in Publishers : seen[l][p] <= sent[p]
    /\ InFlight(l)

FeedInv == \A l \in Listeners : ChannelInv(l)

LEMMA TailProps ==
    ASSUME NEW b \in Seq(Msg), b # <<>>, InOrder(b),
           NEW last \in [Publishers -> Nat], NEW pub \in [Publishers -> Nat], Fresh(b, last, pub)
    PROVE  /\ InOrder(Tail(b)) /\ Fresh(Tail(b), last, pub)
           /\ Len(Tail(b)) = Len(b) - 1
           /\ \A p, n : Before(b, p, n) => Before(Tail(b), p, n)
<1>1. Len(Tail(b)) = Len(b) - 1 /\ Len(b) \in Nat /\ \A i \in 1 .. Len(b) - 1 : Tail(b)[i] = b[i + 1]
    OBVIOUS
<1>2. \A i \in 1 .. Len(b) - 1 : i + 1 \in 1 .. Len(b)
    BY <1>1
<1>3. InOrder(Tail(b))
    BY <1>1, <1>2 DEF InOrder
<1>4. Fresh(Tail(b), last, pub)
    BY <1>1, <1>2 DEF Fresh
<1>5. \A p, n : Before(b, p, n) => Before(Tail(b), p, n)
    BY <1>1, <1>2 DEF Before
<1>6. QED
    BY <1>1, <1>3, <1>4, <1>5

\* The listener receives the oldest message.
LEMMA HeadProps ==
    ASSUME NEW b \in Seq(Msg), b # <<>>, InOrder(b),
           NEW last \in [Publishers -> Nat], NEW pub \in [Publishers -> Nat], Fresh(b, last, pub)
    PROVE  /\ Head(b) \in Msg /\ last[Head(b).from] < Head(b).id /\ Head(b).id <= pub[Head(b).from]
           /\ Fresh(Tail(b), [last EXCEPT ![Head(b).from] = Head(b).id], pub)
<1>1. Len(Tail(b)) = Len(b) - 1 /\ Len(b) \in Nat /\ \A i \in 1 .. Len(b) - 1 : Tail(b)[i] = b[i + 1]
    OBVIOUS
<1>2. \A i \in 1 .. Len(b) - 1 : i + 1 \in 1 .. Len(b) /\ 1 < i + 1
    BY <1>1
<1>3. 1 \in 1 .. Len(b) /\ Head(b) = b[1] /\ Head(b) \in Msg
    OBVIOUS
<1>4. last[b[1].from] < b[1].id /\ b[1].id <= pub[b[1].from]
    BY <1>3 DEF Fresh
<1>5. ASSUME NEW i \in 1 .. Len(b) - 1
      PROVE /\ [last EXCEPT ![b[1].from] = b[1].id][b[i + 1].from] < b[i + 1].id
            /\ b[i + 1].id <= pub[b[i + 1].from]
  <2>1. b[i + 1] \in Msg /\ i + 1 \in 1 .. Len(b)
    BY <1>2
  <2>2. last[b[i + 1].from] < b[i + 1].id /\ b[i + 1].id <= pub[b[i + 1].from]
    BY <2>1 DEF Fresh
  <2>3. b[1].from = b[i + 1].from => b[1].id < b[i + 1].id
    BY <1>2, <1>3 DEF InOrder
  <2>4. b[i + 1].from \in Publishers
    BY <2>1 DEF Msg
  <2>5. QED
    BY <2>2, <2>3, <2>4
<1>6. Fresh(Tail(b), [last EXCEPT ![b[1].from] = b[1].id], pub)
    BY <1>1, <1>5 DEF Fresh
<1>7. QED
    BY <1>3, <1>4, <1>6

\* A new message goes behind the others.
LEMMA AppendProps ==
    ASSUME NEW b \in Seq(Msg), InOrder(b), NEW p \in Publishers,
           NEW last \in [Publishers -> Nat], NEW pub \in [Publishers -> Nat], Fresh(b, last, pub),
           last[p] < pub[p], Before(b, p, pub[p]),
           NEW m \in Msg, m.from = p, m.id = pub[p]
    PROVE  /\ InOrder(Append(b, m)) /\ Fresh(Append(b, m), last, pub)
           /\ Len(Append(b, m)) = Len(b) + 1
           /\ \A q, n : q # p /\ Before(b, q, n) => Before(Append(b, m), q, n)
<1>1. /\ Len(Append(b, m)) = Len(b) + 1 /\ Len(b) \in Nat
      /\ \A i \in 1 .. Len(b) : Append(b, m)[i] = b[i]
      /\ Append(b, m)[Len(b) + 1] = m
    OBVIOUS
<1>2. \A i \in 1 .. Len(b) + 1 : i \in 1 .. Len(b) \/ i = Len(b) + 1
    BY <1>1
<1>3. InOrder(Append(b, m))
  <2> SUFFICES ASSUME NEW i \in 1 .. Len(b) + 1, NEW j \in 1 .. Len(b) + 1, i < j,
                      Append(b, m)[i].from = Append(b, m)[j].from
               PROVE  Append(b, m)[i].id < Append(b, m)[j].id
    BY <1>1 DEF InOrder
  <2>1. i \in 1 .. Len(b)
    BY <1>1
  <2>2. CASE j \in 1 .. Len(b)
    BY <1>1, <2>1, <2>2 DEF InOrder
  <2>3. CASE j = Len(b) + 1
    BY <1>1, <2>1, <2>3 DEF Before
  <2>4. QED
    BY <1>2, <2>2, <2>3
<1>4. Fresh(Append(b, m), last, pub)
  <2> SUFFICES ASSUME NEW i \in 1 .. Len(b) + 1
               PROVE  /\ last[Append(b, m)[i].from] < Append(b, m)[i].id
                      /\ Append(b, m)[i].id <= pub[Append(b, m)[i].from]
    BY <1>1 DEF Fresh
  <2>1. CASE i \in 1 .. Len(b)
    BY <1>1, <2>1 DEF Fresh
  <2>2. CASE i = Len(b) + 1
    BY <1>1, <2>2
  <2>3. QED
    BY <1>2, <2>1, <2>2
<1>5. \A q, n : q # p /\ Before(b, q, n) => Before(Append(b, m), q, n)
    BY <1>1, <1>2 DEF Before
<1>6. QED
    BY <1>1, <1>3, <1>4, <1>5

LEMMA MsgFields ==
    ASSUME NEW b \in Seq(Msg)
    PROVE  \A i \in 1 .. Len(b) : b[i].from \in Publishers /\ b[i].id \in Nat
<1> SUFFICES ASSUME NEW i \in 1 .. Len(b) PROVE b[i].from \in Publishers /\ b[i].id \in Nat
    OBVIOUS
<1>1. b[i] \in Msg
    OBVIOUS
<1>2. QED
    BY <1>1 DEF Msg

LEMMA FeedInit == Init => FeedInv
<1> SUFFICES ASSUME Init, NEW l \in Listeners PROVE ChannelInv(l)
    BY DEF FeedInv
<1>1. buf[l] = <<>> /\ ~closed[l] /\ Capacity[l] \in Nat /\ Len(buf[l]) = 0
    BY SinkPoolAssumption DEF Init
<1>2. \A p \in Publishers : seen[l][p] = 0 /\ sent[p] = 0 /\ job[p][l] = "none"
    BY DEF Init
<1>3. InOrder(buf[l]) /\ Fresh(buf[l], seen[l], sent)
    BY <1>1 DEF InOrder, Fresh
<1>4. QED
    BY <1>1, <1>2, <1>3 DEF ChannelInv, InFlight

\* A channel nobody has touched is as it was.
LEMMA SameChannel ==
    ASSUME NEW l \in Listeners, ChannelInv(l), sent' = sent,
           buf'[l] = buf[l], seen'[l] = seen[l],
           closed'[l] = closed[l] \/ deleted', deleted => deleted',
           at'[l] = at[l] \/ at[l] # "gone",
           \A p \in Publishers : job'[p][l] # "none" => job[p][l] # "none"
    PROVE  ChannelInv(l)'
<1>1. InFlight(l)'
    BY DEF ChannelInv, InFlight, Before
<1>2. InOrder(buf'[l]) /\ Fresh(buf'[l], seen'[l], sent')
    BY DEF ChannelInv, InOrder, Fresh
<1>3. QED
    BY <1>1, <1>2 DEF ChannelInv, InOrder, Fresh

\* What the listener has received after it has taken a message.
LEMMA TakeChannel ==
    ASSUME TypeOK, NEW l \in Listeners, NEW m \in Msg, Take(l, m), sent' = sent,
           seen[l][m.from] <= m.id, m.id <= sent[m.from],
           \A p \in Publishers : seen[l][p] <= sent[p]
    PROVE  /\ \A p \in Publishers : seen'[l][p] = IF p = m.from THEN m.id ELSE seen[l][p]
           /\ \A p \in Publishers : seen'[l][p] <= sent'[p]
           /\ \A k \in Listeners \ {l} : seen'[k] = seen[k] /\ at'[k] = at[k]
           /\ at'[l] = "busy"
<1>1. m.from \in Publishers /\ m.id \in Nat
    BY DEF Msg
<1>2. QED
    BY <1>1 DEF TypeOK, Take
\* A goroutine of Push puts its message into a channel, or into the hands of the
\* listener that waits for it.
LEMMA PutChannel ==
    ASSUME PoolInv, FeedInv, NEW p \in Publishers, NEW l \in Listeners, Put(p, l),
           job[p][l] # "none", UNCHANGED <<closed, sent, deleted>>
    PROVE  FeedInv'
<1> USE DEF PoolInv
<1> DEFINE m == Message(p)
<1>1. m \in Msg /\ m.from = p /\ m.id = sent[p]
    BY DEF TypeOK, Message, Msg
<1>2. ChannelInv(l) /\ seen[l][p] < sent[p] /\ Before(buf[l], p, sent[p])
    BY DEF FeedInv, ChannelInv, InFlight
<1>3. /\ \A q \in Publishers : job'[q][l] # "none" => q # p /\ job[q][l] # "none"
      /\ \A q \in Publishers, k \in Listeners \ {l} : job'[q][k] = job[q][k]
    BY DEF TypeOK, Put, Become
<1>4. /\ buf[l] \in Seq(Msg) /\ Len(buf[l]) \in Nat /\ seen[l] \in [Publishers -> Nat]
      /\ sent \in [Publishers -> Nat]
    BY DEF TypeOK
<1>5. ASSUME NEW k \in Listeners \ {l} PROVE ChannelInv(k)'
  <2>1. buf'[k] = buf[k] /\ seen'[k] = seen[k] /\ at'[k] = at[k]
    BY DEF TypeOK, Put, Take, listenVars
  <2>2. QED
    BY <1>3, <2>1, SameChannel DEF FeedInv
<1>6. CASE Room(l) /\ buf' = [buf EXCEPT ![l] = Append(@, m)] /\ UNCHANGED listenVars
  <2>1. /\ InOrder(Append(buf[l], m)) /\ Fresh(Append(buf[l], m), seen[l], sent)
        /\ Len(Append(buf[l], m)) = Len(buf[l]) + 1
        /\ \A q, n : q # p /\ Before(buf[l], q, n) => Before(Append(buf[l], m), q, n)
    <3>1. InOrder(buf[l]) /\ Fresh(buf[l], seen[l], sent)
      BY <1>2 DEF ChannelInv
    <3> HIDE DEF m
    <3>2. QED
      BY <1>1, <1>2, <1>4, <3>1, AppendProps
  <2>2. buf'[l] = Append(buf[l], m) /\ seen'[l] = seen[l] /\ at'[l] = at[l]
    BY <1>6 DEF TypeOK, listenVars
  <2>3. Len(buf[l]) + 1 <= Capacity[l]
    BY <1>4, <1>6, SinkPoolAssumption DEF Room
  <2> HIDE DEF m
  <2>4. \A q \in Publishers : job'[q][l] # "none" => seen[l][q] < sent[q] /\ Before(Append(buf[l], m), q, sent[q])
    BY <1>2, <1>3, <2>1 DEF ChannelInv, InFlight
  <2>5. ChannelInv(l)'
    BY <1>2, <2>1, <2>2, <2>3, <2>4 DEF ChannelInv, InFlight, InOrder, Fresh, Before
  <2>6. QED
    BY <1>5, <2>5 DEF FeedInv
<1>7. CASE Waits(l) /\ Take(l, m) /\ UNCHANGED buf
  <2>1. buf'[l] = <<>> /\ Len(buf'[l]) = 0 /\ Capacity[l] \in Nat
    BY <1>2, <1>4, <1>7, SinkPoolAssumption DEF ChannelInv, Waits
  <2>2. /\ \A q \in Publishers : seen'[l][q] <= sent'[q]
        /\ \A q \in Publishers \ {p} : seen'[l][q] = seen[l][q]
        /\ at'[l] = "busy" /\ at[l] = "select"
    <3> HIDE DEF m
    <3>1. seen[l][m.from] <= m.id /\ m.id <= sent[m.from] /\ \A q \in Publishers : seen[l][q] <= sent[q]
      BY <1>1, <1>2, <1>4 DEF ChannelInv
    <3>2. QED
      BY <1>1, <1>7, <3>1, TakeChannel DEF Waits
  <2>3. InOrder(buf'[l]) /\ Fresh(buf'[l], seen'[l], sent') /\ \A q, n : Before(buf'[l], q, n)
    BY <2>1 DEF InOrder, Fresh, Before
  <2>4. \A q \in Publishers : job'[q][l] # "none" => seen'[l][q] < sent'[q] /\ Before(buf'[l], q, sent'[q])
    BY <1>2, <1>3, <2>2, <2>3 DEF ChannelInv, InFlight
  <2>5. ChannelInv(l)'
    BY <1>2, <2>1, <2>2, <2>3, <2>4 DEF ChannelInv, InFlight, InOrder, Fresh, Before
  <2>6. QED
    BY <1>5, <2>5 DEF FeedInv
<1>8. QED
    BY <1>6, <1>7 DEF Put

\* The oldest message is taken out of a channel and thrown away.
LEMMA DropChannel ==
    ASSUME PoolInv, FeedInv, NEW p \in Publishers, NEW l \in Listeners, Drop(p, l)
    PROVE  FeedInv'
<1> USE DEF PoolInv
<1>1. \A q \in Publishers, k \in Listeners : job'[q][k] # "none" => job[q][k] # "none"
  <2>1. ASSUME NEW j, Become(p, l, j) PROVE \A q \in Publishers, k \in Listeners : job'[q][k] # "none" => job[q][k] # "none"
    BY <2>1 DEF TypeOK, Become, Drop
  <2>2. ASSUME NEW r \in Publishers, job' = [job EXCEPT ![r][l] = "none", ![p][l] = "retry"]
        PROVE \A q \in Publishers, k \in Listeners : job'[q][k] # "none" => job[q][k] # "none"
    BY <2>2 DEF TypeOK, Drop
  <2>3. QED
    BY <2>1, <2>2 DEF Drop
<1>2. UNCHANGED <<closed, sent, deleted, at, seen>>
    BY DEF Drop, listenVars
<1>3. ASSUME NEW k \in Listeners, buf'[k] = buf[k] PROVE ChannelInv(k)'
    BY <1>1, <1>2, <1>3, SameChannel DEF FeedInv
<1>4. CASE UNCHANGED buf
    BY <1>3, <1>4 DEF FeedInv
<1>5. CASE buf[l] # <<>> /\ buf' = [buf EXCEPT ![l] = Tail(@)]
  <2>1. ChannelInv(l) /\ buf[l] \in Seq(Msg) /\ seen[l] \in [Publishers -> Nat] /\ sent \in [Publishers -> Nat]
    BY DEF FeedInv, TypeOK
  <2>2. /\ InOrder(Tail(buf[l])) /\ Fresh(Tail(buf[l]), seen[l], sent)
        /\ Len(Tail(buf[l])) = Len(buf[l]) - 1
        /\ \A q, n : Before(buf[l], q, n) => Before(Tail(buf[l]), q, n)
    BY <1>5, <2>1, TailProps DEF ChannelInv
  <2>3. buf'[l] = Tail(buf[l]) /\ \A k \in Listeners \ {l} : buf'[k] = buf[k]
    BY <1>5 DEF TypeOK
  <2>4. Len(buf'[l]) <= Capacity[l]
    BY <2>1, <2>2, <2>3, SinkPoolAssumption DEF ChannelInv
  <2>5. InFlight(l)'
    BY <1>1, <1>2, <2>1, <2>2, <2>3 DEF ChannelInv, InFlight, Before
  <2>6. ChannelInv(l)'
    BY <1>2, <2>1, <2>2, <2>3, <2>4, <2>5 DEF ChannelInv, InOrder, Fresh
  <2>7. QED
    BY <1>3, <2>3, <2>6 DEF FeedInv
<1>6. QED
    BY <1>4, <1>5 DEF Drop
\* The listener takes the oldest message out of its channel.
LEMMA ReceiveChannel ==
    ASSUME PoolInv, FeedInv, NEW l \in Listeners, Receive(l)
    PROVE  FeedInv'
<1> USE DEF PoolInv
<1> DEFINE m == Head(buf[l])
<1>1. ChannelInv(l) /\ buf[l] \in Seq(Msg) /\ seen[l] \in [Publishers -> Nat] /\ sent \in [Publishers -> Nat]
    BY DEF FeedInv, TypeOK
<1>2. buf[l] # <<>> /\ Take(l, m) /\ at[l] = "select" /\ UNCHANGED <<closed, sent, deleted, job>>
    BY DEF Receive
<1>3. /\ m \in Msg /\ seen[l][m.from] < m.id /\ m.id <= sent[m.from]
      /\ Fresh(Tail(buf[l]), [seen[l] EXCEPT ![m.from] = m.id], sent)
    BY <1>1, <1>2, HeadProps DEF ChannelInv
<1>4. /\ InOrder(Tail(buf[l])) /\ Len(Tail(buf[l])) = Len(buf[l]) - 1
      /\ \A q, n : Before(buf[l], q, n) => Before(Tail(buf[l]), q, n)
    BY <1>1, <1>2, TailProps DEF ChannelInv
<1>5. buf'[l] = Tail(buf[l]) /\ \A k \in Listeners \ {l} : buf'[k] = buf[k]
    BY DEF TypeOK, Receive
<1>6. seen'[l] = [seen[l] EXCEPT ![m.from] = m.id]
    BY <1>2 DEF TypeOK, Take
<1>7. \A p \in Publishers : m.from = p /\ Before(buf[l], p, sent[p]) => m.id < sent[p]
    BY <1>1, <1>2 DEF Before
<1> HIDE DEF m
<1>8. m.from \in Publishers /\ m.id \in Nat
    BY <1>3 DEF Msg
<1>9. /\ \A p \in Publishers : seen'[l][p] = IF p = m.from THEN m.id ELSE seen[l][p]
      /\ \A p \in Publishers : seen'[l][p] <= sent'[p]
      /\ \A k \in Listeners \ {l} : seen'[k] = seen[k] /\ at'[k] = at[k]
      /\ at'[l] = "busy"
  <2>1. seen[l][m.from] <= m.id /\ \A p \in Publishers : seen[l][p] <= sent[p]
    BY <1>1, <1>3, <1>8 DEF ChannelInv
  <2>2. QED
    BY <1>2, <1>3, <2>1, TakeChannel
<1>10. ASSUME NEW k \in Listeners \ {l} PROVE ChannelInv(k)'
    BY <1>2, <1>5, <1>9, SameChannel DEF FeedInv
<1>11. Len(buf'[l]) <= Capacity[l]
    BY <1>1, <1>4, <1>5, SinkPoolAssumption DEF ChannelInv
<1>12. ASSUME NEW p \in Publishers, job'[p][l] # "none"
       PROVE  seen'[l][p] < sent'[p] /\ Before(buf'[l], p, sent'[p])
  <2>1. seen[l][p] < sent[p] /\ Before(buf[l], p, sent[p])
    BY <1>1, <1>2, <1>12 DEF ChannelInv, InFlight
  <2>2. Before(buf'[l], p, sent'[p])
    BY <1>2, <1>4, <1>5, <2>1
  <2>3. seen'[l][p] < sent'[p]
    BY <1>2, <1>7, <1>9, <2>1
  <2>4. QED
    BY <2>2, <2>3
<1>13. InFlight(l)'
    BY <1>12 DEF InFlight, Before
<1>14. InOrder(buf'[l]) /\ Fresh(buf'[l], seen'[l], sent')
    BY <1>2, <1>3, <1>4, <1>5, <1>6
<1>15. ChannelInv(l)'
    BY <1>1, <1>2, <1>9, <1>11, <1>13, <1>14 DEF ChannelInv, InOrder, Fresh
<1>16. QED
    BY <1>10, <1>15 DEF FeedInv

\* A new message is newer than everything of its publisher.
LEMMA PublishChannel ==
    ASSUME PoolInv, FeedInv, NEW p \in Publishers, PushBegin(p)
    PROVE  FeedInv'
<1> USE DEF PoolInv
<1> SUFFICES ASSUME NEW l \in Listeners PROVE ChannelInv(l)'
    BY DEF FeedInv
<1>1. ChannelInv(l) /\ buf[l] \in Seq(Msg) /\ Len(buf[l]) \in Nat /\ seen[l] \in [Publishers -> Nat]
    BY DEF FeedInv, TypeOK
<1>2. UNCHANGED <<buf, closed, seen, at, deleted>>
    BY DEF PushBegin, listenVars
<1>3. /\ sent \in [Publishers -> Nat] /\ sent'[p] = sent[p] + 1
      /\ \A q \in Publishers \ {p} : sent'[q] = sent[q] /\ job'[q][l] = job[q][l]
      /\ sent' \in [Publishers -> Nat]
    BY DEF TypeOK, PushBegin
<1>4. \A q \in Publishers : sent[q] <= sent'[q] /\ sent[q] \in Nat /\ sent'[q] \in Nat /\ seen[l][q] \in Nat
    BY <1>1, <1>3
<1>5. \A i \in 1 .. Len(buf[l]) : buf[l][i].from \in Publishers /\ buf[l][i].id \in Nat
    BY <1>1, MsgFields
<1>6. Fresh(buf'[l], seen'[l], sent')
  <2> SUFFICES ASSUME NEW i \in 1 .. Len(buf[l])
               PROVE  seen[l][buf[l][i].from] < buf[l][i].id /\ buf[l][i].id <= sent'[buf[l][i].from]
    BY <1>2 DEF Fresh
  <2>1. seen[l][buf[l][i].from] < buf[l][i].id /\ buf[l][i].id <= sent[buf[l][i].from]
    BY <1>1 DEF ChannelInv, Fresh
  <2>2. QED
    BY <1>4, <1>5, <2>1
<1>7. \A q \in Publishers : seen'[l][q] <= sent'[q]
    BY <1>1, <1>2, <1>4 DEF ChannelInv
<1>8. seen'[l][p] < sent'[p]
    BY <1>1, <1>2, <1>3, <1>4 DEF ChannelInv
<1>9. Before(buf'[l], p, sent'[p])
  <2> SUFFICES ASSUME NEW i \in 1 .. Len(buf[l]), buf[l][i].from = p
               PROVE  buf[l][i].id < sent'[p]
    BY <1>2 DEF Before
  <2>1. buf[l][i].id <= sent[p]
    BY <1>1 DEF ChannelInv, Fresh
  <2>2. QED
    BY <1>3, <1>4, <1>5, <2>1
<1>10. \A q \in Publishers \ {p} : job'[q][l] # "none" => seen'[l][q] < sent'[q] /\ Before(buf'[l], q, sent'[q])
    BY <1>1, <1>2, <1>3 DEF ChannelInv, InFlight
<1>11. InFlight(l)'
    BY <1>8, <1>9, <1>10 DEF InFlight, Before
<1>12. QED
    BY <1>1, <1>2, <1>6, <1>7, <1>11 DEF ChannelInv, InOrder, Fresh

\* Every step keeps the channels in order.
LEMMA FeedStep == PoolInv /\ FeedInv /\ [Next]_vars => FeedInv'
<1> SUFFICES ASSUME PoolInv, FeedInv, [Next]_vars PROVE FeedInv'
    OBVIOUS
<1> USE DEF PoolInv
<1>1. ASSUME NEW p \in Publishers, PushBegin(p) PROVE FeedInv'
    BY <1>1, PublishChannel
<1>2. ASSUME NEW p \in Publishers, NEW l \in Listeners, Send(p, l) \/ Retry(p, l) PROVE FeedInv'
  <2>1. job[p][l] # "none" /\ ~closed[l] /\ UNCHANGED <<closed, sent, deleted>>
    BY <1>2 DEF JobsUnderLock, SinksOpen, Send, Retry
  <2>2. CASE Put(p, l)
    BY <2>1, <2>2, PutChannel
  <2>3. CASE Become(p, l, "none") /\ UNCHANGED <<buf, listenVars, panicked>>
    <3>1. \A q \in Publishers, k \in Listeners : job'[q][k] # "none" => job[q][k] # "none"
      BY <2>3 DEF TypeOK, Become
    <3>2. QED
      BY <2>1, <2>3, <3>1, SameChannel DEF FeedInv, listenVars
  <2>4. QED
    BY <1>2, <2>1, <2>2, <2>3 DEF Send, Retry
<1>3. ASSUME NEW p \in Publishers, NEW l \in Listeners, Timeout(p, l) PROVE FeedInv'
  <2>1. \A q \in Publishers, k \in Listeners : job'[q][k] # "none" => job[q][k] # "none"
    BY <1>3 DEF TypeOK, Timeout, Become
  <2>2. QED
    BY <1>3, <2>1, SameChannel DEF FeedInv, Timeout, listenVars
<1>4. ASSUME NEW p \in Publishers, NEW l \in Listeners, Drop(p, l) PROVE FeedInv'
    BY <1>4, DropChannel
<1>5. ASSUME NEW p \in Publishers, PushEnd(p) PROVE FeedInv'
    BY <1>5, SameChannel DEF FeedInv, PushEnd, listenVars
<1>6. ASSUME NEW l \in Listeners, On(l) \/ Off(l) PROVE FeedInv'
  <2>1. \A q \in Publishers, k \in Listeners : job'[q][k] = "none" /\ job[q][k] = "none"
    BY <1>6 DEF JobsUnderLock, On, Off, Lock
  <2>2. ASSUME NEW k \in Listeners \ {l} PROVE ChannelInv(k)'
    <3>1. buf'[k] = buf[k] /\ seen'[k] = seen[k] /\ at'[k] = at[k] /\ closed'[k] = closed[k]
      BY <1>6 DEF TypeOK, On, Off
    <3>2. QED
      BY <1>6, <2>1, <3>1, SameChannel DEF FeedInv, On, Off
  <2>3. buf'[l] = <<>> /\ Len(buf'[l]) = 0 /\ Capacity[l] \in Nat
    BY <1>6, SinkPoolAssumption DEF TypeOK, SinksOpen, On, Off
  <2>4. \A p \in Publishers : seen'[l][p] <= sent'[p]
    <3>1. CASE On(l)
      <4>1. seen'[l] = sent' /\ sent \in [Publishers -> Nat] /\ sent' = sent
        BY <3>1 DEF TypeOK, On
      <4>2. QED
        BY <4>1
    <3>2. CASE Off(l)
      BY <3>2 DEF FeedInv, ChannelInv, Off
    <3>3. QED
      BY <1>6, <3>1, <3>2
  <2>5. closed'[l] => deleted' \/ at'[l] = "gone"
    BY <1>6 DEF TypeOK, SinksOpen, On, Off
  <2>6. InOrder(buf'[l]) /\ Fresh(buf'[l], seen'[l], sent')
    BY <2>3 DEF InOrder, Fresh
  <2>7. ChannelInv(l)'
    BY <2>1, <2>3, <2>4, <2>5, <2>6 DEF ChannelInv, InFlight, InOrder, Fresh
  <2>8. QED
    BY <2>2, <2>7 DEF FeedInv
<1>7. CASE Destroy
    BY <1>7, SameChannel DEF FeedInv, Destroy, listenVars
<1>8. ASSUME NEW l \in Listeners, Receive(l) PROVE FeedInv'
    BY <1>8, ReceiveChannel
<1>9. ASSUME NEW l \in Listeners, ReceiveClosed(l) \/ SendJson(l) \/ Cancel(l) \/ Leave(l) PROVE FeedInv'
  <2>1. UNCHANGED <<buf, closed, job, sent, deleted>>
    BY <1>9 DEF ReceiveClosed, SendJson, Cancel, Leave, poolVars
  <2>2. \A k \in Listeners : at'[k] = at[k] \/ at[k] # "gone"
    BY <1>9 DEF TypeOK, ReceiveClosed, SendJson, Cancel, Leave, Depart
  <2>3. ASSUME NEW k \in Listeners, seen'[k] = seen[k] PROVE ChannelInv(k)'
    BY <2>1, <2>2, <2>3, SameChannel DEF FeedInv
  <2>4. CASE UNCHANGED seen
    BY <2>3, <2>4 DEF FeedInv
  <2>5. CASE Depart(l)
    <3>1. \A p \in Publishers : seen'[l][p] = 0 /\ \A k \in Listeners \ {l} : seen'[k] = seen[k]
      BY <2>5 DEF TypeOK, Depart
    <3>2. ChannelInv(l) /\ buf[l] \in Seq(Msg) /\ Len(buf[l]) \in Nat /\ sent \in [Publishers -> Nat]
      BY DEF FeedInv, TypeOK
    <3>3. \A i \in 1 .. Len(buf[l]) : buf[l][i].from \in Publishers /\ buf[l][i].id \in Nat
      BY <3>2, MsgFields
    <3>4. \A p \in Publishers : seen[l][p] \in Nat /\ sent[p] \in Nat
      BY DEF TypeOK
    <3>5. Fresh(buf'[l], seen'[l], sent')
      <4> SUFFICES ASSUME NEW i \in 1 .. Len(buf[l])
                   PROVE  seen'[l][buf[l][i].from] < buf[l][i].id /\ buf[l][i].id <= sent[buf[l][i].from]
        BY <2>1 DEF Fresh
      <4>1. seen[l][buf[l][i].from] < buf[l][i].id /\ buf[l][i].id <= sent[buf[l][i].from]
        BY <3>2 DEF ChannelInv, Fresh
      <4>2. QED
        BY <3>1, <3>3, <3>4, <4>1
    <3>6. InFlight(l)'
      <4> SUFFICES ASSUME NEW p \in Publishers, job[p][l] # "none"
                   PROVE  seen'[l][p] < sent[p] /\ Before(buf[l], p, sent[p])
        BY <2>1 DEF InFlight, Before
      <4>1. seen[l][p] < sent[p] /\ Before(buf[l], p, sent[p])
        BY <3>2 DEF ChannelInv, InFlight
      <4>2. QED
        BY <3>1, <3>4, <4>1
    <3>7. ChannelInv(l)'
      BY <2>1, <2>2, <3>1, <3>2, <3>4, <3>5, <3>6 DEF ChannelInv, InOrder, Fresh
    <3>8. ASSUME NEW k \in Listeners \ {l} PROVE ChannelInv(k)'
      <4>1. seen'[k] = seen[k]
        BY <2>5 DEF TypeOK, Depart
      <4>2. QED
        BY <2>3, <4>1
    <3>9. QED
      BY <3>7, <3>8 DEF FeedInv
  <2>6. QED
    BY <1>9, <2>4, <2>5 DEF ReceiveClosed, SendJson, Cancel, Leave
<1>10. CASE UNCHANGED vars
    BY <1>10, SameChannel DEF FeedInv, vars, poolVars, listenVars
<1>11. QED
    BY <1>1, <1>2, <1>3, <1>4, <1>5, <1>6, <1>7, <1>8, <1>9, <1>10 DEF Next, PushStep, ListenStep
\* How the listeners of the pool are seen as members of the feed.
Members == {l \in Listeners : at[l] \in {"select", "busy"}}
Taking == {l \in Listeners : at[l] = "busy"}

LEMMA FeedStutter ==
    ASSUME UNCHANGED <<at, sent, seen, deleted>> PROVE UNCHANGED FeedOf!feedVars
    BY DEF FeedOf!feedVars

\* What a listener takes, out of its channel or from a waiting goroutine, is delivered.
LEMMA TakeDelivers ==
    ASSUME TypeOK, NEW l \in Listeners, at[l] = "select", NEW m \in Msg, Take(l, m),
           seen[l][m.from] < m.id, m.id <= sent[m.from], UNCHANGED <<sent, deleted>>
    PROVE  FeedOf!Next
<1>1. m.from \in Publishers /\ m.id \in Nat
    BY DEF Msg
<1>2. sent[m.from] \in Nat /\ seen[l][m.from] \in Nat
    BY <1>1 DEF TypeOK
<1>3. m.id \in 1 .. sent[m.from]
    BY <1>1, <1>2
<1>4. Members' = Members /\ Taking' = Taking \cup {l} /\ l \in Members \ Taking
    BY DEF TypeOK, Take, Members, Taking
<1>5. seen' = [seen EXCEPT ![l][m.from] = m.id]
    BY DEF Take
<1>6. FeedOf!Deliver(l, m.from, m.id)
    BY <1>4, <1>5 DEF FeedOf!Deliver, FeedOf!Give, Members, Taking
<1>7. QED
    BY <1>1, <1>3, <1>6 DEF FeedOf!Next

LEMMA DepartParts ==
    ASSUME TypeOK, NEW l \in Listeners, at[l] \in {"select", "busy"}, Depart(l), UNCHANGED <<sent, deleted>>
    PROVE  FeedOf!Next
<1>1. Members' = Members \ {l} /\ Taking' = Taking \ {l} /\ l \in Members
    BY DEF TypeOK, Depart, Members, Taking
<1>2. FeedOf!Part(l)
    BY <1>1 DEF FeedOf!Part, Depart, Members, Taking
<1>3. QED
    BY <1>2 DEF FeedOf!Next

LEMMA FeedStarts == Init => FeedOf!Init
<1> SUFFICES ASSUME Init PROVE FeedOf!Init
    OBVIOUS
<1>1. Members = {} /\ Taking = {}
    BY DEF Init, Members, Taking
<1>2. QED
    BY <1>1 DEF Init, FeedOf!Init, Members, Taking

\* Every step of the pool is a step of the feed, or one the feed does not see.
LEMMA FeedSteps == PoolInv /\ FeedInv /\ [Next]_vars => [FeedOf!Next]_(FeedOf!feedVars)
<1> SUFFICES ASSUME PoolInv, FeedInv, [Next]_vars PROVE [FeedOf!Next]_(FeedOf!feedVars)
    OBVIOUS
<1> USE DEF PoolInv
<1>1. ASSUME NEW p \in Publishers, PushBegin(p) PROVE FeedOf!Next
  <2>1. FeedOf!Publish(p)
    BY <1>1 DEF PushBegin, listenVars, FeedOf!Publish
  <2>2. QED
    BY <2>1 DEF FeedOf!Next
<1>2. ASSUME NEW p \in Publishers, NEW l \in Listeners, Send(p, l) \/ Retry(p, l)
      PROVE FeedOf!Next \/ UNCHANGED FeedOf!feedVars
  <2>1. job[p][l] # "none" /\ ~closed[l] /\ UNCHANGED <<sent, deleted>>
    BY <1>2 DEF JobsUnderLock, SinksOpen, Send, Retry
  <2>2. CASE UNCHANGED listenVars
    BY <2>1, <2>2, FeedStutter DEF listenVars
  <2>3. CASE Waits(l) /\ Take(l, Message(p))
    <3>1. Message(p) \in Msg /\ Message(p).from = p /\ Message(p).id = sent[p] /\ sent[p] \in Nat
      BY DEF TypeOK, Message, Msg
    <3>2. seen[l][p] < sent[p]
      BY <2>1 DEF FeedInv, ChannelInv, InFlight
    <3>3. QED
      BY <2>1, <2>3, <3>1, <3>2, TakeDelivers DEF Waits
  <2>4. QED
    BY <1>2, <2>1, <2>2, <2>3 DEF Send, Retry, Put, listenVars
<1>3. ASSUME NEW p \in Publishers, NEW l \in Listeners, Timeout(p, l) \/ Drop(p, l) PROVE UNCHANGED FeedOf!feedVars
    BY <1>3, FeedStutter DEF Timeout, Drop, listenVars
<1>4. ASSUME NEW p \in Publishers, PushEnd(p) PROVE UNCHANGED FeedOf!feedVars
    BY <1>4, FeedStutter DEF PushEnd, listenVars
<1>5. ASSUME NEW l \in Listeners, On(l) PROVE FeedOf!Next
  <2>1. Members' = Members \cup {l} /\ Taking' = Taking /\ l \notin Members
    BY <1>5 DEF TypeOK, On, Members, Taking
  <2>2. FeedOf!Join(l)
    BY <1>5, <2>1 DEF On, FeedOf!Join, Members, Taking
  <2>3. QED
    BY <2>2 DEF FeedOf!Next
<1>6. ASSUME NEW l \in Listeners, Off(l) PROVE UNCHANGED FeedOf!feedVars
  <2>1. Members' = Members /\ Taking' = Taking
    BY <1>6 DEF TypeOK, Off, Members, Taking
  <2>2. QED
    BY <1>6, <2>1 DEF Off, FeedOf!feedVars, Members, Taking
<1>7. CASE Destroy
  <2>1. FeedOf!End
    BY <1>7 DEF Destroy, listenVars, FeedOf!End
  <2>2. QED
    BY <2>1 DEF FeedOf!Next
<1>8. ASSUME NEW l \in Listeners, Receive(l) PROVE FeedOf!Next
  <2>1. ChannelInv(l) /\ buf[l] \in Seq(Msg) /\ seen[l] \in [Publishers -> Nat] /\ sent \in [Publishers -> Nat]
    BY DEF FeedInv, TypeOK
  <2>2. /\ Head(buf[l]) \in Msg /\ seen[l][Head(buf[l]).from] < Head(buf[l]).id
        /\ Head(buf[l]).id <= sent[Head(buf[l]).from]
    BY <1>8, <2>1, HeadProps DEF ChannelInv, Receive
  <2>3. QED
    BY <1>8, <2>2, TakeDelivers DEF Receive
<1>9. ASSUME NEW l \in Listeners, ReceiveClosed(l) PROVE FeedOf!Next
  <2>1. Members' = Members /\ Taking' = Taking \cup {l} /\ l \in Members \ Taking
    BY <1>9 DEF TypeOK, ReceiveClosed, Members, Taking
  <2>2. deleted
    BY <1>9 DEF FeedInv, ChannelInv, ReceiveClosed
  <2>3. FeedOf!WakeUp(l)
    BY <1>9, <2>1, <2>2 DEF ReceiveClosed, poolVars, FeedOf!WakeUp, FeedOf!Give, Members, Taking
  <2>4. QED
    BY <2>3 DEF FeedOf!Next
<1>10. ASSUME NEW l \in Listeners, SendJson(l) PROVE FeedOf!Next
  <2>1. CASE Depart(l)
    BY <1>10, <2>1, DepartParts DEF SendJson, poolVars
  <2>2. CASE at' = [at EXCEPT ![l] = "select"] /\ UNCHANGED seen
    <3>1. Members' = Members /\ Taking' = Taking \ {l} /\ l \in Taking
      BY <1>10, <2>2 DEF TypeOK, SendJson, Members, Taking
    <3>2. FeedOf!Ready(l)
      BY <1>10, <2>2, <3>1 DEF SendJson, poolVars, FeedOf!Ready, Members, Taking
    <3>3. QED
      BY <3>2 DEF FeedOf!Next
  <2>3. QED
    BY <1>10, <2>1, <2>2 DEF SendJson
<1>11. ASSUME NEW l \in Listeners, Cancel(l) PROVE UNCHANGED FeedOf!feedVars
    BY <1>11, FeedStutter DEF Cancel, poolVars
<1>12. ASSUME NEW l \in Listeners, Leave(l) PROVE FeedOf!Next
    BY <1>12, DepartParts DEF Leave, poolVars
<1>13. CASE UNCHANGED vars
    BY <1>13, FeedStutter DEF vars, poolVars, listenVars
<1>14. QED
    BY <1>1, <1>2, <1>3, <1>4, <1>5, <1>6, <1>7, <1>8, <1>9, <1>10, <1>11, <1>12, <1>13
       DEF Next, PushStep, ListenStep

\* The pool implements Feed: a listener gets the messages of a publisher in the
\* order of their publication, none twice and none from before it joined, whatever
\* Push throws away and whenever listeners join, leave or are cut off by Destroy.
THEOREM Refinement == Spec => ImplementsFeed
<1>1. PoolInv /\ FeedInv /\ [Next]_vars => FeedInv' /\ [FeedOf!Next]_(FeedOf!feedVars)
    BY FeedStep, FeedSteps
<1>2. QED
    BY <1>1, FeedStarts, FeedInit, PoolInvariant, PTL DEF Spec, ImplementsFeed, FeedOf!Spec
------------------------------------------------------------------------------
(***************************************************************************)
(* The websocket connections.                                              *)
(***************************************************************************)
HIDE DEF Jobs, Places

USE DEF Idle, NoToken, Tokens, RequestPlaces, Push, IsThrottled, NewTokenPayload

\* Every step of WebsocketNext, and a step that changes nothing, keeps the types.
LEMMA WebsocketTypeStep == WebsocketTypeOK /\ [WebsocketNext]_websocketVars => WebsocketTypeOK'
<1> SUFFICES ASSUME WebsocketTypeOK, [WebsocketNext]_websocketVars PROVE WebsocketTypeOK'
    OBVIOUS
<1> USE WebsocketAssumption
<1>1. ASSUME NEW c \in Conns, Request(c) PROVE WebsocketTypeOK'
    BY <1>1 DEF WebsocketTypeOK, Request, CheckLimit, Upgrade, Track, CheckSuspended, ReadFails, Remove, DeferredCancel,
       Go, authVars, panelVars
<1>2. ASSUME NEW c \in Conns, CloseOnDone(c) \/ CancelOnDelete(c) \/ Disconnect(c) PROVE WebsocketTypeOK'
    BY <1>2 DEF WebsocketTypeOK, CloseOnDone, CancelOnDelete, Disconnect, authVars, panelVars
<1>3. ASSUME NEW c \in Conns, ListenerLeaves(c) \/ ListenerFails(c) PROVE WebsocketTypeOK'
  <2>1. listeners[c] \in Nat /\ listeners[c] > 0 /\ listeners' = [listeners EXCEPT ![c] = @ - 1]
    BY <1>3 DEF WebsocketTypeOK, ListenerLeaves, ListenerFails
  <2>2. listeners' \in [Conns -> Nat]
    BY <2>1 DEF WebsocketTypeOK
  <2>3. QED
    BY <1>3, <2>2 DEF WebsocketTypeOK, ListenerLeaves, ListenerFails, connVars, panelVars
<1>4. ASSUME NEW t \in Threads, NEW c \in Conns, ReadMessage(c, t) PROVE WebsocketTypeOK'
    BY <1>4 DEF WebsocketTypeOK, ReadMessage, Proceed, connVars, authVars, panelVars
<1>5. ASSUME NEW t \in Threads, HandleInbound(t) PROVE WebsocketTypeOK'
    BY <1>5 DEF WebsocketTypeOK, HandleInbound, Proceed, authVars, panelVars
<1>6. ASSUME NEW t \in Threads, NewConnection(t) PROVE WebsocketTypeOK'
  <2>1. thread[t] \in [pc : {"auth", "first", "refresh"}, conn : Conns, token : Tokens]
    BY <1>6 DEF WebsocketTypeOK, NewConnection
  <2>2. thread'[t] \in [pc : {"auth", "first", "refresh"}, conn : Conns, token : Tokens]
    BY <1>6, <2>1 DEF WebsocketTypeOK, NewConnection, Proceed
  <2>3. QED
    BY <1>6, <2>2 DEF WebsocketTypeOK, NewConnection, Proceed, connVars, authVars, panelVars
<1>7. ASSUME NEW t \in Threads, SetJwt(t) PROVE WebsocketTypeOK'
    BY <1>7 DEF WebsocketTypeOK, SetJwt, Proceed, connVars, panelVars
<1>8. ASSUME NEW t \in Threads, RegisterListenerEvents(t) PROVE WebsocketTypeOK'
    BY <1>8 DEF WebsocketTypeOK, RegisterListenerEvents, Proceed, connVars, panelVars
<1>9. CASE SyncConfiguration
  <2>1. suspended' \in BOOLEAN
    BY <1>9 DEF SyncConfiguration
  <2>2. QED
    BY <1>9, <2>1 DEF WebsocketTypeOK, SyncConfiguration, Begin, connVars, authVars
<1>10. CASE DenyForServer \/ DenyJTI \/ DeleteSuspend
  <2>1. CASE DenyForServer
    BY <2>1 DEF WebsocketTypeOK, DenyForServer, Begin, connVars, authVars
  <2>2. CASE DenyJTI
    BY <2>2 DEF WebsocketTypeOK, DenyJTI, connVars, authVars
  <2>3. CASE DeleteSuspend
    BY <2>3 DEF WebsocketTypeOK, DeleteSuspend, Begin, connVars, authVars
  <2>4. QED
    BY <1>10, <2>1, <2>2, <2>3
<1>11. CASE Finishing
    BY <1>11 DEF WebsocketTypeOK, Finishing, SyncDisconnect, Deauthorize, CtxCancel, CleanupForDestroy,
       Finish, CancelAll, connVars, authVars
<1>12. CASE UNCHANGED websocketVars
    BY <1>12 DEF WebsocketTypeOK, websocketVars, connVars, authVars, panelVars
<1>13. QED
    BY <1>1, <1>2, <1>3, <1>4, <1>5, <1>6, <1>7, <1>8, <1>9, <1>10, <1>11, <1>12 DEF WebsocketNext,
       Inbound

LEMMA WebsocketTypeInit == WebsocketInit => WebsocketTypeOK
<1> SUFFICES ASSUME WebsocketInit PROVE WebsocketTypeOK
    OBVIOUS
<1>1. place \in [Conns -> RequestPlaces] /\ listeners \in [Conns -> Nat]
    BY DEF WebsocketInit
<1>2. jwt \in [Conns -> Tokens \cup {NoToken}] /\ epoch \in Tokens /\ ousted \in Tokens
    BY WebsocketAssumption DEF WebsocketInit
<1>3. thread \in [Threads -> {Idle}]
    BY DEF WebsocketInit
<1>4. suspended \in BOOLEAN /\ ctxDone \in BOOLEAN
    BY DEF WebsocketInit
<1>5. QED
    BY <1>1, <1>2, <1>3, <1>4 DEF WebsocketInit, WebsocketTypeOK

\* Every variable of the websocket model keeps its type, whatever clients, panel
\* and goroutines do.
THEOREM WebsocketTypeCorrect == WebsocketSpec => []WebsocketTypeOK
    BY WebsocketTypeInit, WebsocketTypeStep, PTL DEF WebsocketSpec
------------------------------------------------------------------------------
\* The strengthening of RevokedIsCutOff.

Cut == {c \in Conns : CutOff(c)}
Reached == (bag \cap Conns) \cup Cut

\* Whoever has a token, or a message under way, can be cut off: its connection
\* is in the bag or is cut off already.
CanBeCutOff ==
    /\ \A c \in Conns : place[c] \in {"tracked", "loop", "return", "removed"} \/ jwt[c] # NoToken => c \in Reached
    /\ \A t \in Threads : thread[t] # Idle => thread[t].conn \in Reached

\* An authentication that was past its check belongs to a connection that is cut off.
LateAuthIsCutOff ==
    \A t \in Threads : thread[t].pc \in {"auth", "first", "refresh"} /\ thread[t].token < ousted
                         => thread[t].conn \in Cut

IInv == WebsocketTypeOK /\ ousted <= epoch /\ CanBeCutOff /\ LateAuthIsCutOff /\ RevokedIsCutOff

\* No step takes a connection out of reach: it leaves the bag only when it is
\* cancelled, or on the way to its own cancellation, and stays so.
LEMMA ReachStep ==
    WebsocketTypeOK /\ [WebsocketNext]_websocketVars => Cut \subseteq Cut' /\ Reached \subseteq Reached'
<1> SUFFICES ASSUME WebsocketTypeOK, [WebsocketNext]_websocketVars
             PROVE  Cut \subseteq Cut' /\ Reached \subseteq Reached'
    OBVIOUS
<1> USE DEF Reached, Cut, CutOff, WebsocketTypeOK, Go
<1>1. ASSUME NEW c \in Conns, Request(c) \/ CloseOnDone(c) \/ CancelOnDelete(c) \/ Disconnect(c)
      PROVE Cut \subseteq Cut' /\ Reached \subseteq Reached'
    BY <1>1 DEF Request, CheckLimit, Upgrade, Track, CheckSuspended, ReadFails, Remove, DeferredCancel,
       CloseOnDone, CancelOnDelete, Disconnect
<1>2. ASSUME NEW c \in Conns, ListenerLeaves(c) \/ ListenerFails(c) \/ \E t \in Threads : ReadMessage(c, t)
      PROVE Cut \subseteq Cut' /\ Reached \subseteq Reached'
    BY <1>2 DEF ListenerLeaves, ListenerFails, ReadMessage, connVars
<1>3. ASSUME NEW t \in Threads, Inbound(t)
      PROVE Cut \subseteq Cut' /\ Reached \subseteq Reached'
    BY <1>3 DEF Inbound, HandleInbound, NewConnection, SetJwt, RegisterListenerEvents, connVars
<1>4. CASE SyncConfiguration \/ DenyForServer \/ DenyJTI \/ DeleteSuspend \/ Finishing
    BY <1>4 DEF SyncConfiguration, DenyForServer, DenyJTI, DeleteSuspend, Finishing,
       SyncDisconnect, Deauthorize, CtxCancel, CleanupForDestroy, CancelAll, connVars
<1>5. CASE UNCHANGED websocketVars
    BY <1>5 DEF websocketVars, connVars
<1>6. QED
    BY <1>1, <1>2, <1>3, <1>4, <1>5 DEF WebsocketNext

\* CancelAll cuts off whatever is within reach.
LEMMA CancelAllReaches == CancelAll /\ UNCHANGED place => Reached \subseteq Cut'
    BY DEF CancelAll, Reached, Cut, CutOff

LEMMA CutOffInit == WebsocketInit => IInv
<1> SUFFICES ASSUME WebsocketInit PROVE IInv
    OBVIOUS
<1>1. ousted <= epoch
    BY DEF WebsocketInit
<1>2. CanBeCutOff
    BY DEF WebsocketInit, CanBeCutOff
<1>3. LateAuthIsCutOff /\ RevokedIsCutOff
    BY DEF WebsocketInit, LateAuthIsCutOff, RevokedIsCutOff
<1>4. QED
    BY <1>1, <1>2, <1>3, WebsocketTypeInit DEF IInv

\* Every step keeps connections within reach.
LEMMA CanBeCutOffStep == WebsocketTypeOK /\ CanBeCutOff /\ [WebsocketNext]_websocketVars => CanBeCutOff'
<1> SUFFICES ASSUME WebsocketTypeOK, CanBeCutOff, [WebsocketNext]_websocketVars PROVE CanBeCutOff'
    OBVIOUS
<1>0. Cut \subseteq Cut' /\ Reached \subseteq Reached'
    BY ReachStep
<1>1. ASSUME NEW c \in Conns, Request(c) PROVE CanBeCutOff'
  <2>1. CASE Track(c)
    BY <1>0, <2>1 DEF WebsocketTypeOK, CanBeCutOff, Track, Go, authVars, Reached
  <2>2. CASE Request(c) /\ ~Track(c)
    BY <1>0, <2>2 DEF WebsocketTypeOK, CanBeCutOff, Request, CheckLimit, Upgrade, CheckSuspended,
       ReadFails, Remove, DeferredCancel,
       Go, authVars
  <2>3. QED
    BY <1>1, <2>1, <2>2
<1>2. ASSUME NEW c \in Conns, CloseOnDone(c) \/ CancelOnDelete(c) \/ Disconnect(c) PROVE CanBeCutOff'
    BY <1>0, <1>2 DEF CanBeCutOff, CloseOnDone, CancelOnDelete, Disconnect, authVars
<1>3. ASSUME NEW c \in Conns, ListenerLeaves(c) \/ ListenerFails(c) PROVE CanBeCutOff'
    BY <1>0, <1>3 DEF CanBeCutOff, ListenerLeaves, ListenerFails, connVars
<1>4. ASSUME NEW t \in Threads, NEW c \in Conns, ReadMessage(c, t) PROVE CanBeCutOff'
    BY <1>0, <1>4 DEF WebsocketTypeOK, CanBeCutOff, ReadMessage, Proceed, connVars, authVars
<1>5. ASSUME NEW t \in Threads, HandleInbound(t) PROVE CanBeCutOff'
    BY <1>0, <1>5 DEF WebsocketTypeOK, CanBeCutOff, HandleInbound, Proceed, authVars
<1>6. ASSUME NEW t \in Threads, NewConnection(t) PROVE CanBeCutOff'
    BY <1>0, <1>6 DEF WebsocketTypeOK, CanBeCutOff, NewConnection, Proceed, connVars, authVars
<1>7. ASSUME NEW t \in Threads, SetJwt(t) PROVE CanBeCutOff'
    BY <1>0, <1>7 DEF WebsocketTypeOK, CanBeCutOff, SetJwt, Proceed, connVars
<1>8. ASSUME NEW t \in Threads, RegisterListenerEvents(t) PROVE CanBeCutOff'
    BY <1>0, <1>8 DEF WebsocketTypeOK, CanBeCutOff, RegisterListenerEvents, Proceed, connVars
<1>9. CASE SyncConfiguration \/ DenyForServer \/ DenyJTI \/ DeleteSuspend \/ Finishing
    BY <1>0, <1>9 DEF CanBeCutOff, SyncConfiguration, DenyForServer, DenyJTI, DeleteSuspend, Finishing,
       SyncDisconnect, Deauthorize, CtxCancel, CleanupForDestroy, connVars, authVars
<1>10. CASE UNCHANGED websocketVars
    BY <1>0, <1>10 DEF CanBeCutOff, websocketVars, connVars, authVars
<1>11. QED
    BY <1>1, <1>2, <1>3, <1>4, <1>5, <1>6, <1>7, <1>8, <1>9, <1>10 DEF WebsocketNext, Inbound

\* RevokedIsCutOff, in terms of the set of connections that are cut off.
LEMMA RevokedInCut ==
    /\ RevokedIsCutOff <=> \A c \in Conns : jwt[c] # NoToken /\ jwt[c] < ousted => c \in Cut
    /\ RevokedIsCutOff' <=> \A c \in Conns : jwt'[c] # NoToken /\ jwt'[c] < ousted' => c \in Cut'
    BY DEF RevokedIsCutOff, Cut

\* A step that leaves the tokens, the messages and the last revocation alone
\* keeps everybody who is cut off cut off.
LEMMA CutOffFrame ==
    ASSUME LateAuthIsCutOff, RevokedIsCutOff, Cut \subseteq Cut',
           UNCHANGED <<jwt, thread, ousted>>
    PROVE  LateAuthIsCutOff' /\ RevokedIsCutOff'
    BY RevokedInCut DEF LateAuthIsCutOff

\* Every step keeps the order of revocation and cancellation.
LEMMA CutOffStep == IInv /\ [WebsocketNext]_websocketVars => (ousted <= epoch /\ LateAuthIsCutOff /\ RevokedIsCutOff)'
<1> DEFINE Goal == (ousted <= epoch /\ LateAuthIsCutOff /\ RevokedIsCutOff)'
<1> SUFFICES ASSUME IInv, [WebsocketNext]_websocketVars PROVE Goal
    OBVIOUS
<1>0. Cut \subseteq Cut' /\ epoch \in Int /\ ousted \in Int
    BY ReachStep, WebsocketAssumption DEF IInv, WebsocketTypeOK
<1>1. ASSUME UNCHANGED <<jwt, thread, ousted>>, epoch' \in Int, epoch' >= epoch PROVE Goal
    BY <1>0, <1>1, CutOffFrame DEF IInv
<1>2. ASSUME NEW c \in Conns, \/ Request(c) \/ CloseOnDone(c) \/ CancelOnDelete(c) \/ Disconnect(c)
                              \/ ListenerLeaves(c) \/ ListenerFails(c)
      PROVE Goal
    BY <1>0, <1>1, <1>2 DEF Request, CheckLimit, Upgrade, Track, CheckSuspended, ReadFails, Remove, DeferredCancel,
       CloseOnDone, CancelOnDelete, Disconnect, ListenerLeaves, ListenerFails, authVars, panelVars
<1>3. ASSUME NEW t \in Threads, NEW c \in Conns, ReadMessage(c, t) PROVE Goal
    BY <1>0, <1>3, RevokedInCut DEF IInv, WebsocketTypeOK, LateAuthIsCutOff, ReadMessage,
       Proceed, connVars, authVars, panelVars
<1>4. ASSUME NEW t \in Threads, HandleInbound(t) PROVE Goal
    BY <1>0, <1>4, RevokedInCut DEF IInv, WebsocketTypeOK, LateAuthIsCutOff, HandleInbound,
       Denylisted, Proceed, authVars, panelVars
<1>5. ASSUME NEW t \in Threads, NewConnection(t) PROVE Goal
    BY <1>0, <1>5, RevokedInCut DEF IInv, WebsocketTypeOK, LateAuthIsCutOff, NewConnection,
       Proceed, connVars, authVars, panelVars
<1>6. ASSUME NEW t \in Threads, SetJwt(t) PROVE Goal
    BY <1>0, <1>6, RevokedInCut DEF IInv, WebsocketTypeOK, LateAuthIsCutOff, SetJwt, Proceed,
       connVars, panelVars
<1>7. ASSUME NEW t \in Threads, RegisterListenerEvents(t) PROVE Goal
    BY <1>0, <1>7, RevokedInCut DEF IInv, WebsocketTypeOK, LateAuthIsCutOff,
       RegisterListenerEvents, Proceed, connVars, panelVars
<1>8. CASE Deauthorize
  <2>1. Reached \subseteq Cut'
    BY <1>8, CancelAllReaches DEF Deauthorize
  <2>2. UNCHANGED <<jwt, thread, epoch>> /\ ousted' = epoch
    BY <1>8 DEF Deauthorize, authVars
  <2>3. QED
    BY <1>0, <2>1, <2>2, RevokedInCut DEF IInv, WebsocketTypeOK, CanBeCutOff, LateAuthIsCutOff
<1>9. CASE SyncConfiguration \/ DenyForServer \/ DenyJTI \/ DeleteSuspend \/ SyncDisconnect \/ CtxCancel \/ CleanupForDestroy
    BY <1>0, <1>1, <1>9 DEF SyncConfiguration, DenyForServer, DenyJTI, DeleteSuspend,
       SyncDisconnect, CtxCancel, CleanupForDestroy, authVars
<1>10. CASE UNCHANGED websocketVars
    BY <1>0, <1>1, <1>10 DEF websocketVars, authVars, panelVars
<1>11. QED
    BY <1>2, <1>3, <1>4, <1>5, <1>6, <1>7, <1>8, <1>9, <1>10 DEF WebsocketNext, Inbound, Finishing

\* Once postDeauthorizeUser has disconnected everybody, no connection lives on
\* with a token from before, however its authentication and the revocation
\* interleave.
THEOREM RevocationCutsOff == WebsocketSpec => []RevokedIsCutOff
<1>1. IInv /\ [WebsocketNext]_websocketVars => IInv'
    BY WebsocketTypeStep, CanBeCutOffStep, CutOffStep DEF IInv
<1>2. IInv => RevokedIsCutOff
    BY DEF IInv
<1>3. QED
    BY <1>1, <1>2, CutOffInit, PTL DEF WebsocketSpec
=============================================================================
