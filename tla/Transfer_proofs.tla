-------------------------- MODULE Transfer_proofs ----------------------------
(***************************************************************************)
(* Proofs about Transfer: its types, and that transfers of a server that   *)
(* come one after the other are a handover. The panel moves the server     *)
(* when it hears of a success, which is long after the target has verified *)
(* the archive: the invariant says that only one push is live at a time,   *)
(* that what it has verified stays whole as long as the panel waits, and   *)
(* that nothing touches the files of the target once the server is there.  *)
(***************************************************************************)
EXTENDS Transfer, TLAPS

\* A push that may still change the files at the target.
Live(p) == Underway(p) \/ Handling(p)

\* The stages of a push, of its connection and of its handler fit together.
WireOK(p) ==
    /\ push[p] \in {"idle", "asked", "checked", "stopping", "archive"} =>
         link[p] = "none" /\ recv[p] = "none"
    /\ recv[p] = "none" /\ link[p] \notin {"none", "cut"} => push[p] = "streaming"
    /\ Handling(p) /\ recv[p] # "new" => of[p] \in Pushes
    /\ has[p].verified => intact[p] /\ link[p] \in {"checksum", "cut"}
    /\ recv[p] \in {"none", "new"} => ~has[p].archive
    /\ recv[p] = "extract" => ~has[p].archive
    /\ has[p].verified => has[p].archive
    /\ has[p].archive => link[p] \notin {"none", "open"}
    /\ recv[p] \in {"successful", "reportSuccess"} => has[p].archive /\ has[p].verified

\* Who reports what.
ReportOK(p) ==
    /\ Trying(<<p, Source>>) => call[<<p, Source>>].body = "failure"
    /\ Trying(<<p, Target>>) =>
         \/ call[<<p, Target>>].body = "failure"
         \/ call[<<p, Target>>].body = "success" /\ recv[p] = "reportSuccess"

\* The requests, with the attempts that the backoff still allows.
CallsOK ==
    /\ CallTypeOK
    /\ \A c \in Callers : Trying(c) => call[c].tries < MaxTries

\* A push at a time.
Alone ==
    /\ \A p, q \in Pushes : Live(p) /\ Live(q) => p = q
    /\ wiping # {} => \A p \in Pushes : ~Live(p)

\* While the panel waits, an archive that can still be verified is all there.
WholeOK(p) ==
    panel.moving /\ Handling(p) /\ has[p].archive /\ intact[p] =>
        \/ files = "whole"
        \/ link[p] \notin {"archive", "checksum"} /\ ~has[p].verified

\* Once the panel has moved the server, nobody touches the target's files.
MovedOK ==
    /\ panel.moving => panel.owner = Source
    /\ gone => panel.owner = Target
    /\ panel.owner = Target =>
         /\ files = "whole" /\ wiping = {}
         /\ \A p \in Pushes : ~Underway(p) /\ (Handling(p) => recv[p] = "reportSuccess")

TypeInv == TypeOK /\ CallsOK /\ \A p \in Pushes : WireOK(p) /\ ReportOK(p)
TransferInv == TypeInv /\ Alone /\ MovedOK /\ \A p \in Pushes : WholeOK(p)

\* What a step may do to the owner and to the two copies.
Handed ==
    /\ panel'.owner # panel.owner =>
         /\ panel.owner = Source /\ panel'.owner = Target
         /\ files = "whole" /\ files' = files /\ gone' = gone
    /\ gone' # gone => panel.owner = Target /\ gone' /\ files' = files
    /\ files' # files => panel.owner = Source
------------------------------------------------------------------------------
\* Each push has two callers, one at each end.
LEMMA TwoCallers ==
    /\ \A p \in Pushes : <<p, Source>> \in Callers /\ <<p, Target>> \in Callers
    /\ \A c \in Callers : \E p \in Pushes : c = <<p, Source>> \/ c = <<p, Target>>
    /\ \A p, q \in Pushes :
         /\ <<p, Source>> # <<q, Target>>
         /\ p # q => <<p, Source>> # <<q, Source>> /\ <<p, Target>> # <<q, Target>>
  BY TransferAssumption DEF Source, Target

\* Post: a request of the caller, with all its attempts before it.
LEMMA RequestStarts ==
    ASSUME CallsOK, NEW c \in Callers, NEW body \in {"success", "failure"}, Request(c, body)
    PROVE  /\ CallsOK'
           /\ call'[c].body = body
           /\ \A d \in Callers \ {c} : call'[d] = call[d]
  BY TransferAssumption, PanelClientAssumption DEF CallsOK, Trying, CallTypeOK, Request, NoCall

\* The caller takes the result.
LEMMA ReturnsEnds ==
    ASSUME CallsOK, NEW c \in Callers, NEW pc, Returns(c, pc)
    PROVE  /\ CallsOK'
           /\ call'[c].pc # "trying"
           /\ \A d \in Callers \ {c} : call'[d] = call[d]
  BY DEF CallsOK, Trying, CallTypeOK, Returns, NoCall

LEMMA CallFrame == CallsOK /\ UNCHANGED call => CallsOK'
  BY DEF CallsOK, Trying, CallTypeOK

LEMMA CallsTyped == CallsOK' => CallTypeOK'
  BY DEF CallsOK
------------------------------------------------------------------------------
\* The panel asks for a push: with ~Overlap it is the only one that is live.
LEMMA AskTypes ==
    ASSUME TypeInv, NEW p \in Pushes, Ask(p)
    PROVE  TypeInv'
<1> USE TransferAssumption DEF TypeInv, Ask, GoesTo,
                               sourceVars, wireVars, targetVars, limits
<1>1. CallsOK'
  BY CallFrame
<1>2. TypeOK'
  BY <1>1, CallsTyped DEF TypeOK, WireOK, Handling, NoPush, Source, Target
<1>3. ASSUME NEW q \in Pushes PROVE WireOK(q)'
  BY DEF TypeOK, WireOK, Handling
<1>4. ASSUME NEW q \in Pushes PROVE ReportOK(q)'
  BY DEF TypeOK, WireOK, ReportOK, Trying
<1>5. QED  BY <1>1, <1>2, <1>3, <1>4

LEMMA AskKeeps ==
    ASSUME ~Overlap, TransferInv, TypeInv', NEW p \in Pushes, Ask(p)
    PROVE  TransferInv' /\ Handed
<1> USE DEF TransferInv, TypeInv, Ask, GoesTo,
            sourceVars, wireVars, targetVars, limits
<1>1. Alone'
  BY DEF TypeOK, WireOK, Alone, Live, Underway, Handling
<1>2. MovedOK'
  BY DEF TypeOK, WireOK, MovedOK, Underway, Handling, Source, Target
<1>3. ASSUME NEW q \in Pushes PROVE WholeOK(q)'
  BY DEF TypeOK, WireOK, Alone, Live, WholeOK, Underway, Handling
<1>4. Handed
  BY DEF TypeOK, WireOK, MovedOK, Underway, Handling, Handed, Source, Target
<1>5. QED  BY <1>1, <1>2, <1>3, <1>4

\* The request finds the flag set, or goes on.
LEMMA CheckTransferringTypes ==
    ASSUME TypeInv, NEW p \in Pushes, CheckTransferring(p)
    PROVE  TypeInv'
<1> USE TransferAssumption DEF TypeInv, CheckTransferring, GoesTo,
                               sourceVars, wireVars, targetVars, limits
<1>1. CallsOK'
  BY CallFrame
<1>2. TypeOK'
  BY <1>1, CallsTyped DEF TypeOK, WireOK, Handling, NoPush, Source, Target
<1>3. ASSUME NEW q \in Pushes PROVE WireOK(q)'
  BY DEF TypeOK, WireOK, Handling
<1>4. ASSUME NEW q \in Pushes PROVE ReportOK(q)'
  BY DEF TypeOK, WireOK, ReportOK, Trying
<1>5. QED  BY <1>1, <1>2, <1>3, <1>4

LEMMA CheckTransferringKeeps ==
    ASSUME ~Overlap, TransferInv, TypeInv', NEW p \in Pushes, CheckTransferring(p)
    PROVE  TransferInv' /\ Handed
<1> USE DEF TransferInv, TypeInv, CheckTransferring, GoesTo,
            sourceVars, wireVars, targetVars, limits
<1>1. Alone'
  BY DEF TypeOK, WireOK, Alone, Live, Underway, Handling
<1>2. MovedOK'
  BY DEF TypeOK, WireOK, MovedOK, Underway, Handling, Source, Target
<1>3. ASSUME NEW q \in Pushes PROVE WholeOK(q)'
  BY DEF TypeOK, WireOK, Alone, Live, WholeOK, Underway, Handling
<1>4. Handed
  BY DEF TypeOK, WireOK, MovedOK, Underway, Handling, Handed, Source, Target
<1>5. QED  BY <1>1, <1>2, <1>3, <1>4

\* The flag is set.
LEMMA SetTransferringTypes ==
    ASSUME TypeInv, NEW p \in Pushes, SetTransferring(p)
    PROVE  TypeInv'
<1> USE TransferAssumption DEF TypeInv, SetTransferring, GoesTo,
                               sourceVars, wireVars, targetVars, limits
<1>1. CallsOK'
  BY CallFrame
<1>2. TypeOK'
  BY <1>1, CallsTyped DEF TypeOK, WireOK, Handling, NoPush, Source, Target
<1>3. ASSUME NEW q \in Pushes PROVE WireOK(q)'
  BY DEF TypeOK, WireOK, Handling
<1>4. ASSUME NEW q \in Pushes PROVE ReportOK(q)'
  BY DEF TypeOK, WireOK, ReportOK, Trying
<1>5. QED  BY <1>1, <1>2, <1>3, <1>4

LEMMA SetTransferringKeeps ==
    ASSUME ~Overlap, TransferInv, TypeInv', NEW p \in Pushes, SetTransferring(p)
    PROVE  TransferInv' /\ Handed
<1> USE DEF TransferInv, TypeInv, SetTransferring, GoesTo,
            sourceVars, wireVars, targetVars, limits
<1>1. Alone'
  BY DEF TypeOK, WireOK, Alone, Live, Underway, Handling
<1>2. MovedOK'
  BY DEF TypeOK, WireOK, MovedOK, Underway, Handling, Source, Target
<1>3. ASSUME NEW q \in Pushes PROVE WholeOK(q)'
  BY DEF TypeOK, WireOK, Alone, Live, WholeOK, Underway, Handling
<1>4. Handed
  BY DEF TypeOK, WireOK, MovedOK, Underway, Handling, Handed, Source, Target
<1>5. QED  BY <1>1, <1>2, <1>3, <1>4

\* The server has stopped.
LEMMA WaitForStopTypes ==
    ASSUME TypeInv, NEW p \in Pushes, WaitForStop(p)
    PROVE  TypeInv'
<1> USE TransferAssumption DEF TypeInv, WaitForStop, GoesTo,
                               sourceVars, wireVars, targetVars, limits
<1>1. CallsOK'
  BY CallFrame
<1>2. TypeOK'
  BY <1>1, CallsTyped DEF TypeOK, WireOK, Handling, NoPush, Source, Target
<1>3. ASSUME NEW q \in Pushes PROVE WireOK(q)'
  BY DEF TypeOK, WireOK, Handling
<1>4. ASSUME NEW q \in Pushes PROVE ReportOK(q)'
  BY DEF TypeOK, WireOK, ReportOK, Trying
<1>5. QED  BY <1>1, <1>2, <1>3, <1>4

LEMMA WaitForStopKeeps ==
    ASSUME ~Overlap, TransferInv, TypeInv', NEW p \in Pushes, WaitForStop(p)
    PROVE  TransferInv' /\ Handed
<1> USE DEF TransferInv, TypeInv, WaitForStop, GoesTo,
            sourceVars, wireVars, targetVars, limits
<1>1. Alone'
  BY DEF TypeOK, WireOK, Alone, Live, Underway, Handling
<1>2. MovedOK'
  BY DEF TypeOK, WireOK, MovedOK, Underway, Handling, Source, Target
<1>3. ASSUME NEW q \in Pushes PROVE WholeOK(q)'
  BY DEF TypeOK, WireOK, Alone, Live, WholeOK, Underway, Handling
<1>4. Handed
  BY DEF TypeOK, WireOK, MovedOK, Underway, Handling, Handed, Source, Target
<1>5. QED  BY <1>1, <1>2, <1>3, <1>4

\* The server does not stop.
LEMMA StopFailsTypes ==
    ASSUME TypeInv, NEW p \in Pushes, StopFails(p)
    PROVE  TypeInv'
<1> USE TransferAssumption DEF TypeInv, StopFails, GoesTo, Fault,
                               sourceVars, wireVars, targetVars, limits
<1>1. CallsOK'
  BY CallFrame
<1>2. TypeOK'
  <2>1. panel' \in [owner : {Source, Target}, moving : BOOLEAN]
    BY DEF TypeOK
  <2>2. faults' \in 0 .. MaxFaults /\ cancels' = cancels
    BY DEF TypeOK
  <2>3. push' \in [Pushes -> {"idle", "asked", "checked", "stopping", "archive", "streaming",
                            "failing", "reporting", "ended"}]
    BY DEF TypeOK
  <2>4. QED  BY <1>1, CallsTyped, <2>1, <2>2, <2>3 DEF TypeOK, NoPush, Source, Target
<1>3. ASSUME NEW q \in Pushes PROVE WireOK(q)'
  BY DEF TypeOK, WireOK, Handling
<1>4. ASSUME NEW q \in Pushes PROVE ReportOK(q)'
  BY DEF TypeOK, WireOK, ReportOK, Trying
<1>5. QED  BY <1>1, <1>2, <1>3, <1>4

LEMMA StopFailsKeeps ==
    ASSUME ~Overlap, TransferInv, TypeInv', NEW p \in Pushes, StopFails(p)
    PROVE  TransferInv' /\ Handed
<1> USE DEF TransferInv, TypeInv, StopFails, GoesTo, Fault,
            sourceVars, wireVars, targetVars, limits
<1>1. Alone'
  BY DEF TypeOK, WireOK, Alone, Live, Underway, Handling
<1>2. MovedOK'
  BY DEF TypeOK, WireOK, MovedOK, Underway, Handling, Source, Target
<1>3. ASSUME NEW q \in Pushes PROVE WholeOK(q)'
  BY DEF TypeOK, WireOK, Alone, Live, WholeOK, Underway, Handling
<1>4. Handed
  BY DEF TypeOK, WireOK, MovedOK, Underway, Handling, Handed, Source, Target
<1>5. QED  BY <1>1, <1>2, <1>3, <1>4

\* The connection is opened, or cannot be.
LEMMA ConnectTypes ==
    ASSUME TypeInv, NEW p \in Pushes, Connect(p)
    PROVE  TypeInv'
<1> USE TransferAssumption DEF TypeInv, Connect, GoesTo, Fault,
                               sourceVars, wireVars, targetVars, limits
<1>1. CallsOK'
  BY CallFrame
<1>2. TypeOK'
  <2>1. faults' \in 0 .. MaxFaults /\ cancels' = cancels
    BY DEF TypeOK
  <2>2. push' \in [Pushes -> {"idle", "asked", "checked", "stopping", "archive", "streaming",
                            "failing", "reporting", "ended"}]
    BY DEF TypeOK
  <2>3. link' \in [Pushes -> {"none", "open", "archive", "checksum", "short", "cut"}]
    BY DEF TypeOK
  <2>4. QED  BY <1>1, CallsTyped, <2>1, <2>2, <2>3 DEF TypeOK, NoPush, Source, Target
<1>3. ASSUME NEW q \in Pushes PROVE WireOK(q)'
  BY DEF TypeOK, WireOK, Handling
<1>4. ASSUME NEW q \in Pushes PROVE ReportOK(q)'
  BY DEF TypeOK, WireOK, ReportOK, Trying
<1>5. QED  BY <1>1, <1>2, <1>3, <1>4

LEMMA ConnectKeeps ==
    ASSUME ~Overlap, TransferInv, TypeInv', NEW p \in Pushes, Connect(p)
    PROVE  TransferInv' /\ Handed
<1> USE DEF TransferInv, TypeInv, Connect, GoesTo, Fault,
            sourceVars, wireVars, targetVars, limits
<1>1. Alone'
  BY DEF TypeOK, WireOK, Alone, Live, Underway, Handling
<1>2. MovedOK'
  BY DEF TypeOK, WireOK, MovedOK, Underway, Handling, Source, Target
<1>3. ASSUME NEW q \in Pushes PROVE WholeOK(q)'
  BY DEF TypeOK, WireOK, Alone, Live, WholeOK, Underway, Handling
<1>4. Handed
  BY DEF TypeOK, WireOK, MovedOK, Underway, Handling, Handed, Source, Target
<1>5. QED  BY <1>1, <1>2, <1>3, <1>4

\* The archive, then the checksum, is written.
LEMMA StreamTypes ==
    ASSUME TypeInv, NEW p \in Pushes, Stream(p)
    PROVE  TypeInv'
<1> USE TransferAssumption DEF TypeInv, Stream,
                               sourceVars, wireVars, targetVars, limits
<1>1. CallsOK'
  BY CallFrame
<1>2. TypeOK'
  BY <1>1, CallsTyped DEF TypeOK, WireOK, Handling, NoPush, Source, Target
<1>3. ASSUME NEW q \in Pushes PROVE WireOK(q)'
  BY DEF TypeOK, WireOK, Handling
<1>4. ASSUME NEW q \in Pushes PROVE ReportOK(q)'
  BY DEF TypeOK, WireOK, ReportOK, Trying
<1>5. QED  BY <1>1, <1>2, <1>3, <1>4

LEMMA StreamKeeps ==
    ASSUME ~Overlap, TransferInv, TypeInv', NEW p \in Pushes, Stream(p)
    PROVE  TransferInv' /\ Handed
<1> USE DEF TransferInv, TypeInv, Stream,
            sourceVars, wireVars, targetVars, limits
<1>1. Alone'
  BY DEF TypeOK, WireOK, Alone, Live, Underway, Handling
<1>2. MovedOK'
  BY DEF TypeOK, WireOK, MovedOK, Underway, Handling, Source, Target
<1>3. ASSUME NEW q \in Pushes PROVE WholeOK(q)'
  BY DEF TypeOK, WireOK, Alone, Live, WholeOK, Underway, Handling
<1>4. Handed
  BY DEF TypeOK, WireOK, MovedOK, Underway, Handling, Handed, Source, Target
<1>5. QED  BY <1>1, <1>2, <1>3, <1>4

\* The archive is ended early.
LEMMA StreamFailsTypes ==
    ASSUME TypeInv, NEW p \in Pushes, StreamFails(p)
    PROVE  TypeInv'
<1> USE TransferAssumption DEF TypeInv, StreamFails, Fault,
                               sourceVars, wireVars, targetVars, limits
<1>1. CallsOK'
  BY CallFrame
<1>2. TypeOK'
  BY <1>1, CallsTyped DEF TypeOK, WireOK, Handling, NoPush, Source, Target
<1>3. ASSUME NEW q \in Pushes PROVE WireOK(q)'
  BY DEF TypeOK, WireOK, Handling
<1>4. ASSUME NEW q \in Pushes PROVE ReportOK(q)'
  BY DEF TypeOK, WireOK, ReportOK, Trying
<1>5. QED  BY <1>1, <1>2, <1>3, <1>4

LEMMA StreamFailsKeeps ==
    ASSUME ~Overlap, TransferInv, TypeInv', NEW p \in Pushes, StreamFails(p)
    PROVE  TransferInv' /\ Handed
<1> USE DEF TransferInv, TypeInv, StreamFails, Fault,
            sourceVars, wireVars, targetVars, limits
<1>1. Alone'
  BY DEF TypeOK, WireOK, Alone, Live, Underway, Handling
<1>2. MovedOK'
  BY DEF TypeOK, WireOK, MovedOK, Underway, Handling, Source, Target
<1>3. ASSUME NEW q \in Pushes PROVE WholeOK(q)'
  BY DEF TypeOK, WireOK, Alone, Live, WholeOK, Underway, Handling
<1>4. Handed
  BY DEF TypeOK, WireOK, MovedOK, Underway, Handling, Handed, Source, Target
<1>5. QED  BY <1>1, <1>2, <1>3, <1>4

\* The answer, or an error, which leaves the connection cut.
LEMMA ResponseTypes ==
    ASSUME TypeInv, NEW p \in Pushes, Response(p)
    PROVE  TypeInv'
<1> USE TransferAssumption DEF TypeInv, Response, GoesTo,
                               sourceVars, wireVars, targetVars, limits
<1>1. CallsOK'
  BY CallFrame
<1>2. TypeOK'
  <2>1. push' \in [Pushes -> {"idle", "asked", "checked", "stopping", "archive", "streaming",
                            "failing", "reporting", "ended"}]
    BY DEF TypeOK
  <2>2. link' \in [Pushes -> {"none", "open", "archive", "checksum", "short", "cut"}]
    BY DEF TypeOK
  <2>3. QED  BY <1>1, CallsTyped, <2>1, <2>2 DEF TypeOK, NoPush, Source, Target
<1>3. ASSUME NEW q \in Pushes PROVE WireOK(q)'
  BY DEF TypeOK, WireOK, Handling
<1>4. ASSUME NEW q \in Pushes PROVE ReportOK(q)'
  BY DEF TypeOK, WireOK, ReportOK, Trying
<1>5. QED  BY <1>1, <1>2, <1>3, <1>4

LEMMA ResponseKeeps ==
    ASSUME ~Overlap, TransferInv, TypeInv', NEW p \in Pushes, Response(p)
    PROVE  TransferInv' /\ Handed
<1> USE DEF TransferInv, TypeInv, Response, GoesTo,
            sourceVars, wireVars, targetVars, limits
<1>1. Alone'
  BY DEF TypeOK, WireOK, Alone, Live, Underway, Handling
<1>2. MovedOK'
  BY DEF TypeOK, WireOK, MovedOK, Underway, Handling, Source, Target
<1>3. ASSUME NEW q \in Pushes PROVE WholeOK(q)'
  BY DEF TypeOK, WireOK, Alone, Live, WholeOK, Underway, Handling
<1>4. Handed
  BY DEF TypeOK, WireOK, MovedOK, Underway, Handling, Handed, Source, Target
<1>5. QED  BY <1>1, <1>2, <1>3, <1>4

\* The source begins its report, of a failure.
LEMMA NotifyPanelOfFailureTypes ==
    ASSUME TypeInv, NEW p \in Pushes, NotifyPanelOfFailure(p)
    PROVE  TypeInv'
<1> USE TransferAssumption DEF TypeInv, NotifyPanelOfFailure, GoesTo,
                               sourceVars, wireVars, targetVars, limits
<1>1. CallsOK'
  BY TwoCallers, RequestStarts
<1>2. TypeOK'
  BY <1>1, CallsTyped DEF TypeOK, WireOK, Handling, NoPush, Source, Target
<1>3. ASSUME NEW q \in Pushes PROVE WireOK(q)'
  BY DEF TypeOK, WireOK, Handling
<1>4. ASSUME NEW q \in Pushes PROVE ReportOK(q)'
  <2> DEFINE c == <<p, Source>>
  <2>1. c \in Callers
    BY TwoCallers
  <2>2. \A d \in Callers \ {c} : call'[d] = call[d]
    BY <2>1, RequestStarts
  <2>3. CASE q = p
    BY <2>1, <2>2, <2>3, RequestStarts, TwoCallers DEF TypeOK, ReportOK, Trying
  <2>4. CASE q # p
    <3>1. /\ call'[<<q, Source>>] = call[<<q, Source>>]
          /\ call'[<<q, Target>>] = call[<<q, Target>>]
      BY <2>2, <2>4, TwoCallers
    <3>2. recv'[q] = recv[q]
      BY <2>4 DEF TypeOK
    <3>3. QED  BY <3>1, <3>2 DEF ReportOK, Trying
  <2>5. QED  BY <2>3, <2>4
<1>5. QED  BY <1>1, <1>2, <1>3, <1>4

LEMMA NotifyPanelOfFailureKeeps ==
    ASSUME ~Overlap, TransferInv, TypeInv', NEW p \in Pushes, NotifyPanelOfFailure(p)
    PROVE  TransferInv' /\ Handed
<1> USE DEF TransferInv, TypeInv, NotifyPanelOfFailure, GoesTo,
            sourceVars, wireVars, targetVars, limits
<1>1. Alone'
  BY DEF TypeOK, WireOK, Alone, Live, Underway, Handling
<1>2. MovedOK'
  BY DEF TypeOK, WireOK, MovedOK, Underway, Handling, Source, Target
<1>3. ASSUME NEW q \in Pushes PROVE WholeOK(q)'
  BY DEF TypeOK, WireOK, Alone, Live, WholeOK, Underway, Handling
<1>4. Handed
  BY DEF TypeOK, WireOK, MovedOK, Underway, Handling, Handed, Source, Target
<1>5. QED  BY <1>1, <1>2, <1>3, <1>4

\* The source has reported.
LEMMA FailureNotifiedTypes ==
    ASSUME TypeInv, NEW p \in Pushes, FailureNotified(p)
    PROVE  TypeInv'
<1> USE TransferAssumption DEF TypeInv, FailureNotified, GoesTo,
                               sourceVars, wireVars, targetVars, limits
<1>1. CallsOK'
  BY TwoCallers, ReturnsEnds
<1>2. TypeOK'
  BY <1>1, CallsTyped DEF TypeOK, WireOK, Handling, NoPush, Source, Target
<1>3. ASSUME NEW q \in Pushes PROVE WireOK(q)'
  BY DEF TypeOK, WireOK, Handling
<1>4. ASSUME NEW q \in Pushes PROVE ReportOK(q)'
  <2> DEFINE c == <<p, Source>>
  <2>1. c \in Callers
    BY TwoCallers
  <2>2. \A d \in Callers \ {c} : call'[d] = call[d]
    BY <2>1, ReturnsEnds
  <2>3. CASE q = p
    BY <2>1, <2>2, <2>3, ReturnsEnds, TwoCallers DEF TypeOK, ReportOK, Trying
  <2>4. CASE q # p
    <3>1. /\ call'[<<q, Source>>] = call[<<q, Source>>]
          /\ call'[<<q, Target>>] = call[<<q, Target>>]
      BY <2>2, <2>4, TwoCallers
    <3>2. recv'[q] = recv[q]
      BY <2>4 DEF TypeOK
    <3>3. QED  BY <3>1, <3>2 DEF ReportOK, Trying
  <2>5. QED  BY <2>3, <2>4
<1>5. QED  BY <1>1, <1>2, <1>3, <1>4

LEMMA FailureNotifiedKeeps ==
    ASSUME ~Overlap, TransferInv, TypeInv', NEW p \in Pushes, FailureNotified(p)
    PROVE  TransferInv' /\ Handed
<1> USE DEF TransferInv, TypeInv, FailureNotified, GoesTo,
            sourceVars, wireVars, targetVars, limits
<1>1. Alone'
  BY DEF TypeOK, WireOK, Alone, Live, Underway, Handling
<1>2. MovedOK'
  BY DEF TypeOK, WireOK, MovedOK, Underway, Handling, Source, Target
<1>3. ASSUME NEW q \in Pushes PROVE WholeOK(q)'
  BY DEF TypeOK, WireOK, Alone, Live, WholeOK, Underway, Handling
<1>4. Handed
  BY DEF TypeOK, WireOK, MovedOK, Underway, Handling, Handed, Source, Target
<1>5. QED  BY <1>1, <1>2, <1>3, <1>4

\* A user cancels at the source.
LEMMA CancelPushTypes ==
    ASSUME TypeInv, NEW p \in Pushes, CancelPush(p)
    PROVE  TypeInv'
<1> USE TransferAssumption DEF TypeInv, CancelPush,
                               sourceVars, wireVars, targetVars, limits
<1>1. CallsOK'
  BY CallFrame
<1>2. TypeOK'
  BY <1>1, CallsTyped DEF TypeOK, WireOK, Handling, NoPush, Source, Target
<1>3. ASSUME NEW q \in Pushes PROVE WireOK(q)'
  BY DEF TypeOK, WireOK, Handling
<1>4. ASSUME NEW q \in Pushes PROVE ReportOK(q)'
  BY DEF TypeOK, WireOK, ReportOK, Trying
<1>5. QED  BY <1>1, <1>2, <1>3, <1>4

LEMMA CancelPushKeeps ==
    ASSUME ~Overlap, TransferInv, TypeInv', NEW p \in Pushes, CancelPush(p)
    PROVE  TransferInv' /\ Handed
<1> USE DEF TransferInv, TypeInv, CancelPush,
            sourceVars, wireVars, targetVars, limits
<1>1. Alone'
  BY DEF TypeOK, WireOK, Alone, Live, Underway, Handling
<1>2. MovedOK'
  BY DEF TypeOK, WireOK, MovedOK, Underway, Handling, Source, Target
<1>3. ASSUME NEW q \in Pushes PROVE WholeOK(q)'
  BY DEF TypeOK, WireOK, Alone, Live, WholeOK, Underway, Handling
<1>4. Handed
  BY DEF TypeOK, WireOK, MovedOK, Underway, Handling, Handed, Source, Target
<1>5. QED  BY <1>1, <1>2, <1>3, <1>4

\* The connection is cut.
LEMMA CutTypes ==
    ASSUME TypeInv, NEW p \in Pushes, Cut(p)
    PROVE  TypeInv'
<1> USE TransferAssumption DEF TypeInv, Cut, Fault,
                               sourceVars, wireVars, targetVars, limits
<1>1. CallsOK'
  BY CallFrame
<1>2. TypeOK'
  BY <1>1, CallsTyped DEF TypeOK, WireOK, Handling, NoPush, Source, Target
<1>3. ASSUME NEW q \in Pushes PROVE WireOK(q)'
  BY DEF TypeOK, WireOK, Handling
<1>4. ASSUME NEW q \in Pushes PROVE ReportOK(q)'
  BY DEF TypeOK, WireOK, ReportOK, Trying
<1>5. QED  BY <1>1, <1>2, <1>3, <1>4

LEMMA CutKeeps ==
    ASSUME ~Overlap, TransferInv, TypeInv', NEW p \in Pushes, Cut(p)
    PROVE  TransferInv' /\ Handed
<1> USE DEF TransferInv, TypeInv, Cut, Fault,
            sourceVars, wireVars, targetVars, limits
<1>1. Alone'
  BY DEF TypeOK, WireOK, Alone, Live, Underway, Handling
<1>2. MovedOK'
  BY DEF TypeOK, WireOK, MovedOK, Underway, Handling, Source, Target
<1>3. ASSUME NEW q \in Pushes PROVE WholeOK(q)'
  BY DEF TypeOK, WireOK, Alone, Live, WholeOK, Underway, Handling
<1>4. Handed
  BY DEF TypeOK, WireOK, MovedOK, Underway, Handling, Handed, Source, Target
<1>5. QED  BY <1>1, <1>2, <1>3, <1>4

\* Bytes are garbled, before the archive has arrived.
LEMMA GarbleTypes ==
    ASSUME TypeInv, NEW p \in Pushes, Garble(p)
    PROVE  TypeInv'
<1> USE TransferAssumption DEF TypeInv, Garble, Fault,
                               sourceVars, wireVars, targetVars, limits
<1>1. CallsOK'
  BY CallFrame
<1>2. TypeOK'
  BY <1>1, CallsTyped DEF TypeOK, WireOK, Handling, NoPush, Source, Target
<1>3. ASSUME NEW q \in Pushes PROVE WireOK(q)'
  BY DEF TypeOK, WireOK, Handling
<1>4. ASSUME NEW q \in Pushes PROVE ReportOK(q)'
  BY DEF TypeOK, WireOK, ReportOK, Trying
<1>5. QED  BY <1>1, <1>2, <1>3, <1>4

LEMMA GarbleKeeps ==
    ASSUME ~Overlap, TransferInv, TypeInv', NEW p \in Pushes, Garble(p)
    PROVE  TransferInv' /\ Handed
<1> USE DEF TransferInv, TypeInv, Garble, Fault,
            sourceVars, wireVars, targetVars, limits
<1>1. Alone'
  BY DEF TypeOK, WireOK, Alone, Live, Underway, Handling
<1>2. MovedOK'
  BY DEF TypeOK, WireOK, MovedOK, Underway, Handling, Source, Target
<1>3. ASSUME NEW q \in Pushes PROVE WholeOK(q)'
  BY DEF TypeOK, WireOK, Alone, Live, WholeOK, Underway, Handling
<1>4. Handed
  BY DEF TypeOK, WireOK, MovedOK, Underway, Handling, Handed, Source, Target
<1>5. QED  BY <1>1, <1>2, <1>3, <1>4

\* A handler begins; its push was under way.
LEMMA ArriveTypes ==
    ASSUME TypeInv, NEW p \in Pushes, Arrive(p)
    PROVE  TypeInv'
<1> USE TransferAssumption DEF TypeInv, Arrive, Receives, Get, Add,
                               sourceVars, wireVars, targetVars, limits
<1>1. CallsOK'
  BY CallFrame
<1>2. TypeOK'
  <2>1. recv' \in [Pushes -> {"none", "new", "parts", "extract", "check", "failed", "successful",
                            "reportFailure", "reportSuccess", "refused", "accepted"}]
    BY DEF TypeOK
  <2>2. incoming' \in Pushes \cup {NoPush} /\ of' \in [Pushes -> Pushes \cup {NoPush}]
    BY DEF TypeOK
  <2>3. held' \subseteq Pushes /\ managed' \subseteq Pushes
    BY DEF TypeOK
  <2>4. QED  BY <1>1, CallsTyped, <2>1, <2>2, <2>3 DEF TypeOK, NoPush, Source, Target
<1>3. ASSUME NEW q \in Pushes PROVE WireOK(q)'
  BY DEF TypeOK, WireOK, Handling
<1>4. ASSUME NEW q \in Pushes PROVE ReportOK(q)'
  BY DEF TypeOK, WireOK, ReportOK, Trying
<1>5. QED  BY <1>1, <1>2, <1>3, <1>4

LEMMA ArriveKeeps ==
    ASSUME ~Overlap, TransferInv, TypeInv', NEW p \in Pushes, Arrive(p)
    PROVE  TransferInv' /\ Handed
<1> USE DEF TransferInv, TypeInv, Arrive, Receives, Get, Add,
            sourceVars, wireVars, targetVars, limits
<1>1. Alone'
  BY DEF TypeOK, WireOK, Alone, Live, Underway, Handling
<1>2. MovedOK'
  BY DEF TypeOK, WireOK, MovedOK, Underway, Handling, Source, Target
<1>3. ASSUME NEW q \in Pushes PROVE WholeOK(q)'
  BY DEF TypeOK, WireOK, Alone, Live, WholeOK, Underway, Handling
<1>4. Handed
  BY DEF TypeOK, WireOK, MovedOK, Underway, Handling, Handed, Source, Target
<1>5. QED  BY <1>1, <1>2, <1>3, <1>4

\* installer.New has returned: the server and the transfer are added.
LEMMA CreateTypes ==
    ASSUME TypeInv, NEW p \in Pushes, Create(p)
    PROVE  TypeInv'
<1> USE TransferAssumption DEF TypeInv, Create, Receives, Get, Add,
                               sourceVars, wireVars, targetVars, limits
<1>1. CallsOK'
  BY CallFrame
<1>2. TypeOK'
  <2>1. recv' \in [Pushes -> {"none", "new", "parts", "extract", "check", "failed", "successful",
                            "reportFailure", "reportSuccess", "refused", "accepted"}]
    BY DEF TypeOK
  <2>2. incoming' \in Pushes \cup {NoPush} /\ of' \in [Pushes -> Pushes \cup {NoPush}]
    BY DEF TypeOK
  <2>3. held' \subseteq Pushes /\ managed' \subseteq Pushes
    BY DEF TypeOK
  <2>4. QED  BY <1>1, CallsTyped, <2>1, <2>2, <2>3 DEF TypeOK, NoPush, Source, Target
<1>3. ASSUME NEW q \in Pushes PROVE WireOK(q)'
  BY DEF TypeOK, WireOK, Handling
<1>4. ASSUME NEW q \in Pushes PROVE ReportOK(q)'
  BY DEF TypeOK, WireOK, ReportOK, Trying
<1>5. QED  BY <1>1, <1>2, <1>3, <1>4

LEMMA CreateKeeps ==
    ASSUME ~Overlap, TransferInv, TypeInv', NEW p \in Pushes, Create(p)
    PROVE  TransferInv' /\ Handed
<1> USE DEF TransferInv, TypeInv, Create, Receives, Get, Add,
            sourceVars, wireVars, targetVars, limits
<1>1. Alone'
  BY DEF TypeOK, WireOK, Alone, Live, Underway, Handling
<1>2. MovedOK'
  BY DEF TypeOK, WireOK, MovedOK, Underway, Handling, Source, Target
<1>3. ASSUME NEW q \in Pushes PROVE WholeOK(q)'
  BY DEF TypeOK, WireOK, Alone, Live, WholeOK, Underway, Handling
<1>4. Handed
  BY DEF TypeOK, WireOK, MovedOK, Underway, Handling, Handed, Source, Target
<1>5. QED  BY <1>1, <1>2, <1>3, <1>4

\* The target refuses.
LEMMA ArriveFailsTypes ==
    ASSUME TypeInv, NEW p \in Pushes, ArriveFails(p)
    PROVE  TypeInv'
<1> USE TransferAssumption DEF TypeInv, ArriveFails, Receives, Fault,
                               sourceVars, wireVars, targetVars, limits
<1>1. CallsOK'
  BY CallFrame
<1>2. TypeOK'
  BY <1>1, CallsTyped DEF TypeOK, WireOK, Handling, NoPush, Source, Target
<1>3. ASSUME NEW q \in Pushes PROVE WireOK(q)'
  BY DEF TypeOK, WireOK, Handling
<1>4. ASSUME NEW q \in Pushes PROVE ReportOK(q)'
  BY DEF TypeOK, WireOK, ReportOK, Trying
<1>5. QED  BY <1>1, <1>2, <1>3, <1>4

LEMMA ArriveFailsKeeps ==
    ASSUME ~Overlap, TransferInv, TypeInv', NEW p \in Pushes, ArriveFails(p)
    PROVE  TransferInv' /\ Handed
<1> USE DEF TransferInv, TypeInv, ArriveFails, Receives, Fault,
            sourceVars, wireVars, targetVars, limits
<1>1. Alone'
  BY DEF TypeOK, WireOK, Alone, Live, Underway, Handling
<1>2. MovedOK'
  BY DEF TypeOK, WireOK, MovedOK, Underway, Handling, Source, Target
<1>3. ASSUME NEW q \in Pushes PROVE WholeOK(q)'
  BY DEF TypeOK, WireOK, Alone, Live, WholeOK, Underway, Handling
<1>4. Handed
  BY DEF TypeOK, WireOK, MovedOK, Underway, Handling, Handed, Source, Target
<1>5. QED  BY <1>1, <1>2, <1>3, <1>4

\* The next part: the files are only touched by the live push.
LEMMA NextPartTypes ==
    ASSUME TypeInv, NEW p \in Pushes, NextPart(p)
    PROVE  TypeInv'
<1> USE TransferAssumption DEF TypeInv, NextPart, Receives, Aborted,
                               sourceVars, wireVars, targetVars, limits
<1>1. CallsOK'
  BY CallFrame
<1>2. TypeOK'
  BY <1>1, CallsTyped DEF TypeOK, WireOK, Handling, NoPush, Source, Target
<1>3. ASSUME NEW q \in Pushes PROVE WireOK(q)'
  BY DEF TypeOK, WireOK, Handling
<1>4. ASSUME NEW q \in Pushes PROVE ReportOK(q)'
  BY DEF TypeOK, WireOK, ReportOK, Trying
<1>5. QED  BY <1>1, <1>2, <1>3, <1>4

LEMMA NextPartKeeps ==
    ASSUME ~Overlap, TransferInv, TypeInv', NEW p \in Pushes, NextPart(p)
    PROVE  TransferInv' /\ Handed
<1> USE DEF TransferInv, TypeInv, NextPart, Receives, Aborted,
            sourceVars, wireVars, targetVars, limits
<1>1. Alone'
  BY DEF TypeOK, WireOK, Alone, Live, Underway, Handling
<1>2. MovedOK'
  BY DEF TypeOK, WireOK, MovedOK, Underway, Handling, Source, Target
<1>3. ASSUME NEW q \in Pushes PROVE WholeOK(q)'
  <2>1. Handling(p) /\ (Handling(q)' => Handling(q))
    BY DEF TypeOK, Handling
  <2>2. files' # files => ~has[p].archive
    BY DEF TypeOK
  <2>3. Handling(q) => q = p
    BY <2>1 DEF Alone, Live
  <2>4. QED  BY <2>1, <2>2, <2>3 DEF WholeOK
<1>4. Handed
  BY DEF TypeOK, WireOK, MovedOK, Underway, Handling, Handed, Source, Target
<1>5. QED  BY <1>1, <1>2, <1>3, <1>4

\* The archive is extracted, by nobody else at the same time.
LEMMA ExtractTypes ==
    ASSUME TypeInv, NEW p \in Pushes, Extract(p)
    PROVE  TypeInv'
<1> USE TransferAssumption DEF TypeInv, Extract, Receives, Aborted, Shared,
                               sourceVars, wireVars, targetVars, limits
<1>1. CallsOK'
  BY CallFrame
<1>2. TypeOK'
  <2>1. recv' \in [Pushes -> {"none", "new", "parts", "extract", "check", "failed", "successful",
                            "reportFailure", "reportSuccess", "refused", "accepted"}]
    BY DEF TypeOK
  <2>2. files' \in {"none", "part", "whole"}
    BY DEF TypeOK
  <2>3. has' \in [Pushes -> [archive : BOOLEAN, verified : BOOLEAN]]
    <3>1. has[p] \in [archive : BOOLEAN, verified : BOOLEAN]
      BY DEF TypeOK
    <3>2. [has[p] EXCEPT !.archive = TRUE] \in [archive : BOOLEAN, verified : BOOLEAN]
      BY <3>1
    <3>3. has' = [has EXCEPT ![p] = [has[p] EXCEPT !.archive = TRUE]]
      OBVIOUS
    <3>4. QED  BY <3>2, <3>3 DEF TypeOK
  <2>4. QED  BY <1>1, CallsTyped, <2>1, <2>2, <2>3 DEF TypeOK, NoPush, Source, Target
<1>3. ASSUME NEW q \in Pushes PROVE WireOK(q)'
  BY DEF TypeOK, WireOK, Handling
<1>4. ASSUME NEW q \in Pushes PROVE ReportOK(q)'
  BY DEF TypeOK, WireOK, ReportOK, Trying
<1>5. QED  BY <1>1, <1>2, <1>3, <1>4

LEMMA ExtractKeeps ==
    ASSUME ~Overlap, TransferInv, TypeInv', NEW p \in Pushes, Extract(p)
    PROVE  TransferInv' /\ Handed
<1> USE DEF TransferInv, TypeInv, Extract, Receives, Aborted, Shared,
            sourceVars, wireVars, targetVars, limits
<1>1. Alone'
  BY DEF TypeOK, WireOK, Alone, Live, Underway, Handling
<1>2. MovedOK'
  BY DEF TypeOK, WireOK, MovedOK, Underway, Handling, Source, Target
<1>3. ASSUME NEW q \in Pushes PROVE WholeOK(q)'
  BY DEF TypeOK, WireOK, Alone, Live, WholeOK, Underway, Handling
<1>4. Handed
  BY DEF TypeOK, WireOK, MovedOK, Underway, Handling, Handed, Source, Target
<1>5. QED  BY <1>1, <1>2, <1>3, <1>4

\* The extraction fails.
LEMMA ExtractFailsTypes ==
    ASSUME TypeInv, NEW p \in Pushes, ExtractFails(p)
    PROVE  TypeInv'
<1> USE TransferAssumption DEF TypeInv, ExtractFails, Receives, Fault,
                               sourceVars, wireVars, targetVars, limits
<1>1. CallsOK'
  BY CallFrame
<1>2. TypeOK'
  BY <1>1, CallsTyped DEF TypeOK, WireOK, Handling, NoPush, Source, Target
<1>3. ASSUME NEW q \in Pushes PROVE WireOK(q)'
  BY DEF TypeOK, WireOK, Handling
<1>4. ASSUME NEW q \in Pushes PROVE ReportOK(q)'
  BY DEF TypeOK, WireOK, ReportOK, Trying
<1>5. QED  BY <1>1, <1>2, <1>3, <1>4

LEMMA ExtractFailsKeeps ==
    ASSUME ~Overlap, TransferInv, TypeInv', NEW p \in Pushes, ExtractFails(p)
    PROVE  TransferInv' /\ Handed
<1> USE DEF TransferInv, TypeInv, ExtractFails, Receives, Fault,
            sourceVars, wireVars, targetVars, limits
<1>1. Alone'
  BY DEF TypeOK, WireOK, Alone, Live, Underway, Handling
<1>2. MovedOK'
  BY DEF TypeOK, WireOK, MovedOK, Underway, Handling, Source, Target
<1>3. ASSUME NEW q \in Pushes PROVE WholeOK(q)'
  BY DEF TypeOK, WireOK, Alone, Live, WholeOK, Underway, Handling
<1>4. Handed
  BY DEF TypeOK, WireOK, MovedOK, Underway, Handling, Handed, Source, Target
<1>5. QED  BY <1>1, <1>2, <1>3, <1>4

\* The checksum arrives: what is verified was intact.
LEMMA ChecksumTypes ==
    ASSUME TypeInv, NEW p \in Pushes, Checksum(p)
    PROVE  TypeInv'
<1> USE TransferAssumption DEF TypeInv, Checksum, Receives,
                               sourceVars, wireVars, targetVars, limits
<1>1. CallsOK'
  BY CallFrame
<1>2. TypeOK'
  <2>1. has' \in [Pushes -> [archive : BOOLEAN, verified : BOOLEAN]]
    <3>1. has[p] \in [archive : BOOLEAN, verified : BOOLEAN]
      BY DEF TypeOK
    <3>2. [has[p] EXCEPT !.verified = TRUE] \in [archive : BOOLEAN, verified : BOOLEAN]
      BY <3>1
    <3>3. CASE intact[p]
      <4>1. has' = [has EXCEPT ![p] = [has[p] EXCEPT !.verified = TRUE]]
        BY <3>3
      <4>2. QED  BY <3>2, <4>1 DEF TypeOK
    <3>4. CASE ~intact[p]
      BY <3>4 DEF TypeOK
    <3>5. QED  BY <3>3, <3>4
  <2>2. recv' \in [Pushes -> {"none", "new", "parts", "extract", "check", "failed", "successful",
                            "reportFailure", "reportSuccess", "refused", "accepted"}]
    BY DEF TypeOK
  <2>3. QED  BY <1>1, CallsTyped, <2>1, <2>2 DEF TypeOK, NoPush, Source, Target
<1>3. ASSUME NEW q \in Pushes PROVE WireOK(q)'
  BY DEF TypeOK, WireOK, Handling
<1>4. ASSUME NEW q \in Pushes PROVE ReportOK(q)'
  BY DEF TypeOK, WireOK, ReportOK, Trying
<1>5. QED  BY <1>1, <1>2, <1>3, <1>4

LEMMA ChecksumKeeps ==
    ASSUME ~Overlap, TransferInv, TypeInv', NEW p \in Pushes, Checksum(p)
    PROVE  TransferInv' /\ Handed
<1> USE DEF TransferInv, TypeInv, Checksum, Receives,
            sourceVars, wireVars, targetVars, limits
<1>1. Alone'
  <2>1. \A q \in Pushes : Live(q)' => Live(q)
    BY DEF TypeOK, Live, Underway, Handling
  <2>2. QED  BY <2>1 DEF Alone
<1>2. MovedOK'
  BY DEF TypeOK, WireOK, MovedOK, Underway, Handling, Source, Target
<1>3. ASSUME NEW q \in Pushes PROVE WholeOK(q)'
  BY DEF TypeOK, WireOK, Alone, Live, WholeOK, Underway, Handling
<1>4. Handed
  BY DEF TypeOK, WireOK, MovedOK, Underway, Handling, Handed, Source, Target
<1>5. QED  BY <1>1, <1>2, <1>3, <1>4

\* Both parts must have come.
LEMMA CompleteTypes ==
    ASSUME TypeInv, NEW p \in Pushes, Complete(p)
    PROVE  TypeInv'
<1> USE TransferAssumption DEF TypeInv, Complete, Receives, Fault,
                               sourceVars, wireVars, targetVars, limits
<1>1. CallsOK'
  BY CallFrame
<1>2. TypeOK'
  BY <1>1, CallsTyped DEF TypeOK, WireOK, Handling, NoPush, Source, Target
<1>3. ASSUME NEW q \in Pushes PROVE WireOK(q)'
  BY DEF TypeOK, WireOK, Handling
<1>4. ASSUME NEW q \in Pushes PROVE ReportOK(q)'
  BY DEF TypeOK, WireOK, ReportOK, Trying
<1>5. QED  BY <1>1, <1>2, <1>3, <1>4

LEMMA CompleteKeeps ==
    ASSUME ~Overlap, TransferInv, TypeInv', NEW p \in Pushes, Complete(p)
    PROVE  TransferInv' /\ Handed
<1> USE DEF TransferInv, TypeInv, Complete, Receives, Fault,
            sourceVars, wireVars, targetVars, limits
<1>1. Alone'
  <2>1. \A q \in Pushes : Live(q)' => Live(q)
    BY DEF TypeOK, Live, Underway, Handling
  <2>2. QED  BY <2>1 DEF Alone
<1>2. MovedOK'
  BY DEF TypeOK, WireOK, MovedOK, Underway, Handling, Source, Target
<1>3. ASSUME NEW q \in Pushes PROVE WholeOK(q)'
  BY DEF TypeOK, WireOK, Alone, Live, WholeOK, Underway, Handling
<1>4. Handed
  BY DEF TypeOK, WireOK, MovedOK, Underway, Handling, Handed, Source, Target
<1>5. QED  BY <1>1, <1>2, <1>3, <1>4

\* The target begins its report, of success only if both have.
LEMMA DeferredTypes ==
    ASSUME TypeInv, NEW p \in Pushes, Deferred(p)
    PROVE  TypeInv'
<1> USE TransferAssumption DEF TypeInv, Deferred, Receives, Remove,
                               sourceVars, wireVars, targetVars, limits
<1>1. CallsOK'
  BY TwoCallers, RequestStarts
<1>2. TypeOK'
  BY <1>1, CallsTyped DEF TypeOK, WireOK, Handling, NoPush, Source, Target
<1>3. ASSUME NEW q \in Pushes PROVE WireOK(q)'
  BY DEF TypeOK, WireOK, Handling
<1>4. ASSUME NEW q \in Pushes PROVE ReportOK(q)'
  <2> DEFINE c == <<p, Target>>
  <2>1. c \in Callers
    BY TwoCallers
  <2>2. \A d \in Callers \ {c} : call'[d] = call[d]
    BY <2>1, RequestStarts
  <2>3. CASE q = p
    BY <2>1, <2>2, <2>3, RequestStarts, TwoCallers DEF TypeOK, ReportOK, Trying
  <2>4. CASE q # p
    <3>1. /\ call'[<<q, Source>>] = call[<<q, Source>>]
          /\ call'[<<q, Target>>] = call[<<q, Target>>]
      BY <2>2, <2>4, TwoCallers
    <3>2. recv'[q] = recv[q]
      BY <2>4 DEF TypeOK
    <3>3. QED  BY <3>1, <3>2 DEF ReportOK, Trying
  <2>5. QED  BY <2>3, <2>4
<1>5. QED  BY <1>1, <1>2, <1>3, <1>4

LEMMA DeferredKeeps ==
    ASSUME ~Overlap, TransferInv, TypeInv', NEW p \in Pushes, Deferred(p)
    PROVE  TransferInv' /\ Handed
<1> USE DEF TransferInv, TypeInv, Deferred, Receives, Remove,
            sourceVars, wireVars, targetVars, limits
<1>1. Alone'
  <2>1. ASSUME NEW q \in Pushes, Live(q)' PROVE Live(q)
    <3>1. CASE q = p
      BY <2>1, <3>1 DEF TypeOK, WireOK, Live, Underway, Handling
    <3>2. CASE q # p
      BY <2>1, <3>2 DEF TypeOK, Live, Underway, Handling
    <3>3. QED  BY <3>1, <3>2
  <2>2. wiping' = wiping
    OBVIOUS
  <2>3. QED
    BY <2>1, <2>2, Zenon DEF Alone
<1>2. MovedOK'
  BY DEF TypeOK, WireOK, MovedOK, Underway, Handling, Source, Target
<1>3. ASSUME NEW q \in Pushes PROVE WholeOK(q)'
  BY DEF TypeOK, WireOK, Alone, Live, WholeOK, Underway, Handling
<1>4. Handed
  BY DEF TypeOK, WireOK, MovedOK, Underway, Handling, Handed, Source, Target
<1>5. QED  BY <1>1, <1>2, <1>3, <1>4

\* The target has reported; the push is no longer live.
LEMMA ReportedTypes ==
    ASSUME TypeInv, NEW p \in Pushes, Reported(p)
    PROVE  TypeInv'
<1> USE TransferAssumption DEF TypeInv, Reported, Receives,
                               sourceVars, wireVars, targetVars, limits
<1>1. CallsOK'
  BY TwoCallers, ReturnsEnds
<1>2. TypeOK'
  BY <1>1, CallsTyped DEF TypeOK, WireOK, Handling, NoPush, Source, Target
<1>3. ASSUME NEW q \in Pushes PROVE WireOK(q)'
  BY DEF TypeOK, WireOK, Handling
<1>4. ASSUME NEW q \in Pushes PROVE ReportOK(q)'
  <2> DEFINE c == <<p, Target>>
  <2>1. c \in Callers
    BY TwoCallers
  <2>2. \A d \in Callers \ {c} : call'[d] = call[d]
    BY <2>1, ReturnsEnds
  <2>3. CASE q = p
    BY <2>1, <2>2, <2>3, ReturnsEnds, TwoCallers DEF TypeOK, ReportOK, Trying
  <2>4. CASE q # p
    <3>1. /\ call'[<<q, Source>>] = call[<<q, Source>>]
          /\ call'[<<q, Target>>] = call[<<q, Target>>]
      BY <2>2, <2>4, TwoCallers
    <3>2. recv'[q] = recv[q]
      BY <2>4 DEF TypeOK
    <3>3. QED  BY <3>1, <3>2 DEF ReportOK, Trying
  <2>5. QED  BY <2>3, <2>4
<1>5. QED  BY <1>1, <1>2, <1>3, <1>4

LEMMA ReportedKeeps ==
    ASSUME ~Overlap, TransferInv, TypeInv', NEW p \in Pushes, Reported(p)
    PROVE  TransferInv' /\ Handed
<1> USE DEF TransferInv, TypeInv, Reported, Receives,
            sourceVars, wireVars, targetVars, limits
<1>1. Alone'
  BY DEF TypeOK, WireOK, Alone, Live, Underway, Handling
<1>2. MovedOK'
  BY DEF TypeOK, WireOK, MovedOK, Underway, Handling, Source, Target
<1>3. ASSUME NEW q \in Pushes PROVE WholeOK(q)'
  BY DEF TypeOK, WireOK, Alone, Live, WholeOK, Underway, Handling
<1>4. Handed
  BY DEF TypeOK, WireOK, MovedOK, Underway, Handling, Handed, Source, Target
<1>5. QED  BY <1>1, <1>2, <1>3, <1>4

\* The files of a failed push are deleted, with no push live.
LEMMA WipeTypes ==
    ASSUME TypeInv, NEW p \in Pushes, Wipe(p)
    PROVE  TypeInv'
<1> USE TransferAssumption DEF TypeInv, Wipe,
                               sourceVars, wireVars, targetVars, limits
<1>1. CallsOK'
  BY CallFrame
<1>2. TypeOK'
  BY <1>1, CallsTyped DEF TypeOK, WireOK, Handling, NoPush, Source, Target
<1>3. ASSUME NEW q \in Pushes PROVE WireOK(q)'
  BY DEF TypeOK, WireOK, Handling
<1>4. ASSUME NEW q \in Pushes PROVE ReportOK(q)'
  BY DEF TypeOK, WireOK, ReportOK, Trying
<1>5. QED  BY <1>1, <1>2, <1>3, <1>4

LEMMA WipeKeeps ==
    ASSUME ~Overlap, TransferInv, TypeInv', NEW p \in Pushes, Wipe(p)
    PROVE  TransferInv' /\ Handed
<1> USE DEF TransferInv, TypeInv, Wipe,
            sourceVars, wireVars, targetVars, limits
<1>1. Alone'
  BY DEF TypeOK, WireOK, Alone, Live, Underway, Handling
<1>2. MovedOK'
  BY DEF TypeOK, WireOK, MovedOK, Underway, Handling, Source, Target
<1>3. ASSUME NEW q \in Pushes PROVE WholeOK(q)'
  BY DEF TypeOK, WireOK, Alone, Live, WholeOK, Underway, Handling
<1>4. Handed
  BY DEF TypeOK, WireOK, MovedOK, Underway, Handling, Handed, Source, Target
<1>5. QED  BY <1>1, <1>2, <1>3, <1>4

\* A user cancels at the target.
LEMMA CancelIncomingTypes ==
    ASSUME TypeInv, CancelIncoming
    PROVE  TypeInv'
<1> USE TransferAssumption DEF TypeInv, CancelIncoming, Get,
                               sourceVars, wireVars, targetVars, limits
<1>1. CallsOK'
  BY CallFrame
<1>2. TypeOK'
  BY <1>1, CallsTyped DEF TypeOK, WireOK, Handling, NoPush, Source, Target
<1>3. ASSUME NEW q \in Pushes PROVE WireOK(q)'
  BY DEF TypeOK, WireOK, Handling
<1>4. ASSUME NEW q \in Pushes PROVE ReportOK(q)'
  BY DEF TypeOK, WireOK, ReportOK, Trying
<1>5. QED  BY <1>1, <1>2, <1>3, <1>4

LEMMA CancelIncomingKeeps ==
    ASSUME ~Overlap, TransferInv, TypeInv', CancelIncoming
    PROVE  TransferInv' /\ Handed
<1> USE DEF TransferInv, TypeInv, CancelIncoming, Get,
            sourceVars, wireVars, targetVars, limits
<1>1. Alone'
  BY DEF TypeOK, WireOK, Alone, Live, Underway, Handling
<1>2. MovedOK'
  BY DEF TypeOK, WireOK, MovedOK, Underway, Handling, Source, Target
<1>3. ASSUME NEW q \in Pushes PROVE WholeOK(q)'
  BY DEF TypeOK, WireOK, Alone, Live, WholeOK, Underway, Handling
<1>4. Handed
  BY DEF TypeOK, WireOK, MovedOK, Underway, Handling, Handed, Source, Target
<1>5. QED  BY <1>1, <1>2, <1>3, <1>4

\* The panel deletes the server at the source.
LEMMA DropSourceTypes ==
    ASSUME TypeInv, DropSource
    PROVE  TypeInv'
<1> USE TransferAssumption DEF TypeInv, DropSource,
                               sourceVars, wireVars, targetVars, limits
<1>1. CallsOK'
  BY CallFrame
<1>2. TypeOK'
  BY <1>1, CallsTyped DEF TypeOK, WireOK, Handling, NoPush, Source, Target
<1>3. ASSUME NEW q \in Pushes PROVE WireOK(q)'
  BY DEF TypeOK, WireOK, Handling
<1>4. ASSUME NEW q \in Pushes PROVE ReportOK(q)'
  BY DEF TypeOK, WireOK, ReportOK, Trying
<1>5. QED  BY <1>1, <1>2, <1>3, <1>4

LEMMA DropSourceKeeps ==
    ASSUME ~Overlap, TransferInv, TypeInv', DropSource
    PROVE  TransferInv' /\ Handed
<1> USE DEF TransferInv, TypeInv, DropSource,
            sourceVars, wireVars, targetVars, limits
<1>1. Alone'
  BY DEF TypeOK, WireOK, Alone, Live, Underway, Handling
<1>2. MovedOK'
  BY DEF TypeOK, WireOK, MovedOK, Underway, Handling, Source, Target
<1>3. ASSUME NEW q \in Pushes PROVE WholeOK(q)'
  BY DEF TypeOK, WireOK, Alone, Live, WholeOK, Underway, Handling
<1>4. Handed
  BY DEF TypeOK, WireOK, MovedOK, Underway, Handling, Handed, Source, Target
<1>5. QED  BY <1>1, <1>2, <1>3, <1>4

\* The panel deletes what the target has, while it does not wait for a report.
LEMMA ResetTargetTypes ==
    ASSUME TypeInv, ResetTarget
    PROVE  TypeInv'
<1> USE TransferAssumption DEF TypeInv, ResetTarget,
                               sourceVars, wireVars, targetVars, limits
<1>1. CallsOK'
  BY CallFrame
<1>2. TypeOK'
  BY <1>1, CallsTyped DEF TypeOK, WireOK, Handling, NoPush, Source, Target
<1>3. ASSUME NEW q \in Pushes PROVE WireOK(q)'
  BY DEF TypeOK, WireOK, Handling
<1>4. ASSUME NEW q \in Pushes PROVE ReportOK(q)'
  BY DEF TypeOK, WireOK, ReportOK, Trying
<1>5. QED  BY <1>1, <1>2, <1>3, <1>4

LEMMA ResetTargetKeeps ==
    ASSUME ~Overlap, TransferInv, TypeInv', ResetTarget
    PROVE  TransferInv' /\ Handed
<1> USE DEF TransferInv, TypeInv, ResetTarget,
            sourceVars, wireVars, targetVars, limits
<1>1. Alone'
  BY DEF TypeOK, WireOK, Alone, Live, Underway, Handling
<1>2. MovedOK'
  BY DEF TypeOK, WireOK, MovedOK, Underway, Handling, Source, Target
<1>3. ASSUME NEW q \in Pushes PROVE WholeOK(q)'
  BY DEF TypeOK, WireOK, Alone, Live, WholeOK, Underway, Handling
<1>4. Handed
  BY DEF TypeOK, WireOK, MovedOK, Underway, Handling, Handed, Source, Target
<1>5. QED  BY <1>1, <1>2, <1>3, <1>4

\* An attempt leaves the body as it is, and stops at the limit of the backoff.
LEMMA RequestGoesOn ==
    ASSUME CallsOK, NEW c \in Callers, NEW outcome, RequestOnce(c, outcome)
    PROVE  /\ CallsOK'
           /\ Trying(c) /\ call'[c].body = call[c].body
           /\ \A d \in Callers \ {c} : call'[d] = call[d]
<1> DEFINE Full == [pc : {"trying", "done", "failed"}, body : Bodies, tries : 0 .. MaxTries]
           tries == call[c].tries + 1
<1>1. Trying(c) /\ call[c] \in Full
  BY DEF RequestOnce, CallsOK, CallTypeOK, Trying, NoCall
<1>2. tries \in 0 .. MaxTries
  BY <1>1, PanelClientAssumption DEF CallsOK
<1>3. PICK pc \in {"trying", "done", "failed"} :
         /\ pc = "trying" => tries < MaxTries
         /\ call' = [call EXCEPT ![c].pc = pc, ![c].tries = tries]
  <2>1. PICK pc \in {"trying", "done", "failed"} :
           /\ CASE outcome = "ok"      -> pc = "done"
                [] outcome = "refused" -> pc = "failed"
                [] OTHER               -> Backoff(c, tries, pc)
           /\ call' = [call EXCEPT ![c].pc = pc, ![c].tries = tries]
    BY DEF RequestOnce
  <2>2. pc = "trying" => tries < MaxTries
    BY <2>1 DEF Backoff
  <2>3. QED  BY <2>1, <2>2
<1> DEFINE r == [call[c] EXCEPT !.pc = pc, !.tries = tries]
<1>4. r \in Full /\ r.pc = pc /\ r.tries = tries /\ r.body = call[c].body
  BY <1>1, <1>2
<1>5. call' = [call EXCEPT ![c] = r]
  BY <1>3
<1> HIDE DEF r, Full
<1>6. call'[c] = r /\ \A d \in Callers \ {c} : call'[d] = call[d]
  BY <1>5 DEF CallsOK, CallTypeOK
<1>7. CallTypeOK'
  BY <1>4, <1>5 DEF CallsOK, CallTypeOK, Full
<1>8. \A d \in Callers : Trying(d)' => call'[d].tries < MaxTries
  BY <1>3, <1>4, <1>6 DEF CallsOK, Trying
<1>9. QED  BY <1>1, <1>4, <1>6, <1>7, <1>8 DEF CallsOK

\* What an attempt to report leaves alone, and whose it is.
LEMMA AttemptChanges ==
    ASSUME TypeInv, NEW c \in Callers, Attempt(c)
    PROVE  /\ CallsOK' /\ Trying(c) /\ call'[c].body = call[c].body
           /\ \A d \in Callers \ {c} : call'[d] = call[d]
           /\ faults' \in 0 .. MaxFaults /\ cancels' = cancels
           /\ panel' = panel \/ (panel.moving /\ Hears(call[c].body))
           /\ UNCHANGED <<sourceVars, wireVars, targetVars, unheard>>
<1>1. PICK outcome \in {"ok", "lost", "down", "refused"} :
        /\ outcome \in {"ok", "lost"} => panel.moving
        /\ IF outcome \in {"lost", "down"} THEN Fault ELSE UNCHANGED limits
        /\ RequestOnce(c, outcome)
        /\ IF Processed(outcome) THEN Hears(call[c].body) ELSE UNCHANGED panel
  BY DEF Attempt
<1>2. faults' \in 0 .. MaxFaults /\ cancels' = cancels
  BY <1>1, TransferAssumption DEF Fault, limits, TypeInv, TypeOK
<1>3. panel' = panel \/ (panel.moving /\ Hears(call[c].body))
  BY <1>1 DEF Processed
<1>4. UNCHANGED <<sourceVars, wireVars, targetVars, unheard>>
  BY DEF Attempt
<1>5. QED  BY <1>1, <1>2, <1>3, <1>4, RequestGoesOn DEF TypeInv

LEMMA AttemptTypes ==
    ASSUME TypeInv, NEW c \in Callers, Attempt(c)
    PROVE  TypeInv'
<1> USE DEF sourceVars, wireVars, targetVars
<1>1. CallsOK'
  BY AttemptChanges
<1>2. TypeOK'
  <2>1. panel' \in [owner : {Source, Target}, moving : BOOLEAN]
    <3>1. panel \in [owner : {Source, Target}, moving : BOOLEAN]
      BY DEF TypeInv, TypeOK
    <3>2. panel' = panel \/ Hears(call[c].body)
      BY AttemptChanges
    <3> DEFINE o == IF call[c].body = "success" THEN Target ELSE Source
    <3>3. o \in {Source, Target}
      OBVIOUS
    <3>4. panel' = panel \/ panel' = [owner |-> o, moving |-> FALSE]
      BY <3>2 DEF Hears
    <3> HIDE DEF o
    <3>5. [owner |-> o, moving |-> FALSE] \in [owner : {Source, Target}, moving : BOOLEAN]
      BY <3>3
    <3>6. QED  BY <3>1, <3>4, <3>5
  <2>2. QED  BY <1>1, <2>1, AttemptChanges, CallsTyped DEF TypeInv, TypeOK
<1>3. ASSUME NEW q \in Pushes PROVE WireOK(q)'
  BY AttemptChanges DEF TypeInv, WireOK, Handling
<1>4. ASSUME NEW q \in Pushes PROVE ReportOK(q)'
  <2>1. ASSUME NEW d \in Callers, Trying(d)'
        PROVE  Trying(d) /\ call'[d].body = call[d].body
    BY <2>1, AttemptChanges DEF Trying
  <2>2. recv' = recv
    BY AttemptChanges
  <2>3. QED  BY <2>1, <2>2, TwoCallers DEF TypeInv, ReportOK
<1>5. QED  BY <1>1, <1>2, <1>3, <1>4 DEF TypeInv

\* The panel moves the server on a report of success only: the push is alone, and
\* the archive it has verified is all there.
LEMMA AttemptKeeps ==
    ASSUME TransferInv, TypeInv', NEW c \in Callers, Attempt(c)
    PROVE  TransferInv' /\ Handed
<1> USE DEF sourceVars, wireVars, targetVars
<1>0. /\ panel' = panel \/ (panel.moving /\ Hears(call[c].body))
      /\ UNCHANGED <<sourceVars, wireVars, targetVars, unheard>>
      /\ Trying(c)
  BY AttemptChanges DEF TransferInv
<1>1. Alone'
  BY <1>0 DEF TransferInv, Alone, Live, Underway, Handling
<1>2. ASSUME NEW q \in Pushes PROVE WholeOK(q)'
  <2>1. panel'.moving => panel.moving
    BY <1>0 DEF Hears
  <2>2. QED  BY <1>0, <2>1 DEF TransferInv, WholeOK, Handling
<1>3. CASE panel' = panel
  <2>1. MovedOK' /\ Handed
    BY <1>0, <1>3 DEF TransferInv, MovedOK, Underway, Handling, Handed
  <2>2. QED  BY <1>1, <1>2, <2>1 DEF TransferInv
<1>4. CASE panel.moving /\ call[c].body # "success" /\ Hears(call[c].body)
  <2>1. panel.owner = Source /\ panel'.owner = Source /\ ~panel'.moving /\ ~gone
    BY <1>4 DEF Hears, TransferInv, TypeInv, TypeOK, MovedOK, Source, Target
  <2>2. MovedOK' /\ Handed
    BY <1>0, <2>1 DEF TypeInv, TransferInv, TypeOK, MovedOK, Handed, Source, Target
  <2>3. QED  BY <1>1, <1>2, <2>2 DEF TransferInv
<1>5. CASE panel.moving /\ call[c].body = "success" /\ Hears(call[c].body)
  <2>1. panel.owner = Source /\ panel'.owner = Target /\ ~panel'.moving
    BY <1>5 DEF Hears, TransferInv, MovedOK
  <2>2. PICK p \in Pushes : c = <<p, Source>> \/ c = <<p, Target>>
    BY TwoCallers
  <2>3. recv[p] = "reportSuccess"
    BY <1>0, <1>5, <2>2 DEF TransferInv, TypeInv, ReportOK
  <2>4. files = "whole"
    BY <1>5, <2>3 DEF TransferInv, TypeInv, WireOK, WholeOK, Handling
  <2>5. Live(p) /\ ~Underway(p)
    BY <2>3 DEF TransferInv, TypeInv, WireOK, Live, Underway, Handling
  <2>6. wiping = {} /\ \A q \in Pushes : Live(q) => q = p
    BY <2>5 DEF TransferInv, Alone
  <2>7. \A q \in Pushes : ~Underway(q) /\ (Handling(q) => recv[q] = "reportSuccess")
    BY <2>3, <2>5, <2>6 DEF Live
  <2>8. \A q \in Pushes : Underway(q)' = Underway(q) /\ Handling(q)' = Handling(q)
    BY <1>0 DEF Underway, Handling
  <2>9. MovedOK'
    BY <1>0, <2>1, <2>4, <2>6, <2>7, <2>8 DEF MovedOK
  <2>10. Handed
    BY <1>0, <2>1, <2>4 DEF Handed
  <2>11. QED  BY <1>1, <1>2, <2>9, <2>10 DEF TransferInv
<1>6. QED  BY <1>0, <1>3, <1>4, <1>5
------------------------------------------------------------------------------
LEMMA Init0 == Init => TransferInv
<1> SUFFICES ASSUME Init PROVE TransferInv
  OBVIOUS
<1> USE TransferAssumption, PanelClientAssumption DEF Init, CallInit, NoCall
<1>1. CallsOK
  BY DEF CallsOK, CallTypeOK, Trying
<1>2. TypeOK
  <2>1. has \in [Pushes -> [archive : BOOLEAN, verified : BOOLEAN]]
    OBVIOUS
  <2>2. panel \in [owner : {Source, Target}, moving : BOOLEAN]
    OBVIOUS
  <2>3. faults \in 0 .. MaxFaults /\ cancels \in 0 .. MaxCancels
    OBVIOUS
  <2>4. intact \in [Pushes -> BOOLEAN]
    OBVIOUS
  <2>5. QED  BY <1>1, <2>1, <2>2, <2>3, <2>4 DEF TypeOK, CallsOK, NoPush
<1>3. ASSUME NEW q \in Pushes PROVE WireOK(q) /\ WholeOK(q)
  BY DEF WireOK, WholeOK, Handling
<1>4. ASSUME NEW q \in Pushes PROVE ReportOK(q)
  BY TwoCallers DEF ReportOK, Trying
<1>5. Alone /\ MovedOK
  BY DEF Alone, Live, Underway, Handling, MovedOK, Source, Target
<1>6. QED  BY <1>1, <1>2, <1>3, <1>4, <1>5 DEF TransferInv, TypeInv

LEMMA StutterKeeps ==
    /\ TypeInv /\ UNCHANGED vars => TypeInv'
    /\ TransferInv /\ UNCHANGED vars => TransferInv' /\ Handed
<1> USE DEF vars, sourceVars, wireVars, targetVars, limits, TypeInv
<1>1. ASSUME TypeInv, UNCHANGED vars PROVE TypeInv'
  BY <1>1 DEF TypeOK, CallsOK, CallTypeOK, Trying, WireOK, ReportOK, Handling
<1>2. ASSUME TransferInv, UNCHANGED vars PROVE Alone' /\ MovedOK' /\ Handed
  BY <1>2 DEF TransferInv, Alone, MovedOK, Live, Underway, Handling, Handed
<1>3. ASSUME TransferInv, UNCHANGED vars PROVE \A p \in Pushes : WholeOK(p)'
  BY <1>3 DEF TransferInv, WholeOK, Handling
<1>4. QED  BY <1>1, <1>2, <1>3 DEF TransferInv

LEMMA TypesInductive == TypeInv /\ [Next]_vars => TypeInv'
<1> SUFFICES ASSUME TypeInv, [Next]_vars PROVE TypeInv'
  OBVIOUS
<1>1. ASSUME NEW p \in Pushes, Ask(p) \/ SourceStep(p) PROVE TypeInv'
  BY <1>1, AskTypes, CheckTransferringTypes, SetTransferringTypes, WaitForStopTypes, ConnectTypes,
     StreamTypes, ResponseTypes, NotifyPanelOfFailureTypes, FailureNotifiedTypes DEF SourceStep
<1>2. ASSUME NEW p \in Pushes, TargetStep(p) PROVE TypeInv'
  BY <1>2, ArriveTypes, CreateTypes, NextPartTypes, ExtractTypes, ExtractFailsTypes, ChecksumTypes,
     CompleteTypes, DeferredTypes, ReportedTypes, WipeTypes DEF TargetStep
<1>3. ASSUME NEW p \in Pushes, Failure(p) \/ CancelPush(p) PROVE TypeInv'
  BY <1>3, StopFailsTypes, StreamFailsTypes, CutTypes, GarbleTypes, ArriveFailsTypes,
     CancelPushTypes DEF Failure
<1>4. ASSUME NEW c \in Callers, Attempt(c) PROVE TypeInv'
  BY <1>4, AttemptTypes
<1>5. CASE DropSource \/ ResetTarget \/ CancelIncoming
  BY <1>5, DropSourceTypes, ResetTargetTypes, CancelIncomingTypes
<1>6. CASE Over \/ UNCHANGED vars
  BY <1>6, StutterKeeps DEF Over
<1>7. QED  BY <1>1, <1>2, <1>3, <1>4, <1>5, <1>6 DEF Next

LEMMA Inductive ==
    ASSUME ~Overlap, TransferInv, [Next]_vars
    PROVE  TransferInv' /\ Handed
<1>0. TypeInv'
  BY TypesInductive DEF TransferInv
<1> DEFINE Goal == TransferInv' /\ Handed
<1>1. ASSUME NEW p \in Pushes, Ask(p) \/ SourceStep(p) PROVE Goal
  BY <1>0, <1>1, AskKeeps, CheckTransferringKeeps, SetTransferringKeeps, WaitForStopKeeps,
     ConnectKeeps, StreamKeeps, ResponseKeeps, NotifyPanelOfFailureKeeps, FailureNotifiedKeeps
     DEF SourceStep
<1>2. ASSUME NEW p \in Pushes, TargetStep(p) PROVE Goal
  BY <1>0, <1>2, ArriveKeeps, CreateKeeps, NextPartKeeps, ExtractKeeps, ExtractFailsKeeps,
     ChecksumKeeps, CompleteKeeps, DeferredKeeps, ReportedKeeps, WipeKeeps DEF TargetStep
<1>3. ASSUME NEW p \in Pushes, Failure(p) \/ CancelPush(p) PROVE Goal
  BY <1>0, <1>3, StopFailsKeeps, StreamFailsKeeps, CutKeeps, GarbleKeeps, ArriveFailsKeeps,
     CancelPushKeeps DEF Failure
<1>4. ASSUME NEW c \in Callers, Attempt(c) PROVE Goal
  BY <1>0, <1>4, AttemptKeeps
<1>5. CASE DropSource \/ ResetTarget \/ CancelIncoming
  BY <1>0, <1>5, DropSourceKeeps, ResetTargetKeeps, CancelIncomingKeeps
<1>6. CASE Over \/ UNCHANGED vars
  BY <1>6, StutterKeeps DEF Over
<1>7. QED  BY <1>1, <1>2, <1>3, <1>4, <1>5, <1>6 DEF Next
------------------------------------------------------------------------------
\* The variables keep their types, with or without overlapping transfers: no
\* handler deletes the files of a transfer it does not have (postTransfers), and
\* no report is attempted more often than the backoff allows.
THEOREM TypeCorrect == Spec => []TypeOK
<1>1. Init => TypeInv
  BY Init0 DEF TransferInv
<1>2. TypeInv => TypeOK
  BY DEF TypeInv
<1>3. QED  BY <1>1, <1>2, TypesInductive, PTL DEF Spec

\* The invariant of transfers that come one after the other.
THEOREM Invariance == ASSUME ~Overlap PROVE Spec => []TransferInv
<1>1. TransferInv /\ [Next]_vars => TransferInv'
  BY Inductive
<1>2. QED  BY <1>1, Init0, PTL DEF Spec

\* A step that is allowed by Handed is a step of the handover.
LEMMA HandedIsHandover ==
    ASSUME TypeOK, TypeOK', MovedOK, Handed
    PROVE  [H!Next]_<<panel.owner, copies>>
<1>1. copies = (IF gone THEN {} ELSE {Source}) \cup (IF files = "whole" THEN {Target} ELSE {})
  BY DEF copies, Source, Target
<1>2. copies' = (IF gone' THEN {} ELSE {Source}) \cup (IF files' = "whole" THEN {Target} ELSE {})
  BY DEF copies, Source, Target
<1>3. panel.owner \in {Source, Target} /\ panel'.owner \in {Source, Target} /\ Source # Target
  BY DEF TypeOK, Source, Target
<1>4. CASE panel'.owner # panel.owner
  <2>1. H!Move
    BY <1>1, <1>2, <1>3, <1>4 DEF H!Move, Handed
  <2>2. QED  BY <2>1 DEF H!Next
<1>5. CASE panel'.owner = panel.owner /\ gone' # gone
  <2>1. H!Release
    BY <1>1, <1>2, <1>3, <1>5 DEF H!Release, Handed, TypeOK
  <2>2. QED  BY <2>1 DEF H!Next
<1>6. CASE panel'.owner = panel.owner /\ gone' = gone /\ files' # files
  <2>1. panel.owner = Source
    BY <1>6 DEF Handed
  <2>2. H!Receive \/ H!Forget
    BY <1>1, <1>2, <1>3, <1>6, <2>1 DEF H!Receive, H!Forget
  <2>3. QED  BY <2>2 DEF H!Next
<1>7. CASE panel'.owner = panel.owner /\ gone' = gone /\ files' = files
  BY <1>1, <1>2, <1>7
<1>8. QED  BY <1>4, <1>5, <1>6, <1>7

\* Transfers that come one after the other, any number of them, are a handover:
\* the node that the panel has for the server holds all of its files at every
\* moment (postTransfers, notifyPanelOfFailure), whatever is cut, garbled,
\* cancelled or lost.
THEOREM TransferIsHandover == ASSUME ~Overlap PROVE Spec => ImplementsHandover
<1>1. Init => H!Init
  BY DEF Init, H!Init, copies, Source, Target
<1>2. TransferInv /\ TransferInv' /\ [Next]_vars => [H!Next]_<<panel.owner, copies>>
  BY Inductive, HandedIsHandover DEF TransferInv, TypeInv
<1>3. QED  BY <1>1, <1>2, Invariance, PTL DEF Spec, ImplementsHandover, H!Spec

\* As long as transfers come one after the other, only the files of a failed one
\* are deleted, as the comment in the deferred function of postTransfers says.
THEOREM SerialOnlyFailedDeleted == ASSUME ~Overlap PROVE Spec => []OnlyFailedDeleted
<1>1. TransferInv => OnlyFailedDeleted
  BY DEF TransferInv, TypeInv, TypeOK, MovedOK, OnlyFailedDeleted
<1>2. QED  BY <1>1, Invariance, PTL
==============================================================================
