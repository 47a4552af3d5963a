------------------------------ MODULE Transfer -------------------------------
(***************************************************************************)
(* The transfer of a server to another node: the request at the source     *)
(* (router/router_server_transfer.go), the push of the archive             *)
(* (server/transfer/source.go), the handler at the target                  *)
(* (router/router_transfer.go) and the reports of both to the panel, which *)
(* moves the server to the target on success and then deletes it at the    *)
(* source. Connections are cut, bytes are garbled, answers of the panel    *)
(* are lost, users cancel on both sides.                                   *)
(***************************************************************************)
EXTENDS PanelClient, FiniteSets

CONSTANTS
    Pushes,      \* transfers that the panel asks for
    Overlap,     \* may one begin before the target is done with another?
    MaxFaults,   \* bound on failures
    MaxCancels   \* bound on cancellations

Source == "source"
Target == "target"

ASSUME TransferAssumption ==
    /\ Overlap \in BOOLEAN /\ MaxFaults \in Nat /\ MaxCancels \in Nat
    /\ Callers = Pushes \X {Source, Target}
    /\ Bodies = {"success", "failure"}

VARIABLES
    panel,       \* the node of the server; is a transfer going on?
    flag,        \* the transferring flag of the source's server
    gone,        \* has the source deleted the server?
    push,        \* the goroutine of a push at the source
    link,        \* what the connection of a push has carried
    intact,      \* the archive of a push arrives as it was sent
    stopped,     \* pushes whose context at the source is cancelled
    recv,        \* the handler of a push at the target
    has,         \* hasArchive, and checksumVerified, of a handler
    incoming,    \* transfer.Incoming(): the push that created the transfer
    of,          \* the transfer that a handler uses
    aborted,     \* transfers whose context is cancelled at the target
    managed,     \* server instances in the target's manager
    held,        \* server instances with the transferring flag
    closed,      \* server instances whose files have been deleted
    files,       \* the server's files at the target
    wiping,      \* transfers whose files a goroutine deletes
    unheard,     \* history: pushes whose report of success the target takes for failed
    faults,
    cancels

sourceVars == <<flag, gone, push, stopped>>
wireVars == <<link, intact>>
targetVars == <<recv, has, incoming, of, aborted, managed, held, closed, files, wiping>>
limits == <<faults, cancels>>
vars == <<panel, sourceVars, wireVars, targetVars, call, unheard, limits>>

NoPush == "none"

Init ==
    /\ panel = [owner |-> Source, moving |-> FALSE]
    /\ flag = FALSE /\ gone = FALSE
    /\ push = [p \in Pushes |-> "idle"] /\ stopped = {}
    /\ link = [p \in Pushes |-> "none"] /\ intact = [p \in Pushes |-> TRUE]
    /\ recv = [p \in Pushes |-> "none"]
    /\ has = [p \in Pushes |-> [archive |-> FALSE, verified |-> FALSE]]
    /\ incoming = NoPush /\ of = [p \in Pushes |-> NoPush] /\ aborted = {}
    /\ managed = {} /\ held = {} /\ closed = {} /\ files = "none" /\ wiping = {}
    /\ CallInit /\ unheard = {} /\ faults = 0 /\ cancels = 0

TypeOK ==
    /\ panel \in [owner : {Source, Target}, moving : BOOLEAN]
    /\ flag \in BOOLEAN /\ gone \in BOOLEAN
    /\ push \in [Pushes -> {"idle", "asked", "checked", "stopping", "archive", "streaming",
                            "failing", "reporting", "ended"}]
    /\ link \in [Pushes -> {"none", "open", "archive", "checksum", "short", "cut"}]
    /\ intact \in [Pushes -> BOOLEAN] /\ stopped \subseteq Pushes
    /\ recv \in [Pushes -> {"none", "new", "parts", "extract", "check", "failed", "successful",
                            "reportFailure", "reportSuccess", "refused", "accepted"}]
    /\ has \in [Pushes -> [archive : BOOLEAN, verified : BOOLEAN]]
    /\ incoming \in Pushes \cup {NoPush} /\ of \in [Pushes -> Pushes \cup {NoPush}]
    /\ aborted \subseteq Pushes /\ managed \subseteq Pushes /\ held \subseteq Pushes
    /\ closed \subseteq Pushes /\ wiping \subseteq Pushes /\ unheard \subseteq Pushes
    /\ files \in {"none", "part", "whole"}
    /\ CallTypeOK
    /\ faults \in 0 .. MaxFaults /\ cancels \in 0 .. MaxCancels
Fault == faults < MaxFaults /\ faults' = faults + 1 /\ UNCHANGED cancels
Handling(p) == recv[p] \notin {"none", "refused", "accepted"}
\* A push that has begun and that the target has not met yet.
Underway(p) ==
    \/ push[p] \in {"asked", "checked", "stopping", "archive"}
    \/ push[p] = "streaming" /\ recv[p] = "none"
GoesTo(p, pc) == push' = [push EXCEPT ![p] = pc]
Receives(p, pc) == recv' = [recv EXCEPT ![p] = pc]

\* Incoming(): the transfers are kept by the id of their server.
Get == incoming
Add(t) == incoming' = t
Remove == incoming' = NoPush
------------------------------------------------------------------------------
\* The panel (external).

\* It asks the source to transfer the server.
Ask(p) ==
    /\ panel.owner = Source /\ ~panel.moving /\ push[p] = "idle"
    /\ Overlap \/ (wiping = {} /\ \A q \in Pushes : ~Underway(q) /\ ~Handling(q))
    /\ panel' = [panel EXCEPT !.moving = TRUE]
    /\ GoesTo(p, "asked")
    /\ UNCHANGED <<flag, gone, stopped, wireVars, targetVars, call, unheard, limits>>

\* It counts the first report about a transfer.
Hears(body) ==
    panel' = IF panel.moving
             THEN [owner |-> IF body = "success" THEN Target ELSE Source, moving |-> FALSE]
             ELSE panel

\* An attempt to report: refused when no transfer is going on.
Attempt(c) ==
    /\ \E outcome \in IF panel.moving THEN {"ok", "lost", "down"} ELSE {"refused", "down"} :
         /\ IF outcome \in {"lost", "down"} THEN Fault ELSE UNCHANGED limits
         /\ RequestOnce(c, outcome)
         /\ IF Processed(outcome) THEN Hears(call[c].body) ELSE UNCHANGED panel
    /\ UNCHANGED <<sourceVars, wireVars, targetVars, unheard>>

\* After a success it deletes the server at the source (deleteServer).
DropSource ==
    /\ panel.owner = Target /\ ~gone
    /\ gone' = TRUE
    /\ UNCHANGED <<panel, flag, push, stopped, wireVars, targetVars, call, unheard, limits>>

\* After a failure it may delete what the target has of the server.
ResetTarget ==
    /\ panel.owner = Source /\ ~panel.moving /\ managed # {}
    /\ closed' = closed \cup managed
    /\ managed' = {} /\ files' = "none"
    /\ UNCHANGED <<panel, sourceVars, wireVars, recv, has, incoming, of, aborted, held, wiping,
                   call, unheard, limits>>
------------------------------------------------------------------------------
\* The source: postServerTransfer, then a goroutine for the push.

\* IsTransferring: the panel learns from the answer that there is no transfer.
CheckTransferring(p) ==
    /\ push[p] = "asked"
    /\ GoesTo(p, IF flag THEN "ended" ELSE "checked")
    /\ panel' = IF flag THEN [panel EXCEPT !.moving = FALSE] ELSE panel
    /\ UNCHANGED <<flag, gone, stopped, wireVars, targetVars, call, unheard, limits>>

SetTransferring(p) ==
    /\ push[p] = "checked"
    /\ flag' = TRUE /\ GoesTo(p, "stopping")
    /\ UNCHANGED <<panel, gone, stopped, wireVars, targetVars, call, unheard, limits>>

\* The server is offline, or WaitForStop succeeds; Outgoing().Add.
WaitForStop(p) ==
    /\ push[p] = "stopping"
    /\ GoesTo(p, "archive")
    /\ UNCHANGED <<panel, flag, gone, stopped, wireVars, targetVars, call, unheard, limits>>

\* It does not stop in time: the request fails, which the panel sees.
StopFails(p) ==
    /\ push[p] = "stopping" /\ Fault
    /\ flag' = FALSE /\ GoesTo(p, "ended")
    /\ panel' = [panel EXCEPT !.moving = FALSE]
    /\ UNCHANGED <<gone, stopped, wireVars, targetVars, call, unheard>>

\* PushArchiveToTarget: the archive is opened and the request is sent.
Connect(p) ==
    /\ push[p] = "archive"
    /\ \/ GoesTo(p, "streaming") /\ link' = [link EXCEPT ![p] = "open"] /\ UNCHANGED limits
       \/ GoesTo(p, "failing") /\ Fault /\ UNCHANGED link
    /\ UNCHANGED <<panel, flag, gone, stopped, intact, targetVars, call, unheard>>

\* The producer writes the archive, then the checksum of what it has written.
Stream(p) ==
    /\ push[p] = "streaming" /\ link[p] \in {"open", "archive"} /\ p \notin stopped
    /\ link' = [link EXCEPT ![p] = IF @ = "open" THEN "archive" ELSE "checksum"]
    /\ UNCHANGED <<panel, sourceVars, intact, targetVars, call, unheard, limits>>

\* The files cannot be read: the writers are closed on the way out, which ends
\* the archive and the body properly, without a checksum.
StreamFails(p) ==
    /\ push[p] = "streaming" /\ link[p] = "open" /\ Fault
    /\ link' = [link EXCEPT ![p] = "short"]
    /\ UNCHANGED <<panel, sourceVars, intact, targetVars, call, unheard>>

\* Mutant: a cancelled push is not reported.
QuietResponse(p) ==
    /\ push[p] = "streaming"
    /\ \/ recv[p] = "accepted" /\ link[p] # "cut" /\ GoesTo(p, "ended") /\ UNCHANGED link
       \/ recv[p] = "refused" /\ GoesTo(p, "failing") /\ UNCHANGED link
       \/ /\ p \in stopped \/ link[p] = "cut"
          /\ GoesTo(p, IF p \in stopped THEN "ended" ELSE "failing")
          /\ link' = [link EXCEPT ![p] = "cut"]
    /\ UNCHANGED <<panel, flag, gone, stopped, intact, targetVars, call, unheard, limits>>

\* The answer of the target, or the error of a request that is cut or cancelled.
\* A cancelled request may still find a good answer.
Response(p) ==
    /\ push[p] = "streaming"
    /\ \/ recv[p] = "accepted" /\ link[p] # "cut" /\ GoesTo(p, "ended") /\ UNCHANGED link
       \/ recv[p] = "refused" /\ GoesTo(p, "failing") /\ UNCHANGED link
       \/ /\ p \in stopped \/ link[p] = "cut"
          /\ GoesTo(p, "failing")
          /\ link' = [link EXCEPT ![p] = "cut"]
    /\ UNCHANGED <<panel, flag, gone, stopped, intact, targetVars, call, unheard, limits>>

\* notifyPanelOfFailure.
NotifyPanelOfFailure(p) ==
    /\ push[p] = "failing"
    /\ Request(<<p, Source>>, "failure") /\ GoesTo(p, "reporting")
    /\ UNCHANGED <<panel, flag, gone, stopped, wireVars, targetVars, unheard, limits>>

FailureNotified(p) ==
    /\ push[p] = "reporting"
    /\ \E result \in {"done", "failed"} : Returns(<<p, Source>>, result)
    /\ flag' = FALSE /\ GoesTo(p, "ended")
    /\ UNCHANGED <<panel, gone, stopped, wireVars, targetVars, unheard, limits>>

\* deleteServerTransfer: Outgoing().Get(id).Cancel().
CancelPush(p) ==
    /\ cancels < MaxCancels /\ cancels' = cancels + 1 /\ UNCHANGED faults
    /\ flag /\ push[p] \in {"archive", "streaming", "failing", "reporting"} /\ p \notin stopped
    /\ stopped' = stopped \cup {p}
    /\ UNCHANGED <<panel, flag, gone, push, wireVars, targetVars, call, unheard>>
------------------------------------------------------------------------------
\* The connection.

Cut(p) ==
    /\ link[p] \notin {"none", "cut"} /\ push[p] = "streaming" /\ Fault
    /\ link' = [link EXCEPT ![p] = "cut"]
    /\ UNCHANGED <<panel, sourceVars, intact, targetVars, call, unheard>>

Garble(p) ==
    /\ link[p] = "open" /\ intact[p] /\ Fault
    /\ intact' = [intact EXCEPT ![p] = FALSE]
    /\ UNCHANGED <<panel, sourceVars, link, targetVars, call, unheard>>
------------------------------------------------------------------------------
\* The target: postTransfers.

\* A handler joins the transfer that Incoming() has for the server, or finds none.
Arrive(p) ==
    /\ recv[p] = "none" /\ link[p] \notin {"none", "cut"}
    /\ IF Get = NoPush
       THEN Receives(p, "new") /\ UNCHANGED of
       ELSE Receives(p, "parts") /\ of' = [of EXCEPT ![p] = Get]
    /\ UNCHANGED <<panel, sourceVars, wireVars, has, incoming, aborted, managed, held, closed,
                   files, wiping, call, unheard, limits>>

\* installer.New has asked the panel for the server, which may take its time and
\* is not under a lock: the server is added with the flag set, then the transfer.
Create(p) ==
    /\ recv[p] = "new"
    /\ Receives(p, "parts")
    /\ of' = [of EXCEPT ![p] = p] /\ Add(p)
    /\ held' = held \cup {p} /\ managed' = managed \cup {p}
    /\ UNCHANGED <<panel, sourceVars, wireVars, has, aborted, closed, files, wiping,
                   call, unheard, limits>>

\* The token is refused, or installer.New fails, whose error path panics (the
\* transfer has no server yet) and reports nothing.
ArriveFails(p) ==
    /\ \/ recv[p] = "none" /\ link[p] \notin {"none", "cut"}
       \/ recv[p] = "new"
    /\ Fault
    /\ Receives(p, "refused")
    /\ UNCHANGED <<panel, sourceVars, wireVars, has, incoming, of, aborted, managed, held, closed,
                   files, wiping, call, unheard>>

Aborted(p) == of[p] \in aborted

\* The loop: the context is cancelled, the body has ended or broken, or there is
\* another part.
NextPart(p) ==
    /\ recv[p] = "parts"
    /\ CASE Aborted(p) -> Receives(p, "check") /\ UNCHANGED files
         [] ~Aborted(p) /\ link[p] = "cut" -> Receives(p, "failed") /\ UNCHANGED files
         [] ~Aborted(p) /\ link[p] # "cut" /\ ~has[p].archive ->
              /\ Receives(p, IF of[p] \in closed THEN "failed" ELSE "extract")
              /\ files' = IF of[p] \in closed THEN files ELSE "part"
         [] ~Aborted(p) /\ link[p] = "short" /\ has[p].archive ->
              Receives(p, "check") /\ UNCHANGED files
         [] OTHER -> FALSE
    /\ UNCHANGED <<panel, sourceVars, wireVars, has, incoming, of, aborted, managed, held, closed,
                   wiping, call, unheard, limits>>

\* Does another handler write to the same directory?
Shared(p) == \E q \in Pushes \ {p} : recv[q] = "extract"

\* ExtractStreamUnsafe reads the archive to its end. One that was ended early
\* is a good archive, of some of the files.
Extract(p) ==
    /\ recv[p] = "extract" /\ link[p] \in {"archive", "checksum", "short"}
    /\ ~Aborted(p) /\ of[p] \notin closed
    /\ files' \in IF link[p] = "short" \/ ~intact[p] THEN {"part"}
                  ELSE IF Shared(p) THEN {"part", "whole"} ELSE {"whole"}
    /\ has' = [has EXCEPT ![p].archive = TRUE]
    /\ Receives(p, "parts")
    /\ UNCHANGED <<panel, sourceVars, wireVars, incoming, of, aborted, managed, held, closed,
                   wiping, call, unheard, limits>>

ExtractFails(p) ==
    /\ recv[p] = "extract"
    /\ \/ (link[p] = "cut" \/ Aborted(p) \/ of[p] \in closed \/ ~intact[p]) /\ UNCHANGED limits
       \/ Fault
    /\ Receives(p, "failed")
    /\ UNCHANGED <<panel, sourceVars, wireVars, has, incoming, of, aborted, managed, held, closed,
                   files, wiping, call, unheard>>

\* Mutant: the checksums are not compared.
ChecksumUnread(p) ==
    /\ recv[p] = "parts" /\ has[p].archive /\ link[p] = "checksum" /\ ~Aborted(p)
    /\ has' = [has EXCEPT ![p].verified = TRUE] /\ Receives(p, "check")
    /\ UNCHANGED <<panel, sourceVars, wireVars, incoming, of, aborted, managed, held, closed,
                   files, wiping, call, unheard, limits>>

\* The checksum part; the body ends after it.
Checksum(p) ==
    /\ recv[p] = "parts" /\ has[p].archive /\ link[p] = "checksum" /\ ~Aborted(p)
    /\ IF intact[p]
       THEN has' = [has EXCEPT ![p].verified = TRUE] /\ Receives(p, "check")
       ELSE Receives(p, "failed") /\ UNCHANGED has
    /\ UNCHANGED <<panel, sourceVars, wireVars, incoming, of, aborted, managed, held, closed,
                   files, wiping, call, unheard, limits>>

\* After the loop: both parts must have come; then CreateEnvironment.
Complete(p) ==
    /\ recv[p] = "check"
    /\ \/ /\ has[p].archive /\ has[p].verified
          /\ Receives(p, "successful") /\ UNCHANGED limits
       \/ /\ ~(has[p].archive /\ has[p].verified)
          /\ Receives(p, "failed") /\ UNCHANGED limits
       \/ Receives(p, "failed") /\ Fault
    /\ UNCHANGED <<panel, sourceVars, wireVars, has, incoming, of, aborted, managed, held, closed,
                   files, wiping, call, unheard>>

\* The deferred function: Incoming().Remove by the server's id, and after a
\* failure manager.Remove of every instance with this id; then the report.
Deferred(p) ==
    /\ recv[p] \in {"failed", "successful"}
    /\ Remove
    /\ managed' = IF recv[p] = "failed" THEN {} ELSE managed
    /\ IF recv[p] = "failed"
       THEN Receives(p, "reportFailure") /\ Request(<<p, Target>>, "failure")
       ELSE Receives(p, "reportSuccess") /\ Request(<<p, Target>>, "success")
    /\ UNCHANGED <<panel, sourceVars, wireVars, has, of, aborted, held, closed, files, wiping,
                   unheard, limits>>

\* Mutant: the files go when the report fails, whatever the transfer did.
ReportedWiping(p) ==
    /\ recv[p] \in {"reportFailure", "reportSuccess"}
    /\ \E result \in {"done", "failed"} :
         /\ Returns(<<p, Target>>, result)
         /\ unheard' = IF result = "failed" /\ recv[p] = "reportSuccess"
                       THEN unheard \cup {p} ELSE unheard
         /\ held' = IF result = "done" THEN held \ {of[p]} ELSE held
         /\ wiping' = IF result = "failed" THEN wiping \cup {of[p]} ELSE wiping
    /\ Receives(p, IF recv[p] = "reportSuccess" THEN "accepted" ELSE "refused")
    /\ UNCHANGED <<panel, sourceVars, wireVars, has, incoming, of, aborted, managed, closed, files,
                   limits>>

\* The flag is cleared when the report went through. Otherwise it stays, and the
\* files of a failed transfer are deleted by a goroutine of their own.
Reported(p) ==
    /\ recv[p] \in {"reportFailure", "reportSuccess"}
    /\ \E result \in {"done", "failed"} :
         /\ Returns(<<p, Target>>, result)
         /\ unheard' = IF result = "failed" /\ recv[p] = "reportSuccess"
                       THEN unheard \cup {p} ELSE unheard
         /\ held' = IF result = "done" THEN held \ {of[p]} ELSE held
         /\ wiping' = IF result = "failed" /\ recv[p] = "reportFailure"
                      THEN wiping \cup {of[p]} ELSE wiping
    /\ Receives(p, IF recv[p] = "reportSuccess" THEN "accepted" ELSE "refused")
    /\ UNCHANGED <<panel, sourceVars, wireVars, has, incoming, of, aborted, managed, closed, files,
                   limits>>

Wipe(t) ==
    /\ t \in wiping
    /\ wiping' = wiping \ {t} /\ closed' = closed \cup {t} /\ files' = "none"
    /\ UNCHANGED <<panel, sourceVars, wireVars, recv, has, incoming, of, aborted, managed, held,
                   call, unheard, limits>>

\* deleteTransfer: Incoming().Get(id).Cancel().
CancelIncoming ==
    /\ cancels < MaxCancels /\ cancels' = cancels + 1 /\ UNCHANGED faults
    /\ Get # NoPush /\ Get \notin aborted
    /\ managed \cap held # {}
    /\ aborted' = aborted \cup {Get}
    /\ UNCHANGED <<panel, sourceVars, wireVars, recv, has, incoming, of, managed, held, closed,
                   files, wiping, call, unheard>>
------------------------------------------------------------------------------
SourceStep(p) ==
    \/ CheckTransferring(p) \/ SetTransferring(p) \/ WaitForStop(p) \/ Connect(p) \/ Stream(p)
    \/ Response(p) \/ NotifyPanelOfFailure(p) \/ FailureNotified(p)

TargetStep(p) ==
    \/ Arrive(p) \/ Create(p) \/ NextPart(p) \/ Extract(p) \/ ExtractFails(p) \/ Checksum(p)
    \/ Complete(p) \/ Deferred(p) \/ Reported(p) \/ Wipe(p)

Failure(p) == StopFails(p) \/ StreamFails(p) \/ Cut(p) \/ Garble(p) \/ ArriveFails(p)

\* Everything is over.
Over ==
    /\ \A p \in Pushes : push[p] \in {"idle", "ended"} /\ ~Handling(p)
    /\ UNCHANGED vars

Next ==
    \/ \E p \in Pushes : Ask(p) \/ SourceStep(p) \/ TargetStep(p) \/ Failure(p) \/ CancelPush(p)
    \/ \E c \in Callers : Attempt(c)
    \/ DropSource \/ ResetTarget \/ CancelIncoming \/ Over

Spec == Init /\ [][Next]_vars

\* The source waits for something that need not come: for the process to take the
\* stop command, which is written without a deadline, or for the target, with a
\* client that has no timeout. A cancellation ends the second wait, not the first.
Waits(p) ==
    \/ push[p] = "stopping"
    \/ push[p] = "streaming" /\ link[p] # "cut" /\ p \notin stopped

\* The source goes on unless it waits for the process or the target, its reports
\* end in an answer or an error, and the panel deletes the server at the source.
\* Nothing is assumed of the target, of users and of the network.
FairSpec ==
    /\ Spec
    /\ \A p \in Pushes :
         WF_vars(~Waits(p) /\ SourceStep(p)) /\ WF_vars(Attempt(<<p, Source>>))
    /\ WF_vars(DropSource)
------------------------------------------------------------------------------
\* A transfer is a handover (postTransfers, notifyPanelOfFailure): the node that
\* the panel has for the server holds all of its files at every moment, across
\* cuts, garbled archives, cancellations and lost reports.
copies == {n \in {Source, Target} : IF n = Source THEN ~gone ELSE files = "whole"}
H == INSTANCE Handover WITH owner <- panel.owner
ImplementsHandover == H!Spec

\* The transferring flag of the source, which blocks every power action, does not
\* stay up: it is cleared or the server is deleted (notifyPanelOfFailure and the
\* panel), however the push ends. It may stay up while the source waits for the
\* process or the target, and after a success that the panel did not hear of, or
\* refused because a late failure of an earlier push was counted for this one.
SourceUnblocked ==
    \/ []<>(~flag \/ gone)
    \/ <>[](\E p \in Pushes : Waits(p) \/ p \in unheard)

\* Only the files of a transfer that failed are deleted (the comment in the
\* deferred function of postTransfers): never those of a server that the panel
\* has moved to this node.
OnlyFailedDeleted == wiping # {} => panel.owner = Source
==============================================================================
