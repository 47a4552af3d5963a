------------------------------- MODULE Backup --------------------------------
(***************************************************************************)
(* The creation of backups (server/backup.go, server/backup, the archive   *)
(* in server/filesystem/backup_archive.go). A goroutine writes a zip file, *)
(* keeps it (local adapter) or uploads it in parts to URLs that the panel  *)
(* gives (S3 adapter), and reports the result to the panel. Meanwhile the  *)
(* backup can be deleted by request, the server can be deleted, and the    *)
(* daemon can crash. The panel and S3 are external.                        *)
(***************************************************************************)
EXTENDS PanelClient, Sequences

CONSTANTS
    Files,       \* bound on the files of an archive
    PartSize,    \* BackupRemoteUploadResponse.PartSize
    MaxPuts,     \* executions that the backoff of an upload allows
    MaxFaults    \* bound on failures

Backups == Callers

ASSUME BackupAssumption ==
    /\ Files \in Nat /\ PartSize \in Nat \ {0} /\ MaxPuts \in Nat \ {0} /\ MaxFaults \in Nat
    /\ Bodies = {"urls", "successful", "failed"}

VARIABLES
    pc,          \* the goroutine of a backup
    s3,          \* the backups that use the S3 adapter; the others are local
    entries,     \* the files that belong to an archive
    content,     \* what has been written of an archive: its files, then its end
    linked,      \* is there a file at the archive's path?
    put,         \* the upload: total size, place in the file, limit of the part, executions
    parts,       \* what S3 holds under each ETag of the upload: <<from, to>>
    listed,      \* what the panel says of a backup
    cancelled,   \* the context of the server
    crashed,     \* has the daemon been restarted?
    excused,     \* history: archives deleted, or without their end (see below)
    kept,        \* history: archives that could not be removed
    faults

files == <<linked, kept>>
local == <<pc, s3, entries, content, files>>
upload == <<put, parts>>
world == <<cancelled, crashed>>
vars == <<local, upload, call, listed, world, excused, faults>>

NoPut == [size |-> 0, pos |-> 0, left |-> 0, puts |-> 0]

\* A zip archive is whole when its central directory follows the files.
Whole(b) == entries[b] + 1

Init ==
    /\ pc = [b \in Backups |-> "idle"] /\ s3 = {} /\ entries = [b \in Backups |-> 0]
    /\ content = [b \in Backups |-> 0] /\ linked = [b \in Backups |-> FALSE]
    /\ put = [b \in Backups |-> NoPut] /\ parts = [b \in Backups |-> << >>]
    /\ CallInit /\ listed = [b \in Backups |-> "nothing"]
    /\ cancelled = FALSE /\ crashed = FALSE /\ excused = {} /\ kept = {} /\ faults = 0

\* The place and the limit of an upload stay within the archive.
InFile(b) ==
    /\ content[b] <= Whole(b) /\ put[b].size <= content[b]
    /\ put[b].pos + put[b].left <= put[b].size /\ put[b].puts <= MaxPuts

TypeOK ==
    /\ pc \in [Backups -> {"idle", "ignore", "open", "walk", "close", "size", "urls", "put",
                           "details", "report", "reportFailure", "ended"}]
    /\ s3 \subseteq Backups /\ entries \in [Backups -> 0 .. Files]
    /\ content \in [Backups -> Nat] /\ linked \in [Backups -> BOOLEAN]
    /\ put \in [Backups -> [size : Nat, pos : Nat, left : Nat, puts : Nat]]
    /\ parts \in [Backups -> Seq(Nat \X Nat)]
    /\ \A b \in Backups : InFile(b)
    /\ CallTypeOK
    /\ listed \in [Backups -> {"nothing", "successful", "failed"}]
    /\ cancelled \in BOOLEAN /\ crashed \in BOOLEAN
    /\ excused \subseteq Backups /\ kept \subseteq Backups /\ faults \in 0 .. MaxFaults

Fault == faults < MaxFaults /\ faults' = faults + 1
GoesTo(b, to) == pc' = [pc EXCEPT ![b] = to]
------------------------------------------------------------------------------
\* os.Remove. An error is dropped, or only answered, and leaves the file.
Remove(b) ==
    \/ linked' = [linked EXCEPT ![b] = FALSE] /\ UNCHANGED kept
    \/ linked[b] /\ kept' = kept \cup {b} /\ UNCHANGED linked

\* Mutant: the S3 adapter leaves its file where it is.
ReturnKeeping(b, body) ==
    /\ GoesTo(b, IF body = "successful" THEN "report" ELSE "reportFailure")
    /\ call' = [call EXCEPT ![b] = [pc |-> "trying", body |-> body, tries |-> 0]]
    /\ UNCHANGED files

\* Generate returns, and the result goes to the panel. The S3 adapter has
\* deferred the removal of its file; the local one also keeps a partial file.
Return(b, body) ==
    /\ GoesTo(b, IF body = "successful" THEN "report" ELSE "reportFailure")
    /\ call' = [call EXCEPT ![b] = [pc |-> "trying", body |-> body, tries |-> 0]]
    /\ IF b \in s3 THEN Remove(b) ELSE UNCHANGED files

GenerateFails(b) == Return(b, "failed")

\* A request to create a backup, with its adapter.
PostServerBackup(b) ==
    /\ pc[b] = "idle" /\ ~cancelled
    /\ s3' \in {s3, s3 \cup {b}}
    /\ GoesTo(b, "ignore")
    /\ UNCHANGED <<entries, content, files, upload, call, listed, world, excused, faults>>

\* The ignored files of the request, or those of .pteroignore. An error while
\* reading that file leaves the list empty.
Ignored(b) ==
    /\ pc[b] = "ignore"
    /\ \E n \in 0 .. Files : entries' = [entries EXCEPT ![b] = n]
    /\ GoesTo(b, "open")
    /\ UNCHANGED <<s3, content, files, upload, call, listed, world, excused, faults>>

\* Generate creates the file.
Open(b) ==
    /\ pc[b] = "open"
    /\ \/ /\ GoesTo(b, "walk") /\ linked' = [linked EXCEPT ![b] = TRUE]
          /\ UNCHANGED <<kept, call, faults>>
       \/ Fault /\ GenerateFails(b)
    /\ UNCHANGED <<s3, entries, content, upload, listed, world, excused>>

\* walkDirectory takes the next entry, if the context allows, and copies the file. One
\* that has vanished is left out; other errors end the walk. The copy need not end.
WalkDirectory(b) ==
    /\ pc[b] = "walk"
    /\ \/ /\ ~cancelled /\ content[b] < entries[b]
          /\ \/ content' = [content EXCEPT ![b] = @ + 1] /\ UNCHANGED entries
             \/ entries' = [entries EXCEPT ![b] = @ - 1] /\ UNCHANGED content
          /\ UNCHANGED <<pc, files, call, faults>>
       \/ /\ content[b] = entries[b] /\ GoesTo(b, "close")
          /\ UNCHANGED <<entries, content, files, call, faults>>
       \/ /\ content[b] < entries[b] /\ (IF cancelled THEN UNCHANGED faults ELSE Fault)
          /\ GenerateFails(b) /\ UNCHANGED <<entries, content>>
    /\ UNCHANGED <<s3, upload, listed, world, excused>>

\* The deferred Close of the zip writer, whose error is dropped.
Close(b) ==
    /\ pc[b] = "close"
    /\ GoesTo(b, IF b \in s3 THEN "size" ELSE "details")
    /\ \/ content' = [content EXCEPT ![b] = @ + 1] /\ UNCHANGED <<excused, faults>>
       \/ Fault /\ excused' = excused \cup {b} /\ UNCHANGED content
    /\ UNCHANGED <<s3, entries, files, upload, call, listed, world>>

\* Details: checksum and size of the file at the path.
Details(b) ==
    /\ pc[b] = "details"
    /\ \/ linked[b] /\ Return(b, "successful") /\ UNCHANGED faults
       \/ ~linked[b] /\ GenerateFails(b) /\ UNCHANGED faults
       \/ Fault /\ GenerateFails(b)
    /\ UNCHANGED <<s3, entries, content, upload, listed, world, excused>>
------------------------------------------------------------------------------
\* The S3 adapter: generateRemoteRequest.

\* The file is opened and measured; the panel is asked for the URLs.
Size(b) ==
    /\ pc[b] = "size"
    /\ \/ /\ linked[b] /\ GoesTo(b, "urls")
          /\ put' = [put EXCEPT ![b] = [NoPut EXCEPT !.size = content[b]]]
          /\ call' = [call EXCEPT ![b] = [pc |-> "trying", body |-> "urls", tries |-> 0]]
          /\ UNCHANGED <<files, faults>>
       \/ ~linked[b] /\ GenerateFails(b) /\ UNCHANGED <<put, faults>>
       \/ Fault /\ GenerateFails(b) /\ UNCHANGED put
    /\ UNCHANGED <<s3, entries, content, parts, listed, world, excused>>

\* The panel gives one URL for each PartSize that has begun.
Urls(size) == (size + PartSize - 1) \div PartSize

\* Mutant: the last part is taken to be as long as the whole archive.
PartLengthWhole(i, size) == IF i + 1 < Urls(size) THEN PartSize ELSE size

\* The length of part i, counted from zero.
PartLength(i, size) == IF i + 1 < Urls(size) THEN PartSize ELSE size - i * PartSize

\* The next part, over a LimitReader on the file; or the details.
NextPart(b, i, pos, size) ==
    IF i < Urls(size)
    THEN /\ GoesTo(b, "put")
         /\ put' = [put EXCEPT ![b] = [size |-> size, pos |-> pos, puts |-> 0,
                                       left |-> PartLength(i, size)]]
    ELSE /\ GoesTo(b, "details")
         /\ put' = [put EXCEPT ![b] = [size |-> size, pos |-> pos, puts |-> 0, left |-> 0]]

GetUrls(b) ==
    /\ pc[b] = "urls"
    /\ \/ Returns(b, "done") /\ NextPart(b, 0, 0, put[b].size) /\ UNCHANGED files
       \/ call[b].pc = "failed" /\ GenerateFails(b) /\ UNCHANGED put
    /\ UNCHANGED <<s3, entries, content, parts, listed, world, excused, faults>>

\* Mutant: the request does not say how long its body is.
AnyBody(b) == TRUE

\* The body is as long as the ContentLength of the request. It is not when an
\* earlier execution has read a part of it: the same reader is used again.
FullBody(b) == put[b].left = PartLength(Len(parts[b]), put[b].size)

\* An execution without an answer has read n of the body. The backoff repeats
\* it, or gives up: out of time, or the context is cancelled.
Unanswered(b, n) ==
    LET puts == put[b].puts + 1 IN
    \/ /\ puts < MaxPuts /\ ~cancelled
       /\ put' = [put EXCEPT ![b].pos = @ + n, ![b].left = @ - n, ![b].puts = puts]
       /\ UNCHANGED <<pc, files, call>>
    \/ GenerateFails(b) /\ UNCHANGED put

\* uploadPart: no connection, a connection that is cut, an answer that does not
\* arrive; a body that is too short; or an answer.
UploadPart(b) ==
    /\ pc[b] = "put"
    /\ \/ /\ IF cancelled THEN UNCHANGED faults ELSE Fault
          /\ \E n \in 0 .. put[b].left : Unanswered(b, n)
          /\ UNCHANGED parts
       \/ ~FullBody(b) /\ Unanswered(b, put[b].left) /\ UNCHANGED <<parts, faults>>
       \/ LET to == put[b].pos + put[b].left IN
          /\ FullBody(b) /\ ~cancelled
          /\ parts' = [parts EXCEPT ![b] = Append(@, <<put[b].pos, to>>)]
          /\ NextPart(b, Len(parts[b]) + 1, to, put[b].size)
          /\ UNCHANGED <<files, call, faults>>
       \/ Fault /\ GenerateFails(b) /\ UNCHANGED upload   \* another status, or no ETag
    /\ UNCHANGED <<s3, entries, content, listed, world, excused>>
------------------------------------------------------------------------------
\* An attempt of a request to the panel. The one for URLs has a context of its
\* own, the others have that of the server.
Attempt(b) ==
    LET dead == cancelled /\ call[b].body # "urls" IN
    /\ Trying(b)
    /\ \E outcome \in IF dead THEN {"lost", "down"} ELSE Outcomes :
         /\ IF outcome = "ok" \/ dead THEN UNCHANGED faults ELSE Fault
         /\ RequestOnce(b, outcome)
         /\ dead => call'[b].pc = "failed"
         /\ IF Processed(outcome) /\ call[b].body # "urls"
            THEN listed' = [listed EXCEPT ![b] = call[b].body]
            ELSE UNCHANGED listed
    /\ UNCHANGED <<local, upload, world, excused>>

\* Backup after its report. When the panel could not be told of a success the
\* archive is removed, also if only the answer of the panel was lost.
Reported(b) ==
    /\ pc[b] \in {"report", "reportFailure"}
    /\ \/ Returns(b, "done") /\ UNCHANGED <<files, excused>>
       \/ /\ Returns(b, "failed")
          /\ IF pc[b] = "report"
             THEN /\ Remove(b)
                  /\ excused' = IF b \in s3 \/ linked'[b] THEN excused ELSE excused \cup {b}
             ELSE UNCHANGED <<files, excused>>
    /\ GoesTo(b, "ended")
    /\ UNCHANGED <<s3, entries, content, upload, listed, world, faults>>

\* A request to delete a backup looks for its file, whatever made it.
DeleteServerBackup(b) ==
    /\ linked[b]
    /\ Remove(b)
    /\ excused' = IF b \in s3 \/ linked'[b] THEN excused ELSE excused \cup {b}
    /\ UNCHANGED <<pc, s3, entries, content, upload, call, listed, world, faults>>

\* The server is deleted.
CtxCancel ==
    /\ ~cancelled /\ cancelled' = TRUE
    /\ UNCHANGED <<local, upload, call, listed, crashed, excused, faults>>

\* The daemon crashes: nothing deferred is run.
Crash ==
    /\ ~crashed /\ crashed' = TRUE
    /\ pc' = [b \in Backups |-> IF pc[b] = "idle" THEN "idle" ELSE "ended"]
    /\ call' = [b \in Backups |-> NoCall]
    /\ UNCHANGED <<s3, entries, content, files, upload, listed, cancelled, excused, faults>>

Step(b) ==
    \/ Ignored(b) \/ Open(b) \/ WalkDirectory(b) \/ Close(b) \/ Details(b)
    \/ Size(b) \/ GetUrls(b) \/ UploadPart(b) \/ Attempt(b) \/ Reported(b)

\* No backup is going on, and none can be asked for.
Quiet ==
    /\ \A b \in Backups : pc[b] = "ended" \/ (pc[b] = "idle" /\ cancelled)
    /\ UNCHANGED vars

Next ==
    \/ \E b \in Backups : PostServerBackup(b) \/ Step(b) \/ DeleteServerBackup(b)
    \/ CtxCancel \/ Crash \/ Quiet

Spec == Init /\ [][Next]_vars

\* There are entries left to copy: os.Open waits for ever at a named pipe, and looks
\* at no context.
Copying(b) == pc[b] = "walk" /\ content[b] < entries[b]

\* A goroutine goes on, except in such a copy; the attempts of both backoffs are
\* limited in time.
FairSpec == Spec /\ \A b \in Backups : WF_vars(~Copying(b) /\ Step(b))
------------------------------------------------------------------------------
\* The parts of an upload, in the order of their numbers, give the archive.
Assembled(b) ==
    LET p == parts[b] IN
    /\ p # << >> /\ p[1][1] = 0 /\ p[Len(p)][2] = Whole(b)
    /\ \A i \in 1 .. Len(p) - 1 : p[i][2] = p[i + 1][1]

\* A backup that the panel lists as successful is whole: the local file is there
\* with all of its parts, or the parts in S3 make up the whole archive, whatever was
\* repeated, cut short or cancelled on the way. Excused are: a file deleted by
\* request; the end of an archive lost by the dropped error of Close; a file
\* removed because the answer to the report of its success was lost.
ListedWhole ==
    \A b \in Backups : listed[b] = "successful" /\ b \notin excused =>
        IF b \in s3 THEN Assembled(b) ELSE linked[b] /\ content[b] = Whole(b)

\* The file of an upload is still there, and neither a crash nor an error of its
\* removal explains it.
LeftBehind(b) == b \in s3 /\ linked[b] /\ ~crashed /\ b \notin kept

\* Every backup that does not stay at the copy of a file for ever (addEntryToZip) ends,
\* and one for S3 leaves no file on the node (Generate), unless the daemon crashed or
\* the file could not be removed.
Settles ==
    \A b \in Backups :
        \/ (pc[b] # "idle") ~> (pc[b] = "ended" /\ ~LeftBehind(b))
        \/ <>[]Copying(b)
==============================================================================
