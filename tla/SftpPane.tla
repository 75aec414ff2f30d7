------------------------------ MODULE SftpPane ------------------------------
(* One SFTP pane: SftpWindow on the GUI thread, SftpClient on the thread of    *)
(* the pane and, during a copy from another server, SftpCrossTransfer on its   *)
(* own.  The window posts slots to the client and draws its conclusions from   *)
(* the signals that come back; neither side says which request a signal        *)
(* answers.  Message boxes and dialogs run nested event loops, in which        *)
(* signals and the timer are still served.                                     *)
(*                                                                             *)
(* The window's members are one record, and its methods functions from that    *)
(* record to the next one.                                                     *)
EXTENDS Integers, Sequences, SequencesExt, FiniteSets

CONSTANTS
    Dirs, Home,      \* directories of the server, and the one it starts in
    Names,           \* names of files
    InitialFiles,    \* the files that are there at first
    Offered,         \* dialogs the user may open: all of Dialogs, or some of them
    MaxBatch,        \* bound: files in one batch or copy
    MaxActs,         \* bound: operations the user starts
    MaxSaves,        \* bound: times an editor saves
    MaxFails,        \* bound: calls of the library that fail
    MaxCancels,      \* bound: clicks on cancel
    MaxEvents,       \* bound: all of these together
    MaxFrames        \* bound: nested event loops

Paths == Dirs \X Names
NoPath == <<>>
NoDir == "no directory yet"
Outside == <<"another machine">>   \* where uploaded and copied files come from
Dialogs == {"download", "put", "mkdir", "remove", "rename"}

ASSUME BoundsAssumption ==
    /\ {MaxBatch, MaxActs, MaxSaves, MaxFails, MaxCancels, MaxEvents} \subseteq Nat
    /\ MaxFrames \in Nat \ {0}   \* a dialog is one
    /\ IsFiniteSet(Dirs) /\ IsFiniteSet(Names)
    /\ Home \in Dirs /\ NoDir \notin Dirs
    /\ InitialFiles \subseteq Paths
    /\ Offered \subseteq Dialogs

\* A file: the path it is a copy of, how often it was edited, and if all of it is there.
File == [of : Paths \union {Outside}, ver : 0..MaxSaves, whole : BOOLEAN]
NoFile == [of |-> NoPath, ver |-> 0, whole |-> FALSE]
Original(path) == [of |-> path, ver |-> 0, whole |-> TRUE]
Piece(file) == [file EXCEPT !.whole = FALSE]

VARIABLES
    remote,   \* files of the server
    local,    \* the temporary copies that are edited, one for a file name
    pane,     \* the members of SftpWindow, and the slots posted to the client
    up,       \* SftpClient::m_connected
    job,      \* the transfer the client is in
    cancelRequested,  \* SftpClient::m_cancelRequested
    sig,      \* signals on their way to the window
    xfer,     \* SftpCrossTransfer
    mixed, failed, disturbed, spent   \* history: see Init

server == <<remote, local>>
client == <<up, job, cancelRequested>>
history == <<mixed, failed, disturbed, spent>>
vars == <<server, pane, client, sig, xfer, history>>

Bound == [acts |-> MaxActs, saves |-> MaxSaves, fails |-> MaxFails,
          cancels |-> MaxCancels]
Spend(k) == /\ spent[k] < Bound[k]
            /\ spent["acts"] + spent["saves"] + spent["fails"] + spent["cancels"] < MaxEvents
            /\ spent' = [spent EXCEPT ![k] = @ + 1]

NoEdit == [state |-> "no", copy |-> ""]
Editing(state, name) == [state |-> state, copy |-> name]
NoJob == [op |-> "none", path |-> NoPath, stage |-> "none"]
NoXfer == [stage |-> "none", dir |-> NoDir, todo |-> <<>>, cancelled |-> FALSE, ok |-> TRUE]

\* Slots of the client.  "download" is downloadFile to a folder of the user, "fetch" the
\* same slot to a copy for editing, "upload" is uploadFile and "put" uploadPath.
Slot(operation, path) == [op |-> operation, path |-> path, to |-> path]
List(dir) == Slot("list", <<dir, "">>)
Transfers == {"download", "fetch", "upload", "put"}

Done(operation, ok, cancelled) ==
    [signal |-> "transferFinished", op |-> operation, ok |-> ok, cancelled |-> cancelled]
OpDone(ok) == [signal |-> "operationFinished", ok |-> ok]
Listed(dir) == [signal |-> "directoryListed", dir |-> dir,
                names |-> {n \in Names : remote[<<dir, n>>] # NoFile}]
Plain(name) == [signal |-> name]

-----------------------------------------------------------------------------
(* Methods of the window                                                       *)

setBusy(p, busy) == [p EXCEPT !.busy = busy]
Post(p, slot) == [p EXCEPT !.req = Append(@, slot)]
Ask(p, slot) == Post(setBusy(p, TRUE), slot)
\* A message box: the rest of the handler waits in it.
Box(p, rest, ok) == [p EXCEPT !.frames = Append(@, [kind |-> rest, ok |-> ok, names |-> <<>>])]

refresh(p) ==
    IF p.busy /\ p.cwd = NoDir THEN p
    ELSE Ask(p, List(IF p.cwd = NoDir THEN Home ELSE p.cwd))

pumpQueue(p) ==
    IF p.queue = <<>> THEN p ELSE Post([p EXCEPT !.queue = Tail(@)], Head(p.queue))

onDownloadedForEdit(p, ok, path) ==
    LET name == path[2] IN
    IF ~ok THEN Box(setBusy(p, FALSE), "nothing", ok)
    ELSE IF local[name] = NoFile THEN setBusy(p, FALSE)
    ELSE setBusy([p EXCEPT !.edited[path] = Editing("same", name), !.editor[name] = local[name]],
                 FALSE)

\* Mistaken: the modification time taken when the upload is over.
RouteStamping(p, ok) ==
    IF p.pendingEdit # NoPath
    THEN onDownloadedForEdit([p EXCEPT !.pendingEdit = NoPath], ok, p.pendingEdit)
    ELSE IF p.uploads = <<>> THEN p
    ELSE [p EXCEPT !.uploads = Tail(@),
              !.edited[Head(p.uploads)].state = IF @ = "no" THEN @ ELSE "same"]

\* The second handler of transferFinished: a pending edit first, then the oldest upload.
Route(p, ok) ==
    IF p.pendingEdit # NoPath
    THEN onDownloadedForEdit([p EXCEPT !.pendingEdit = NoPath], ok, p.pendingEdit)
    ELSE [p EXCEPT !.uploads = IF @ = <<>> THEN @ ELSE Tail(@)]

\* The end of the first handler, after its message box if it shows one, and the second.
AfterTransfer(p, rest, ok) == Route(IF rest = "refresh" THEN refresh(p) ELSE pumpQueue(p), ok)

\* Mistaken: not busy any more after each file of a batch.
transferFinishedFree(p, ok, cancelled) ==
    LET over == p.queue = <<>> \/ p.cancelling
        rest == IF over THEN "refresh" ELSE "pump"
        q == [p EXCEPT !.cancelling = FALSE, !.canCancel = FALSE, !.busy = FALSE,
                       !.queue = IF over THEN <<>> ELSE @]
    IN  IF ok \/ cancelled \/ p.cancelling THEN AfterTransfer(q, rest, ok) ELSE Box(q, rest, ok)

\* Mistaken: the cancel button stays between two files.
transferFinishedShown(p, ok, cancelled) ==
    LET over == p.queue = <<>> \/ p.cancelling
        rest == IF over THEN "refresh" ELSE "pump"
        q == [p EXCEPT !.cancelling = FALSE, !.busy = @ /\ ~over,
                       !.queue = IF over THEN <<>> ELSE @]
    IN  IF ok \/ cancelled \/ p.cancelling THEN AfterTransfer(q, rest, ok) ELSE Box(q, rest, ok)

transferFinished(p, ok, cancelled) ==
    LET over == p.queue = <<>> \/ p.cancelling
        rest == IF over THEN "refresh" ELSE "pump"
        q == [p EXCEPT !.cancelling = FALSE, !.canCancel = FALSE, !.busy = @ /\ ~over,
                       !.queue = IF over THEN <<>> ELSE @]
    IN  IF ok \/ cancelled \/ p.cancelling THEN AfterTransfer(q, rest, ok) ELSE Box(q, rest, ok)

\* Mistaken: only success enables the pane again.
operationFinishedLocked(p, ok) ==
    IF ok THEN refresh(setBusy(p, FALSE)) ELSE Box(p, "nothing", ok)

operationFinished(p, ok) ==
    IF ok THEN refresh(setBusy(p, FALSE)) ELSE Box(setBusy(p, FALSE), "nothing", ok)

\* The finished handler of a cross transfer.
crossFinished(p, ok, cancelled) ==
    LET q == [p EXCEPT !.cancelling = FALSE, !.canCancel = FALSE, !.busy = FALSE]
    IN  IF ok \/ cancelled \/ p.cancelling THEN refresh(q) ELSE Box(q, "list", ok)

Handle(p, s) ==
    CASE s.signal = "connected" -> refresh([p EXCEPT !.cwd = Home, !.busy = FALSE])
      [] s.signal = "directoryListed" ->
             [p EXCEPT !.cwd = s.dir, !.shown = s.names, !.busy = FALSE]
      [] s.signal = "errorOccurred" -> Box(setBusy(p, FALSE), "nothing", FALSE)
      [] s.signal = "transferProgress" -> [p EXCEPT !.canCancel = TRUE]
      [] s.signal = "transferFinished" -> transferFinished(p, s.ok, s.cancelled)
      [] s.signal = "operationFinished" -> operationFinished(p, s.ok)
      [] s.signal = "finished" -> crossFinished(p, s.ok, s.cancelled)

\* The continuation of a message box or a dialog the user agrees to.  The directory is
\* the one of that moment, and only an upload looks at m_busy again.
joinRemote(p, name) == <<p.cwd, name>>
Batch(p, operation, names) ==
    LET items == [i \in DOMAIN names |-> Slot(operation, joinRemote(p, names[i]))]
    IN  pumpQueue(setBusy([p EXCEPT !.queue = items], TRUE))

uploadLocalPathsTo(p, names) == IF p.busy THEN p ELSE Batch(p, "put", names)

renameSelected(p, from, to) ==
    LET old == joinRemote(p, from)
        new == joinRemote(p, to)
        q == Ask(p, [op |-> "rename", path |-> old, to |-> new])
    IN  IF p.edited[old].state = "no" THEN q
        ELSE [q EXCEPT !.edited = [@ EXCEPT ![new] = p.edited[old], ![old] = NoEdit]]

Resume(p, frame) ==
    CASE frame.kind \in {"refresh", "pump"} -> AfterTransfer(p, frame.kind, frame.ok)
      [] frame.kind = "list" -> refresh(p)
      [] frame.kind = "nothing" -> p
      [] frame.kind = "download" -> Batch(p, "download", frame.names)
      [] frame.kind = "put" -> uploadLocalPathsTo(p, frame.names)
      [] frame.kind \in {"mkdir", "remove"} -> Ask(p, Slot(frame.kind, joinRemote(p, frame.names[1])))
      [] frame.kind = "rename" -> renameSelected(p, frame.names[1], frame.names[2])

-----------------------------------------------------------------------------
(* The event loop of the window                                                *)

Underway == pane.req # <<>> \/ job # NoJob \/ sig # <<>> \/ xfer # NoXfer
\* A step of the window that may start something while something else is under way.
Starts == mixed' = (mixed \/ Underway)

OnSignal ==
    /\ sig # <<>> /\ Len(pane.frames) < MaxFrames
    /\ pane' = Handle(pane, Head(sig))
    /\ sig' = Tail(sig)
    /\ xfer' = IF Head(sig).signal = "finished" THEN NoXfer ELSE xfer
    /\ UNCHANGED <<server, client, history>>

\* checkEditedFiles: the timer, or the watcher after a write.
Gone == {path \in Paths : pane.edited[path].state # "no" /\ local[pane.edited[path].copy] = NoFile}
Changed == {path \in Paths \ Gone : pane.edited[path].state = "changed"}

checkEditedFiles ==
    LET order == SetToSeq(Changed) IN
    /\ ~pane.busy /\ Gone \union Changed # {}
    /\ pane' = [pane EXCEPT
           !.edited = [path \in Paths |->
               IF path \in Gone THEN NoEdit
               ELSE IF path \in Changed THEN Editing("same", @[path].copy) ELSE @[path]],
           !.uploads = @ \o order,
           !.req = @ \o [i \in DOMAIN order |->
               [op |-> "upload", path |-> order[i], to |-> <<"", pane.edited[order[i]].copy>>]]]
    /\ IF Changed = {} THEN UNCHANGED mixed ELSE Starts
    /\ UNCHANGED <<server, client, sig, xfer, failed, disturbed, spent>>

-----------------------------------------------------------------------------
(* The user                                                                    *)

AtWork == pane.frames = <<>> /\ Spend("acts") /\ UNCHANGED <<client, sig, failed, disturbed>>
\* The buttons are enabled, be it after a failed connect; beyond asking for a listing the
\* model then does nothing (the client would refuse it all).
Free == AtWork /\ ~pane.busy
Opened == Free /\ pane.cwd # NoDir

Batches(names) == {s \in SeqOf(names, MaxBatch) : s # <<>> /\ IsInjective(s)}

\* refresh, goUp, opening a folder, typing a path.
Navigate(dir) ==
    /\ Free
    /\ pane' = Ask(pane, List(dir))
    /\ Starts
    /\ UNCHANGED <<server, xfer>>

\* downloadSelected, uploadFiles, createFolder, deleteSelected, renameSelected up to the
\* dialog: the choice is read from the table first.
Dialog(kind, names) ==
    /\ Opened /\ kind \in Offered
    /\ pane' = [pane EXCEPT !.frames = <<[kind |-> kind, ok |-> TRUE, names |-> names]>>]
    /\ Starts
    /\ UNCHANGED <<server, xfer>>

OpenDialog ==
    \/ \E names \in Batches(pane.shown) : Dialog("download", names)
    \/ \E names \in Batches(Names) : Dialog("put", names)
    \/ \E name \in Names : Dialog("mkdir", <<name>>)
    \/ \E name \in pane.shown : Dialog("remove", <<name>>)
    \/ \E from \in pane.shown : \E to \in Names \ {from} : Dialog("rename", <<from, to>>)

\* The innermost box or dialog is answered.
Answer ==
    /\ pane.frames # <<>>
    /\ LET p == [pane EXCEPT !.frames = Front(@)]
           frame == Last(pane.frames)
       IN  \/ pane' = Resume(p, frame) /\ (IF frame.kind \in Dialogs THEN Starts ELSE UNCHANGED mixed)
           \/ frame.kind \in Dialogs /\ pane' = p /\ UNCHANGED mixed
    /\ UNCHANGED <<server, client, sig, xfer, failed, disturbed, spent>>

\* Files dropped on the pane, from the system and from another pane.
Drop(names) ==
    /\ Opened /\ xfer = NoXfer
    /\ pane' = uploadLocalPathsTo(pane, names)
    /\ Starts
    /\ UNCHANGED <<server, xfer>>

startCrossTransfer(names) ==
    /\ Opened /\ xfer = NoXfer
    /\ pane' = [pane EXCEPT !.busy = TRUE, !.canCancel = TRUE]
    /\ xfer' = [NoXfer EXCEPT !.stage = "posted", !.dir = pane.cwd, !.todo = names]
    /\ Starts
    /\ UNCHANGED server

\* editRemoteFile: the copy is named after the file alone.
editRemoteFile(name) ==
    LET path == joinRemote(pane, name) IN
    /\ Opened
    /\ name \in pane.shown
    /\ IF pane.edited[path].state # "no"
       THEN /\ pane' = [pane EXCEPT !.editor[pane.edited[path].copy] = local[pane.edited[path].copy]]
            /\ UNCHANGED <<local, mixed>>
       ELSE /\ pane' = Ask([pane EXCEPT !.pendingEdit = path], Slot("fetch", path))
            /\ local' = [local EXCEPT ![name] = NoFile]
            /\ Starts
    /\ UNCHANGED <<remote, xfer>>

cancelTransfers ==
    /\ pane.canCancel /\ pane.frames = <<>>
    /\ Spend("cancels")
    /\ pane' = [pane EXCEPT !.cancelling = TRUE, !.queue = <<>>]
    /\ cancelRequested' = TRUE
    /\ xfer' = IF xfer = NoXfer THEN xfer ELSE [xfer EXCEPT !.cancelled = TRUE]
    /\ UNCHANGED <<server, up, job, sig, mixed, failed, disturbed>>

\* A file changes otherwise than by an upload of its edited copy, or a copy otherwise
\* than by its editor.
Disturbs(paths) == disturbed' = disturbed \union paths

\* A write to a copy: whoever edits it sees another modification time.
Touched(name) ==
    [path \in Paths |-> IF pane.edited[path].state # "no" /\ pane.edited[path].copy = name
                        THEN Editing("changed", name) ELSE pane.edited[path]]

SaveInEditor(name) ==
    /\ Spend("saves")
    /\ pane.editor[name] # NoFile
    /\ local' = [local EXCEPT ![name] = [pane.editor[name] EXCEPT !.ver = spent["saves"] + 1]]
    /\ pane' = [pane EXCEPT !.edited = Touched(name)]
    /\ IF pane.pendingEdit # NoPath /\ pane.pendingEdit[2] = name
       THEN Disturbs({pane.pendingEdit}) ELSE UNCHANGED disturbed
    /\ UNCHANGED <<remote, client, sig, xfer, mixed, failed>>

-----------------------------------------------------------------------------
(* SftpClient                                                                  *)

slot == Head(pane.req)
Taken == [pane EXCEPT !.req = Tail(@)]
Takes(operations) == job = NoJob /\ pane.req # <<>> /\ slot.op \in operations
Emit(s) == sig' = Append(sig, s)
Fine == UNCHANGED <<failed, spent>>
\* A failure the server or the disk decides, and one that the state leads to.
Trouble == Spend("fails") /\ failed' = TRUE
Refused == failed' = TRUE /\ UNCHANGED spent

Negative(operation) ==
    CASE operation \in Transfers -> Done(operation, FALSE, FALSE)
      [] operation = "list" -> Plain("errorOccurred")
      [] OTHER -> OpDone(FALSE)

connectHost ==
    /\ Takes({"connect"})
    /\ pane' = Taken
    /\ \/ up' = TRUE /\ Emit(Plain("connected")) /\ Fine
       \/ up' = FALSE /\ Emit(Plain("errorOccurred")) /\ Trouble
    /\ UNCHANGED <<server, job, cancelRequested, xfer, mixed, disturbed>>

\* ensureConnected says no, or the first call of the library fails.
Rejects ==
    /\ Takes({"list", "mkdir", "remove", "rename"} \union Transfers)
    /\ IF up THEN Trouble ELSE Refused
    /\ pane' = Taken
    /\ cancelRequested' = (cancelRequested /\ slot.op \notin Transfers)
    /\ Emit(Negative(slot.op))
    /\ UNCHANGED <<server, up, job, xfer, mixed, disturbed>>

listDirectory ==
    /\ Takes({"list"}) /\ up
    /\ pane' = Taken
    /\ Emit(Listed(slot.path[1]))
    /\ UNCHANGED <<server, client, xfer, history>>

\* makeDirectory, removePath, renamePath; folders are left out of the files.
Operation ==
    LET impossible == \/ slot.op # "mkdir" /\ remote[slot.path] = NoFile
                      \/ slot.op = "rename" /\ remote[slot.to] # NoFile
    IN
    /\ Takes({"mkdir", "remove", "rename"}) /\ up
    /\ pane' = Taken
    /\ Emit(OpDone(~impossible))
    /\ IF impossible THEN Refused ELSE Fine
    /\ remote' = CASE impossible \/ slot.op = "mkdir" -> remote
                   [] ~impossible /\ slot.op = "remove" -> [remote EXCEPT ![slot.path] = NoFile]
                   [] ~impossible /\ slot.op = "rename" ->
                         [remote EXCEPT ![slot.to] = remote[slot.path], ![slot.path] = NoFile]
    /\ IF impossible \/ slot.op = "mkdir" THEN UNCHANGED disturbed ELSE Disturbs({slot.path, slot.to})
    /\ UNCHANGED <<local, client, xfer, mixed>>

Source(j) == CASE j.op \in {"download", "fetch"} -> remote[j.path]
               [] j.op = "upload" -> local[j.to[2]]
               [] j.op = "put" -> Original(Outside)

\* downloadFile, uploadFile, uploadPath: the cancel flag is cleared, both ends opened.
StartTransfer ==
    LET file == Source(slot) IN
    /\ Takes(Transfers) /\ up
    /\ cancelRequested' = FALSE
    /\ IF file = NoFile
       THEN /\ pane' = Taken
            /\ Emit(Negative(slot.op)) /\ Refused
            /\ UNCHANGED <<server, job>>
       ELSE /\ job' = [op |-> slot.op, path |-> slot.path, to |-> slot.to, stage |-> "open"]
            /\ local' = IF slot.op = "fetch" THEN [local EXCEPT ![slot.path[2]] = Piece(file)] ELSE local
            /\ remote' = IF slot.op \in {"upload", "put"}
                         THEN [remote EXCEPT ![slot.path] = Piece(file)] ELSE remote
            /\ pane' = [Taken EXCEPT
                   !.edited = IF slot.op = "fetch" THEN Touched(slot.path[2]) ELSE @]
            /\ Fine /\ UNCHANGED sig
    /\ IF slot.op = "put" THEN Disturbs({slot.path}) ELSE UNCHANGED disturbed
    /\ UNCHANGED <<up, xfer, mixed>>

InTransfer == job # NoJob /\ UNCHANGED <<up, cancelRequested, xfer, mixed>>

\* A block goes over, and the window hears of it; an empty file has none.
MoveBlock ==
    /\ InTransfer /\ job.stage = "open" /\ ~cancelRequested
    /\ job' = [job EXCEPT !.stage = "moving"]
    /\ Emit(Plain("transferProgress"))
    /\ UNCHANGED <<server, pane, failed, disturbed, spent>>

EndTransfer ==
    /\ InTransfer /\ ~cancelRequested
    /\ job' = NoJob
    /\ Emit(Done(job.op, TRUE, FALSE))
    /\ local' = IF job.op = "fetch" THEN [local EXCEPT ![job.path[2]] = Source(job)] ELSE local
    /\ remote' = IF job.op \in {"upload", "put"} THEN [remote EXCEPT ![job.path] = Source(job)] ELSE remote
    /\ pane' = [pane EXCEPT !.edited = IF job.op = "fetch" THEN Touched(job.path[2]) ELSE @]
    /\ IF job.op = "put" THEN Disturbs({job.path}) ELSE UNCHANGED disturbed
    /\ Fine

CancelTransfer ==
    /\ InTransfer /\ cancelRequested
    /\ job' = NoJob
    /\ Emit(Done(job.op, FALSE, TRUE))
    /\ local' = IF job.op = "fetch" THEN [local EXCEPT ![job.path[2]] = NoFile] ELSE local
    /\ UNCHANGED <<remote, pane, failed, disturbed, spent>>

BreakTransfer ==
    /\ InTransfer /\ Trouble
    /\ job' = NoJob
    /\ Emit(Done(job.op, FALSE, FALSE))
    /\ UNCHANGED <<server, pane, disturbed>>

-----------------------------------------------------------------------------
(* SftpCrossTransfer: startTransfer up to the connections, then file by file.  *)
(* The download to the staging folder and the upload from it are one stage.    *)

InCross == UNCHANGED <<local, pane, client, mixed>>
Finished(ok) == Emit([signal |-> "finished", ok |-> ok, cancelled |-> xfer.cancelled])

CrossStarts ==
    /\ InCross /\ xfer.stage = "posted"
    /\ xfer' = [xfer EXCEPT !.stage = "between", !.cancelled = FALSE]
    /\ UNCHANGED <<remote, sig, failed, disturbed, spent>>

CrossFile ==
    /\ InCross /\ xfer.stage = "between" /\ xfer.todo # <<>> /\ ~xfer.cancelled
    /\ xfer' = [xfer EXCEPT !.stage = "writing"]
    /\ remote' = [remote EXCEPT ![<<xfer.dir, Head(xfer.todo)>>] = Piece(Original(Outside))]
    /\ Disturbs({<<xfer.dir, Head(xfer.todo)>>})
    /\ Emit(Plain("transferProgress"))
    /\ UNCHANGED <<failed, spent>>

CrossFileEnds ==
    /\ InCross /\ xfer.stage = "writing" /\ ~xfer.cancelled
    /\ xfer' = [xfer EXCEPT !.stage = "between", !.todo = Tail(@)]
    /\ remote' = [remote EXCEPT ![<<xfer.dir, Head(xfer.todo)>>] = Original(Outside)]
    /\ Disturbs({<<xfer.dir, Head(xfer.todo)>>})
    /\ UNCHANGED <<sig, failed, spent>>

CrossFails ==
    /\ InCross /\ xfer.stage \in {"between", "writing"}
    /\ Trouble
    /\ xfer' = [xfer EXCEPT !.stage = "closing", !.ok = FALSE]
    /\ UNCHANGED <<remote, sig, disturbed>>

\* All files are over, or a cancel is seen: at the next file or within this one.
CrossEnds ==
    /\ InCross
    /\ \/ xfer.stage = "between" /\ (xfer.todo = <<>> \/ xfer.cancelled)
       \/ xfer.stage = "writing" /\ xfer.cancelled
    /\ xfer' = [xfer EXCEPT !.stage = "closing"]
    /\ UNCHANGED <<remote, sig, failed, disturbed, spent>>

\* Connections closed and the staging folder removed; the flag is read once more.
CrossReports ==
    /\ InCross /\ xfer.stage = "closing"
    /\ Finished(xfer.ok /\ ~xfer.cancelled)
    /\ xfer' = [xfer EXCEPT !.stage = "over"]
    /\ UNCHANGED <<remote, failed, disturbed, spent>>

-----------------------------------------------------------------------------
Init ==
    /\ remote = [path \in Paths |-> IF path \in InitialFiles THEN Original(path) ELSE NoFile]
    /\ local = [name \in Names |-> NoFile]
    /\ pane = [cwd |-> NoDir, shown |-> {}, busy |-> TRUE, cancelling |-> FALSE, canCancel |-> FALSE,
               queue |-> <<>>, pendingEdit |-> NoPath, uploads |-> <<>>,
               edited |-> [path \in Paths |-> NoEdit], editor |-> [name \in Names |-> NoFile],
               frames |-> <<>>, req |-> <<Slot("connect", NoPath)>>]
    /\ up = FALSE /\ job = NoJob /\ cancelRequested = FALSE
    /\ sig = <<>> /\ xfer = NoXfer
    /\ mixed = FALSE    \* something was started while something else was under way
    /\ failed = FALSE   \* some call has failed
    /\ disturbed = {}   \* paths that Disturbs was about
    /\ spent = [b \in DOMAIN Bound |-> 0]

User ==
    \/ \E dir \in Dirs : Navigate(dir)
    \/ OpenDialog \/ Answer
    \/ \E names \in Batches(Names) : Drop(names) \/ startCrossTransfer(names)
    \/ \E name \in Names : editRemoteFile(name) \/ SaveInEditor(name)
    \/ cancelTransfers

Client ==
    \/ connectHost \/ Rejects \/ listDirectory \/ Operation
    \/ StartTransfer \/ MoveBlock \/ EndTransfer \/ CancelTransfer \/ BreakTransfer

Cross == CrossStarts \/ CrossFile \/ CrossFileEnds \/ CrossFails \/ CrossEnds \/ CrossReports

Next == OnSignal \/ checkEditedFiles \/ User \/ Client \/ Cross

Spec == Init /\ [][Next]_vars

-----------------------------------------------------------------------------
(* Properties                                                                  *)

TypeOK ==
    /\ remote \in [Paths -> File \union {NoFile}] /\ local \in [Names -> File \union {NoFile}]
    /\ pane.cwd \in Dirs \union {NoDir} /\ pane.shown \subseteq Names
    /\ {pane.busy, pane.cancelling, pane.canCancel} \subseteq BOOLEAN
    /\ pane.pendingEdit \in Paths \union {NoPath} /\ pane.uploads \in Seq(Paths)
    /\ \A path \in Paths : pane.edited[path].state \in {"no", "same", "changed"}
    /\ Len(pane.frames) <= MaxFrames
    /\ {up, cancelRequested, mixed, failed} \subseteq BOOLEAN
    /\ job.op \in Transfers \union {"none"}
    /\ spent \in [DOMAIN Bound -> Nat]

\* The pane is never locked for good: as long as its buttons are disabled, something is
\* under way whose end enables them, or a box waits for the user.
NeverStuck == pane.busy => Underway \/ pane.frames # <<>>

\* The operations someone waits for: an upload of an edited file goes on behind the
\* user's back, and so does the listing after a file was fetched for editing.
Working ==
    {pane.req[i].op : i \in DOMAIN pane.req} \union {job.op}
    \union {sig[i].op : i \in {k \in DOMAIN sig : sig[k].signal = "transferFinished"}}

\* The other half: nothing can be started over a transfer, an operation, a waiting
\* batch or a cross transfer, unless something of the kind just named came between.
BusyWhileWorking ==
    /\ TypeOK
    /\ Working \ {"list", "upload", "none"} # {} \/ pane.queue # <<>> \/ xfer # NoXfer
       => pane.busy \/ mixed

\* After a click on cancel the client begins no further file of a batch: the flag, which
\* each transfer clears when it begins, is only raised while one is going on.
CancelStops ==
    [][pane.cancelling /\ ~mixed /\ job = NoJob => job'.op \notin {"download", "put"}]_vars

\* Saved edits reach the server: when nothing is under way, no call has failed and nothing
\* was cancelled, a tracked file that looks unchanged is on the server as it is here,
\* unless the file was removed, renamed or written by the user, or its copy was saved
\* over by an editor while the file was fetched.
SyncedWhenQuiet ==
    ~Underway /\ ~failed /\ spent["cancels"] = 0 =>
        \A path \in Paths \ disturbed :
            pane.edited[path].state = "same" => remote[path] = local[pane.edited[path].copy]

\* SftpWindow.h: localPath is the local temporary copy of remotePath.  What a file on the
\* server holds was put there from outside or is that file, edited or not.
CopiesBelong ==
    \A path \in Paths : remote[path].of \in {path, Outside, NoPath}
====
