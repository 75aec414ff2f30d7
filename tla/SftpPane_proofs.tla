--------------------------- MODULE SftpPane_proofs ---------------------------
(* The proofs about an SFTP pane, for any files, any number of operations,     *)
(* failures and cancellations and any depth of nested message boxes: the pane  *)
(* is never locked for good; its buttons stay disabled while something the     *)
(* user asked for goes on, and a cancel stops a batch, both of which rest on   *)
(* the turns a request takes: posted, in the client, answered, and only then   *)
(* handled; and saved edits reach the server.                                  *)
EXTENDS SftpPane, SequenceTheorems, FiniteSetTheorems, TLAPS

-----------------------------------------------------------------------------
(* Sequences of whatever it may be                                             *)

Sequence(q) == \E S : q \in Seq(S)

LEMMA Grows ==
    ASSUME NEW q, Sequence(q), NEW x
    PROVE  /\ Sequence(Append(q, x)) /\ Append(q, x) # <<>>
           /\ Len(q) \in Nat /\ Len(Append(q, x)) = Len(q) + 1
           /\ Append(q, x)[Len(q) + 1] = x
           /\ \A i \in 1..Len(q) : Append(q, x)[i] = q[i]
  <1>1. PICK S : q \in Seq(S)
    BY DEF Sequence
  <1>2. q \in Seq(S \cup {x})
    BY <1>1
  <1>3. Append(q, x) \in Seq(S \cup {x}) /\ Append(q, x) # <<>>
    BY <1>2, AppendProperties
  <1>4. Sequence(Append(q, x))
    BY <1>3 DEF Sequence
  <1> QED
    BY <1>2, <1>3, <1>4

LEMMA Shrinks ==
    ASSUME NEW q, Sequence(q), q # <<>>
    PROVE  /\ Sequence(Tail(q)) /\ Sequence(Front(q))
           /\ Len(q) \in Nat \ {0} /\ Len(Tail(q)) = Len(q) - 1 /\ Len(Front(q)) = Len(q) - 1
           /\ Head(q) = q[1] /\ Last(q) = q[Len(q)]
           /\ \A i \in 1..(Len(q) - 1) : Tail(q)[i] = q[i + 1] /\ Front(q)[i] = q[i]
           /\ Tail(q) = <<>> <=> Len(q) = 1
  <1>1. PICK S : q \in Seq(S)
    BY DEF Sequence
  <1>2. Len(q) \in Nat \ {0} /\ Head(q) = q[1]
    BY <1>1
  <1>3. Tail(q) \in Seq(S) /\ Len(Tail(q)) = Len(q) - 1
        /\ \A i \in 1..Len(Tail(q)) : Tail(q)[i] = q[i + 1]
    BY <1>1, HeadTailProperties
  <1>4. Front(q) \in Seq(S) /\ Len(Front(q)) = Len(q) - 1
        /\ \A i \in 1..Len(Front(q)) : Front(q)[i] = q[i]
    <2> DEFINE n == Len(q) - 1
               f == SubSeq(q, 1, n)
    <2>1. n \in Nat /\ 1 \in Int /\ n \in Int /\ \A i \in 1..n : q[i] \in S
      BY <1>1, <1>2
    <2> HIDE DEF n
    <2>2. /\ f \in Seq(S) /\ Len(f) = IF 1 <= n THEN n - 1 + 1 ELSE 0
          /\ \A i \in 1..(n - 1 + 1) : f[i] = q[1 + i - 1]
      BY <2>1, SubSeqProperties
    <2> HIDE DEF f
    <2>3. Len(f) = n
      BY <2>1, <2>2
    <2>4. ASSUME NEW i \in 1..n
          PROVE  f[i] = q[i]
      <3>1. n - 1 + 1 = n /\ 1 + i - 1 = i
        BY <2>1
      <3> QED
        BY <2>2, <3>1
    <2>5. f \in Seq(S) /\ Len(f) = n /\ \A i \in 1..Len(f) : f[i] = q[i]
      BY <2>2, <2>3, <2>4
    <2> QED
      BY <2>5 DEF Front, f, n
  <1>5. Tail(q) = <<>> <=> Len(Tail(q)) = 0
    BY <1>3, EmptySeq
  <1> QED
    BY <1>2, <1>3, <1>4, <1>5 DEF Sequence, Last

LEMMA Joins ==
    ASSUME NEW q, Sequence(q), NEW r, Sequence(r)
    PROVE  Sequence(q \o r)
  <1>1. PICK S, T : q \in Seq(S) /\ r \in Seq(T)
    BY DEF Sequence
  <1>2. q \in Seq(S \cup T) /\ r \in Seq(S \cup T)
    BY <1>1
  <1>3. q \o r \in Seq(S \cup T)
    BY <1>2
  <1> QED
    BY <1>3 DEF Sequence

LEMMA EmptyIsSequence == Sequence(<<>>)
  BY DEF Sequence

LEMMA OneIsSequence == ASSUME NEW x PROVE Sequence(<<x>>) /\ <<x>> # <<>>
  <1>1. <<x>> \in Seq({x})
    OBVIOUS
  <1> QED
    BY <1>1 DEF Sequence

LEMMA MapsToSequence ==
    ASSUME NEW q, Sequence(q), NEW f, DOMAIN f = DOMAIN q, f = [i \in DOMAIN f |-> f[i]]
    PROVE  Sequence(f) /\ (q # <<>> => f # <<>>)
  <1>1. PICK S : q \in Seq(S)
    BY DEF Sequence
  <1>2. DOMAIN f = 1..Len(q) /\ Len(q) \in Nat
    BY <1>1
  <1>3. f \in Seq({f[i] : i \in DOMAIN f})
    BY <1>2
  <1> QED
    BY <1>1, <1>2, <1>3 DEF Sequence

LEMMA OrderIsSequence ==
    ASSUME NEW S, IsFiniteSet(S)
    PROVE  SetToSeq(S) \in Seq(S) /\ Sequence(SetToSeq(S))
  <1>1. PICK n \in Nat : ExistsBijection(1..n, S)
    BY FS_NatBijection
  <1>2. Cardinality(S) = n
    BY <1>1, FS_CountingElements
  <1>3. \E f \in [1..Cardinality(S) -> S] : IsInjective(f)
    BY <1>1, <1>2 DEF ExistsBijection, Bijection, Injection
  <1>4. SetToSeq(S) \in [1..n -> S]
    BY <1>2, <1>3 DEF SetToSeq
  <1>5. SetToSeq(S) \in Seq(S)
    BY <1>4
  <1> QED
    BY <1>5 DEF Sequence

-----------------------------------------------------------------------------
(* The window.                                                                 *)

Members == {"cwd", "shown", "busy", "cancelling", "canCancel", "queue", "pendingEdit", "uploads",
            "edited", "editor", "frames", "req"}

(* What boxes go on with, and boxes and dialogs.                              *)
Boxes == {"refresh", "pump", "list", "nothing"}
Batched == {"download", "put"}
FrameShape(f) ==
    /\ f.kind \in Boxes \cup Dialogs
    /\ f.kind \in Batched => Sequence(f.names) /\ f.names # <<>>

PaneShape(p) ==
    /\ p = [m \in Members |-> p[m]]
    /\ p.busy \in BOOLEAN
    /\ Sequence(p.req) /\ Sequence(p.queue) /\ Sequence(p.frames)
    /\ \A i \in 1..Len(p.frames) : FrameShape(p.frames[i])

(* A box that waits to go on with a batch of files.                            *)
PumpBox(p) == \E i \in 1..Len(p.frames) : p.frames[i].kind = "pump"

(* The window by itself knows why it is busy: it has asked for something, or   *)
(* a batch goes on when a box is answered.                                     *)
Settled(p, aside) == p.busy => p.req # <<>> \/ (p.queue # <<>> /\ PumpBox(p)) \/ aside

(* What the handlers need to find and leave.                                   *)
Kept(p, aside) == PaneShape(p) /\ Settled(p, aside)

LEMMA AskKeeps ==
    ASSUME NEW aside, NEW p, PaneShape(p), NEW x
    PROVE  /\ Kept(Ask(p, x), aside) /\ Ask(p, x).req # <<>>
           /\ Ask(p, x).queue = p.queue /\ Ask(p, x).frames = p.frames
  BY Grows DEF Ask, Post, setBusy, PaneShape, Members, Kept, Settled

LEMMA PostKeeps ==
    ASSUME NEW aside, NEW p, PaneShape(p), NEW x
    PROVE  /\ Kept(Post(p, x), aside) /\ Post(p, x).req # <<>>
           /\ Post(p, x).queue = p.queue /\ Post(p, x).frames = p.frames
  BY Grows DEF Post, PaneShape, Members, Kept, Settled

LEMMA FreeKeeps == ASSUME NEW aside, NEW p, PaneShape(p) PROVE Kept(setBusy(p, FALSE), aside)
  BY DEF setBusy, PaneShape, Members, Kept, Settled

LEMMA BoxKeeps ==
    ASSUME NEW aside, NEW p, PaneShape(p), NEW rest \in Boxes, NEW ok
    PROVE  /\ PaneShape(Box(p, rest, ok))
           /\ Settled(p, aside) \/ (rest = "pump" /\ p.queue # <<>>) => Settled(Box(p, rest, ok), aside)
  <1> DEFINE f == [kind |-> rest, ok |-> ok, names |-> <<>>]
             b == Box(p, rest, ok)
  <1>1. b = [p EXCEPT !.frames = Append(p.frames, f)] /\ f.kind = rest
    BY DEF Box
  <1>0. FrameShape(f)
    BY DEF FrameShape, Boxes, Batched
  <1> HIDE DEF f, b
  <1>2. /\ b = [m \in Members |-> b[m]] /\ b.busy = p.busy /\ b.req = p.req /\ b.queue = p.queue
        /\ b.frames = Append(p.frames, f)
    BY <1>1 DEF PaneShape, Members
  <1>3. PaneShape(b) /\ (PumpBox(p) \/ rest = "pump" => PumpBox(b))
    <2>1. /\ Sequence(b.frames)
          /\ Len(p.frames) \in Nat /\ Len(b.frames) = Len(p.frames) + 1
          /\ b.frames[Len(p.frames) + 1] = f /\ b.frames[Len(p.frames) + 1].kind = rest
          /\ \A i \in 1..Len(p.frames) : b.frames[i] = p.frames[i]
      BY <1>1, <1>2, Grows DEF PaneShape
    <2>2. PumpBox(p) \/ rest = "pump" => PumpBox(b)
      BY <2>1 DEF PumpBox
    <2>3. ASSUME NEW i \in 1..Len(b.frames)
          PROVE  FrameShape(b.frames[i])
      <3>1. CASE i = Len(p.frames) + 1
        BY <1>0, <2>1, <3>1
      <3>2. CASE i # Len(p.frames) + 1
        <4>1. i \in 1..Len(p.frames)
          BY <2>1, <3>2
        <4> QED
          BY <2>1, <4>1 DEF PaneShape
      <3> QED
        BY <3>1, <3>2
    <2> QED
      BY <1>2, <2>1, <2>2, <2>3 DEF PaneShape
  <1> QED
    BY <1>2, <1>3 DEF Settled, b

LEMMA RefreshKeeps ==
    ASSUME NEW aside, NEW p, Kept(p, aside)
    PROVE  Kept(refresh(p), aside)
  BY AskKeeps DEF refresh, Kept

LEMMA PumpKeeps ==
    ASSUME NEW aside, NEW p, PaneShape(p), Settled(p, aside) \/ p.queue # <<>>
    PROVE  Kept(pumpQueue(p), aside)
  <1>1. CASE p.queue = <<>>
    BY <1>1 DEF pumpQueue, Kept
  <1>2. CASE p.queue # <<>>
    <2> DEFINE q == [p EXCEPT !.queue = Tail(p.queue)]
    <2>1. PaneShape(q)
      BY <1>2, Shrinks DEF PaneShape, Members
    <2>2. pumpQueue(p) = Post(q, Head(p.queue))
      BY <1>2 DEF pumpQueue
    <2> QED
      BY <2>1, <2>2, PostKeeps
  <1> QED
    BY <1>1, <1>2

(* Members that no one waits for may change.                                   *)
Alike(p, q) ==
    /\ PaneShape(q) /\ q.busy = p.busy /\ q.req = p.req /\ q.queue = p.queue
    /\ q.frames = p.frames

LEMMA AlikeKeeps == ASSUME NEW aside, NEW p, NEW q, Kept(p, aside), Alike(p, q) PROVE Kept(q, aside)
  BY DEF Alike, Kept, Settled, PumpBox

LEMMA DownloadedKeeps ==
    ASSUME NEW aside, NEW p, Kept(p, aside), NEW ok, NEW path
    PROVE  Kept(onDownloadedForEdit(p, ok, path), aside)
  <1> DEFINE e == [p EXCEPT !.edited[path] = Editing("same", path[2]),
                            !.editor[path[2]] = local[path[2]]]
  <1>1. CASE ~ok
    <2>1. Kept(setBusy(p, FALSE), aside)
      BY FreeKeeps DEF Kept
    <2> QED
      BY <1>1, <2>1, BoxKeeps DEF onDownloadedForEdit, Kept, Boxes
  <1>2. CASE ok /\ local[path[2]] = NoFile
    BY <1>2, FreeKeeps DEF onDownloadedForEdit, Kept
  <1>3. CASE ok /\ local[path[2]] # NoFile
    <2>1. PaneShape(e)
      BY DEF Kept, PaneShape, Members
    <2>2. onDownloadedForEdit(p, ok, path) = setBusy(e, FALSE)
      BY <1>3 DEF onDownloadedForEdit
    <2> HIDE DEF e
    <2> QED
      BY <2>1, <2>2, FreeKeeps
  <1> QED
    BY <1>1, <1>2, <1>3

LEMMA RouteKeeps ==
    ASSUME NEW aside, NEW p, Kept(p, aside), NEW ok
    PROVE  Kept(Route(p, ok), aside)
  <1>1. CASE p.pendingEdit # NoPath
    <2> DEFINE e == [p EXCEPT !.pendingEdit = NoPath]
    <2>1. Alike(p, e)
      BY DEF Kept, PaneShape, Members, Alike
    <2>2. Kept(e, aside)
      BY <2>1, AlikeKeeps
    <2> QED
      BY <1>1, <2>2, DownloadedKeeps DEF Route
  <1>2. CASE p.pendingEdit = NoPath
    <2> DEFINE u == IF p.uploads = <<>> THEN p.uploads ELSE Tail(p.uploads)
               e == [p EXCEPT !.uploads = u]
    <2>1. Alike(p, e)
      BY DEF Kept, PaneShape, Members, Alike
    <2>2. Kept(e, aside)
      BY <2>1, AlikeKeeps
    <2> QED
      BY <1>2, <2>2 DEF Route
  <1> QED
    BY <1>1, <1>2

LEMMA AfterKeeps ==
    ASSUME NEW aside, NEW p, PaneShape(p), NEW rest, NEW ok,
           Settled(p, aside) \/ (rest # "refresh" /\ p.queue # <<>>)
    PROVE  Kept(AfterTransfer(p, rest, ok), aside)
  <1>1. CASE rest = "refresh"
    BY <1>1, RefreshKeeps, RouteKeeps DEF AfterTransfer, Kept
  <1>2. CASE rest # "refresh"
    BY <1>2, PumpKeeps, RouteKeeps DEF AfterTransfer
  <1> QED
    BY <1>1, <1>2

(* A transfer that is over frees the pane or sends the next one; a box in      *)
(* between keeps the batch.                                                    *)
LEMMA FinishedKeeps ==
    ASSUME NEW aside, NEW p, PaneShape(p), NEW ok, NEW cancelled
    PROVE  Kept(transferFinished(p, ok, cancelled), aside)
  <1> DEFINE over == p.queue = <<>> \/ p.cancelling
             rest == IF over THEN "refresh" ELSE "pump"
             left == IF over THEN <<>> ELSE p.queue
             busy == p.busy /\ ~over
             q == [p EXCEPT !.cancelling = FALSE, !.canCancel = FALSE, !.busy = busy,
                            !.queue = left]
  <1>1. /\ transferFinished(p, ok, cancelled) =
               IF ok \/ cancelled \/ p.cancelling THEN AfterTransfer(q, rest, ok)
               ELSE Box(q, rest, ok)
        /\ rest \in {"refresh", "pump"} /\ rest \in Boxes
    BY DEF transferFinished, Boxes
  <1>2. Sequence(left) /\ busy \in BOOLEAN /\ (over => ~busy)
        /\ (rest = "pump" => left # <<>>) /\ (rest = "refresh" => ~busy)
    BY EmptyIsSequence DEF PaneShape
  <1> HIDE DEF over, left, busy
  <1>3. PaneShape(q) /\ q.busy = busy /\ q.queue = left
    BY <1>2 DEF PaneShape, Members
  <1> HIDE DEF q, rest
  <1>4. Settled(q, aside) \/ (rest = "pump" /\ q.queue # <<>>)
    BY <1>1, <1>2, <1>3 DEF Settled
  <1>5. Kept(AfterTransfer(q, rest, ok), aside)
    BY <1>1, <1>3, <1>4, AfterKeeps
  <1>6. Kept(Box(q, rest, ok), aside)
    BY <1>1, <1>3, <1>4, BoxKeeps DEF Kept
  <1> QED
    BY <1>1, <1>5, <1>6

LEMMA OperationKeeps ==
    ASSUME NEW aside, NEW p, PaneShape(p), NEW ok
    PROVE  Kept(operationFinished(p, ok), aside)
  <1>1. Kept(setBusy(p, FALSE), aside)
    BY FreeKeeps
  <1> QED
    BY <1>1, RefreshKeeps, BoxKeeps DEF operationFinished, Kept, Boxes

LEMMA CrossKeeps ==
    ASSUME NEW aside, NEW p, PaneShape(p), NEW ok, NEW cancelled
    PROVE  Kept(crossFinished(p, ok, cancelled), aside)
  <1> DEFINE q == [p EXCEPT !.cancelling = FALSE, !.canCancel = FALSE, !.busy = FALSE]
  <1>1. Kept(q, aside)
    BY DEF PaneShape, Members, Kept, Settled
  <1>2. crossFinished(p, ok, cancelled) =
            IF ok \/ cancelled \/ p.cancelling THEN refresh(q) ELSE Box(q, "list", ok)
    BY DEF crossFinished
  <1> HIDE DEF q
  <1> QED
    BY <1>1, <1>2, RefreshKeeps, BoxKeeps DEF Kept, Boxes

Reports == {"connected", "directoryListed", "errorOccurred", "transferFinished",
            "operationFinished", "finished"}

(* Every signal but the progress of a transfer settles the pane.               *)
LEMMA HandleSettles ==
    ASSUME NEW aside, NEW p, PaneShape(p), NEW s, s.signal \in Reports
    PROVE  Kept(Handle(p, s), aside)
  <1>1. CASE s.signal = "connected"
    <2> DEFINE q == [p EXCEPT !.cwd = Home, !.busy = FALSE]
    <2>1. Kept(q, aside)
      BY DEF PaneShape, Members, Kept, Settled
    <2>2. Handle(p, s) = refresh(q)
      BY <1>1 DEF Handle
    <2> HIDE DEF q
    <2> QED
      BY <2>1, <2>2, RefreshKeeps
  <1>2. CASE s.signal = "directoryListed"
    <2>1. Handle(p, s) = [p EXCEPT !.cwd = s.dir, !.shown = s.names, !.busy = FALSE]
      BY <1>2 DEF Handle
    <2> QED
      BY <2>1 DEF PaneShape, Members, Kept, Settled
  <1>3. CASE s.signal = "errorOccurred"
    <2>1. Kept(setBusy(p, FALSE), aside)
      BY FreeKeeps
    <2>2. Handle(p, s) = Box(setBusy(p, FALSE), "nothing", FALSE)
      BY <1>3 DEF Handle
    <2> QED
      BY <2>1, <2>2, BoxKeeps DEF Kept, Boxes
  <1>4. CASE s.signal = "transferFinished"
    BY <1>4, FinishedKeeps DEF Handle
  <1>5. CASE s.signal = "operationFinished"
    BY <1>5, OperationKeeps DEF Handle
  <1>6. CASE s.signal = "finished"
    BY <1>6, CrossKeeps DEF Handle
  <1> QED
    BY <1>1, <1>2, <1>3, <1>4, <1>5, <1>6 DEF Reports

LEMMA ProgressKeeps ==
    ASSUME NEW p, PaneShape(p), NEW s, s.signal = "transferProgress"
    PROVE  Alike(p, Handle(p, s))
  <1>1. Handle(p, s) = [p EXCEPT !.canCancel = TRUE]
    BY DEF Handle
  <1> QED
    BY <1>1 DEF PaneShape, Members, Alike

-----------------------------------------------------------------------------
(* The boxes and dialogs.                                                      *)

LEMMA BatchesAreSequences ==
    ASSUME NEW S, NEW names \in Batches(S)
    PROVE  names \in Seq(S) /\ Sequence(names) /\ names # <<>>
  <1>1. names # <<>> /\ names \in SeqOf(S, MaxBatch)
    BY DEF Batches
  <1>2. PICK m \in 0..MaxBatch : names \in [1..m -> S]
    BY <1>1 DEF SeqOf
  <1>3. names \in Seq(S)
    BY <1>2
  <1> QED
    BY <1>1, <1>3 DEF Sequence

LEMMA BatchKeeps ==
    ASSUME NEW aside, NEW p, PaneShape(p), NEW operation, NEW names, Sequence(names), names # <<>>
    PROVE  Kept(Batch(p, operation, names), aside)
  <1> DEFINE items == [i \in DOMAIN names |-> Slot(operation, joinRemote(p, names[i]))]
             q == setBusy([p EXCEPT !.queue = items], TRUE)
  <1>1. Batch(p, operation, names) = pumpQueue(q)
    BY DEF Batch
  <1>2. Sequence(items) /\ items # <<>>
    BY MapsToSequence
  <1> HIDE DEF items
  <1>3. PaneShape(q) /\ q.queue # <<>>
    BY <1>2 DEF PaneShape, Members, setBusy
  <1> HIDE DEF q
  <1> QED
    BY <1>1, <1>3, PumpKeeps

LEMMA RenameKeeps ==
    ASSUME NEW aside, NEW p, PaneShape(p), NEW from, NEW to
    PROVE  Kept(renameSelected(p, from, to), aside)
  <1> DEFINE old == joinRemote(p, from)
             new == joinRemote(p, to)
             q == Ask(p, [op |-> "rename", path |-> old, to |-> new])
             r == [q EXCEPT !.edited = [@ EXCEPT ![new] = p.edited[old], ![old] = NoEdit]]
  <1>1. renameSelected(p, from, to) = IF p.edited[old].state = "no" THEN q ELSE r
    BY DEF renameSelected
  <1>2. Kept(q, aside)
    BY AskKeeps
  <1> HIDE DEF q
  <1>3. Alike(q, r)
    BY <1>2 DEF Kept, PaneShape, Members, Alike
  <1> HIDE DEF r
  <1> QED
    BY <1>1, <1>2, <1>3, AlikeKeeps

LEMMA ResumeKeeps ==
    ASSUME NEW aside, NEW p, PaneShape(p), NEW f, FrameShape(f),
           Settled(p, aside) \/ (f.kind = "pump" /\ p.queue # <<>>)
    PROVE  Kept(Resume(p, f), aside)
  <1>1. CASE f.kind \in {"refresh", "pump"}
    <2>1. Resume(p, f) = AfterTransfer(p, f.kind, f.ok)
      BY <1>1 DEF Resume
    <2> QED
      BY <1>1, <2>1, AfterKeeps
  <1>2. CASE f.kind = "list"
    <2>1. Resume(p, f) = refresh(p)
      BY <1>2 DEF Resume
    <2> QED
      BY <1>2, <2>1, RefreshKeeps DEF Kept
  <1>3. CASE f.kind = "nothing"
    <2>1. Resume(p, f) = p
      BY <1>3 DEF Resume
    <2> QED
      BY <1>3, <2>1 DEF Kept
  <1>4. CASE f.kind = "download"
    <2>1. Resume(p, f) = Batch(p, "download", f.names)
      BY <1>4 DEF Resume
    <2> QED
      BY <1>4, <2>1, BatchKeeps DEF FrameShape, Batched
  <1>5. CASE f.kind = "put"
    <2>1. Resume(p, f) = uploadLocalPathsTo(p, f.names)
      BY <1>5 DEF Resume
    <2>2. Kept(Batch(p, "put", f.names), aside)
      BY <1>5, BatchKeeps DEF FrameShape, Batched
    <2> QED
      BY <1>5, <2>1, <2>2 DEF uploadLocalPathsTo, Kept
  <1>6. CASE f.kind \in {"mkdir", "remove"}
    <2>1. Resume(p, f) = Ask(p, Slot(f.kind, joinRemote(p, f.names[1])))
      BY <1>6 DEF Resume
    <2> QED
      BY <2>1, AskKeeps
  <1>7. CASE f.kind = "rename"
    <2>1. Resume(p, f) = renameSelected(p, f.names[1], f.names[2])
      BY <1>7 DEF Resume
    <2> QED
      BY <2>1, RenameKeeps
  <1> QED
    BY <1>1, <1>2, <1>3, <1>4, <1>5, <1>6, <1>7 DEF FrameShape, Dialogs, Boxes

(* Closing the innermost box.                                                  *)
LEMMA ClosingKeeps ==
    ASSUME NEW aside, NEW p, Kept(p, aside), p.frames # <<>>
    PROVE  LET q == [p EXCEPT !.frames = Front(@)]
           IN  /\ PaneShape(q) /\ FrameShape(Last(p.frames))
               /\ Settled(q, aside) \/ (Last(p.frames).kind = "pump" /\ q.queue # <<>>)
  <1> DEFINE q == [p EXCEPT !.frames = Front(p.frames)]
  <1>0. /\ q.busy = p.busy /\ q.req = p.req /\ q.queue = p.queue /\ q.frames = Front(p.frames)
        /\ q = [m \in Members |-> q[m]]
    BY DEF Kept, PaneShape, Members
  <1> HIDE DEF q
  <1>1. PaneShape(q) /\ FrameShape(Last(p.frames))
        /\ (PumpBox(p) => PumpBox(q) \/ Last(p.frames).kind = "pump")
    <2>1. /\ Sequence(q.frames)
          /\ Len(p.frames) \in Nat \ {0} /\ Len(q.frames) = Len(p.frames) - 1
          /\ Last(p.frames) = p.frames[Len(p.frames)]
          /\ \A i \in 1..(Len(p.frames) - 1) : q.frames[i] = p.frames[i]
      BY <1>0, Shrinks DEF Kept, PaneShape
    <2>2. PumpBox(p) => PumpBox(q) \/ Last(p.frames).kind = "pump"
      BY <2>1 DEF PumpBox
    <2>3. \A i \in 1..Len(p.frames) : FrameShape(p.frames[i])
      BY DEF Kept, PaneShape
    <2>4. FrameShape(Last(p.frames))
      <3>1. Len(p.frames) \in 1..Len(p.frames)
        BY <2>1
      <3> QED
        BY <2>1, <2>3, <3>1
    <2>5. ASSUME NEW i \in 1..Len(q.frames)
          PROVE  FrameShape(q.frames[i])
      <3>1. i \in 1..Len(p.frames) /\ q.frames[i] = p.frames[i]
        BY <2>1
      <3> QED
        BY <2>3, <3>1
    <2> QED
      BY <1>0, <2>1, <2>2, <2>4, <2>5 DEF Kept, PaneShape
  <1>2. Settled(q, aside) \/ (Last(p.frames).kind = "pump" /\ q.queue # <<>>)
    BY <1>0, <1>1 DEF Kept, Settled
  <1> QED
    BY <1>1, <1>2 DEF q

-----------------------------------------------------------------------------
(* The invariant.  Outside the window a request is a signal on its way, the    *)
(* transfer the client is in, or a cross transfer; each of them ends with a    *)
(* report, and a progress signal is never the last one of its transfer.        *)

Elsewhere == job # NoJob \/ sig # <<>> \/ xfer # NoXfer

PaneInv == Kept(pane, Elsewhere)

JobInv == "stage" \in DOMAIN job

Running == {"between", "writing", "closing"}
XferInv ==
    /\ {"stage", "cancelled"} \subseteq DOMAIN xfer
    /\ xfer = NoXfer \/ xfer.stage \in {"posted", "over"} \cup Running

SigInv ==
    /\ Sequence(sig)
    /\ \A i \in 1..Len(sig) : sig[i].signal \in Reports \cup {"transferProgress"}

ProgressInv ==
    sig # <<>> /\ sig[Len(sig)].signal = "transferProgress"
    => job # NoJob \/ xfer.stage \in Running

FinishedInv ==
    /\ \A i \in 1..Len(sig) : sig[i].signal = "finished" => xfer.stage = "over"
    /\ \A i, j \in 1..Len(sig) : sig[i].signal = "finished" /\ sig[j].signal = "finished" => i = j

BeyondInv == JobInv /\ XferInv /\ SigInv /\ ProgressInv /\ FinishedInv
Inv == PaneInv /\ BeyondInv

LEMMA InitInv == Init => Inv
  <1> SUFFICES ASSUME Init PROVE Inv
    OBVIOUS
  <1>1. PaneShape(pane)
    <2>1. /\ pane = [m \in Members |-> pane[m]] /\ pane.busy = TRUE
          /\ pane.frames = <<>> /\ pane.queue = <<>> /\ pane.req = <<Slot("connect", NoPath)>>
      BY DEF Init, Members
    <2>2. Sequence(pane.req) /\ Sequence(pane.queue) /\ Sequence(pane.frames)
      BY <2>1, EmptyIsSequence, OneIsSequence
    <2>3. 1..Len(pane.frames) = {}
      BY <2>1
    <2> QED
      BY <2>1, <2>2, <2>3 DEF PaneShape
  <1>2. PaneInv
    <2>1. pane.req # <<>>
      BY OneIsSequence DEF Init
    <2> QED
      BY <1>1, <2>1 DEF PaneInv, Kept, Settled
  <1>3. JobInv /\ XferInv
    BY DEF Init, JobInv, XferInv, NoJob, NoXfer
  <1>4. SigInv /\ ProgressInv /\ FinishedInv
    <2>1. sig = <<>> /\ 1..Len(sig) = {}
      BY DEF Init
    <2> QED
      BY <2>1, EmptyIsSequence DEF SigInv, ProgressInv, FinishedInv
  <1> QED
    BY <1>2, <1>3, <1>4 DEF Inv, BeyondInv

(* A signal that is added.                                                     *)
LEMMA EmitKeeps ==
    ASSUME SigInv, FinishedInv, NEW s, s.signal \in Reports \cup {"transferProgress"},
           sig' = Append(sig, s),
           s.signal = "transferProgress" => job' # NoJob \/ xfer'.stage \in Running,
           s.signal = "finished" => xfer'.stage = "over" /\ xfer.stage # "over",
           xfer.stage = "over" => xfer'.stage = "over"
    PROVE  SigInv' /\ ProgressInv' /\ FinishedInv' /\ sig' # <<>>
  <1>1. /\ Sequence(sig') /\ sig' # <<>> /\ Len(sig) \in Nat /\ Len(sig') = Len(sig) + 1
        /\ sig'[Len(sig) + 1] = s /\ \A i \in 1..Len(sig) : sig'[i] = sig[i]
    BY Grows DEF SigInv
  <1>2. ASSUME NEW i \in 1..Len(sig')
        PROVE  \/ i \in 1..Len(sig) /\ sig'[i] = sig[i]
               \/ i = Len(sig) + 1 /\ sig'[i] = s
    BY <1>1
  <1>3. SigInv'
    BY <1>1, <1>2 DEF SigInv
  <1>4. ProgressInv'
    BY <1>1 DEF ProgressInv
  <1>5. ASSUME NEW i \in 1..Len(sig'), sig'[i].signal = "finished"
        PROVE  xfer'.stage = "over"
    BY <1>2, <1>5 DEF FinishedInv
  <1>6. ASSUME NEW i \in 1..Len(sig'), NEW j \in 1..Len(sig'),
               sig'[i].signal = "finished", sig'[j].signal = "finished"
        PROVE  i = j
    <2>1. CASE s.signal = "finished"
      <3>1. \A k \in 1..Len(sig) : sig[k].signal # "finished"
        BY <2>1 DEF FinishedInv
      <3> QED
        BY <1>2, <1>6, <3>1
    <2>2. CASE s.signal # "finished"
      <3>1. i \in 1..Len(sig) /\ j \in 1..Len(sig) /\ sig'[i] = sig[i] /\ sig'[j] = sig[j]
        BY <1>2, <1>6, <2>2
      <3> QED
        BY <1>6, <3>1 DEF FinishedInv
    <2> QED
      BY <2>1, <2>2
  <1>7. FinishedInv'
    BY <1>5, <1>6 DEF FinishedInv
  <1> QED
    BY <1>1, <1>3, <1>4, <1>7

(* Steps of the window that leave the signals and the client alone.            *)
LEMMA WindowKeeps ==
    ASSUME Inv, Kept(pane', Elsewhere), UNCHANGED <<sig, job, xfer>>
    PROVE  Inv'
  BY DEF Inv, PaneInv, BeyondInv, Elsewhere, JobInv, XferInv, SigInv, ProgressInv, FinishedInv

LEMMA SignalStep == Inv /\ OnSignal => Inv'
  <1> SUFFICES ASSUME Inv, OnSignal PROVE Inv'
    OBVIOUS
  <1> DEFINE s == Head(sig)
  <1>1. /\ sig # <<>> /\ pane' = Handle(pane, s) /\ sig' = Tail(sig) /\ job' = job
        /\ xfer' = IF s.signal = "finished" THEN NoXfer ELSE xfer
    BY DEF OnSignal, client
  <1>2. /\ Sequence(sig') /\ Len(sig) \in Nat \ {0} /\ Len(sig') = Len(sig) - 1 /\ s = sig[1]
        /\ \A i \in 1..(Len(sig) - 1) : sig'[i] = sig[i + 1]
        /\ (sig' = <<>> <=> Len(sig) = 1)
    BY <1>1, Shrinks DEF Inv, BeyondInv, SigInv
  <1>3. ASSUME NEW i \in 1..Len(sig')
        PROVE  i + 1 \in 1..Len(sig) /\ sig'[i] = sig[i + 1]
    BY <1>2
  <1>4. SigInv'
    BY <1>2, <1>3 DEF SigInv, Inv, BeyondInv
  <1>5. s.signal \in Reports \cup {"transferProgress"}
    BY <1>2 DEF Inv, BeyondInv, SigInv
  <1>6. s.signal = "finished" => xfer.stage = "over"
    BY <1>2 DEF Inv, BeyondInv, FinishedInv
  <1>7. FinishedInv'
    <2>1. ASSUME NEW i \in 1..Len(sig'), sig'[i].signal = "finished"
          PROVE  xfer'.stage = "over"
      <3>1. i + 1 \in 1..Len(sig) /\ sig[i + 1].signal = "finished" /\ i + 1 # 1 /\ 1 \in 1..Len(sig)
        BY <1>2, <1>3, <2>1
      <3>2. xfer.stage = "over" /\ s.signal # "finished"
        BY <1>2, <3>1 DEF Inv, BeyondInv, FinishedInv
      <3> QED
        BY <1>1, <3>2
    <2>2. ASSUME NEW i \in 1..Len(sig'), NEW j \in 1..Len(sig'),
                 sig'[i].signal = "finished", sig'[j].signal = "finished"
          PROVE  i = j
      <3>1. /\ i + 1 \in 1..Len(sig) /\ sig[i + 1].signal = "finished"
            /\ j + 1 \in 1..Len(sig) /\ sig[j + 1].signal = "finished"
        BY <1>3, <2>2
      <3>2. i + 1 = j + 1
        BY <3>1 DEF Inv, BeyondInv, FinishedInv
      <3> QED
        BY <1>2, <3>2
    <2> QED
      BY <2>1, <2>2 DEF FinishedInv
  <1>8. ProgressInv'
    <2> SUFFICES ASSUME sig' # <<>>, sig'[Len(sig')].signal = "transferProgress"
                 PROVE  job' # NoJob \/ xfer'.stage \in Running
      BY DEF ProgressInv
    <2>1. sig[Len(sig)].signal = "transferProgress"
      BY <1>2, <1>3
    <2>2. job # NoJob \/ xfer.stage \in Running
      BY <1>1, <2>1 DEF Inv, BeyondInv, ProgressInv
    <2> QED
      BY <1>1, <1>6, <2>2 DEF Running
  <1>9. JobInv' /\ XferInv'
    BY <1>1 DEF Inv, BeyondInv, JobInv, XferInv, NoXfer
  <1>10. PaneInv'
    <2>1. PaneShape(pane)
      BY DEF Inv, PaneInv, Kept
    <2>2. CASE s.signal \in Reports
      <3>1. Kept(Handle(pane, s), Elsewhere')
        BY <2>1, <2>2, HandleSettles
      <3> QED
        BY <1>1, <3>1 DEF PaneInv
    <2>3. CASE s.signal = "transferProgress"
      <3>1. Alike(pane, pane')
        BY <1>1, <2>1, <2>3, ProgressKeeps
      <3>2. Elsewhere'
        <4>1. CASE sig' = <<>>
          <5>1. sig[Len(sig)].signal = "transferProgress"
            BY <1>2, <2>3, <4>1
          <5>2. job # NoJob \/ xfer # NoXfer
            BY <1>1, <5>1 DEF Inv, BeyondInv, ProgressInv, Running, NoXfer
          <5> QED
            BY <1>1, <2>3, <5>2 DEF Elsewhere
        <4>2. CASE sig' # <<>>
          BY <4>2 DEF Elsewhere
        <4> QED
          BY <4>1, <4>2
      <3> QED
        BY <3>1, <3>2 DEF PaneInv, Kept, Settled, Alike
    <2> QED
      BY <1>5, <2>2, <2>3
  <1> QED
    BY <1>4, <1>7, <1>8, <1>9, <1>10 DEF Inv, BeyondInv

(* Files to upload are posted behind what is posted already.                   *)
LEMMA EditedStep == Inv /\ checkEditedFiles => Inv'
  <1> SUFFICES ASSUME Inv, checkEditedFiles PROVE Inv'
    OBVIOUS
  <1> DEFINE order == SetToSeq(Changed)
             posted == [i \in DOMAIN order |->
                 [op |-> "upload", path |-> order[i], to |-> <<"", pane.edited[order[i]].copy>>]]
  <1>1. IsFiniteSet(Paths)
    BY BoundsAssumption, FS_Product DEF Paths
  <1>2. IsFiniteSet(Changed)
    BY <1>1, FS_Subset DEF Changed
  <1>3. Sequence(order)
    BY <1>2, OrderIsSequence
  <1>4. Sequence(posted)
    BY <1>3, MapsToSequence
  <1>5. PaneShape(pane)
    BY DEF Inv, PaneInv, Kept
  <1>6. Sequence(pane.req \o posted)
    BY <1>4, <1>5, Joins DEF PaneShape
  <1>7. /\ ~pane.busy /\ UNCHANGED <<sig, job, xfer>>
        /\ pane' = [pane EXCEPT !.edited = pane'.edited, !.uploads = pane'.uploads,
                                !.req = pane.req \o posted]
    <2> HIDE DEF order
    <2> QED
      BY <1>5 DEF checkEditedFiles, client, PaneShape, Members, order
  <1> HIDE DEF order, posted
  <1>8. PaneShape(pane') /\ pane'.busy = pane.busy
    BY <1>5, <1>6, <1>7 DEF PaneShape, Members
  <1> QED
    BY <1>7, <1>8, WindowKeeps DEF Kept, Settled

LEMMA AskingStep ==
    ASSUME Inv, \/ \E dir \in Dirs : Navigate(dir)
                \/ \E names \in Batches(Names) : Drop(names)
                \/ \E name \in Names : editRemoteFile(name)
    PROVE  Inv'
  <1>1. PaneShape(pane) /\ Kept(pane, Elsewhere)
    BY DEF Inv, PaneInv, Kept
  <1>2. ASSUME NEW dir \in Dirs, Navigate(dir)
        PROVE  Inv'
    <2>1. UNCHANGED <<sig, job, xfer>> /\ pane' = Ask(pane, List(dir))
      BY <1>2 DEF Navigate, Free, AtWork, client
    <2> QED
      BY <1>1, <2>1, AskKeeps, WindowKeeps
  <1>3. ASSUME NEW names \in Batches(Names), Drop(names)
        PROVE  Inv'
    <2>1. UNCHANGED <<sig, job, xfer>> /\ pane' = uploadLocalPathsTo(pane, names)
      BY <1>3 DEF Drop, Opened, Free, AtWork, client
    <2>2. Sequence(names) /\ names # <<>>
      BY BatchesAreSequences
    <2>3. Kept(Batch(pane, "put", names), Elsewhere)
      BY <1>1, <2>2, BatchKeeps
    <2> QED
      BY <1>1, <2>1, <2>3, WindowKeeps DEF uploadLocalPathsTo
  <1>4. ASSUME NEW name \in Names, editRemoteFile(name)
        PROVE  Inv'
    <2> DEFINE path == joinRemote(pane, name)
               copy == pane.edited[path].copy
               q == [pane EXCEPT !.pendingEdit = path]
               r == [pane EXCEPT !.editor[copy] = local[copy]]
    <2>1. /\ UNCHANGED <<sig, job, xfer>>
          /\ pane' = IF pane.edited[path].state # "no" THEN r ELSE Ask(q, Slot("fetch", path))
      BY <1>4 DEF editRemoteFile, Opened, Free, AtWork, client
    <2>2. PaneShape(q) /\ Alike(pane, r)
      BY <1>1 DEF PaneShape, Members, Alike
    <2> HIDE DEF q, r
    <2>3. Kept(r, Elsewhere) /\ Kept(Ask(q, Slot("fetch", path)), Elsewhere)
      BY <1>1, <2>2, AlikeKeeps, AskKeeps
    <2> QED
      BY <2>1, <2>3, WindowKeeps
  <1> QED
    BY <1>2, <1>3, <1>4

LEMMA DialogStep == Inv /\ OpenDialog => Inv'
  <1> SUFFICES ASSUME Inv, NEW kind \in Dialogs, NEW names, Dialog(kind, names),
                      kind \in Batched => Sequence(names) /\ names # <<>>
               PROVE  Inv'
    BY BatchesAreSequences DEF OpenDialog, Dialogs, Batched
  <1> DEFINE f == [kind |-> kind, ok |-> TRUE, names |-> names]
  <1>1. PaneShape(pane)
    BY DEF Inv, PaneInv, Kept
  <1>2. /\ ~pane.busy /\ UNCHANGED <<sig, job, xfer>> /\ pane' = [pane EXCEPT !.frames = <<f>>]
        /\ FrameShape(f)
    BY DEF Dialog, Opened, Free, AtWork, client, FrameShape
  <1> HIDE DEF f
  <1>3. Sequence(<<f>>) /\ 1..Len(<<f>>) = {1} /\ <<f>>[1] = f
    BY OneIsSequence
  <1>4. PaneShape(pane') /\ ~pane'.busy
    <2>1. /\ pane' = [m \in Members |-> pane'[m]] /\ pane'.frames = <<f>>
          /\ pane'.busy = pane.busy /\ pane'.req = pane.req /\ pane'.queue = pane.queue
      BY <1>1, <1>2 DEF PaneShape, Members
    <2>2. \A i \in 1..Len(pane'.frames) : FrameShape(pane'.frames[i])
      BY <1>2, <1>3, <2>1
    <2> QED
      BY <1>1, <1>2, <1>3, <2>1, <2>2 DEF PaneShape
  <1> QED
    BY <1>2, <1>4, WindowKeeps DEF Kept, Settled

LEMMA AnswerStep == Inv /\ Answer => Inv'
  <1> SUFFICES ASSUME Inv, Answer PROVE Inv'
    OBVIOUS
  <1> DEFINE p == [pane EXCEPT !.frames = Front(@)]
             frame == Last(pane.frames)
  <1>1. /\ pane.frames # <<>> /\ UNCHANGED <<sig, job, xfer>>
        /\ pane' = Resume(p, frame) \/ (frame.kind \in Dialogs /\ pane' = p)
    BY DEF Answer, client
  <1>2. /\ PaneShape(p) /\ FrameShape(frame)
        /\ Settled(p, Elsewhere) \/ (frame.kind = "pump" /\ p.queue # <<>>)
    BY <1>1, ClosingKeeps DEF Inv, PaneInv
  <1> HIDE DEF p, frame
  <1>3. Kept(Resume(p, frame), Elsewhere)
    BY <1>2, ResumeKeeps
  <1>4. frame.kind \in Dialogs => Kept(p, Elsewhere)
    BY <1>2 DEF Kept, Dialogs
  <1> QED
    BY <1>1, <1>3, <1>4, WindowKeeps

LEMMA SaveStep == ASSUME Inv, \E name \in Names : SaveInEditor(name) PROVE Inv'
  <1>1. PICK name \in Names : SaveInEditor(name)
    OBVIOUS
  <1>2. UNCHANGED <<sig, job, xfer>> /\ pane' = [pane EXCEPT !.edited = Touched(name)]
    BY <1>1 DEF SaveInEditor, client
  <1>3. Alike(pane, pane')
    BY <1>2 DEF Inv, PaneInv, Kept, PaneShape, Members, Alike
  <1> QED
    BY <1>2, <1>3, AlikeKeeps, WindowKeeps DEF Inv, PaneInv

(* A cancel empties the queue, but never under a box.                          *)
LEMMA CancelStep == Inv /\ cancelTransfers => Inv'
  <1> SUFFICES ASSUME Inv, cancelTransfers PROVE Inv'
    OBVIOUS
  <1>1. /\ pane.frames = <<>> /\ UNCHANGED <<sig, job>>
        /\ pane' = [pane EXCEPT !.cancelling = TRUE, !.queue = <<>>]
        /\ xfer' = IF xfer = NoXfer THEN xfer ELSE [xfer EXCEPT !.cancelled = TRUE]
    BY DEF cancelTransfers
  <1>2. PaneShape(pane')
    BY <1>1, EmptyIsSequence DEF Inv, PaneInv, Kept, PaneShape, Members
  <1>3. /\ DOMAIN xfer' = DOMAIN xfer /\ xfer'.stage = xfer.stage
        /\ xfer = NoXfer <=> xfer' = NoXfer
    BY <1>1 DEF Inv, BeyondInv, XferInv, NoXfer
  <1>4. Settled(pane', Elsewhere')
    <2>1. pane'.busy = pane.busy /\ pane'.req = pane.req
      BY <1>1 DEF Inv, PaneInv, Kept, PaneShape, Members
    <2>2. ~PumpBox(pane)
      <3>1. 1..Len(pane.frames) = {}
        BY <1>1
      <3> QED
        BY <3>1 DEF PumpBox
    <2>3. Elsewhere' = Elsewhere
      BY <1>1, <1>3 DEF Elsewhere
    <2> QED
      BY <2>1, <2>2, <2>3 DEF Inv, PaneInv, Kept, Settled
  <1>5. BeyondInv'
    BY <1>1, <1>3 DEF Inv, BeyondInv, JobInv, XferInv, SigInv, ProgressInv, FinishedInv
  <1> QED
    BY <1>2, <1>4, <1>5 DEF Inv, PaneInv, Kept

LEMMA StartCrossStep ==
    ASSUME Inv, \E names \in Batches(Names) : startCrossTransfer(names)
    PROVE  Inv'
  <1>1. PICK names \in Batches(Names) : startCrossTransfer(names)
    OBVIOUS
  <1>2. /\ UNCHANGED <<sig, job>> /\ xfer = NoXfer
        /\ pane' = [pane EXCEPT !.busy = TRUE, !.canCancel = TRUE]
        /\ xfer' = [NoXfer EXCEPT !.stage = "posted", !.dir = pane.cwd, !.todo = names]
    BY <1>1 DEF startCrossTransfer, Opened, Free, AtWork, client
  <1>3. xfer'.stage = "posted" /\ {"stage", "cancelled"} \subseteq DOMAIN xfer' /\ xfer' # NoXfer
    BY <1>2 DEF NoXfer
  <1>4. PaneShape(pane')
    BY <1>2 DEF Inv, PaneInv, Kept, PaneShape, Members
  <1>5. JobInv' /\ XferInv' /\ SigInv' /\ Elsewhere'
    BY <1>2, <1>3 DEF Inv, BeyondInv, JobInv, XferInv, SigInv, Elsewhere
  <1>6. xfer.stage = "none"
    BY <1>2 DEF NoXfer
  <1>7. ProgressInv' /\ FinishedInv'
    BY <1>2, <1>6 DEF Inv, BeyondInv, ProgressInv, FinishedInv, Running
  <1> QED
    BY <1>4, <1>5, <1>7 DEF Inv, BeyondInv, PaneInv, Kept, Settled

-----------------------------------------------------------------------------
(* The client takes a slot and answers with a signal, or begins a transfer.    *)

LEMMA TakenKeeps ==
    ASSUME PaneInv, pane.req # <<>>
    PROVE  /\ PaneShape(Taken)
           /\ \A edited : PaneShape([Taken EXCEPT !.edited = edited])
  <1>1. Sequence(Tail(pane.req))
    BY Shrinks DEF PaneInv, Kept, PaneShape
  <1> QED
    BY <1>1 DEF Taken, PaneInv, Kept, PaneShape, Members

LEMMA AnswerSlot ==
    ASSUME Inv, PaneShape(pane'), xfer' = xfer, NEW s, s.signal \in Reports \ {"finished"},
           sig' = Append(sig, s), job' = job \/ job' = NoJob
    PROVE  Inv'
  <1>1. SigInv' /\ ProgressInv' /\ FinishedInv' /\ sig' # <<>>
    BY EmitKeeps DEF Inv, BeyondInv, Reports
  <1>2. JobInv' /\ XferInv'
    BY DEF Inv, BeyondInv, JobInv, XferInv, NoJob
  <1>3. PaneInv'
    BY <1>1 DEF PaneInv, Kept, Settled, Elsewhere
  <1> QED
    BY <1>1, <1>2, <1>3 DEF Inv, BeyondInv

LEMMA SlotStep == Inv /\ (connectHost \/ Rejects \/ listDirectory \/ Operation) => Inv'
  <1> SUFFICES ASSUME Inv, connectHost \/ Rejects \/ listDirectory \/ Operation PROVE Inv'
    OBVIOUS
  <1>1. pane.req # <<>> /\ pane' = Taken /\ xfer' = xfer /\ job' = job
    BY DEF connectHost, Rejects, listDirectory, Operation, Takes, client
  <1>2. PaneShape(pane')
    BY <1>1, TakenKeeps DEF Inv
  <1>3. CASE connectHost
    <2>1. \/ sig' = Append(sig, Plain("connected")) \/ sig' = Append(sig, Plain("errorOccurred"))
      BY <1>3 DEF connectHost, Emit
    <2>2. Plain("connected").signal \in Reports \ {"finished"}
          /\ Plain("errorOccurred").signal \in Reports \ {"finished"}
      BY DEF Plain, Reports
    <2> QED
      BY <1>1, <1>2, <2>1, <2>2, AnswerSlot
  <1>4. CASE Rejects
    <2>1. Negative(slot.op).signal \in Reports \ {"finished"}
      BY DEF Negative, Done, Plain, OpDone, Reports
    <2>2. sig' = Append(sig, Negative(slot.op))
      BY <1>4 DEF Rejects, Emit
    <2> QED
      BY <1>1, <1>2, <2>1, <2>2, AnswerSlot
  <1>5. CASE listDirectory
    <2>1. Listed(slot.path[1]).signal \in Reports \ {"finished"}
      BY DEF Listed, Reports
    <2>2. sig' = Append(sig, Listed(slot.path[1]))
      BY <1>5 DEF listDirectory, Emit
    <2> QED
      BY <1>1, <1>2, <2>1, <2>2, AnswerSlot
  <1>6. CASE Operation
    <2>1. \A ok : OpDone(ok).signal \in Reports \ {"finished"}
      BY DEF OpDone, Reports
    <2>2. \E ok : sig' = Append(sig, OpDone(ok))
      BY <1>6 DEF Operation, Emit
    <2> QED
      BY <1>1, <1>2, <2>1, <2>2, AnswerSlot
  <1> QED
    BY <1>3, <1>4, <1>5, <1>6

LEMMA StartStep == Inv /\ StartTransfer => Inv'
  <1> SUFFICES ASSUME Inv, StartTransfer PROVE Inv'
    OBVIOUS
  <1>1. pane.req # <<>> /\ xfer' = xfer
    BY DEF StartTransfer, Takes
  <1>2. CASE Source(slot) = NoFile
    <2>1. Negative(slot.op).signal \in Reports \ {"finished"}
      BY DEF Negative, Done, Plain, OpDone, Reports
    <2>2. pane' = Taken /\ job' = job /\ sig' = Append(sig, Negative(slot.op))
      BY <1>2 DEF StartTransfer, Emit
    <2>3. PaneShape(pane')
      BY <1>1, <2>2, TakenKeeps DEF Inv
    <2> QED
      BY <1>1, <2>1, <2>2, <2>3, AnswerSlot
  <1>3. CASE Source(slot) # NoFile
    <2>1. /\ job' = [op |-> slot.op, path |-> slot.path, to |-> slot.to, stage |-> "open"]
          /\ sig' = sig
      BY <1>3 DEF StartTransfer
    <2>2. \E edited : pane' = [Taken EXCEPT !.edited = edited]
      BY <1>3 DEF StartTransfer
    <2>3. PaneShape(pane')
      BY <1>1, <2>2, TakenKeeps DEF Inv
    <2>4. job' # NoJob /\ JobInv'
      BY <2>1 DEF NoJob, JobInv
    <2> QED
      BY <1>1, <2>1, <2>3, <2>4 DEF Inv, BeyondInv, PaneInv, Kept, Settled, Elsewhere, XferInv,
                                    SigInv, ProgressInv, FinishedInv
  <1> QED
    BY <1>2, <1>3

LEMMA MoveStep == Inv /\ MoveBlock => Inv'
  <1> SUFFICES ASSUME Inv, MoveBlock PROVE Inv'
    OBVIOUS
  <1> DEFINE s == Plain("transferProgress")
  <1>1. /\ job' = [job EXCEPT !.stage = "moving"] /\ sig' = Append(sig, s) /\ xfer' = xfer
        /\ pane' = pane
    BY DEF MoveBlock, InTransfer, Emit
  <1>2. job' # NoJob /\ JobInv'
    BY <1>1 DEF NoJob, JobInv, Inv, BeyondInv
  <1>3. s.signal = "transferProgress"
    BY DEF Plain
  <1> HIDE DEF s
  <1>4. SigInv' /\ ProgressInv' /\ FinishedInv' /\ sig' # <<>>
    BY <1>1, <1>2, <1>3, EmitKeeps DEF Inv, BeyondInv
  <1> QED
    BY <1>1, <1>2, <1>4 DEF Inv, BeyondInv, PaneInv, Kept, Settled, Elsewhere, XferInv

LEMMA EndStep == Inv /\ (EndTransfer \/ CancelTransfer \/ BreakTransfer) => Inv'
  <1> SUFFICES ASSUME Inv, EndTransfer \/ CancelTransfer \/ BreakTransfer PROVE Inv'
    OBVIOUS
  <1>1. job' = NoJob /\ xfer' = xfer
        /\ \E ok, cancelled : sig' = Append(sig, Done(job.op, ok, cancelled))
    BY DEF EndTransfer, CancelTransfer, BreakTransfer, InTransfer, Emit
  <1>2. pane' = pane \/ \E edited : pane' = [pane EXCEPT !.edited = edited]
    BY DEF EndTransfer, CancelTransfer, BreakTransfer
  <1>3. PaneShape(pane')
    BY <1>2 DEF Inv, PaneInv, Kept, PaneShape, Members
  <1>4. \A ok, cancelled : Done(job.op, ok, cancelled).signal \in Reports \ {"finished"}
    BY DEF Done, Reports
  <1> QED
    BY <1>1, <1>3, <1>4, AnswerSlot

(* A cross transfer: every stage leads to the next one, and the last reports.  *)
LEMMA CrossKeepsInv ==
    ASSUME Inv, pane' = pane, job' = job, {"stage", "cancelled"} \subseteq DOMAIN xfer',
           xfer.stage # "over", xfer # NoXfer,
           \/ sig' = sig /\ xfer'.stage \in Running
           \/ sig' = Append(sig, Plain("transferProgress")) /\ xfer'.stage \in Running
           \/ xfer'.stage = "over" /\ \E s : s.signal = "finished" /\ sig' = Append(sig, s)
    PROVE  Inv'
  <1>1. xfer' # NoXfer /\ JobInv' /\ XferInv'
    BY DEF Inv, BeyondInv, JobInv, XferInv, Running, NoXfer
  <1>2. PaneInv'
    BY <1>1 DEF Inv, PaneInv, Kept, Settled, Elsewhere
  <1>3. SigInv' /\ ProgressInv' /\ FinishedInv'
    <2>1. CASE sig' = sig /\ xfer'.stage \in Running
      BY <2>1 DEF Inv, BeyondInv, SigInv, ProgressInv, FinishedInv
    <2>2. CASE sig' = Append(sig, Plain("transferProgress")) /\ xfer'.stage \in Running
      <3>1. Plain("transferProgress").signal = "transferProgress"
        BY DEF Plain
      <3> QED
        BY <2>2, <3>1, EmitKeeps DEF Inv, BeyondInv
    <2>3. CASE xfer'.stage = "over" /\ \E s : s.signal = "finished" /\ sig' = Append(sig, s)
      <3>1. PICK s : s.signal = "finished" /\ sig' = Append(sig, s)
        BY <2>3
      <3> QED
        BY <2>3, <3>1, EmitKeeps DEF Inv, BeyondInv, Reports
    <2> QED
      BY <2>1, <2>2, <2>3
  <1> QED
    BY <1>1, <1>2, <1>3 DEF Inv, BeyondInv

LEMMA CrossStep == Inv /\ Cross => Inv'
  <1> SUFFICES ASSUME Inv, Cross PROVE Inv'
    OBVIOUS
  <1>1. pane' = pane /\ job' = job
    BY DEF Cross, CrossStarts, CrossFile, CrossFileEnds, CrossFails, CrossEnds, CrossReports,
           InCross, client
  <1>2. xfer.stage \in {"posted"} \cup Running /\ xfer # NoXfer /\ xfer.stage # "over"
        /\ {"stage", "cancelled"} \subseteq DOMAIN xfer
    BY DEF Cross, CrossStarts, CrossFile, CrossFileEnds, CrossFails, CrossEnds, CrossReports,
           Running, NoXfer, Inv, BeyondInv, XferInv
  <1>3. CASE CrossStarts \/ CrossFileEnds \/ CrossFails \/ CrossEnds
    <2>1. sig' = sig
      BY <1>3 DEF CrossStarts, CrossFileEnds, CrossFails, CrossEnds
    <2>2. DOMAIN xfer' = DOMAIN xfer /\ xfer'.stage \in Running
      BY <1>2, <1>3 DEF CrossStarts, CrossFileEnds, CrossFails, CrossEnds, Running
    <2> QED
      BY <1>1, <1>2, <2>1, <2>2, CrossKeepsInv
  <1>4. CASE CrossFile
    <2>1. sig' = Append(sig, Plain("transferProgress")) /\ DOMAIN xfer' = DOMAIN xfer
          /\ xfer'.stage \in Running
      BY <1>2, <1>4 DEF CrossFile, Emit, Running
    <2> QED
      BY <1>1, <1>2, <2>1, CrossKeepsInv
  <1>5. CASE CrossReports
    <2>1. DOMAIN xfer' = DOMAIN xfer /\ xfer'.stage = "over"
          /\ \E s : s.signal = "finished" /\ sig' = Append(sig, s)
      BY <1>2, <1>5 DEF CrossReports, Finished, Emit
    <2> QED
      BY <1>1, <1>2, <2>1, CrossKeepsInv
  <1> QED
    BY <1>3, <1>4, <1>5 DEF Cross

-----------------------------------------------------------------------------
(* The pane keeps the reason why it is busy, inside or outside of the window.  *)
THEOREM PaneKnowsWhy == Spec => []Inv
  <1>1. Inv /\ Next => Inv'
    <2> SUFFICES ASSUME Inv, Next PROVE Inv'
      OBVIOUS
    <2>1. CASE OnSignal \/ checkEditedFiles
      BY <2>1, SignalStep, EditedStep
    <2>2. CASE User
      BY <2>2, AskingStep, DialogStep, AnswerStep, StartCrossStep, SaveStep, CancelStep DEF User
    <2>3. CASE Client
      BY <2>3, SlotStep, StartStep, MoveStep, EndStep DEF Client
    <2> QED
      BY <2>1, <2>2, <2>3, CrossStep DEF Next
  <1>2. Inv /\ UNCHANGED vars => Inv'
    BY WindowKeeps DEF vars, client, Inv, PaneInv
  <1> QED
    BY InitInv, <1>1, <1>2, PTL DEF Spec

(* The buttons of a pane are never disabled for good.                          *)
THEOREM PaneIsNeverStuck == Spec => []NeverStuck
  <1>1. Inv => NeverStuck
    <2> SUFFICES ASSUME Inv, pane.busy PROVE Underway \/ pane.frames # <<>>
      BY DEF NeverStuck
    <2>1. PumpBox(pane) => pane.frames # <<>>
      BY EmptySeq DEF PumpBox
    <2> QED
      BY <2>1 DEF Inv, PaneInv, Kept, Settled, Elsewhere, Underway
  <1> QED
    BY PaneKnowsWhy, <1>1, PTL

-----------------------------------------------------------------------------
(* What is posted, signalled and kept.                                         *)

Items == [op : Batched, path : Paths, to : Paths]
Requests ==
    Items
    \cup [op : {"fetch", "mkdir", "remove", "rename"}, path : Paths, to : Paths]
    \cup [op : {"upload"}, path : Paths, to : {""} \X Names]
    \cup [op : {"list"}, path : Dirs \X {""}, to : Dirs \X {""}]
    \cup [op : {"connect"}, path : {NoPath}, to : {NoPath}]
Edits == {NoEdit} \cup [state : {"same", "changed"}, copy : Names]
Files == File \cup {NoFile}
Frames == [kind : Boxes \cup Dialogs, ok : BOOLEAN, names : Seq(Names)]

PaneType ==
    [cwd : Dirs \cup {NoDir}, shown : SUBSET Names, busy : BOOLEAN, cancelling : BOOLEAN,
     canCancel : BOOLEAN, queue : Seq(Items), pendingEdit : Paths \cup {NoPath},
     uploads : Seq(Paths), edited : [Paths -> Edits], editor : [Names -> Files],
     frames : Seq(Frames), req : Seq(Requests)]

(* The parts of the window a request depends on.                               *)
Work(operation) == operation \notin {"list", "upload", "none"}
NoWork(p) == \A i \in 1..Len(p.req) : ~Work(p.req[i].op)

(* What every method of the window leaves: the directory is known once it was  *)
(* known.                                                                      *)
Typed(p, q) == q \in PaneType /\ (q.cwd = p.cwd \/ q.cwd \in Dirs)

(* What the methods leave that begin no work.                                  *)
Keeps(p, q) ==
    /\ Typed(p, q) /\ q.queue = p.queue
    /\ NoWork(p) => NoWork(q)
    /\ q.pendingEdit \in {p.pendingEdit, NoPath}
    /\ (q.canCancel => p.canCancel) /\ (q.cancelling => p.cancelling)
Still(p, q) == Keeps(p, q) /\ q.frames = p.frames

(* One message box at most is shown.                                           *)
Boxed(p, q) ==
    \/ q.frames = p.frames
    \/ \E b \in Frames : b.kind \in Boxes /\ q.frames = Append(p.frames, b)
Lets(p, q) == Keeps(p, q) /\ Boxed(p, q)

LEMMA StillIsStill ==
    ASSUME NEW p \in PaneType
    PROVE  Still(p, p)
  BY DEF Still, Keeps, Typed

LEMMA StillThenLets ==
    ASSUME NEW p, NEW q, NEW r, Still(p, q), Lets(q, r)
    PROVE  Lets(p, r)
  BY DEF Still, Lets, Keeps, Typed, Boxed

LEMMA StillLets == ASSUME NEW p, NEW q, Still(p, q) PROVE Lets(p, q)
  BY DEF Still, Lets, Boxed

-----------------------------------------------------------------------------
(* The methods of the window, one by one.                                      *)

LEMMA BusyStill ==
    ASSUME NEW p \in PaneType, NEW busy \in BOOLEAN
    PROVE  Still(p, setBusy(p, busy)) /\ setBusy(p, busy).req = p.req
           /\ setBusy(p, busy).uploads = p.uploads /\ setBusy(p, busy).busy = busy
           /\ setBusy(p, busy).pendingEdit = p.pendingEdit
  BY DEF setBusy, PaneType, Still, Keeps, Typed, NoWork

LEMMA PostTyped ==
    ASSUME NEW p \in PaneType, NEW r \in Requests
    PROVE  LET q == Post(p, r) IN
           /\ q \in PaneType /\ q.req = Append(p.req, r)
           /\ \A m \in Members \ {"req"} : q[m] = p[m]
  <1>1. Append(p.req, r) \in Seq(Requests)
    BY DEF PaneType
  <1> QED
    BY <1>1 DEF Post, PaneType, Members

LEMMA NoWorkGrows ==
    ASSUME NEW p \in PaneType, NEW q, NEW r \in Requests, q.req = Append(p.req, r),
           NoWork(p), ~Work(r.op)
    PROVE  NoWork(q)
  BY DEF PaneType, NoWork

LEMMA AskTyped ==
    ASSUME NEW p \in PaneType, NEW r \in Requests
    PROVE  LET q == Ask(p, r) IN
           /\ q \in PaneType /\ q.req = Append(p.req, r) /\ q.busy
           /\ \A m \in Members \ {"req", "busy"} : q[m] = p[m]
  <1> DEFINE b == setBusy(p, TRUE)
  <1>1. b \in PaneType /\ b.busy = TRUE /\ \A m \in Members \ {"busy"} : b[m] = p[m]
    BY DEF setBusy, PaneType, Members
  <1> HIDE DEF b
  <1>2. Ask(p, r) = Post(b, r)
    BY DEF Ask, b
  <1> QED
    BY <1>1, <1>2, PostTyped DEF Members

LEMMA AskStill ==
    ASSUME NEW p \in PaneType, NEW r \in Requests, ~Work(r.op)
    PROVE  Still(p, Ask(p, r)) /\ Ask(p, r).uploads = p.uploads
           /\ Ask(p, r).pendingEdit = p.pendingEdit
  <1> DEFINE q == Ask(p, r)
  <1>1. /\ q \in PaneType /\ q.req = Append(p.req, r)
        /\ \A m \in Members \ {"req", "busy"} : q[m] = p[m]
    BY AskTyped
  <1> HIDE DEF q
  <1>2. NoWork(p) => NoWork(q)
    BY <1>1, NoWorkGrows
  <1>3. /\ q.cwd = p.cwd /\ q.queue = p.queue /\ q.pendingEdit = p.pendingEdit
        /\ q.canCancel = p.canCancel /\ q.cancelling = p.cancelling /\ q.frames = p.frames
        /\ q.uploads = p.uploads
    BY <1>1 DEF Members
  <1>4. Still(p, q)
    BY <1>1, <1>2, <1>3 DEF Still, Keeps, Typed
  <1> QED
    BY <1>3, <1>4 DEF q

LEMMA ListIsRequest ==
    ASSUME NEW dir \in Dirs
    PROVE  List(dir) \in Requests /\ ~Work(List(dir).op)
  BY DEF List, Slot, Requests, Work

LEMMA RefreshStill ==
    ASSUME NEW p \in PaneType
    PROVE  Still(p, refresh(p)) /\ refresh(p).uploads = p.uploads
           /\ refresh(p).pendingEdit = p.pendingEdit
  <1> DEFINE dir == IF p.cwd = NoDir THEN Home ELSE p.cwd
  <1>1. dir \in Dirs
    BY BoundsAssumption DEF PaneType
  <1>2. refresh(p) = IF p.busy /\ p.cwd = NoDir THEN p ELSE Ask(p, List(dir))
    BY DEF refresh
  <1> HIDE DEF dir
  <1> QED
    BY <1>1, <1>2, ListIsRequest, AskStill, StillIsStill

LEMMA BoxLets ==
    ASSUME NEW p \in PaneType, NEW rest \in Boxes, NEW ok \in BOOLEAN
    PROVE  LET b == [kind |-> rest, ok |-> ok, names |-> <<>>]
               q == Box(p, rest, ok)
           IN  /\ b \in Frames /\ q.frames = Append(p.frames, b)
               /\ Lets(p, q) /\ \A m \in Members \ {"frames"} : q[m] = p[m]
  <1> DEFINE b == [kind |-> rest, ok |-> ok, names |-> <<>>]
             q == Box(p, rest, ok)
  <1>1. b \in Frames /\ b.kind \in Boxes
    BY DEF Frames
  <1>2. q = [p EXCEPT !.frames = Append(p.frames, b)]
    BY DEF Box
  <1> HIDE DEF b, q
  <1>3. Append(p.frames, b) \in Seq(Frames)
    BY <1>1 DEF PaneType
  <1>4. q \in PaneType /\ q.frames = Append(p.frames, b)
    BY <1>2, <1>3 DEF PaneType
  <1>5. \A m \in Members \ {"frames"} : q[m] = p[m]
    BY <1>2 DEF PaneType, Members
  <1>6. /\ q.cwd = p.cwd /\ q.queue = p.queue /\ q.pendingEdit = p.pendingEdit /\ q.req = p.req
        /\ q.canCancel = p.canCancel /\ q.cancelling = p.cancelling
    BY <1>5 DEF Members
  <1>7. Lets(p, q)
    BY <1>1, <1>4, <1>6 DEF Lets, Keeps, Typed, Boxed, NoWork
  <1> QED
    BY <1>1, <1>4, <1>5, <1>7 DEF q, b
LEMMA PathParts ==
    ASSUME NEW path \in Paths
    PROVE  path[1] \in Dirs /\ path[2] \in Names
  BY DEF Paths

LEMMA DownloadedLets ==
    ASSUME local \in [Names -> Files], NEW p \in PaneType, NEW ok \in BOOLEAN, NEW path \in Paths
    PROVE  Lets(p, onDownloadedForEdit(p, ok, path))
           /\ onDownloadedForEdit(p, ok, path).pendingEdit = p.pendingEdit
  <1> DEFINE name == path[2]
             e == [p EXCEPT !.edited[path] = Editing("same", name), !.editor[name] = local[name]]
             f == setBusy(p, FALSE)
  <1>1. name \in Names
    BY PathParts
  <1>2. f \in PaneType /\ Still(p, f) /\ f.pendingEdit = p.pendingEdit
    BY BusyStill DEF Still, Keeps, Typed
  <1>3. onDownloadedForEdit(p, ok, path) =
            IF ~ok THEN Box(f, "nothing", ok)
            ELSE IF local[name] = NoFile THEN f ELSE setBusy(e, FALSE)
    BY DEF onDownloadedForEdit
  <1> HIDE DEF f
  <1>4. Lets(p, Box(f, "nothing", ok)) /\ Box(f, "nothing", ok).pendingEdit = f.pendingEdit
    <2> DEFINE g == Box(f, "nothing", ok)
    <2>1. "nothing" \in Boxes /\ "pendingEdit" \in Members \ {"frames"}
      BY DEF Boxes, Members
    <2>2. Lets(f, g) /\ \A m \in Members \ {"frames"} : g[m] = f[m]
      BY <1>2, <2>1, BoxLets
    <2> HIDE DEF g
    <2>3. Lets(p, g) /\ g.pendingEdit = f.pendingEdit
      BY <1>2, <2>1, <2>2, StillThenLets
    <2> QED
      BY <2>3 DEF g
  <1>5. Still(p, e) /\ e \in PaneType /\ e.pendingEdit = p.pendingEdit
    <2>1. /\ Editing("same", name) \in Edits /\ local[name] \in Files
          /\ p.edited \in [Paths -> Edits] /\ p.editor \in [Names -> Files]
      BY <1>1 DEF Editing, Edits, PaneType
    <2> DEFINE d == [p.edited EXCEPT ![path] = Editing("same", name)]
               t == [p.editor EXCEPT ![name] = local[name]]
    <2>2. d \in [Paths -> Edits] /\ t \in [Names -> Files]
      BY <2>1
    <2>3. e = [p EXCEPT !.edited = d, !.editor = t]
      BY DEF PaneType
    <2> HIDE DEF d, t, e
    <2>4. e \in PaneType
      BY <2>2, <2>3 DEF PaneType
    <2> QED
      BY <2>3, <2>4 DEF PaneType, Still, Keeps, Typed, NoWork
  <1> HIDE DEF e
  <1>6. Still(p, setBusy(e, FALSE)) /\ setBusy(e, FALSE).pendingEdit = p.pendingEdit
    BY <1>5, BusyStill DEF Still, Keeps, Typed, NoWork
  <1> QED
    BY <1>2, <1>3, <1>4, <1>6, StillLets

(* The second handler: nothing is pending after it.                            *)
LEMMA RouteLets ==
    ASSUME local \in [Names -> Files], NEW p \in PaneType, NEW ok \in BOOLEAN
    PROVE  LET q == Route(p, ok) IN
           /\ Lets(p, q) /\ q.pendingEdit = NoPath
           /\ p.pendingEdit = NoPath => \A m \in Members \ {"uploads"} : q[m] = p[m]
  <1>1. CASE p.pendingEdit # NoPath
    <2> DEFINE e == [p EXCEPT !.pendingEdit = NoPath]
    <2>1. Still(p, e) /\ e \in PaneType /\ e.pendingEdit = NoPath
      BY DEF PaneType, Still, Keeps, Typed, NoWork
    <2>2. p.pendingEdit \in Paths
      BY <1>1 DEF PaneType
    <2>3. Route(p, ok) = onDownloadedForEdit(e, ok, p.pendingEdit)
      BY <1>1 DEF Route
    <2> HIDE DEF e
    <2> QED
      BY <1>1, <2>1, <2>2, <2>3, DownloadedLets, StillThenLets
  <1>2. CASE p.pendingEdit = NoPath
    <2> DEFINE u == IF p.uploads = <<>> THEN p.uploads ELSE Tail(p.uploads)
               e == [p EXCEPT !.uploads = u]
    <2>1. u \in Seq(Paths)
      BY DEF PaneType
    <2>2. Route(p, ok) = e
      BY <1>2 DEF Route
    <2> HIDE DEF u
    <2>3. e \in PaneType /\ \A m \in Members \ {"uploads"} : e[m] = p[m]
      BY <2>1 DEF PaneType, Members
    <2> HIDE DEF e
    <2>4. Still(p, e) /\ e.pendingEdit = NoPath
      BY <1>2, <2>3 DEF Members, Still, Keeps, Typed, NoWork
    <2> QED
      BY <2>2, <2>3, <2>4, StillLets
  <1> QED
    BY <1>1, <1>2

LEMMA PumpTyped ==
    ASSUME NEW p \in PaneType
    PROVE  LET q == pumpQueue(p) IN
           /\ q \in PaneType
           /\ p.queue = <<>> => q = p
           /\ p.queue # <<>> => /\ q.req = Append(p.req, Head(p.queue)) /\ Head(p.queue) \in Items
                                /\ \A m \in Members \ {"req", "queue"} : q[m] = p[m]
  <1>1. CASE p.queue = <<>>
    BY <1>1 DEF pumpQueue
  <1>2. CASE p.queue # <<>>
    <2> DEFINE e == [p EXCEPT !.queue = Tail(p.queue)]
               r == Head(p.queue)
    <2>0. p.queue \in Seq(Items)
      BY DEF PaneType
    <2>1. Tail(p.queue) \in Seq(Items) /\ r \in Items
      BY <1>2, <2>0, HeadTailProperties
    <2>2. e \in PaneType /\ \A m \in Members \ {"queue"} : e[m] = p[m]
      BY <2>1 DEF PaneType, Members
    <2>3. pumpQueue(p) = Post(e, r)
      BY <1>2 DEF pumpQueue
    <2> HIDE DEF e, r
    <2>6. r \in Requests
      BY <2>1 DEF Requests
    <2>4. /\ Post(e, r) \in PaneType /\ Post(e, r).req = Append(e.req, r)
          /\ \A m \in Members \ {"req"} : Post(e, r)[m] = e[m]
      BY <2>2, <2>6, PostTyped
    <2>5. e.req = p.req
      BY <2>2 DEF Members
    <2> QED
      BY <1>2, <2>1, <2>2, <2>3, <2>4, <2>5 DEF r, Members
  <1> QED
    BY <1>1, <1>2

(* A transfer after which the pane is refreshed, or nothing waits.             *)
LEMMA AfterLets ==
    ASSUME local \in [Names -> Files], NEW p \in PaneType, NEW rest, NEW ok \in BOOLEAN,
           rest = "refresh" \/ p.queue = <<>>
    PROVE  Lets(p, AfterTransfer(p, rest, ok)) /\ AfterTransfer(p, rest, ok).pendingEdit = NoPath
  <1>1. CASE rest = "refresh"
    <2>1. Still(p, refresh(p)) /\ refresh(p) \in PaneType
      BY RefreshStill DEF Still, Keeps, Typed
    <2> QED
      BY <1>1, <2>1, RouteLets, StillThenLets DEF AfterTransfer
  <1>2. CASE rest # "refresh"
    BY <1>2, PumpTyped, RouteLets DEF AfterTransfer
  <1> QED
    BY <1>1, <1>2

(* The next file of a batch is asked for.                                      *)
LEMMA NextFile ==
    ASSUME local \in [Names -> Files], NEW p \in PaneType, NEW rest, NEW ok \in BOOLEAN,
           rest # "refresh", p.queue # <<>>
    PROVE  LET q == AfterTransfer(p, rest, ok) IN
           /\ Typed(p, q) /\ Boxed(p, q)
           /\ p.pendingEdit = NoPath =>
                 /\ q.req = Append(p.req, Head(p.queue)) /\ Head(p.queue) \in Items
                 /\ \A m \in Members \ {"req", "queue", "uploads"} : q[m] = p[m]
  <1> DEFINE e == pumpQueue(p)
             q == AfterTransfer(p, rest, ok)
  <1>1. /\ e \in PaneType
        /\ e.req = Append(p.req, Head(p.queue)) /\ Head(p.queue) \in Items
        /\ \A m \in Members \ {"req", "queue"} : e[m] = p[m]
    BY PumpTyped
  <1>2. q = Route(e, ok)
    BY DEF AfterTransfer
  <1> HIDE DEF e, q
  <1>3. e.cwd = p.cwd /\ e.frames = p.frames /\ e.pendingEdit = p.pendingEdit
    BY <1>1 DEF Members
  <1>4. /\ Lets(e, q)
        /\ e.pendingEdit = NoPath => \A m \in Members \ {"uploads"} : q[m] = e[m]
    BY <1>1, <1>2, RouteLets
  <1>5. Typed(p, q) /\ Boxed(p, q)
    BY <1>3, <1>4 DEF Lets, Keeps, Typed, Boxed
  <1>6. ASSUME p.pendingEdit = NoPath
        PROVE  /\ q.req = Append(p.req, Head(p.queue))
               /\ \A m \in Members \ {"req", "queue", "uploads"} : q[m] = p[m]
    BY <1>1, <1>3, <1>4, <1>6 DEF Members
  <1> QED
    BY <1>1, <1>5, <1>6 DEF q
Calm(p) == ~p.canCancel /\ ~p.cancelling

(* What a transfer leaves that was the last one, or was cancelled.             *)
Concludes(p, q) ==
    /\ q.queue = <<>> /\ (NoWork(p) => NoWork(q)) /\ Calm(q)
    /\ \/ q.pendingEdit = NoPath
       \/ \E b \in Frames : b.kind = "refresh" /\ q.frames = Append(p.frames, b)

(* What one leaves after which another file is to follow: the request for it,  *)
(* or a message box that waits with it.                                        *)
GoesOn(p, q) ==
    /\ Calm(q) /\ q.pendingEdit = NoPath /\ q.busy = p.busy
    /\ \/ /\ q.frames = p.frames
          /\ \E r \in Items : q.req = Append(p.req, r)
       \/ /\ q.queue # <<>> /\ q.req = p.req
          /\ \E b \in Frames : b.kind = "pump" /\ q.frames = Append(p.frames, b)

LEMMA FinishedTyped ==
    ASSUME local \in [Names -> Files], NEW p \in PaneType, NEW ok \in BOOLEAN,
           NEW cancelled \in BOOLEAN
    PROVE  LET q == transferFinished(p, ok, cancelled) IN
           /\ Typed(p, q) /\ Boxed(p, q)
           /\ p.queue = <<>> \/ p.cancelling => Concludes(p, q)
           /\ p.queue # <<>> /\ ~p.cancelling /\ p.pendingEdit = NoPath => GoesOn(p, q)
  <1> DEFINE over == p.queue = <<>> \/ p.cancelling
             rest == IF over THEN "refresh" ELSE "pump"
             left == IF over THEN <<>> ELSE p.queue
             busy == p.busy /\ ~over
             q == [p EXCEPT !.cancelling = FALSE, !.canCancel = FALSE, !.busy = busy,
                            !.queue = left]
             good == ok \/ cancelled \/ p.cancelling
             r == transferFinished(p, ok, cancelled)
  <1>1. r = IF good THEN AfterTransfer(q, rest, ok) ELSE Box(q, rest, ok)
    BY DEF transferFinished
  <1>2. rest \in Boxes /\ left \in Seq(Items) /\ busy \in BOOLEAN
    BY DEF Boxes, PaneType
  <1>3. /\ q \in PaneType /\ Calm(q) /\ q.queue = left /\ q.busy = busy
        /\ q.cwd = p.cwd /\ q.frames = p.frames /\ q.pendingEdit = p.pendingEdit /\ q.req = p.req
    <2> HIDE DEF left, busy
    <2> QED
      BY <1>2 DEF PaneType, Calm
  <1> HIDE DEF q, r
  <1>4. CASE over
    <2>1. rest = "refresh" /\ left = <<>>
      BY <1>4
    <2>2. CASE good
      <3>1. Lets(q, r) /\ r.pendingEdit = NoPath
        BY <1>1, <1>3, <2>1, <2>2, AfterLets
      <3>2. Typed(p, r) /\ Boxed(p, r) /\ Concludes(p, r)
        BY <1>3, <2>1, <3>1 DEF Lets, Keeps, Typed, Boxed, Concludes, Calm, NoWork
      <3> QED
        BY <1>4, <3>2 DEF r
    <2>3. CASE ~good
      <3>1. /\ Lets(q, r) /\ \E b \in Frames : b.kind = "refresh" /\ r.frames = Append(q.frames, b)
        BY <1>1, <1>2, <1>3, <2>1, <2>3, BoxLets
      <3>2. Typed(p, r) /\ Boxed(p, r) /\ Concludes(p, r)
        BY <1>3, <2>1, <3>1 DEF Lets, Keeps, Typed, Boxed, Concludes, Calm, NoWork
      <3> QED
        BY <1>4, <3>2 DEF r
    <2> QED
      BY <2>2, <2>3
  <1>5. CASE ~over
    <2>1. rest = "pump" /\ rest # "refresh" /\ left = p.queue /\ left # <<>> /\ busy = p.busy
      BY <1>5 DEF PaneType
    <2>2. CASE good
      <3>1. /\ Typed(q, r) /\ Boxed(q, r)
            /\ q.pendingEdit = NoPath =>
                  /\ \E x \in Items : r.req = Append(q.req, x)
                  /\ \A m \in Members \ {"req", "queue", "uploads"} : r[m] = q[m]
        BY <1>1, <1>3, <2>1, <2>2, NextFile
      <3>2. Typed(p, r) /\ Boxed(p, r)
        BY <1>3, <3>1 DEF Typed, Boxed
      <3>3. p.pendingEdit = NoPath => GoesOn(p, r)
        BY <1>3, <2>1, <3>1 DEF GoesOn, Calm, Members
      <3> QED
        BY <1>5, <3>2, <3>3 DEF r
    <2>3. CASE ~good
      <3>1. /\ Lets(q, r) /\ \E b \in Frames : b.kind = "pump" /\ r.frames = Append(q.frames, b)
            /\ \A m \in Members \ {"frames"} : r[m] = q[m]
        BY <1>1, <1>2, <1>3, <2>1, <2>3, BoxLets
      <3>2. Typed(p, r) /\ Boxed(p, r)
        BY <1>3, <3>1 DEF Lets, Keeps, Typed, Boxed
      <3>3. p.pendingEdit = NoPath => GoesOn(p, r)
        BY <1>3, <2>1, <3>1 DEF GoesOn, Calm, Members
      <3> QED
        BY <1>5, <3>2, <3>3 DEF r
    <2> QED
      BY <2>2, <2>3
  <1> QED
    BY <1>4, <1>5 DEF r

LEMMA OperationLets ==
    ASSUME NEW p \in PaneType, NEW ok \in BOOLEAN
    PROVE  Lets(p, operationFinished(p, ok))
  <1> DEFINE f == setBusy(p, FALSE)
  <1>1. Still(p, f) /\ f \in PaneType
    BY BusyStill DEF Still, Keeps, Typed
  <1>2. operationFinished(p, ok) = IF ok THEN refresh(f) ELSE Box(f, "nothing", ok)
    BY DEF operationFinished
  <1> HIDE DEF f
  <1>3. Lets(f, refresh(f)) /\ Lets(f, Box(f, "nothing", ok))
    <2>1. "nothing" \in Boxes
      BY DEF Boxes
    <2> QED
      BY <1>1, <2>1, RefreshStill, StillLets, BoxLets
  <1> QED
    BY <1>1, <1>2, <1>3, StillThenLets

LEMMA CrossLets ==
    ASSUME NEW p \in PaneType, NEW ok \in BOOLEAN, NEW cancelled \in BOOLEAN
    PROVE  Lets(p, crossFinished(p, ok, cancelled)) /\ Calm(crossFinished(p, ok, cancelled))
  <1> DEFINE q == [p EXCEPT !.cancelling = FALSE, !.canCancel = FALSE, !.busy = FALSE]
  <1>1. Still(p, q) /\ q \in PaneType /\ Calm(q)
    BY DEF PaneType, Still, Keeps, Typed, NoWork, Calm
  <1>2. crossFinished(p, ok, cancelled) =
            IF ok \/ cancelled \/ p.cancelling THEN refresh(q) ELSE Box(q, "list", ok)
    BY DEF crossFinished
  <1> HIDE DEF q
  <1>3. Lets(q, refresh(q)) /\ Lets(q, Box(q, "list", ok))
    <2>1. "list" \in Boxes
      BY DEF Boxes
    <2> QED
      BY <1>1, <2>1, RefreshStill, StillLets, BoxLets
  <1>4. ASSUME NEW r, Lets(q, r) PROVE Lets(p, r) /\ Calm(r)
    BY <1>1, <1>4, StillThenLets DEF Lets, Keeps, Calm
  <1> QED
    BY <1>2, <1>3, <1>4

-----------------------------------------------------------------------------
(* The signals.                                                                *)

Signals ==
    [signal : {"connected", "errorOccurred", "transferProgress"}]
    \cup [signal : {"directoryListed"}, dir : Dirs, names : SUBSET Names]
    \cup [signal : {"transferFinished"}, op : Transfers, ok : BOOLEAN, cancelled : BOOLEAN]
    \cup [signal : {"operationFinished"}, ok : BOOLEAN]
    \cup [signal : {"finished"}, ok : BOOLEAN, cancelled : BOOLEAN]

IsEnd(s) == s.signal = "transferFinished"
IsProgress(s) == s.signal = "transferProgress"

LEMMA SignalParts ==
    ASSUME NEW s \in Signals
    PROVE  /\ s.signal \in Reports \cup {"transferProgress"}
           /\ s.signal = "directoryListed" => s.dir \in Dirs /\ s.names \subseteq Names
           /\ IsEnd(s) => s.op \in Transfers /\ s.ok \in BOOLEAN /\ s.cancelled \in BOOLEAN
           /\ s.signal = "operationFinished" => s.ok \in BOOLEAN
           /\ s.signal = "finished" => s.ok \in BOOLEAN /\ s.cancelled \in BOOLEAN
  BY DEF Signals, Reports, IsEnd

LEMMA OtherSignalLets ==
    ASSUME NEW p \in PaneType, NEW s \in Signals, ~IsEnd(s), ~IsProgress(s)
    PROVE  Lets(p, Handle(p, s)) /\ (s.signal = "finished" => Calm(Handle(p, s)))
  <1>1. CASE s.signal = "connected"
    <2> DEFINE q == [p EXCEPT !.cwd = Home, !.busy = FALSE]
    <2>1. Still(p, q) /\ q \in PaneType
      BY BoundsAssumption DEF PaneType, Still, Keeps, Typed, NoWork
    <2>2. Handle(p, s) = refresh(q)
      BY <1>1 DEF Handle
    <2> HIDE DEF q
    <2> QED
      BY <1>1, <2>1, <2>2, RefreshStill, StillLets, StillThenLets
  <1>2. CASE s.signal = "directoryListed"
    <2> DEFINE q == [p EXCEPT !.cwd = s.dir, !.shown = s.names, !.busy = FALSE]
    <2>1. s.dir \in Dirs /\ s.names \subseteq Names
      BY <1>2, SignalParts
    <2>2. Handle(p, s) = q
      BY <1>2 DEF Handle
    <2>3. Still(p, q)
      BY <2>1 DEF PaneType, Still, Keeps, Typed, NoWork
    <2> QED
      BY <1>2, <2>2, <2>3, StillLets
  <1>3. CASE s.signal = "errorOccurred"
    <2> DEFINE f == setBusy(p, FALSE)
    <2>1. Still(p, f) /\ f \in PaneType
      BY BusyStill DEF Still, Keeps, Typed
    <2>2. Handle(p, s) = Box(f, "nothing", FALSE)
      BY <1>3 DEF Handle
    <2>3. "nothing" \in Boxes
      BY DEF Boxes
    <2> HIDE DEF f
    <2> QED
      BY <1>3, <2>1, <2>2, <2>3, BoxLets, StillThenLets
  <1>4. CASE s.signal = "operationFinished"
    BY <1>4, SignalParts, OperationLets DEF Handle
  <1>5. CASE s.signal = "finished"
    BY <1>5, SignalParts, CrossLets DEF Handle
  <1> QED
    BY <1>1, <1>2, <1>3, <1>4, <1>5, SignalParts DEF IsEnd, IsProgress, Reports

LEMMA ProgressTyped ==
    ASSUME NEW p \in PaneType, NEW s, IsProgress(s)
    PROVE  LET q == Handle(p, s) IN
           q \in PaneType /\ q.canCancel /\ \A m \in Members \ {"canCancel"} : q[m] = p[m]
  <1>1. Handle(p, s) = [p EXCEPT !.canCancel = TRUE]
    BY DEF Handle, IsProgress
  <1> QED
    BY <1>1 DEF PaneType, Members

LEMMA EndTyped ==
    ASSUME local \in [Names -> Files], NEW p \in PaneType, NEW s \in Signals, IsEnd(s)
    PROVE  LET q == Handle(p, s) IN
           /\ Typed(p, q) /\ Boxed(p, q)
           /\ p.queue = <<>> \/ p.cancelling => Concludes(p, q)
           /\ p.queue # <<>> /\ ~p.cancelling /\ p.pendingEdit = NoPath => GoesOn(p, q)
  BY SignalParts, FinishedTyped DEF Handle, IsEnd
-----------------------------------------------------------------------------
(* The boxes and dialogs.                                                      *)

(* A dialog is opened in a directory and has what it asks for.                 *)
Asks(f) ==
    /\ f.kind \in Dialogs => f.names # <<>>
    /\ f.kind = "rename" => Len(f.names) >= 2
FramesAsk(p) ==
    \A i \in 1..Len(p.frames) :
        Asks(p.frames[i]) /\ (p.frames[i].kind \in Dialogs => p.cwd \in Dirs)

(* The beginning of something the user waits for.                              *)
Begins(p, q) ==
    /\ Typed(p, q) /\ q.busy /\ q.frames = p.frames
    /\ q.canCancel = p.canCancel /\ q.cancelling = p.cancelling
    /\ \E r \in Requests :
          /\ Work(r.op) /\ q.req = Append(p.req, r)
          /\ q.queue = p.queue \/ r.op \in Batched
          /\ q.pendingEdit = p.pendingEdit \/ r.op = "fetch"

LEMMA SlotIsRequest ==
    ASSUME NEW p \in PaneType, p.cwd \in Dirs, NEW name \in Names,
           NEW operation \in Batched \cup {"fetch", "mkdir", "remove"}
    PROVE  LET r == Slot(operation, joinRemote(p, name)) IN
           /\ joinRemote(p, name) \in Paths /\ r \in Requests /\ r.op = operation /\ Work(r.op)
           /\ operation \in Batched => r \in Items
  <1>1. joinRemote(p, name) \in Paths
    BY DEF joinRemote, Paths
  <1> QED
    BY <1>1 DEF Slot, Requests, Items, Batched, Work

LEMMA AskBegins ==
    ASSUME NEW p \in PaneType, NEW r \in Requests, Work(r.op)
    PROVE  Begins(p, Ask(p, r))
  <1> DEFINE q == Ask(p, r)
  <1>1. /\ q \in PaneType /\ q.req = Append(p.req, r) /\ q.busy
        /\ \A m \in Members \ {"req", "busy"} : q[m] = p[m]
    BY AskTyped
  <1> HIDE DEF q
  <1>2. /\ q.cwd = p.cwd /\ q.queue = p.queue /\ q.pendingEdit = p.pendingEdit
        /\ q.canCancel = p.canCancel /\ q.cancelling = p.cancelling /\ q.frames = p.frames
    BY <1>1 DEF Members
  <1>3. Begins(p, q)
    BY <1>1, <1>2 DEF Begins, Typed
  <1> QED
    BY <1>3 DEF q

LEMMA BatchBegins ==
    ASSUME NEW p \in PaneType, p.cwd \in Dirs, NEW operation \in Batched,
           NEW names \in Seq(Names), names # <<>>
    PROVE  Begins(p, Batch(p, operation, names))
  <1> DEFINE items == [i \in DOMAIN names |-> Slot(operation, joinRemote(p, names[i]))]
             e == [p EXCEPT !.queue = items, !.busy = TRUE]
             q == pumpQueue(e)
  <1>1. Batch(p, operation, names) = q
    BY DEF Batch, setBusy, PaneType
  <1>2. DOMAIN names = 1..Len(names) /\ Len(names) \in Nat /\ Len(names) # 0
    BY EmptySeq
  <1>3. ASSUME NEW i \in DOMAIN names PROVE Slot(operation, joinRemote(p, names[i])) \in Items
    <2>1. names[i] \in Names
      OBVIOUS
    <2> QED
      BY <2>1, SlotIsRequest
  <1>4. items \in Seq(Items) /\ items # <<>>
    <2> DEFINE n == Len(names)
    <2>1. items \in [1..n -> Items] /\ n \in Nat
      BY <1>2, <1>3
    <2> HIDE DEF items
    <2>2. items \in Seq(Items) /\ Len(items) = n
      BY <2>1
    <2> QED
      BY <1>2, <2>2, EmptySeq
  <1> HIDE DEF items
  <1>5. /\ e \in PaneType /\ e.queue = items /\ e.busy = TRUE /\ e.cwd = p.cwd /\ e.req = p.req
        /\ e.pendingEdit = p.pendingEdit /\ e.frames = p.frames
        /\ e.canCancel = p.canCancel /\ e.cancelling = p.cancelling
    BY <1>4 DEF PaneType
  <1> HIDE DEF e
  <1>6. /\ q \in PaneType /\ q.req = Append(e.req, Head(e.queue)) /\ Head(e.queue) \in Items
        /\ \A m \in Members \ {"req", "queue"} : q[m] = e[m]
    BY <1>4, <1>5, PumpTyped
  <1> HIDE DEF q
  <1>7. /\ q.cwd = p.cwd /\ q.pendingEdit = p.pendingEdit /\ q.busy = TRUE
        /\ q.canCancel = p.canCancel /\ q.cancelling = p.cancelling /\ q.frames = p.frames
    BY <1>5, <1>6 DEF Members
  <1>8. \A r \in Items : r \in Requests /\ Work(r.op) /\ r.op \in Batched
    BY DEF Items, Requests, Work, Batched
  <1>9. Begins(p, q)
    BY <1>5, <1>6, <1>7, <1>8 DEF Begins, Typed
  <1> QED
    BY <1>1, <1>9

LEMMA RenameBegins ==
    ASSUME NEW p \in PaneType, p.cwd \in Dirs, NEW from \in Names, NEW to \in Names
    PROVE  Begins(p, renameSelected(p, from, to))
  <1> DEFINE old == joinRemote(p, from)
             new == joinRemote(p, to)
             r == [op |-> "rename", path |-> old, to |-> new]
             q == Ask(p, r)
             d == [[q.edited EXCEPT ![new] = p.edited[old]] EXCEPT ![old] = NoEdit]
             e == [q EXCEPT !.edited = d]
  <1>1. old \in Paths /\ new \in Paths
    BY DEF joinRemote, Paths
  <1>2. r \in Requests /\ Work(r.op)
    BY <1>1 DEF Requests, Work
  <1> HIDE DEF r
  <1>3. renameSelected(p, from, to) = IF p.edited[old].state = "no" THEN q ELSE e
    BY DEF renameSelected, r
  <1>4. Begins(p, q) /\ q \in PaneType
    BY <1>2, AskBegins DEF Begins, Typed
  <1>5. p.edited[old] \in Edits /\ NoEdit \in Edits /\ q.edited \in [Paths -> Edits]
    BY <1>1, <1>4 DEF PaneType, Edits
  <1>6. d \in [Paths -> Edits]
    BY <1>1, <1>5
  <1> HIDE DEF q, d
  <1>7. Begins(p, e)
    BY <1>4, <1>6 DEF Begins, Typed, PaneType
  <1> QED
    BY <1>3, <1>4, <1>7

LEMMA DialogBegins ==
    ASSUME NEW p \in PaneType, NEW f \in Frames, f.kind \in Dialogs, Asks(f), p.cwd \in Dirs
    PROVE  Resume(p, f) = p \/ Begins(p, Resume(p, f))
  <1>1. f.names \in Seq(Names) /\ f.names # <<>> /\ Len(f.names) >= 1 /\ f.names[1] \in Names
    BY EmptySeq DEF Frames, Asks
  <1>2. CASE f.kind = "download"
    <2>1. Resume(p, f) = Batch(p, "download", f.names)
      BY <1>2 DEF Resume
    <2> QED
      BY <1>1, <2>1, BatchBegins DEF Batched
  <1>3. CASE f.kind = "put"
    <2>1. Resume(p, f) = uploadLocalPathsTo(p, f.names)
      BY <1>3 DEF Resume
    <2>2. Begins(p, Batch(p, "put", f.names))
      BY <1>1, BatchBegins DEF Batched
    <2> QED
      BY <2>1, <2>2 DEF uploadLocalPathsTo
  <1>4. CASE f.kind \in {"mkdir", "remove"}
    <2> DEFINE r == Slot(f.kind, joinRemote(p, f.names[1]))
    <2>1. Resume(p, f) = Ask(p, r)
      BY <1>4 DEF Resume
    <2>2. r \in Requests /\ Work(r.op)
      BY <1>1, <1>4, SlotIsRequest
    <2> HIDE DEF r
    <2> QED
      BY <2>1, <2>2, AskBegins
  <1>5. CASE f.kind = "rename"
    <2>1. Resume(p, f) = renameSelected(p, f.names[1], f.names[2])
      BY <1>5 DEF Resume
    <2>2. f.names[2] \in Names
      BY <1>1, <1>5 DEF Asks
    <2> QED
      BY <1>1, <2>1, <2>2, RenameBegins
  <1> QED
    BY <1>2, <1>3, <1>4, <1>5 DEF Dialogs

(* A box that was not to go on with a batch.                                   *)
LEMMA BoxResumes ==
    ASSUME local \in [Names -> Files], NEW p \in PaneType, NEW f \in Frames, f.kind \in Boxes
    PROVE  LET q == Resume(p, f) IN
           /\ Typed(p, q) /\ Boxed(p, q)
           /\ f.kind # "pump" \/ p.queue = <<>> =>
                 Lets(p, q) /\ (f.kind \in {"refresh", "pump"} => q.pendingEdit = NoPath)
  <1>0. f.ok \in BOOLEAN
    BY DEF Frames
  <1>1. CASE f.kind \in {"refresh", "pump"}
    <2>1. Resume(p, f) = AfterTransfer(p, f.kind, f.ok)
      BY <1>1 DEF Resume
    <2> HIDE DEF Resume
    <2>2. CASE f.kind = "refresh" \/ p.queue = <<>>
      BY <1>0, <2>1, <2>2, AfterLets DEF Lets, Keeps
    <2>3. CASE f.kind # "refresh" /\ p.queue # <<>>
      BY <1>0, <1>1, <2>1, <2>3, NextFile
    <2> QED
      BY <2>2, <2>3
  <1>2. CASE f.kind = "list"
    <2>1. Resume(p, f) = refresh(p)
      BY <1>2 DEF Resume
    <2> QED
      BY <1>2, <2>1, RefreshStill, StillLets DEF Lets, Keeps
  <1>3. CASE f.kind = "nothing"
    <2>1. Resume(p, f) = p
      BY <1>3 DEF Resume
    <2> QED
      BY <1>3, <2>1, StillIsStill, StillLets DEF Lets, Keeps
  <1> QED
    BY <1>1, <1>2, <1>3 DEF Boxes
-----------------------------------------------------------------------------
(* What the variables hold.                                                    *)

Jobs ==
    [op : {"download", "fetch", "put"}, path : Paths, to : Paths, stage : {"open", "moving"}]
    \cup [op : {"upload"}, path : Paths, to : {""} \X Names, stage : {"open", "moving"}]
Copies ==
    [stage : {"none", "posted", "between", "writing", "closing", "over"},
     dir : Dirs \cup {NoDir}, todo : Seq(Names), cancelled : BOOLEAN, ok : BOOLEAN]

PaneHolds(p) == p \in PaneType /\ FramesAsk(p) /\ Len(p.frames) <= MaxFrames
CopyHolds(x) ==
    /\ x \in Copies
    /\ x.stage = "none" <=> x = NoXfer
    /\ x.stage = "writing" => x.todo # <<>>
FilesHold == remote \in [Paths -> Files] /\ local \in [Names -> Files]
JobHolds == job \in {NoJob} \cup Jobs /\ {up, cancelRequested} \subseteq BOOLEAN
HistoryHolds ==
    /\ {mixed, failed} \subseteq BOOLEAN
    /\ spent \in [DOMAIN Bound -> Nat] /\ spent["saves"] <= MaxSaves

Types ==
    FilesHold /\ PaneHolds(pane) /\ JobHolds /\ sig \in Seq(Signals) /\ CopyHolds(xfer)
    /\ HistoryHolds

LEMMA TypesGiveTypeOK == ASSUME Types PROVE TypeOK
  <1>1. FilesHold => remote \in [Paths -> File \cup {NoFile}] /\ local \in [Names -> File \cup {NoFile}]
    BY DEF FilesHold, Files
  <1>2. ASSUME PaneHolds(pane)
        PROVE  /\ pane.cwd \in Dirs \cup {NoDir} /\ pane.shown \subseteq Names
               /\ {pane.busy, pane.cancelling, pane.canCancel} \subseteq BOOLEAN
               /\ pane.pendingEdit \in Paths \cup {NoPath} /\ pane.uploads \in Seq(Paths)
               /\ \A path \in Paths : pane.edited[path].state \in {"no", "same", "changed"}
               /\ Len(pane.frames) <= MaxFrames
    <2>1. pane \in PaneType /\ Len(pane.frames) <= MaxFrames
      BY <1>2 DEF PaneHolds
    <2>2. \A path \in Paths : pane.edited[path] \in Edits
      BY <2>1 DEF PaneType
    <2>3. ASSUME NEW e \in Edits PROVE e.state \in {"no", "same", "changed"}
      <3>1. CASE e = NoEdit
        BY <3>1 DEF NoEdit
      <3>2. CASE e \in [state : {"same", "changed"}, copy : Names]
        BY <3>2
      <3> QED
        BY <3>1, <3>2 DEF Edits
    <2>4. /\ pane.cwd \in Dirs \cup {NoDir} /\ pane.shown \subseteq Names
          /\ {pane.busy, pane.cancelling, pane.canCancel} \subseteq BOOLEAN
          /\ pane.pendingEdit \in Paths \cup {NoPath} /\ pane.uploads \in Seq(Paths)
      BY <2>1 DEF PaneType
    <2> QED
      BY <2>1, <2>2, <2>3, <2>4
  <1>3. JobHolds => job.op \in Transfers \cup {"none"} /\ {up, cancelRequested} \subseteq BOOLEAN
    <2>1. ASSUME NEW j \in Jobs \cup {NoJob} PROVE j.op \in Transfers \cup {"none"}
      <3>1. CASE j = NoJob
        BY <3>1 DEF NoJob
      <3>2. CASE j \in Jobs
        BY <3>2 DEF Jobs, Transfers
      <3> QED
        BY <3>1, <3>2
    <2> QED
      BY <2>1 DEF JobHolds
  <1> QED
    BY <1>1, <1>2, <1>3 DEF Types, TypeOK, HistoryHolds

(* A message box on top disturbs no dialog below it.                           *)
LEMMA FramesAskOn ==
    ASSUME NEW p, PaneHolds(p), NEW q, Typed(p, q), Boxed(p, q), Len(p.frames) < MaxFrames
    PROVE  PaneHolds(q)
  <1>1. p \in PaneType /\ q \in PaneType /\ MaxFrames \in Nat
    BY BoundsAssumption DEF PaneHolds, Typed
  <1>2. p.cwd \in Dirs => q.cwd \in Dirs
    BY DEF Typed
  <1>3. CASE q.frames = p.frames
    BY <1>1, <1>2, <1>3 DEF PaneHolds, FramesAsk
  <1>4. ASSUME NEW b \in Frames, b.kind \in Boxes, q.frames = Append(p.frames, b)
        PROVE  PaneHolds(q)
    <2> DEFINE n == Len(p.frames)
    <2>1. /\ n \in Nat /\ Len(q.frames) = n + 1 /\ q.frames[n + 1] = b
          /\ \A i \in 1..n : q.frames[i] = p.frames[i]
      BY <1>1, <1>4, AppendProperties DEF PaneType
    <2>2. b.kind \notin Dialogs /\ Asks(b)
      BY <1>4 DEF Boxes, Dialogs, Asks
    <2>3. \A i \in 1..n : Asks(p.frames[i]) /\ (p.frames[i].kind \in Dialogs => p.cwd \in Dirs)
      BY DEF PaneHolds, FramesAsk
    <2> HIDE DEF n
    <2>4. ASSUME NEW i \in 1..Len(q.frames)
          PROVE  Asks(q.frames[i]) /\ (q.frames[i].kind \in Dialogs => q.cwd \in Dirs)
      <3>1. i \in 1..n \/ i = n + 1
        BY <2>1
      <3> QED
        BY <1>2, <2>1, <2>2, <2>3, <3>1
    <2>5. Len(q.frames) <= MaxFrames
      BY <1>1, <2>1 DEF n
    <2> QED
      BY <1>1, <2>4, <2>5 DEF PaneHolds, FramesAsk
  <1> QED
    BY <1>3, <1>4 DEF Boxed

LEMMA FrontIsSeq ==
    ASSUME NEW S, NEW q \in Seq(S), q # <<>>
    PROVE  Front(q) \in Seq(S)
  <1> DEFINE n == Len(q) - 1
  <1>1. n \in Nat /\ 1 \in Int /\ n \in Int /\ \A i \in 1..n : q[i] \in S
    BY EmptySeq
  <1> HIDE DEF n
  <1>2. SubSeq(q, 1, n) \in Seq(S)
    BY <1>1, SubSeqProperties
  <1> QED
    BY <1>2 DEF Front, n

(* The innermost box or dialog is gone.                                        *)
LEMMA ClosedHolds ==
    ASSUME NEW p, PaneHolds(p), p.frames # <<>>
    PROVE  LET q == [p EXCEPT !.frames = Front(@)]
               f == Last(p.frames)
           IN  /\ PaneHolds(q) /\ Len(q.frames) = Len(p.frames) - 1 /\ Len(q.frames) < MaxFrames
               /\ f \in Frames /\ Asks(f) /\ (f.kind \in Dialogs => q.cwd \in Dirs)
               /\ \A i \in 1..Len(q.frames) : q.frames[i] = p.frames[i]
               /\ \A m \in Members \ {"frames"} : q[m] = p[m]
  <1> DEFINE q == [p EXCEPT !.frames = Front(@)]
             f == Last(p.frames)
             n == Len(p.frames)
  <1>1. p \in PaneType /\ MaxFrames \in Nat /\ n <= MaxFrames /\ p.frames \in Seq(Frames)
    BY BoundsAssumption DEF PaneHolds, PaneType
  <1>2. /\ n \in Nat \ {0} /\ Len(Front(p.frames)) = n - 1
        /\ f = p.frames[n] /\ \A i \in 1..(n - 1) : Front(p.frames)[i] = p.frames[i]
    BY <1>1, Shrinks DEF Sequence
  <1>3. Front(p.frames) \in Seq(Frames)
    BY <1>1, FrontIsSeq
  <1>4. q \in PaneType /\ q.frames = Front(p.frames) /\ \A m \in Members \ {"frames"} : q[m] = p[m]
    BY <1>1, <1>3 DEF PaneType, Members
  <1> HIDE DEF q
  <1>5. q.cwd = p.cwd
    BY <1>4 DEF Members
  <1>6. f \in Frames /\ Asks(f) /\ (f.kind \in Dialogs => q.cwd \in Dirs)
    BY <1>1, <1>2, <1>5 DEF PaneHolds, FramesAsk
  <1>7. \A i \in 1..Len(q.frames) : q.frames[i] = p.frames[i] /\ i \in 1..n
    BY <1>2, <1>4
  <1>8. FramesAsk(q)
    BY <1>5, <1>7 DEF PaneHolds, FramesAsk
  <1> QED
    BY <1>1, <1>2, <1>4, <1>6, <1>7, <1>8 DEF PaneHolds, q
-----------------------------------------------------------------------------
(* Types, for the parts of a step.                                             *)

LEMMA SpendHolds ==
    ASSUME HistoryHolds, NEW k \in DOMAIN Bound, Spend(k)
    PROVE  /\ spent' \in [DOMAIN Bound -> Nat] /\ spent'["saves"] <= MaxSaves
           /\ k = "saves" => spent["saves"] + 1 \in 0..MaxSaves
  <1>1. /\ DOMAIN Bound = {"acts", "saves", "fails", "cancels"}
        /\ Bound["saves"] = MaxSaves /\ MaxSaves \in Nat
    BY BoundsAssumption DEF Bound
  <1>2. spent \in [DOMAIN Bound -> Nat] /\ spent["saves"] <= MaxSaves
    BY DEF HistoryHolds
  <1>3. spent' = [spent EXCEPT ![k] = spent[k] + 1] /\ spent[k] < Bound[k]
    BY DEF Spend
  <1>4. spent[k] \in Nat /\ spent["saves"] \in Nat
    BY <1>1, <1>2
  <1>5. spent' \in [DOMAIN Bound -> Nat]
    BY <1>2, <1>3, <1>4
  <1>6. spent'["saves"] = IF k = "saves" THEN spent[k] + 1 ELSE spent["saves"]
    BY <1>1, <1>2, <1>3
  <1> QED
    BY <1>1, <1>2, <1>3, <1>4, <1>5, <1>6

(* An operation the user starts is counted.                                    *)
LEMMA AtWorkHolds ==
    ASSUME HistoryHolds, AtWork, mixed' \in BOOLEAN
    PROVE  HistoryHolds'
  <1>1. "acts" \in DOMAIN Bound
    BY DEF Bound
  <1>2. spent' \in [DOMAIN Bound -> Nat] /\ spent'["saves"] <= MaxSaves
    BY <1>1, SpendHolds DEF AtWork
  <1> QED
    BY <1>2 DEF HistoryHolds, AtWork

LEMMA FineHolds ==
    ASSUME HistoryHolds, mixed' = mixed, Fine \/ Trouble \/ Refused
    PROVE  HistoryHolds'
  <1>1. CASE Trouble
    <2>1. "fails" \in DOMAIN Bound
      BY DEF Bound
    <2>2. spent' \in [DOMAIN Bound -> Nat] /\ spent'["saves"] <= MaxSaves
      BY <1>1, <2>1, SpendHolds DEF Trouble
    <2> QED
      BY <1>1, <2>2 DEF HistoryHolds, Trouble
  <1> QED
    BY <1>1 DEF HistoryHolds, Fine, Refused

LEMMA StartsHolds ==
    ASSUME HistoryHolds, Starts
    PROVE  mixed' \in BOOLEAN
  BY DEF HistoryHolds, Starts, Underway

LEMMA EmitHolds ==
    ASSUME sig \in Seq(Signals), NEW s \in Signals, Emit(s)
    PROVE  sig' \in Seq(Signals) /\ sig' = Append(sig, s)
  BY DEF Emit

LEMMA SignalsAre ==
    /\ \A k \in {"connected", "errorOccurred", "transferProgress"} : Plain(k) \in Signals
    /\ \A o \in Transfers, a \in BOOLEAN, b \in BOOLEAN : Done(o, a, b) \in Signals
    /\ \A a \in BOOLEAN : OpDone(a) \in Signals
    /\ \A a \in BOOLEAN, b \in BOOLEAN :
          [signal |-> "finished", ok |-> a, cancelled |-> b] \in Signals
    /\ \A dir \in Dirs : Listed(dir) \in Signals
  <1>1. \A k \in {"connected", "errorOccurred", "transferProgress"} : Plain(k) \in Signals
    BY DEF Plain, Signals
  <1>2. ASSUME NEW o \in Transfers, NEW a \in BOOLEAN, NEW b \in BOOLEAN
        PROVE  Done(o, a, b) \in Signals
    BY DEF Done, Signals
  <1>3. ASSUME NEW a \in BOOLEAN PROVE OpDone(a) \in Signals
    BY DEF OpDone, Signals
  <1>4. ASSUME NEW a \in BOOLEAN, NEW b \in BOOLEAN
        PROVE  [signal |-> "finished", ok |-> a, cancelled |-> b] \in Signals
    BY DEF Signals
  <1>5. ASSUME NEW dir \in Dirs PROVE Listed(dir) \in Signals
    BY DEF Listed, Signals
  <1> QED
    BY <1>1, <1>2, <1>3, <1>4, <1>5

LEMMA NegativeIs ==
    ASSUME NEW o \in Transfers \cup {"list", "mkdir", "remove", "rename"}
    PROVE  Negative(o) \in Signals
  <1>1. CASE o \in Transfers
    BY <1>1, SignalsAre DEF Negative, Transfers
  <1>2. CASE o = "list"
    BY <1>2, SignalsAre DEF Negative, Transfers
  <1>3. CASE o \in {"mkdir", "remove", "rename"}
    BY <1>3, SignalsAre DEF Negative, Transfers
  <1> QED
    BY <1>1, <1>2, <1>3

(* Other tracked files, and nothing else.                                      *)
LEMMA EditedHolds ==
    ASSUME NEW p, PaneHolds(p), NEW d \in [Paths -> Edits]
    PROVE  LET q == [p EXCEPT !.edited = d] IN
           PaneHolds(q) /\ \A m \in Members \ {"edited"} : q[m] = p[m]
  BY DEF PaneHolds, PaneType, FramesAsk, Members

LEMMA TouchedHolds ==
    ASSUME PaneHolds(pane), NEW name \in Names
    PROVE  Touched(name) \in [Paths -> Edits]
  <1>1. \A path \in Paths : pane.edited[path] \in Edits
    BY DEF PaneHolds, PaneType
  <1>2. Editing("changed", name) \in Edits
    BY DEF Editing, Edits
  <1> QED
    BY <1>1, <1>2 DEF Touched

(* The client takes a request from the window.                                 *)
LEMMA TakenHolds ==
    ASSUME PaneHolds(pane), pane.req # <<>>
    PROVE  /\ slot \in Requests /\ PaneHolds(Taken) /\ Taken.req = Tail(pane.req)
           /\ \A m \in Members \ {"req"} : Taken[m] = pane[m]
  <1>1. pane \in PaneType /\ pane.req \in Seq(Requests)
    BY DEF PaneHolds, PaneType
  <1>2. slot \in Requests /\ Tail(pane.req) \in Seq(Requests)
    BY <1>1, HeadTailProperties DEF slot
  <1>3. /\ Taken \in PaneType /\ Taken.req = Tail(pane.req)
        /\ \A m \in Members \ {"req"} : Taken[m] = pane[m]
    BY <1>1, <1>2 DEF PaneType, Taken, Members
  <1>4. Taken.frames = pane.frames /\ Taken.cwd = pane.cwd
    BY <1>3 DEF Members
  <1> QED
    BY <1>2, <1>3, <1>4 DEF PaneHolds, FramesAsk
LEMMA RequestParts ==
    ASSUME NEW r \in Requests
    PROVE  /\ r.op \in Transfers \cup {"list", "mkdir", "remove", "rename", "connect"}
           /\ r.op = "list" => r.path[1] \in Dirs
           /\ r.op \notin {"list", "connect"} => r.path \in Paths
           /\ r.op \notin {"list", "connect", "upload"} => r.to \in Paths
           /\ r.op = "upload" => r.to \in {""} \X Names
  <1>1. CASE r \in Items
    BY <1>1 DEF Items, Batched, Transfers
  <1>2. CASE r \in [op : {"fetch", "mkdir", "remove", "rename"}, path : Paths, to : Paths]
    BY <1>2 DEF Transfers
  <1>3. CASE r \in [op : {"upload"}, path : Paths, to : {""} \X Names]
    BY <1>3 DEF Transfers
  <1>4. CASE r \in [op : {"list"}, path : Dirs \X {""}, to : Dirs \X {""}]
    BY <1>4
  <1>5. CASE r \in [op : {"connect"}, path : {NoPath}, to : {NoPath}]
    BY <1>5
  <1> QED
    BY <1>1, <1>2, <1>3, <1>4, <1>5 DEF Requests

LEMMA JobParts ==
    ASSUME NEW j \in Jobs
    PROVE  /\ j.op \in Transfers /\ j.path \in Paths /\ j.stage \in {"open", "moving"}
           /\ j.op = "upload" => j.to \in {""} \X Names
           /\ [j EXCEPT !.stage = "moving"] \in Jobs
           /\ [j EXCEPT !.stage = "moving"].op = j.op
  <1>1. CASE j \in [op : {"download", "fetch", "put"}, path : Paths, to : Paths,
                    stage : {"open", "moving"}]
    BY <1>1 DEF Jobs, Transfers
  <1>2. CASE j \in [op : {"upload"}, path : Paths, to : {""} \X Names, stage : {"open", "moving"}]
    BY <1>2 DEF Jobs, Transfers
  <1> QED
    BY <1>1, <1>2 DEF Jobs

LEMMA RequestMakesJob ==
    ASSUME NEW r \in Requests, r.op \in Transfers
    PROVE  LET j == [op |-> r.op, path |-> r.path, to |-> r.to, stage |-> "open"] IN
           j \in Jobs /\ j.op = r.op /\ j # NoJob
  <1> DEFINE j == [op |-> r.op, path |-> r.path, to |-> r.to, stage |-> "open"]
  <1>1. j # NoJob
    BY DEF NoJob
  <1>2. CASE r.op = "upload"
    BY <1>1, <1>2, RequestParts DEF Jobs
  <1>3. CASE r.op # "upload"
    BY <1>1, <1>3, RequestParts DEF Jobs, Transfers
  <1> QED
    BY <1>2, <1>3

LEMMA FilesAre ==
    /\ \A path \in Paths \cup {Outside} : Original(path) \in Files
    /\ \A f \in Files : Piece(f) \in Files
    /\ NoFile \in Files
  <1>1. 0 \in 0..MaxSaves
    BY BoundsAssumption
  <1>2. ASSUME NEW path \in Paths \cup {Outside} PROVE Original(path) \in File
    BY <1>1 DEF Original, File
  <1>3. ASSUME NEW f \in File PROVE Piece(f) \in File
    BY DEF Piece, File
  <1>4. Piece(NoFile) = NoFile
    <2>1. NoFile = [k \in {"of", "ver", "whole"} |-> NoFile[k]] /\ NoFile.whole = FALSE
      BY DEF NoFile
    <2>2. Piece(NoFile) = [NoFile EXCEPT !.whole = NoFile.whole]
      BY <2>1 DEF Piece
    <2> QED
      BY <2>1, <2>2
  <1> QED
    BY <1>2, <1>3, <1>4 DEF Files

LEMMA SourceHolds ==
    ASSUME FilesHold, NEW r, r.op \in Transfers, r.path \in Paths,
           r.op = "upload" => r.to \in {""} \X Names
    PROVE  Source(r) \in Files
  <1>1. CASE r.op \in {"download", "fetch"}
    BY <1>1 DEF Source, FilesHold
  <1>2. CASE r.op = "upload"
    <2>1. r.to[2] \in Names
      BY <1>2
    <2> QED
      BY <1>2, <2>1 DEF Source, FilesHold
  <1>3. CASE r.op = "put"
    BY <1>3, FilesAre DEF Source
  <1> QED
    BY <1>1, <1>2, <1>3 DEF Transfers

LEMMA RemoteHolds ==
    ASSUME FilesHold, NEW x, NEW f \in Files
    PROVE  [remote EXCEPT ![x] = f] \in [Paths -> Files]
  BY DEF FilesHold

LEMMA LocalHolds ==
    ASSUME FilesHold, NEW x, NEW f \in Files
    PROVE  [local EXCEPT ![x] = f] \in [Names -> Files]
  BY DEF FilesHold

-----------------------------------------------------------------------------
(* Types, for the steps of the window.                                         *)

LEMMA OnSignalTypes ==
    ASSUME Types, OnSignal
    PROVE  Types' /\ Typed(pane, pane') /\ Boxed(pane, pane')
  <1> DEFINE s == Head(sig)
  <1>1. /\ PaneHolds(pane) /\ sig \in Seq(Signals) /\ sig # <<>> /\ CopyHolds(xfer) /\ FilesHold
        /\ Len(pane.frames) < MaxFrames
    BY DEF Types, OnSignal
  <1>2. s \in Signals /\ Tail(sig) \in Seq(Signals)
    BY <1>1, HeadTailProperties
  <1>3. Typed(pane, Handle(pane, s)) /\ Boxed(pane, Handle(pane, s))
    <2>1. pane \in PaneType /\ local \in [Names -> Files]
      BY <1>1 DEF PaneHolds, FilesHold
    <2>2. CASE IsEnd(s)
      BY <1>2, <2>1, <2>2, EndTyped
    <2>3. CASE IsProgress(s)
      <3>1. LET q == Handle(pane, s) IN
            q \in PaneType /\ \A m \in Members \ {"canCancel"} : q[m] = pane[m]
        BY <2>1, <2>3, ProgressTyped
      <3> QED
        BY <3>1 DEF Typed, Boxed, Members
    <2>4. CASE ~IsEnd(s) /\ ~IsProgress(s)
      BY <1>2, <2>1, <2>4, OtherSignalLets DEF Lets, Keeps
    <2> QED
      BY <2>2, <2>3, <2>4
  <1>4. PaneHolds(pane')
    BY <1>1, <1>3, FramesAskOn DEF OnSignal
  <1>5. CopyHolds(NoXfer)
    BY DEF CopyHolds, NoXfer, Copies
  <1> HIDE DEF s
  <1> QED
    BY <1>1, <1>2, <1>3, <1>4, <1>5
       DEF Types, OnSignal, s, FilesHold, JobHolds, HistoryHolds, server, client, history, Copies
LEMMA StayHolds ==
    ASSUME NEW p, PaneHolds(p), NEW q, Typed(p, q), q.frames = p.frames
    PROVE  PaneHolds(q)
  BY DEF PaneHolds, Typed, FramesAsk

LEMMA EditParts ==
    ASSUME NEW e \in Edits, e.state # "no"
    PROVE  e.copy \in Names /\ Editing("same", e.copy) \in Edits
  <1>1. CASE e = NoEdit
    BY <1>1 DEF NoEdit
  <1>2. CASE e \in [state : {"same", "changed"}, copy : Names]
    BY <1>2 DEF Editing, Edits
  <1> QED
    BY <1>1, <1>2 DEF Edits

(* What the timer leaves: uploads are posted, and nobody waits for them.       *)
LEMMA CheckedStill ==
    ASSUME PaneHolds(pane), checkEditedFiles
    PROVE  /\ Still(pane, pane') /\ PaneHolds(pane') /\ pane'.pendingEdit = pane.pendingEdit
           /\ ~pane.busy
           /\ pane'.canCancel = pane.canCancel /\ pane'.cancelling = pane.cancelling
  <1> DEFINE order == SetToSeq(Changed)
             posted == [i \in DOMAIN order |->
                 [op |-> "upload", path |-> order[i], to |-> <<"", pane.edited[order[i]].copy>>]]
             d == [path \in Paths |->
                      IF path \in Gone THEN NoEdit
                      ELSE IF path \in Changed THEN Editing("same", pane.edited[path].copy)
                      ELSE pane.edited[path]]
  <1>1. pane \in PaneType /\ \A path \in Paths : pane.edited[path] \in Edits
    BY DEF PaneHolds, PaneType
  <1>2. ASSUME NEW path \in Changed
        PROVE  path \in Paths /\ pane.edited[path].copy \in Names
               /\ Editing("same", pane.edited[path].copy) \in Edits
    <2>1. path \in Paths /\ pane.edited[path].state = "changed"
      BY DEF Changed
    <2> QED
      BY <1>1, <2>1, EditParts
  <1>3. order \in Seq(Changed) /\ order \in Seq(Paths)
    <2>1. IsFiniteSet(Paths)
      BY BoundsAssumption, FS_Product DEF Paths
    <2>2. IsFiniteSet(Changed) /\ Changed \subseteq Paths
      BY <2>1, FS_Subset DEF Changed
    <2>3. order \in Seq(Changed)
      BY <2>2, OrderIsSequence
    <2> HIDE DEF order
    <2> QED
      BY <2>2, <2>3, SeqMonotonic
  <1> HIDE DEF order
  <1>4. ASSUME NEW i \in DOMAIN order PROVE posted[i] \in Requests /\ ~Work(posted[i].op)
    <2> DEFINE copy == pane.edited[order[i]].copy
    <2>1. order[i] \in Paths /\ copy \in Names
      BY <1>2, <1>3
    <2>2. posted[i] = [op |-> "upload", path |-> order[i], to |-> <<"", copy>>]
      OBVIOUS
    <2> HIDE DEF copy, posted
    <2>3. <<"", copy>> \in {""} \X Names
      BY <2>1
    <2>4. [op |-> "upload", path |-> order[i], to |-> <<"", copy>>]
             \in [op : {"upload"}, path : Paths, to : {""} \X Names]
      BY <2>1, <2>3
    <2> QED
      BY <2>2, <2>4 DEF Requests, Work
  <1>5. posted \in Seq(Requests) /\ \A i \in 1..Len(posted) : ~Work(posted[i].op)
    <2>1. DOMAIN order = 1..Len(order) /\ Len(order) \in Nat
      BY <1>3
    <2> HIDE DEF posted
    <2>2. posted \in [1..Len(order) -> Requests]
      BY <1>4, <2>1 DEF posted
    <2>3. posted \in Seq(Requests) /\ Len(posted) = Len(order)
      BY <2>1, <2>2
    <2> QED
      BY <1>4, <2>1, <2>3
  <1>6. d \in [Paths -> Edits]
    BY <1>1, <1>2 DEF Edits
  <1>7. ~pane.busy /\ pane' = [pane EXCEPT !.edited = d, !.uploads = pane.uploads \o order,
                                           !.req = pane.req \o posted]
    BY <1>1 DEF checkEditedFiles, order, PaneType
  <1> HIDE DEF posted, d
  <1>8. pane.uploads \o order \in Seq(Paths) /\ pane.req \o posted \in Seq(Requests)
    BY <1>1, <1>3, <1>5 DEF PaneType
  <1>9. /\ pane' \in PaneType /\ pane'.req = pane.req \o posted
        /\ \A m \in Members \ {"edited", "uploads", "req"} : pane'[m] = pane[m]
    BY <1>1, <1>6, <1>7, <1>8 DEF PaneType, Members
  <1>10. NoWork(pane) => NoWork(pane')
    <2>1. pane.req \in Seq(Requests)
      BY <1>1 DEF PaneType
    <2>2. ASSUME NoWork(pane), NEW i \in 1..Len(pane'.req) PROVE ~Work(pane'.req[i].op)
      <3>1. /\ Len(pane'.req) = Len(pane.req) + Len(posted)
            /\ pane'.req[i] = IF i <= Len(pane.req) THEN pane.req[i] ELSE posted[i - Len(pane.req)]
        BY <1>5, <1>9, <2>1, ConcatProperties
      <3>2. Len(pane.req) \in Nat /\ Len(posted) \in Nat
        BY <1>5, <2>1
      <3>3. CASE i <= Len(pane.req)
        BY <2>2, <3>1, <3>2, <3>3 DEF NoWork
      <3>4. CASE ~(i <= Len(pane.req))
        <4>1. i - Len(pane.req) \in 1..Len(posted)
          BY <3>1, <3>2, <3>4
        <4> QED
          BY <1>5, <3>1, <3>4, <4>1
      <3> QED
        BY <3>3, <3>4
    <2> QED
      BY <2>2 DEF NoWork
  <1>11. /\ pane'.cwd = pane.cwd /\ pane'.queue = pane.queue /\ pane'.frames = pane.frames
         /\ pane'.pendingEdit = pane.pendingEdit /\ pane'.canCancel = pane.canCancel
         /\ pane'.cancelling = pane.cancelling
    BY <1>9 DEF Members
  <1>12. Still(pane, pane')
    BY <1>9, <1>10, <1>11 DEF Still, Keeps, Typed
  <1> QED
    BY <1>7, <1>11, <1>12, StayHolds DEF Still, Keeps
LEMMA NavigateStill ==
    ASSUME PaneHolds(pane), NEW dir \in Dirs, Navigate(dir)
    PROVE  Still(pane, pane') /\ PaneHolds(pane')
  <1>1. pane \in PaneType /\ pane' = Ask(pane, List(dir))
    BY DEF PaneHolds, Navigate
  <1>2. Still(pane, pane')
    BY <1>1, ListIsRequest, AskStill
  <1> QED
    BY <1>2, StayHolds DEF Still, Keeps

LEMMA DropBegins ==
    ASSUME PaneHolds(pane), NEW names \in Batches(Names), Drop(names)
    PROVE  Begins(pane, pane') /\ PaneHolds(pane')
  <1>1. pane \in PaneType /\ pane.cwd \in Dirs /\ ~pane.busy
    BY DEF PaneHolds, PaneType, Drop, Opened, Free
  <1>2. pane' = Batch(pane, "put", names)
    BY <1>1 DEF Drop, uploadLocalPathsTo
  <1>3. names \in Seq(Names) /\ names # <<>>
    BY BatchesAreSequences
  <1>4. Begins(pane, pane')
    BY <1>1, <1>2, <1>3, BatchBegins DEF Batched
  <1> QED
    BY <1>4, StayHolds DEF Begins

(* A file is fetched for editing, or shown again in its editor.                *)
LEMMA EditBegins ==
    ASSUME PaneHolds(pane), FilesHold, NEW name \in Names, editRemoteFile(name)
    PROVE  /\ PaneHolds(pane') /\ local' \in [Names -> Files]
           /\ \/ Still(pane, pane') /\ mixed' = mixed
              \/ Begins(pane, pane') /\ Starts
  <1> DEFINE path == joinRemote(pane, name)
             copy == pane.edited[path].copy
  <1>1. pane \in PaneType /\ pane.cwd \in Dirs
    BY DEF PaneHolds, PaneType, editRemoteFile, Opened, Free
  <1>2. path \in Paths
    BY <1>1, SlotIsRequest
  <1>3. CASE pane.edited[path].state # "no"
    <2>1. copy \in Names
      BY <1>1, <1>2, <1>3, EditParts DEF PaneType
    <2> DEFINE t == [pane.editor EXCEPT ![copy] = local[copy]]
    <2>2. t \in [Names -> Files]
      BY <1>1, <2>1 DEF PaneType, FilesHold
    <2>3. pane' = [pane EXCEPT !.editor = t] /\ local' = local /\ mixed' = mixed
      BY <1>1, <1>3 DEF editRemoteFile, PaneType
    <2> HIDE DEF t
    <2>4. Still(pane, pane')
      BY <1>1, <2>2, <2>3 DEF PaneType, Still, Keeps, Typed, NoWork
    <2>5. PaneHolds(pane')
      BY <2>4, StayHolds DEF Still, Keeps
    <2> QED
      BY <2>3, <2>4, <2>5 DEF FilesHold
  <1>4. CASE pane.edited[path].state = "no"
    <2> DEFINE e == [pane EXCEPT !.pendingEdit = path]
               r == Slot("fetch", path)
    <2>1. pane' = Ask(e, r) /\ local' = [local EXCEPT ![name] = NoFile] /\ Starts
      BY <1>4 DEF editRemoteFile
    <2>2. /\ e \in PaneType /\ e.cwd = pane.cwd /\ e.frames = pane.frames /\ e.req = pane.req
          /\ e.queue = pane.queue /\ e.canCancel = pane.canCancel /\ e.cancelling = pane.cancelling
      BY <1>1, <1>2 DEF PaneType
    <2>3. r \in Requests /\ r.op = "fetch" /\ Work(r.op)
      BY <1>1, SlotIsRequest
    <2>4. e.pendingEdit = path
      BY <1>1 DEF PaneType
    <2> HIDE DEF e, r
    <2>5. LET q == Ask(e, r) IN
          /\ q \in PaneType /\ q.req = Append(e.req, r) /\ q.busy
          /\ \A m \in Members \ {"req", "busy"} : q[m] = e[m]
      BY <2>2, <2>3, AskTyped
    <2>6. Begins(pane, pane')
      <3>1. Begins(e, pane')
        BY <2>1, <2>2, <2>3, AskBegins
      <3>2. /\ pane'.req = Append(e.req, r) /\ pane'.queue = e.queue
            /\ pane'.pendingEdit = e.pendingEdit
        BY <2>1, <2>5 DEF Members
      <3> QED
        BY <2>2, <2>3, <3>1, <3>2 DEF Begins, Typed
    <2>7. local' \in [Names -> Files]
      BY <2>1, LocalHolds, FilesAre
    <2> QED
      BY <2>1, <2>6, <2>7, StayHolds DEF Begins
  <1> QED
    BY <1>3, <1>4

(* A dialog is opened over the empty pane.                                     *)
LEMMA DialogOpens ==
    ASSUME PaneHolds(pane), OpenDialog
    PROVE  /\ PaneHolds(pane') /\ Starts /\ AtWork /\ pane.frames = <<>> /\ Len(pane'.frames) = 1
           /\ UNCHANGED <<server, xfer>>
           /\ \A m \in Members \ {"frames"} : pane'[m] = pane[m]
  <1>1. pane \in PaneType /\ pane.shown \subseteq Names
    BY DEF PaneHolds, PaneType
  <1>2. PICK kind \in Dialogs, names \in Seq(Names) :
           /\ Dialog(kind, names) /\ names # <<>> /\ (kind = "rename" => Len(names) >= 2)
    <2>1. ASSUME NEW names \in Batches(pane.shown) \cup Batches(Names)
          PROVE  names \in Seq(Names) /\ names # <<>>
      <3>1. CASE names \in Batches(pane.shown)
        BY <1>1, <3>1, BatchesAreSequences, SeqMonotonic
      <3>2. CASE names \in Batches(Names)
        BY <3>2, BatchesAreSequences
      <3> QED
        BY <3>1, <3>2
    <2>2. ASSUME NEW a \in Names, NEW b \in Names
          PROVE  <<a, b>> \in Seq(Names) /\ Len(<<a, b>>) >= 2 /\ <<a, b>> # <<>>
                 /\ <<a>> \in Seq(Names) /\ <<a>> # <<>>
      OBVIOUS
    <2>3. CASE \E names \in Batches(pane.shown) : Dialog("download", names)
      BY <2>1, <2>3 DEF Dialogs
    <2>4. CASE \E names \in Batches(Names) : Dialog("put", names)
      BY <2>1, <2>4 DEF Dialogs
    <2>5. CASE \E name \in Names : Dialog("mkdir", <<name>>)
      BY <2>2, <2>5 DEF Dialogs
    <2>6. CASE \E name \in pane.shown : Dialog("remove", <<name>>)
      BY <1>1, <2>2, <2>6 DEF Dialogs
    <2>7. CASE \E from \in pane.shown : \E to \in Names \ {from} : Dialog("rename", <<from, to>>)
      BY <1>1, <2>2, <2>7 DEF Dialogs
    <2> QED
      BY <2>3, <2>4, <2>5, <2>6, <2>7 DEF OpenDialog
  <1> DEFINE f == [kind |-> kind, ok |-> TRUE, names |-> names]
  <1>3. /\ pane' = [pane EXCEPT !.frames = <<f>>] /\ pane.cwd # NoDir /\ Starts /\ AtWork
        /\ UNCHANGED <<server, xfer>>
    BY <1>2 DEF Dialog, Opened, Free
  <1>4. f \in Frames /\ Asks(f) /\ pane.cwd \in Dirs
    BY <1>1, <1>2, <1>3 DEF Frames, Asks, PaneType
  <1> HIDE DEF f
  <1>5. <<f>> \in Seq(Frames) /\ Len(<<f>>) = 1 /\ <<f>>[1] = f
    BY <1>4
  <1>6. /\ pane' \in PaneType /\ pane'.frames = <<f>>
        /\ \A m \in Members \ {"frames"} : pane'[m] = pane[m]
    BY <1>1, <1>3, <1>5 DEF PaneType, Members
  <1>7. pane'.cwd = pane.cwd /\ MaxFrames >= 1
    BY <1>6, BoundsAssumption DEF Members
  <1> QED
    BY <1>3, <1>4, <1>5, <1>6, <1>7 DEF PaneHolds, FramesAsk, AtWork
LEMMA AnswerHolds ==
    ASSUME PaneHolds(pane), FilesHold, Answer
    PROVE  PaneHolds(pane')
  <1> DEFINE p == [pane EXCEPT !.frames = Front(@)]
             f == Last(pane.frames)
  <1>1. pane.frames # <<>> /\ (pane' = Resume(p, f) \/ pane' = p)
    BY DEF Answer
  <1>2. /\ PaneHolds(p) /\ Len(p.frames) < MaxFrames
        /\ f \in Frames /\ Asks(f) /\ (f.kind \in Dialogs => p.cwd \in Dirs)
    BY <1>1, ClosedHolds
  <1> HIDE DEF p, f
  <1>3. p \in PaneType /\ f.kind \in Boxes \cup Dialogs /\ local \in [Names -> Files]
    BY <1>2 DEF PaneHolds, Frames, FilesHold
  <1>4. CASE f.kind \in Dialogs
    <2>1. Resume(p, f) = p \/ Begins(p, Resume(p, f))
      BY <1>2, <1>3, <1>4, DialogBegins
    <2> QED
      BY <1>1, <1>2, <2>1, StayHolds DEF Begins
  <1>5. CASE f.kind \in Boxes
    <2>1. Typed(p, Resume(p, f)) /\ Boxed(p, Resume(p, f))
      BY <1>2, <1>3, <1>5, BoxResumes
    <2> QED
      BY <1>1, <1>2, <2>1, FramesAskOn
  <1> QED
    BY <1>3, <1>4, <1>5

LEMMA CancelHolds ==
    ASSUME PaneHolds(pane), CopyHolds(xfer), cancelTransfers
    PROVE  /\ PaneHolds(pane') /\ pane'.queue = <<>> /\ pane.canCancel /\ pane.frames = <<>>
           /\ \A m \in Members \ {"cancelling", "queue"} : pane'[m] = pane[m]
           /\ CopyHolds(xfer') /\ xfer'.stage = xfer.stage /\ (xfer' = NoXfer <=> xfer = NoXfer)
  <1>1. pane \in PaneType /\ pane' = [pane EXCEPT !.cancelling = TRUE, !.queue = <<>>]
    BY DEF PaneHolds, cancelTransfers
  <1>2. /\ pane' \in PaneType /\ pane'.queue = <<>>
        /\ \A m \in Members \ {"cancelling", "queue"} : pane'[m] = pane[m]
    <2>1. <<>> \in Seq(Items)
      OBVIOUS
    <2>2. pane' \in PaneType /\ pane'.queue = <<>>
      BY <1>1, <2>1 DEF PaneType
    <2>3. \A m \in Members \ {"cancelling", "queue"} : pane'[m] = pane[m]
      BY <1>1 DEF PaneType, Members
    <2> QED
      BY <2>2, <2>3
  <1>3. PaneHolds(pane')
    <2>1. pane'.frames = pane.frames /\ pane'.cwd = pane.cwd
      BY <1>2 DEF Members
    <2> QED
      BY <1>2, <2>1, StayHolds DEF Typed
  <1>4. \/ xfer' = xfer
        \/ xfer # NoXfer /\ xfer' = [xfer EXCEPT !.cancelled = TRUE]
    BY DEF cancelTransfers
  <1>5. CASE xfer' = xfer
    BY <1>2, <1>3, <1>5 DEF cancelTransfers
  <1>6. CASE xfer # NoXfer /\ xfer' = [xfer EXCEPT !.cancelled = TRUE]
    <2>1. xfer' \in Copies /\ xfer'.stage = xfer.stage /\ xfer'.todo = xfer.todo
      BY <1>6 DEF CopyHolds, Copies
    <2>2. xfer.stage # "none"
      BY <1>6 DEF CopyHolds
    <2>3. xfer' # NoXfer
      BY <2>1, <2>2 DEF NoXfer
    <2>4. CopyHolds(xfer')
      BY <2>1, <2>2, <2>3 DEF CopyHolds
    <2> QED
      BY <1>2, <1>3, <1>6, <2>1, <2>3, <2>4 DEF cancelTransfers
  <1> QED
    BY <1>4, <1>5, <1>6

LEMMA SaveHolds ==
    ASSUME PaneHolds(pane), FilesHold, HistoryHolds, NEW name \in Names, SaveInEditor(name)
    PROVE  /\ PaneHolds(pane') /\ FilesHold' /\ HistoryHolds'
           /\ \A m \in Members \ {"edited"} : pane'[m] = pane[m]
  <1>1. "saves" \in DOMAIN Bound
    BY DEF Bound
  <1>2. /\ spent' \in [DOMAIN Bound -> Nat] /\ spent'["saves"] <= MaxSaves
        /\ spent["saves"] + 1 \in 0..MaxSaves
    BY <1>1, SpendHolds DEF SaveInEditor
  <1> DEFINE f == [pane.editor[name] EXCEPT !.ver = spent["saves"] + 1]
  <1>3. pane.editor[name] \in File
    <2>1. pane.editor[name] \in File \cup {NoFile} /\ pane.editor[name] # NoFile
      BY DEF PaneHolds, PaneType, SaveInEditor, Files
    <2> QED
      BY <2>1
  <1>4. f \in Files
    <2>1. ASSUME NEW g \in File, NEW v \in 0..MaxSaves PROVE [g EXCEPT !.ver = v] \in File
      BY DEF File
    <2> QED
      BY <1>2, <1>3, <2>1 DEF Files
  <1>5. local' = [local EXCEPT ![name] = f]
    BY DEF SaveInEditor
  <1> HIDE DEF f
  <1>6. FilesHold'
    BY <1>4, <1>5, LocalHolds DEF FilesHold, SaveInEditor
  <1>7. PaneHolds(pane') /\ \A m \in Members \ {"edited"} : pane'[m] = pane[m]
    <2>1. Touched(name) \in [Paths -> Edits] /\ pane' = [pane EXCEPT !.edited = Touched(name)]
      BY TouchedHolds DEF SaveInEditor
    <2> QED
      BY <2>1, EditedHolds
  <1> QED
    BY <1>2, <1>6, <1>7 DEF HistoryHolds, SaveInEditor

LEMMA StartCrossHolds ==
    ASSUME PaneHolds(pane), NEW names \in Batches(Names), startCrossTransfer(names)
    PROVE  /\ PaneHolds(pane') /\ pane'.busy
           /\ \A m \in Members \ {"busy", "canCancel"} : pane'[m] = pane[m]
           /\ CopyHolds(xfer') /\ xfer'.stage = "posted"
  <1>1. pane \in PaneType /\ pane' = [pane EXCEPT !.busy = TRUE, !.canCancel = TRUE]
    BY DEF PaneHolds, startCrossTransfer
  <1>2. /\ pane' \in PaneType /\ pane'.busy
        /\ \A m \in Members \ {"busy", "canCancel"} : pane'[m] = pane[m]
    BY <1>1 DEF PaneType, Members
  <1>3. PaneHolds(pane')
    <2>1. pane'.frames = pane.frames /\ pane'.cwd = pane.cwd
      BY <1>2 DEF Members
    <2> QED
      BY <1>2, <2>1, StayHolds DEF Typed
  <1>4. names \in Seq(Names)
    BY BatchesAreSequences
  <1>5. xfer' = [stage |-> "posted", dir |-> pane.cwd, todo |-> names, cancelled |-> FALSE,
                 ok |-> TRUE]
    BY DEF startCrossTransfer, NoXfer
  <1>6. xfer' \in Copies /\ xfer'.stage = "posted" /\ xfer' # NoXfer
    BY <1>1, <1>4, <1>5 DEF Copies, PaneType, NoXfer
  <1> QED
    BY <1>2, <1>3, <1>6 DEF CopyHolds

LEMMA WindowTypes ==
    ASSUME Types, OnSignal \/ checkEditedFiles \/ User
    PROVE  Types'
  <1>0. /\ FilesHold /\ PaneHolds(pane) /\ JobHolds /\ sig \in Seq(Signals) /\ CopyHolds(xfer)
        /\ HistoryHolds
    BY DEF Types
  <1>1. CASE OnSignal
    BY <1>1, OnSignalTypes
  <1>2. CASE checkEditedFiles
    <2>1. PaneHolds(pane') /\ UNCHANGED <<server, client, sig, xfer, failed, spent>>
      BY <1>0, <1>2, CheckedStill DEF checkEditedFiles
    <2>2. mixed' \in BOOLEAN
      BY <1>0, <1>2, StartsHolds DEF checkEditedFiles, HistoryHolds
    <2> QED
      BY <1>0, <2>1, <2>2 DEF Types, FilesHold, JobHolds, HistoryHolds, server, client
  <1>3. ASSUME AtWork, Starts, PaneHolds(pane'), FilesHold', CopyHolds(xfer')
        PROVE  Types'
    <2>1. HistoryHolds' /\ UNCHANGED <<client, sig>>
      BY <1>0, <1>3, StartsHolds, AtWorkHolds DEF AtWork
    <2> QED
      BY <1>0, <1>3, <2>1 DEF Types, JobHolds, client
  <1>4. ASSUME NEW dir \in Dirs, Navigate(dir) PROVE Types'
    BY <1>0, <1>3, <1>4, NavigateStill DEF Navigate, Free, FilesHold, server
  <1>5. ASSUME OpenDialog PROVE Types'
    BY <1>0, <1>3, <1>5, DialogOpens DEF FilesHold, server
  <1>6. ASSUME Answer PROVE Types'
    <2>1. PaneHolds(pane') /\ UNCHANGED <<server, client, sig, xfer, failed, spent>>
      BY <1>0, <1>6, AnswerHolds DEF Answer
    <2>2. mixed' \in BOOLEAN
      BY <1>0, <1>6, StartsHolds DEF Answer, HistoryHolds
    <2> QED
      BY <1>0, <2>1, <2>2 DEF Types, FilesHold, JobHolds, HistoryHolds, server, client
  <1>7. ASSUME NEW names \in Batches(Names), Drop(names) PROVE Types'
    BY <1>0, <1>3, <1>7, DropBegins DEF Drop, Opened, Free, FilesHold, server
  <1>8. ASSUME NEW names \in Batches(Names), startCrossTransfer(names) PROVE Types'
    BY <1>0, <1>3, <1>8, StartCrossHolds DEF startCrossTransfer, Opened, Free, FilesHold, server
  <1>9. ASSUME NEW name \in Names, editRemoteFile(name) PROVE Types'
    <2>1. /\ PaneHolds(pane') /\ FilesHold' /\ CopyHolds(xfer') /\ AtWork
          /\ mixed' = mixed \/ Starts
      BY <1>0, <1>9, EditBegins DEF editRemoteFile, Opened, Free, FilesHold
    <2>2. HistoryHolds' /\ UNCHANGED <<client, sig>>
      BY <1>0, <2>1, StartsHolds, AtWorkHolds DEF AtWork, HistoryHolds
    <2> QED
      BY <1>0, <2>1, <2>2 DEF Types, JobHolds, client
  <1>10. ASSUME NEW name \in Names, SaveInEditor(name) PROVE Types'
    BY <1>0, <1>10, SaveHolds DEF SaveInEditor, Types, JobHolds, client
  <1>11. ASSUME cancelTransfers PROVE Types'
    <2>1. PaneHolds(pane') /\ CopyHolds(xfer')
      BY <1>0, <1>11, CancelHolds
    <2>2. "cancels" \in DOMAIN Bound
      BY DEF Bound
    <2>3. HistoryHolds'
      BY <1>0, <1>11, <2>2, SpendHolds DEF cancelTransfers, HistoryHolds
    <2> QED
      BY <1>0, <1>11, <2>1, <2>3 DEF cancelTransfers, Types, FilesHold, JobHolds, server
  <1> QED
    BY <1>1, <1>2, <1>4, <1>5, <1>6, <1>7, <1>8, <1>9, <1>10, <1>11 DEF User
-----------------------------------------------------------------------------
(* Types, for the steps of the client and of a cross transfer, and what these  *)
(* steps do to the window and the signals.                                     *)

(* The signal that answers a request at once.                                  *)
Answers(r, s) ==
    /\ s \in Signals /\ ~IsProgress(s) /\ s.signal # "finished"
    /\ IsEnd(s) <=> r.op \in Transfers
    /\ IsEnd(s) => s.op = r.op

(* A request taken from the window, which notices at most another copy.        *)
TakesSlot ==
    /\ pane.req # <<>> /\ pane'.req = Tail(pane.req)
    /\ \A m \in Members \ {"req", "edited"} : pane'[m] = pane[m]
    /\ job = NoJob /\ xfer' = xfer /\ mixed' = mixed

LEMMA NegativeAnswers ==
    ASSUME NEW r, r.op \in Transfers \cup {"list", "mkdir", "remove", "rename"}
    PROVE  Answers(r, Negative(r.op))
  <1>1. Negative(r.op) \in Signals
    BY NegativeIs
  <1>2. CASE r.op \in Transfers
    BY <1>1, <1>2 DEF Negative, Done, Answers, IsEnd, IsProgress, Transfers
  <1>3. CASE r.op = "list"
    BY <1>1, <1>3 DEF Negative, Plain, Answers, IsEnd, IsProgress, Transfers
  <1>4. CASE r.op \in {"mkdir", "remove", "rename"}
    BY <1>1, <1>4 DEF Negative, OpDone, Answers, IsEnd, IsProgress, Transfers
  <1> QED
    BY <1>2, <1>3, <1>4

LEMMA SlotAnswers ==
    ASSUME Types, connectHost \/ Rejects \/ listDirectory \/ Operation
    PROVE  /\ pane' = Taken /\ TakesSlot /\ job' = job /\ HistoryHolds'
           /\ {up', cancelRequested'} \subseteq BOOLEAN
           /\ remote' \in [Paths -> Files] /\ local' = local
           /\ \E s : Answers(slot, s) /\ Emit(s)
  <1>1. /\ pane' = Taken /\ pane.req # <<>> /\ job = NoJob /\ xfer' = xfer /\ mixed' = mixed
        /\ job' = job /\ local' = local
    BY DEF connectHost, Rejects, listDirectory, Operation, Takes, client, server, history
  <1>2. /\ PaneHolds(pane) /\ HistoryHolds /\ FilesHold /\ {up, cancelRequested} \subseteq BOOLEAN
    BY DEF Types, JobHolds
  <1>3. slot \in Requests /\ TakesSlot
    BY <1>1, <1>2, TakenHolds DEF TakesSlot
  <1>4. HistoryHolds'
    <2>1. (failed' = failed /\ spent' = spent) \/ Trouble \/ Refused
      BY DEF connectHost, Rejects, listDirectory, Operation, Fine, history
    <2> QED
      BY <1>1, <1>2, <2>1, FineHolds DEF Fine
  <1>5. {up', cancelRequested'} \subseteq BOOLEAN
    BY <1>2 DEF connectHost, Rejects, listDirectory, Operation, client
  <1>6. remote' \in [Paths -> Files]
    <2>1. CASE Operation
      <3>1. slot.op \in {"mkdir", "remove", "rename"}
        BY <2>1 DEF Operation, Takes
      <3>2. slot.path \in Paths /\ slot.to \in Paths
        BY <1>3, <3>1, RequestParts
      <3>3. remote[slot.path] \in Files /\ NoFile \in Files
        BY <1>2, <3>2 DEF FilesHold, Files
      <3>4. \/ remote' = remote \/ remote' = [remote EXCEPT ![slot.path] = NoFile]
            \/ remote' = [remote EXCEPT ![slot.to] = remote[slot.path], ![slot.path] = NoFile]
        BY <2>1, <3>1 DEF Operation
      <3> QED
        BY <1>2, <3>2, <3>3, <3>4 DEF FilesHold
    <2>2. CASE ~Operation
      BY <1>2, <2>2 DEF connectHost, Rejects, listDirectory, server, FilesHold
    <2> QED
      BY <2>1, <2>2
  <1>7. \E s : Answers(slot, s) /\ Emit(s)
    <2>1. CASE connectHost
      <3>1. slot.op = "connect" /\ (Emit(Plain("connected")) \/ Emit(Plain("errorOccurred")))
        BY <2>1 DEF connectHost, Takes
      <3>2. Answers(slot, Plain("connected")) /\ Answers(slot, Plain("errorOccurred"))
        BY <3>1, SignalsAre DEF Answers, Plain, IsEnd, IsProgress, Transfers
      <3> QED
        BY <3>1, <3>2
    <2>2. CASE Rejects
      BY <2>2, NegativeAnswers DEF Rejects, Takes
    <2>3. CASE listDirectory
      <3>1. slot.op = "list" /\ Emit(Listed(slot.path[1])) /\ slot.path[1] \in Dirs
        BY <1>3, <2>3, RequestParts DEF listDirectory, Takes
      <3>2. Listed(slot.path[1]) \in Signals /\ Listed(slot.path[1]).signal = "directoryListed"
        BY <3>1, SignalsAre DEF Listed
      <3> QED
        BY <3>1, <3>2 DEF Answers, IsEnd, IsProgress, Transfers
    <2>4. CASE Operation
      <3>1. slot.op \in {"mkdir", "remove", "rename"} /\ \E ok \in BOOLEAN : Emit(OpDone(ok))
        BY <2>4 DEF Operation, Takes
      <3>2. \A ok \in BOOLEAN : Answers(slot, OpDone(ok))
        BY <3>1, SignalsAre DEF Answers, OpDone, IsEnd, IsProgress, Transfers
      <3> QED
        BY <3>1, <3>2
    <2> QED
      BY <2>1, <2>2, <2>3, <2>4
  <1> QED
    BY <1>1, <1>3, <1>4, <1>5, <1>6, <1>7

LEMMA SlotTypes ==
    ASSUME Types, connectHost \/ Rejects \/ listDirectory \/ Operation
    PROVE  Types'
  <1>1. /\ FilesHold /\ PaneHolds(pane) /\ JobHolds /\ sig \in Seq(Signals) /\ CopyHolds(xfer)
    BY DEF Types
  <1>2. PICK s : Answers(slot, s) /\ Emit(s)
    BY SlotAnswers
  <1>3. sig' \in Seq(Signals)
    BY <1>1, <1>2, EmitHolds DEF Answers
  <1>4. PaneHolds(pane')
    BY <1>1, SlotAnswers, TakenHolds DEF TakesSlot
  <1> QED
    BY <1>1, <1>3, <1>4, SlotAnswers DEF Types, FilesHold, JobHolds, TakesSlot
(* A transfer begins, or ends at once because there is nothing to send.        *)
LEMMA StartTypes ==
    ASSUME Types, StartTransfer
    PROVE  /\ Types' /\ TakesSlot /\ slot.op \in Transfers
           /\ \/ job' = job /\ \E s : Answers(slot, s) /\ Emit(s)
              \/ job' \in Jobs /\ job'.op = slot.op /\ sig' = sig
  <1> DEFINE file == Source(slot)
  <1>1. /\ FilesHold /\ PaneHolds(pane) /\ JobHolds /\ sig \in Seq(Signals) /\ CopyHolds(xfer)
        /\ HistoryHolds
    BY DEF Types
  <1>2. /\ slot.op \in Transfers /\ pane.req # <<>> /\ job = NoJob /\ xfer' = xfer /\ up' = up
        /\ mixed' = mixed /\ cancelRequested' = FALSE
    BY DEF StartTransfer, Takes
  <1>3. /\ slot \in Requests /\ PaneHolds(Taken) /\ Taken.req = Tail(pane.req)
        /\ \A m \in Members \ {"req"} : Taken[m] = pane[m]
    BY <1>1, <1>2, TakenHolds
  <1>4. CopyHolds(xfer') /\ up' \in BOOLEAN /\ cancelRequested' \in BOOLEAN
    BY <1>1, <1>2 DEF JobHolds
  <1>5. HistoryHolds'
    <2>1. Fine \/ Refused
      BY DEF StartTransfer
    <2> QED
      BY <1>1, <1>2, <2>1, FineHolds
  <1>6. CASE file = NoFile
    <2>1. /\ pane' = Taken /\ Emit(Negative(slot.op)) /\ UNCHANGED <<server, job>>
      BY <1>6 DEF StartTransfer
    <2>2. Answers(slot, Negative(slot.op))
      BY <1>2, NegativeAnswers
    <2>3. sig' \in Seq(Signals)
      BY <1>1, <2>1, <2>2, EmitHolds DEF Answers
    <2>4. Types'
      BY <1>1, <1>3, <1>4, <1>5, <2>1, <2>3 DEF Types, FilesHold, JobHolds, server
    <2> QED
      BY <1>2, <1>3, <2>1, <2>2, <2>4 DEF TakesSlot
  <1>7. CASE file # NoFile
    <2> DEFINE d == IF slot.op = "fetch" THEN Touched(slot.path[2]) ELSE pane.edited
    <2>1. /\ job' = [op |-> slot.op, path |-> slot.path, to |-> slot.to, stage |-> "open"]
          /\ local' = local \/ local' = [local EXCEPT ![slot.path[2]] = Piece(file)]
          /\ remote' = remote \/ remote' = [remote EXCEPT ![slot.path] = Piece(file)]
          /\ sig' = sig
      BY <1>7 DEF StartTransfer
    <2>2. job' \in Jobs /\ job'.op = slot.op
      BY <1>2, <1>3, <2>1, RequestMakesJob
    <2>3. slot.path \in Paths /\ (slot.op = "upload" => slot.to \in {""} \X Names)
      BY <1>2, <1>3, RequestParts DEF Transfers
    <2>4. file \in Files
      BY <1>1, <1>2, <2>3, SourceHolds
    <2> HIDE DEF file
    <2>5. FilesHold'
      BY <1>1, <2>1, <2>4, FilesAre, LocalHolds, RemoteHolds DEF FilesHold
    <2>6. d \in [Paths -> Edits]
      BY <1>1, <2>3, PathParts, TouchedHolds DEF PaneHolds, PaneType
    <2>7. pane' = [Taken EXCEPT !.edited = d]
      <3>1. Taken.edited = pane.edited
        BY <1>3 DEF Members
      <3> QED
        BY <1>7, <3>1 DEF StartTransfer, file
    <2> HIDE DEF d
    <2>8. PaneHolds(pane') /\ \A m \in Members \ {"edited"} : pane'[m] = Taken[m]
      BY <1>3, <2>6, <2>7, EditedHolds
    <2>9. TakesSlot
      BY <1>2, <1>3, <2>8 DEF TakesSlot, Members
    <2>10. Types'
      BY <1>1, <1>4, <1>5, <2>1, <2>2, <2>5, <2>8 DEF Types, JobHolds
    <2> QED
      BY <1>2, <2>1, <2>2, <2>9, <2>10
  <1> QED
    BY <1>6, <1>7

LEMMA MoveTypes ==
    ASSUME Types, MoveBlock
    PROVE  /\ Types' /\ pane' = pane /\ job # NoJob /\ job' \in Jobs /\ job'.op = job.op
           /\ xfer' = xfer /\ mixed' = mixed
           /\ \E s : s \in Signals /\ IsProgress(s) /\ Emit(s)
  <1>1. JobHolds /\ sig \in Seq(Signals)
    BY DEF Types
  <1>2. /\ pane' = pane /\ job # NoJob /\ xfer' = xfer /\ mixed' = mixed
        /\ job' = [job EXCEPT !.stage = "moving"] /\ Emit(Plain("transferProgress"))
        /\ UNCHANGED <<server, up, cancelRequested, failed, spent>>
    BY DEF MoveBlock, InTransfer
  <1>3. job' \in Jobs /\ job'.op = job.op
    BY <1>1, <1>2, JobParts DEF JobHolds
  <1>4. Plain("transferProgress") \in Signals /\ IsProgress(Plain("transferProgress"))
    BY SignalsAre DEF Plain, IsProgress
  <1>5. sig' \in Seq(Signals)
    BY <1>1, <1>2, <1>4, EmitHolds
  <1>6. Types'
    BY <1>2, <1>3, <1>5 DEF Types, FilesHold, JobHolds, HistoryHolds, server
  <1> QED
    BY <1>2, <1>3, <1>4, <1>6

LEMMA EndTypes ==
    ASSUME Types, EndTransfer \/ CancelTransfer \/ BreakTransfer
    PROVE  /\ Types' /\ job # NoJob /\ job' = NoJob /\ xfer' = xfer /\ mixed' = mixed
           /\ \A m \in Members \ {"edited"} : pane'[m] = pane[m]
           /\ \E s : s \in Signals /\ IsEnd(s) /\ s.op = job.op /\ Emit(s)
  <1>1. /\ FilesHold /\ PaneHolds(pane) /\ JobHolds /\ sig \in Seq(Signals) /\ CopyHolds(xfer)
        /\ HistoryHolds
    BY DEF Types
  <1>2. /\ job # NoJob /\ job' = NoJob /\ xfer' = xfer /\ mixed' = mixed
        /\ UNCHANGED <<up, cancelRequested>>
    BY DEF EndTransfer, CancelTransfer, BreakTransfer, InTransfer
  <1>3. job \in Jobs
    BY <1>1, <1>2 DEF JobHolds
  <1>4. /\ job.op \in Transfers /\ job.path \in Paths /\ job.path[2] \in Names
        /\ job.op = "upload" => job.to \in {""} \X Names
    BY <1>3, JobParts, PathParts
  <1>5. \E ok \in BOOLEAN, cancelled \in BOOLEAN : Emit(Done(job.op, ok, cancelled))
    BY DEF EndTransfer, CancelTransfer, BreakTransfer
  <1>6. PICK s : s \in Signals /\ IsEnd(s) /\ s.op = job.op /\ Emit(s)
    BY <1>4, <1>5, SignalsAre DEF Done, IsEnd
  <1>7. sig' \in Seq(Signals)
    BY <1>1, <1>6, EmitHolds
  <1>8. Source(job) \in Files
    BY <1>1, <1>4, SourceHolds
  <1>9. FilesHold'
    <2>1. /\ \/ local' = local \/ local' = [local EXCEPT ![job.path[2]] = Source(job)]
             \/ local' = [local EXCEPT ![job.path[2]] = NoFile]
          /\ remote' = remote \/ remote' = [remote EXCEPT ![job.path] = Source(job)]
      BY DEF EndTransfer, CancelTransfer, BreakTransfer, server
    <2> QED
      BY <1>1, <1>8, <2>1, FilesAre, LocalHolds, RemoteHolds DEF FilesHold
  <1>10. PaneHolds(pane') /\ \A m \in Members \ {"edited"} : pane'[m] = pane[m]
    <2>1. pane' = pane \/ pane' = [pane EXCEPT !.edited = Touched(job.path[2])]
                       \/ pane' = [pane EXCEPT !.edited = pane.edited]
      BY DEF EndTransfer, CancelTransfer, BreakTransfer
    <2>2. Touched(job.path[2]) \in [Paths -> Edits] /\ pane.edited \in [Paths -> Edits]
      BY <1>1, <1>4, TouchedHolds DEF PaneHolds, PaneType
    <2> QED
      BY <1>1, <2>1, <2>2, EditedHolds
  <1>11. HistoryHolds'
    <2>1. Fine \/ Trouble
      BY DEF EndTransfer, CancelTransfer, BreakTransfer, Fine
    <2> QED
      BY <1>1, <1>2, <2>1, FineHolds
  <1> QED
    BY <1>1, <1>2, <1>6, <1>7, <1>9, <1>10, <1>11 DEF Types, JobHolds
LEMMA CrossTypes ==
    ASSUME Types, Cross
    PROVE  /\ Types' /\ pane' = pane /\ job' = job /\ mixed' = mixed
           /\ xfer # NoXfer /\ xfer' # NoXfer /\ xfer.stage # "over"
           /\ \/ xfer'.stage # "over" /\ sig' = sig
              \/ xfer'.stage # "over" /\ \E s : s \in Signals /\ IsProgress(s) /\ Emit(s)
              \/ xfer'.stage = "over" /\ \E s : s \in Signals /\ s.signal = "finished" /\ Emit(s)
  <1>1. /\ FilesHold /\ sig \in Seq(Signals) /\ CopyHolds(xfer) /\ HistoryHolds /\ xfer \in Copies
    BY DEF Types, CopyHolds
  <1>2. /\ UNCHANGED <<local, pane, client, mixed>> /\ xfer.stage \notin {"none", "over"}
    BY DEF Cross, CrossStarts, CrossFile, CrossFileEnds, CrossFails, CrossEnds, CrossReports,
           InCross
  <1>3. xfer # NoXfer
    BY <1>2 DEF NoXfer
  <1>4. /\ xfer' \in Copies /\ xfer'.stage \in {"between", "writing", "closing", "over"}
        /\ xfer'.stage = "writing" => xfer'.todo # <<>>
        /\ xfer'.stage = "over" <=> CrossReports
    <2>1. CASE CrossStarts \/ CrossFile \/ CrossFails \/ CrossEnds \/ CrossReports
      BY <1>1, <2>1 DEF CrossStarts, CrossFile, CrossFails, CrossEnds, CrossReports, Copies
    <2>2. CASE CrossFileEnds
      <3>1. xfer.todo \in Seq(Names) /\ xfer.todo # <<>>
        BY <1>1, <2>2 DEF CrossFileEnds, CopyHolds, Copies
      <3>2. Tail(xfer.todo) \in Seq(Names)
        BY <3>1, HeadTailProperties
      <3>3. xfer' = [xfer EXCEPT !.stage = "between", !.todo = Tail(xfer.todo)]
        BY <1>1, <2>2 DEF CrossFileEnds, Copies
      <3> QED
        BY <1>1, <2>2, <3>2, <3>3 DEF CrossFileEnds, CrossReports, Copies
    <2> QED
      BY <2>1, <2>2 DEF Cross
  <1>5. xfer' # NoXfer /\ CopyHolds(xfer')
    BY <1>4 DEF CopyHolds, NoXfer
  <1>6. FilesHold'
    <2>1. \/ remote' = remote
          \/ \E x, f : f \in {Original(Outside), Piece(Original(Outside))}
                       /\ remote' = [remote EXCEPT ![x] = f]
      BY DEF Cross, CrossStarts, CrossFile, CrossFileEnds, CrossFails, CrossEnds, CrossReports
    <2>2. {Original(Outside), Piece(Original(Outside))} \subseteq Files
      BY FilesAre
    <2> QED
      BY <1>1, <1>2, <2>1, <2>2, RemoteHolds DEF FilesHold
  <1>7. HistoryHolds'
    <2>1. (failed' = failed /\ spent' = spent) \/ Trouble
      BY DEF Cross, CrossStarts, CrossFile, CrossFileEnds, CrossFails, CrossEnds, CrossReports
    <2> QED
      BY <1>1, <1>2, <2>1, FineHolds DEF Fine
  <1>8. /\ sig' \in Seq(Signals)
        /\ \/ xfer'.stage # "over" /\ sig' = sig
           \/ xfer'.stage # "over" /\ \E s : s \in Signals /\ IsProgress(s) /\ Emit(s)
           \/ xfer'.stage = "over" /\ \E s : s \in Signals /\ s.signal = "finished" /\ Emit(s)
    <2>1. CASE CrossReports
      <3>1. xfer.ok \in BOOLEAN /\ xfer.cancelled \in BOOLEAN
        BY <1>1 DEF Copies
      <3>2. \E a \in BOOLEAN, b \in BOOLEAN :
               Emit([signal |-> "finished", ok |-> a, cancelled |-> b])
        BY <2>1, <3>1 DEF CrossReports, Finished
      <3>3. PICK s : s \in Signals /\ s.signal = "finished" /\ Emit(s)
        BY <3>2, SignalsAre
      <3> QED
        BY <1>1, <1>4, <2>1, <3>3, EmitHolds
    <2>2. CASE CrossFile /\ ~CrossReports
      <3>1. /\ Plain("transferProgress") \in Signals /\ IsProgress(Plain("transferProgress"))
            /\ Emit(Plain("transferProgress"))
        BY <2>2, SignalsAre DEF CrossFile, Plain, IsProgress
      <3> QED
        BY <1>1, <1>4, <2>2, <3>1, EmitHolds
    <2>3. CASE ~CrossFile /\ ~CrossReports
      BY <1>1, <1>4, <2>3 DEF Cross, CrossStarts, CrossFileEnds, CrossFails, CrossEnds
    <2> QED
      BY <2>1, <2>2, <2>3
  <1> QED
    BY <1>2, <1>3, <1>5, <1>6, <1>7, <1>8 DEF Types, JobHolds, client

LEMMA InitTypes == Init => Types
  <1> SUFFICES ASSUME Init PROVE Types
    OBVIOUS
  <1>1. FilesHold
    BY FilesAre DEF Init, FilesHold
  <1>2. PaneHolds(pane)
    <2>1. Slot("connect", NoPath) \in Requests
      BY DEF Slot, Requests
    <2>2. <<Slot("connect", NoPath)>> \in Seq(Requests)
      BY <2>1
    <2>3. /\ <<>> \in Seq(Items) /\ <<>> \in Seq(Paths) /\ <<>> \in Seq(Frames) /\ Len(<<>>) = 0
          /\ NoEdit \in Edits /\ NoFile \in Files
      BY DEF Edits, Files
    <2>4. pane \in PaneType /\ pane.frames = <<>>
      BY <2>2, <2>3 DEF Init, PaneType
    <2> QED
      BY <2>3, <2>4, BoundsAssumption DEF PaneHolds, FramesAsk
  <1>3. JobHolds /\ sig \in Seq(Signals)
    <2>1. up \in BOOLEAN /\ cancelRequested \in BOOLEAN /\ job = NoJob /\ sig = <<>>
      BY DEF Init
    <2>2. <<>> \in Seq(Signals)
      OBVIOUS
    <2> QED
      BY <2>1, <2>2 DEF JobHolds
  <1>4. CopyHolds(xfer)
    <2>1. <<>> \in Seq(Names)
      OBVIOUS
    <2>2. NoXfer \in Copies /\ NoXfer.stage = "none"
      BY <2>1 DEF NoXfer, Copies
    <2> QED
      BY <2>2 DEF Init, CopyHolds
  <1>5. HistoryHolds
    <2>1. "saves" \in DOMAIN Bound /\ MaxSaves \in Nat
      BY BoundsAssumption DEF Bound
    <2>2. /\ spent = [b \in DOMAIN Bound |-> 0] /\ mixed \in BOOLEAN /\ failed \in BOOLEAN
      BY DEF Init
    <2>3. spent \in [DOMAIN Bound -> Nat] /\ spent["saves"] = 0
      BY <2>1, <2>2
    <2> QED
      BY <2>1, <2>2, <2>3 DEF HistoryHolds
  <1> QED
    BY <1>1, <1>2, <1>3, <1>4, <1>5 DEF Types

LEMMA StepTypes == ASSUME Types, [Next]_vars PROVE Types'
  <1>1. CASE OnSignal \/ checkEditedFiles \/ User
    BY <1>1, WindowTypes
  <1>2. CASE Client
    BY <1>2, SlotTypes, StartTypes, MoveTypes, EndTypes DEF Client
  <1>3. CASE Cross
    BY <1>3, CrossTypes
  <1>4. CASE UNCHANGED vars
    BY <1>4 DEF vars, server, client, history, Types, FilesHold, JobHolds, HistoryHolds
  <1> QED
    BY <1>1, <1>2, <1>3, <1>4 DEF Next

(* Every variable holds what its part of the program may hold.                 *)
THEOREM TypesHold == Spec => []Types
  BY InitTypes, StepTypes, PTL DEF Spec
-----------------------------------------------------------------------------
(* Whose turn it is.  Unless an operation was begun over another one, the      *)
(* pane is in one of six modes, and what the user waits for is in one place.   *)

RefreshBox(p) == \E i \in 1..Len(p.frames) : p.frames[i].kind = "refresh"

(* Nobody waits: a dialog lies under every box, and a file for editing whose   *)
(* fetching failed is forgotten when its box is answered.                      *)
QuietPane(p) ==
    /\ p.queue = <<>> /\ NoWork(p)
    /\ \A i \in 1..Len(p.frames) : p.frames[i].kind \in Dialogs => i = 1
    /\ p.pendingEdit # NoPath => RefreshBox(p)

(* The pane waits for one operation.                                           *)
Single(p, operation) ==
    /\ p.frames = <<>> /\ p.busy
    /\ p.queue # <<>> => operation \in Batched
    /\ p.pendingEdit # NoPath => operation = "fetch"

(* The cancel button and what it did are taken back by the end of a transfer.  *)
EndIn(s) == \E j \in 1..Len(s) : IsEnd(s[j])
EndAhead(p, s) ==
    /\ p.canCancel \/ p.cancelling => EndIn(s)
    /\ \A i \in 1..Len(s) : IsProgress(s[i]) => \E j \in 1..Len(s) : i < j /\ IsEnd(s[j])

Progressing(s) == \A i \in 1..Len(s) : IsProgress(s[i])
Closing(s, kind) ==
    /\ s # <<>> /\ s[Len(s)].signal = kind
    /\ \A i \in 1..(Len(s) - 1) : IsProgress(s[i])

Idle == pane.req = <<>> /\ job = NoJob /\ xfer = NoXfer

Quiet ==
    /\ QuietPane(pane) /\ xfer = NoXfer /\ ~Work(job.op)
    /\ \A i \in 1..Len(sig) : sig[i].signal # "finished" /\ (IsEnd(sig[i]) => sig[i].op = "upload")
    /\ job # NoJob \/ EndAhead(pane, sig)
Asked ==
    /\ Calm(pane) /\ job = NoJob /\ sig = <<>> /\ xfer = NoXfer
    /\ \E r \in Requests : pane.req = <<r>> /\ Work(r.op) /\ Single(pane, r.op)
Moving ==
    /\ Work(job.op) /\ Single(pane, job.op) /\ pane.req = <<>> /\ xfer = NoXfer
    /\ Progressing(sig)
Answered ==
    /\ Idle /\ Closing(sig, "transferFinished")
    /\ Work(sig[Len(sig)].op) /\ Single(pane, sig[Len(sig)].op)
Paused ==
    /\ Idle /\ sig = <<>> /\ Calm(pane) /\ pane.busy /\ pane.queue # <<>>
    /\ pane.pendingEdit = NoPath
    /\ Len(pane.frames) = 1 /\ pane.frames[1].kind = "pump"
Crossing ==
    /\ xfer # NoXfer /\ Single(pane, "cross") /\ pane.req = <<>> /\ job = NoJob
    /\ IF xfer.stage = "over" THEN Closing(sig, "finished") ELSE Progressing(sig)

Mode == Quiet \/ Asked \/ Moving \/ Answered \/ Paused \/ Crossing
Turns == mixed \/ Mode

LEMMA FreeIsQuiet == ASSUME Mode, ~pane.busy PROVE Quiet
  BY DEF Mode, Asked, Moving, Answered, Paused, Crossing, Single

LEMMA BoxedIsQuietOrPaused == ASSUME Mode, pane.frames # <<>> PROVE Quiet \/ Paused
  BY DEF Mode, Asked, Moving, Answered, Paused, Crossing, Single

(* What begins no work and shows one box at most leaves the pane quiet.        *)
LEMMA QuietPaneStays ==
    ASSUME NEW p \in PaneType, NEW q, QuietPane(p), Lets(p, q)
    PROVE  QuietPane(q)
  <1>1. q.queue = <<>> /\ NoWork(q) /\ q.pendingEdit \in {p.pendingEdit, NoPath} /\ Boxed(p, q)
    BY DEF QuietPane, Lets, Keeps
  <1>2. CASE q.frames = p.frames
    BY <1>1, <1>2 DEF QuietPane, RefreshBox
  <1>3. ASSUME NEW b \in Frames, b.kind \in Boxes, q.frames = Append(p.frames, b)
        PROVE  QuietPane(q)
    <2> DEFINE n == Len(p.frames)
    <2>1. /\ n \in Nat /\ Len(q.frames) = n + 1 /\ q.frames[n + 1] = b
          /\ \A i \in 1..n : q.frames[i] = p.frames[i]
      BY <1>3, AppendProperties DEF PaneType
    <2>2. b.kind \notin Dialogs
      BY <1>3 DEF Boxes, Dialogs
    <2>3. \A i \in 1..n : p.frames[i].kind \in Dialogs => i = 1
      BY DEF QuietPane
    <2>4. RefreshBox(p) => RefreshBox(q)
      BY <2>1 DEF RefreshBox
    <2> HIDE DEF n
    <2>5. ASSUME NEW i \in 1..Len(q.frames), q.frames[i].kind \in Dialogs PROVE i = 1
      <3>1. i \in 1..n \/ i = n + 1
        BY <2>1
      <3> QED
        BY <2>1, <2>2, <2>3, <2>5, <3>1
    <2> QED
      BY <1>1, <2>4, <2>5 DEF QuietPane
  <1> QED
    BY <1>1, <1>2, <1>3 DEF Boxed

LEMMA QuietStays ==
    ASSUME Types, Quiet, Lets(pane, pane'), UNCHANGED <<job, sig, xfer>>
    PROVE  Quiet'
  <1>1. pane \in PaneType
    BY DEF Types, PaneHolds
  <1>2. QuietPane(pane')
    BY <1>1, QuietPaneStays DEF Quiet
  <1>3. (pane'.canCancel => pane.canCancel) /\ (pane'.cancelling => pane.cancelling)
    BY DEF Lets, Keeps
  <1> QED
    BY <1>2, <1>3 DEF Quiet, EndAhead

LEMMA RestIsIdle ==
    ASSUME Quiet, ~Underway
    PROVE  Idle /\ sig = <<>> /\ Calm(pane)
  <1>1. Idle /\ sig = <<>> /\ 1..Len(sig) = {}
    BY DEF Underway, Idle
  <1> QED
    BY <1>1 DEF Quiet, EndAhead, EndIn, Idle, Calm

(* From a pane at rest the user begins one operation.                          *)
LEMMA BeginsAsked ==
    ASSUME NEW p \in PaneType, Begins(p, pane'), p.frames = <<>>, p.queue = <<>>, p.req = <<>>,
           p.pendingEdit = NoPath, Calm(p), job' = NoJob, sig' = <<>>, xfer' = NoXfer
    PROVE  Asked'
  <1>1. PICK r \in Requests : /\ Work(r.op) /\ pane'.req = Append(p.req, r)
                              /\ pane'.queue = p.queue \/ r.op \in Batched
                              /\ pane'.pendingEdit = p.pendingEdit \/ r.op = "fetch"
    BY DEF Begins
  <1>2. pane'.req = <<r>>
    BY <1>1
  <1> QED
    BY <1>1, <1>2 DEF Begins, Asked, Single, Calm

LEMMA QuietEmpty == ASSUME NEW p, QuietPane(p), p.frames = <<>> PROVE p.pendingEdit = NoPath
  <1>1. 1..Len(p.frames) = {}
    OBVIOUS
  <1> QED
    BY <1>1 DEF QuietPane, RefreshBox

LEMMA StartsAsked ==
    ASSUME Types, Mode, Starts, Free, Begins(pane, pane'), UNCHANGED <<job, sig, xfer>>
    PROVE  Turns'
  <1>1. CASE Underway
    BY <1>1 DEF Turns, Starts
  <1>2. CASE ~Underway
    <2>1. Quiet /\ pane \in PaneType /\ pane.frames = <<>>
      BY FreeIsQuiet DEF Free, AtWork, Types, PaneHolds
    <2>2. Idle /\ sig = <<>> /\ Calm(pane)
      BY <1>2, <2>1, RestIsIdle
    <2>3. pane.queue = <<>> /\ pane.pendingEdit = NoPath
      BY <2>1, QuietEmpty DEF Quiet, QuietPane
    <2>4. Asked'
      BY <2>1, <2>2, <2>3, BeginsAsked DEF Idle
    <2> QED
      BY <2>4 DEF Turns, Mode
  <1> QED
    BY <1>1, <1>2
(* Steps that leave each member a mode looks at.                               *)
Alone(p, q) == \A m \in {"busy", "canCancel", "cancelling", "queue", "pendingEdit", "frames", "req"} :
                   q[m] = p[m]

LEMMA ModeStays ==
    ASSUME Mode, Alone(pane, pane'), UNCHANGED <<job, sig, xfer>>
    PROVE  Mode'
  <1>1. /\ pane'.busy = pane.busy /\ pane'.canCancel = pane.canCancel
        /\ pane'.cancelling = pane.cancelling /\ pane'.queue = pane.queue
        /\ pane'.pendingEdit = pane.pendingEdit /\ pane'.frames = pane.frames
        /\ pane'.req = pane.req
    BY DEF Alone
  <1>2. Quiet => Quiet'
    BY <1>1 DEF Quiet, QuietPane, NoWork, RefreshBox, EndAhead
  <1>3. Asked => Asked'
    BY <1>1 DEF Asked, Calm, Single
  <1>4. (Moving => Moving') /\ (Answered => Answered')
    BY <1>1 DEF Moving, Answered, Single, Idle
  <1>5. Paused => Paused'
    BY <1>1 DEF Paused, Calm, Idle
  <1>6. Crossing => Crossing'
    BY <1>1 DEF Crossing, Single
  <1> QED
    BY <1>2, <1>3, <1>4, <1>5, <1>6 DEF Mode

LEMMA DialogMode == ASSUME Types, Mode, OpenDialog PROVE Turns'
  <1>1. PaneHolds(pane)
    BY DEF Types
  <1>2. /\ Starts /\ AtWork /\ pane.frames = <<>> /\ Len(pane'.frames) = 1
        /\ UNCHANGED <<server, xfer>> /\ \A m \in Members \ {"frames"} : pane'[m] = pane[m]
    BY <1>1, DialogOpens
  <1>3. ~pane.busy /\ UNCHANGED <<job, sig, xfer>>
    BY <1>2 DEF OpenDialog, Dialog, Opened, Free, AtWork, client
  <1>4. Quiet
    BY <1>3, FreeIsQuiet
  <1>5. /\ pane'.canCancel = pane.canCancel /\ pane'.cancelling = pane.cancelling
        /\ pane'.queue = pane.queue /\ pane'.pendingEdit = pane.pendingEdit
        /\ pane'.req = pane.req
    BY <1>2 DEF Members
  <1>6. pane.pendingEdit = NoPath
    BY <1>2, <1>4, QuietEmpty DEF Quiet
  <1>7. QuietPane(pane')
    BY <1>2, <1>4, <1>5, <1>6 DEF Quiet, QuietPane, NoWork
  <1>8. Quiet'
    BY <1>3, <1>4, <1>5, <1>7 DEF Quiet, EndAhead
  <1> QED
    BY <1>8 DEF Turns, Mode

LEMMA StartCrossMode ==
    ASSUME Types, Mode, NEW names \in Batches(Names), startCrossTransfer(names)
    PROVE  Turns'
  <1>1. PaneHolds(pane)
    BY DEF Types
  <1>2. /\ pane'.busy /\ \A m \in Members \ {"busy", "canCancel"} : pane'[m] = pane[m]
        /\ CopyHolds(xfer') /\ xfer'.stage = "posted"
    BY <1>1, StartCrossHolds
  <1>3. ~pane.busy /\ pane.frames = <<>> /\ UNCHANGED <<job, sig>> /\ Starts
    BY DEF startCrossTransfer, Opened, Free, AtWork, client
  <1>4. CASE Underway
    BY <1>3, <1>4 DEF Turns, Starts
  <1>5. CASE ~Underway
    <2>1. Quiet
      BY <1>3, FreeIsQuiet
    <2>2. Idle /\ sig = <<>>
      BY <1>5, <2>1, RestIsIdle
    <2>3. pane.queue = <<>> /\ pane.pendingEdit = NoPath
      BY <1>3, <2>1, QuietEmpty DEF Quiet, QuietPane
    <2>4. /\ pane'.frames = <<>> /\ pane'.queue = <<>> /\ pane'.pendingEdit = NoPath
          /\ pane'.req = <<>>
      BY <1>2, <1>3, <2>2, <2>3 DEF Members, Idle
    <2>5. xfer' # NoXfer
      BY <1>2 DEF NoXfer
    <2>6. Progressing(sig')
      <3>1. 1..Len(sig') = {}
        BY <1>3, <2>2
      <3> QED
        BY <3>1 DEF Progressing
    <2>7. Crossing'
      BY <1>2, <1>3, <2>2, <2>4, <2>5, <2>6 DEF Crossing, Single, Idle
    <2> QED
      BY <2>7 DEF Turns, Mode
  <1> QED
    BY <1>4, <1>5

LEMMA CancelMode == ASSUME Types, Mode, cancelTransfers PROVE Mode'
  <1>1. /\ pane'.queue = <<>> /\ pane.canCancel /\ pane.frames = <<>>
        /\ \A m \in Members \ {"cancelling", "queue"} : pane'[m] = pane[m]
        /\ xfer'.stage = xfer.stage /\ (xfer' = NoXfer <=> xfer = NoXfer)
    BY CancelHolds DEF Types
  <1>2. /\ pane'.busy = pane.busy /\ pane'.canCancel = pane.canCancel
        /\ pane'.pendingEdit = pane.pendingEdit /\ pane'.frames = pane.frames
        /\ pane'.req = pane.req /\ UNCHANGED <<job, sig>>
    BY <1>1 DEF Members, cancelTransfers
  <1>3. Quiet => Quiet'
    BY <1>1, <1>2 DEF Quiet, QuietPane, NoWork, RefreshBox, EndAhead
  <1>4. ~Asked /\ ~Paused
    BY <1>1 DEF Asked, Paused, Calm
  <1>5. (Moving => Moving') /\ (Answered => Answered')
    BY <1>1, <1>2 DEF Moving, Answered, Single, Idle
  <1>6. Crossing => Crossing'
    BY <1>1, <1>2 DEF Crossing, Single
  <1> QED
    BY <1>3, <1>4, <1>5, <1>6 DEF Mode

(* An answer to a box or a dialog.                                             *)
LEMMA AnswerMode == ASSUME Types, Mode, Answer PROVE Turns'
  <1> DEFINE p == [pane EXCEPT !.frames = Front(@)]
             f == Last(pane.frames)
             n == Len(pane.frames)
  <1>1. /\ PaneHolds(pane) /\ FilesHold /\ pane \in PaneType
    BY DEF Types, PaneHolds
  <1>2. /\ pane.frames # <<>> /\ UNCHANGED <<job, sig, xfer>>
        /\ \/ pane' = Resume(p, f) /\ (f.kind \in Dialogs => Starts)
           \/ f.kind \in Dialogs /\ pane' = p
    BY DEF Answer, client
  <1>3. /\ PaneHolds(p) /\ p \in PaneType /\ Len(p.frames) = n - 1
        /\ f \in Frames /\ Asks(f) /\ (f.kind \in Dialogs => p.cwd \in Dirs)
        /\ \A i \in 1..Len(p.frames) : p.frames[i] = pane.frames[i]
        /\ \A m \in Members \ {"frames"} : p[m] = pane[m]
    BY <1>1, <1>2, ClosedHolds DEF PaneHolds
  <1>4. n \in Nat \ {0} /\ f = pane.frames[n]
    BY <1>1, <1>2, Shrinks DEF PaneType, Sequence
  <1> HIDE DEF p, f, n
  <1>5. /\ p.busy = pane.busy /\ p.canCancel = pane.canCancel /\ p.cancelling = pane.cancelling
        /\ p.queue = pane.queue /\ p.pendingEdit = pane.pendingEdit /\ p.req = pane.req
    BY <1>3 DEF Members
  <1>6. f.kind \in Boxes \cup Dialogs /\ f.ok \in BOOLEAN /\ local \in [Names -> Files]
    BY <1>1, <1>3 DEF Frames, FilesHold
  <1>7. Quiet \/ Paused
    BY <1>2, BoxedIsQuietOrPaused
  <1>8. ASSUME Quiet, f.kind # "refresh"
        PROVE  QuietPane(p)
    <2>1. \A i \in 1..Len(p.frames) : p.frames[i].kind \in Dialogs => i = 1
      BY <1>3, <1>4, <1>8 DEF Quiet, QuietPane, n
    <2>2. ASSUME RefreshBox(pane) PROVE RefreshBox(p)
      <3>1. PICK i \in 1..n : pane.frames[i].kind = "refresh"
        BY <2>2 DEF RefreshBox, n
      <3>2. i # n
        BY <1>4, <1>8, <3>1
      <3>3. i \in 1..Len(p.frames)
        BY <1>3, <1>4, <3>2
      <3> QED
        BY <1>3, <3>1, <3>3 DEF RefreshBox
    <2> QED
      BY <1>5, <1>8, <2>1, <2>2 DEF Quiet, QuietPane, NoWork
  <1>9. ASSUME Quiet, QuietPane(pane'), pane'.canCancel => pane.canCancel,
               pane'.cancelling => pane.cancelling
        PROVE  Quiet'
    BY <1>2, <1>9 DEF Quiet, EndAhead
  <1>10. CASE Quiet /\ f.kind \in Dialogs
    <2>1. QuietPane(p) /\ (Resume(p, f) = p \/ Begins(p, Resume(p, f)))
      BY <1>3, <1>8, <1>10, DialogBegins DEF Dialogs
    <2>2. CASE pane' = p
      BY <1>5, <1>9, <1>10, <2>1, <2>2 DEF Turns, Mode
    <2>3. CASE Starts /\ Begins(p, pane')
      <3>1. CASE Underway
        BY <2>3, <3>1 DEF Turns, Starts
      <3>2. CASE ~Underway
        <4>1. Idle /\ sig = <<>> /\ Calm(pane)
          BY <1>10, <3>2, RestIsIdle
        <4>2. n = 1
          <5>1. n \in 1..n /\ pane.frames[n].kind \in Dialogs
            BY <1>4, <1>10
          <5>2. \A i \in 1..n : pane.frames[i].kind \in Dialogs => i = 1
            BY <1>10 DEF Quiet, QuietPane, n
          <5> QED
            BY <5>1, <5>2
        <4>3. Len(p.frames) = 0
          BY <1>3, <4>2
        <4>4. p.frames = <<>>
          BY <1>3, <4>3, EmptySeq DEF PaneType
        <4>5. p.queue = <<>> /\ p.pendingEdit = NoPath
          BY <2>1, <4>4, QuietEmpty DEF QuietPane
        <4>6. Asked'
          BY <1>2, <1>3, <1>5, <2>3, <4>1, <4>4, <4>5, BeginsAsked DEF Idle, Calm
        <4> QED
          BY <4>6 DEF Turns, Mode
      <3> QED
        BY <3>1, <3>2
    <2> QED
      BY <1>2, <1>10, <2>1, <2>2, <2>3
  <1>11. CASE Quiet /\ f.kind \in Boxes
    <2>1. pane' = Resume(p, f) /\ p.queue = <<>>
      BY <1>2, <1>5, <1>11 DEF Quiet, QuietPane, Boxes, Dialogs
    <2>2. /\ Lets(p, pane') /\ (f.kind \in {"refresh", "pump"} => pane'.pendingEdit = NoPath)
      BY <1>3, <1>6, <1>11, <2>1, BoxResumes
    <2>3. (pane'.canCancel => pane.canCancel) /\ (pane'.cancelling => pane.cancelling)
      BY <1>5, <2>2 DEF Lets, Keeps
    <2>4. CASE f.kind # "refresh"
      <3>1. QuietPane(pane')
        BY <1>3, <1>8, <1>11, <2>2, <2>4, QuietPaneStays
      <3> QED
        BY <1>9, <1>11, <2>3, <3>1 DEF Turns, Mode
    <2>5. CASE f.kind = "refresh"
      <3> DEFINE e == [p EXCEPT !.pendingEdit = NoPath]
      <3>1. /\ e \in PaneType /\ e.queue = p.queue /\ e.req = p.req /\ e.frames = p.frames
            /\ e.pendingEdit = NoPath /\ e.cwd = p.cwd /\ e.canCancel = p.canCancel
            /\ e.cancelling = p.cancelling
        BY <1>3 DEF PaneType
      <3> HIDE DEF e
      <3>2. QuietPane(e)
        BY <1>3, <1>4, <1>5, <1>11, <3>1, SMTT(40) DEF Quiet, QuietPane, NoWork, n
      <3>3. Lets(e, pane')
        BY <2>2, <2>5, <3>1 DEF Lets, Keeps, Typed, Boxed, NoWork
      <3>4. QuietPane(pane')
        BY <3>1, <3>2, <3>3, QuietPaneStays
      <3> QED
        BY <1>9, <1>11, <2>3, <3>4 DEF Turns, Mode
    <2> QED
      BY <2>4, <2>5
  <1>12. CASE Paused
    <2>1. n = 1 /\ f.kind = "pump" /\ Len(p.frames) = 0
      BY <1>3, <1>4, <1>12 DEF Paused, n
    <2>2. /\ p.frames = <<>> /\ p.queue # <<>> /\ p.pendingEdit = NoPath /\ p.busy /\ Calm(p)
          /\ p.req = <<>> /\ f.kind # "refresh"
      BY <1>3, <1>5, <1>12, <2>1, EmptySeq DEF PaneType, Paused, Calm, Idle
    <2>3. pane' = AfterTransfer(p, f.kind, f.ok)
      BY <1>2, <2>1 DEF Resume, Dialogs
    <2>4. /\ pane'.req = Append(p.req, Head(p.queue)) /\ Head(p.queue) \in Items
          /\ \A m \in Members \ {"req", "queue", "uploads"} : pane'[m] = p[m]
      BY <1>3, <1>6, <2>2, <2>3, NextFile
    <2> DEFINE r == Head(p.queue)
    <2>5. r \in Requests /\ Work(r.op) /\ r.op \in Batched
      BY <2>4 DEF Items, Requests, Work, Batched
    <2> HIDE DEF r
    <2>6. pane'.req = <<r>>
      BY <2>2, <2>4 DEF r
    <2>7. /\ pane'.frames = <<>> /\ pane'.busy /\ pane'.pendingEdit = NoPath /\ Calm(pane')
      BY <2>2, <2>4 DEF Members, Calm
    <2>8. Asked'
      BY <1>2, <1>12, <2>5, <2>6, <2>7 DEF Asked, Paused, Single, Calm, Idle
    <2> QED
      BY <2>8 DEF Turns, Mode
  <1> QED
    BY <1>6, <1>7, <1>10, <1>11, <1>12
-----------------------------------------------------------------------------
(* The modes, for the steps of the client and of a cross transfer.             *)

LEMMA SigGrows ==
    ASSUME sig \in Seq(Signals), NEW s, Emit(s)
    PROVE  /\ sig' # <<>> /\ Len(sig) \in Nat /\ Len(sig') = Len(sig) + 1
           /\ Len(sig) + 1 \in 1..Len(sig') /\ Len(sig') - 1 = Len(sig)
           /\ sig'[Len(sig) + 1] = s /\ sig'[Len(sig')] = s
           /\ \A i \in 1..Len(sig) : i \in 1..Len(sig') /\ i < Len(sig) + 1 /\ sig'[i] = sig[i]
           /\ \A i \in 1..Len(sig') : i \in 1..Len(sig) \/ i = Len(sig) + 1
  <1>1. /\ sig' # <<>> /\ Len(sig) \in Nat /\ Len(sig') = Len(sig) + 1
        /\ sig'[Len(sig) + 1] = s /\ \A i \in 1..Len(sig) : sig'[i] = sig[i]
    BY Grows DEF Sequence, Emit
  <1> QED
    BY <1>1

(* The end of a transfer is ahead of everything that came before it.           *)
LEMMA EndComes ==
    ASSUME sig \in Seq(Signals), NEW s, Emit(s), IsEnd(s), NEW p
    PROVE  EndAhead(p, sig')
  <1> DEFINE n == Len(sig)
  <1>1. /\ n + 1 \in 1..Len(sig') /\ sig'[n + 1] = s
        /\ \A i \in 1..Len(sig') : i < n + 1 \/ i = n + 1
    BY SigGrows
  <1> HIDE DEF n
  <1>2. \A i \in 1..Len(sig') : IsProgress(sig'[i]) => i < n + 1
    BY <1>1 DEF IsEnd, IsProgress
  <1> QED
    BY <1>1, <1>2 DEF EndAhead, EndIn

(* Another signal, which is no progress, leaves the ends where they are.       *)
LEMMA EndStays ==
    ASSUME sig \in Seq(Signals), NEW s, Emit(s), ~IsProgress(s), NEW p, EndAhead(p, sig)
    PROVE  EndAhead(p, sig')
  <1>1. /\ \A i \in 1..Len(sig) : i \in 1..Len(sig') /\ sig'[i] = sig[i]
        /\ \A i \in 1..Len(sig') : i \in 1..Len(sig) \/ sig'[i] = s
    BY SigGrows
  <1>2. EndIn(sig) => EndIn(sig')
    BY <1>1 DEF EndIn
  <1>3. ASSUME NEW i \in 1..Len(sig'), IsProgress(sig'[i])
        PROVE  \E j \in 1..Len(sig') : i < j /\ IsEnd(sig'[j])
    <2>1. i \in 1..Len(sig) /\ IsProgress(sig[i])
      BY <1>1, <1>3
    <2>2. PICK j \in 1..Len(sig) : i < j /\ IsEnd(sig[j])
      BY <2>1 DEF EndAhead
    <2> QED
      BY <1>1, <2>2
  <1> QED
    BY <1>2, <1>3 DEF EndAhead

LEMMA TakenQuiet ==
    ASSUME Types, TakesSlot
    PROVE  /\ slot = pane.req[1] /\ Len(pane.req) \in Nat \ {0}
           /\ Quiet => ~Work(slot.op) /\ QuietPane(pane')
           /\ pane'.busy = pane.busy /\ pane'.canCancel = pane.canCancel
           /\ pane'.cancelling = pane.cancelling /\ pane'.queue = pane.queue
           /\ pane'.pendingEdit = pane.pendingEdit /\ pane'.frames = pane.frames
           /\ ~Moving /\ ~Answered /\ ~Paused /\ ~Crossing
  <1>1. pane.req \in Seq(Requests)
    BY DEF Types, PaneHolds, PaneType
  <1>2. /\ Len(pane.req) \in Nat \ {0} /\ slot = pane.req[1]
        /\ Len(pane'.req) = Len(pane.req) - 1
        /\ \A i \in 1..(Len(pane.req) - 1) : pane'.req[i] = pane.req[i + 1]
    BY <1>1, Shrinks DEF Sequence, TakesSlot, slot
  <1>3. /\ pane'.busy = pane.busy /\ pane'.canCancel = pane.canCancel
        /\ pane'.cancelling = pane.cancelling /\ pane'.queue = pane.queue
        /\ pane'.pendingEdit = pane.pendingEdit /\ pane'.frames = pane.frames
    BY DEF TakesSlot, Members
  <1>4. NoWork(pane) => ~Work(slot.op) /\ NoWork(pane')
    BY <1>2 DEF NoWork
  <1>5. Quiet => ~Work(slot.op) /\ QuietPane(pane')
    BY <1>3, <1>4 DEF Quiet, QuietPane, RefreshBox
  <1> QED
    BY <1>2, <1>3, <1>5 DEF TakesSlot, Moving, Answered, Paused, Crossing, Idle

LEMMA SlotMode ==
    ASSUME Types, Mode, TakesSlot, job' = job, NEW s, Answers(slot, s), Emit(s)
    PROVE  Mode'
  <1>1. sig \in Seq(Signals) /\ pane.req \in Seq(Requests)
    BY DEF Types, PaneHolds, PaneType
  <1>2. job = NoJob /\ xfer' = xfer /\ ~Work(job.op)
    BY DEF TakesSlot, NoJob, Work
  <1>3. CASE Quiet
    <2>1. ~Work(slot.op) /\ QuietPane(pane')
      BY <1>3, TakenQuiet
    <2>2. s.signal # "finished" /\ (IsEnd(s) => s.op = "upload")
      BY <2>1 DEF Answers, Work, Transfers
    <2>3. \A i \in 1..Len(sig') :
             sig'[i].signal # "finished" /\ (IsEnd(sig'[i]) => sig'[i].op = "upload")
      BY <1>1, <1>3, <2>2, SigGrows DEF Quiet
    <2>4. EndAhead(pane, sig')
      BY <1>1, <1>2, <1>3, EndStays DEF Quiet, Answers
    <2>5. EndAhead(pane', sig')
      BY <2>4, TakenQuiet DEF EndAhead
    <2> QED
      BY <1>2, <1>3, <2>1, <2>3, <2>5 DEF Quiet, Mode
  <1>4. CASE Asked
    <2>1. PICK r \in Requests : pane.req = <<r>> /\ Work(r.op) /\ Single(pane, r.op)
      BY <1>4 DEF Asked
    <2>2. slot = r /\ pane'.req = <<>>
      BY <2>1 DEF TakesSlot, slot
    <2>3. sig = <<>> /\ Len(sig) = 0 /\ Calm(pane) /\ xfer = NoXfer
      BY <1>4 DEF Asked
    <2>4. sig' # <<>> /\ Len(sig') = 1 /\ sig'[1] = s
      BY <1>1, <2>3, SigGrows
    <2>5. CASE r.op \in Transfers
      <3>1. IsEnd(s) /\ s.op = r.op
        BY <2>2, <2>5 DEF Answers
      <3>2. Closing(sig', "transferFinished")
        BY <2>4, <3>1 DEF Closing, IsEnd
      <3>3. Single(pane', r.op)
        BY <2>1, TakenQuiet DEF Single
      <3>4. Answered'
        BY <1>2, <2>1, <2>2, <2>3, <2>4, <3>1, <3>2, <3>3 DEF Answered, Idle
      <3> QED
        BY <3>4 DEF Mode
    <2>6. CASE r.op \notin Transfers
      <3>1. pane'.frames = <<>> /\ 1..Len(pane'.frames) = {}
        BY <2>1, TakenQuiet DEF Single
      <3>2. pane'.queue = <<>> /\ pane'.pendingEdit = NoPath
        BY <2>1, <2>6, TakenQuiet DEF Single, Batched, Transfers
      <3>3. NoWork(pane')
        BY <2>2 DEF NoWork
      <3>4. QuietPane(pane')
        BY <3>1, <3>2, <3>3 DEF QuietPane
      <3>5. Calm(pane') /\ ~IsEnd(s) /\ ~IsProgress(s) /\ s.signal # "finished"
        BY <2>2, <2>3, <2>6, TakenQuiet DEF Calm, Answers
      <3>6. EndAhead(pane', sig')
        BY <2>4, <3>5 DEF EndAhead, Calm
      <3>7. Quiet'
        BY <1>2, <2>3, <2>4, <3>4, <3>5, <3>6 DEF Quiet
      <3> QED
        BY <3>7 DEF Mode
    <2> QED
      BY <2>5, <2>6
  <1> QED
    BY <1>3, <1>4, TakenQuiet DEF Mode

LEMMA StartMode ==
    ASSUME Types, Mode, TakesSlot, job' \in Jobs, job'.op = slot.op, slot.op \in Transfers,
           sig' = sig
    PROVE  Mode' /\ (Quiet => job'.op = "upload") /\ (Asked => Calm(pane))
  <1>1. job = NoJob /\ xfer' = xfer
    BY DEF TakesSlot
  <1>2. job' # NoJob
    BY JobParts DEF NoJob, Transfers
  <1>3. CASE Quiet
    <2>1. ~Work(slot.op) /\ QuietPane(pane')
      BY <1>3, TakenQuiet
    <2>2. job'.op = "upload"
      BY <2>1 DEF Work, Transfers
    <2>3. Quiet'
      BY <1>1, <1>2, <1>3, <2>1 DEF Quiet
    <2> QED
      BY <2>2, <2>3 DEF Mode, Asked, Calm
  <1>4. CASE Asked
    <2>1. PICK r \in Requests : pane.req = <<r>> /\ Work(r.op) /\ Single(pane, r.op)
      BY <1>4 DEF Asked
    <2>2. slot = r /\ pane'.req = <<>>
      BY <2>1 DEF TakesSlot, slot
    <2>3. sig = <<>> /\ Calm(pane) /\ xfer = NoXfer
      BY <1>4 DEF Asked
    <2>4. Progressing(sig')
      <3>1. 1..Len(sig') = {}
        BY <2>3
      <3> QED
        BY <3>1 DEF Progressing
    <2>5. Single(pane', job'.op)
      BY <2>1, <2>2, TakenQuiet DEF Single
    <2>6. Moving'
      BY <1>1, <2>1, <2>2, <2>3, <2>4, <2>5 DEF Moving
    <2>7. ~Quiet
      <3>1. 1 \in 1..Len(pane.req) /\ pane.req[1] = r
        BY <2>1
      <3> QED
        BY <2>1, <3>1 DEF Quiet, QuietPane, NoWork
    <2> QED
      BY <2>3, <2>6, <2>7 DEF Mode
  <1> QED
    BY <1>3, <1>4, TakenQuiet DEF Mode
(* Progress is behind whatever progress there was.                             *)
LEMMA ProgressGoesOn ==
    ASSUME sig \in Seq(Signals), Progressing(sig), NEW s, Emit(s)
    PROVE  /\ IsProgress(s) => Progressing(sig')
           /\ \A kind : s.signal = kind => Closing(sig', kind)
  BY SigGrows DEF Progressing, Closing

LEMMA MoveMode == ASSUME Types, Mode, MoveBlock PROVE Mode'
  <1>1. sig \in Seq(Signals)
    BY DEF Types
  <1>2. /\ pane' = pane /\ job # NoJob /\ job' \in Jobs /\ job'.op = job.op /\ xfer' = xfer
    BY MoveTypes
  <1>3. PICK s : s \in Signals /\ IsProgress(s) /\ Emit(s)
    BY MoveTypes
  <1>4. job' # NoJob
    BY <1>2, JobParts DEF NoJob, Transfers
  <1>5. CASE Quiet
    <2>1. s.signal # "finished" /\ ~IsEnd(s)
      BY <1>3 DEF IsProgress, IsEnd
    <2>2. \A i \in 1..Len(sig') :
             sig'[i].signal # "finished" /\ (IsEnd(sig'[i]) => sig'[i].op = "upload")
      BY <1>1, <1>3, <1>5, <2>1, SigGrows DEF Quiet
    <2> QED
      BY <1>2, <1>4, <1>5, <2>2 DEF Quiet, Mode
  <1>6. CASE Moving
    <2>1. Progressing(sig')
      BY <1>1, <1>3, <1>6, ProgressGoesOn DEF Moving
    <2> QED
      BY <1>2, <1>6, <2>1 DEF Moving, Mode
  <1> QED
    BY <1>2, <1>5, <1>6 DEF Mode, Asked, Answered, Paused, Crossing, Idle

LEMMA EndMode ==
    ASSUME Types, Mode, EndTransfer \/ CancelTransfer \/ BreakTransfer
    PROVE  Mode'
  <1>1. sig \in Seq(Signals) /\ job \in {NoJob} \cup Jobs
    BY DEF Types, JobHolds
  <1>2. /\ job # NoJob /\ job' = NoJob /\ xfer' = xfer
        /\ \A m \in Members \ {"edited"} : pane'[m] = pane[m]
    BY EndTypes
  <1>3. PICK s : s \in Signals /\ IsEnd(s) /\ s.op = job.op /\ Emit(s)
    BY EndTypes
  <1>4. /\ pane'.busy = pane.busy /\ pane'.queue = pane.queue /\ pane'.req = pane.req
        /\ pane'.pendingEdit = pane.pendingEdit /\ pane'.frames = pane.frames
    BY <1>2 DEF Members
  <1>5. job.op \in Transfers
    BY <1>1, <1>2, JobParts
  <1>6. CASE Quiet
    <2>1. s.signal # "finished" /\ s.op = "upload"
      BY <1>3, <1>5, <1>6 DEF IsEnd, Quiet, Work, Transfers
    <2>2. \A i \in 1..Len(sig') :
             sig'[i].signal # "finished" /\ (IsEnd(sig'[i]) => sig'[i].op = "upload")
      BY <1>1, <1>3, <1>6, <2>1, SigGrows DEF Quiet
    <2>3. EndAhead(pane', sig')
      BY <1>1, <1>3, EndComes
    <2>4. QuietPane(pane')
      BY <1>4, <1>6 DEF Quiet, QuietPane, NoWork, RefreshBox
    <2>5. ~Work(job'.op)
      BY <1>2 DEF NoJob, Work
    <2> QED
      BY <1>2, <1>6, <2>2, <2>3, <2>4, <2>5 DEF Quiet, Mode
  <1>7. CASE Moving
    <2>1. Closing(sig', "transferFinished")
      BY <1>1, <1>3, <1>7, ProgressGoesOn DEF Moving, IsEnd
    <2>2. sig'[Len(sig')] = s
      BY <1>1, <1>3, SigGrows
    <2>3. Answered'
      BY <1>2, <1>3, <1>4, <1>7, <2>1, <2>2 DEF Moving, Answered, Single, Idle
    <2> QED
      BY <2>3 DEF Mode
  <1> QED
    BY <1>2, <1>6, <1>7 DEF Mode, Asked, Answered, Paused, Crossing, Idle

LEMMA CrossMode == ASSUME Types, Mode, Cross PROVE Mode'
  <1>1. sig \in Seq(Signals)
    BY DEF Types
  <1>2. /\ pane' = pane /\ job' = job /\ xfer # NoXfer /\ xfer' # NoXfer /\ xfer.stage # "over"
        /\ \/ xfer'.stage # "over" /\ sig' = sig
           \/ xfer'.stage # "over" /\ \E s : s \in Signals /\ IsProgress(s) /\ Emit(s)
           \/ xfer'.stage = "over" /\ \E s : s \in Signals /\ s.signal = "finished" /\ Emit(s)
    BY CrossTypes
  <1>3. Crossing /\ Progressing(sig)
    BY <1>2 DEF Mode, Quiet, Asked, Moving, Answered, Paused, Crossing, Idle
  <1>4. IF xfer'.stage = "over" THEN Closing(sig', "finished") ELSE Progressing(sig')
    BY <1>1, <1>2, <1>3, ProgressGoesOn
  <1>5. Crossing'
    BY <1>2, <1>3, <1>4 DEF Crossing, Single
  <1> QED
    BY <1>5 DEF Mode

-----------------------------------------------------------------------------
(* The modes, for a signal that arrives.                                       *)

LEMMA SigShrinks ==
    ASSUME sig \in Seq(Signals), sig # <<>>, sig' = Tail(sig)
    PROVE  /\ Len(sig) \in Nat \ {0} /\ Len(sig') = Len(sig) - 1 /\ Head(sig) = sig[1]
           /\ Head(sig) \in Signals /\ 1 \in 1..Len(sig)
           /\ \A i \in 1..Len(sig') : i + 1 \in 1..Len(sig) /\ sig'[i] = sig[i + 1]
           /\ \A j \in 1..Len(sig) : j = 1 \/ (j - 1 \in 1..Len(sig') /\ sig'[j - 1] = sig[j])
           /\ sig' = <<>> <=> Len(sig) = 1
  <1>1. /\ Len(sig) \in Nat \ {0} /\ Len(sig') = Len(sig) - 1 /\ Head(sig) = sig[1]
        /\ \A i \in 1..(Len(sig) - 1) : sig'[i] = sig[i + 1]
        /\ sig' = <<>> <=> Len(sig) = 1
    BY Shrinks DEF Sequence
  <1>2. Head(sig) \in Signals
    BY HeadTailProperties
  <1>3. \A j \in 1..Len(sig) : j = 1 \/ (j - 1 \in 1..Len(sig') /\ sig'[j - 1] = sig[j])
    BY <1>1
  <1> QED
    BY <1>1, <1>2, <1>3

(* An end that was ahead still is, unless it is the one that arrives.          *)
LEMMA EndStaysAhead ==
    ASSUME sig \in Seq(Signals), sig # <<>>, sig' = Tail(sig), NEW p, EndAhead(p, sig),
           NEW q, q.canCancel \/ q.cancelling => EndIn(sig')
    PROVE  EndAhead(q, sig')
  <1>1. ASSUME NEW i \in 1..Len(sig'), IsProgress(sig'[i])
        PROVE  \E j \in 1..Len(sig') : i < j /\ IsEnd(sig'[j])
    <2>1. i + 1 \in 1..Len(sig) /\ IsProgress(sig[i + 1])
      BY <1>1, SigShrinks
    <2>2. PICK j \in 1..Len(sig) : i + 1 < j /\ IsEnd(sig[j])
      BY <2>1 DEF EndAhead
    <2>3. j # 1 /\ i < j - 1
      BY <2>1, <2>2
    <2>4. j - 1 \in 1..Len(sig') /\ sig'[j - 1] = sig[j]
      BY <2>3, SigShrinks
    <2> QED
      BY <2>2, <2>3, <2>4
  <1> QED
    BY <1>1 DEF EndAhead

LEMMA LaterEnd ==
    ASSUME sig \in Seq(Signals), sig # <<>>, sig' = Tail(sig), NEW j \in 1..Len(sig), j # 1,
           IsEnd(sig[j])
    PROVE  EndIn(sig')
  BY SigShrinks DEF EndIn

LEMMA QuietSignal == ASSUME Types, Quiet, OnSignal PROVE Quiet'
  <1> DEFINE s == Head(sig)
  <1>1. /\ sig \in Seq(Signals) /\ pane \in PaneType /\ local \in [Names -> Files]
    BY DEF Types, PaneHolds, FilesHold
  <1>2. /\ sig # <<>> /\ sig' = Tail(sig) /\ pane' = Handle(pane, s) /\ job' = job
        /\ xfer' = IF s.signal = "finished" THEN NoXfer ELSE xfer
    BY DEF OnSignal, client
  <1>3. s = sig[1] /\ s \in Signals /\ 1 \in 1..Len(sig) /\ s.signal # "finished"
    BY <1>1, <1>2, SigShrinks DEF Quiet
  <1>4. xfer' = NoXfer /\ ~Work(job'.op)
    BY <1>2, <1>3 DEF Quiet
  <1>5. \A i \in 1..Len(sig') :
           sig'[i].signal # "finished" /\ (IsEnd(sig'[i]) => sig'[i].op = "upload")
    BY <1>1, <1>2, SigShrinks DEF Quiet
  <1> HIDE DEF s
  <1>6. SUFFICES QuietPane(pane') /\ (job = NoJob => EndAhead(pane', sig'))
    BY <1>2, <1>4, <1>5 DEF Quiet
  <1>7. job = NoJob => EndAhead(pane, sig)
    BY DEF Quiet
  <1>8. CASE IsEnd(s)
    <2>1. Typed(pane, pane') /\ Boxed(pane, pane') /\ Concludes(pane, pane')
      BY <1>1, <1>2, <1>3, <1>8, EndTyped DEF Quiet, QuietPane
    <2>2. ASSUME job = NoJob PROVE EndAhead(pane', sig')
      BY <1>1, <1>2, <1>7, <2>1, <2>2, EndStaysAhead DEF Concludes, Calm
    <2>3. QuietPane(pane')
      <3>1. CASE pane'.pendingEdit = NoPath
        <4> DEFINE e == [pane EXCEPT !.pendingEdit = NoPath, !.canCancel = FALSE,
                                     !.cancelling = FALSE]
        <4>1. /\ e \in PaneType /\ e.queue = pane.queue /\ e.req = pane.req
              /\ e.frames = pane.frames /\ e.cwd = pane.cwd /\ e.pendingEdit = NoPath
              /\ ~e.canCancel /\ ~e.cancelling
          BY <1>1 DEF PaneType
        <4> HIDE DEF e
        <4>2. QuietPane(e)
          BY <4>1 DEF Quiet, QuietPane, NoWork
        <4>3. Lets(e, pane')
          BY <2>1, <3>1, <4>1 DEF Lets, Keeps, Typed, Boxed, Concludes, Calm, NoWork, Quiet,
                                 QuietPane
        <4> QED
          BY <4>1, <4>2, <4>3, QuietPaneStays
      <3>2. CASE pane'.pendingEdit # NoPath
        <4>1. PICK b \in Frames : b.kind = "refresh" /\ pane'.frames = Append(pane.frames, b)
          BY <2>1, <3>2 DEF Concludes
        <4> DEFINE n == Len(pane.frames)
        <4>2. /\ n \in Nat /\ Len(pane'.frames) = n + 1 /\ pane'.frames[n + 1] = b
              /\ \A i \in 1..n : pane'.frames[i] = pane.frames[i]
          BY <1>1, <4>1, AppendProperties DEF PaneType
        <4>3. \A i \in 1..n : pane.frames[i].kind \in Dialogs => i = 1
          BY DEF Quiet, QuietPane
        <4> HIDE DEF n
        <4>4. RefreshBox(pane')
          BY <4>1, <4>2 DEF RefreshBox
        <4>5. ASSUME NEW i \in 1..Len(pane'.frames), pane'.frames[i].kind \in Dialogs
              PROVE  i = 1
          <5>1. i \in 1..n \/ i = n + 1
            BY <4>2
          <5>2. b.kind \notin Dialogs
            BY <4>1 DEF Dialogs
          <5> QED
            BY <4>2, <4>3, <4>5, <5>1, <5>2
        <4> QED
          BY <2>1, <4>4, <4>5 DEF Concludes, Quiet, QuietPane
      <3> QED
        BY <3>1, <3>2
    <2> QED
      BY <2>2, <2>3
  <1>9. CASE IsProgress(s)
    <2>1. \A m \in Members \ {"canCancel"} : pane'[m] = pane[m]
      BY <1>1, <1>2, <1>9, ProgressTyped
    <2>2. QuietPane(pane')
      BY <2>1 DEF Members, Quiet, QuietPane, NoWork, RefreshBox
    <2>3. ASSUME job = NoJob PROVE EndAhead(pane', sig')
      <3>1. PICK j \in 1..Len(sig) : 1 < j /\ IsEnd(sig[j])
        BY <1>3, <1>7, <1>9, <2>3 DEF EndAhead
      <3>2. j # 1
        BY <3>1
      <3>3. EndIn(sig')
        BY <1>1, <1>2, <3>1, <3>2, LaterEnd
      <3> QED
        BY <1>1, <1>2, <1>7, <2>3, <3>3, EndStaysAhead
    <2> QED
      BY <2>2, <2>3
  <1>10. CASE ~IsEnd(s) /\ ~IsProgress(s)
    <2>1. Lets(pane, pane')
      BY <1>1, <1>2, <1>3, <1>10, OtherSignalLets
    <2>2. QuietPane(pane')
      BY <1>1, <2>1, QuietPaneStays DEF Quiet
    <2>3. ASSUME job = NoJob PROVE EndAhead(pane', sig')
      <3>1. ASSUME pane'.canCancel \/ pane'.cancelling PROVE EndIn(sig')
        <4>1. pane.canCancel \/ pane.cancelling
          BY <2>1, <3>1 DEF Lets, Keeps
        <4>2. PICK j \in 1..Len(sig) : IsEnd(sig[j])
          BY <1>7, <2>3, <4>1 DEF EndAhead, EndIn
        <4>3. j # 1
          BY <1>3, <1>10, <4>2
        <4> QED
          BY <1>1, <1>2, <4>2, <4>3, LaterEnd
      <3> QED
        BY <1>1, <1>2, <1>7, <2>3, <3>1, EndStaysAhead
    <2> QED
      BY <2>2, <2>3
  <1> QED
    BY <1>8, <1>9, <1>10
LEMMA ClosingShrinks ==
    ASSUME sig \in Seq(Signals), sig # <<>>, sig' = Tail(sig), NEW kind, Closing(sig, kind)
    PROVE  \/ sig' = <<>> /\ Head(sig) = sig[Len(sig)] /\ Head(sig).signal = kind
           \/ /\ IsProgress(Head(sig)) /\ Closing(sig', kind) /\ sig'[Len(sig')] = sig[Len(sig)]
  <1>1. /\ Len(sig) \in Nat \ {0} /\ Len(sig') = Len(sig) - 1 /\ Head(sig) = sig[1]
        /\ \A i \in 1..Len(sig') : i + 1 \in 1..Len(sig) /\ sig'[i] = sig[i + 1]
        /\ sig' = <<>> <=> Len(sig) = 1
    BY SigShrinks
  <1>2. CASE Len(sig) = 1
    BY <1>1, <1>2 DEF Closing
  <1>3. CASE Len(sig) # 1
    <2>1. Len(sig') \in 1..Len(sig') /\ Len(sig') + 1 = Len(sig) /\ 1 \in 1..(Len(sig) - 1)
      BY <1>1, <1>3
    <2>2. sig'[Len(sig')] = sig[Len(sig)] /\ IsProgress(Head(sig))
      BY <1>1, <2>1 DEF Closing
    <2>3. ASSUME NEW i \in 1..(Len(sig') - 1) PROVE IsProgress(sig'[i])
      <3>1. i \in 1..Len(sig') /\ i + 1 \in 1..(Len(sig) - 1)
        BY <1>1
      <3> QED
        BY <1>1, <3>1 DEF Closing
    <2> QED
      BY <1>1, <1>3, <2>2, <2>3 DEF Closing
  <1> QED
    BY <1>2, <1>3

(* Progress only lights the cancel button.                                     *)
LEMMA ProgressSingle ==
    ASSUME pane \in PaneType, NEW s, IsProgress(s), pane' = Handle(pane, s)
    PROVE  /\ pane'.req = pane.req
           /\ \A operation : Single(pane, operation) => Single(pane', operation)
  <1>1. \A m \in Members \ {"canCancel"} : pane'[m] = pane[m]
    BY ProgressTyped
  <1> QED
    BY <1>1 DEF Members, Single

LEMMA EmptyPaneQuiet ==
    ASSUME NEW p \in PaneType, p.frames = <<>>, p.queue = <<>>, p.req = <<>>,
           p.pendingEdit = NoPath
    PROVE  QuietPane(p)
  <1>1. 1..Len(p.frames) = {} /\ 1..Len(p.req) = {}
    OBVIOUS
  <1> QED
    BY <1>1 DEF QuietPane, NoWork

(* The last signal of a transfer: it was the last file, or the next one is     *)
(* asked for, or a message box waits with it.                                  *)
LEMMA FinishedMode ==
    ASSUME pane \in PaneType, local \in [Names -> Files], NEW s \in Signals, IsEnd(s),
           Single(pane, s.op), pane.req = <<>>, pane' = Handle(pane, s), sig' = <<>>,
           job' = NoJob, xfer' = NoXfer
    PROVE  Mode'
  <1>1. /\ pane.frames = <<>> /\ pane.busy
        /\ pane.queue # <<>> => s.op \in Batched
        /\ pane.pendingEdit # NoPath => s.op = "fetch"
    BY DEF Single
  <1>2. 1..Len(sig') = {} /\ 1..Len(pane.frames) = {} /\ 1..Len(pane.req) = {} /\ ~Work(job'.op)
    BY <1>1 DEF NoJob, Work
  <1>3. CASE pane.queue = <<>> \/ pane.cancelling
    <2>1. Typed(pane, pane') /\ Boxed(pane, pane') /\ Concludes(pane, pane')
      BY <1>3, EndTyped
    <2>2. NoWork(pane')
      BY <1>2, <2>1 DEF Concludes, NoWork
    <2>3. \A i \in 1..Len(pane'.frames) : pane'.frames[i].kind \in Dialogs => i = 1
      <3>1. ASSUME NEW b, pane'.frames = Append(pane.frames, b) PROVE 1..Len(pane'.frames) = {1}
        BY <1>1, <3>1
      <3> QED
        BY <1>2, <2>1, <3>1 DEF Boxed
    <2>4. pane'.pendingEdit # NoPath => RefreshBox(pane')
      <3>1. ASSUME NEW b, b.kind = "refresh", pane'.frames = Append(pane.frames, b)
            PROVE  RefreshBox(pane')
        <4>1. 1 \in 1..Len(pane'.frames) /\ pane'.frames[1] = b
          BY <1>1, <3>1
        <4> QED
          BY <3>1, <4>1 DEF RefreshBox
      <3> QED
        BY <2>1, <3>1 DEF Concludes
    <2>5. QuietPane(pane') /\ EndAhead(pane', sig')
      BY <1>2, <2>1, <2>2, <2>3, <2>4 DEF QuietPane, Concludes, EndAhead, Calm
    <2>6. Quiet'
      BY <1>2, <2>5 DEF Quiet
    <2> QED
      BY <2>6 DEF Mode
  <1>4. CASE pane.queue # <<>> /\ ~pane.cancelling
    <2>1. pane.pendingEdit = NoPath
      BY <1>1, <1>4 DEF Batched
    <2>2. Typed(pane, pane') /\ GoesOn(pane, pane')
      BY <1>4, <2>1, EndTyped
    <2>3. CASE /\ pane'.frames = pane.frames
               /\ \E r \in Items : pane'.req = Append(pane.req, r)
      <3>1. PICK r \in Items : pane'.req = Append(pane.req, r)
        BY <2>3
      <3>2. r \in Requests /\ Work(r.op) /\ r.op \in Batched
        BY DEF Items, Requests, Work, Batched
      <3>3. pane'.req = <<r>>
        BY <3>1
      <3>4. Asked'
        BY <1>1, <2>2, <2>3, <3>2, <3>3 DEF Asked, Single, GoesOn
      <3> QED
        BY <3>4 DEF Mode
    <2>4. CASE /\ pane'.queue # <<>> /\ pane'.req = pane.req
               /\ \E b \in Frames : b.kind = "pump" /\ pane'.frames = Append(pane.frames, b)
      <3>1. PICK b \in Frames : b.kind = "pump" /\ pane'.frames = Append(pane.frames, b)
        BY <2>4
      <3>2. Len(pane'.frames) = 1 /\ pane'.frames[1] = b
        BY <1>1, <3>1
      <3>3. Paused'
        BY <1>1, <2>2, <2>4, <3>1, <3>2 DEF Paused, Idle, GoesOn
      <3> QED
        BY <3>3 DEF Mode
    <2> QED
      BY <2>2, <2>3, <2>4 DEF GoesOn
  <1> QED
    BY <1>3, <1>4

LEMMA SignalMode == ASSUME Types, Mode, OnSignal PROVE Mode'
  <1> DEFINE s == Head(sig)
  <1>1. /\ sig \in Seq(Signals) /\ pane \in PaneType /\ local \in [Names -> Files]
        /\ CopyHolds(xfer)
    BY DEF Types, PaneHolds, FilesHold
  <1>2. /\ sig # <<>> /\ sig' = Tail(sig) /\ pane' = Handle(pane, s) /\ job' = job
        /\ xfer' = IF s.signal = "finished" THEN NoXfer ELSE xfer
    BY DEF OnSignal, client
  <1>3. /\ s = sig[1] /\ s \in Signals /\ 1 \in 1..Len(sig)
        /\ \A i \in 1..Len(sig') : i + 1 \in 1..Len(sig) /\ sig'[i] = sig[i + 1]
    BY <1>1, <1>2, SigShrinks
  <1> HIDE DEF s
  <1>4. ASSUME IsProgress(s)
        PROVE  /\ pane'.req = pane.req /\ xfer' = xfer
               /\ \A operation : Single(pane, operation) => Single(pane', operation)
    BY <1>1, <1>2, <1>4, ProgressSingle DEF IsProgress
  <1>5. Progressing(sig) => IsProgress(s) /\ Progressing(sig')
    BY <1>3 DEF Progressing
  <1>6. CASE Quiet
    BY <1>6, QuietSignal DEF Mode
  <1>7. CASE Moving
    <2>1. Moving'
      BY <1>2, <1>4, <1>5, <1>7 DEF Moving
    <2> QED
      BY <2>1 DEF Mode
  <1>8. CASE Answered
    <2>1. \/ sig' = <<>> /\ s = sig[Len(sig)] /\ s.signal = "transferFinished"
          \/ /\ IsProgress(s) /\ Closing(sig', "transferFinished")
             /\ sig'[Len(sig')] = sig[Len(sig)]
      BY <1>1, <1>2, <1>8, ClosingShrinks DEF Answered, s
    <2>2. CASE sig' = <<>> /\ s = sig[Len(sig)] /\ s.signal = "transferFinished"
      <3>1. IsEnd(s) /\ Single(pane, s.op) /\ pane.req = <<>> /\ job' = NoJob /\ xfer' = NoXfer
        BY <1>2, <1>8, <2>2 DEF Answered, Idle, IsEnd
      <3> QED
        BY <1>1, <1>2, <1>3, <2>2, <3>1, FinishedMode
    <2>3. CASE /\ IsProgress(s) /\ Closing(sig', "transferFinished")
               /\ sig'[Len(sig')] = sig[Len(sig)]
      <3>1. Answered'
        BY <1>2, <1>4, <1>8, <2>3 DEF Answered, Idle
      <3> QED
        BY <3>1 DEF Mode
    <2> QED
      BY <2>1, <2>2, <2>3
  <1>9. CASE Crossing /\ xfer.stage # "over"
    <2>1. Crossing'
      BY <1>2, <1>4, <1>5, <1>9 DEF Crossing
    <2> QED
      BY <2>1 DEF Mode
  <1>10. CASE Crossing /\ xfer.stage = "over"
    <2>1. \/ sig' = <<>> /\ s.signal = "finished"
          \/ IsProgress(s) /\ Closing(sig', "finished")
      BY <1>1, <1>2, <1>10, ClosingShrinks DEF Crossing, s
    <2>2. CASE IsProgress(s) /\ Closing(sig', "finished")
      <3>1. Crossing'
        BY <1>2, <1>4, <1>10, <2>2 DEF Crossing
      <3> QED
        BY <3>1 DEF Mode
    <2>3. CASE sig' = <<>> /\ s.signal = "finished"
      <3>1. /\ pane.frames = <<>> /\ pane.queue = <<>> /\ pane.pendingEdit = NoPath
            /\ pane.req = <<>> /\ job = NoJob
        BY <1>10 DEF Crossing, Single, Batched
      <3>2. QuietPane(pane)
        BY <1>1, <3>1, EmptyPaneQuiet
      <3>3. ~IsEnd(s) /\ ~IsProgress(s)
        BY <2>3 DEF IsEnd, IsProgress
      <3>4. Lets(pane, pane') /\ Calm(pane')
        BY <1>1, <1>2, <1>3, <2>3, <3>3, OtherSignalLets
      <3>5. QuietPane(pane')
        BY <1>1, <3>2, <3>4, QuietPaneStays
      <3>6. 1..Len(sig') = {} /\ ~Work(job'.op) /\ xfer' = NoXfer
        BY <1>2, <2>3, <3>1 DEF NoJob, Work
      <3>7. EndAhead(pane', sig')
        BY <3>4, <3>6 DEF EndAhead, Calm
      <3>8. Quiet'
        BY <3>5, <3>6, <3>7 DEF Quiet
      <3> QED
        BY <3>8 DEF Mode
    <2> QED
      BY <2>1, <2>2, <2>3
  <1> QED
    BY <1>2, <1>6, <1>7, <1>8, <1>9, <1>10 DEF Mode, Asked, Paused

-----------------------------------------------------------------------------
(* The pane is always in one of its modes, unless operations were mixed.       *)

LEMMA InitTurns == Init => Turns
  <1> SUFFICES ASSUME Init PROVE Turns
    OBVIOUS
  <1> DEFINE r == Slot("connect", NoPath)
  <1>1. r \in Requests /\ Work(r.op) /\ pane.req = <<r>>
    BY DEF Init, Slot, Requests, Work
  <1>2. Single(pane, r.op) /\ Calm(pane)
    BY DEF Init, Single, Calm
  <1> HIDE DEF r
  <1>3. Asked
    BY <1>1, <1>2 DEF Init, Asked
  <1> QED
    BY <1>3 DEF Turns, Mode

LEMMA MixedStays == ASSUME mixed, [Next]_vars PROVE mixed'
  <1>1. CASE OnSignal \/ checkEditedFiles
    BY <1>1 DEF OnSignal, checkEditedFiles, Starts, history
  <1>2. CASE User
    BY <1>2 DEF User, Navigate, OpenDialog, Dialog, Answer, Drop, startCrossTransfer,
                editRemoteFile, SaveInEditor, cancelTransfers, Starts
  <1>3. CASE Client
    BY <1>3 DEF Client, connectHost, Rejects, listDirectory, Operation, StartTransfer,
                MoveBlock, EndTransfer, CancelTransfer, BreakTransfer, InTransfer, history
  <1>4. CASE Cross
    BY <1>4 DEF Cross, CrossStarts, CrossFile, CrossFileEnds, CrossFails,
                CrossEnds, CrossReports, InCross
  <1>5. CASE UNCHANGED vars
    BY <1>5 DEF vars, history
  <1> QED
    BY <1>1, <1>2, <1>3, <1>4, <1>5 DEF Next

LEMMA UserTurns == ASSUME Types, Mode, User PROVE Turns'
  <1>1. ASSUME Still(pane, pane'), ~pane.busy, UNCHANGED <<job, sig, xfer>> PROVE Turns'
    BY <1>1, FreeIsQuiet, QuietStays, StillLets DEF Turns, Mode
  <1>2. PaneHolds(pane) /\ FilesHold
    BY DEF Types
  <1>3. ASSUME NEW dir \in Dirs, Navigate(dir) PROVE Turns'
    BY <1>1, <1>2, <1>3, NavigateStill DEF Navigate, Free, AtWork, client
  <1>4. ASSUME NEW names \in Batches(Names), Drop(names) PROVE Turns'
    <2>1. Begins(pane, pane') /\ Free /\ Starts /\ UNCHANGED <<job, sig, xfer>>
      BY <1>2, <1>4, DropBegins DEF Drop, Opened, Free, AtWork, client
    <2> QED
      BY <2>1, StartsAsked
  <1>5. ASSUME NEW name \in Names, editRemoteFile(name) PROVE Turns'
    <2>1. /\ Free /\ ~pane.busy /\ UNCHANGED <<job, sig, xfer>>
          /\ Still(pane, pane') \/ (Begins(pane, pane') /\ Starts)
      BY <1>2, <1>5, EditBegins DEF editRemoteFile, Opened, Free, AtWork, client
    <2> QED
      BY <1>1, <2>1, StartsAsked
  <1>6. ASSUME NEW name \in Names, SaveInEditor(name) PROVE Turns'
    <2>1. \A m \in Members \ {"edited"} : pane'[m] = pane[m]
      BY <1>2, <1>6, SaveHolds DEF Types
    <2>2. Alone(pane, pane') /\ UNCHANGED <<job, sig, xfer>>
      BY <1>6, <2>1 DEF Alone, Members, SaveInEditor, client
    <2> QED
      BY <2>2, ModeStays DEF Turns
  <1> QED
    BY <1>3, <1>4, <1>5, <1>6, DialogMode, AnswerMode, StartCrossMode, CancelMode DEF User, Turns

LEMMA ClientTurns == ASSUME Types, Mode, Client PROVE Mode'
  <1>1. CASE connectHost \/ Rejects \/ listDirectory \/ Operation
    BY <1>1, SlotAnswers, SlotMode
  <1>2. CASE StartTransfer
    BY <1>2, StartTypes, SlotMode, StartMode
  <1> QED
    BY <1>1, <1>2, MoveMode, EndMode DEF Client

LEMMA StepTurns == ASSUME Types, Turns, [Next]_vars PROVE Turns'
  <1>1. CASE mixed
    BY <1>1, MixedStays DEF Turns
  <1>2. CASE ~mixed
    <2>1. Mode
      BY <1>2 DEF Turns
    <2>2. CASE checkEditedFiles
      <3>1. /\ Still(pane, pane') /\ ~pane.busy /\ UNCHANGED <<job, sig, xfer>>
        BY <2>2, CheckedStill DEF Types, checkEditedFiles, client
      <3> QED
        BY <2>1, <3>1, FreeIsQuiet, QuietStays, StillLets DEF Turns, Mode
    <2>3. CASE UNCHANGED vars
      BY <2>1, <2>3, ModeStays DEF vars, client, Alone, Turns
    <2> QED
      BY <2>1, <2>2, <2>3, SignalMode, UserTurns, ClientTurns, CrossMode DEF Next, Turns
  <1> QED
    BY <1>1, <1>2

THEOREM TurnsAreTaken == Spec => [](Types /\ Turns)
  <1>1. Init => Types /\ Turns
    BY InitTypes, InitTurns
  <1>2. Types /\ Turns /\ [Next]_vars => (Types /\ Turns)'
    BY StepTypes, StepTurns
  <1> QED
    BY <1>1, <1>2, PTL DEF Spec
-----------------------------------------------------------------------------
(* Nothing can be started over a transfer, an operation, a waiting batch or a  *)
(* cross transfer: the buttons are disabled, unless something else that was    *)
(* begun in a nested event loop came between.                                  *)
THEOREM WorkingPanesAreBusy == Spec => []BusyWhileWorking
  <1>1. ASSUME Types, Turns PROVE BusyWhileWorking
    <2>1. TypeOK
      BY <1>1, TypesGiveTypeOK
    <2>2. ASSUME ~pane.busy, ~mixed
          PROVE  /\ Working \subseteq {"list", "upload", "none"}
                 /\ pane.queue = <<>> /\ xfer = NoXfer
      <3>1. Quiet
        BY <1>1, <2>2, FreeIsQuiet DEF Turns
      <3>2. DOMAIN pane.req = 1..Len(pane.req) /\ DOMAIN sig = 1..Len(sig)
        BY <1>1 DEF Types, PaneHolds, PaneType
      <3>3. \A i \in DOMAIN pane.req : pane.req[i].op \in {"list", "upload", "none"}
        BY <3>1, <3>2 DEF Quiet, QuietPane, NoWork, Work
      <3>4. \A i \in DOMAIN sig : sig[i].signal = "transferFinished" => sig[i].op = "upload"
        BY <3>1, <3>2 DEF Quiet, IsEnd
      <3>5. job.op \in {"list", "upload", "none"}
        BY <3>1 DEF Quiet, Work
      <3>6. Working \subseteq {"list", "upload", "none"}
        BY <3>3, <3>4, <3>5 DEF Working
      <3> QED
        BY <3>1, <3>6 DEF Quiet, QuietPane
    <2>3. Working \subseteq {"list", "upload", "none"}
          => Working \ {"list", "upload", "none"} = {}
      OBVIOUS
    <2> QED
      BY <2>1, <2>2, <2>3 DEF BusyWhileWorking
  <1> QED
    BY <1>1, TurnsAreTaken, PTL

(* After a click on cancel the client begins no further file of a batch: when  *)
(* it takes a request the user waits for, the click was already taken back by  *)
(* the end of what it stopped.                                                 *)
THEOREM CancelStopsTheBatch == Spec => CancelStops
  <1> DEFINE Stops == pane.cancelling /\ ~mixed /\ job = NoJob => job'.op \notin Batched
  <1>1. ASSUME Types, Turns, [Next]_vars PROVE [Stops]_vars
    <2> SUFFICES ASSUME Next, pane.cancelling, ~mixed, job = NoJob
                 PROVE  job'.op \notin Batched
      BY <1>1
    <2>1. Mode
      BY <1>1 DEF Turns
    <2>2. CASE job' = job
      BY <2>2 DEF NoJob, Batched
    <2>3. CASE StartTransfer
      <3>1. /\ TakesSlot /\ slot.op \in Transfers
            /\ job' = job \/ (job' \in Jobs /\ job'.op = slot.op /\ sig' = sig)
        BY <1>1, <2>3, StartTypes
      <3>2. CASE job' \in Jobs /\ job'.op = slot.op /\ sig' = sig
        <4>1. (Quiet => job'.op = "upload") /\ (Asked => Calm(pane))
          BY <1>1, <2>1, <3>1, <3>2, StartMode
        <4>2. Quiet \/ Asked
          BY <1>1, <2>1, <3>1, TakenQuiet DEF Mode
        <4> QED
          BY <4>1, <4>2 DEF Calm, Batched
      <3> QED
        BY <2>2, <3>1, <3>2
    <2>4. CASE OnSignal \/ checkEditedFiles \/ User \/ Cross
      <3>1. job' = job
        BY <1>1, <2>4, CrossTypes DEF OnSignal, checkEditedFiles, User, Navigate, OpenDialog,
           Dialog, Answer, Drop, startCrossTransfer, editRemoteFile, SaveInEditor,
           cancelTransfers, Opened, Free, AtWork, client
      <3> QED
        BY <2>2, <3>1
    <2>5. CASE Client /\ ~StartTransfer
      <3>1. ~MoveBlock
        BY <1>1, MoveTypes
      <3>2. ~EndTransfer /\ ~CancelTransfer /\ ~BreakTransfer
        BY <1>1, EndTypes
      <3>3. job' = job
        BY <1>1, <2>5, <3>1, <3>2, SlotAnswers DEF Client
      <3> QED
        BY <2>2, <3>3
    <2> QED
      BY <2>3, <2>4, <2>5 DEF Next
  <1>2. Stops => (pane.cancelling /\ ~mixed /\ job = NoJob => job'.op \notin {"download", "put"})
    BY DEF Batched
  <1>3. ASSUME Types, Turns, [Next]_vars
        PROVE  [pane.cancelling /\ ~mixed /\ job = NoJob => job'.op \notin {"download", "put"}]_vars
    BY <1>1, <1>2, <1>3
  <1> QED
    BY <1>3, TurnsAreTaken, PTL DEF Spec, CancelStops
-----------------------------------------------------------------------------
(* Saved edits reach the server.                                               *)

(* A request that neither takes away nor overwrites a file.                    *)
Spares(r, path) ==
    /\ r.op \in {"remove", "rename"} => path \notin {r.path, r.to}
    /\ r.op = "put" => path # r.path
AllSpare(q, path) == \A i \in 1..Len(q) : Spares(q[i], path)

Uploads(r, path) == r.op = "upload" /\ r.path = path
Fetches(r, name) == r.op = "fetch" /\ r.path[2] = name
Mute(r, path) == r.op # "fetch" /\ ~Uploads(r, path)
Silent(q, path) == \A i \in 1..Len(q) : Mute(q[i], path)

(* What may still bring the file and the copy of its name in step.             *)
Ahead(q, path) == \E i \in 1..Len(q) : Uploads(q[i], path) \/ Fetches(q[i], path[2])
FetchLast(q, path) ==
    \E i \in 1..Len(q) :
        /\ q[i].op = "fetch" /\ q[i].path = path
        /\ \A k \in 1..Len(q) : k > i => Mute(q[k], path)
OwnCopy(r, path) == Uploads(r, path) => r.to[2] = path[2]
OwnCopies(q, path) == \A i \in 1..Len(q) : OwnCopy(q[i], path)

(* Requests that were posted since, none of them for an edited file.           *)
Extends(s, t) ==
    /\ Len(s) <= Len(t)
    /\ \A i \in 1..Len(s) : t[i] = s[i]
    /\ \A i \in 1..Len(t) : i > Len(s) => t[i].op \notin {"fetch", "upload"}

LEMMA ExtendsItself == ASSUME NEW q \in Seq(Requests) PROVE Extends(q, q)
  BY DEF Extends

LEMMA ExtendsOn ==
    ASSUME NEW q \in Seq(Requests), NEW s \in Seq(Requests), NEW t \in Seq(Requests),
           Extends(q, s), Extends(s, t)
    PROVE  Extends(q, t)
  <1>1. Len(q) \in Nat /\ Len(s) \in Nat /\ Len(t) \in Nat
    OBVIOUS
  <1>2. ASSUME NEW i \in 1..Len(t), i > Len(q) PROVE t[i].op \notin {"fetch", "upload"}
    <2>1. CASE i > Len(s)
      BY <2>1 DEF Extends
    <2>2. CASE ~(i > Len(s))
      <3>1. i \in 1..Len(s)
        BY <1>1, <2>2
      <3> QED
        BY <1>2, <3>1 DEF Extends
    <2> QED
      BY <2>1, <2>2
  <1> QED
    BY <1>1, <1>2 DEF Extends

LEMMA AppendExtends ==
    ASSUME NEW q \in Seq(Requests), NEW r \in Requests, r.op \notin {"fetch", "upload"}
    PROVE  Extends(q, Append(q, r))
  BY DEF Extends

LEMMA ExtendsKeeps ==
    ASSUME NEW path, NEW s \in Seq(Requests), NEW t \in Seq(Requests), Extends(s, t)
    PROVE  /\ AllSpare(t, path) => AllSpare(s, path)
           /\ Silent(s, path) => Silent(t, path)
           /\ Ahead(s, path) => Ahead(t, path)
           /\ FetchLast(s, path) => FetchLast(t, path)
           /\ OwnCopies(s, path) => OwnCopies(t, path)
  <1>1. Len(s) \in Nat /\ Len(t) \in Nat /\ Len(s) <= Len(t)
    BY DEF Extends
  <1>2. \A i \in 1..Len(s) : i \in 1..Len(t) /\ t[i] = s[i]
    BY <1>1 DEF Extends
  <1>3. ASSUME NEW i \in 1..Len(t), i \notin 1..Len(s)
        PROVE  Mute(t[i], path) /\ OwnCopy(t[i], path)
    <2>1. t[i].op \notin {"fetch", "upload"}
      BY <1>1, <1>3 DEF Extends
    <2> QED
      BY <2>1 DEF Mute, OwnCopy, Uploads
  <1>4. AllSpare(t, path) => AllSpare(s, path)
    BY <1>2 DEF AllSpare
  <1>5. Silent(s, path) => Silent(t, path)
    BY <1>2, <1>3 DEF Silent
  <1>6. Ahead(s, path) => Ahead(t, path)
    BY <1>2 DEF Ahead
  <1>7. ASSUME FetchLast(s, path) PROVE FetchLast(t, path)
    <2>1. PICK i \in 1..Len(s) : /\ s[i].op = "fetch" /\ s[i].path = path
                                 /\ \A k \in 1..Len(s) : k > i => Mute(s[k], path)
      BY <1>7 DEF FetchLast
    <2>2. \A k \in 1..Len(t) : k > i => Mute(t[k], path)
      BY <1>2, <1>3, <2>1
    <2> QED
      BY <1>2, <2>1, <2>2 DEF FetchLast
  <1>8. OwnCopies(s, path) => OwnCopies(t, path)
    BY <1>2, <1>3 DEF OwnCopies
  <1> QED
    BY <1>4, <1>5, <1>6, <1>7, <1>8

(* The first request is taken.                                                 *)
LEMMA TailKeeps ==
    ASSUME NEW path, NEW q \in Seq(Requests), q # <<>>
    PROVE  LET r == Head(q) IN
           /\ r \in Requests /\ Tail(q) \in Seq(Requests)
           /\ AllSpare(Tail(q), path) /\ Spares(r, path) => AllSpare(q, path)
           /\ Silent(q, path) => Mute(r, path) /\ Silent(Tail(q), path)
           /\ Ahead(q, path) => \/ Uploads(r, path) \/ Fetches(r, path[2])
                                \/ Ahead(Tail(q), path)
           /\ FetchLast(q, path) => \/ FetchLast(Tail(q), path)
                                    \/ r.op = "fetch" /\ r.path = path /\ Silent(Tail(q), path)
           /\ OwnCopies(q, path) => OwnCopy(r, path) /\ OwnCopies(Tail(q), path)
  <1> DEFINE r == Head(q)
             t == Tail(q)
             n == Len(t)
  <1>1. /\ r \in Requests /\ t \in Seq(Requests) /\ r = q[1] /\ n \in Nat
        /\ Len(q) = n + 1 /\ \A i \in 1..n : t[i] = q[i + 1]
    BY HeadTailProperties
  <1> HIDE DEF r, t, n
  <1>2. /\ 1 \in 1..Len(q) /\ \A i \in 1..n : i + 1 \in 1..Len(q)
        /\ \A i \in 1..Len(q) : i = 1 \/ (i - 1 \in 1..n /\ t[i - 1] = q[i])
    BY <1>1
  <1>3. AllSpare(t, path) /\ Spares(r, path) => AllSpare(q, path)
    BY <1>1, <1>2 DEF AllSpare, n
  <1>4. Silent(q, path) => Mute(r, path) /\ Silent(t, path)
    BY <1>1, <1>2 DEF Silent, n
  <1>5. Ahead(q, path) => Uploads(r, path) \/ Fetches(r, path[2]) \/ Ahead(t, path)
    BY <1>1, <1>2 DEF Ahead, n
  <1>6. ASSUME FetchLast(q, path)
        PROVE  \/ FetchLast(t, path)
               \/ r.op = "fetch" /\ r.path = path /\ Silent(t, path)
    <2>1. PICK i \in 1..Len(q) : /\ q[i].op = "fetch" /\ q[i].path = path
                                 /\ \A k \in 1..Len(q) : k > i => Mute(q[k], path)
      BY <1>6 DEF FetchLast
    <2>2. CASE i = 1
      <3>1. \A k \in 1..n : Mute(t[k], path)
        BY <1>1, <1>2, <2>1, <2>2
      <3> QED
        BY <1>1, <2>1, <2>2, <3>1 DEF Silent, n
    <2>3. CASE i # 1
      <3>1. i - 1 \in 1..n /\ t[i - 1] = q[i]
        BY <1>2, <2>3
      <3>2. \A k \in 1..n : k > i - 1 => Mute(t[k], path)
        BY <1>1, <1>2, <2>1
      <3> QED
        BY <2>1, <3>1, <3>2 DEF FetchLast, n
    <2> QED
      BY <2>2, <2>3
  <1>7. OwnCopies(q, path) => OwnCopy(r, path) /\ OwnCopies(t, path)
    BY <1>1, <1>2 DEF OwnCopies, n
  <1> QED
    BY <1>1, <1>3, <1>4, <1>5, <1>6, <1>7 DEF r, t

(* A file is to be fetched for editing.                                        *)
LEMMA FetchAhead ==
    ASSUME NEW path, NEW q \in Seq(Requests), NEW r \in Requests, r.op = "fetch"
    PROVE  LET t == Append(q, r) IN
           /\ t \in Seq(Requests)
           /\ AllSpare(t, path) => AllSpare(q, path)
           /\ Ahead(q, path) \/ r.path[2] = path[2] => Ahead(t, path)
           /\ r.path = path => FetchLast(t, path)
           /\ OwnCopies(q, path) => OwnCopies(t, path)
  <1> DEFINE t == Append(q, r)
             n == Len(q)
  <1>1. /\ t \in Seq(Requests) /\ n \in Nat /\ Len(t) = n + 1 /\ t[n + 1] = r
        /\ \A i \in 1..n : t[i] = q[i]
    BY AppendProperties
  <1> HIDE DEF t, n
  <1>2. /\ n + 1 \in 1..Len(t) /\ \A i \in 1..n : i \in 1..Len(t)
        /\ \A i \in 1..Len(t) : i \in 1..n \/ i = n + 1
    BY <1>1
  <1>3. AllSpare(t, path) => AllSpare(q, path)
    BY <1>1, <1>2 DEF AllSpare, n
  <1>4. Ahead(q, path) => Ahead(t, path)
    BY <1>1, <1>2 DEF Ahead, n
  <1>5. r.path[2] = path[2] => Ahead(t, path)
    BY <1>1, <1>2 DEF Ahead, Fetches
  <1>6. ASSUME r.path = path PROVE FetchLast(t, path)
    <2>1. \A k \in 1..Len(t) : k > n + 1 => Mute(t[k], path)
      BY <1>1
    <2> QED
      BY <1>1, <1>2, <1>6, <2>1 DEF FetchLast
  <1>7. OwnCopies(q, path) => OwnCopies(t, path)
    <2>1. OwnCopy(r, path)
      BY DEF OwnCopy, Uploads
    <2> QED
      BY <1>1, <1>2, <2>1 DEF OwnCopies, n
  <1> QED
    BY <1>1, <1>3, <1>4, <1>5, <1>6, <1>7 DEF t

(* What a method does to what is kept of one file: it may only become tracked  *)
(* as it is, when it was waited for.                                           *)
Follows(p, q, path) ==
    /\ Extends(p.req, q.req)
    /\ q.pendingEdit \in {p.pendingEdit, NoPath}
    /\ \/ q.edited[path] = p.edited[path]
       \/ /\ p.pendingEdit = path /\ q.pendingEdit = NoPath
          /\ q.edited[path] = Editing("same", path[2])

LEMMA AlikeFollows ==
    ASSUME NEW p \in PaneType, NEW q, NEW path, q.req = p.req, q.pendingEdit = p.pendingEdit,
           q.edited = p.edited
    PROVE  Follows(p, q, path)
  BY ExtendsItself DEF Follows, PaneType

LEMMA FollowsOn ==
    ASSUME NEW path \in Paths, NEW p \in PaneType, NEW q \in PaneType, NEW r \in PaneType,
           Follows(p, q, path), Follows(q, r, path)
    PROVE  Follows(p, r, path)
  <1>1. Extends(p.req, r.req)
    BY ExtendsOn DEF Follows, PaneType
  <1>2. path # NoPath
    BY DEF Paths, NoPath
  <1> QED
    BY <1>1, <1>2 DEF Follows

LEMMA AskFollows ==
    ASSUME NEW p \in PaneType, NEW r \in Requests, r.op \notin {"fetch", "upload"}, NEW path
    PROVE  Follows(p, Ask(p, r), path)
  <1> DEFINE q == Ask(p, r)
  <1>1. /\ q.req = Append(p.req, r) /\ \A m \in Members \ {"req", "busy"} : q[m] = p[m]
    BY AskTyped
  <1> HIDE DEF q
  <1>2. q.edited = p.edited /\ q.pendingEdit = p.pendingEdit
    BY <1>1 DEF Members
  <1>3. Follows(p, q, path)
    BY <1>1, <1>2, AppendExtends DEF Follows, PaneType
  <1> QED
    BY <1>3 DEF q

LEMMA RefreshFollows ==
    ASSUME NEW p \in PaneType, NEW path
    PROVE  refresh(p) \in PaneType /\ Follows(p, refresh(p), path)
  <1> DEFINE dir == IF p.cwd = NoDir THEN Home ELSE p.cwd
  <1>1. dir \in Dirs
    BY BoundsAssumption DEF PaneType
  <1>2. refresh(p) = IF p.busy /\ p.cwd = NoDir THEN p ELSE Ask(p, List(dir))
    BY DEF refresh
  <1> HIDE DEF dir
  <1>3. List(dir) \in Requests /\ List(dir).op \notin {"fetch", "upload"}
    BY <1>1, ListIsRequest DEF List, Slot
  <1>4. refresh(p) \in PaneType
    BY RefreshStill DEF Still, Keeps, Typed
  <1> QED
    BY <1>2, <1>3, <1>4, AskFollows, AlikeFollows

LEMMA PumpFollows ==
    ASSUME NEW p \in PaneType, NEW path
    PROVE  pumpQueue(p) \in PaneType /\ Follows(p, pumpQueue(p), path)
  <1> DEFINE q == pumpQueue(p)
             r == Head(p.queue)
  <1>1. /\ q \in PaneType
        /\ p.queue = <<>> => q = p
        /\ p.queue # <<>> => /\ q.req = Append(p.req, r) /\ r \in Items
                             /\ \A m \in Members \ {"req", "queue"} : q[m] = p[m]
    BY PumpTyped
  <1> HIDE DEF q, r
  <1>2. CASE p.queue = <<>>
    BY <1>1, <1>2, AlikeFollows DEF q
  <1>3. CASE p.queue # <<>>
    <2>1. r \in Requests /\ r.op \notin {"fetch", "upload"}
      BY <1>1, <1>3 DEF Items, Requests, Batched
    <2>2. q.edited = p.edited /\ q.pendingEdit = p.pendingEdit
      BY <1>1, <1>3 DEF Members
    <2>3. Follows(p, q, path)
      BY <1>1, <1>3, <2>1, <2>2, AppendExtends DEF Follows, PaneType
    <2> QED
      BY <1>1, <2>3 DEF q
  <1> QED
    BY <1>2, <1>3

LEMMA BoxFollows ==
    ASSUME NEW p \in PaneType, NEW rest \in Boxes, NEW ok \in BOOLEAN, NEW path
    PROVE  Box(p, rest, ok) \in PaneType /\ Follows(p, Box(p, rest, ok), path)
  <1> DEFINE q == Box(p, rest, ok)
  <1>1. q \in PaneType /\ \A m \in Members \ {"frames"} : q[m] = p[m]
    BY BoxLets DEF Lets, Keeps, Typed
  <1> HIDE DEF q
  <1>2. q.req = p.req /\ q.edited = p.edited /\ q.pendingEdit = p.pendingEdit
    BY <1>1 DEF Members
  <1>3. Follows(p, q, path)
    BY <1>2, AlikeFollows
  <1> QED
    BY <1>1, <1>3 DEF q

LEMMA FreeFollows ==
    ASSUME NEW p \in PaneType, NEW busy \in BOOLEAN, NEW path
    PROVE  setBusy(p, busy) \in PaneType /\ Follows(p, setBusy(p, busy), path)
  <1> DEFINE q == setBusy(p, busy)
  <1>1. q \in PaneType /\ q.req = p.req /\ q.edited = p.edited /\ q.pendingEdit = p.pendingEdit
    BY DEF setBusy, PaneType
  <1> HIDE DEF q
  <1>2. Follows(p, q, path)
    BY <1>1, AlikeFollows
  <1> QED
    BY <1>1, <1>2 DEF q

(* The file that was waited for is tracked, or nothing is.                     *)
LEMMA DownloadedFollows ==
    ASSUME local \in [Names -> Files], NEW p \in PaneType, p.pendingEdit = NoPath,
           NEW ok \in BOOLEAN, NEW file \in Paths, NEW path \in Paths
    PROVE  LET q == onDownloadedForEdit(p, ok, file) IN
           /\ q \in PaneType /\ q.req = p.req /\ q.pendingEdit = NoPath
           /\ \/ q.edited[path] = p.edited[path]
              \/ file = path /\ q.edited[path] = Editing("same", path[2])
  <1> DEFINE name == file[2]
             d == [p.edited EXCEPT ![file] = Editing("same", name)]
             t == [p.editor EXCEPT ![name] = local[name]]
             e == [p EXCEPT !.edited = d, !.editor = t]
             f == setBusy(p, FALSE)
             b == Box(f, "nothing", ok)
  <1>1. name \in Names
    BY PathParts
  <1>2. f \in PaneType /\ f.req = p.req /\ f.edited = p.edited /\ f.pendingEdit = NoPath
    BY DEF setBusy, PaneType
  <1>3. onDownloadedForEdit(p, ok, file) =
            IF ~ok THEN b ELSE IF local[name] = NoFile THEN f ELSE setBusy(e, FALSE)
    BY DEF onDownloadedForEdit, PaneType
  <1> HIDE DEF f
  <1>4. b \in PaneType /\ b.req = p.req /\ b.edited = p.edited /\ b.pendingEdit = NoPath
    <2>1. "nothing" \in Boxes
      BY DEF Boxes
    <2>2. b \in PaneType /\ \A m \in Members \ {"frames"} : b[m] = f[m]
      BY <1>2, <2>1, BoxLets DEF Lets, Keeps, Typed
    <2> HIDE DEF b
    <2> QED
      BY <1>2, <2>2 DEF Members
  <1>5. /\ d \in [Paths -> Edits] /\ t \in [Names -> Files]
        /\ d[path] = IF file = path THEN Editing("same", path[2]) ELSE p.edited[path]
    <2>1. /\ Editing("same", name) \in Edits /\ local[name] \in Files
          /\ p.edited \in [Paths -> Edits] /\ p.editor \in [Names -> Files]
      BY <1>1 DEF Editing, Edits, PaneType
    <2> QED
      BY <2>1
  <1> HIDE DEF d, t, b
  <1>6. e \in PaneType /\ e.req = p.req /\ e.edited = d /\ e.pendingEdit = NoPath
    BY <1>5 DEF PaneType
  <1> DEFINE g == setBusy(e, FALSE)
  <1> HIDE DEF e
  <1>7. g \in PaneType /\ g.req = p.req /\ g.edited = d /\ g.pendingEdit = NoPath
    BY <1>6 DEF setBusy, PaneType
  <1> HIDE DEF g
  <1> QED
    BY <1>2, <1>3, <1>4, <1>5, <1>7 DEF g

LEMMA RouteFollows ==
    ASSUME local \in [Names -> Files], NEW p \in PaneType, NEW ok \in BOOLEAN, NEW path \in Paths
    PROVE  Route(p, ok) \in PaneType /\ Follows(p, Route(p, ok), path)
  <1>1. CASE p.pendingEdit # NoPath
    <2> DEFINE e == [p EXCEPT !.pendingEdit = NoPath]
               q == onDownloadedForEdit(e, ok, p.pendingEdit)
    <2>1. e \in PaneType /\ e.req = p.req /\ e.edited = p.edited /\ e.pendingEdit = NoPath
      BY DEF PaneType
    <2>2. p.pendingEdit \in Paths /\ Route(p, ok) = q
      BY <1>1 DEF PaneType, Route
    <2> HIDE DEF e
    <2>3. /\ q \in PaneType /\ q.req = p.req /\ q.pendingEdit = NoPath
          /\ \/ q.edited[path] = p.edited[path]
             \/ p.pendingEdit = path /\ q.edited[path] = Editing("same", path[2])
      BY <2>1, <2>2, DownloadedFollows
    <2> HIDE DEF q
    <2>4. Extends(p.req, q.req)
      BY <2>3, ExtendsItself DEF PaneType
    <2>5. Follows(p, q, path)
      BY <2>3, <2>4 DEF Follows
    <2> QED
      BY <2>2, <2>3, <2>5
  <1>2. CASE p.pendingEdit = NoPath
    <2>1. /\ Route(p, ok) \in PaneType
          /\ \A m \in Members \ {"uploads"} : Route(p, ok)[m] = p[m]
      BY <1>2, RouteLets DEF Lets, Keeps, Typed
    <2> DEFINE q == Route(p, ok)
    <2> HIDE DEF q
    <2>2. q.req = p.req /\ q.edited = p.edited /\ q.pendingEdit = p.pendingEdit
      BY <2>1 DEF Members, q
    <2>3. Follows(p, q, path)
      BY <2>2, AlikeFollows
    <2> QED
      BY <2>1, <2>3 DEF q
  <1> QED
    BY <1>1, <1>2

LEMMA AfterFollows ==
    ASSUME local \in [Names -> Files], NEW p \in PaneType, NEW rest, NEW ok \in BOOLEAN,
           NEW path \in Paths
    PROVE  AfterTransfer(p, rest, ok) \in PaneType /\ Follows(p, AfterTransfer(p, rest, ok), path)
  <1> DEFINE q == IF rest = "refresh" THEN refresh(p) ELSE pumpQueue(p)
  <1>1. q \in PaneType /\ Follows(p, q, path)
    BY RefreshFollows, PumpFollows
  <1>2. AfterTransfer(p, rest, ok) = Route(q, ok)
    BY DEF AfterTransfer
  <1> HIDE DEF q
  <1> QED
    BY <1>1, <1>2, RouteFollows, FollowsOn

LEMMA FinishedFollows ==
    ASSUME local \in [Names -> Files], NEW p \in PaneType, NEW ok \in BOOLEAN,
           NEW cancelled \in BOOLEAN, NEW path \in Paths
    PROVE  Follows(p, transferFinished(p, ok, cancelled), path)
  <1> DEFINE over == p.queue = <<>> \/ p.cancelling
             rest == IF over THEN "refresh" ELSE "pump"
             left == IF over THEN <<>> ELSE p.queue
             busy == p.busy /\ ~over
             q == [p EXCEPT !.cancelling = FALSE, !.canCancel = FALSE, !.busy = busy,
                            !.queue = left]
  <1>1. transferFinished(p, ok, cancelled) =
            IF ok \/ cancelled \/ p.cancelling THEN AfterTransfer(q, rest, ok) ELSE Box(q, rest, ok)
    BY DEF transferFinished, PaneType
  <1>2. rest \in Boxes /\ left \in Seq(Items) /\ busy \in BOOLEAN
    BY DEF Boxes, PaneType
  <1>3. q \in PaneType /\ q.req = p.req /\ q.edited = p.edited /\ q.pendingEdit = p.pendingEdit
    <2> HIDE DEF left, busy
    <2> QED
      BY <1>2 DEF PaneType
  <1> HIDE DEF q, rest
  <1>4. Follows(p, q, path)
    BY <1>3, AlikeFollows
  <1>5. /\ AfterTransfer(q, rest, ok) \in PaneType /\ Follows(q, AfterTransfer(q, rest, ok), path)
        /\ Box(q, rest, ok) \in PaneType /\ Follows(q, Box(q, rest, ok), path)
    BY <1>2, <1>3, AfterFollows, BoxFollows
  <1> QED
    BY <1>1, <1>3, <1>4, <1>5, FollowsOn

LEMMA HandleFollows ==
    ASSUME local \in [Names -> Files], NEW p \in PaneType, NEW s \in Signals, NEW path \in Paths
    PROVE  Follows(p, Handle(p, s), path)
  <1>1. CASE s.signal = "connected"
    <2> DEFINE q == [p EXCEPT !.cwd = Home, !.busy = FALSE]
    <2>1. q \in PaneType /\ q.req = p.req /\ q.edited = p.edited /\ q.pendingEdit = p.pendingEdit
      BY BoundsAssumption DEF PaneType
    <2>2. Handle(p, s) = refresh(q)
      BY <1>1 DEF Handle
    <2> HIDE DEF q
    <2> QED
      BY <2>1, <2>2, AlikeFollows, RefreshFollows, FollowsOn
  <1>2. CASE s.signal = "directoryListed"
    <2> DEFINE q == [p EXCEPT !.cwd = s.dir, !.shown = s.names, !.busy = FALSE]
    <2>1. q.req = p.req /\ q.edited = p.edited /\ q.pendingEdit = p.pendingEdit
      BY DEF PaneType
    <2>2. Handle(p, s) = q
      BY <1>2 DEF Handle
    <2> HIDE DEF q
    <2> QED
      BY <2>1, <2>2, AlikeFollows
  <1>3. ASSUME NEW f \in PaneType, NEW rest \in Boxes, NEW ok \in BOOLEAN, f.req = p.req,
               f.edited = p.edited, f.pendingEdit = p.pendingEdit
        PROVE  Follows(p, refresh(f), path) /\ Follows(p, Box(f, rest, ok), path)
    <2>1. Follows(p, f, path)
      BY <1>3, AlikeFollows
    <2> QED
      BY <2>1, RefreshFollows, BoxFollows, FollowsOn
  <1>4. CASE s.signal \in {"errorOccurred", "operationFinished"}
    <2> DEFINE f == setBusy(p, FALSE)
    <2>1. f \in PaneType /\ f.req = p.req /\ f.edited = p.edited /\ f.pendingEdit = p.pendingEdit
      BY DEF setBusy, PaneType
    <2>2. \E ok \in BOOLEAN : Handle(p, s) \in {refresh(f), Box(f, "nothing", ok)}
      BY <1>4, SignalParts DEF Handle, operationFinished
    <2>3. "nothing" \in Boxes
      BY DEF Boxes
    <2> HIDE DEF f
    <2> QED
      BY <1>3, <2>1, <2>2, <2>3
  <1>5. CASE s.signal = "transferProgress"
    <2> DEFINE q == [p EXCEPT !.canCancel = TRUE]
    <2>1. q.req = p.req /\ q.edited = p.edited /\ q.pendingEdit = p.pendingEdit
      BY DEF PaneType
    <2>2. Handle(p, s) = q
      BY <1>5 DEF Handle
    <2> HIDE DEF q
    <2> QED
      BY <2>1, <2>2, AlikeFollows
  <1>6. CASE s.signal = "transferFinished"
    BY <1>6, SignalParts, FinishedFollows DEF Handle, IsEnd
  <1>7. CASE s.signal = "finished"
    <2> DEFINE q == [p EXCEPT !.cancelling = FALSE, !.canCancel = FALSE, !.busy = FALSE]
    <2>1. q \in PaneType /\ q.req = p.req /\ q.edited = p.edited /\ q.pendingEdit = p.pendingEdit
      BY DEF PaneType
    <2>2. \E ok \in BOOLEAN : Handle(p, s) \in {refresh(q), Box(q, "list", ok)}
      BY <1>7, SignalParts DEF Handle, crossFinished
    <2>3. "list" \in Boxes
      BY DEF Boxes
    <2> HIDE DEF q
    <2> QED
      BY <1>3, <2>1, <2>2, <2>3
  <1> QED
    BY <1>1, <1>2, <1>4, <1>5, <1>6, <1>7, SignalParts DEF Reports

(* A dialog the user agrees to leaves every file as it is tracked that is not  *)
(* renamed.                                                                    *)
LEMMA BatchFollows ==
    ASSUME NEW p \in PaneType, p.cwd \in Dirs, NEW operation \in Batched,
           NEW names \in Seq(Names), NEW path \in Paths
    PROVE  Follows(p, Batch(p, operation, names), path)
  <1> DEFINE items == [i \in DOMAIN names |-> Slot(operation, joinRemote(p, names[i]))]
             e == [p EXCEPT !.queue = items, !.busy = TRUE]
  <1>1. Batch(p, operation, names) = pumpQueue(e)
    BY DEF Batch, setBusy, PaneType
  <1>2. items \in Seq(Items)
    <2> DEFINE n == Len(names)
    <2>1. DOMAIN names = 1..n /\ n \in Nat
      OBVIOUS
    <2>2. ASSUME NEW i \in 1..n PROVE Slot(operation, joinRemote(p, names[i])) \in Items
      <3>1. names[i] \in Names
        OBVIOUS
      <3> QED
        BY <3>1, SlotIsRequest
    <2>3. items \in [1..n -> Items]
      BY <2>1, <2>2
    <2> HIDE DEF items, n
    <2> QED
      BY <2>1, <2>3
  <1> HIDE DEF items
  <1>3. e \in PaneType /\ e.req = p.req /\ e.edited = p.edited /\ e.pendingEdit = p.pendingEdit
    BY <1>2 DEF PaneType
  <1> HIDE DEF e
  <1>4. Follows(p, e, path)
    BY <1>3, AlikeFollows
  <1> QED
    BY <1>1, <1>3, <1>4, PumpFollows, FollowsOn

LEMMA RenameFollows ==
    ASSUME NEW p \in PaneType, p.cwd \in Dirs, NEW from \in Names, NEW to \in Names,
           NEW path \in Paths, AllSpare(renameSelected(p, from, to).req, path)
    PROVE  Follows(p, renameSelected(p, from, to), path)
  <1> DEFINE old == joinRemote(p, from)
             new == joinRemote(p, to)
             r == [op |-> "rename", path |-> old, to |-> new]
             q == Ask(p, r)
             d == [[q.edited EXCEPT ![new] = p.edited[old]] EXCEPT ![old] = NoEdit]
             e == [q EXCEPT !.edited = d]
             n == Len(p.req)
  <1>1. old \in Paths /\ new \in Paths
    BY DEF joinRemote, Paths
  <1>2. r \in Requests /\ r.op = "rename" /\ r.path = old /\ r.to = new
    BY <1>1 DEF Requests
  <1>3. renameSelected(p, from, to) = IF p.edited[old].state = "no" THEN q ELSE e
    BY DEF renameSelected
  <1> HIDE DEF r
  <1>4. /\ q \in PaneType /\ q.req = Append(p.req, r)
        /\ \A m \in Members \ {"req", "busy"} : q[m] = p[m]
    BY <1>2, AskTyped
  <1> HIDE DEF q
  <1>5. q.edited = p.edited /\ q.pendingEdit = p.pendingEdit
    BY <1>4 DEF Members
  <1>6. e.req = q.req /\ e.pendingEdit = q.pendingEdit /\ e.edited = d
    BY <1>4 DEF PaneType
  <1> HIDE DEF e
  <1>7. path \notin {old, new}
    <2>1. AllSpare(q.req, path)
      BY <1>3, <1>6
    <2>2. n + 1 \in 1..Len(q.req) /\ q.req[n + 1] = r
      BY <1>2, <1>4, AppendProperties DEF PaneType
    <2>3. Spares(r, path)
      BY <2>1, <2>2 DEF AllSpare
    <2> QED
      BY <1>2, <2>3 DEF Spares
  <1>8. d[path] = p.edited[path]
    BY <1>5, <1>7 DEF PaneType
  <1>9. Extends(p.req, q.req)
    BY <1>2, <1>4, AppendExtends DEF PaneType
  <1> HIDE DEF d, old, new
  <1>10. Follows(p, q, path)
    BY <1>5, <1>9 DEF Follows
  <1>11. Follows(p, e, path)
    BY <1>5, <1>6, <1>8, <1>9 DEF Follows
  <1> QED
    BY <1>3, <1>10, <1>11

LEMMA ResumeFollows ==
    ASSUME local \in [Names -> Files], NEW p \in PaneType, NEW f \in Frames, Asks(f),
           f.kind \in Dialogs => p.cwd \in Dirs,
           NEW path \in Paths, AllSpare(Resume(p, f).req, path)
    PROVE  Follows(p, Resume(p, f), path)
  <1>0. f.ok \in BOOLEAN /\ f.kind \in Boxes \cup Dialogs /\ f.names \in Seq(Names)
    BY DEF Frames
  <1>1. CASE f.kind \in Boxes
    <2>1. \/ Resume(p, f) = AfterTransfer(p, f.kind, f.ok)
          \/ Resume(p, f) = refresh(p)
          \/ Resume(p, f) = p
      BY <1>1 DEF Resume, Boxes
    <2>2. Follows(p, p, path) /\ Follows(p, refresh(p), path)
          /\ Follows(p, AfterTransfer(p, f.kind, f.ok), path)
      BY <1>0, AlikeFollows, RefreshFollows, AfterFollows
    <2> QED
      BY <2>1, <2>2
  <1>2. ASSUME f.kind \in Dialogs
        PROVE  p.cwd \in Dirs /\ f.names # <<>> /\ f.names[1] \in Names
    BY <1>0, <1>2, EmptySeq DEF Asks
  <1>3. CASE f.kind \in Batched
    <2>1. f.kind \in Dialogs
      BY <1>3 DEF Batched, Dialogs
    <2>2. Resume(p, f) = Batch(p, f.kind, f.names) \/ Resume(p, f) = p
      BY <1>3 DEF Resume, Batched, uploadLocalPathsTo
    <2>3. Follows(p, p, path) /\ Follows(p, Batch(p, f.kind, f.names), path)
      BY <1>0, <1>2, <1>3, <2>1, AlikeFollows, BatchFollows
    <2> QED
      BY <2>2, <2>3
  <1>4. CASE f.kind \in {"mkdir", "remove"}
    <2> DEFINE r == Slot(f.kind, joinRemote(p, f.names[1]))
    <2>1. Resume(p, f) = Ask(p, r)
      BY <1>4 DEF Resume
    <2>2. f.kind \in Dialogs
      BY <1>4 DEF Dialogs
    <2>3. r \in Requests /\ r.op = f.kind
      BY <1>2, <1>4, <2>2, SlotIsRequest
    <2> HIDE DEF r
    <2> QED
      BY <1>4, <2>1, <2>3, AskFollows
  <1>5. CASE f.kind = "rename"
    <2>1. Resume(p, f) = renameSelected(p, f.names[1], f.names[2])
      BY <1>5 DEF Resume
    <2>2. f.kind \in Dialogs
      BY <1>5 DEF Dialogs
    <2>3. f.names[1] \in Names /\ f.names[2] \in Names
      BY <1>0, <1>2, <1>5, <2>2 DEF Asks
    <2> QED
      BY <1>2, <2>1, <2>2, <2>3, RenameFollows
  <1> QED
    BY <1>0, <1>1, <1>3, <1>4, <1>5 DEF Dialogs, Batched

-----------------------------------------------------------------------------
(* What holds of a file nobody took away or wrote over, as long as no call     *)
(* failed and nothing was cancelled.                                           *)
Smooth == ~failed /\ spent["cancels"] = 0
Unspoilt(path) == path \notin disturbed /\ AllSpare(pane.req, path)

AsCopied(path) == remote[path] = local[path[2]]

(* A tracked file has the copy of its name, and when it looks unchanged, it is *)
(* as that copy, or the difference is to go away.                              *)
Tracked(path) ==
    /\ pane.edited[path].state # "no" => pane.edited[path].copy = path[2]
    /\ pane.edited[path].state = "same" =>
          \/ AsCopied(path) \/ Ahead(pane.req, path)
          \/ Uploads(job, path) \/ Fetches(job, path[2])
    /\ OwnCopies(pane.req, path) /\ OwnCopy(job, path)

(* The copy the window waits for is the last one fetched, and no upload to its *)
(* file comes after it.                                                        *)
Awaited(path) ==
    \/ FetchLast(pane.req, path)
    \/ job.op = "fetch" /\ job.path = path /\ Silent(pane.req, path)
    \/ AsCopied(path) /\ Mute(job, path) /\ Silent(pane.req, path)

Sound(path) ==
    /\ Tracked(path)
    /\ pane.pendingEdit = path => pane.edited[path].state = "no" /\ Awaited(path)

InStep == Smooth => ~cancelRequested /\ \A path \in Paths : Unspoilt(path) => Sound(path)

LEMMA NoJobIsMute ==
    ASSUME NEW path
    PROVE  /\ Mute(NoJob, path) /\ OwnCopy(NoJob, path) /\ ~Uploads(NoJob, path)
           /\ ~Fetches(NoJob, path[2]) /\ NoJob.op # "fetch"
  BY DEF NoJob, Mute, OwnCopy, Uploads, Fetches

LEMMA EditingIs ==
    ASSUME NEW state, NEW name
    PROVE  Editing(state, name).state = state /\ Editing(state, name).copy = name
  BY DEF Editing

(* A step of the window, or of the copying, that leaves files and transfers.   *)
LEMMA FollowsSound ==
    ASSUME NEW path \in Paths, pane \in PaneType, pane' \in PaneType, Sound(path),
           Follows(pane, pane', path), UNCHANGED <<job>>, AsCopied(path)' = AsCopied(path)
    PROVE  Sound(path)'
  <1>1. pane.req \in Seq(Requests) /\ pane'.req \in Seq(Requests)
    BY DEF PaneType
  <1>2. /\ Silent(pane.req, path) => Silent(pane'.req, path)
        /\ Ahead(pane.req, path) => Ahead(pane'.req, path)
        /\ FetchLast(pane.req, path) => FetchLast(pane'.req, path)
        /\ OwnCopies(pane.req, path) => OwnCopies(pane'.req, path)
    BY <1>1, ExtendsKeeps DEF Follows
  <1>3. Awaited(path) => Awaited(path)'
    BY <1>2 DEF Awaited
  <1>4. CASE pane'.edited[path] = pane.edited[path]
    <2>1. Tracked(path)'
      BY <1>2, <1>4 DEF Sound, Tracked
    <2>2. path # NoPath
      BY DEF Paths, NoPath
    <2>3. pane'.pendingEdit = path => pane.pendingEdit = path
      BY <2>2 DEF Follows
    <2> QED
      BY <1>3, <1>4, <2>1, <2>3 DEF Sound
  <1>5. CASE /\ pane.pendingEdit = path /\ pane'.pendingEdit = NoPath
             /\ pane'.edited[path] = Editing("same", path[2])
    <2>1. Awaited(path) /\ Tracked(path)
      BY <1>5 DEF Sound
    <2>2. FetchLast(pane.req, path) => Ahead(pane.req, path)
      BY DEF FetchLast, Ahead, Fetches
    <2>3. AsCopied(path) \/ Ahead(pane.req, path) \/ Fetches(job, path[2])
      BY <2>1, <2>2 DEF Awaited, Fetches
    <2>4. Tracked(path)'
      BY <1>2, <1>5, <2>1, <2>3, EditingIs DEF Tracked
    <2>5. pane'.pendingEdit # path
      BY <1>5 DEF Paths, NoPath
    <2> QED
      BY <2>4, <2>5 DEF Sound
  <1> QED
    BY <1>4, <1>5 DEF Follows

LEMMA FollowsInStep ==
    ASSUME Types, Types', InStep, UNCHANGED <<remote, local, job, cancelRequested, disturbed>>,
           Smooth' => Smooth,
           \A path \in Paths : AllSpare(pane'.req, path) => Follows(pane, pane', path)
    PROVE  InStep'
  <1> SUFFICES ASSUME Smooth'
               PROVE  ~cancelRequested' /\ \A path \in Paths : Unspoilt(path)' => Sound(path)'
    BY DEF InStep
  <1>1. pane \in PaneType /\ pane' \in PaneType
    BY DEF Types, PaneHolds
  <1>2. ASSUME NEW path \in Paths, Unspoilt(path)' PROVE Sound(path)'
    <2>1. AllSpare(pane'.req, path) /\ path \notin disturbed
      BY <1>2 DEF Unspoilt
    <2>2. Follows(pane, pane', path)
      BY <2>1
    <2>3. pane.req \in Seq(Requests) /\ pane'.req \in Seq(Requests)
      BY <1>1 DEF PaneType
    <2>4. AllSpare(pane.req, path)
      BY <2>1, <2>2, <2>3, ExtendsKeeps DEF Follows
    <2>5. Sound(path)
      BY <2>1, <2>4 DEF InStep, Unspoilt
    <2>6. AsCopied(path)' = AsCopied(path)
      BY DEF AsCopied
    <2> QED
      BY <1>1, <2>2, <2>5, <2>6, FollowsSound
  <1> QED
    BY <1>2 DEF InStep

LEMMA SpendSmooth ==
    ASSUME HistoryHolds, NEW k \in DOMAIN Bound, k # "cancels", Spend(k)
    PROVE  spent'["cancels"] = spent["cancels"]
  BY DEF HistoryHolds, Spend, Bound

LEMMA InitInStep == Init => InStep
  <1> SUFFICES ASSUME Init PROVE InStep
    OBVIOUS
  <1>1. ~cancelRequested
    BY DEF Init
  <1>2. ASSUME NEW path \in Paths PROVE Sound(path)
    <2>1. /\ pane.edited[path] = NoEdit /\ pane.pendingEdit = NoPath /\ job = NoJob
          /\ pane.req = <<Slot("connect", NoPath)>>
      BY <1>2 DEF Init
    <2>2. NoEdit.state = "no" /\ path # NoPath
      BY DEF NoEdit, Paths, NoPath
    <2>3. OwnCopies(pane.req, path)
      BY <2>1 DEF OwnCopies, OwnCopy, Uploads, Slot
    <2> QED
      BY <2>1, <2>2, <2>3, NoJobIsMute DEF Sound, Tracked
  <1> QED
    BY <1>1, <1>2 DEF InStep

-----------------------------------------------------------------------------
(* The steps of the window.                                                    *)

LEMMA SignalInStep == ASSUME Types, Types', InStep, OnSignal PROVE InStep'
  <1> DEFINE s == Head(sig)
  <1>1. /\ pane \in PaneType /\ local \in [Names -> Files] /\ sig \in Seq(Signals) /\ sig # <<>>
        /\ pane' = Handle(pane, s)
    BY DEF Types, PaneHolds, FilesHold, OnSignal
  <1>2. s \in Signals
    BY <1>1, HeadTailProperties
  <1> HIDE DEF s
  <1>3. \A path \in Paths : Follows(pane, pane', path)
    BY <1>1, <1>2, HandleFollows
  <1>4. UNCHANGED <<remote, local, job, cancelRequested, disturbed, failed, spent>>
    BY DEF OnSignal, server, client, history
  <1>5. Smooth' => Smooth
    BY <1>4 DEF Smooth
  <1> QED
    BY <1>3, <1>4, <1>5, FollowsInStep

LEMMA AnswerInStep == ASSUME Types, Types', InStep, Answer PROVE InStep'
  <1> DEFINE p == [pane EXCEPT !.frames = Front(@)]
             f == Last(pane.frames)
  <1>1. /\ pane.frames # <<>> /\ (pane' = Resume(p, f) \/ pane' = p)
        /\ UNCHANGED <<remote, local, job, cancelRequested, disturbed, failed, spent>>
    BY DEF Answer, server, client
  <1>2. /\ PaneHolds(p) /\ f \in Frames /\ Asks(f) /\ (f.kind \in Dialogs => p.cwd \in Dirs)
        /\ \A m \in Members \ {"frames"} : p[m] = pane[m]
    BY <1>1, ClosedHolds DEF Types
  <1> HIDE DEF p, f
  <1>3. p \in PaneType /\ pane \in PaneType /\ pane' \in PaneType /\ local \in [Names -> Files]
    BY <1>2 DEF Types, PaneHolds, FilesHold
  <1>4. p.req = pane.req /\ p.edited = pane.edited /\ p.pendingEdit = pane.pendingEdit
    BY <1>2 DEF Members
  <1>5. ASSUME NEW path \in Paths, AllSpare(pane'.req, path) PROVE Follows(pane, pane', path)
    <2>1. Follows(pane, p, path)
      BY <1>3, <1>4, AlikeFollows
    <2>2. CASE pane' = p
      BY <2>1, <2>2
    <2>3. CASE pane' = Resume(p, f)
      <3>1. Follows(p, pane', path)
        BY <1>2, <1>3, <1>5, <2>3, ResumeFollows
      <3> QED
        BY <1>3, <2>1, <3>1, FollowsOn
    <2> QED
      BY <1>1, <2>2, <2>3
  <1>6. Smooth' => Smooth
    BY <1>1 DEF Smooth
  <1> QED
    BY <1>1, <1>5, <1>6, FollowsInStep

(* Navigating, opening a dialog, dropping files, starting a cross transfer.    *)
LEMMA WorkInStep ==
    ASSUME Types, Types', InStep, AtWork, UNCHANGED server,
           \A path \in Paths : Follows(pane, pane', path)
    PROVE  InStep'
  <1>1. "acts" \in DOMAIN Bound /\ HistoryHolds
    BY DEF Bound, Types
  <1>2. spent'["cancels"] = spent["cancels"] /\ failed' = failed
    BY <1>1, SpendSmooth DEF AtWork
  <1>3. UNCHANGED <<remote, local, job, cancelRequested, disturbed>>
    BY DEF AtWork, server, client
  <1>4. Smooth' => Smooth
    BY <1>2 DEF Smooth
  <1> QED
    BY <1>3, <1>4, FollowsInStep

LEMMA StartingInStep ==
    ASSUME Types, Types', InStep,
           \/ \E dir \in Dirs : Navigate(dir)
           \/ OpenDialog
           \/ \E names \in Batches(Names) : Drop(names) \/ startCrossTransfer(names)
    PROVE  InStep'
  <1>1. pane \in PaneType /\ PaneHolds(pane)
    BY DEF Types, PaneHolds
  <1>2. ASSUME NEW dir \in Dirs, Navigate(dir) PROVE InStep'
    <2>1. pane' = Ask(pane, List(dir)) /\ AtWork /\ UNCHANGED server
      BY <1>2 DEF Navigate, Free
    <2>2. List(dir) \in Requests /\ List(dir).op \notin {"fetch", "upload"}
      BY ListIsRequest DEF List, Slot
    <2>3. \A path \in Paths : Follows(pane, pane', path)
      BY <1>1, <2>1, <2>2, AskFollows
    <2> QED
      BY <2>1, <2>3, WorkInStep
  <1>3. ASSUME UNCHANGED server, AtWork,
               \A m \in Members \ {"frames", "busy", "canCancel"} : pane'[m] = pane[m]
        PROVE  InStep'
    <2>1. pane'.req = pane.req /\ pane'.edited = pane.edited
          /\ pane'.pendingEdit = pane.pendingEdit
      BY <1>3 DEF Members
    <2>2. \A path \in Paths : Follows(pane, pane', path)
      BY <1>1, <2>1, AlikeFollows
    <2> QED
      BY <1>3, <2>2, WorkInStep
  <1>4. CASE OpenDialog
    <2>1. /\ UNCHANGED <<server, xfer>> /\ AtWork
          /\ \A m \in Members \ {"frames"} : pane'[m] = pane[m]
      BY <1>1, <1>4, DialogOpens
    <2> QED
      BY <1>3, <2>1
  <1>5. ASSUME NEW names \in Batches(Names), startCrossTransfer(names) PROVE InStep'
    BY <1>1, <1>3, <1>5, StartCrossHolds DEF startCrossTransfer, Opened, Free
  <1>6. ASSUME NEW names \in Batches(Names), Drop(names) PROVE InStep'
    <2>1. /\ pane.cwd \in Dirs /\ ~pane.busy /\ AtWork /\ UNCHANGED server
          /\ pane' = uploadLocalPathsTo(pane, names)
      BY <1>1, <1>6 DEF PaneType, Drop, Opened, Free
    <2>2. pane' = Batch(pane, "put", names) /\ names \in Seq(Names)
      BY <2>1, BatchesAreSequences DEF uploadLocalPathsTo
    <2>3. \A path \in Paths : Follows(pane, pane', path)
      BY <1>1, <2>1, <2>2, BatchFollows DEF Batched
    <2> QED
      BY <2>1, <2>3, WorkInStep
  <1> QED
    BY <1>2, <1>4, <1>5, <1>6

(* A file is fetched for editing.                                              *)
LEMMA EditInStep ==
    ASSUME Types, Types', InStep, NEW name \in Names, editRemoteFile(name)
    PROVE  InStep'
  <1> DEFINE file == joinRemote(pane, name)
             r == Slot("fetch", file)
  <1>1. /\ pane \in PaneType /\ pane' \in PaneType /\ pane.cwd \in Dirs
        /\ local \in [Names -> Files]
        /\ AtWork /\ remote' = remote /\ job' = job /\ cancelRequested' = cancelRequested
        /\ disturbed' = disturbed /\ failed' = failed
    BY DEF Types, PaneHolds, PaneType, FilesHold, editRemoteFile, Opened, Free, AtWork, client
  <1>2. file \in Paths /\ file[2] = name /\ r \in Requests /\ r.op = "fetch" /\ r.path = file
    BY <1>1, SlotIsRequest DEF joinRemote, Slot
  <1>3. CASE pane.edited[file].state # "no"
    <2> DEFINE copy == pane.edited[file].copy
               t == [pane.editor EXCEPT ![copy] = local[copy]]
    <2>1. pane' = [pane EXCEPT !.editor = t] /\ local' = local
      BY <1>1, <1>3 DEF editRemoteFile, PaneType
    <2> HIDE DEF t
    <2>2. pane'.req = pane.req /\ pane'.edited = pane.edited
          /\ pane'.pendingEdit = pane.pendingEdit
      BY <1>1, <2>1 DEF PaneType
    <2>3. \A path \in Paths : Follows(pane, pane', path)
      BY <1>1, <2>2, AlikeFollows
    <2> QED
      BY <1>1, <2>1, <2>3, WorkInStep DEF server
  <1>4. CASE pane.edited[file].state = "no"
    <2> DEFINE e == [pane EXCEPT !.pendingEdit = file]
    <2>1. pane' = Ask(e, r) /\ local' = [local EXCEPT ![name] = NoFile]
      BY <1>4 DEF editRemoteFile
    <2>2. e \in PaneType /\ e.req = pane.req /\ e.edited = pane.edited /\ e.pendingEdit = file
      BY <1>1, <1>2 DEF PaneType
    <2> HIDE DEF e, r, file
    <2>3. /\ pane'.req = Append(pane.req, r)
          /\ \A m \in Members \ {"req", "busy"} : pane'[m] = e[m]
      BY <1>2, <2>1, <2>2, AskTyped
    <2>4. pane'.edited = pane.edited /\ pane'.pendingEdit = file
      BY <2>2, <2>3 DEF Members
    <2>5. "acts" \in DOMAIN Bound /\ HistoryHolds
      BY DEF Bound, Types
    <2>6. Smooth' => Smooth
      BY <1>1, <2>5, SpendSmooth DEF AtWork, Smooth
    <2>7. ASSUME Smooth, ~cancelRequested, NEW path \in Paths, Unspoilt(path)'
          PROVE  Sound(path)'
      <3>1. /\ AllSpare(pane'.req, path) => AllSpare(pane.req, path)
            /\ Ahead(pane.req, path) \/ r.path[2] = path[2] => Ahead(pane'.req, path)
            /\ r.path = path => FetchLast(pane'.req, path)
            /\ OwnCopies(pane.req, path) => OwnCopies(pane'.req, path)
        BY <1>1, <1>2, <2>3, FetchAhead DEF PaneType
      <3>2. Sound(path)
        BY <1>1, <2>7, <3>1 DEF InStep, Unspoilt
      <3>3. path[2] # name => AsCopied(path)' = AsCopied(path)
        BY <1>1, <2>1 DEF AsCopied
      <3>4. path[2] = name => Ahead(pane'.req, path)
        BY <1>2, <3>1
      <3>5. Tracked(path)'
        BY <1>1, <2>4, <3>1, <3>2, <3>3, <3>4 DEF Sound, Tracked
      <3>6. file = path => Awaited(path)'
        BY <1>2, <3>1 DEF Awaited
      <3> QED
        BY <1>4, <2>4, <3>5, <3>6 DEF Sound
    <2> QED
      BY <1>1, <2>6, <2>7 DEF InStep
  <1> QED
    BY <1>3, <1>4

(* An editor saves: the copy looks changed to all who edit it.                 *)
LEMMA TouchedIs ==
    ASSUME NEW path \in Paths, NEW name
    PROVE  Touched(name)[path] =
              IF pane.edited[path].state # "no" /\ pane.edited[path].copy = name
              THEN Editing("changed", name) ELSE pane.edited[path]
  BY DEF Touched

LEMMA SaveInStep ==
    ASSUME Types, Types', InStep, NEW name \in Names, SaveInEditor(name)
    PROVE  InStep'
  <1> DEFINE f == [pane.editor[name] EXCEPT !.ver = spent["saves"] + 1]
  <1>1. /\ pane \in PaneType /\ local \in [Names -> Files] /\ HistoryHolds
        /\ remote' = remote /\ job' = job /\ cancelRequested' = cancelRequested
        /\ failed' = failed /\ Spend("saves")
        /\ local' = [local EXCEPT ![name] = f] /\ pane' = [pane EXCEPT !.edited = Touched(name)]
    BY DEF Types, PaneHolds, FilesHold, SaveInEditor, client
  <1> HIDE DEF f
  <1>2. /\ disturbed \subseteq disturbed'
        /\ pane.pendingEdit # NoPath /\ pane.pendingEdit[2] = name
              => pane.pendingEdit \in disturbed'
    BY DEF SaveInEditor, Disturbs
  <1>3. "saves" \in DOMAIN Bound
    BY DEF Bound
  <1>4. Smooth' => Smooth
    BY <1>1, <1>3, SpendSmooth DEF Smooth
  <1>5. /\ pane'.req = pane.req /\ pane'.pendingEdit = pane.pendingEdit
        /\ pane'.edited = Touched(name)
    BY <1>1 DEF PaneType
  <1>6. ASSUME Smooth, NEW path \in Paths, Unspoilt(path)' PROVE Sound(path)'
    <2>1. Sound(path) /\ path \notin disturbed'
      BY <1>2, <1>5, <1>6 DEF InStep, Unspoilt
    <2>2. CASE pane.edited[path].state # "no" /\ pane.edited[path].copy = name
      <3>1. pane'.edited[path] = Editing("changed", name)
        BY <1>5, <2>2, TouchedIs
      <3>2. path[2] = name
        BY <2>1, <2>2 DEF Sound, Tracked
      <3>3. Tracked(path)'
        BY <1>1, <1>5, <2>1, <3>1, <3>2, EditingIs DEF Sound, Tracked
      <3> QED
        BY <1>5, <2>1, <2>2, <3>3 DEF Sound
    <2>3. CASE ~(pane.edited[path].state # "no" /\ pane.edited[path].copy = name)
      <3>1. pane'.edited[path] = pane.edited[path]
        BY <1>5, <2>3, TouchedIs
      <3>2. path[2] # name => AsCopied(path)' = AsCopied(path)
        BY <1>1 DEF AsCopied
      <3>3. pane.edited[path].state = "same" => path[2] # name
        BY <2>1, <2>3 DEF Sound, Tracked
      <3>4. pane.pendingEdit = path => path[2] # name
        BY <1>2, <2>1 DEF Paths, NoPath
      <3>5. Tracked(path)'
        BY <1>1, <1>5, <2>1, <3>1, <3>2, <3>3 DEF Sound, Tracked
      <3>6. pane.pendingEdit = path /\ Awaited(path) => Awaited(path)'
        BY <1>1, <1>5, <3>2, <3>4 DEF Awaited
      <3> QED
        BY <1>5, <2>1, <3>1, <3>5, <3>6 DEF Sound
    <2> QED
      BY <2>2, <2>3
  <1> QED
    BY <1>1, <1>4, <1>6 DEF InStep

LEMMA CancelInStep == ASSUME Types, cancelTransfers PROVE InStep'
  <1>1. spent'["cancels"] = spent["cancels"] + 1 /\ spent["cancels"] \in Nat
    BY DEF Types, HistoryHolds, cancelTransfers, Spend, Bound
  <1> QED
    BY <1>1 DEF InStep, Smooth

-----------------------------------------------------------------------------
(* The steps of the client.  It takes a request that is not for an edited      *)
(* file, or begins or ends a transfer of one.                                  *)

(* What of a step is not about a file.                                         *)
LEMMA OtherInStep ==
    ASSUME InStep, Smooth' => Smooth, Smooth => ~cancelRequested',
           Smooth => \A path \in Paths : Unspoilt(path)' => Unspoilt(path),
           Smooth => \A path \in Paths : Unspoilt(path)' /\ Sound(path) => Sound(path)'
    PROVE  InStep'
  BY DEF InStep

LEMMA FailedInStep == ASSUME failed' = TRUE PROVE InStep'
  BY DEF InStep, Smooth

LEMMA TakenSound ==
    ASSUME NEW path \in Paths, pane \in PaneType, pane.req # <<>>, pane'.req = Tail(pane.req),
           Sound(path), ~Uploads(slot, path), slot.op # "fetch",
           job = NoJob, ~Uploads(job', path), job'.op # "fetch",
           pane'.edited = pane.edited, pane'.pendingEdit = pane.pendingEdit,
           AsCopied(path)' = AsCopied(path)
    PROVE  Sound(path)'
  <1>1. pane.req \in Seq(Requests)
    BY DEF PaneType
  <1>2. /\ Silent(pane.req, path) => Silent(pane'.req, path)
        /\ Ahead(pane.req, path) => Ahead(pane'.req, path)
        /\ FetchLast(pane.req, path) => FetchLast(pane'.req, path)
        /\ OwnCopies(pane.req, path) => OwnCopies(pane'.req, path)
    BY <1>1, TailKeeps DEF slot, Fetches
  <1>3. Mute(job', path) /\ OwnCopy(job', path)
    BY DEF Mute, OwnCopy
  <1>4. Tracked(path)'
    BY <1>2, <1>3, NoJobIsMute DEF Sound, Tracked
  <1>5. Awaited(path) => Awaited(path)'
    BY <1>2, <1>3, NoJobIsMute DEF Awaited
  <1> QED
    BY <1>4, <1>5 DEF Sound

LEMMA SlotInStep ==
    ASSUME Types, InStep, connectHost \/ Rejects \/ listDirectory \/ Operation
    PROVE  InStep'
  <1>1. CASE failed' = TRUE
    BY <1>1, FailedInStep
  <1>2. CASE failed' # TRUE
    <2>1. ~Rejects /\ (Fine \/ (failed' = failed /\ spent' = spent))
      BY <1>2 DEF connectHost, Rejects, listDirectory, Operation, Fine, history, Trouble, Refused
    <2>2. Smooth' => Smooth
      BY <2>1 DEF Fine, Smooth
    <2>3. /\ pane \in PaneType /\ pane.req # <<>> /\ pane'.req = Tail(pane.req)
          /\ pane' = Taken /\ job = NoJob /\ job' = job /\ local' = local
          /\ remote \in [Paths -> Files] /\ slot \in Requests
      BY SlotAnswers, TakenHolds DEF TakesSlot, Types, PaneHolds, FilesHold
    <2>4. pane'.edited = pane.edited /\ pane'.pendingEdit = pane.pendingEdit
      BY <2>3 DEF Taken, PaneType
    <2>5. slot.op \in {"connect", "list", "mkdir", "remove", "rename"}
          /\ cancelRequested' = cancelRequested
      BY <2>1 DEF connectHost, listDirectory, Operation, Takes, client
    <2>6. ASSUME NEW path \in Paths, Unspoilt(path)'
          PROVE  /\ path \notin disturbed /\ Spares(slot, path) /\ remote'[path] = remote[path]
      <3>1. path \notin disturbed'
        BY <2>6 DEF Unspoilt
      <3>2. CASE slot.op \in {"connect", "list", "mkdir"}
        <4>1. remote' = remote /\ disturbed' = disturbed
          BY <2>1, <3>2 DEF connectHost, listDirectory, Operation, Takes, server, history
        <4> QED
          BY <3>1, <3>2, <4>1 DEF Spares
      <3>3. CASE slot.op \in {"remove", "rename"}
        <4> DEFINE impossible == \/ slot.op # "mkdir" /\ remote[slot.path] = NoFile
                                 \/ slot.op = "rename" /\ remote[slot.to] # NoFile
        <4>1. Operation
          BY <2>1, <3>3 DEF connectHost, listDirectory, Takes
        <4>2. ~impossible
          BY <1>2, <4>1 DEF Operation, Refused
        <4>3. disturbed' = disturbed \cup {slot.path, slot.to}
          BY <3>3, <4>1, <4>2 DEF Operation, Disturbs
        <4>4. \/ remote' = [remote EXCEPT ![slot.path] = NoFile]
              \/ remote' = [remote EXCEPT ![slot.to] = remote[slot.path], ![slot.path] = NoFile]
          BY <3>3, <4>1, <4>2 DEF Operation
        <4>5. path \notin disturbed /\ path \notin {slot.path, slot.to}
          BY <3>1, <4>3
        <4>6. remote'[path] = remote[path]
          BY <2>3, <4>4, <4>5
        <4> QED
          BY <3>3, <4>5, <4>6 DEF Spares
      <3> QED
        BY <2>5, <3>2, <3>3
    <2>7. ASSUME NEW path \in Paths, Unspoilt(path)' PROVE Unspoilt(path)
      <3>1. pane.req \in Seq(Requests) /\ AllSpare(pane'.req, path)
        BY <2>3, <2>7 DEF PaneType, Unspoilt
      <3> QED
        BY <2>3, <2>6, <2>7, <3>1, TailKeeps DEF Unspoilt, slot
    <2>8. ASSUME NEW path \in Paths, Unspoilt(path)', Sound(path) PROVE Sound(path)'
      <3>1. AsCopied(path)' = AsCopied(path)
        BY <2>3, <2>6, <2>8 DEF AsCopied
      <3>2. ~Uploads(slot, path) /\ slot.op # "fetch"
        BY <2>5 DEF Uploads
      <3>3. ~Uploads(job', path) /\ job'.op # "fetch"
        BY <2>3, NoJobIsMute
      <3> QED
        BY <2>3, <2>4, <2>8, <3>1, <3>2, <3>3, TakenSound
    <2>9. Smooth => ~cancelRequested'
      BY <2>5 DEF InStep
    <2> QED
      BY <2>2, <2>7, <2>8, <2>9, OtherInStep
  <1> QED
    BY <1>1, <1>2

LEMMA StartInStep == ASSUME Types, InStep, StartTransfer PROVE InStep'
  <1> DEFINE file == Source(slot)
  <1>1. CASE file = NoFile
    BY <1>1, FailedInStep DEF StartTransfer, Refused
  <1>2. CASE file # NoFile
    <2>1. /\ pane \in PaneType /\ pane.req \in Seq(Requests) /\ pane.req # <<>>
          /\ slot \in Requests /\ slot.op \in Transfers /\ job = NoJob
          /\ remote \in [Paths -> Files] /\ local \in [Names -> Files]
      BY TakenHolds DEF Types, PaneHolds, PaneType, FilesHold, StartTransfer, Takes
    <2>2. slot.path \in Paths /\ slot.path[2] \in Names
      BY <2>1, RequestParts, PathParts DEF Transfers
    <2>3. /\ job' = [op |-> slot.op, path |-> slot.path, to |-> slot.to, stage |-> "open"]
          /\ local' = IF slot.op = "fetch" THEN [local EXCEPT ![slot.path[2]] = Piece(file)]
                      ELSE local
          /\ remote' = IF slot.op \in {"upload", "put"}
                       THEN [remote EXCEPT ![slot.path] = Piece(file)] ELSE remote
          /\ ~cancelRequested' /\ failed' = failed /\ spent' = spent
          /\ disturbed' = IF slot.op = "put" THEN disturbed \cup {slot.path} ELSE disturbed
      BY <1>2 DEF StartTransfer, Fine, Disturbs
    <2>4. /\ pane'.req = Tail(pane.req) /\ pane'.pendingEdit = pane.pendingEdit
          /\ pane'.edited = IF slot.op = "fetch" THEN Touched(slot.path[2]) ELSE pane.edited
      <3> DEFINE d == IF slot.op = "fetch" THEN Touched(slot.path[2]) ELSE pane.edited
      <3>1. /\ Taken \in PaneType /\ Taken.req = Tail(pane.req)
            /\ \A m \in Members \ {"req"} : Taken[m] = pane[m]
        BY <2>1, TakenHolds DEF Types, PaneHolds
      <3>2. Taken.edited = pane.edited /\ Taken.pendingEdit = pane.pendingEdit
        BY <3>1 DEF Members
      <3>3. pane' = [Taken EXCEPT !.edited = d]
        BY <1>2, <3>2 DEF StartTransfer
      <3> HIDE DEF d
      <3>4. pane'.req = Taken.req /\ pane'.pendingEdit = Taken.pendingEdit /\ pane'.edited = d
        BY <3>1, <3>3 DEF PaneType
      <3>5. pane'.req = Tail(pane.req) /\ pane'.pendingEdit = pane.pendingEdit
        BY <3>1, <3>2, <3>4
      <3> QED
        BY ONLY <3>4, <3>5 DEF d
    <2> HIDE DEF file
    <2>5. /\ job'.op = slot.op /\ job'.path = slot.path /\ job'.to = slot.to
      BY <2>3
    <2>6. Smooth' => Smooth
      BY <2>3 DEF Smooth
    <2>7. ASSUME NEW path \in Paths, Unspoilt(path)'
          PROVE  Unspoilt(path) /\ (slot.op = "put" => slot.path # path)
      <3>1. AllSpare(pane'.req, path) /\ path \notin disturbed'
        BY <2>7 DEF Unspoilt
      <3>2. path \notin disturbed /\ (slot.op = "put" => slot.path # path)
        BY <2>3, <3>1
      <3>3. Spares(slot, path)
        BY <2>1, <3>2 DEF Spares, Transfers
      <3> QED
        BY <2>1, <2>4, <3>1, <3>2, <3>3, TailKeeps DEF Unspoilt, slot
    <2>8. ASSUME NEW path \in Paths, Unspoilt(path)', Sound(path) PROVE Sound(path)'
      <3>1. /\ Silent(pane.req, path) => Mute(slot, path) /\ Silent(pane'.req, path)
            /\ Ahead(pane.req, path) => \/ Uploads(slot, path) \/ Fetches(slot, path[2])
                                        \/ Ahead(pane'.req, path)
            /\ FetchLast(pane.req, path) =>
                  \/ FetchLast(pane'.req, path)
                  \/ slot.op = "fetch" /\ slot.path = path /\ Silent(pane'.req, path)
            /\ OwnCopies(pane.req, path) => OwnCopy(slot, path) /\ OwnCopies(pane'.req, path)
        <4>1. slot = Head(pane.req) /\ pane'.req = Tail(pane.req)
          BY <2>4 DEF slot
        <4> QED
          BY ONLY <2>1, <4>1, TailKeeps
      <3>2. OwnCopies(pane'.req, path) /\ OwnCopy(job', path)
        BY <2>5, <2>8, <3>1 DEF Sound, Tracked, OwnCopy, Uploads
      <3>3. CASE slot.op = "fetch"
        <4>1. Awaited(path) => Awaited(path)'
          BY <2>1, <2>5, <3>1, <3>3, NoJobIsMute DEF Awaited, Mute
        <4>2. CASE pane.edited[path].state # "no" /\ pane.edited[path].copy = slot.path[2]
          <5>1. pane'.edited[path] = Editing("changed", slot.path[2])
            BY <2>4, <3>3, <4>2, TouchedIs
          <5>2. slot.path[2] = path[2]
            BY <2>8, <4>2 DEF Sound, Tracked
          <5>3. Tracked(path)'
            BY <3>2, <5>1, <5>2, EditingIs DEF Tracked
          <5> QED
            BY <2>4, <2>8, <4>2, <5>3 DEF Sound
        <4>3. CASE ~(pane.edited[path].state # "no" /\ pane.edited[path].copy = slot.path[2])
          <5>1. pane'.edited[path] = pane.edited[path]
            BY <2>4, <3>3, <4>3, TouchedIs
          <5>2. ASSUME pane.edited[path].state = "same"
                PROVE  AsCopied(path)' \/ Ahead(pane'.req, path)
            <6>1. path[2] # slot.path[2]
              BY <2>8, <4>3, <5>2 DEF Sound, Tracked
            <6>2. AsCopied(path) \/ Ahead(pane.req, path)
              BY <2>1, <2>8, <5>2, NoJobIsMute DEF Sound, Tracked
            <6>3. AsCopied(path)' = AsCopied(path)
              BY <2>1, <2>3, <3>3, <6>1 DEF AsCopied
            <6>4. ~Uploads(slot, path) /\ ~Fetches(slot, path[2])
              BY <3>3, <6>1 DEF Uploads, Fetches
            <6> QED
              BY <3>1, <6>2, <6>3, <6>4
          <5>3. Tracked(path)'
            BY <2>8, <3>2, <5>1, <5>2 DEF Sound, Tracked
          <5> QED
            BY <2>4, <2>8, <4>1, <5>1, <5>3 DEF Sound
        <4> QED
          BY <4>2, <4>3
      <3>4. CASE Uploads(slot, path)
        <4>1. pane'.edited = pane.edited /\ Uploads(job', path)
          BY <2>4, <2>5, <3>4 DEF Uploads
        <4>2. ~Mute(slot, path) /\ slot.op # "fetch"
          BY <3>4 DEF Mute, Uploads
        <4>3. Tracked(path)'
          BY <2>8, <3>2, <4>1 DEF Sound, Tracked
        <4>4. Awaited(path) => Awaited(path)'
          BY <2>1, <3>1, <4>2, NoJobIsMute DEF Awaited
        <4> QED
          BY <2>4, <2>8, <4>1, <4>3, <4>4 DEF Sound
      <3>5. CASE slot.op # "fetch" /\ ~Uploads(slot, path)
        <4>1. slot.op \in {"upload", "put"} => slot.path # path
          BY <2>7, <2>8, <3>5 DEF Uploads
        <4>2. AsCopied(path)' = AsCopied(path)
          BY <2>1, <2>2, <2>3, <3>5, <4>1 DEF AsCopied
        <4>3. ~Uploads(job', path) /\ job'.op # "fetch"
          BY <2>5, <3>5 DEF Uploads
        <4> QED
          BY <2>1, <2>4, <2>8, <3>5, <4>2, <4>3, TakenSound
      <3> QED
        BY <3>3, <3>4, <3>5
    <2> QED
      BY <2>3, <2>6, <2>7, <2>8, OtherInStep
  <1> QED
    BY <1>1, <1>2

LEMMA MoveInStep == ASSUME Types, InStep, MoveBlock PROVE InStep'
  <1>1. /\ job \in Jobs /\ pane' = pane /\ job' = [job EXCEPT !.stage = "moving"]
        /\ UNCHANGED <<remote, local, failed, disturbed, spent, cancelRequested>>
    BY DEF Types, JobHolds, MoveBlock, InTransfer, server
  <1>2. job'.op = job.op /\ job'.path = job.path /\ job'.to = job.to
    BY <1>1 DEF Jobs
  <1>3. \A path \in Paths : Unspoilt(path)' = Unspoilt(path)
    BY <1>1 DEF Unspoilt
  <1>4. ASSUME NEW path \in Paths, Sound(path) PROVE Sound(path)'
    <2>1. AsCopied(path)' = AsCopied(path)
      BY <1>1 DEF AsCopied
    <2>2. /\ Uploads(job', path) = Uploads(job, path) /\ Mute(job', path) = Mute(job, path)
          /\ Fetches(job', path[2]) = Fetches(job, path[2])
          /\ OwnCopy(job', path) = OwnCopy(job, path)
      BY <1>2 DEF Uploads, Mute, Fetches, OwnCopy
    <2>3. Tracked(path)'
      BY <1>1, <1>4, <2>1, <2>2 DEF Sound, Tracked
    <2>4. Awaited(path) => Awaited(path)'
      BY <1>1, <1>2, <2>1, <2>2 DEF Awaited
    <2> QED
      BY <1>1, <1>4, <2>3, <2>4 DEF Sound
  <1>5. (Smooth' => Smooth) /\ (Smooth => ~cancelRequested')
    BY <1>1 DEF InStep, Smooth
  <1> QED
    BY <1>3, <1>4, <1>5, OtherInStep

LEMMA EndInStep == ASSUME Types, InStep, EndTransfer PROVE InStep'
  <1>1. /\ pane \in PaneType /\ job \in Jobs /\ job.op \in Transfers /\ job.path \in Paths
        /\ job.path[2] \in Names /\ remote \in [Paths -> Files] /\ local \in [Names -> Files]
    BY JobParts, PathParts DEF Types, PaneHolds, FilesHold, JobHolds, EndTransfer, InTransfer
  <1>2. /\ job' = NoJob /\ cancelRequested' = cancelRequested /\ failed' = failed /\ spent' = spent
        /\ local' = IF job.op = "fetch" THEN [local EXCEPT ![job.path[2]] = Source(job)] ELSE local
        /\ remote' = IF job.op \in {"upload", "put"}
                     THEN [remote EXCEPT ![job.path] = Source(job)] ELSE remote
        /\ disturbed' = IF job.op = "put" THEN disturbed \cup {job.path} ELSE disturbed
    BY DEF EndTransfer, InTransfer, Fine, Disturbs
  <1>3. /\ pane'.req = pane.req /\ pane'.pendingEdit = pane.pendingEdit
        /\ pane'.edited = IF job.op = "fetch" THEN Touched(job.path[2]) ELSE pane.edited
    BY <1>1 DEF EndTransfer, PaneType
  <1>4. (Smooth' => Smooth) /\ (Smooth => ~cancelRequested')
    BY <1>2 DEF InStep, Smooth
  <1>5. ASSUME NEW path \in Paths, Unspoilt(path)'
        PROVE  Unspoilt(path) /\ (job.op = "put" => job.path # path)
    BY <1>2, <1>3, <1>5 DEF Unspoilt
  <1>6. ASSUME NEW path \in Paths, Unspoilt(path)', Sound(path) PROVE Sound(path)'
    <2>1. OwnCopies(pane'.req, path) /\ OwnCopy(job', path) /\ Mute(job', path)
      BY <1>2, <1>3, <1>6, NoJobIsMute DEF Sound, Tracked
    <2>2. CASE job.op = "fetch"
      <3>1. Source(job) = remote[job.path] /\ remote' = remote
        BY <1>2, <2>2 DEF Source
      <3>2. job.path = path => AsCopied(path)'
        BY <1>1, <1>2, <2>2, <3>1 DEF AsCopied
      <3>3. ~Mute(job, path) /\ ~Uploads(job, path)
        BY <2>2 DEF Mute, Uploads
      <3>4. Awaited(path) => Awaited(path)'
        BY <1>3, <2>1, <3>2, <3>3 DEF Awaited
      <3>5. CASE pane.edited[path].state # "no" /\ pane.edited[path].copy = job.path[2]
        <4>1. pane'.edited[path] = Editing("changed", job.path[2])
          BY <1>3, <2>2, <3>5, TouchedIs
        <4>2. job.path[2] = path[2]
          BY <1>6, <3>5 DEF Sound, Tracked
        <4>3. Tracked(path)'
          BY <2>1, <4>1, <4>2, EditingIs DEF Tracked
        <4> QED
          BY <1>3, <1>6, <3>5, <4>3 DEF Sound
      <3>6. CASE ~(pane.edited[path].state # "no" /\ pane.edited[path].copy = job.path[2])
        <4>1. pane'.edited[path] = pane.edited[path]
          BY <1>3, <2>2, <3>6, TouchedIs
        <4>2. ASSUME pane.edited[path].state = "same"
              PROVE  AsCopied(path)' \/ Ahead(pane'.req, path)
          <5>1. path[2] # job.path[2]
            BY <1>6, <3>6, <4>2 DEF Sound, Tracked
          <5>2. ~Fetches(job, path[2])
            BY <5>1 DEF Fetches
          <5>3. AsCopied(path) \/ Ahead(pane.req, path)
            BY <1>6, <3>3, <4>2, <5>2 DEF Sound, Tracked
          <5>4. AsCopied(path)' = AsCopied(path)
            BY <1>1, <1>2, <2>2, <3>1, <5>1 DEF AsCopied
          <5> QED
            BY <1>3, <5>3, <5>4
        <4>3. Tracked(path)'
          BY <1>6, <2>1, <4>1, <4>2 DEF Sound, Tracked
        <4> QED
          BY <1>3, <1>6, <3>4, <4>1, <4>3 DEF Sound
      <3> QED
        BY <3>5, <3>6
    <2>3. CASE Uploads(job, path)
      <3>1. job.op = "upload" /\ job.path = path /\ job.to[2] = path[2]
        BY <1>6, <2>3 DEF Sound, Tracked, OwnCopy, Uploads
      <3>2. Source(job) = local[path[2]] /\ local' = local
        BY <1>2, <3>1 DEF Source
      <3>3. AsCopied(path)'
        BY <1>1, <1>2, <3>1, <3>2 DEF AsCopied
      <3>4. ~Mute(job, path)
        BY <2>3 DEF Mute
      <3>5. pane'.edited = pane.edited
        BY <1>3, <3>1
      <3>6. Tracked(path)'
        BY <1>6, <2>1, <3>3, <3>5 DEF Sound, Tracked
      <3>7. Awaited(path) => Awaited(path)'
        BY <1>3, <3>1, <3>4 DEF Awaited
      <3> QED
        BY <1>3, <1>6, <3>5, <3>6, <3>7 DEF Sound
    <2>4. CASE job.op # "fetch" /\ ~Uploads(job, path)
      <3>1. job.op \in {"upload", "put"} => job.path # path
        BY <1>5, <1>6, <2>4 DEF Uploads
      <3>2. AsCopied(path)' = AsCopied(path)
        BY <1>1, <1>2, <2>4, <3>1 DEF AsCopied
      <3>3. ~Fetches(job, path[2]) /\ pane'.edited = pane.edited
        BY <1>3, <2>4 DEF Fetches
      <3>4. Tracked(path)'
        BY <1>3, <1>6, <2>1, <2>4, <3>2, <3>3 DEF Sound, Tracked
      <3>5. Awaited(path) => Awaited(path)'
        BY <1>3, <2>1, <2>4, <3>2 DEF Awaited
      <3> QED
        BY <1>3, <1>6, <3>3, <3>4, <3>5 DEF Sound
    <2> QED
      BY <2>2, <2>3, <2>4
  <1> QED
    BY <1>4, <1>5, <1>6, OtherInStep

(* A transfer that is cancelled or breaks off is one of those excluded.        *)
LEMMA BrokenInStep == ASSUME InStep, CancelTransfer \/ BreakTransfer PROVE InStep'
  <1>1. CASE BreakTransfer
    BY <1>1, FailedInStep DEF BreakTransfer, Trouble
  <1>2. CASE CancelTransfer
    <2>1. cancelRequested /\ failed' = failed /\ spent' = spent
      BY <1>2 DEF CancelTransfer
    <2> QED
      BY <2>1 DEF InStep, Smooth
  <1> QED
    BY <1>1, <1>2

LEMMA CrossInStep == ASSUME Types, Types', InStep, Cross PROVE InStep'
  <1>1. /\ UNCHANGED <<local, pane, job, cancelRequested>>
        /\ pane \in PaneType /\ remote \in [Paths -> Files]
    BY DEF Types, PaneHolds, FilesHold, Cross, CrossStarts, CrossFile, CrossFileEnds, CrossFails,
           CrossEnds, CrossReports, InCross, client
  <1>2. CASE CrossFails
    BY <1>2, FailedInStep DEF CrossFails, Trouble
  <1>3. CASE ~CrossFails
    <2>1. failed' = failed /\ spent' = spent
      BY <1>3 DEF Cross, CrossStarts, CrossFile, CrossFileEnds, CrossEnds, CrossReports
    <2>2. \/ remote' = remote /\ disturbed' = disturbed
          \/ \E x, f : remote' = [remote EXCEPT ![x] = f] /\ disturbed' = disturbed \cup {x}
      BY <1>3 DEF Cross, CrossStarts, CrossFile, CrossFileEnds, CrossEnds, CrossReports, Disturbs
    <2>3. \A path \in Paths : Unspoilt(path)' => Unspoilt(path) /\ remote'[path] = remote[path]
      BY <1>1, <2>2 DEF Unspoilt
    <2>4. ASSUME NEW path \in Paths, Unspoilt(path)', Sound(path) PROVE Sound(path)'
      <3>1. AsCopied(path)' = AsCopied(path)
        BY <1>1, <2>3, <2>4 DEF AsCopied
      <3>2. Follows(pane, pane', path)
        BY <1>1, AlikeFollows
      <3> QED
        BY <1>1, <2>4, <3>1, <3>2, FollowsSound
    <2>5. (Smooth' => Smooth) /\ (Smooth => ~cancelRequested')
      BY <1>1, <2>1 DEF InStep, Smooth
    <2> QED
      BY <2>3, <2>4, <2>5, OtherInStep
  <1> QED
    BY <1>2, <1>3

(* The timer finds copies that have changed or are gone: the changed ones are  *)
(* sent, the others are not tracked any more.                                  *)
LEMMA PostedAhead ==
    ASSUME NEW path, NEW s \in Seq(Requests), NEW C, NEW order \in Seq(C),
           NEW sent \in Seq(Requests), Len(sent) = Len(order),
           \A i \in 1..Len(order) : /\ sent[i].op = "upload" /\ sent[i].path = order[i]
                                    /\ order[i] = path => sent[i].to[2] = path[2],
           path \in C => \E i \in 1..Len(order) : order[i] = path
    PROVE  LET t == s \o sent IN
           /\ AllSpare(t, path) => AllSpare(s, path)
           /\ Ahead(s, path) \/ path \in C => Ahead(t, path)
           /\ OwnCopies(s, path) => OwnCopies(t, path)
           /\ path \notin C => /\ Silent(s, path) => Silent(t, path)
                               /\ FetchLast(s, path) => FetchLast(t, path)
  <1> DEFINE n == Len(s)
             m == Len(order)
             t == s \o sent
  <1>1. /\ n \in Nat /\ m \in Nat /\ Len(t) = n + m
        /\ \A i \in 1..n : i \in 1..Len(t) /\ t[i] = s[i]
        /\ \A i \in 1..m : n + i \in 1..Len(t) /\ t[n + i] = sent[i]
        /\ \A i \in 1..Len(t) : i \in 1..n \/ \E k \in 1..m : i = n + k
    <2>1. n \in Nat /\ m \in Nat
      OBVIOUS
    <2>2. /\ Len(t) = n + m
          /\ \A i \in 1..(n + m) : t[i] = IF i <= n THEN s[i] ELSE sent[i - n]
      <3>1. /\ Len(s \o sent) = Len(s) + Len(sent)
            /\ \A i \in 1..(Len(s) + Len(sent)) :
                  (s \o sent)[i] = IF i <= Len(s) THEN s[i] ELSE sent[i - Len(s)]
        BY ONLY s \in Seq(Requests), sent \in Seq(Requests), ConcatProperties
      <3> HIDE DEF n, m, t
      <3>2. n = Len(s) /\ m = Len(sent) /\ t = s \o sent
        BY DEF n, m, t
      <3> QED
        BY ONLY <3>1, <3>2
    <2> HIDE DEF n, m, t
    <2>3. \A i \in 1..Len(t) : i \in 1..n \/ \E k \in 1..m : i = n + k
      <3>1. ASSUME NEW i \in 1..Len(t), i \notin 1..n PROVE i - n \in 1..m /\ i = n + (i - n)
        BY <2>1, <2>2, <3>1
      <3> QED
        BY <3>1
    <2>4. ASSUME NEW i \in 1..m PROVE n + i \in 1..Len(t) /\ t[n + i] = sent[i]
      <3>1. n + i \in 1..(n + m) /\ ~(n + i <= n) /\ (n + i) - n = i
        BY <2>1
      <3> QED
        BY <2>2, <3>1
    <2>5. \A i \in 1..n : i \in 1..Len(t) /\ t[i] = s[i]
      BY <2>1, <2>2
    <2> QED
      BY <2>1, <2>2, <2>3, <2>4, <2>5
  <1>2. ASSUME NEW i \in 1..m
        PROVE  /\ order[i] \in C /\ (order[i] = path => Uploads(sent[i], path))
               /\ OwnCopy(sent[i], path)
               /\ path \notin C => Mute(sent[i], path)
    BY DEF OwnCopy, Mute, Uploads
  <1> HIDE DEF n, m, t
  <1>3. AllSpare(t, path) => AllSpare(s, path)
    BY <1>1 DEF AllSpare, n
  <1>4. Ahead(s, path) => Ahead(t, path)
    BY <1>1 DEF Ahead, n
  <1>5. ASSUME path \in C PROVE Ahead(t, path)
    <2>1. PICK i \in 1..m : order[i] = path
      BY <1>5 DEF m
    <2>2. n + i \in 1..Len(t) /\ Uploads(t[n + i], path)
      BY <1>1, <1>2, <2>1
    <2> QED
      BY <2>2 DEF Ahead
  <1>6. OwnCopies(s, path) => OwnCopies(t, path)
    <2>1. ASSUME OwnCopies(s, path), NEW i \in 1..Len(t) PROVE OwnCopy(t[i], path)
      <3>1. \A k \in 1..n : OwnCopy(s[k], path)
        BY <2>1 DEF OwnCopies, n
      <3>2. \A k \in 1..m : OwnCopy(sent[k], path)
        BY ONLY <1>2
      <3> QED
        BY ONLY <1>1, <2>1, <3>1, <3>2
    <2> QED
      BY <2>1 DEF OwnCopies
  <1>7. ASSUME path \notin C, Silent(s, path) PROVE Silent(t, path)
    <2>1. \A k \in 1..n : Mute(s[k], path)
      BY <1>7 DEF Silent, n
    <2>2. \A k \in 1..m : Mute(sent[k], path)
      BY ONLY <1>2, <1>7
    <2>3. \A i \in 1..Len(t) : Mute(t[i], path)
      BY ONLY <1>1, <2>1, <2>2
    <2> QED
      BY <2>3 DEF Silent
  <1>8. ASSUME path \notin C, FetchLast(s, path) PROVE FetchLast(t, path)
    <2>1. PICK i \in 1..n : /\ s[i].op = "fetch" /\ s[i].path = path
                            /\ \A k \in 1..n : k > i => Mute(s[k], path)
      BY <1>8 DEF FetchLast, n
    <2>2. \A k \in 1..m : Mute(sent[k], path)
      BY ONLY <1>2, <1>8
    <2>3. \A k \in 1..Len(t) : k > i => Mute(t[k], path)
      BY ONLY <1>1, <2>1, <2>2
    <2> QED
      BY <1>1, <2>1, <2>3 DEF FetchLast
  <1> QED
    BY <1>3, <1>4, <1>5, <1>6, <1>7, <1>8 DEF t

LEMMA OrderHasAll ==
    ASSUME NEW S, IsFiniteSet(S)
    PROVE  /\ SetToSeq(S) \in Seq(S)
           /\ \A x \in S : \E i \in 1..Len(SetToSeq(S)) : SetToSeq(S)[i] = x
  <1>1. PICK n \in Nat : ExistsBijection(1..n, S)
    BY FS_NatBijection
  <1>2. Cardinality(S) = n
    BY <1>1, FS_CountingElements
  <1> DEFINE f == SetToSeq(S)
  <1>3. \E g \in [1..Cardinality(S) -> S] : IsInjective(g)
    BY <1>1, <1>2 DEF ExistsBijection, Bijection, Injection
  <1>4. f \in [1..n -> S] /\ IsInjective(f)
    BY <1>2, <1>3 DEF SetToSeq
  <1> HIDE DEF f
  <1>5. f \in Injection(1..n, S)
    BY <1>4 DEF Injection
  <1>6. Cardinality(1..n) = n
    BY FS_Interval
  <1>7. f \in Surjection(1..n, S)
    BY <1>2, <1>5, <1>6, FS_Injection
  <1>8. \A x \in S : \E i \in 1..n : f[i] = x
    BY <1>7 DEF Surjection
  <1>9. f \in Seq(S) /\ Len(f) = n
    BY <1>4
  <1> QED
    BY <1>8, <1>9 DEF f

LEMMA UploadParts ==
    ASSUME NEW path \in Paths, NEW name \in Names, NEW r,
           r = [op |-> "upload", path |-> path, to |-> <<"", name>>]
    PROVE  r.op = "upload" /\ r.path = path /\ r.to[2] = name /\ r \in Requests
  <1>1. [op |-> "upload", path |-> path, to |-> <<"", name>>]
            \in [op : {"upload"}, path : Paths, to : {""} \X Names]
    OBVIOUS
  <1>2. r \in Requests
    BY <1>1 DEF Requests
  <1> QED
    BY <1>2

LEMMA CheckInStep == ASSUME Types, Types', InStep, checkEditedFiles PROVE InStep'
  <1> DEFINE order == SetToSeq(Changed)
             sent == [i \in DOMAIN order |->
                 [op |-> "upload", path |-> order[i], to |-> <<"", pane.edited[order[i]].copy>>]]
             d == [path \in Paths |->
                      IF path \in Gone THEN NoEdit
                      ELSE IF path \in Changed THEN Editing("same", pane.edited[path].copy)
                      ELSE pane.edited[path]]
  <1>1. /\ pane \in PaneType /\ pane' \in PaneType /\ pane'.pendingEdit = pane.pendingEdit
        /\ UNCHANGED <<remote, local, job, cancelRequested, disturbed, failed, spent>>
    BY CheckedStill DEF Types, PaneHolds, checkEditedFiles, server, client
  <1>2. pane' = [pane EXCEPT !.edited = d, !.uploads = pane.uploads \o order,
                             !.req = pane.req \o sent]
    BY <1>1 DEF checkEditedFiles, PaneType
  <1>3. pane'.edited = d /\ pane'.req = pane.req \o sent
    <2> HIDE DEF d, sent, order
    <2> QED
      BY <1>1, <1>2 DEF PaneType
  <1>4. /\ order \in Seq(Changed)
        /\ \A path \in Changed : \E i \in 1..Len(order) : order[i] = path
    <2>1. IsFiniteSet(Paths)
      BY BoundsAssumption, FS_Product DEF Paths
    <2>2. IsFiniteSet(Changed)
      BY <2>1, FS_Subset DEF Changed
    <2> QED
      BY <2>2, OrderHasAll
  <1> HIDE DEF order, d
  <1>5. \A path \in Changed : path \in Paths /\ path \notin Gone /\ pane.edited[path].state # "no"
    BY DEF Changed
  <1>6. ASSUME NEW i \in 1..Len(order)
        PROVE  /\ sent[i].op = "upload" /\ sent[i].path = order[i]
               /\ sent[i].to[2] = pane.edited[order[i]].copy
               /\ sent[i] \in Requests
    <2>1. order[i] \in Paths /\ pane.edited[order[i]] \in Edits /\ pane.edited[order[i]].state # "no"
      BY <1>1, <1>4, <1>5 DEF PaneType
    <2> DEFINE copy == pane.edited[order[i]].copy
    <2>2. copy \in Names
      BY <2>1, EditParts
    <2>3. sent[i] = [op |-> "upload", path |-> order[i], to |-> <<"", copy>>]
      <3>1. DOMAIN order = 1..Len(order)
        BY <1>4
      <3>2. i \in DOMAIN order
        BY <3>1
      <3> QED
        BY <3>2
    <2> HIDE DEF copy, sent
    <2>4. order[i] \in Paths
      BY ONLY <2>1
    <2>5. /\ sent[i].op = "upload" /\ sent[i].path = order[i] /\ sent[i].to[2] = copy
          /\ sent[i] \in Requests
      BY ONLY <2>2, <2>3, <2>4, UploadParts, ZenonT(60)
    <2> QED
      BY ONLY <2>5 DEF copy
  <1>7. sent \in Seq(Requests) /\ Len(sent) = Len(order)
    <2>1. DOMAIN order = 1..Len(order) /\ Len(order) \in Nat
      BY <1>4
    <2>2. sent \in [1..Len(order) -> Requests]
      <3>1. sent = [i \in 1..Len(order) |-> sent[i]]
        BY <2>1
      <3> HIDE DEF sent
      <3> QED
        BY <1>6, <3>1
    <2> HIDE DEF sent
    <2> QED
      BY <2>1, <2>2
  <1> HIDE DEF sent
  <1>8. ASSUME NEW path \in Paths, pane.edited[path].state # "no" => pane.edited[path].copy = path[2]
        PROVE  /\ AllSpare(pane'.req, path) => AllSpare(pane.req, path)
               /\ Ahead(pane.req, path) \/ path \in Changed => Ahead(pane'.req, path)
               /\ OwnCopies(pane.req, path) => OwnCopies(pane'.req, path)
               /\ path \notin Changed =>
                     /\ Silent(pane.req, path) => Silent(pane'.req, path)
                     /\ FetchLast(pane.req, path) => FetchLast(pane'.req, path)
    <2> DEFINE C == Changed
    <2>1. pane.req \in Seq(Requests) /\ order \in Seq(C)
      BY <1>1, <1>4 DEF PaneType
    <2>2. \A i \in 1..Len(order) : /\ sent[i].op = "upload" /\ sent[i].path = order[i]
                                   /\ order[i] = path => sent[i].to[2] = path[2]
      BY <1>4, <1>5, <1>6, <1>8
    <2>3. path \in C => \E i \in 1..Len(order) : order[i] = path
      BY <1>4
    <2> HIDE DEF C
    <2>4. LET t == pane.req \o sent IN
           /\ AllSpare(t, path) => AllSpare(pane.req, path)
           /\ Ahead(pane.req, path) \/ path \in C => Ahead(t, path)
           /\ OwnCopies(pane.req, path) => OwnCopies(t, path)
           /\ path \notin C => /\ Silent(pane.req, path) => Silent(t, path)
                               /\ FetchLast(pane.req, path) => FetchLast(t, path)
      BY <1>7, <2>1, <2>2, <2>3, PostedAhead, SMTT(80)
    <2> QED
      BY <1>3, <2>4 DEF C
  <1>9. ASSUME NEW path \in Paths, Unspoilt(path)' PROVE AllSpare(pane.req, path)
    <2>1. AllSpare(pane'.req, path)
      BY <1>9 DEF Unspoilt
    <2> DEFINE n == Len(pane.req)
               t == pane.req \o sent
    <2>2. n \in Nat /\ Len(sent) \in Nat /\ pane.req \in Seq(Requests)
      BY <1>1, <1>7 DEF PaneType
    <2>3. /\ Len(t) = n + Len(sent)
          /\ \A i \in 1..(n + Len(sent)) : t[i] = IF i <= n THEN pane.req[i] ELSE sent[i - n]
      BY <1>7, <2>2, ConcatProperties
    <2>4. \A i \in 1..n : i \in 1..Len(t) /\ t[i] = pane.req[i]
      <3> HIDE DEF n, t
      <3> QED
        BY <2>2, <2>3
    <2>5. AllSpare(t, path)
      BY <1>3, <2>1
    <2> HIDE DEF t, n
    <2> QED
      BY <2>4, <2>5 DEF AllSpare, n
  <1>10. ASSUME NEW path \in Paths, Unspoilt(path)', Sound(path) PROVE Sound(path)'
    <2>1. /\ OwnCopies(pane'.req, path) /\ OwnCopy(job', path)
          /\ Ahead(pane.req, path) \/ path \in Changed => Ahead(pane'.req, path)
          /\ path \notin Changed =>
                     /\ Silent(pane.req, path) => Silent(pane'.req, path)
                     /\ FetchLast(pane.req, path) => FetchLast(pane'.req, path)
      BY <1>1, <1>8, <1>10 DEF Sound, Tracked
    <2>2. pane'.edited[path] = IF path \in Gone THEN NoEdit
                               ELSE IF path \in Changed THEN Editing("same", path[2])
                               ELSE pane.edited[path]
      BY <1>3, <1>5, <1>10 DEF d, Sound, Tracked
    <2>3. AsCopied(path)' = AsCopied(path) /\ job' = job
      BY <1>1 DEF AsCopied
    <2>4. Tracked(path)'
      <3>1. CASE path \in Gone
        <4>0. NoEdit.state = "no"
          BY DEF NoEdit
        <4>1. pane'.edited[path] = NoEdit
          BY <2>2, <3>1
        <4>2. pane'.edited[path].state = "no"
          BY <4>1, <4>0
        <4> QED
          BY <2>1, <4>2 DEF Tracked
      <3>2. CASE path \in Changed
        <4>1. pane'.edited[path] = Editing("same", path[2])
          BY <1>5, <2>2, <3>2
        <4> QED
          BY <2>1, <3>2, <4>1, EditingIs DEF Tracked
      <3>3. CASE path \notin Gone /\ path \notin Changed
        <4>1. pane'.edited[path] = pane.edited[path]
          BY <2>2, <3>3
        <4> QED
          BY <1>10, <2>1, <2>3, <4>1 DEF Sound, Tracked
      <3> QED
        BY <3>1, <3>2, <3>3
    <2>5. ASSUME pane'.pendingEdit = path PROVE pane'.edited[path].state = "no" /\ Awaited(path)'
      <3>1. pane.edited[path].state = "no" /\ Awaited(path)
        BY <1>1, <1>10, <2>5 DEF Sound
      <3>2. path \notin Gone /\ path \notin Changed
        BY <1>5, <3>1 DEF Gone
      <3>3. Awaited(path)'
        BY <2>1, <2>3, <3>1, <3>2 DEF Awaited
      <3> QED
        BY <2>2, <3>1, <3>2, <3>3
    <2> QED
      BY <2>4, <2>5 DEF Sound
  <1>11. \A path \in Paths : Unspoilt(path)' => Unspoilt(path)
    BY <1>1, <1>9 DEF Unspoilt
  <1>12. (Smooth' => Smooth) /\ (Smooth => ~cancelRequested')
    BY <1>1 DEF Smooth, InStep
  <1> QED
    BY <1>10, <1>11, <1>12, OtherInStep

-----------------------------------------------------------------------------
LEMMA StepInStep == ASSUME Types, Types', InStep, [Next]_vars PROVE InStep'
  <1>1. CASE OnSignal
    BY <1>1, SignalInStep
  <1>2. CASE checkEditedFiles
    BY <1>2, CheckInStep
  <1>3. CASE User
    <2>1. CASE Answer
      BY <2>1, AnswerInStep
    <2>2. CASE \E name \in Names : editRemoteFile(name)
      BY <2>2, EditInStep
    <2>3. CASE \E name \in Names : SaveInEditor(name)
      BY <2>3, SaveInStep
    <2>4. CASE cancelTransfers
      BY <2>4, CancelInStep
    <2>5. CASE \/ \E dir \in Dirs : Navigate(dir)
               \/ OpenDialog
               \/ \E names \in Batches(Names) : Drop(names) \/ startCrossTransfer(names)
      BY <2>5, StartingInStep
    <2> QED
      BY <1>3, <2>1, <2>2, <2>3, <2>4, <2>5 DEF User
  <1>4. CASE Client
    BY <1>4, SlotInStep, StartInStep, MoveInStep, EndInStep, BrokenInStep DEF Client
  <1>5. CASE Cross
    BY <1>5, CrossInStep
  <1>6. CASE UNCHANGED vars
    BY <1>6 DEF vars, server, client, history, InStep, Smooth, Unspoilt, Sound, Tracked, Awaited,
                AsCopied
  <1> QED
    BY <1>1, <1>2, <1>3, <1>4, <1>5, <1>6 DEF Next

(* As long as no call fails and nothing is cancelled, a file nobody took away  *)
(* or wrote over that is tracked and looks unchanged is on the server as its   *)
(* copy is here, or an upload or a fetch that ends the difference is to come.  *)
THEOREM EditsAreInStep == Spec => []InStep
  <1>1. Types /\ Types' /\ InStep /\ [Next]_vars => InStep'
    BY StepInStep
  <1> QED
    BY <1>1, InitInStep, TypesHold, PTL DEF Spec

LEMMA InStepIsSynced == ASSUME InStep PROVE SyncedWhenQuiet
  <1> SUFFICES ASSUME ~Underway, ~failed, spent["cancels"] = 0, NEW path \in Paths \ disturbed,
                      pane.edited[path].state = "same"
               PROVE  remote[path] = local[pane.edited[path].copy]
    BY DEF SyncedWhenQuiet
  <1>1. pane.req = <<>> /\ job = NoJob
    BY DEF Underway
  <1>2. AllSpare(pane.req, path) /\ ~Ahead(pane.req, path)
    BY <1>1 DEF AllSpare, Ahead
  <1>3. Tracked(path)
    BY <1>2 DEF InStep, Smooth, Unspoilt, Sound
  <1> QED
    BY <1>1, <1>2, <1>3, NoJobIsMute DEF Tracked, AsCopied

(* When nothing is under way and nothing has failed or was cancelled, what an  *)
(* editor saved into the temporary copy of a file that looks unchanged is what *)
(* the server has (checkEditedFiles, uploadFile, onDownloadedForEdit),         *)
(* whatever came between; except for files that were removed, renamed or       *)
(* written over.                                                               *)
THEOREM SavedEditsArrive == Spec => []SyncedWhenQuiet
  BY EditsAreInStep, InStepIsSynced, PTL
=============================================================================
