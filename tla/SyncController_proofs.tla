------------------------ MODULE SyncController_proofs ------------------------
(* Machine-checked proofs about SyncController, for any set of devices and any *)
(* bounds.  In the first part the payloads are opaque: nothing in it depends   *)
(* on what the snapshots hold, only on the order of requests, answers and user *)
(* actions.  The second part is about the merge of two snapshots alone.        *)
EXTENDS MCSyncTurns, FiniteSetTheorems, FunctionTheorems, SequenceTheorems, WellFoundedInduction, TLAPS

(* Sequences of at most one element, which is all the queues ever hold.        *)
LEMMA AppendToEmpty ==
    ASSUME NEW x
    PROVE  /\ Append(<<>>, x) = <<x>> /\ Len(<<x>>) = 1 /\ <<x>>[1] = x
           /\ Head(<<x>>) = x /\ Tail(<<x>>) = <<>> /\ <<x>> # <<>> /\ Len(<<>>) = 0
           /\ DOMAIN <<x>> = {1} /\ DOMAIN <<>> = {}
  OBVIOUS

-----------------------------------------------------------------------------
(* The inductive invariant.  The state of a device's exchange with its worker  *)
(* is one of three: nothing pending, one request queued, one answer posted.    *)

Idle(d) == pending[d] = "None" /\ req[d] = <<>> /\ ans[d] = <<>>

Requested(d) ==
    /\ pending[d] # "None" /\ ans[d] = <<>>
    /\ req[d] = <<req[d][1]>>
    /\ req[d][1].op = RequestOf(pending[d])
    /\ req[d][1].op = "Push" => req[d][1].body.rev = rev[d] + 1 /\ req[d][1].gist = gistId[d]

Answered(d) ==
    /\ pending[d] # "None" /\ req[d] = <<>>
    /\ ans[d] = <<ans[d][1]>>
    /\ ans[d][1].op = RequestOf(pending[d])

Exchange(d) == Idle(d) \/ Requested(d) \/ Answered(d)

(* What the connection state says about the pending operation and the timer.   *)
Connection(d) ==
    /\ state[d] = "Connecting" => pending[d] \in {"Create", "Join", "Pull"}
    /\ state[d] = "Disabled" => pending[d] = "None"
    /\ state[d] = "Active" => (polling[d] <=> ~paused[d])

DeviceInv(d) == Exchange(d) /\ Connection(d)

Shape ==
    /\ ControlTypeOK
    /\ DOMAIN req = Devices /\ DOMAIN ans = Devices
    /\ DOMAIN rev = Devices /\ DOMAIN gistId = Devices

IInv == Shape /\ \A d \in Devices : DeviceInv(d)

USE DEF States, Ops, NoGist

(* The program starts with every device idle and disabled.                     *)
THEOREM InitEstablishes == Init => IInv
  <1> SUFFICES ASSUME Init PROVE IInv
    OBVIOUS
  <1>1. Shape
    BY DEF Init, Shape, ControlTypeOK
  <1>2. \A d \in Devices : DeviceInv(d)
    BY DEF Init, DeviceInv, Exchange, Idle, Connection
  <1> QED
    BY <1>1, <1>2 DEF IInv

(* A step that touches nothing of device e keeps e's invariant.                *)
Untouched(e) ==
    /\ state'[e] = state[e] /\ pending'[e] = pending[e]
    /\ paused'[e] = paused[e] /\ polling'[e] = polling[e]
    /\ gistId'[e] = gistId[e] /\ rev'[e] = rev[e]
    /\ req'[e] = req[e] /\ ans'[e] = ans[e]

LEMMA UntouchedKeeps ==
    ASSUME NEW e \in Devices, Untouched(e), DeviceInv(e)
    PROVE  DeviceInv(e)'
  BY DEF Untouched, DeviceInv, Exchange, Idle, Requested, Answered, Connection, RequestOf

(* Queueing a request on an idle device, and posting or taking an answer.      *)
LEMMA Queued ==
    ASSUME NEW d \in Devices, Shape, Idle(d), NEW r,
           req' = [req EXCEPT ![d] = Append(@, r)]
    PROVE  req'[d] = <<r>> /\ req'[d][1] = r
  BY AppendToEmpty DEF Shape, Idle

LEMMA Taken ==
    ASSUME NEW d \in Devices, Shape, Exchange(d), NEW op, NEW ok, NEW awaited,
           Receive(d, op, ok, awaited)
    PROVE  Answered(d) /\ ans'[d] = <<>>
  BY AppendToEmpty DEF Shape, Exchange, Idle, Requested, Answered, Receive

(* push() and flushQueuedPush leave a consistent exchange behind.              *)
LEMMA UploadQueues ==
    ASSUME NEW d \in Devices, Shape, req[d] = <<>>, UploadSnapshot(d), 
           ans'[d] = <<>>, gistId'[d] = gistId[d]
    PROVE  Requested(d)' /\ pending'[d] = "Push"
  <1> DEFINE r == Request("Push", gistId[d], Framed(d, rev'[d] + 1, Local(d)'))
  <1>1. r.op = "Push" /\ r.gist = gistId[d] /\ r.body.rev = rev'[d] + 1
    BY DEF Request, Framed
  <1>2. req'[d] = <<r>> /\ req'[d][1] = r /\ pending'[d] = "Push"
    <2> HIDE DEF r
    <2> QED
      BY AppendToEmpty DEF UploadSnapshot, Shape, ControlTypeOK, r
  <1> HIDE DEF r
  <1> QED
    BY <1>1, <1>2 DEF Requested, RequestOf

LEMMA FlushKeepsExchange ==
    ASSUME NEW d \in Devices, Shape, Answered(d), NEW want, FlushQueuedPush(d, want),
           ans'[d] = <<>>, gistId'[d] = gistId[d]
    PROVE  Exchange(d)' /\ pending'[d] \in {"None", "Push"}
  <1>1. CASE UploadSnapshot(d)
    BY <1>1, UploadQueues DEF Answered, Exchange
  <1>2. CASE pending' = [pending EXCEPT ![d] = "None"] /\ UNCHANGED req
    BY <1>2 DEF Answered, Exchange, Idle, Shape, ControlTypeOK
  <1> QED
    BY <1>1, <1>2 DEF FlushQueuedPush

-----------------------------------------------------------------------------
(* One lemma per action.                                                       *)

LEMMA CreateSyncPreserves ==
    ASSUME IInv, NEW d \in Devices, CreateSync(d)
    PROVE  IInv'
  <1> DEFINE r == Request("Create", NoGist, Framed(d, 1, Local(d)))
  <1>1. Shape'
    BY DEF IInv, Shape, ControlTypeOK, CreateSync
  <1>2. \A e \in Devices \ {d} : Untouched(e)
    BY DEF IInv, Shape, ControlTypeOK, CreateSync, Untouched
  <1>3. Exchange(d)'
    <2>1. Idle(d)
      BY DEF IInv, DeviceInv, Exchange, Idle, Requested, Answered, CreateSync
    <2>2. req'[d] = <<r>> /\ req'[d][1] = r
      <3> HIDE DEF r
      <3> QED
      BY <2>1, Queued DEF IInv, CreateSync, r
    <2>3. pending'[d] = "Create" /\ ans'[d] = <<>> /\ r.op = "Create"
      BY <2>1 DEF IInv, Shape, ControlTypeOK, CreateSync, Idle, Request
    <2> QED
      BY <2>2, <2>3 DEF Exchange, Requested, RequestOf
  <1>4. Connection(d)'
    BY DEF IInv, Shape, ControlTypeOK, CreateSync, Connection
  <1> QED
    BY <1>1, <1>2, <1>3, <1>4, UntouchedKeeps DEF IInv, DeviceInv
LEMMA JoinSyncPreserves ==
    ASSUME IInv, NEW d \in Devices, JoinSync(d)
    PROVE  IInv'
  <1>1. PICK g \in DOMAIN gist : BeginJoin(d, g, FALSE)
    BY DEF JoinSync
  <1> DEFINE r == Request("Pull", g, NoBody)
  <1>2. Shape'
    BY <1>1 DEF IInv, Shape, ControlTypeOK, JoinSync, BeginJoin
  <1>3. \A e \in Devices \ {d} : Untouched(e)
    BY <1>1 DEF IInv, Shape, ControlTypeOK, JoinSync, BeginJoin, Untouched
  <1>4. Exchange(d)'
    <2>1. Idle(d)
      BY DEF IInv, DeviceInv, Exchange, Idle, Requested, Answered, JoinSync
    <2>2. req'[d] = <<r>> /\ req'[d][1] = r
      <3> HIDE DEF r
      <3> QED
        BY <1>1, <2>1, Queued DEF IInv, BeginJoin, r
    <2>3. pending'[d] = "Join" /\ ans'[d] = <<>> /\ r.op = "Pull"
      BY <1>1, <2>1 DEF IInv, Shape, ControlTypeOK, JoinSync, BeginJoin, Idle, Request
    <2> QED
      BY <2>2, <2>3 DEF Exchange, Requested, RequestOf
  <1>5. Connection(d)'
    BY <1>1 DEF IInv, Shape, ControlTypeOK, JoinSync, BeginJoin, Connection
  <1> QED
    BY <1>2, <1>3, <1>4, <1>5, UntouchedKeeps DEF IInv, DeviceInv

LEMMA UncheckEnabledPreserves ==
    ASSUME IInv, NEW d \in Devices, UncheckEnabled(d)
    PROVE  IInv'
  <1>1. Shape'
    BY DEF IInv, Shape, ControlTypeOK, UncheckEnabled, messages
  <1>2. \A e \in Devices \ {d} : Untouched(e)
    BY DEF IInv, Shape, ControlTypeOK, UncheckEnabled, Untouched, messages
  <1>3. Exchange(d)'
    BY DEF IInv, DeviceInv, UncheckEnabled, messages, Exchange, Idle, Requested, Answered, RequestOf
  <1>4. Connection(d)'
    BY DEF IInv, DeviceInv, Shape, ControlTypeOK, UncheckEnabled, Connection
  <1> QED
    BY <1>1, <1>2, <1>3, <1>4, UntouchedKeeps DEF IInv, DeviceInv

LEMMA CheckEnabledPreserves ==
    ASSUME IInv, NEW d \in Devices, CheckEnabled(d)
    PROVE  IInv'
  <1>1. CASE BeginJoin(d, savedKey[d], TRUE) /\ state[d] = "Disabled"
    <2> DEFINE r == Request("Pull", savedKey[d], NoBody)
    <2>1. Shape'
      BY <1>1 DEF IInv, Shape, ControlTypeOK, CheckEnabled, BeginJoin
    <2>2. \A e \in Devices \ {d} : Untouched(e)
      BY <1>1 DEF IInv, Shape, ControlTypeOK, CheckEnabled, BeginJoin, Untouched
    <2>3. Exchange(d)'
      <3>1. Idle(d)
        BY <1>1 DEF IInv, DeviceInv, Exchange, Connection, Idle, Requested, Answered
      <3>2. req'[d] = <<r>> /\ req'[d][1] = r
        <4> HIDE DEF r
        <4> QED
          BY <1>1, <3>1, Queued DEF IInv, BeginJoin, r
      <3>3. pending'[d] = "Pull" /\ ans'[d] = <<>> /\ r.op = "Pull"
        BY <1>1, <3>1 DEF IInv, Shape, ControlTypeOK, CheckEnabled, BeginJoin, Idle, Request
      <3> QED
        BY <3>2, <3>3 DEF Exchange, Requested, RequestOf
    <2>4. Connection(d)'
      BY <1>1 DEF IInv, Shape, ControlTypeOK, CheckEnabled, BeginJoin, Connection
    <2> QED
      BY <2>1, <2>2, <2>3, <2>4, UntouchedKeeps DEF IInv, DeviceInv
  <1>2. CASE UNCHANGED <<state, pending, gistId, rev, req>>
    <2>1. Shape'
      BY <1>2 DEF IInv, Shape, ControlTypeOK, CheckEnabled
    <2>2. \A e \in Devices \ {d} : Untouched(e)
      BY <1>2 DEF IInv, Shape, ControlTypeOK, CheckEnabled, Untouched
    <2>3. Exchange(d)'
      BY <1>2 DEF IInv, DeviceInv, CheckEnabled, Exchange, Idle, Requested, Answered, RequestOf
    <2>4. Connection(d)'
      BY <1>2 DEF IInv, DeviceInv, Shape, ControlTypeOK, CheckEnabled, Connection
    <2> QED
      BY <2>1, <2>2, <2>3, <2>4, UntouchedKeeps DEF IInv, DeviceInv
  <1> QED
    BY <1>1, <1>2 DEF CheckEnabled

LEMMA DisableSyncPreserves ==
    ASSUME IInv, NEW d \in Devices, DisableSync(d)
    PROVE  IInv'
  <1>1. Shape'
    BY DEF IInv, Shape, ControlTypeOK, DisableSync
  <1>2. \A e \in Devices \ {d} : Untouched(e)
    BY DEF IInv, Shape, ControlTypeOK, DisableSync, Untouched
  <1>3. Exchange(d)' /\ Connection(d)'
    BY DEF IInv, Shape, ControlTypeOK, DisableSync, Exchange, Idle, Connection
  <1> QED
    BY <1>1, <1>2, <1>3, UntouchedKeeps DEF IInv, DeviceInv

LEMMA RestartPreserves ==
    ASSUME IInv, NEW d \in Devices, Restart(d)
    PROVE  IInv'
  <1> DEFINE r == Request("Pull", savedKey[d], NoBody)
             reconnect == enabled[d] /\ savedKey[d] # NoGist
  <1>1. Shape'
    <2> HIDE DEF reconnect
    <2>1. /\ state' = [state EXCEPT ![d] = IF reconnect THEN "Connecting" ELSE "Disabled"]
          /\ pending' = [pending EXCEPT ![d] = IF reconnect THEN "Pull" ELSE "None"]
      BY DEF Restart, reconnect
    <2>2. state' \in [Devices -> States] /\ pending' \in [Devices -> Ops \cup {"None"}]
      BY <2>1 DEF IInv, Shape, ControlTypeOK
    <2>3. /\ paused' \in [Devices -> BOOLEAN] /\ polling' \in [Devices -> BOOLEAN]
          /\ pushQueued' \in [Devices -> BOOLEAN] /\ syncNowQueued' \in [Devices -> BOOLEAN]
          /\ debounce' \in [Devices -> BOOLEAN] /\ enabled' \in [Devices -> BOOLEAN]
      BY DEF IInv, Shape, ControlTypeOK, Restart, settings
    <2>4. /\ DOMAIN req' = Devices /\ DOMAIN ans' = Devices
          /\ DOMAIN rev' = Devices /\ DOMAIN gistId' = Devices
      BY DEF IInv, Shape, Restart
    <2> QED
      BY <2>2, <2>3, <2>4 DEF Shape, ControlTypeOK
  <1>2. \A e \in Devices \ {d} : Untouched(e)
    BY DEF IInv, Shape, ControlTypeOK, Restart, Untouched
  <1>3. /\ req'[d] = IF reconnect THEN <<r>> ELSE <<>>
        /\ pending'[d] = IF reconnect THEN "Pull" ELSE "None"
        /\ ans'[d] = <<>>
    BY DEF IInv, Shape, ControlTypeOK, Restart
  <1>4. r.op = "Pull"
    BY DEF Request
  <1>5. Exchange(d)'
    <2> HIDE DEF r, reconnect
    <2> QED
      BY <1>3, <1>4, AppendToEmpty DEF Exchange, Idle, Requested, RequestOf
  <1>6. Connection(d)'
    BY DEF IInv, Shape, ControlTypeOK, Restart, Connection
  <1> QED
    BY <1>1, <1>2, <1>5, <1>6, UntouchedKeeps DEF IInv, DeviceInv
LEMMA SyncNowPreserves ==
    ASSUME IInv, NEW d \in Devices, SyncNow(d)
    PROVE  IInv'
  <1>1. Shape'
    BY DEF IInv, Shape, ControlTypeOK, SyncNow, PullNow, settings
  <1>2. \A e \in Devices \ {d} : Untouched(e)
    BY DEF IInv, Shape, ControlTypeOK, SyncNow, PullNow, Untouched
  <1>3. Exchange(d)'
    <2>1. CASE PullNow(d) /\ pending[d] = "None"
      <3> DEFINE r == Request("Pull", gistId[d], NoBody)
      <3>1. Idle(d)
        BY <2>1 DEF IInv, DeviceInv, Exchange, Idle, Requested, Answered
      <3>2. req'[d] = <<r>> /\ req'[d][1] = r
        <4> HIDE DEF r
        <4> QED
          BY <2>1, <3>1, Queued DEF IInv, PullNow, r
      <3>3. pending'[d] = "Pull" /\ ans'[d] = <<>> /\ r.op = "Pull"
        BY <2>1, <3>1 DEF IInv, Shape, ControlTypeOK, SyncNow, PullNow, Idle, Request
      <3> QED
        BY <3>2, <3>3 DEF Exchange, Requested, RequestOf
    <2>2. CASE UNCHANGED <<pending, req>>
      BY <2>2 DEF IInv, DeviceInv, SyncNow, Exchange, Idle, Requested, Answered, RequestOf
    <2> QED
      BY <2>1, <2>2 DEF SyncNow
  <1>4. Connection(d)'
    BY DEF IInv, DeviceInv, Shape, ControlTypeOK, SyncNow, PullNow, Connection
  <1> QED
    BY <1>1, <1>2, <1>3, <1>4, UntouchedKeeps DEF IInv, DeviceInv

LEMMA PollTickPreserves ==
    ASSUME IInv, NEW d \in Devices, PollTick(d)
    PROVE  IInv'
  <1> DEFINE r == Request("Pull", gistId[d], NoBody)
  <1>1. Shape'
    BY DEF IInv, Shape, ControlTypeOK, PollTick, PullNow, settings
  <1>2. \A e \in Devices \ {d} : Untouched(e)
    BY DEF IInv, Shape, ControlTypeOK, PollTick, PullNow, Untouched
  <1>3. Exchange(d)'
    <2>1. Idle(d)
      BY DEF IInv, DeviceInv, Exchange, Idle, Requested, Answered, PollTick
    <2>2. req'[d] = <<r>> /\ req'[d][1] = r
      <3> HIDE DEF r
      <3> QED
        BY <2>1, Queued DEF IInv, PollTick, PullNow, r
    <2>3. pending'[d] = "Pull" /\ ans'[d] = <<>> /\ r.op = "Pull"
      BY <2>1 DEF IInv, Shape, ControlTypeOK, PollTick, PullNow, Idle, Request
    <2> QED
      BY <2>2, <2>3 DEF Exchange, Requested, RequestOf
  <1>4. Connection(d)'
    BY DEF IInv, DeviceInv, Shape, ControlTypeOK, PollTick, PullNow, CanTransfer, Connection
  <1> QED
    BY <1>1, <1>2, <1>3, <1>4, UntouchedKeeps DEF IInv, DeviceInv

(* The two callers of pushNow: the debounce timer and the notes page.          *)
LEMMA PushNowPreserves ==
    ASSUME IInv, NEW d \in Devices, PushNow(d),
           debounce' \in [Devices -> BOOLEAN],
           UNCHANGED <<state, paused, polling, gistId, rev, syncNowQueued, ans, enabled>>
    PROVE  IInv'
  <1>1. Shape'
    BY DEF IInv, Shape, ControlTypeOK, PushNow, UploadSnapshot
  <1>2. \A e \in Devices \ {d} : Untouched(e)
    BY DEF IInv, Shape, ControlTypeOK, PushNow, UploadSnapshot, Untouched
  <1>3. Exchange(d)' /\ Connection(d)'
    <2>1. CASE state[d] = "Active" /\ pending[d] = "None" /\ UploadSnapshot(d)
      <3>1. Idle(d)
        BY <2>1 DEF IInv, DeviceInv, Exchange, Idle, Requested, Answered
      <3>2. Requested(d)'
        BY <2>1, <3>1, UploadQueues DEF IInv, Idle
      <3> QED
        BY <2>1, <3>2 DEF IInv, DeviceInv, Exchange, Connection
    <2>2. CASE UNCHANGED <<pending, req>>
      BY <2>2 DEF IInv, DeviceInv, Exchange, Idle, Requested, Answered, RequestOf, Connection
    <2> QED
      BY <2>1, <2>2 DEF PushNow
  <1> QED
    BY <1>1, <1>2, <1>3, UntouchedKeeps DEF IInv, DeviceInv

LEMMA DebounceFiresPreserves ==
    ASSUME IInv, NEW d \in Devices, DebounceFires(d)
    PROVE  IInv'
  BY PushNowPreserves DEF DebounceFires, IInv, Shape, ControlTypeOK, settings

LEMMA SaveNotesPreserves ==
    ASSUME IInv, NEW d \in Devices, SaveNotes(d)
    PROVE  IInv'
  BY PushNowPreserves DEF SaveNotes, IInv, Shape, ControlTypeOK, settings

(* Edits of profiles, keys and notes leave the exchange alone.                 *)
LEMMA EditsPreserve ==
    ASSUME IInv, NEW d \in Devices,
           AddProfile(d) \/ EditProfile(d) \/ DeleteProfile(d) \/ AddKey(d) \/ DeleteKey(d) \/ TypeNotes(d)
    PROVE  IInv'
  <1>1. /\ UNCHANGED <<state, pending, paused, polling, gistId, rev, pushQueued,
                       syncNowQueued, req, ans, enabled>>
        /\ debounce' \in [Devices -> BOOLEAN]
    BY DEF IInv, Shape, ControlTypeOK, AddProfile, EditProfile, DeleteProfile, AddKey, DeleteKey,
           TypeNotes, SaveProfiles, SaveKeys, control, messages, settings
  <1>2. Shape'
    BY <1>1 DEF IInv, Shape, ControlTypeOK
  <1>3. \A e \in Devices : Untouched(e)
    BY <1>1 DEF Untouched
  <1> QED
    BY <1>2, <1>3, UntouchedKeeps DEF IInv
(* The worker: a queued request becomes a posted answer of the same kind.      *)
LEMMA PostedPreserves ==
    ASSUME IInv, NEW d \in Devices, req[d] # <<>>, NEW a, a.op = Head(req[d]).op, Posted(d, a)
    PROVE  IInv'
  <1>1. Shape'
    BY DEF IInv, Shape, ControlTypeOK, Posted, control, settings
  <1>2. \A e \in Devices \ {d} : Untouched(e)
    BY DEF IInv, Shape, ControlTypeOK, Posted, control, Untouched
  <1>3. Exchange(d)'
    <2>1. Requested(d)
      BY DEF IInv, DeviceInv, Exchange, Idle, Answered
    <2>2. Head(req[d]) = req[d][1] /\ Tail(req[d]) = <<>>
      BY <2>1, AppendToEmpty, ZenonT(60) DEF Requested
    <2>3. req'[d] = <<>> /\ ans'[d] = <<a>> /\ ans'[d][1] = a /\ pending'[d] = pending[d]
      BY <2>1, <2>2, AppendToEmpty DEF IInv, Shape, Posted, Requested, control
    <2> QED
      BY <2>1, <2>2, <2>3 DEF Requested, Answered, Exchange, RequestOf
  <1>4. Connection(d)'
    BY DEF IInv, DeviceInv, Posted, control, Connection
  <1> QED
    BY <1>1, <1>2, <1>3, <1>4, UntouchedKeeps DEF IInv, DeviceInv

LEMMA WorkerPreserves ==
    ASSUME IInv, NEW d \in Devices, Worker(d)
    PROVE  IInv'
  <1>1. PICK a : a.op = Head(req[d]).op /\ Posted(d, a)
    <2>1. CASE ServeCreate(d)
      BY <2>1 DEF ServeCreate, Answer
    <2>2. CASE ServePush(d)
      BY <2>2 DEF ServePush, Answer
    <2>3. CASE ServePull(d)
      BY <2>3 DEF ServePull, Answer
    <2> QED
      BY <2>1, <2>2, <2>3 DEF Worker
  <1> QED
    BY <1>1, PostedPreserves DEF Worker, ServeCreate, ServePush, ServePull

(* The result handlers.                                                        *)
LEMMA OnCreateFinishedPreserves ==
    ASSUME IInv, NEW d \in Devices, OnCreateFinished(d) \/ OnCreateFailed(d)
    PROVE  IInv'
  <1>1. Shape'
    <2>1. CASE OnCreateFinished(d)
      <3>1. ControlTypeOK'
        BY <2>1 DEF IInv, Shape, ControlTypeOK, OnCreateFinished, BecomeActive
      <3>2. DOMAIN req' = DOMAIN req /\ DOMAIN ans' = DOMAIN ans
        BY <2>1 DEF OnCreateFinished, Receive
      <3>3. DOMAIN rev' = DOMAIN rev /\ DOMAIN gistId' = DOMAIN gistId
        BY <2>1 DEF OnCreateFinished
      <3> QED
        BY <3>1, <3>2, <3>3 DEF IInv, Shape
    <2>2. CASE OnCreateFailed(d)
      <3>1. ControlTypeOK'
        BY <2>2 DEF IInv, Shape, ControlTypeOK, OnCreateFailed, settings
      <3>2. DOMAIN req' = DOMAIN req /\ DOMAIN ans' = DOMAIN ans
        BY <2>2 DEF OnCreateFailed, Receive
      <3> QED
        BY <2>2, <3>1, <3>2 DEF IInv, Shape, OnCreateFailed
    <2> QED
      BY <2>1, <2>2
  <1>2. \A e \in Devices \ {d} : Untouched(e)
    BY DEF IInv, Shape, ControlTypeOK, OnCreateFinished, OnCreateFailed, Receive, BecomeActive, Untouched
  <1>3. Exchange(d)'
    <2>1. Answered(d) /\ ans'[d] = <<>>
      BY Taken DEF IInv, DeviceInv, OnCreateFinished, OnCreateFailed
    <2> QED
      BY <2>1 DEF IInv, Shape, ControlTypeOK, OnCreateFinished, OnCreateFailed, Answered, Exchange, Idle
  <1>4. Connection(d)'
    BY ZenonT(60) DEF IInv, DeviceInv, Shape, ControlTypeOK, OnCreateFinished, OnCreateFailed, BecomeActive, Connection
  <1> QED
    BY <1>1, <1>2, <1>3, <1>4, UntouchedKeeps DEF IInv, DeviceInv

LEMMA OnPushFinishedPreserves ==
    ASSUME IInv, NEW d \in Devices, OnPushFinished(d)
    PROVE  IInv'
  <1>1. PICK ok \in BOOLEAN :
           /\ Receive(d, "Push", ok, {"Push"})
           /\ rev' = [rev EXCEPT ![d] = IF ok THEN @ + 1 ELSE @]
           /\ UNCHANGED <<state, paused, polling, gistId, debounce, enabled>>
           /\ FlushQueuedPush(d, syncNowQueued[d] \/ pushQueued[d])
    BY DEF OnPushFinished
  <1>2. Answered(d) /\ ans'[d] = <<>> /\ pending[d] = "Push"
    BY <1>1, Taken DEF IInv, DeviceInv, Receive
  <1>3. Shape'
    BY <1>1 DEF IInv, Shape, ControlTypeOK, Receive, FlushQueuedPush, UploadSnapshot
  <1>4. \A e \in Devices \ {d} : Untouched(e)
    BY <1>1 DEF IInv, Shape, ControlTypeOK, Receive, FlushQueuedPush, UploadSnapshot, Untouched
  <1>5. Exchange(d)' /\ pending'[d] \in {"None", "Push"}
    BY <1>1, <1>2, FlushKeepsExchange DEF IInv
  <1>6. Connection(d)'
    BY <1>1, <1>2, <1>5 DEF IInv, DeviceInv, Shape, ControlTypeOK, Connection
  <1> QED
    BY <1>3, <1>4, <1>5, <1>6, UntouchedKeeps DEF IInv, DeviceInv

LEMMA OnPullFailedPreserves ==
    ASSUME IInv, NEW d \in Devices, OnPullFailed(d)
    PROVE  IInv'
  <1>1. Shape'
    BY DEF IInv, Shape, ControlTypeOK, OnPullFailed, Receive, settings
  <1>2. \A e \in Devices \ {d} : Untouched(e)
    BY DEF IInv, Shape, ControlTypeOK, OnPullFailed, Receive, Untouched
  <1>3. Exchange(d)'
    <2>1. Answered(d) /\ ans'[d] = <<>>
      BY Taken DEF IInv, DeviceInv, OnPullFailed
    <2> QED
      BY <2>1 DEF IInv, Shape, ControlTypeOK, OnPullFailed, Answered, Exchange, Idle
  <1>4. Connection(d)'
    BY DEF IInv, DeviceInv, Shape, ControlTypeOK, OnPullFailed, Connection
  <1> QED
    BY <1>1, <1>2, <1>3, <1>4, UntouchedKeeps DEF IInv, DeviceInv

(* Whatever the download does to the data, only the revision of d may change.  *)
LEMMA ReconcileTouchesRevision ==
    ASSUME IInv, NEW d \in Devices, NEW r, NEW joining, NEW ok, NEW wants,
           ReconcileFromRemote(d, r, joining, ok, wants)
    PROVE  DOMAIN rev' = Devices /\ \A e \in Devices \ {d} : rev'[e] = rev[e]
  <1>1. CASE AdoptRevision(d, r)
    BY <1>1 DEF AdoptRevision, IInv, Shape
  <1>2. CASE UNCHANGED rev
    BY <1>2 DEF IInv, Shape
  <1> QED
    BY <1>1, <1>2 DEF ReconcileFromRemote, KeepLocal, MergeOnJoin, HealDuplicates, ApplyNewer

LEMMA OnPullFinishedPreserves ==
    ASSUME IInv, NEW d \in Devices, OnPullFinished(d)
    PROVE  IInv'
  <1>1. PICK ok, wants, want, joining :
           /\ Receive(d, "Pull", TRUE, {"Pull", "Join"})
           /\ ReconcileFromRemote(d, Head(ans[d]).body, joining, ok, wants)
           /\ IF state[d] = "Connecting"
                THEN BecomeActive(d, gistId[d])
                ELSE UNCHANGED <<state, savedKey, enabled, polling>>
           /\ UNCHANGED <<paused, gistId, debounce>>
           /\ FlushQueuedPush(d, want)
    BY DEF OnPullFinished
  <1>2. Answered(d) /\ ans'[d] = <<>> /\ pending[d] \in {"Pull", "Join"}
    BY <1>1, Taken DEF IInv, DeviceInv, Receive
  <1>3. DOMAIN rev' = Devices /\ \A e \in Devices \ {d} : rev'[e] = rev[e]
    BY <1>1, ReconcileTouchesRevision
  <1>4. Shape'
    BY <1>1, <1>3 DEF IInv, Shape, ControlTypeOK, Receive, BecomeActive, FlushQueuedPush, UploadSnapshot
  <1>5. \A e \in Devices \ {d} : Untouched(e)
    BY <1>1, <1>3 DEF IInv, Shape, ControlTypeOK, Receive, BecomeActive, FlushQueuedPush,
                      UploadSnapshot, Untouched
  <1>6. Exchange(d)' /\ pending'[d] \in {"None", "Push"}
    BY <1>1, <1>2, FlushKeepsExchange DEF IInv
  <1>7. Connection(d)'
    <2>1. state'[d] = "Active" /\ (polling'[d] <=> ~paused'[d])
      BY <1>1, <1>2, ZenonT(60) DEF IInv, DeviceInv, Shape, ControlTypeOK, Connection, BecomeActive
    <2> QED
      BY <2>1 DEF Connection
  <1> QED
    BY <1>4, <1>5, <1>6, <1>7, UntouchedKeeps DEF IInv, DeviceInv

-----------------------------------------------------------------------------
LEMMA StutterPreserves ==
    ASSUME IInv, UNCHANGED vars
    PROVE  IInv'
  <1>1. Shape' /\ \A e \in Devices : Untouched(e)
    BY DEF IInv, Shape, ControlTypeOK, Untouched, vars, control, messages, settings
  <1> QED
    BY <1>1, UntouchedKeeps DEF IInv

(* No step of the user, a worker, a handler, a timer or a restart breaks IInv. *)
THEOREM NextPreserves == IInv /\ [Next]_vars => IInv'
  <1> SUFFICES ASSUME IInv, [Next]_vars PROVE IInv'
    OBVIOUS
  <1>1. CASE UNCHANGED vars
    BY <1>1, StutterPreserves
  <1>2. ASSUME NEW d \in Devices, User(d) PROVE IInv'
    BY <1>2, CreateSyncPreserves, JoinSyncPreserves, DisableSyncPreserves, UncheckEnabledPreserves,
       CheckEnabledPreserves, SyncNowPreserves, EditsPreserve DEF User
  <1>3. ASSUME NEW d \in Devices, Worker(d) PROVE IInv'
    BY <1>3, WorkerPreserves
  <1>4. ASSUME NEW d \in Devices, Handler(d) PROVE IInv'
    BY <1>4, OnCreateFinishedPreserves, OnPushFinishedPreserves, OnPullFinishedPreserves,
       OnPullFailedPreserves DEF Handler
  <1>5. ASSUME NEW d \in Devices, Timer(d) \/ Restart(d) PROVE IInv'
    BY <1>5, PollTickPreserves, DebounceFiresPreserves, SaveNotesPreserves, RestartPreserves DEF Timer
  <1> QED
    BY <1>1, <1>2, <1>3, <1>4, <1>5 DEF Next

(* The inductive invariant holds of every reachable state.                     *)
THEOREM Invariance == Spec => []IInv
  BY InitEstablishes, NextPreserves, PTL DEF Spec

(* The control variables of every device keep their types.                     *)
THEOREM ControlTypeCorrect == Spec => []ControlTypeOK
  <1>1. IInv => ControlTypeOK
    BY DEF IInv, Shape
  <1> QED
    BY <1>1, Invariance, PTL

(* At most one request of a device is queued, served or answered at a time,    *)
(* and m_pending names it; a connecting device is never without one.           *)
THEOREM OneOperation == Spec => []OneOperationAtATime
  <1>1. IInv => OneOperationAtATime
    <2> SUFFICES ASSUME IInv, NEW d \in Devices
                 PROVE  /\ Len(req[d]) + Len(ans[d]) = (IF pending[d] = "None" THEN 0 ELSE 1)
                        /\ \A i \in DOMAIN req[d] : req[d][i].op = RequestOf(pending[d])
                        /\ \A i \in DOMAIN ans[d] : ans[d][i].op = RequestOf(pending[d])
                        /\ state[d] = "Connecting" => pending[d] \in {"Create", "Join", "Pull"}
                        /\ state[d] = "Disabled" => pending[d] = "None"
      BY DEF OneOperationAtATime
    <2>1. Exchange(d) /\ Connection(d)
      BY DEF IInv, DeviceInv
    <2>2. CASE Idle(d)
      BY <2>1, <2>2, AppendToEmpty DEF Idle, Connection
    <2>3. CASE Requested(d)
      <3>1. Len(<<req[d][1]>>) = 1 /\ DOMAIN <<req[d][1]>> = {1} /\ Len(<<>>) = 0 /\ DOMAIN <<>> = {}
        BY AppendToEmpty
      <3>2. Len(req[d]) = 1 /\ DOMAIN req[d] = {1} /\ Len(ans[d]) = 0 /\ DOMAIN ans[d] = {}
        BY <2>3, <3>1 DEF Requested
      <3> QED
        BY <2>1, <2>3, <3>2 DEF Requested, Connection
    <2>4. CASE Answered(d)
      <3>1. Len(<<ans[d][1]>>) = 1 /\ DOMAIN <<ans[d][1]>> = {1} /\ Len(<<>>) = 0 /\ DOMAIN <<>> = {}
        BY AppendToEmpty
      <3>2. Len(ans[d]) = 1 /\ DOMAIN ans[d] = {1} /\ Len(req[d]) = 0 /\ DOMAIN req[d] = {}
        BY <2>4, <3>1 DEF Answered
      <3> QED
        BY <2>1, <2>4, <3>2 DEF Answered, Connection
    <2> QED
      BY <2>1, <2>2, <2>3, <2>4 DEF Exchange
  <1> QED
    BY <1>1, Invariance, PTL

(* A device that is Active and not paused polls, and only such a device.       *)
THEOREM PollsWhileActive == Spec => []ActivePolls
  <1>1. IInv => ActivePolls
    BY DEF IInv, DeviceInv, Connection, ActivePolls
  <1> QED
    BY <1>1, Invariance, PTL

(* An upload in flight still carries the successor of the known revision.      *)
THEOREM PushRevision == Spec => []PushCarriesNextRevision
  <1>1. IInv => PushCarriesNextRevision
    <2> SUFFICES ASSUME IInv, NEW d \in Devices, NEW i \in DOMAIN req[d], req[d][i].op = "Push"
                 PROVE  req[d][i].body.rev = rev[d] + 1 /\ req[d][i].gist = gistId[d]
      BY DEF PushCarriesNextRevision
    <2>1. Exchange(d)
      BY DEF IInv, DeviceInv
    <2>2. CASE req[d] = <<>>
      BY <2>2, AppendToEmpty
    <2>3. CASE Requested(d)
      <3>1. DOMAIN <<req[d][1]>> = {1}
        BY AppendToEmpty
      <3>2. i = 1
        BY <2>3, <3>1 DEF Requested
      <3> QED
        BY <2>3, <3>2 DEF Requested
    <2> QED
      BY <2>1, <2>2, <2>3 DEF Exchange, Idle, Answered
  <1> QED
    BY <1>1, Invariance, PTL

-----------------------------------------------------------------------------
(* Pausing.  The step of a device that stays paused leaves the queue of every  *)
(* paused device as it is or empties it; one lemma per group of actions.       *)
Quiet(e) == paused[e] /\ paused'[e] => req'[e] = req[e] \/ req'[e] = <<>>

LEMMA UserKeepsQuiet ==
    ASSUME IInv, NEW d \in Devices, User(d), NEW e \in Devices
    PROVE  Quiet(e)
  <1>1. CASE CreateSync(d)
    BY <1>1 DEF CreateSync, Quiet, IInv, Shape, ControlTypeOK
  <1>2. CASE JoinSync(d)
    BY <1>2 DEF JoinSync, BeginJoin, Quiet, IInv, Shape, ControlTypeOK
  <1>3. CASE DisableSync(d)
    BY <1>3 DEF DisableSync, Quiet, IInv, Shape, ControlTypeOK
  <1>4. CASE UncheckEnabled(d)
    BY <1>4 DEF UncheckEnabled, messages, Quiet
  <1>5. CASE CheckEnabled(d)
    BY <1>5 DEF CheckEnabled, BeginJoin, Quiet, IInv, Shape, ControlTypeOK
  <1>6. CASE SyncNow(d)
    BY <1>6 DEF SyncNow, PullNow, CanTransfer, Quiet, IInv, Shape, ControlTypeOK
  <1>7. CASE AddProfile(d) \/ EditProfile(d) \/ DeleteProfile(d)
    BY <1>7 DEF AddProfile, EditProfile, DeleteProfile, SaveProfiles, messages, Quiet
  <1>8. CASE AddKey(d) \/ DeleteKey(d) \/ TypeNotes(d)
    BY <1>8 DEF AddKey, DeleteKey, TypeNotes, SaveKeys, messages, Quiet
  <1> QED
    BY <1>1, <1>2, <1>3, <1>4, <1>5, <1>6, <1>7, <1>8 DEF User

LEMMA WorkerKeepsQuiet ==
    ASSUME IInv, NEW d \in Devices, Worker(d), NEW e \in Devices
    PROVE  Quiet(e)
  <1>1. req[d] # <<>> /\ req' = [req EXCEPT ![d] = Tail(@)]
    BY DEF Worker, ServeCreate, ServePush, ServePull, Posted
  <1>2. req[d] = <<req[d][1]>>
    BY <1>1 DEF IInv, DeviceInv, Exchange, Idle, Requested, Answered
  <1>3. req'[d] = <<>>
    BY <1>1, <1>2, AppendToEmpty DEF IInv, Shape
  <1> QED
    BY <1>1, <1>3 DEF IInv, Shape, Quiet

LEMMA HandlerKeepsQuiet ==
    ASSUME IInv, NEW d \in Devices, Handler(d), NEW e \in Devices
    PROVE  Quiet(e)
  <1>1. ASSUME NEW want, FlushQueuedPush(d, want), UNCHANGED paused PROVE Quiet(e)
    BY <1>1 DEF FlushQueuedPush, UploadSnapshot, Quiet, IInv, Shape, ControlTypeOK
  <1>2. CASE OnPushFinished(d)
    BY <1>1, <1>2 DEF OnPushFinished
  <1>3. CASE OnPullFinished(d)
    BY <1>1, <1>3 DEF OnPullFinished
  <1>4. CASE OnCreateFinished(d) \/ OnCreateFailed(d) \/ OnPullFailed(d)
    BY <1>4 DEF OnCreateFinished, OnCreateFailed, OnPullFailed, Quiet
  <1> QED
    BY <1>2, <1>3, <1>4 DEF Handler

LEMMA TimersAndRestartKeepQuiet ==
    ASSUME IInv, NEW d \in Devices, Timer(d) \/ Restart(d), NEW e \in Devices
    PROVE  Quiet(e)
  <1>1. CASE PollTick(d)
    BY <1>1 DEF PollTick, PullNow, CanTransfer, Quiet, IInv, Shape, ControlTypeOK
  <1>2. CASE DebounceFires(d) \/ SaveNotes(d)
    BY <1>2 DEF DebounceFires, SaveNotes, PushNow, UploadSnapshot, CanTransfer, Quiet, IInv, Shape, ControlTypeOK
  <1>3. CASE Restart(d)
    BY <1>3 DEF Restart, Quiet, IInv, Shape, ControlTypeOK
  <1> QED
    BY <1>1, <1>2, <1>3 DEF Timer

(* While a device is paused, no step of any actor starts a transfer of it.     *)
THEOREM PauseSilences == Spec => PauseStopsTraffic
  <1>1. IInv /\ [Next]_vars =>
           [\A d \in Devices : paused[d] /\ paused'[d] => Len(req'[d]) <= Len(req[d])]_vars
    <2> SUFFICES ASSUME IInv, [Next]_vars, NEW e \in Devices, paused[e], paused'[e]
                 PROVE  Len(req'[e]) <= Len(req[e])
      OBVIOUS
    <2>1. Quiet(e)
      <3>1. CASE UNCHANGED vars
        BY <3>1 DEF vars, messages, Quiet
      <3>2. ASSUME NEW d \in Devices, User(d) \/ Worker(d) \/ Handler(d) \/ Timer(d) \/ Restart(d)
            PROVE  Quiet(e)
        BY <3>2, UserKeepsQuiet, WorkerKeepsQuiet, HandlerKeepsQuiet, TimersAndRestartKeepQuiet
      <3> QED
        BY <3>1, <3>2 DEF Next
    <2>2. Len(req[e]) \in {0, 1}
      <3>1. Len(<<req[e][1]>>) = 1 /\ Len(<<>>) = 0
        BY AppendToEmpty
      <3> QED
        BY <3>1 DEF IInv, DeviceInv, Exchange, Idle, Requested, Answered
    <2> QED
      BY <2>1, <2>2, AppendToEmpty DEF Quiet
  <1> QED
    BY <1>1, Invariance, PTL DEF Spec, PauseStopsTraffic

-----------------------------------------------------------------------------
(* The laws of the merge, for lists of any length.  What goes through a list   *)
(* one by one leaves a state after each of its items.                          *)

LEMMA LeastExists ==
    ASSUME NEW N \in SUBSET Nat, N # {}
    PROVE  \E x \in N : \A y \in N : x <= y
  <1>1. \E x \in N : \A y \in N : ~(<<y, x>> \in OpToRel(<, Nat))
    BY NatLessThanWellFounded, WFMin
  <1>2. ASSUME NEW x \in Nat, NEW y \in Nat, y < x
        PROVE  <<y, x>> \in OpToRel(<, Nat)
    BY <1>2, Zenon DEF OpToRel
  <1>3. PICK x \in N : \A y \in N : ~(<<y, x>> \in OpToRel(<, Nat))
    BY <1>1
  <1>4. \A y \in N : ~(y < x)
    BY <1>2, <1>3
  <1> QED
    BY <1>4

LEMMA LastExists ==
    ASSUME NEW n \in Nat, NEW N \in SUBSET (0..n), N # {}
    PROVE  Max(N) \in N /\ \A y \in N : y <= Max(N)
  <1> DEFINE M == {n - x : x \in N}
  <1>1. M \in SUBSET Nat /\ M # {}
    <2>1. PICK x \in N : TRUE
      OBVIOUS
    <2>2. n - x \in M
      BY <2>1
    <2>3. \A y \in 0..n : n - y \in Nat
      OBVIOUS
    <2> QED
      BY <2>2, <2>3
  <1>2. PICK m \in M : \A y \in M : m <= y
    <2> HIDE DEF M
    <2> QED
      BY <1>1, LeastExists
  <1>3. PICK x \in N : m = n - x
    OBVIOUS
  <1>4. \A y \in N : y <= x
    <2>1. \A y \in N : n - y \in M
      OBVIOUS
    <2> QED
      BY <1>2, <1>3, <2>1
  <1>5. \E z \in N : \A y \in N : z >= y
    BY <1>4
  <1>6. Max(N) \in N /\ \A y \in N : Max(N) >= y
    BY <1>5 DEF Max
  <1> QED
    BY <1>6

(* Folding over the indexes 1..n, in their order, is a function of the         *)
(* indexes folded: G says what the next item makes of a state.                 *)
Folded(h, n, b, G) ==
    \A s \in SUBSET (1..n) :
        h[s] = IF s = {} THEN b ELSE G[<<Max(s), h[s \ {Max(s)}]>>]

LEMMA FoldExists ==
    ASSUME NEW n \in Nat, NEW S, NEW b \in S, NEW G \in [(1..n) \X S -> S]
    PROVE  \E h \in [SUBSET (1..n) -> S] : Folded(h, n, b, G)
  <1> DEFINE N == {k \in 0..n : ~\E h \in [SUBSET (1..k) -> S] : Folded(h, k, b, G)}
  <1>1. N = {}
    <2> SUFFICES ASSUME N # {}
                 PROVE  FALSE
      OBVIOUS
    <2>1. PICK m \in N : \A y \in N : m <= y
      <3>1. N \in SUBSET Nat
        OBVIOUS
      <3> HIDE DEF N
      <3> QED
        BY <3>1, LeastExists
    <2>2. CASE m = 0
      <3> DEFINE h == [s \in SUBSET (1..0) |-> b]
      <3>1. SUBSET (1..0) = {{}}
        OBVIOUS
      <3>2. h \in [SUBSET (1..0) -> S] /\ Folded(h, 0, b, G)
        BY <3>1 DEF Folded
      <3> QED
        BY <2>2, <3>2
    <2>3. CASE m # 0
      <3> DEFINE k == m - 1
      <3>1. k \in 0..n /\ k \in Nat /\ m = k + 1 /\ m \in 1..n /\ k \notin N
        <4>1. m \in 0..n
          BY <2>1
        <4> HIDE DEF N
        <4> QED
          BY <2>1, <2>3, <4>1
      <3>2. PICK h \in [SUBSET (1..k) -> S] : Folded(h, k, b, G)
        BY <3>1
      <3> HIDE DEF k
      <3> DEFINE g == [s \in SUBSET (1..m) |-> IF m \in s THEN G[<<m, h[s \ {m}]>>] ELSE h[s]]
      <3>3. \A s \in SUBSET (1..m) : (m \in s => s \ {m} \in SUBSET (1..k)) /\ (m \notin s => s \in SUBSET (1..k))
        BY <3>1
      <3>4. g \in [SUBSET (1..m) -> S]
        BY <3>1, <3>3
      <3>5. ASSUME NEW s \in SUBSET (1..m)
            PROVE  g[s] = IF s = {} THEN b ELSE G[<<Max(s), g[s \ {Max(s)}]>>]
        <4>1. CASE m \in s
          <5>1. s \in SUBSET (0..m) /\ m \in Nat
            BY <3>1
          <5>2. Max(s) = m
            <6>1. Max(s) \in s /\ \A y \in s : y <= Max(s)
              BY <4>1, <5>1, LastExists
            <6>2. Max(s) \in 1..m
              BY <6>1
            <6>3. m <= Max(s)
              BY <4>1, <6>1
            <6> QED
              BY <5>1, <6>2, <6>3
          <5>3. g[s \ {m}] = h[s \ {m}]
            BY <3>3, <4>1
          <5> QED
            BY <4>1, <5>2, <5>3
        <4>2. CASE m \notin s
          <5>1. s \in SUBSET (1..k) /\ g[s] = h[s]
            BY <3>3, <4>2
          <5>2. CASE s = {}
            BY <3>2, <5>1, <5>2 DEF Folded
          <5>3. CASE s # {}
            <6>1. s \in SUBSET (0..k)
              BY <5>1
            <6>2. Max(s) \in s
              BY <3>1, <5>3, <6>1, LastExists
            <6>3. s \ {Max(s)} \in SUBSET (1..m) /\ m \notin s \ {Max(s)}
              BY <4>2, <5>1
            <6>4. g[s \ {Max(s)}] = h[s \ {Max(s)}]
              BY <6>3
            <6>5. h[s] = G[<<Max(s), h[s \ {Max(s)}]>>]
              BY <3>2, <5>1, <5>3 DEF Folded
            <6> QED
              BY <5>1, <5>3, <6>4, <6>5
          <5> QED
            BY <5>2, <5>3
        <4> QED
          BY <4>1, <4>2
      <3>6. Folded(g, m, b, G)
        <4> HIDE DEF g
        <4> QED
          BY <3>5 DEF Folded
      <3> HIDE DEF g
      <3>7. m \notin N
        BY <3>4, <3>6
      <3> QED
        BY <2>1, <3>7
    <2> QED
      BY <2>2, <2>3
  <1>2. n \in 0..n
    OBVIOUS
  <1>3. n \notin N
    <2> HIDE DEF N
    <2> QED
      BY <1>1
  <1> QED
    BY <1>2, <1>3

(* What is recursive in FoldLeft is the function it chooses.  As there is such *)
(* a function, the chosen one is one, and it stays in a set that an item does  *)
(* not lead out of.                                                            *)
LEMMA FoldStays ==
    ASSUME NEW n \in Nat, NEW S, NEW h, h[{}] \in S,
           \A s \in SUBSET (1..n) : (s # {} /\ h[s \ {Max(s)}] \in S) => h[s] \in S
    PROVE  h[1..n] \in S
  <1> DEFINE N == {i \in 0..n : h[1..i] \notin S}
  <1>1. N = {}
    <2> SUFFICES ASSUME N # {}
                 PROVE  FALSE
      OBVIOUS
    <2>1. PICK m \in N : \A y \in N : m <= y
      <3>1. N \in SUBSET Nat
        OBVIOUS
      <3> HIDE DEF N
      <3> QED
        BY <3>1, LeastExists
    <2>2. m \in 0..n /\ h[1..m] \notin S
      BY <2>1
    <2>3. m # 0
      <3>1. 1..0 = {}
        OBVIOUS
      <3> QED
        BY <2>2, <3>1
    <2>4. m \in 1..n /\ m - 1 \in 0..n
      BY <2>2, <2>3
    <2>5. m - 1 \notin N
      <3> HIDE DEF N
      <3> QED
        BY <2>1, <2>2, <2>4
    <2>6. h[1..(m - 1)] \in S
      BY <2>4, <2>5
    <2>7. 1..m \in SUBSET (1..n) /\ m \in 1..m /\ 1..m \in SUBSET (0..n)
      BY <2>4
    <2>8. Max(1..m) = m
      <3>1. Max(1..m) \in 1..m /\ \A y \in 1..m : y <= Max(1..m)
        BY <2>7, LastExists
      <3> QED
        BY <2>4, <2>7, <3>1
    <2>9. (1..m) \ {m} = 1..(m - 1)
      BY <2>4
    <2>10. 1..m # {}
      BY <2>7
    <2> HIDE DEF N
    <2> QED
      BY <2>2, <2>6, <2>7, <2>8, <2>9, <2>10
  <1>2. n \in 0..n
    OBVIOUS
  <1>3. n \notin N
    <2> HIDE DEF N
    <2> QED
      BY <1>1
  <1> QED
    BY <1>2, <1>3


(* Entries of either kind: what the laws are about, and what devices hold.     *)
Entry == Entries \cup EntryOf(Targets)

LEMMA FirstOnes ==
    ASSUME NEW n \in Nat, NEW k \in 0..n
    PROVE  /\ 1..k \subseteq 1..n /\ 1..k \subseteq 0..n
           /\ k # 0 => k \in 1..k /\ (1..k) \ {k} = 1..(k - 1)
  OBVIOUS

LEMMA KeepStays ==
    ASSUME NEW k \in Seq(Entry), NEW e \in Entry
    PROVE  KeepUnlessClash(k, e) \in Seq(Entry)
  BY DEF KeepUnlessClash

(* A list that is gone through leaves what is kept after each of its entries.  *)
LEMMA EntriesAreFolded ==
    ASSUME NEW p \in Seq(Entry), NEW c \in Seq(Entry)
    PROVE  \E h \in [0..Len(c) -> Seq(Entry)] :
             /\ h[0] = p /\ FoldLeft(KeepUnlessClash, p, c) = h[Len(c)]
             /\ \A i \in 1..Len(c) : h[i] = KeepUnlessClash(h[i - 1], c[i])
  <1> DEFINE n == Len(c)
             S == Seq(Entry)
             G == [q \in (1..n) \X S |-> KeepUnlessClash(q[2], c[q[1]])]
             Body(g, s) == IF s = {} THEN p ELSE KeepUnlessClash(g[s \ {Max(s)}], c[Max(s)])
             f == CHOOSE g : g = [s \in SUBSET DOMAIN c |-> Body(g, s)]
  <1>1. n \in Nat /\ DOMAIN c = 1..n /\ \A i \in 1..n : c[i] \in Entry
    OBVIOUS
  <1>2. FoldLeft(KeepUnlessClash, p, c) = f[DOMAIN c]
    BY DEF FoldLeft, MapThenFoldSet
  <1> HIDE DEF n
  <1>3. G \in [(1..n) \X S -> S]
    BY <1>1, KeepStays
  <1>4. PICK g \in [SUBSET (1..n) -> S] : Folded(g, n, p, G)
    <2> HIDE DEF G, S
    <2>1. p \in S
      BY DEF S
    <2> QED
      BY <1>1, <1>3, <2>1, FoldExists
  <1>5. \A s \in SUBSET (1..n) : s # {} => Max(s) \in 1..n
    <2> SUFFICES ASSUME NEW s \in SUBSET (1..n), s # {}
                 PROVE  Max(s) \in 1..n
      OBVIOUS
    <2>1. s \in SUBSET (0..n)
      BY <1>1
    <2>2. Max(s) \in s
      BY <1>1, <2>1, LastExists
    <2> QED
      BY <2>2
  <1>6. g = [s \in SUBSET DOMAIN c |-> Body(g, s)]
    <2>1. ASSUME NEW s \in SUBSET (1..n)
          PROVE  g[s] = Body(g, s)
      <3>1. CASE s = {}
        BY <1>4, <3>1 DEF Folded
      <3>2. CASE s # {}
        <4>1. s \ {Max(s)} \in SUBSET (1..n)
          OBVIOUS
        <4>2. g[s] = G[<<Max(s), g[s \ {Max(s)}]>>] /\ g[s \ {Max(s)}] \in S
          BY <1>4, <3>2, <4>1 DEF Folded
        <4> QED
          BY <1>5, <3>2, <4>2
      <3> QED
        BY <3>1, <3>2
    <2> HIDE DEF Body, G
    <2> QED
      BY <1>1, <1>4, <2>1
  <1>7. f = [s \in SUBSET DOMAIN c |-> Body(f, s)]
    <2> HIDE DEF Body
    <2> QED
      BY <1>6
  <1> HIDE DEF f
  <1>8. \A s \in SUBSET (1..n) : f[s] = Body(f, s)
    <2> HIDE DEF Body
    <2> QED
      BY <1>1, <1>7
  <1>9. f[{}] = p
    BY <1>8
  <1>10. ASSUME NEW i \in 1..n
         PROVE  f[1..i] = KeepUnlessClash(f[1..(i - 1)], c[i])
    <2>1. i \in Nat /\ i # 0
      BY <1>1
    <2>2. 1..i \in SUBSET (1..n) /\ i \in 1..i /\ 1..i \in SUBSET (0..n) /\ 1..i # {}
      <3>1. i \in 0..n
        BY <1>1
      <3> QED
        BY <1>1, <2>1, <3>1, FirstOnes
    <2>3. Max(1..i) = i
      <3>1. Max(1..i) \in 1..i /\ \A y \in 1..i : y <= Max(1..i)
        BY <1>1, <2>2, LastExists
      <3> QED
        BY <2>1, <2>2, <3>1
    <2>4. (1..i) \ {i} = 1..(i - 1)
      BY <2>1
    <2> QED
      BY <1>8, <2>2, <2>3, <2>4
  <1>11. f[{}] \in S /\ \A s \in SUBSET (1..n) : (s # {} /\ f[s \ {Max(s)}] \in S) => f[s] \in S
    <2>1. f[{}] \in S
      BY <1>9
    <2>2. ASSUME NEW s \in SUBSET (1..n), s # {}, f[s \ {Max(s)}] \in S
          PROVE  f[s] \in S
      <3>1. c[Max(s)] \in Entry
        BY <1>1, <1>5, <2>2
      <3>2. f[s] = KeepUnlessClash(f[s \ {Max(s)}], c[Max(s)])
        BY <1>8, <2>2
      <3>3. KeepUnlessClash(f[s \ {Max(s)}], c[Max(s)]) \in S
        BY <2>2, <3>1, KeepStays
      <3> QED
        BY <3>2, <3>3
    <2> QED
      BY <2>1, <2>2
  <1>12. ASSUME NEW k \in 0..n
         PROVE  f[1..k] \in S
    <2>1. k \in Nat
      BY <1>1
    <2>2. \A s \in SUBSET (1..k) : (s # {} /\ f[s \ {Max(s)}] \in S) => f[s] \in S
      <3>1. 1..k \subseteq 1..n
        BY <1>1, FirstOnes
      <3> HIDE DEF S
      <3> QED
        BY <1>11, <3>1
    <2> HIDE DEF S
    <2> QED
      BY <1>11, <2>1, <2>2, FoldStays
  <1> DEFINE h == [i \in 0..n |-> f[1..i]]
  <1>13. h \in [0..n -> S]
    BY <1>12
  <1>14. h[0] = p
    <2>1. 1..0 = {} /\ 0 \in 0..n
      BY <1>1
    <2> QED
      BY <1>9, <2>1
  <1>15. FoldLeft(KeepUnlessClash, p, c) = h[n]
    BY <1>1, <1>2
  <1>16. \A i \in 1..n : h[i] = KeepUnlessClash(h[i - 1], c[i])
    <2> SUFFICES ASSUME NEW i \in 1..n
                 PROVE  h[i] = KeepUnlessClash(h[i - 1], c[i])
      OBVIOUS
    <2>1. i \in 0..n /\ i - 1 \in 0..n
      BY <1>1
    <2> QED
      BY <1>10, <2>1
  <1> HIDE DEF h, S
  <1>17. h \in [0..Len(c) -> Seq(Entry)] /\ h[0] = p /\ FoldLeft(KeepUnlessClash, p, c) = h[Len(c)]
         /\ \A i \in 1..Len(c) : h[i] = KeepUnlessClash(h[i - 1], c[i])
    BY <1>13, <1>14, <1>15, <1>16 DEF n, S
  <1> QED
    BY <1>17

(* The same for a selection.                                                   *)
LEMMA SelectIsFolded ==
    ASSUME NEW K, NEW c \in Seq(Entry)
    PROVE  \E h \in [0..Len(c) -> Seq(Entry)] :
             /\ h[0] = <<>> /\ Select(c, K) = h[Len(c)]
             /\ \A i \in 1..Len(c) : h[i] = IF i \in K THEN Append(h[i - 1], c[i]) ELSE h[i - 1]
  <1> DEFINE n == Len(c)
             S == Seq(Entry)
             G == [q \in (1..n) \X S |-> IF q[1] \in K THEN Append(q[2], c[q[1]]) ELSE q[2]]
             d == [i \in DOMAIN c |-> i]
             Body(g, s) == IF s = {} THEN <<>> ELSE (IF d[Max(s)] \in K THEN Append(g[s \ {Max(s)}], c[d[Max(s)]]) ELSE g[s \ {Max(s)}])
             f == CHOOSE g : g = [s \in SUBSET DOMAIN d |-> Body(g, s)]
  <1>1. n \in Nat /\ DOMAIN c = 1..n /\ DOMAIN d = 1..n /\ \A i \in 1..n : c[i] \in Entry
    OBVIOUS
  <1>2. Select(c, K) = f[DOMAIN d]
    BY DEF Select, FoldLeftDomain, FoldLeft, MapThenFoldSet
  <1>0. \A i \in 1..n : d[i] = i
    OBVIOUS
  <1> HIDE DEF n, d
  <1>3. G \in [(1..n) \X S -> S]
    BY <1>1
  <1>4. PICK g \in [SUBSET (1..n) -> S] : Folded(g, n, <<>>, G)
    <2> HIDE DEF G, S
    <2>1. <<>> \in S
      BY DEF S
    <2> QED
      BY <1>1, <1>3, <2>1, FoldExists
  <1>5. \A s \in SUBSET (1..n) : s # {} => Max(s) \in 1..n
    <2> SUFFICES ASSUME NEW s \in SUBSET (1..n), s # {}
                 PROVE  Max(s) \in 1..n
      OBVIOUS
    <2>1. s \in SUBSET (0..n)
      BY <1>1
    <2>2. Max(s) \in s
      BY <1>1, <2>1, LastExists
    <2> QED
      BY <2>2
  <1>6. g = [s \in SUBSET DOMAIN d |-> Body(g, s)]
    <2>1. ASSUME NEW s \in SUBSET (1..n)
          PROVE  g[s] = Body(g, s)
      <3>1. CASE s = {}
        BY <1>4, <3>1 DEF Folded
      <3>2. CASE s # {}
        <4>1. s \ {Max(s)} \in SUBSET (1..n)
          OBVIOUS
        <4>2. g[s] = G[<<Max(s), g[s \ {Max(s)}]>>] /\ g[s \ {Max(s)}] \in S
          BY <1>4, <3>2, <4>1 DEF Folded
        <4> QED
          BY <1>0, <1>5, <3>2, <4>2
      <3> QED
        BY <3>1, <3>2
    <2> HIDE DEF Body, G
    <2> QED
      BY <1>1, <1>4, <2>1
  <1>7. f = [s \in SUBSET DOMAIN d |-> Body(f, s)]
    <2> HIDE DEF Body
    <2> QED
      BY <1>6
  <1> HIDE DEF f
  <1>8. \A s \in SUBSET (1..n) :
          f[s] = IF s = {} THEN <<>>
                 ELSE IF Max(s) \in K THEN Append(f[s \ {Max(s)}], c[Max(s)]) ELSE f[s \ {Max(s)}]
    <2> SUFFICES ASSUME NEW s \in SUBSET (1..n)
                 PROVE  f[s] = IF s = {} THEN <<>>
                               ELSE IF Max(s) \in K THEN Append(f[s \ {Max(s)}], c[Max(s)]) ELSE f[s \ {Max(s)}]
      OBVIOUS
    <2>1. f[s] = Body(f, s)
      <3> HIDE DEF Body
      <3> QED
        BY <1>1, <1>7
    <2>2. s # {} => d[Max(s)] = Max(s)
      BY <1>0, <1>5
    <2> QED
      BY <2>1, <2>2
  <1>9. f[{}] = <<>>
    BY <1>8
  <1>10. ASSUME NEW i \in 1..n
         PROVE  f[1..i] = IF i \in K THEN Append(f[1..(i - 1)], c[i]) ELSE f[1..(i - 1)]
    <2>1. i \in Nat /\ i # 0
      BY <1>1
    <2>2. 1..i \in SUBSET (1..n) /\ i \in 1..i /\ 1..i \in SUBSET (0..n) /\ 1..i # {}
      <3>1. i \in 0..n
        BY <1>1
      <3> QED
        BY <1>1, <2>1, <3>1, FirstOnes
    <2>3. Max(1..i) = i
      <3>1. Max(1..i) \in 1..i /\ \A y \in 1..i : y <= Max(1..i)
        BY <1>1, <2>2, LastExists
      <3> QED
        BY <2>1, <2>2, <3>1
    <2>4. (1..i) \ {i} = 1..(i - 1)
      BY <2>1
    <2> QED
      BY <1>8, <2>2, <2>3, <2>4
  <1>11. f[{}] \in S /\ \A s \in SUBSET (1..n) : (s # {} /\ f[s \ {Max(s)}] \in S) => f[s] \in S
    <2>1. f[{}] \in S
      BY <1>9
    <2>2. ASSUME NEW s \in SUBSET (1..n), s # {}, f[s \ {Max(s)}] \in S
          PROVE  f[s] \in S
      <3>1. c[Max(s)] \in Entry
        BY <1>1, <1>5, <2>2
      <3>2. f[s] = IF Max(s) \in K THEN Append(f[s \ {Max(s)}], c[Max(s)]) ELSE f[s \ {Max(s)}]
        BY <1>8, <2>2
      <3> QED
        BY <2>2, <3>1, <3>2
    <2> QED
      BY <2>1, <2>2
  <1>12. ASSUME NEW k \in 0..n
         PROVE  f[1..k] \in S
    <2>1. k \in Nat
      BY <1>1
    <2>2. \A s \in SUBSET (1..k) : (s # {} /\ f[s \ {Max(s)}] \in S) => f[s] \in S
      <3>1. 1..k \subseteq 1..n
        BY <1>1, FirstOnes
      <3> HIDE DEF S
      <3> QED
        BY <1>11, <3>1
    <2> HIDE DEF S
    <2> QED
      BY <1>11, <2>1, <2>2, FoldStays
  <1> DEFINE h == [i \in 0..n |-> f[1..i]]
  <1>13. h \in [0..n -> S]
    BY <1>12
  <1>14. h[0] = <<>>
    <2>1. 1..0 = {} /\ 0 \in 0..n
      BY <1>1
    <2> QED
      BY <1>9, <2>1
  <1>15. Select(c, K) = h[n]
    BY <1>1, <1>2
  <1>16. \A i \in 1..n : h[i] = IF i \in K THEN Append(h[i - 1], c[i]) ELSE h[i - 1]
    <2> SUFFICES ASSUME NEW i \in 1..n
                 PROVE  h[i] = IF i \in K THEN Append(h[i - 1], c[i]) ELSE h[i - 1]
      OBVIOUS
    <2>1. i \in 0..n /\ i - 1 \in 0..n
      BY <1>1
    <2> QED
      BY <1>10, <2>1
  <1> HIDE DEF h, S
  <1>17. h \in [0..Len(c) -> Seq(Entry)] /\ h[0] = <<>> /\ Select(c, K) = h[Len(c)]
         /\ \A i \in 1..Len(c) : h[i] = IF i \in K THEN Append(h[i - 1], c[i]) ELSE h[i - 1]
    BY <1>13, <1>14, <1>15, <1>16 DEF n, S
  <1> QED
    BY <1>17

-----------------------------------------------------------------------------
(* The merge of lists: what is kept of the entries of s behind those of b.     *)
Added(b, s) == FoldLeft(KeepUnlessClash, b, s)

ClashFree(s) == \A i, j \in DOMAIN s : i # j => ~Clash(s[i], s[j])
Apart(s, t) == \A i \in DOMAIN s, j \in DOMAIN t : ~Clash(s[i], t[j])
AllRepresented(s, t) == \A j \in DOMAIN t : Represents(s, t[j])
Among(s, t) == \A i \in DOMAIN s : \E j \in DOMAIN t : s[i] = t[j]

(* h goes through the entries of c from b on.                                  *)
Goes(h, b, c) == h[0] = b /\ \A i \in 1..Len(c) : h[i] = KeepUnlessClash(h[i - 1], c[i])

LEMMA Symmetric ==
    ASSUME NEW e, NEW f
    PROVE  Clash(e, f) <=> Clash(f, e)
  BY DEF Clash

LEMMA Reflexive ==
    ASSUME NEW e
    PROVE  Clash(e, e)
  BY DEF Clash

LEMMA GoesOneWay ==
    ASSUME NEW n \in Nat, NEW c, n = Len(c), NEW h, NEW g, NEW b, Goes(h, b, c), Goes(g, b, c)
    PROVE  \A i \in 0..n : h[i] = g[i]
  <1> DEFINE N == {i \in 0..n : h[i] # g[i]}
  <1>1. N = {}
    <2> SUFFICES ASSUME N # {}
                 PROVE  FALSE
      OBVIOUS
    <2>1. PICK m \in N : \A y \in N : m <= y
      <3>1. N \in SUBSET Nat
        OBVIOUS
      <3> HIDE DEF N
      <3> QED
        BY <3>1, LeastExists
    <2>2. m \in 0..n /\ h[m] # g[m] /\ m # 0
      BY <2>1 DEF Goes
    <2>3. m \in 1..n /\ m - 1 \in 0..n
      BY <2>2
    <2>4. m - 1 \notin N
      <3> HIDE DEF N
      <3> QED
        BY <2>1, <2>2, <2>3
    <2>5. h[m - 1] = g[m - 1]
      BY <2>3, <2>4
    <2>6. h[m] = KeepUnlessClash(h[m - 1], c[m]) /\ g[m] = KeepUnlessClash(g[m - 1], c[m])
      BY <2>3 DEF Goes
    <2> QED
      BY <2>2, <2>5, <2>6
  <1> QED
    BY <1>1

LEMMA AddedGoes ==
    ASSUME NEW b \in Seq(Entry), NEW s \in Seq(Entry)
    PROVE  \E h \in [0..Len(s) -> Seq(Entry)] : Goes(h, b, s) /\ Added(b, s) = h[Len(s)]
  <1>1. \E h \in [0..Len(s) -> Seq(Entry)] :
          /\ h[0] = b /\ FoldLeft(KeepUnlessClash, b, s) = h[Len(s)]
          /\ \A i \in 1..Len(s) : h[i] = KeepUnlessClash(h[i - 1], s[i])
    BY EntriesAreFolded
  <1> QED
    BY <1>1 DEF Goes, Added

(* A way through the entries ends in what is kept of them.                     *)
LEMMA AddedIs ==
    ASSUME NEW b \in Seq(Entry), NEW s \in Seq(Entry), NEW g, Goes(g, b, s)
    PROVE  Added(b, s) = g[Len(s)] /\ Added(b, s) \in Seq(Entry)
  <1>1. PICK h \in [0..Len(s) -> Seq(Entry)] : Goes(h, b, s) /\ Added(b, s) = h[Len(s)]
    BY AddedGoes
  <1>2. Len(s) \in Nat /\ Len(s) \in 0..Len(s)
    OBVIOUS
  <1>3. h[Len(s)] = g[Len(s)]
    BY <1>1, <1>2, GoesOneWay
  <1> QED
    BY <1>1, <1>2, <1>3

LEMMA AddedToCovering ==
    ASSUME NEW b \in Seq(Entry), NEW s \in Seq(Entry), AllRepresented(b, s)
    PROVE  Added(b, s) = b
  <1> DEFINE g == [i \in 0..Len(s) |-> b]
  <1>1. Len(s) \in Nat /\ Len(s) \in 0..Len(s) /\ 0 \in 0..Len(s) /\ DOMAIN s = 1..Len(s)
    OBVIOUS
  <1>2. \A i \in 1..Len(s) : KeepUnlessClash(b, s[i]) = b
    BY <1>1 DEF KeepUnlessClash, AllRepresented, Represents
  <1>3. Goes(g, b, s)
    BY <1>1, <1>2 DEF Goes
  <1>4. g[Len(s)] = b
    BY <1>1
  <1> HIDE DEF g
  <1> QED
    BY <1>3, <1>4, AddedIs

LEMMA ConcatAppend ==
    ASSUME NEW b \in Seq(Entry), NEW s \in Seq(Entry), NEW e \in Entry
    PROVE  b \o Append(s, e) = Append(b \o s, e)
  <1>1. Append(s, e) = s \o <<e>> /\ Append(b \o s, e) = (b \o s) \o <<e>>
    BY AppendIsConcat, ConcatProperties
  <1>2. <<e>> \in Seq(Entry)
    OBVIOUS
  <1> QED
    BY <1>1, <1>2, ConcatAssociative

LEMMA FirstEntries ==
    ASSUME NEW s \in Seq(Entry), NEW i \in 1..Len(s)
    PROVE  /\ SubSeq(s, 1, i) = Append(SubSeq(s, 1, i - 1), s[i])
           /\ SubSeq(s, 1, i) \in Seq(Entry) /\ SubSeq(s, 1, i - 1) \in Seq(Entry) /\ s[i] \in Entry
           /\ Len(SubSeq(s, 1, i - 1)) = i - 1 /\ \A k \in 1..i - 1 : SubSeq(s, 1, i - 1)[k] = s[k]
  <1>1. Len(s) \in Nat /\ i \in Nat /\ i - 1 \in Int /\ i \in Int /\ 1 \in Int /\ DOMAIN s = 1..Len(s) /\ i <= Len(s) /\ 1 <= i
    OBVIOUS
  <1>2. \A k \in 1..i : s[k] \in Entry
    BY <1>1
  <1>3. /\ SubSeq(s, 1, i) \in Seq(Entry) /\ Len(SubSeq(s, 1, i)) = i
        /\ \A k \in 1..i : SubSeq(s, 1, i)[k] = s[k]
    BY <1>1, <1>2, SubSeqProperties
  <1>4. /\ SubSeq(s, 1, i - 1) \in Seq(Entry) /\ Len(SubSeq(s, 1, i - 1)) = i - 1
        /\ \A k \in 1..i - 1 : SubSeq(s, 1, i - 1)[k] = s[k]
    <2>1. \A k \in 1..i - 1 : s[k] \in Entry
      BY <1>1, <1>2
    <2>2. /\ SubSeq(s, 1, i - 1) \in Seq(Entry) /\ Len(SubSeq(s, 1, i - 1)) = IF 1 <= i - 1 THEN (i - 1) - 1 + 1 ELSE 0
          /\ \A k \in 1..(i - 1) - 1 + 1 : SubSeq(s, 1, i - 1)[k] = s[1 + k - 1]
      BY <1>1, <2>1, SubSeqProperties
    <2> QED
      BY <1>1, <2>2
  <1>5. s[i] \in Entry
    BY <1>1
  <1>6. /\ Append(SubSeq(s, 1, i - 1), s[i]) \in Seq(Entry) /\ Len(Append(SubSeq(s, 1, i - 1), s[i])) = i
        /\ \A k \in 1..i - 1 : Append(SubSeq(s, 1, i - 1), s[i])[k] = s[k]
        /\ Append(SubSeq(s, 1, i - 1), s[i])[i] = s[i]
    BY <1>1, <1>4, <1>5, AppendProperties
  <1>7. \A k \in 1..i : SubSeq(s, 1, i)[k] = Append(SubSeq(s, 1, i - 1), s[i])[k]
    BY <1>1, <1>3, <1>6
  <1>8. SubSeq(s, 1, i) = Append(SubSeq(s, 1, i - 1), s[i])
    BY <1>3, <1>6, <1>7, SeqEqual
  <1> QED
    BY <1>3, <1>4, <1>5, <1>8

LEMMA AddedWhenApart ==
    ASSUME NEW b \in Seq(Entry), NEW s \in Seq(Entry), ClashFree(s), Apart(b, s)
    PROVE  Added(b, s) = b \o s
  <1> DEFINE n == Len(s)
             g == [i \in 0..n |-> b \o SubSeq(s, 1, i)]
  <1>1. n \in Nat /\ n \in 0..n /\ 0 \in 0..n /\ DOMAIN s = 1..n
    OBVIOUS
  <1>2. ASSUME NEW i \in 1..n
        PROVE  g[i] = KeepUnlessClash(g[i - 1], s[i])
    <2> DEFINE t == SubSeq(s, 1, i - 1)
    <2>1. t \in Seq(Entry) /\ s[i] \in Entry /\ SubSeq(s, 1, i) = Append(t, s[i]) /\ Len(t) = i - 1 /\ \A k \in 1..i - 1 : t[k] = s[k]
      BY FirstEntries
    <2>2. i \in 0..n /\ i - 1 \in 0..n /\ i \in Nat
      BY <1>1
    <2>3. g[i] = b \o Append(t, s[i]) /\ g[i - 1] = b \o t
      BY <2>1, <2>2
    <2> HIDE DEF t, g, n
    <2>4. g[i] = Append(b \o t, s[i])
      BY <2>1, <2>3, ConcatAppend
    <2>5. /\ b \o t \in Seq(Entry) /\ Len(b \o t) = Len(b) + (i - 1)
          /\ \A k \in 1..Len(b) + (i - 1) : (b \o t)[k] = IF k <= Len(b) THEN b[k] ELSE t[k - Len(b)]
      <3>1. /\ b \o t \in Seq(Entry) /\ Len(b \o t) = Len(b) + Len(t)
            /\ \A k \in 1..Len(b) + Len(t) : (b \o t)[k] = IF k <= Len(b) THEN b[k] ELSE t[k - Len(b)]
        BY <2>1, ConcatProperties
      <3>2. Len(t) = i - 1
        BY <2>1
      <3> QED
        BY <3>1, <3>2
    <2>6. \A k \in DOMAIN (b \o t) : ~Clash((b \o t)[k], s[i])
      <3> SUFFICES ASSUME NEW k \in 1..Len(b) + (i - 1)
                   PROVE  ~Clash((b \o t)[k], s[i])
        BY <2>5
      <3>1. Len(b) \in Nat /\ DOMAIN b = 1..Len(b)
        OBVIOUS
      <3>2. CASE k <= Len(b)
        <4>1. k \in DOMAIN b /\ i \in DOMAIN s
          BY <1>1, <2>2, <3>1, <3>2
        <4> QED
          BY <2>5, <3>2, <4>1 DEF Apart
      <3>3. CASE ~(k <= Len(b))
        <4>1. k - Len(b) \in 1..i - 1
          BY <2>2, <3>1, <3>3
        <4>2. k - Len(b) \in DOMAIN s /\ i \in DOMAIN s /\ k - Len(b) # i
          BY <1>1, <2>2, <4>1
        <4> QED
          BY <2>1, <2>5, <3>3, <4>1, <4>2 DEF ClashFree
      <3> QED
        BY <3>2, <3>3
    <2> QED
      BY <2>3, <2>4, <2>6 DEF KeepUnlessClash
  <1>3. g[0] = b
    <2>1. SubSeq(s, 1, 0) = <<>>
      BY SubSeqEmpty
    <2> QED
      BY <1>1, <2>1, ConcatEmptySeq
  <1>4. g[n] = b \o s
    <2>1. SubSeq(s, 1, n) = s
      BY SubSeqFull
    <2> QED
      BY <1>1, <2>1
  <1>5. Goes(g, b, s)
    <2> HIDE DEF g
    <2> QED
      BY <1>2, <1>3 DEF Goes
  <1> HIDE DEF g
  <1> QED
    BY <1>4, <1>5, AddedIs

LEMMA KeepsOrAppends ==
    ASSUME NEW m, NEW e
    PROVE  KeepUnlessClash(m, e) = IF Represents(m, e) THEN m ELSE Append(m, e)
  BY DEF KeepUnlessClash, Represents

LEMMA AppendedAt ==
    ASSUME NEW s \in Seq(Entry), NEW e \in Entry
    PROVE  /\ Append(s, e) \in Seq(Entry) /\ DOMAIN s = 1..Len(s)
           /\ DOMAIN Append(s, e) = 1..Len(s) + 1 /\ Append(s, e)[Len(s) + 1] = e
           /\ \A k \in DOMAIN s : k \in DOMAIN Append(s, e) /\ Append(s, e)[k] = s[k]
           /\ \A k \in DOMAIN Append(s, e) : k \in DOMAIN s \/ k = Len(s) + 1
  <1>1. Len(s) \in Nat /\ DOMAIN s = 1..Len(s)
    OBVIOUS
  <1>2. /\ Append(s, e) \in Seq(Entry) /\ Len(Append(s, e)) = Len(s) + 1
        /\ \A k \in 1..Len(s) : Append(s, e)[k] = s[k]
        /\ Append(s, e)[Len(s) + 1] = e
    BY AppendProperties
  <1>3. DOMAIN Append(s, e) = 1..Len(s) + 1
    BY <1>2
  <1> QED
    BY <1>1, <1>2, <1>3

LEMMA JoinedAt ==
    ASSUME NEW b \in Seq(Entry), NEW s \in Seq(Entry)
    PROVE  /\ b \o s \in Seq(Entry) /\ Len(b \o s) = Len(b) + Len(s)
           /\ \A k \in DOMAIN b : k \in DOMAIN (b \o s) /\ (b \o s)[k] = b[k]
           /\ \A k \in DOMAIN s : Len(b) + k \in DOMAIN (b \o s) /\ (b \o s)[Len(b) + k] = s[k]
           /\ \A k \in DOMAIN (b \o s) : k \in DOMAIN b \/ (k - Len(b) \in DOMAIN s /\ Len(b) + (k - Len(b)) = k)
  <1>1. /\ Len(b) \in Nat /\ DOMAIN b = 1..Len(b)
        /\ Len(s) \in Nat /\ DOMAIN s = 1..Len(s)
    OBVIOUS
  <1>2. /\ b \o s \in Seq(Entry) /\ Len(b \o s) = Len(b) + Len(s)
        /\ \A k \in 1..Len(b) + Len(s) : (b \o s)[k] = IF k <= Len(b) THEN b[k] ELSE s[k - Len(b)]
    BY ConcatProperties
  <1>3. DOMAIN (b \o s) = 1..Len(b) + Len(s)
    BY <1>2
  <1>4. ASSUME NEW k \in DOMAIN s
        PROVE  Len(b) + k \in DOMAIN (b \o s) /\ (b \o s)[Len(b) + k] = s[k]
    <2>1. k \in Nat /\ Len(b) + k \in 1..Len(b) + Len(s) /\ ~(Len(b) + k <= Len(b)) /\ (Len(b) + k) - Len(b) = k
      BY <1>1
    <2> QED
      BY <1>2, <1>3, <2>1
  <1>5. ASSUME NEW k \in DOMAIN b
        PROVE  k \in DOMAIN (b \o s) /\ (b \o s)[k] = b[k]
    <2>1. k \in 1..Len(b) + Len(s) /\ k <= Len(b)
      BY <1>1
    <2> QED
      BY <1>2, <1>3, <2>1
  <1>6. ASSUME NEW k \in DOMAIN (b \o s)
        PROVE  k \in DOMAIN b \/ (k - Len(b) \in DOMAIN s /\ Len(b) + (k - Len(b)) = k)
    BY <1>1, <1>3
  <1> QED
    BY <1>2, <1>4, <1>5, <1>6

LEMMA RepresentedInEither ==
    ASSUME NEW b \in Seq(Entry), NEW s \in Seq(Entry), NEW e
    PROVE  Represents(b \o s, e) <=> Represents(b, e) \/ Represents(s, e)
  <1>1. ASSUME Represents(b \o s, e)
        PROVE  Represents(b, e) \/ Represents(s, e)
    <2>1. PICK k \in DOMAIN (b \o s) : Clash((b \o s)[k], e)
      BY <1>1 DEF Represents
    <2>2. CASE k \in DOMAIN b
      BY <2>1, <2>2, JoinedAt DEF Represents
    <2>3. CASE k - Len(b) \in DOMAIN s /\ Len(b) + (k - Len(b)) = k
      <3>1. (b \o s)[Len(b) + (k - Len(b))] = s[k - Len(b)]
        BY <2>3, JoinedAt
      <3> QED
        BY <2>1, <2>3, <3>1 DEF Represents
    <2> QED
      BY <2>1, <2>2, <2>3, JoinedAt
  <1>2. ASSUME Represents(b, e)
        PROVE  Represents(b \o s, e)
    BY <1>2, JoinedAt DEF Represents
  <1>3. ASSUME Represents(s, e)
        PROVE  Represents(b \o s, e)
    <2>1. PICK k \in DOMAIN s : Clash(s[k], e)
      BY <1>3 DEF Represents
    <2>2. Len(b) + k \in DOMAIN (b \o s) /\ (b \o s)[Len(b) + k] = s[k]
      BY JoinedAt
    <2> QED
      BY <2>1, <2>2 DEF Represents
  <1> QED
    BY <1>1, <1>2, <1>3

(* What a way has passed may be gone through first.                            *)
LEMMA AddedAppends ==
    ASSUME NEW b \in Seq(Entry), NEW s \in Seq(Entry), NEW t \in Seq(Entry)
    PROVE  Added(b, s \o t) = Added(Added(b, s), t)
  <1>1. s \o t \in Seq(Entry) /\ Len(s \o t) = Len(s) + Len(t)
    BY JoinedAt
  <1>2. PICK h \in [0..Len(s \o t) -> Seq(Entry)] : Goes(h, b, s \o t) /\ Added(b, s \o t) = h[Len(s \o t)]
    BY <1>1, AddedGoes
  <1>3. /\ Len(s) \in Nat /\ DOMAIN s = 1..Len(s)
        /\ Len(t) \in Nat /\ DOMAIN t = 1..Len(t)
    OBVIOUS
  <1>4. Goes(h, b, s)
    <2> SUFFICES ASSUME NEW i \in 1..Len(s)
                 PROVE  h[i] = KeepUnlessClash(h[i - 1], s[i])
      BY <1>2 DEF Goes
    <2>1. i \in 1..Len(s \o t) /\ (s \o t)[i] = s[i]
      BY <1>1, <1>3, JoinedAt
    <2> QED
      BY <1>2, <2>1 DEF Goes
  <1>5. Added(b, s) = h[Len(s)] /\ Added(b, s) \in Seq(Entry)
    BY <1>4, AddedIs
  <1> DEFINE g == [i \in 0..Len(t) |-> h[Len(s) + i]]
  <1>6. Goes(g, h[Len(s)], t)
    <2>1. g[0] = h[Len(s)]
      BY <1>3
    <2>2. ASSUME NEW i \in 1..Len(t)
          PROVE  g[i] = KeepUnlessClash(g[i - 1], t[i])
      <3>1. /\ Len(s) + i \in 1..Len(s) + Len(t) /\ Len(s) + (i - 1) = (Len(s) + i) - 1
            /\ i \in 0..Len(t) /\ i - 1 \in 0..Len(t)
        BY <1>3
      <3>2. (s \o t)[Len(s) + i] = t[i]
        BY <1>3, JoinedAt
      <3>3. h[Len(s) + i] = KeepUnlessClash(h[(Len(s) + i) - 1], (s \o t)[Len(s) + i])
        BY <1>1, <1>2, <3>1 DEF Goes
      <3>4. g[i] = h[Len(s) + i] /\ g[i - 1] = h[Len(s) + (i - 1)]
        BY <3>1
      <3> HIDE DEF g
      <3> QED
        BY <3>1, <3>2, <3>3, <3>4
    <2> HIDE DEF g
    <2> QED
      BY <2>1, <2>2 DEF Goes
  <1>7. g[Len(t)] = h[Len(s) + Len(t)]
    BY <1>3
  <1> HIDE DEF g
  <1>8. Added(h[Len(s)], t) = g[Len(t)]
    BY <1>5, <1>6, AddedIs
  <1> QED
    BY <1>1, <1>2, <1>5, <1>7, <1>8

(* A is what going through the first i entries of s adds to b.                 *)
FromFirst(A, s, i) == \A k \in DOMAIN A : \E j \in 1..i : A[k] = s[j]

Missing(b, s, j) == Represents(b, s[j]) \/ \E l \in 1..j - 1 : Clash(s[l], s[j])

Holds(A, b, s, i) == \A j \in 1..i : (\E k \in DOMAIN A : A[k] = s[j]) \/ Missing(b, s, j)

Adds(m, A, b, s, i) ==
    /\ A \in Seq(Entry) /\ m = b \o A
    /\ ClashFree(A) /\ Apart(b, A) /\ FromFirst(A, s, i) /\ Holds(A, b, s, i)
    /\ \A j \in 1..i : Represents(m, s[j])

LEMMA NothingAdded ==
    ASSUME NEW b \in Seq(Entry), NEW s \in Seq(Entry)
    PROVE  Adds(b, <<>>, b, s, 0)
  <1>1. <<>> \in Seq(Entry) /\ b \o <<>> = b /\ DOMAIN <<>> = {}
    BY ConcatEmptySeq
  <1> QED
    BY <1>1 DEF Adds, ClashFree, Apart, FromFirst, Holds

LEMMA OneMoreAdded ==
    ASSUME NEW b \in Seq(Entry), NEW s \in Seq(Entry), NEW i \in 1..Len(s), NEW m, NEW A, Adds(m, A, b, s, i - 1)
    PROVE  \E B : Adds(KeepUnlessClash(m, s[i]), B, b, s, i)
  <1>1. /\ A \in Seq(Entry) /\ m = b \o A /\ ClashFree(A) /\ Apart(b, A)
        /\ FromFirst(A, s, i - 1) /\ Holds(A, b, s, i - 1)
        /\ \A j \in 1..i - 1 : Represents(m, s[j])
    BY DEF Adds
  <1>2. /\ s[i] \in Entry /\ i \in DOMAIN s /\ m \in Seq(Entry) /\ i \in Nat
        /\ \A j \in 1..i : j \in 1..i - 1 \/ j = i
    <2>1. Len(s) \in Nat /\ DOMAIN s = 1..Len(s) /\ i \in Nat /\ \A j \in 1..i : j \in 1..i - 1 \/ j = i
      OBVIOUS
    <2> QED
      BY <1>1, <2>1, JoinedAt
  <1>3. CASE Represents(m, s[i])
    <2>1. KeepUnlessClash(m, s[i]) = m
      BY <1>3, KeepsOrAppends
    <2>2. Missing(b, s, i)
      <3>1. CASE Represents(b, s[i])
        BY <3>1 DEF Missing
      <3>2. CASE Represents(A, s[i])
        <4>1. PICK k \in DOMAIN A : Clash(A[k], s[i])
          BY <3>2 DEF Represents
        <4>2. PICK l \in 1..i - 1 : A[k] = s[l]
          BY <1>1 DEF FromFirst
        <4> QED
          BY <4>1, <4>2 DEF Missing
      <3> QED
        BY <1>1, <1>3, <3>1, <3>2, RepresentedInEither
    <2>3. Holds(A, b, s, i)
      BY <1>1, <1>2, <2>2 DEF Holds
    <2>4. \A j \in 1..i - 1 : j \in 1..i
      BY <1>2
    <2>5. FromFirst(A, s, i)
      BY <1>1, <2>4 DEF FromFirst
    <2>6. Adds(m, A, b, s, i)
      BY <1>1, <1>2, <1>3, <2>3, <2>5 DEF Adds
    <2> QED
      BY <2>1, <2>6
  <1>4. CASE ~Represents(m, s[i])
    <2> DEFINE B == Append(A, s[i])
    <2>1. /\ B \in Seq(Entry) /\ B[Len(A) + 1] = s[i]
          /\ \A k \in DOMAIN A : B[k] = A[k]
          /\ \A k \in DOMAIN B : k \in DOMAIN A \/ k = Len(A) + 1
      <3>1. A \in Seq(Entry) /\ s[i] \in Entry
        BY <1>1, <1>2
      <3> QED
        BY <3>1, AppendedAt
    <2>2. KeepUnlessClash(m, s[i]) = Append(m, s[i]) /\ Append(m, s[i]) = b \o B
      BY <1>1, <1>2, <1>4, KeepsOrAppends, ConcatAppend
    <2>3. ~Represents(b, s[i]) /\ ~Represents(A, s[i])
      BY <1>1, <1>4, RepresentedInEither
    <2>4. \A k \in DOMAIN A : ~Clash(A[k], s[i]) /\ ~Clash(s[i], A[k])
      BY <2>3, Symmetric DEF Represents
    <2> HIDE DEF B
    <2>5. ClashFree(B)
      <3> SUFFICES ASSUME NEW k \in DOMAIN B, NEW l \in DOMAIN B, k # l
                   PROVE  ~Clash(B[k], B[l])
        BY DEF ClashFree
      <3>1. CASE k \in DOMAIN A /\ l \in DOMAIN A
        BY <1>1, <2>1, <3>1 DEF ClashFree
      <3>2. CASE k \in DOMAIN A /\ l = Len(A) + 1
        BY <2>1, <2>4, <3>2
      <3>3. CASE k = Len(A) + 1 /\ l \in DOMAIN A
        BY <2>1, <2>4, <3>3
      <3> QED
        BY <2>1, <3>1, <3>2, <3>3
    <2>6. Apart(b, B)
      <3> SUFFICES ASSUME NEW k \in DOMAIN b, NEW l \in DOMAIN B
                   PROVE  ~Clash(b[k], B[l])
        BY DEF Apart
      <3>1. CASE l \in DOMAIN A
        BY <1>1, <2>1, <3>1 DEF Apart
      <3>2. CASE l = Len(A) + 1
        BY <2>1, <2>3, <3>2 DEF Represents
      <3> QED
        BY <2>1, <3>1, <3>2
    <2>7. FromFirst(B, s, i) /\ Holds(B, b, s, i)
      <3>0. (\A j \in 1..i - 1 : j \in 1..i) /\ i \in 1..i
        BY <1>2
      <3>1. FromFirst(B, s, i)
        <4> SUFFICES ASSUME NEW k \in DOMAIN B
                     PROVE  \E j \in 1..i : B[k] = s[j]
          BY DEF FromFirst
        <4>1. CASE k \in DOMAIN A
          BY <1>1, <2>1, <3>0, <4>1 DEF FromFirst
        <4>2. CASE k = Len(A) + 1
          BY <2>1, <3>0, <4>2
        <4> QED
          BY <2>1, <4>1, <4>2
      <3>2. Len(A) + 1 \in DOMAIN B /\ \A k \in DOMAIN A : k \in DOMAIN B
        BY <1>1, <1>2, AppendedAt DEF B
      <3>3. Holds(B, b, s, i)
        <4> SUFFICES ASSUME NEW j \in 1..i
                     PROVE  (\E k \in DOMAIN B : B[k] = s[j]) \/ Missing(b, s, j)
          BY DEF Holds
        <4>1. CASE j = i
          BY <2>1, <3>2, <4>1
        <4>2. CASE j \in 1..i - 1
          BY <1>1, <2>1, <3>2, <4>2 DEF Holds
        <4> QED
          BY <1>2, <4>1, <4>2
      <3> QED
        BY <3>1, <3>3
    <2>8. ASSUME NEW j \in 1..i
          PROVE  Represents(b \o B, s[j])
      <3>1. Represents(b \o B, s[j]) <=> Represents(b, s[j]) \/ Represents(B, s[j])
        BY <2>1, RepresentedInEither
      <3>2. CASE j = i
        <4>1. Len(A) + 1 \in DOMAIN B /\ Clash(s[i], s[i])
          BY <1>1, <1>2, AppendedAt, Reflexive DEF B
        <4>2. Represents(B, s[i])
          BY <2>1, <4>1 DEF Represents
        <4> QED
          BY <3>1, <3>2, <4>2
      <3>3. CASE j \in 1..i - 1
        <4>1. Represents(b, s[j]) \/ Represents(A, s[j])
          BY <1>1, <3>3, RepresentedInEither
        <4>2. Represents(A, s[j]) => Represents(B, s[j])
          <5>1. \A k \in DOMAIN A : k \in DOMAIN B /\ B[k] = A[k]
            BY <1>1, <1>2, AppendedAt DEF B
          <5> QED
            BY <5>1 DEF Represents
        <4> QED
          BY <3>1, <4>1, <4>2
      <3> QED
        BY <1>2, <3>2, <3>3
    <2>9. Adds(b \o B, B, b, s, i)
      BY <2>1, <2>5, <2>6, <2>7, <2>8 DEF Adds
    <2> QED
      BY <2>2, <2>9
  <1> QED
    BY <1>3, <1>4

LEMMA AddedAdds ==
    ASSUME NEW b \in Seq(Entry), NEW s \in Seq(Entry)
    PROVE  \E A : Adds(Added(b, s), A, b, s, Len(s))
  <1>1. PICK h \in [0..Len(s) -> Seq(Entry)] : Goes(h, b, s) /\ Added(b, s) = h[Len(s)]
    BY AddedGoes
  <1> DEFINE N == {i \in 0..Len(s) : ~\E A : Adds(h[i], A, b, s, i)}
  <1>2. N = {}
    <2> SUFFICES ASSUME N # {}
                 PROVE  FALSE
      OBVIOUS
    <2>0. Len(s) \in Nat
      OBVIOUS
    <2>1. PICK i \in N : \A y \in N : i <= y
      <3>1. N \in SUBSET Nat
        OBVIOUS
      <3> HIDE DEF N
      <3> QED
        BY <3>1, LeastExists
    <2>2. i \in 0..Len(s) /\ ~\E A : Adds(h[i], A, b, s, i)
      BY <2>1
    <2>3. i # 0
      <3>1. Adds(b, <<>>, b, s, 0) /\ h[0] = b
        BY <1>1, NothingAdded DEF Goes
      <3> QED
        BY <2>2, <3>1
    <2>4. i \in 1..Len(s) /\ i - 1 \in 0..Len(s) /\ ~(i <= i - 1)
      BY <2>0, <2>2, <2>3
    <2>5. i - 1 \notin N
      <3> HIDE DEF N
      <3> QED
        BY <2>1, <2>4
    <2>6. PICK A : Adds(h[i - 1], A, b, s, i - 1)
      BY <2>4, <2>5
    <2>7. h[i] = KeepUnlessClash(h[i - 1], s[i])
      BY <1>1, <2>4 DEF Goes
    <2>8. \E B : Adds(KeepUnlessClash(h[i - 1], s[i]), B, b, s, i)
      BY <2>4, <2>6, OneMoreAdded
    <2> QED
      BY <2>2, <2>7, <2>8
  <1>3. Len(s) \in 0..Len(s)
    OBVIOUS
  <1> QED
    BY <1>1, <1>2, <1>3

(* The merge of two lists, taken apart: R is followed by what L adds, and      *)
(* cleaning keeps of R what it keeps of it alone, and all that L adds.         *)
Parts(D, A, R, L) ==
    /\ D = Added(<<>>, R) /\ ClashFree(D) /\ Among(D, R) /\ AllRepresented(D, R)
    /\ Added(R, L) = R \o A /\ ClashFree(A) /\ Apart(R, A) /\ AllRepresented(R \o A, L)
    /\ Apart(D, A) /\ Added(<<>>, R \o A) = D \o A
    /\ Holds(D, <<>>, R, Len(R)) /\ Holds(A, R, L, Len(L)) /\ Among(A, L)

LEMMA MergeTakenApart ==
    ASSUME NEW L \in Seq(Entry), NEW R \in Seq(Entry)
    PROVE  \E D, A \in Seq(Entry) : Parts(D, A, R, L)
  <1>0. <<>> \in Seq(Entry)
    OBVIOUS
  <1>1. PICK D : Adds(Added(<<>>, R), D, <<>>, R, Len(R))
    BY <1>0, AddedAdds
  <1>2. PICK A : Adds(Added(R, L), A, R, L, Len(L))
    BY AddedAdds
  <1>3. DOMAIN R = 1..Len(R) /\ DOMAIN L = 1..Len(L)
    OBVIOUS
  <1>4. /\ D \in Seq(Entry) /\ Added(<<>>, R) = <<>> \o D /\ ClashFree(D) /\ Among(D, R)
        /\ AllRepresented(Added(<<>>, R), R) /\ Holds(D, <<>>, R, Len(R))
    BY <1>1, <1>3 DEF Adds, AllRepresented, FromFirst, Among
  <1>5. <<>> \o D = D
    BY <1>4, ConcatEmptySeq
  <1>6. /\ A \in Seq(Entry) /\ Added(R, L) = R \o A /\ ClashFree(A) /\ Apart(R, A)
        /\ AllRepresented(R \o A, L) /\ Holds(A, R, L, Len(L)) /\ Among(A, L)
    BY <1>2, <1>3 DEF Adds, AllRepresented, FromFirst, Among
  <1>7. Apart(D, A)
    BY <1>4, <1>6 DEF Apart, Among
  <1>8. Added(<<>>, R \o A) = Added(D, A)
    <2>1. Added(<<>>, R \o A) = Added(Added(<<>>, R), A)
      <3>1. A \in Seq(Entry)
        BY <1>6
      <3> QED
        BY <1>0, <3>1, AddedAppends
    <2>2. Added(<<>>, R) = D
      BY <1>4, <1>5
    <2> QED
      BY <2>1, <2>2
  <1>9. Added(D, A) = D \o A
    BY <1>4, <1>6, <1>7, AddedWhenApart
  <1>10. Parts(D, A, R, L)
    BY <1>4, <1>5, <1>6, <1>7, <1>8, <1>9 DEF Parts
  <1> QED
    BY <1>4, <1>6, <1>10

LEMMA ClashFreeIsClean ==
    ASSUME NEW s \in Seq(Entry), ClashFree(s)
    PROVE  Added(<<>>, s) = s
  <1>1. <<>> \in Seq(Entry) /\ Apart(<<>>, s) /\ <<>> \o s = s
    BY ConcatEmptySeq DEF Apart
  <1> QED
    BY <1>1, AddedWhenApart

LEMMA JoinIsClashFree ==
    ASSUME NEW D \in Seq(Entry), NEW A \in Seq(Entry), ClashFree(D), ClashFree(A), Apart(D, A)
    PROVE  ClashFree(D \o A)
  <1> DEFINE M == D \o A
  <1> SUFFICES ASSUME NEW k \in DOMAIN M, NEW l \in DOMAIN M, k # l
               PROVE  ~Clash(M[k], M[l])
    BY DEF ClashFree
  <1>1. ASSUME NEW j \in DOMAIN M
        PROVE  \/ j \in DOMAIN D /\ M[j] = D[j]
               \/ j - Len(D) \in DOMAIN A /\ M[j] = A[j - Len(D)]
    BY JoinedAt
  <1>2. CASE k \in DOMAIN D /\ M[k] = D[k] /\ l \in DOMAIN D /\ M[l] = D[l]
    BY <1>2 DEF ClashFree
  <1>3. CASE k \in DOMAIN D /\ M[k] = D[k] /\ l - Len(D) \in DOMAIN A /\ M[l] = A[l - Len(D)]
    BY <1>3 DEF Apart
  <1>4. CASE k - Len(D) \in DOMAIN A /\ M[k] = A[k - Len(D)] /\ l \in DOMAIN D /\ M[l] = D[l]
    BY <1>4, Symmetric DEF Apart
  <1>5. CASE k - Len(D) \in DOMAIN A /\ M[k] = A[k - Len(D)] /\ l - Len(D) \in DOMAIN A /\ M[l] = A[l - Len(D)]
    <2>1. k \in Int /\ l \in Int /\ Len(D) \in Int
      BY JoinedAt
    <2>2. k - Len(D) # l - Len(D)
      BY <2>1
    <2> QED
      BY <1>5, <2>2 DEF ClashFree
  <1> HIDE DEF M
  <1> QED
    BY <1>1, <1>2, <1>3, <1>4, <1>5

LEMMA CoversItself ==
    ASSUME NEW s \in Seq(Entry)
    PROVE  AllRepresented(s, s)
  BY Reflexive DEF AllRepresented, Represents

(* Merging what was merged with the same remote list again changes nothing.    *)
LEMMA MergedAgain ==
    ASSUME NEW R \in Seq(Entry), NEW D \in Seq(Entry), NEW A \in Seq(Entry),
           Among(D, R), ClashFree(A), Apart(R, A)
    PROVE  Added(R, D \o A) = R \o A
  <1>1. AllRepresented(R, D)
    BY Reflexive DEF Among, AllRepresented, Represents
  <1>2. Added(R, D) = R
    BY <1>1, AddedToCovering
  <1>3. Added(R, D \o A) = Added(R, A)
    BY <1>2, AddedAppends
  <1> QED
    BY <1>3, AddedWhenApart

LEMMA AllReplaced ==
    ASSUME NEW p, NEW k, NEW n, NEW x, NEW y, NEW z
    PROVE  /\ [[profiles |-> p, keys |-> k, notes |-> n] EXCEPT !.profiles = x, !.keys = y, !.notes = z]
                 = [profiles |-> x, keys |-> y, notes |-> z]
           /\ [[profiles |-> p, keys |-> k, notes |-> n] EXCEPT !.profiles = x, !.keys = y]
                 = [profiles |-> x, keys |-> y, notes |-> n]
  <1> DEFINE r == [[profiles |-> p, keys |-> k, notes |-> n] EXCEPT !.profiles = x, !.keys = y, !.notes = z]
             q == [[profiles |-> p, keys |-> k, notes |-> n] EXCEPT !.profiles = x, !.keys = y]
  <1>1. /\ r \in [profiles : {x}, keys : {y}, notes : {z}]
        /\ q \in [profiles : {x}, keys : {y}, notes : {n}]
    OBVIOUS
  <1> HIDE DEF r, q
  <1>2. r = [profiles |-> r.profiles, keys |-> r.keys, notes |-> r.notes]
    BY <1>1
  <1>3. q = [profiles |-> q.profiles, keys |-> q.keys, notes |-> q.notes]
    BY <1>1
  <1>4. r = [profiles |-> x, keys |-> y, notes |-> z]
    BY <1>1, <1>2
  <1>5. q = [profiles |-> x, keys |-> y, notes |-> n]
    BY <1>1, <1>3
  <1> QED
    BY <1>4, <1>5 DEF r, q

LEMMA SnapshotsMerge ==
    ASSUME NEW P \in Seq(Entry), NEW Q \in Seq(Entry)
    PROVE  MergeSnapshots(Snapshot(P), Snapshot(Q)) = Snapshot(Added(<<>>, Added(Q, P)))
  <1>1. Added(<<>>, <<>>) = <<>>
    <2>1. <<>> \in Seq(Entry) /\ AllRepresented(<<>>, <<>>)
      BY DEF AllRepresented
    <2> QED
      BY <2>1, AddedToCovering
  <1> DEFINE u == [Snapshot(Q) EXCEPT !.profiles = CombineEntries(P, @), !.keys = CombineEntries(<<>>, @),
                                      !.notes = IF @ = Blank THEN Blank ELSE @]
  <1>2. u = [profiles |-> CombineEntries(P, Q), keys |-> CombineEntries(<<>>, <<>>), notes |-> Blank]
    <2>1. u = [[profiles |-> Q, keys |-> <<>>, notes |-> Blank] EXCEPT
                 !.profiles = CombineEntries(P, Q), !.keys = CombineEntries(<<>>, <<>>), !.notes = Blank]
      BY DEF Snapshot
    <2> HIDE DEF u
    <2> DEFINE x == CombineEntries(P, Q)
               y == CombineEntries(<<>>, <<>>)
    <2>2. u = [[profiles |-> Q, keys |-> <<>>, notes |-> Blank] EXCEPT !.profiles = x, !.keys = y, !.notes = Blank]
      BY <2>1
    <2> HIDE DEF x, y
    <2>3. u = [profiles |-> x, keys |-> y, notes |-> Blank]
      BY <2>2, AllReplaced
    <2> QED
      BY <2>3 DEF x, y
  <1>3. CombineEntries(P, Q) = Added(Q, P) /\ CombineEntries(<<>>, <<>>) = <<>>
    BY <1>1 DEF CombineEntries, Added
  <1>4. MergeSnapshots(Snapshot(P), Snapshot(Q)) = DedupePayload(u)
    <2>1. Snapshot(P).profiles = P /\ Snapshot(P).keys = <<>> /\ Snapshot(P).notes = Blank
      BY DEF Snapshot
    <2> QED
      BY <2>1 DEF MergeSnapshots
  <1>5. u = [profiles |-> Added(Q, P), keys |-> <<>>, notes |-> Blank]
    BY <1>2, <1>3
  <1> HIDE DEF u
  <1>6. DedupePayload(u) = [profiles |-> DedupeEntries(Added(Q, P)), keys |-> DedupeEntries(<<>>), notes |-> Blank]
    <2>1. DedupePayload(u) = [[profiles |-> Added(Q, P), keys |-> <<>>, notes |-> Blank] EXCEPT
                                 !.profiles = DedupeEntries(Added(Q, P)), !.keys = DedupeEntries(<<>>)]
      BY <1>5 DEF DedupePayload
    <2> QED
      BY <2>1, AllReplaced
  <1>7. DedupeEntries(Added(Q, P)) = Added(<<>>, Added(Q, P)) /\ DedupeEntries(<<>>) = <<>>
    BY <1>1 DEF DedupeEntries, Added
  <1> QED
    BY <1>4, <1>6, <1>7 DEF Snapshot

LEMMA CleanIsNotDirty ==
    ASSUME NEW s \in Seq(Entry), Added(<<>>, s) = s
    PROVE  ~Dirty(Snapshot(s))
  <1>1. Added(<<>>, <<>>) = <<>>
    <2>1. <<>> \in Seq(Entry) /\ AllRepresented(<<>>, <<>>)
      BY DEF AllRepresented
    <2> QED
      BY <2>1, AddedToCovering
  <1>2. DedupeEntries(s) = s /\ DedupeEntries(<<>>) = <<>>
    BY <1>1 DEF DedupeEntries, Added
  <1>3. DedupePayload(Snapshot(s)).profiles = s /\ DedupePayload(Snapshot(s)).keys = <<>>
    BY <1>2 DEF DedupePayload, Snapshot
  <1>4. Snapshot(s).profiles = s /\ Snapshot(s).keys = <<>>
    BY DEF Snapshot
  <1>5. Len(s) \in Nat /\ Len(<<>>) \in Nat
    OBVIOUS
  <1>6. ~(Len(s) < Len(s)) /\ ~(Len(<<>>) < Len(<<>>))
    BY <1>5
  <1> QED
    BY <1>3, <1>4, <1>6 DEF Dirty, PayloadShrunk

LEMMA PrefixOfJoin ==
    ASSUME NEW D \in Seq(Entry), NEW A \in Seq(Entry)
    PROVE  IsPrefix(D, D \o A)
  <1>1. /\ Len(D) \in Nat /\ Len(A) \in Nat /\ Len(D \o A) = Len(D) + Len(A)
        /\ DOMAIN D = 1..Len(D) /\ D \o A \in Seq(Entry)
    BY JoinedAt
  <1>2. Len(D) <= Len(D \o A)
    BY <1>1
  <1>3. \A k \in 1..Len(D) : (D \o A)[k] = D[k] /\ D[k] \in Entry
    BY <1>1, JoinedAt
  <1>4. SubSeq(D, 1, Len(D)) = D
    BY SubSeqFull
  <1>5. /\ SubSeq(D \o A, 1, Len(D)) \in Seq(Entry) /\ Len(SubSeq(D \o A, 1, Len(D))) = Len(D)
        /\ \A k \in 1..Len(D) : SubSeq(D \o A, 1, Len(D))[k] = (D \o A)[k]
    <2>1. /\ SubSeq(D \o A, 1, Len(D)) \in Seq(Entry)
          /\ Len(SubSeq(D \o A, 1, Len(D))) = IF 1 <= Len(D) THEN Len(D) - 1 + 1 ELSE 0
          /\ \A k \in 1..Len(D) - 1 + 1 : SubSeq(D \o A, 1, Len(D))[k] = (D \o A)[1 + k - 1]
      <3>1. \A k \in 1..Len(D) : (D \o A)[k] \in Entry
        BY <1>3
      <3> QED
        BY <1>1, <3>1, SubSeqProperties
    <2> QED
      BY <1>1, <2>1
  <1>6. SubSeq(D \o A, 1, Len(D)) = D
    BY <1>3, <1>5, SeqEqual
  <1> QED
    BY <1>2, <1>4, <1>6 DEF IsPrefix

LEMMA MergeIsKeeping ==
    ASSUME NEW L \in Seq(Entry), NEW R \in Seq(Entry)
    PROVE  MergeKeepsEverything(L, R) /\ MergePutsRemoteFirst(L, R) /\ MergeIsStable(L, R)
  <1>0. PICK D \in Seq(Entry), A \in Seq(Entry) : Parts(D, A, R, L)
    BY MergeTakenApart
  <1>1. /\ D = Added(<<>>, R) /\ ClashFree(D) /\ Among(D, R) /\ AllRepresented(D, R)
        /\ Added(R, L) = R \o A /\ ClashFree(A) /\ Apart(R, A) /\ AllRepresented(R \o A, L)
        /\ Apart(D, A) /\ Added(<<>>, R \o A) = D \o A
    BY <1>0 DEF Parts
  <1> DEFINE M == D \o A
  <1>2. M \in Seq(Entry)
    BY JoinedAt
  <1>3. Merged(L, R) = Snapshot(M)
    <2>1. Added(<<>>, Added(R, L)) = M
      BY <1>1
    <2> QED
      BY <2>1, SnapshotsMerge DEF Merged
  <1>4. Merged(L, R).profiles = M
    BY <1>3 DEF Snapshot
  <1>5. ClashFree(M)
    BY <1>1, JoinIsClashFree
  <1> HIDE DEF M
  <1>6. Added(<<>>, M) = M
    BY <1>2, <1>5, ClashFreeIsClean
  <1>7. MergeKeepsEverything(L, R)
    <2>1. ASSUME NEW i \in DOMAIN R
          PROVE  Represents(M, R[i])
      BY <1>1, RepresentedInEither DEF AllRepresented, M
    <2>2. ASSUME NEW i \in DOMAIN L
          PROVE  Represents(M, L[i]) \/ Represents(R, L[i])
      <3>1. Represents(R, L[i]) \/ Represents(A, L[i])
        BY <1>1, RepresentedInEither DEF AllRepresented
      <3> QED
        BY <3>1, RepresentedInEither DEF M
    <2> QED
      BY <1>4, <2>1, <2>2 DEF MergeKeepsEverything
  <1>8. MergePutsRemoteFirst(L, R)
    <2>1. DedupeEntries(R) = D
      BY <1>1 DEF DedupeEntries, Added
    <2>2. IsPrefix(D, M)
      BY PrefixOfJoin DEF M
    <2> QED
      BY <1>4, <2>1, <2>2 DEF MergePutsRemoteFirst
  <1>9. MergeIsStable(L, R)
    <2>1. ~Dirty(Snapshot(M))
      BY <1>2, <1>6, CleanIsNotDirty
    <2>2. MergeSnapshots(Snapshot(M), Snapshot(R)) = Snapshot(M)
      <3>1. Added(R, M) = R \o A
        BY <1>1, MergedAgain DEF M
      <3>2. Added(<<>>, R \o A) = M
        BY <1>1 DEF M
      <3> QED
        BY <1>2, <3>1, <3>2, SnapshotsMerge
    <2>3. MergeSnapshots(Snapshot(M), Snapshot(M)) = Snapshot(M)
      <3>1. Added(M, M) = M
        BY <1>2, CoversItself, AddedToCovering
      <3> QED
        BY <1>2, <1>6, <3>1, SnapshotsMerge
    <2> QED
      BY <1>3, <2>1, <2>2, <2>3 DEF MergeIsStable
  <1> QED
    BY <1>7, <1>8, <1>9

(* What is kept of a list are the entries that clash with nothing kept before. *)
LEMMA CleaningSelects ==
    ASSUME NEW s \in Seq(Entry)
    PROVE  DedupeIsGreedySelection(s)
  <1> DEFINE n == Len(s)
  <1>0. <<>> \in Seq(Entry) /\ n \in Nat /\ n \in 0..n /\ DOMAIN s = 1..n /\ \A i \in 1..n : s[i] \in Entry
    OBVIOUS
  <1>1. PICK h \in [0..n -> Seq(Entry)] : Goes(h, <<>>, s) /\ Added(<<>>, s) = h[n]
    BY <1>0, AddedGoes
  <1> DEFINE K == {i \in 1..n : ~Represents(h[i - 1], s[i])}
             Kept(i) == /\ \A k \in DOMAIN h[i] : \E j \in K : j <= i /\ h[i][k] = s[j]
                        /\ \A j \in K : j <= i => \E k \in DOMAIN h[i] : h[i][k] = s[j]
  <1> HIDE DEF n
  <1>2. K \subseteq 1..n /\ K \subseteq DOMAIN s
    BY <1>0
  <1>3. \A i \in 1..n : h[i] = IF i \in K THEN Append(h[i - 1], s[i]) ELSE h[i - 1]
    <2> SUFFICES ASSUME NEW i \in 1..n
                 PROVE  h[i] = IF i \in K THEN Append(h[i - 1], s[i]) ELSE h[i - 1]
      OBVIOUS
    <2>1. h[i] = KeepUnlessClash(h[i - 1], s[i])
      BY <1>1 DEF Goes, n
    <2> QED
      BY <2>1, KeepsOrAppends
  <1>4. h[0] = <<>>
    BY <1>1 DEF Goes
  <1>5. \A i \in 0..n : Kept(i)
    <2> DEFINE N == {i \in 0..n : ~Kept(i)}
    <2> HIDE DEF Kept
    <2> SUFFICES ASSUME N # {}
                 PROVE  FALSE
      OBVIOUS
    <2>1. PICK i \in N : \A y \in N : i <= y
      <3>1. N \in SUBSET Nat
        BY <1>0
      <3> HIDE DEF N
      <3> QED
        BY <3>1, LeastExists
    <2>2. i \in 0..n /\ ~Kept(i)
      BY <2>1
    <2>3. i # 0
      <3>1. Kept(0)
        <4>1. DOMAIN h[0] = {}
          BY <1>4
        <4>2. \A j \in K : ~(j <= 0)
          BY <1>0, <1>2
        <4> QED
          BY <4>1, <4>2 DEF Kept
      <3> QED
        BY <2>2, <3>1
    <2>4. i \in 1..n /\ i - 1 \in 0..n /\ ~(i <= i - 1) /\ i \in Nat
      BY <1>0, <2>2, <2>3
    <2>5. Kept(i - 1)
      <3>1. i - 1 \notin N
        <4> HIDE DEF N
        <4> QED
          BY <2>1, <2>4
      <3> QED
        BY <2>4, <3>1
    <2>6. \A j \in K : j <= i - 1 \/ j = i \/ ~(j <= i)
      BY <1>0, <1>2, <2>4
    <2>7. \A j \in K : j <= i - 1 => j <= i
      BY <1>0, <1>2, <2>4
    <2>8. CASE i \notin K
      <3>1. h[i] = h[i - 1]
        BY <1>3, <2>4, <2>8
      <3>2. \A j \in K : j <= i => j <= i - 1
        BY <2>6, <2>8
      <3> HIDE DEF K
      <3>3. Kept(i)
        BY <2>5, <2>7, <3>1, <3>2 DEF Kept
      <3> QED
        BY <2>2, <3>3
    <2>9. CASE i \in K
      <3>1. h[i] = Append(h[i - 1], s[i]) /\ h[i - 1] \in Seq(Entry) /\ s[i] \in Entry /\ i <= i
        <4> HIDE DEF K
        <4>1. h[i] = Append(h[i - 1], s[i])
          BY <1>3, <2>4, <2>9
        <4>2. h[i - 1] \in Seq(Entry)
          BY <1>1, <2>4
        <4>3. s[i] \in Entry
          BY <1>0, <2>4
        <4>4. i <= i
          BY <2>4
        <4> QED
          BY <4>1, <4>2, <4>3, <4>4
      <3> DEFINE m == h[i - 1]
      <3>2. /\ h[i][Len(m) + 1] = s[i] /\ Len(m) + 1 \in DOMAIN h[i]
            /\ \A k \in DOMAIN m : k \in DOMAIN h[i] /\ h[i][k] = m[k]
            /\ \A k \in DOMAIN h[i] : k \in DOMAIN m \/ k = Len(m) + 1
        <4>1. Len(m) \in Nat /\ Len(m) + 1 \in 1..Len(m) + 1
          BY <3>1
        <4> QED
          BY <3>1, <4>1, AppendedAt
      <3> HIDE DEF K
      <3>3. ASSUME NEW k \in DOMAIN h[i]
            PROVE  \E j \in K : j <= i /\ h[i][k] = s[j]
        <4>1. CASE k = Len(m) + 1
          BY <2>9, <3>1, <3>2, <4>1
        <4>2. CASE k \in DOMAIN m
          <5>1. PICK j \in K : j <= i - 1 /\ m[k] = s[j]
            BY <2>5, <4>2 DEF Kept
          <5> QED
            BY <2>7, <3>2, <4>2, <5>1
        <4> QED
          BY <3>2, <4>1, <4>2
      <3>4. ASSUME NEW j \in K, j <= i
            PROVE  \E k \in DOMAIN h[i] : h[i][k] = s[j]
        <4>1. CASE j = i
          BY <3>2, <4>1
        <4>2. CASE j <= i - 1
          <5>1. PICK k \in DOMAIN m : m[k] = s[j]
            BY <2>5, <4>2 DEF Kept
          <5> QED
            BY <3>2, <5>1
        <4> QED
          BY <2>6, <3>4, <4>1, <4>2
      <3>5. Kept(i)
        BY <3>3, <3>4 DEF Kept
      <3> QED
        BY <2>2, <3>5
    <2> QED
      BY <2>8, <2>9
  <1>6. ASSUME NEW i \in K, NEW j \in K, i < j
        PROVE  ~Clash(s[i], s[j])
    <2>1. i \in 1..n /\ j \in 1..n /\ j - 1 \in 0..n /\ i <= j - 1
      BY <1>0, <1>2, <1>6
    <2>2. PICK k \in DOMAIN h[j - 1] : h[j - 1][k] = s[i]
      BY <1>5, <2>1
    <2> QED
      BY <2>2 DEF Represents
  <1>7. \A i, j \in K : i # j => ~Clash(s[i], s[j])
    <2> SUFFICES ASSUME NEW i \in K, NEW j \in K, i # j
                 PROVE  ~Clash(s[i], s[j])
      OBVIOUS
    <2>1. i < j \/ j < i
      BY <1>0, <1>2
    <2> HIDE DEF K
    <2> QED
      BY <1>6, <2>1, Symmetric
  <1>8. ASSUME NEW i \in DOMAIN s \ K
        PROVE  \E j \in K : j < i /\ Clash(s[j], s[i])
    <2>1. i \in 1..n /\ i - 1 \in 0..n /\ Represents(h[i - 1], s[i])
      BY <1>0
    <2>2. PICK k \in DOMAIN h[i - 1] : Clash(h[i - 1][k], s[i])
      BY <2>1 DEF Represents
    <2>3. PICK j \in K : j <= i - 1 /\ h[i - 1][k] = s[j]
      BY <1>5, <2>1, <2>2
    <2>4. j < i
      BY <1>0, <1>2, <2>1, <2>3
    <2> QED
      BY <2>2, <2>3, <2>4
  <1> HIDE DEF K, Kept
  <1>9. PICK g \in [0..n -> Seq(Entry)] :
           /\ g[0] = <<>> /\ Select(s, K) = g[n]
           /\ \A i \in 1..n : g[i] = IF i \in K THEN Append(g[i - 1], s[i]) ELSE g[i - 1]
    BY SelectIsFolded DEF n
  <1>10. \A i \in 0..n : g[i] = h[i]
    <2> DEFINE N == {i \in 0..n : g[i] # h[i]}
    <2> SUFFICES ASSUME N # {}
                 PROVE  FALSE
      OBVIOUS
    <2>1. PICK i \in N : \A y \in N : i <= y
      <3>1. N \in SUBSET Nat
        BY <1>0
      <3> HIDE DEF N
      <3> QED
        BY <3>1, LeastExists
    <2>2. i \in 0..n /\ g[i] # h[i] /\ i # 0
      BY <1>4, <1>9, <2>1
    <2>3. i \in 1..n /\ i - 1 \in 0..n /\ ~(i <= i - 1)
      BY <1>0, <2>2
    <2>4. g[i - 1] = h[i - 1]
      <3>1. i - 1 \notin N
        <4> HIDE DEF N
        <4> QED
          BY <2>1, <2>3
      <3> QED
        BY <2>3, <3>1
    <2> QED
      BY <1>3, <1>9, <2>2, <2>3, <2>4
  <1>11. DedupeEntries(s) = Select(s, K)
    BY <1>0, <1>1, <1>9, <1>10 DEF DedupeEntries, Added
  <1>12. K \in SUBSET DOMAIN s
    BY <1>2
  <1> QED
    BY <1>7, <1>8, <1>11, <1>12 DEF DedupeIsGreedySelection

LEMMA ListsAreSequences ==
    ASSUME NEW S, NEW m, NEW s \in BoundedSeq(S, m)
    PROVE  s \in Seq(S)
  BY DEF BoundedSeq, SeqOf

(* For lists of any length: cleaning keeps the first of each group of entries  *)
(* that clash; merging loses nobody's connection, puts the remote list first,  *)
(* and changes nothing when it is done again.                                  *)
THEOREM MergeIsLawful == Spec => []MergeLaws
  <1>1. MergeLaws
    <2> SUFFICES ASSUME NEW local \in BoundedSeq(Entries, MaxLocal), NEW remote \in BoundedSeq(Entries, MaxRemote)
                 PROVE  /\ DedupeIsGreedySelection(local)
                        /\ MergeKeepsEverything(local, remote)
                        /\ MergePutsRemoteFirst(local, remote)
                        /\ MergeIsStable(local, remote)
      BY DEF MergeLaws
    <2>1. local \in Seq(Entry) /\ remote \in Seq(Entry)
      <3>1. local \in Seq(Entries) /\ remote \in Seq(Entries)
        BY ListsAreSequences
      <3>2. Entries \subseteq Entry
        BY DEF Entry
      <3> QED
        BY <3>1, <3>2
    <2> QED
      BY <2>1, CleaningSelects, MergeIsKeeping
  <1> QED
    BY <1>1, PTL

-----------------------------------------------------------------------------
(* What devices, gists and messages hold.                                      *)
Profile == EntryOf(Targets)

Stored(v) == DOMAIN v = {"profiles", "keys", "notes"} /\ v.profiles \in Seq(Profile)
Body(b) == DOMAIN b = {"rev", "by", "profiles", "keys", "notes"} /\ b.profiles \in Seq(Profile)

(* What is uploaded has a revision, and so has what is downloaded.             *)
Upload(b) == Body(b) /\ b.rev \in Nat \ {0}

Sent(r, G) ==
    /\ Body(r.body) /\ (r.op \in {"Push", "Pull"} => r.gist \in G)
    /\ r.op \in {"Create", "Push"} => Upload(r.body)
Got(a, G) ==
    /\ Body(a.body) /\ (a.op = "Create" /\ a.ok => a.gist \in G)
    /\ a.op = "Pull" => Upload(a.body)

Stores ==
    /\ profiles \in [Devices -> Seq(Profile)]
    /\ DOMAIN vault = Devices /\ \A d \in Devices : Stored(vault[d])

Published == (\E S : gist \in Seq(S)) /\ \A g \in DOMAIN gist : Upload(gist[g])

Points(d) ==
    /\ gistId[d] \in DOMAIN gist \cup {NoGist}
    /\ savedKey[d] \in DOMAIN gist \cup {NoGist}

DataInv ==
    /\ Stores /\ Published /\ DOMAIN savedKey = Devices
    /\ \A d \in Devices :
         /\ \A i \in DOMAIN req[d] : Sent(req[d][i], DOMAIN gist)
         /\ \A i \in DOMAIN ans[d] : Got(ans[d][i], DOMAIN gist)
         /\ Points(d)

(* Revisions count from 0, and a device that joins knows none.                 *)
Revised(d) ==
    /\ rev[d] \in Nat /\ savedRev[d] \in Nat
    /\ pending[d] = "Join" => rev[d] = 0

RevInv == DOMAIN savedRev = Devices /\ \A d \in Devices : Revised(d)

LEMMA NothingIsBody == Body(NoBody)
  BY DEF Body, NoBody, Framed

LEMMA SnapshotIsUpload ==
    ASSUME NEW d, NEW r \in Nat \ {0}, profiles[d] \in Seq(Profile)
    PROVE  Upload(Framed(d, r, Local(d)))
  BY DEF Upload, Body, Framed, Local

LEMMA SnapshotIsUploadNext ==
    ASSUME NEW d, NEW r \in Nat \ {0}, profiles'[d] \in Seq(Profile)
    PROVE  Upload(Framed(d, r, Local(d)'))
  BY DEF Upload, Body, Framed, Local

LEMMA DataStarts == Init => DataInv
  <1> SUFFICES ASSUME Init
               PROVE  DataInv
    OBVIOUS
  <1>1. <<>> \in Seq(Profile) /\ DOMAIN <<>> = {} /\ <<>> \in Seq({})
    OBVIOUS
  <1>2. Stores
    BY <1>1 DEF Init, Stores, Stored
  <1>3. Published
    BY <1>1 DEF Init, Published
  <1> QED
    BY <1>1, <1>2, <1>3 DEF Init, DataInv, Points

(* New messages are good, old ones stay, and gists only get more.              *)
RequestsGood ==
    \A e \in Devices : \A i \in DOMAIN req'[e] :
        (\E j \in DOMAIN req[e] : req'[e][i] = req[e][j]) \/ Sent(req'[e][i], DOMAIN gist')

AnswersGood ==
    \A e \in Devices : \A i \in DOMAIN ans'[e] :
        (\E j \in DOMAIN ans[e] : ans'[e][i] = ans[e][j]) \/ Got(ans'[e][i], DOMAIN gist')

LEMMA DataGoesOn ==
    ASSUME DataInv, Stores', Published', DOMAIN gist \subseteq DOMAIN gist', DOMAIN savedKey' = Devices,
           RequestsGood, AnswersGood, \A e \in Devices : Points(e)'
    PROVE  DataInv'
  <1>1. ASSUME NEW e \in Devices, NEW i \in DOMAIN req'[e]
        PROVE  Sent(req'[e][i], DOMAIN gist')
    BY <1>1 DEF DataInv, Sent, RequestsGood
  <1>2. ASSUME NEW e \in Devices, NEW i \in DOMAIN ans'[e]
        PROVE  Got(ans'[e][i], DOMAIN gist')
    BY <1>2 DEF DataInv, Got, AnswersGood
  <1> QED
    BY <1>1, <1>2 DEF DataInv

(* The queues hold one message at most, see Exchange.                          *)
LEMMA TwoItems ==
    ASSUME NEW x, NEW r
    PROVE  DOMAIN Append(<<x>>, r) = {1, 2} /\ Append(<<x>>, r)[1] = x /\ Append(<<x>>, r)[2] = r
  <1> DEFINE S == {x, r}
             q == <<x>>
  <1>0. q \in Seq(S) /\ r \in S
    OBVIOUS
  <1>1. Len(q) = 1 /\ q[1] = x
    OBVIOUS
  <1> HIDE DEF S, q
  <1>2. /\ Append(q, r) \in Seq(S) /\ Len(Append(q, r)) = Len(q) + 1
        /\ \A k \in 1..Len(q) : Append(q, r)[k] = q[k]
        /\ Append(q, r)[Len(q) + 1] = r
    BY <1>0, AppendProperties
  <1>3. Len(Append(q, r)) = 2 /\ 1 \in 1..Len(q) /\ Len(q) + 1 = 2
    BY <1>1, <1>2
  <1>4. DOMAIN Append(q, r) = 1..2 /\ 1..2 = {1, 2}
    BY <1>2, <1>3
  <1>5. DOMAIN Append(q, r) = {1, 2} /\ Append(q, r)[1] = x /\ Append(q, r)[2] = r
    BY <1>1, <1>2, <1>3, <1>4
  <1> QED
    BY <1>5 DEF q

LEMMA OneMore ==
    ASSUME NEW q, q = <<>> \/ q = <<q[1]>>, NEW r
    PROVE  \A i \in DOMAIN Append(q, r) : Append(q, r)[i] = r \/ \E j \in DOMAIN q : Append(q, r)[i] = q[j]
  <1>1. CASE q = <<>>
    BY <1>1, AppendToEmpty
  <1>2. CASE q = <<q[1]>>
    <2>1. DOMAIN Append(q, r) = {1, 2} /\ Append(q, r)[1] = q[1] /\ Append(q, r)[2] = r
      <3> DEFINE x == q[1]
      <3>1. q = <<x>>
        BY <1>2
      <3> HIDE DEF x
      <3>2. DOMAIN Append(<<x>>, r) = {1, 2} /\ Append(<<x>>, r)[1] = x /\ Append(<<x>>, r)[2] = r
        BY TwoItems
      <3>3. DOMAIN Append(q, r) = {1, 2} /\ Append(q, r)[1] = x /\ Append(q, r)[2] = r
        BY <3>1, <3>2, Zenon
      <3> QED
        BY <3>3 DEF x
    <2>2. 1 \in DOMAIN q
      BY <1>2, AppendToEmpty
    <2> QED
      BY <1>2, <2>1, <2>2
  <1> QED
    BY <1>1, <1>2

LEMMA OneLess ==
    ASSUME NEW q, q # <<>>, q = <<>> \/ q = <<q[1]>>
    PROVE  DOMAIN Tail(q) = {} /\ Head(q) = q[1] /\ 1 \in DOMAIN q
  BY AppendToEmpty

LEMMA QueuesAreShort ==
    ASSUME IInv, NEW e \in Devices
    PROVE  (req[e] = <<>> \/ req[e] = <<req[e][1]>>) /\ (ans[e] = <<>> \/ ans[e] = <<ans[e][1]>>)
  BY DEF IInv, DeviceInv, Exchange, Idle, Requested, Answered

LEMMA RequestIsGood ==
    ASSUME IInv, NEW d \in Devices, NEW r, req' = [req EXCEPT ![d] = Append(@, r)], Sent(r, DOMAIN gist')
    PROVE  RequestsGood
  <1> SUFFICES ASSUME NEW e \in Devices, NEW i \in DOMAIN req'[e]
               PROVE  (\E j \in DOMAIN req[e] : req'[e][i] = req[e][j]) \/ Sent(req'[e][i], DOMAIN gist')
    BY DEF RequestsGood
  <1>1. CASE e = d
    <2>1. req'[e] = Append(req[e], r)
      BY <1>1 DEF IInv, Shape
    <2> QED
      BY <2>1, QueuesAreShort, OneMore
  <1>2. CASE e # d
    BY <1>2 DEF IInv, Shape
  <1> QED
    BY <1>1, <1>2

LEMMA AnswerIsGood ==
    ASSUME IInv, NEW d \in Devices, NEW a, ans' = [ans EXCEPT ![d] = Append(@, a)], Got(a, DOMAIN gist')
    PROVE  AnswersGood
  <1> SUFFICES ASSUME NEW e \in Devices, NEW i \in DOMAIN ans'[e]
               PROVE  (\E j \in DOMAIN ans[e] : ans'[e][i] = ans[e][j]) \/ Got(ans'[e][i], DOMAIN gist')
    BY DEF AnswersGood
  <1>1. CASE e = d
    <2>1. ans'[e] = Append(ans[e], a)
      BY <1>1 DEF IInv, Shape
    <2> QED
      BY <2>1, QueuesAreShort, OneMore
  <1>2. CASE e # d
    BY <1>2 DEF IInv, Shape
  <1> QED
    BY <1>1, <1>2

LEMMA TakenAreGood ==
    ASSUME IInv, NEW d \in Devices
    PROVE  /\ (req[d] # <<>> /\ req' = [req EXCEPT ![d] = Tail(@)]) => RequestsGood
           /\ (ans[d] # <<>> /\ ans' = [ans EXCEPT ![d] = Tail(@)]) => AnswersGood
           /\ req' = [req EXCEPT ![d] = <<>>] => RequestsGood
           /\ ans' = [ans EXCEPT ![d] = <<>>] => AnswersGood
           /\ req' = req => RequestsGood
           /\ ans' = ans => AnswersGood
  <1>1. DOMAIN req = Devices /\ DOMAIN ans = Devices
    BY DEF IInv, Shape
  <1>2. DOMAIN <<>> = {}
    BY AppendToEmpty
  <1>3. ASSUME req[d] # <<>>, req' = [req EXCEPT ![d] = Tail(@)]
        PROVE  RequestsGood
    <2>1. DOMAIN req'[d] = {} /\ \A e \in Devices \ {d} : req'[e] = req[e]
      BY <1>1, <1>3, QueuesAreShort, OneLess
    <2> QED
      BY <2>1 DEF RequestsGood
  <1>4. ASSUME ans[d] # <<>>, ans' = [ans EXCEPT ![d] = Tail(@)]
        PROVE  AnswersGood
    <2>1. DOMAIN ans'[d] = {} /\ \A e \in Devices \ {d} : ans'[e] = ans[e]
      BY <1>1, <1>4, QueuesAreShort, OneLess
    <2> QED
      BY <2>1 DEF AnswersGood
  <1>5. req' = [req EXCEPT ![d] = <<>>] => RequestsGood
    BY <1>1, <1>2 DEF RequestsGood
  <1>6. ans' = [ans EXCEPT ![d] = <<>>] => AnswersGood
    BY <1>1, <1>2 DEF AnswersGood
  <1>7. (req' = req => RequestsGood) /\ (ans' = ans => AnswersGood)
    BY DEF RequestsGood, AnswersGood
  <1> QED
    BY <1>3, <1>4, <1>5, <1>6, <1>7

(* Steps of a device that store no more than notes, and leave the gists alone. *)
LEMMA PublishedStays ==
    ASSUME DataInv, UNCHANGED gist
    PROVE  Published' /\ DOMAIN gist \subseteq DOMAIN gist'
  BY DEF DataInv, Published, Upload, Body

LEMMA OnlyLocal ==
    ASSUME DataInv, Stores', UNCHANGED gist, DOMAIN savedKey' = Devices,
           RequestsGood, AnswersGood, \A e \in Devices : Points(e)'
    PROVE  DataInv'
  BY PublishedStays, DataGoesOn

LEMMA NotesStored ==
    ASSUME DataInv, NEW d \in Devices, NEW n, vault' = [vault EXCEPT ![d].notes = n], UNCHANGED profiles
    PROVE  Stores'
  <1>1. DOMAIN vault = Devices /\ profiles \in [Devices -> Seq(Profile)] /\ \A e \in Devices : Stored(vault[e])
    BY DEF DataInv, Stores
  <1>2. vault'[d].profiles = vault[d].profiles /\ DOMAIN vault'[d] = DOMAIN vault[d]
    BY <1>1 DEF Stored
  <1>3. Stored(vault'[d])
    BY <1>1, <1>2 DEF Stored
  <1>4. DOMAIN vault' = Devices /\ \A e \in Devices \ {d} : vault'[e] = vault[e]
    BY <1>1
  <1> QED
    BY <1>1, <1>3, <1>4 DEF Stores, Stored

LEMMA Flushed ==
    ASSUME DataInv, NEW d \in Devices, vault' = FlushedVault(d) \/ vault' = vault, UNCHANGED profiles
    PROVE  Stores'
  <1>1. CASE vault' = FlushedVault(d)
    BY <1>1, NotesStored DEF FlushedVault
  <1>2. CASE vault' = vault
    BY <1>2 DEF DataInv, Stores, Stored
  <1> QED
    BY <1>1, <1>2

LEMMA NothingStored ==
    ASSUME DataInv, UNCHANGED <<profiles, vault, gist>>, DOMAIN savedKey' = Devices,
           RequestsGood, AnswersGood, \A e \in Devices : Points(e)'
    PROVE  DataInv'
  <1>1. Stores'
    BY DEF DataInv, Stores, Stored
  <1> QED
    BY <1>1, OnlyLocal

LEMMA PullIsGood ==
    ASSUME IInv, NEW d \in Devices, NEW g \in DOMAIN gist', req' = [req EXCEPT ![d] = Append(@, Request("Pull", g, NoBody))]
    PROVE  RequestsGood
  <1> DEFINE r == Request("Pull", g, NoBody)
  <1>1. Sent(r, DOMAIN gist')
    BY NothingIsBody DEF Sent, Request
  <1> HIDE DEF r
  <1>2. req' = [req EXCEPT ![d] = Append(@, r)]
    BY DEF r
  <1> QED
    BY <1>1, <1>2, RequestIsGood

LEMMA UploadIsGood ==
    ASSUME IInv, NEW d \in Devices, gistId[d] \in DOMAIN gist', profiles'[d] \in Seq(Profile), rev'[d] \in Nat,
           UploadSnapshot(d)
    PROVE  RequestsGood
  <1> DEFINE b == Framed(d, rev'[d] + 1, Local(d)')
             r == Request("Push", gistId[d], b)
  <1>1. Upload(b)
    BY SnapshotIsUploadNext
  <1>2. req' = [req EXCEPT ![d] = Append(@, r)]
    BY DEF UploadSnapshot
  <1> HIDE DEF b
  <1>3. r.body = b /\ r.gist = gistId[d]
    BY DEF Request
  <1> HIDE DEF r
  <1>4. Sent(r, DOMAIN gist')
    BY <1>1, <1>3 DEF Sent, Upload
  <1> QED
    BY <1>2, <1>4, RequestIsGood

LEMMA CreateSyncData ==
    ASSUME IInv, DataInv, NEW d \in Devices, CreateSync(d)
    PROVE  DataInv'
  <1> DEFINE b == Framed(d, 1, Local(d))
             r == Request("Create", NoGist, b)
  <1>1. Upload(b)
    BY SnapshotIsUpload DEF DataInv, Stores
  <1>2. req' = [req EXCEPT ![d] = Append(@, r)]
    BY DEF CreateSync
  <1> HIDE DEF b
  <1>3. r.body = b /\ r.op = "Create"
    BY DEF Request
  <1> HIDE DEF r
  <1>4. RequestsGood
    BY <1>1, <1>2, <1>3, RequestIsGood DEF Sent, Upload
  <1>5. UNCHANGED <<ans, savedKey, profiles, gist>> /\ vault' = FlushedVault(d)
    BY DEF CreateSync, KeepData
  <1>6. \A e \in Devices : Points(e)'
    BY <1>5 DEF CreateSync, Points, DataInv, IInv, Shape
  <1>7. AnswersGood /\ DOMAIN savedKey' = Devices
    BY <1>5, TakenAreGood DEF DataInv
  <1>8. Stores'
    BY <1>5, Flushed
  <1> QED
    BY <1>4, <1>5, <1>6, <1>7, <1>8, OnlyLocal

LEMMA JoinSyncData ==
    ASSUME IInv, DataInv, NEW d \in Devices, JoinSync(d)
    PROVE  DataInv'
  <1>1. PICK g \in DOMAIN gist : BeginJoin(d, g, FALSE)
    BY DEF JoinSync
  <1>2. UNCHANGED <<ans, savedKey, profiles, vault, gist>>
    BY DEF JoinSync, data
  <1>3. RequestsGood
    BY <1>1, <1>2, PullIsGood DEF BeginJoin
  <1>4. \A e \in Devices : Points(e)'
    BY <1>1, <1>2 DEF BeginJoin, Points, DataInv, IInv, Shape
  <1>5. AnswersGood /\ DOMAIN savedKey' = Devices
    BY <1>2, TakenAreGood DEF DataInv
  <1> QED
    BY <1>2, <1>3, <1>4, <1>5, NothingStored

LEMMA UncheckEnabledData ==
    ASSUME IInv, DataInv, NEW d \in Devices, UncheckEnabled(d)
    PROVE  DataInv'
  <1>1. UNCHANGED <<req, ans, gistId, savedKey, profiles, vault, gist>>
    BY DEF UncheckEnabled, messages, data
  <1>2. \A e \in Devices : Points(e)'
    BY <1>1 DEF Points, DataInv
  <1>3. RequestsGood /\ AnswersGood /\ DOMAIN savedKey' = Devices
    BY <1>1, TakenAreGood DEF DataInv
  <1> QED
    BY <1>1, <1>2, <1>3, NothingStored

LEMMA CheckEnabledData ==
    ASSUME IInv, DataInv, NEW d \in Devices, CheckEnabled(d)
    PROVE  DataInv'
  <1>1. UNCHANGED <<ans, savedKey, profiles, vault, gist>>
    BY DEF CheckEnabled, data
  <1>2. AnswersGood /\ DOMAIN savedKey' = Devices
    BY <1>1, TakenAreGood DEF DataInv
  <1>3. CASE savedKey[d] # NoGist /\ BeginJoin(d, savedKey[d], TRUE)
    <2>1. savedKey[d] \in DOMAIN gist
      BY <1>3 DEF DataInv, Points
    <2>2. RequestsGood
      BY <1>1, <1>3, <2>1, PullIsGood DEF BeginJoin
    <2>3. \A e \in Devices : Points(e)'
      BY <1>1, <1>3, <2>1 DEF BeginJoin, Points, DataInv, IInv, Shape
    <2> QED
      BY <1>1, <1>2, <2>2, <2>3, NothingStored
  <1>4. CASE UNCHANGED <<gistId, req>>
    <2>1. \A e \in Devices : Points(e)'
      BY <1>1, <1>4 DEF Points, DataInv
    <2>2. RequestsGood
      BY <1>4, TakenAreGood
    <2> QED
      BY <1>1, <1>2, <2>1, <2>2, NothingStored
  <1> QED
    BY <1>3, <1>4 DEF CheckEnabled

LEMMA DisableSyncData ==
    ASSUME IInv, DataInv, NEW d \in Devices, DisableSync(d)
    PROVE  DataInv'
  <1>1. UNCHANGED <<profiles, vault, gist>>
    BY DEF DisableSync, data
  <1>2. RequestsGood /\ AnswersGood
    BY TakenAreGood DEF DisableSync
  <1>3. DOMAIN savedKey' = Devices /\ \A e \in Devices : Points(e)'
    BY <1>1 DEF DisableSync, Points, DataInv, IInv, Shape
  <1> QED
    BY <1>1, <1>2, <1>3, NothingStored

LEMMA PushNowGood ==
    ASSUME IInv, DataInv, RevInv', NEW d \in Devices, PushNow(d), UNCHANGED gist, profiles'[d] \in Seq(Profile)
    PROVE  RequestsGood
  <1>1. CASE UploadSnapshot(d) /\ gistId[d] # NoGist
    <2>1. gistId[d] \in DOMAIN gist' /\ rev'[d] \in Nat
      BY <1>1 DEF DataInv, Points, RevInv, Revised
    <2> QED
      BY <1>1, <2>1, UploadIsGood
  <1>2. CASE UNCHANGED req
    BY <1>2, TakenAreGood
  <1> QED
    BY <1>1, <1>2 DEF PushNow, CanTransfer

LEMMA AskingData ==
    ASSUME IInv, DataInv, NEW d \in Devices, SyncNow(d) \/ PollTick(d)
    PROVE  DataInv'
  <1>1. /\ UNCHANGED <<ans, gistId, savedKey, profiles, vault, gist>> /\ gistId[d] # NoGist
        /\ PullNow(d) \/ UNCHANGED req
    BY DEF SyncNow, PollTick, data, settings, world, CanTransfer
  <1>2. gistId[d] \in DOMAIN gist'
    BY <1>1 DEF DataInv, Points
  <1>3. RequestsGood
    BY <1>1, <1>2, PullIsGood, TakenAreGood DEF PullNow
  <1>4. AnswersGood /\ DOMAIN savedKey' = Devices
    BY <1>1, TakenAreGood DEF DataInv
  <1>5. \A e \in Devices : Points(e)'
    BY <1>1 DEF Points, DataInv
  <1> QED
    BY <1>1, <1>3, <1>4, <1>5, NothingStored

LEMMA PushersData ==
    ASSUME IInv, DataInv, RevInv', NEW d \in Devices, DebounceFires(d) \/ SaveNotes(d)
    PROVE  DataInv'
  <1>1. UNCHANGED <<ans, gistId, savedKey, profiles, gist>> /\ PushNow(d)
    BY DEF DebounceFires, SaveNotes, KeepData, settings, world
  <1>2. vault' = FlushedVault(d) \/ vault' = vault
    BY DEF DebounceFires, SaveNotes, KeepData, FlushIf
  <1>3. RequestsGood
    BY <1>1, PushNowGood DEF DataInv, Stores
  <1>4. AnswersGood /\ DOMAIN savedKey' = Devices
    BY <1>1, TakenAreGood DEF DataInv
  <1>5. \A e \in Devices : Points(e)'
    BY <1>1 DEF Points, DataInv
  <1>6. Stores'
    BY <1>1, <1>2, Flushed
  <1> QED
    BY <1>1, <1>3, <1>4, <1>5, <1>6, OnlyLocal

(* The worker: gists are made of bodies that were sent.                        *)
LEMMA GistWritten ==
    ASSUME Published, NEW g \in DOMAIN gist, NEW b, Upload(b), gist' = [gist EXCEPT ![g] = b]
    PROVE  Published' /\ DOMAIN gist \subseteq DOMAIN gist'
  <1>1. PICK S : gist \in Seq(S)
    BY DEF Published
  <1>2. gist' \in Seq(S \cup {b}) /\ DOMAIN gist' = DOMAIN gist
    BY <1>1
  <1>3. \A h \in DOMAIN gist : gist'[h] = IF h = g THEN b ELSE gist[h]
    BY <1>1
  <1> QED
    BY <1>2, <1>3 DEF Published, Upload, Body

LEMMA GistAdded ==
    ASSUME Published, NEW b, Upload(b), gist' = Append(gist, b)
    PROVE  Published' /\ DOMAIN gist \subseteq DOMAIN gist' /\ Len(gist) + 1 \in DOMAIN gist'
  <1>1. PICK S : gist \in Seq(S)
    BY DEF Published
  <1> DEFINE T == S \cup {b}
  <1>2. gist \in Seq(T) /\ b \in T /\ Len(gist) \in Nat /\ DOMAIN gist = 1..Len(gist)
    BY <1>1
  <1> HIDE DEF T
  <1>3. /\ gist' \in Seq(T) /\ Len(gist') = Len(gist) + 1
        /\ \A k \in 1..Len(gist) : gist'[k] = gist[k]
        /\ gist'[Len(gist) + 1] = b
    BY <1>2, AppendProperties
  <1>4. DOMAIN gist' = 1..Len(gist) + 1
    BY <1>3
  <1>5. DOMAIN gist \subseteq DOMAIN gist' /\ Len(gist) + 1 \in DOMAIN gist'
    BY <1>2, <1>4
  <1>6. \A k \in DOMAIN gist' : k \in DOMAIN gist \/ k = Len(gist) + 1
    BY <1>2, <1>4
  <1>7. \A k \in DOMAIN gist' : Upload(gist'[k])
    BY <1>2, <1>3, <1>6 DEF Published
  <1> QED
    BY <1>3, <1>5, <1>7 DEF Published, Upload, Body

LEMMA PostedData ==
    ASSUME IInv, DataInv, NEW d \in Devices, req[d] # <<>>, NEW a, Posted(d, a), Got(a, DOMAIN gist'),
           Published', DOMAIN gist \subseteq DOMAIN gist'
    PROVE  DataInv'
  <1>1. UNCHANGED <<gistId, savedKey, profiles, vault>>
    BY DEF Posted, control, settings, data
  <1>2. Stores' /\ DOMAIN savedKey' = Devices
    BY <1>1 DEF DataInv, Stores, Stored
  <1>3. RequestsGood /\ AnswersGood
    BY AnswerIsGood, TakenAreGood DEF Posted
  <1>4. \A e \in Devices : Points(e)'
    BY <1>1 DEF DataInv, Points
  <1> QED
    BY <1>2, <1>3, <1>4, DataGoesOn

LEMMA WorkerData ==
    ASSUME IInv, DataInv, NEW d \in Devices, Worker(d)
    PROVE  DataInv'
  <1>1. req[d] # <<>>
    BY DEF Worker, ServeCreate, ServePush, ServePull
  <1>2. Head(req[d]) = req[d][1] /\ Sent(Head(req[d]), DOMAIN gist)
    BY <1>1, QueuesAreShort, OneLess DEF DataInv
  <1>3. Published
    BY DEF DataInv
  <1>4. Body(NoBody)
    BY NothingIsBody
  <1>5. CASE ServeCreate(d)
    <2>1. PICK effect \in BOOLEAN, ok \in BOOLEAN :
             /\ ok => effect
             /\ gist' = IF effect THEN Append(gist, Head(req[d]).body) ELSE gist
             /\ Posted(d, Answer("Create", ok, Len(gist) + 1, NoBody))
      BY <1>5 DEF ServeCreate
    <2>2. Upload(Head(req[d]).body)
      BY <1>2, <1>5 DEF Sent, ServeCreate
    <2>3. CASE effect = TRUE
      <3>1. Published' /\ DOMAIN gist \subseteq DOMAIN gist' /\ Len(gist) + 1 \in DOMAIN gist'
        BY <1>3, <2>1, <2>2, <2>3, GistAdded
      <3>2. Got(Answer("Create", ok, Len(gist) + 1, NoBody), DOMAIN gist')
        BY <1>4, <3>1 DEF Got, Answer
      <3> QED
        BY <1>1, <2>1, <3>1, <3>2, PostedData
    <2>4. CASE effect = FALSE
      <3>1. gist' = gist /\ ok = FALSE
        BY <2>1, <2>4
      <3>2. Published' /\ DOMAIN gist \subseteq DOMAIN gist'
        BY <1>3, <3>1 DEF Published, Upload, Body
      <3>3. Got(Answer("Create", ok, Len(gist) + 1, NoBody), DOMAIN gist')
        BY <1>4, <3>1 DEF Got, Answer
      <3> QED
        BY <1>1, <2>1, <3>2, <3>3, PostedData
    <2> QED
      BY <2>3, <2>4
  <1>6. CASE ServePush(d)
    <2>1. PICK effect \in BOOLEAN, ok \in BOOLEAN :
             /\ gist' = IF effect THEN [gist EXCEPT ![Head(req[d]).gist] = Head(req[d]).body] ELSE gist
             /\ Posted(d, Answer("Push", ok, Head(req[d]).gist, NoBody))
      BY <1>6 DEF ServePush
    <2>2. Upload(Head(req[d]).body) /\ Head(req[d]).gist \in DOMAIN gist
      BY <1>2, <1>6 DEF Sent, ServePush
    <2>3. Published' /\ DOMAIN gist \subseteq DOMAIN gist'
      <3>1. CASE gist' = gist
        BY <1>3, <3>1 DEF Published, Upload, Body
      <3>2. CASE gist' = [gist EXCEPT ![Head(req[d]).gist] = Head(req[d]).body]
        BY <1>3, <2>2, <3>2, GistWritten
      <3> QED
        BY <2>1, <3>1, <3>2
    <2>4. Got(Answer("Push", ok, Head(req[d]).gist, NoBody), DOMAIN gist')
      BY <1>4 DEF Got, Answer
    <2> QED
      BY <1>1, <2>1, <2>3, <2>4, PostedData
  <1>7. CASE ServePull(d)
    <2>1. PICK ok \in BOOLEAN :
             Posted(d, Answer("Pull", ok, Head(req[d]).gist, gist[Head(req[d]).gist]))
      BY <1>7 DEF ServePull
    <2>2. Head(req[d]).gist \in DOMAIN gist /\ gist' = gist
      BY <1>2, <1>7 DEF Sent, ServePull
    <2>3. Published' /\ DOMAIN gist \subseteq DOMAIN gist'
      BY <1>3, <2>2 DEF Published, Upload, Body
    <2>4. Got(Answer("Pull", ok, Head(req[d]).gist, gist[Head(req[d]).gist]), DOMAIN gist')
      BY <1>3, <2>2 DEF Got, Answer, Published, Upload
    <2> QED
      BY <1>1, <2>1, <2>3, <2>4, PostedData
  <1> QED
    BY <1>5, <1>6, <1>7 DEF Worker

(* The answers to creating and uploading, and downloads that failed.           *)
LEMMA TakenIsGood ==
    ASSUME IInv, DataInv, NEW d \in Devices, NEW op, NEW ok, NEW awaited, Receive(d, op, ok, awaited)
    PROVE  /\ Head(ans[d]).op = op /\ Head(ans[d]).ok = ok
           /\ Got(Head(ans[d]), DOMAIN gist) /\ AnswersGood
  <1>1. ans[d] # <<>> /\ Head(ans[d]).op = op /\ Head(ans[d]).ok = ok /\ ans' = [ans EXCEPT ![d] = Tail(@)]
    BY DEF Receive
  <1>2. Head(ans[d]) = ans[d][1] /\ 1 \in DOMAIN ans[d]
    BY <1>1, QueuesAreShort, OneLess
  <1>3. Got(Head(ans[d]), DOMAIN gist)
    BY <1>2 DEF DataInv
  <1> QED
    BY <1>1, <1>3, TakenAreGood

LEMMA FlushGood ==
    ASSUME IInv, DataInv, RevInv', NEW d \in Devices, NEW want, FlushQueuedPush(d, want), UNCHANGED gist,
           profiles'[d] \in Seq(Profile)
    PROVE  RequestsGood
  <1>1. CASE UploadSnapshot(d) /\ gistId[d] # NoGist
    <2>1. gistId[d] \in DOMAIN gist' /\ rev'[d] \in Nat
      BY <1>1 DEF DataInv, Points, RevInv, Revised
    <2> QED
      BY <1>1, <2>1, UploadIsGood
  <1>2. CASE UNCHANGED req
    BY <1>2, TakenAreGood
  <1> QED
    BY <1>1, <1>2 DEF FlushQueuedPush

LEMMA OnCreateFinishedData ==
    ASSUME IInv, DataInv, NEW d \in Devices, OnCreateFinished(d)
    PROVE  DataInv'
  <1>1. Receive(d, "Create", TRUE, {"Create"})
    BY DEF OnCreateFinished
  <1>2. Head(ans[d]).op = "Create" /\ Head(ans[d]).ok = TRUE /\ Got(Head(ans[d]), DOMAIN gist) /\ AnswersGood
    BY <1>1, TakenIsGood
  <1>3. Head(ans[d]).gist \in DOMAIN gist
    BY <1>2 DEF Got
  <1>4. UNCHANGED <<req, profiles, vault, gist>>
    BY DEF OnCreateFinished, data, world
  <1>5. /\ gistId' = [gistId EXCEPT ![d] = Head(ans[d]).gist]
        /\ savedKey' = [savedKey EXCEPT ![d] = Head(ans[d]).gist]
    BY DEF OnCreateFinished, BecomeActive
  <1>6. DOMAIN savedKey' = Devices /\ \A e \in Devices : Points(e)'
    BY <1>3, <1>4, <1>5 DEF DataInv, Points, IInv, Shape
  <1>7. RequestsGood
    BY <1>4, TakenAreGood
  <1> QED
    BY <1>2, <1>4, <1>6, <1>7, NothingStored

LEMMA FailuresData ==
    ASSUME IInv, DataInv, NEW d \in Devices, OnCreateFailed(d) \/ OnPullFailed(d)
    PROVE  DataInv'
  <1>1. \E op, ok, awaited : Receive(d, op, ok, awaited)
    BY DEF OnCreateFailed, OnPullFailed
  <1>2. AnswersGood
    BY <1>1, TakenIsGood
  <1>3. UNCHANGED <<req, gistId, savedKey, profiles, vault, gist>>
    BY DEF OnCreateFailed, OnPullFailed, data, world, settings
  <1>4. RequestsGood /\ DOMAIN savedKey' = Devices /\ \A e \in Devices : Points(e)'
    BY <1>3, TakenAreGood DEF DataInv, Points
  <1> QED
    BY <1>2, <1>3, <1>4, NothingStored

LEMMA OnPushFinishedData ==
    ASSUME IInv, DataInv, RevInv', NEW d \in Devices, OnPushFinished(d)
    PROVE  DataInv'
  <1>1. PICK ok \in BOOLEAN : Receive(d, "Push", ok, {"Push"})
    BY DEF OnPushFinished
  <1>2. AnswersGood
    BY <1>1, TakenIsGood
  <1>3. /\ UNCHANGED <<gistId, savedKey, profiles, gist>> /\ (vault' = FlushedVault(d) \/ vault' = vault)
        /\ FlushQueuedPush(d, syncNowQueued[d] \/ pushQueued[d])
    BY DEF OnPushFinished, world, FlushIf
  <1>4. profiles'[d] \in Seq(Profile)
    BY <1>3 DEF DataInv, Stores
  <1>5. RequestsGood
    BY <1>3, <1>4, FlushGood
  <1>6. DOMAIN savedKey' = Devices /\ \A e \in Devices : Points(e)'
    BY <1>3 DEF DataInv, Points
  <1>7. Stores'
    BY <1>3, Flushed
  <1> QED
    BY <1>2, <1>3, <1>5, <1>6, <1>7, OnlyLocal

(* What a download does to the data.  Cleaning and merging keep profiles.      *)
LEMMA ProfilesAreEntries ==
    ASSUME NEW s \in Seq(Profile)
    PROVE  s \in Seq(Entry)
  BY DEF Profile, Entry

LEMMA KeepStaysProfile ==
    ASSUME NEW k \in Seq(Profile), NEW e \in Profile
    PROVE  KeepUnlessClash(k, e) \in Seq(Profile)
  BY DEF KeepUnlessClash

LEMMA AddedAreProfiles ==
    ASSUME NEW b \in Seq(Profile), NEW s \in Seq(Profile)
    PROVE  Added(b, s) \in Seq(Profile)
  <1>1. b \in Seq(Entry) /\ s \in Seq(Entry)
    BY ProfilesAreEntries
  <1>2. PICK h \in [0..Len(s) -> Seq(Entry)] : Goes(h, b, s) /\ Added(b, s) = h[Len(s)]
    BY <1>1, AddedGoes
  <1>3. Len(s) \in Nat /\ DOMAIN s = 1..Len(s) /\ \A i \in 1..Len(s) : s[i] \in Profile
    OBVIOUS
  <1> DEFINE N == {i \in 0..Len(s) : h[i] \notin Seq(Profile)}
  <1>4. N = {}
    <2> SUFFICES ASSUME N # {}
                 PROVE  FALSE
      OBVIOUS
    <2>1. PICK i \in N : \A y \in N : i <= y
      <3>1. N \in SUBSET Nat
        OBVIOUS
      <3> HIDE DEF N
      <3> QED
        BY <3>1, LeastExists
    <2>2. i \in 0..Len(s) /\ h[i] \notin Seq(Profile) /\ i # 0
      BY <1>2, <2>1 DEF Goes
    <2>3. i \in 1..Len(s) /\ i - 1 \in 0..Len(s) /\ ~(i <= i - 1)
      BY <1>3, <2>2
    <2>4. h[i - 1] \in Seq(Profile)
      <3>1. i - 1 \notin N
        <4> HIDE DEF N
        <4> QED
          BY <2>1, <2>3
      <3> QED
        BY <2>3, <3>1
    <2>5. h[i] = KeepUnlessClash(h[i - 1], s[i]) /\ s[i] \in Profile
      BY <1>2, <1>3, <2>3 DEF Goes
    <2> QED
      BY <2>2, <2>4, <2>5, KeepStaysProfile
  <1> QED
    BY <1>2, <1>3, <1>4

Whole(p) == {"profiles", "keys", "notes"} \subseteq DOMAIN p /\ p.profiles \in Seq(Profile)

LEMMA CleanedIs ==
    ASSUME NEW p, Whole(p)
    PROVE  /\ DedupePayload(p).profiles = Added(<<>>, p.profiles) /\ DedupePayload(p).notes = p.notes
           /\ DedupePayload(p).profiles \in Seq(Profile)
  <1>1. DedupePayload(p).profiles = DedupeEntries(p.profiles) /\ DedupePayload(p).notes = p.notes
    BY DEF DedupePayload, Whole
  <1>2. <<>> \in Seq(Profile) /\ p.profiles \in Seq(Profile)
    BY DEF Whole
  <1>3. Added(<<>>, p.profiles) \in Seq(Profile)
    BY <1>2, AddedAreProfiles
  <1> QED
    BY <1>1, <1>3 DEF DedupeEntries, Added

LEMMA MergedIs ==
    ASSUME NEW p, Whole(p), NEW r, Whole(r)
    PROVE  /\ MergeSnapshots(p, r).profiles = Added(<<>>, Added(r.profiles, p.profiles))
           /\ MergeSnapshots(p, r).notes = IF r.notes = Blank THEN p.notes ELSE r.notes
           /\ MergeSnapshots(p, r).profiles \in Seq(Profile)
  <1> DEFINE u == [r EXCEPT !.profiles = CombineEntries(p.profiles, @),
                            !.keys     = CombineEntries(p.keys, @),
                            !.notes    = IF @ = Blank THEN p.notes ELSE @]
  <1>1. /\ u.profiles = CombineEntries(p.profiles, r.profiles)
        /\ u.notes = (IF r.notes = Blank THEN p.notes ELSE r.notes)
        /\ {"profiles", "keys", "notes"} \subseteq DOMAIN u
    BY DEF Whole
  <1>2. MergeSnapshots(p, r) = DedupePayload(u)
    BY DEF MergeSnapshots
  <1> HIDE DEF u
  <1>3. Added(r.profiles, p.profiles) \in Seq(Profile)
    BY AddedAreProfiles DEF Whole
  <1>4. u.profiles = Added(r.profiles, p.profiles)
    BY <1>1 DEF CombineEntries, Added
  <1>5. Whole(u)
    BY <1>1, <1>3, <1>4 DEF Whole
  <1> QED
    BY <1>1, <1>2, <1>4, <1>5, CleanedIs

LEMMA BodiesAreWhole ==
    ASSUME DataInv, NEW d \in Devices
    PROVE  /\ Whole(Local(d)) /\ Local(d).profiles = profiles[d] /\ Local(d).notes = editor[d]
           /\ \A b : Body(b) => Whole(b)
  BY DEF Whole, Local, Body, DataInv, Stores

LEMMA Applied ==
    ASSUME DataInv, NEW d \in Devices, NEW p, NEW ok, p.profiles \in Seq(Profile), Apply(d, p, ok)
    PROVE  Stores'
  <1>1. DOMAIN vault = Devices /\ profiles \in [Devices -> Seq(Profile)] /\ \A e \in Devices : Stored(vault[e])
    BY DEF DataInv, Stores
  <1>2. CASE KeepData(d)
    BY <1>2, Flushed DEF KeepData
  <1>3. CASE profiles' = [profiles EXCEPT ![d] = p.profiles] \/ UNCHANGED profiles
    <2>1. PICK keys, notes : vault' = [vault EXCEPT ![d] = [profiles |-> p.profiles, keys |-> keys, notes |-> notes]]
                             \/ KeepData(d)
      BY DEF Apply
    <2>2. CASE KeepData(d)
      BY <1>2, <2>2
    <2>3. CASE vault' = [vault EXCEPT ![d] = [profiles |-> p.profiles, keys |-> keys, notes |-> notes]]
      <3>1. vault'[d] = [profiles |-> p.profiles, keys |-> keys, notes |-> notes]
        BY <1>1, <2>3
      <3>2. Stored(vault'[d])
        BY <3>1 DEF Stored
      <3>3. \A e \in Devices \ {d} : vault'[e] = vault[e]
        BY <1>1, <2>3
      <3>4. DOMAIN vault' = Devices /\ profiles' \in [Devices -> Seq(Profile)]
        BY <1>1, <1>3, <2>3
      <3> QED
        BY <1>1, <3>2, <3>3, <3>4 DEF Stores, Stored
    <2> QED
      BY <2>1, <2>2, <2>3
  <1> QED
    BY <1>3 DEF Apply, KeepData

LEMMA ReconciledData ==
    ASSUME DataInv, NEW d \in Devices, NEW r, Body(r), NEW joining, NEW ok, NEW wants,
           ReconcileFromRemote(d, r, joining, ok, wants)
    PROVE  Stores'
  <1>1. Whole(Local(d)) /\ Whole(r)
    BY BodiesAreWhole
  <1>2. CASE KeepData(d)
    BY <1>2, Flushed DEF KeepData
  <1>3. CASE Apply(d, MergeSnapshots(Local(d), r), ok)
    BY <1>1, <1>3, MergedIs, Applied
  <1>4. CASE Apply(d, DedupePayload(Local(d)), ok)
    BY <1>1, <1>4, CleanedIs, Applied
  <1>5. CASE Apply(d, DedupePayload(r), ok)
    BY <1>1, <1>5, CleanedIs, Applied
  <1> QED
    BY <1>2, <1>3, <1>4, <1>5 DEF ReconcileFromRemote, KeepLocal, MergeOnJoin, HealDuplicates, ApplyNewer

LEMMA OnPullFinishedData ==
    ASSUME IInv, DataInv, RevInv', NEW d \in Devices, OnPullFinished(d)
    PROVE  DataInv'
  <1> DEFINE joining == pending[d] = "Join"
  <1> HIDE DEF joining
  <1>1. PICK ok \in BOOLEAN, wants \in BOOLEAN :
           /\ Receive(d, "Pull", TRUE, {"Pull", "Join"})
           /\ ReconcileFromRemote(d, Head(ans[d]).body, joining, ok, wants)
           /\ IF state[d] = "Connecting"
                THEN BecomeActive(d, gistId[d])
                ELSE UNCHANGED <<state, savedKey, enabled, polling>>
           /\ UNCHANGED <<gistId, gist>>
           /\ FlushQueuedPush(d, \/ syncNowQueued[d] \/ pushQueued[d] \/ wants
                                 \/ joining /\ HasData(Local(d)'))
    BY DEF OnPullFinished, joining
  <1>2. Got(Head(ans[d]), DOMAIN gist) /\ AnswersGood
    BY <1>1, TakenIsGood
  <1>3. Body(Head(ans[d]).body)
    BY <1>2 DEF Got
  <1>4. Stores'
    BY <1>1, <1>3, ReconciledData
  <1>5. profiles'[d] \in Seq(Profile)
    BY <1>4 DEF Stores
  <1>6. RequestsGood
    BY <1>1, <1>5, FlushGood
  <1>7. Published' /\ DOMAIN gist \subseteq DOMAIN gist'
    BY <1>1, PublishedStays
  <1>8. DOMAIN savedKey' = Devices /\ \A e \in Devices : Points(e)'
    BY <1>1 DEF DataInv, Points, BecomeActive
  <1> QED
    BY <1>2, <1>4, <1>6, <1>7, <1>8, DataGoesOn

(* The user's edits and a restart.                                             *)
LEMMA RemovedStays ==
    ASSUME NEW s \in Seq(Profile), NEW i \in DOMAIN s
    PROVE  RemoveAt(s, i) \in Seq(Profile)
  <1>1. Len(s) \in Nat /\ DOMAIN s = 1..Len(s) /\ \A k \in 1..Len(s) : s[k] \in Profile
    OBVIOUS
  <1>2. SubSeq(s, 1, i - 1) \in Seq(Profile)
    BY <1>1, SubSeqProperties
  <1>3. SubSeq(s, i + 1, Len(s)) \in Seq(Profile)
    BY <1>1, SubSeqProperties
  <1> QED
    BY <1>2, <1>3, ConcatProperties DEF RemoveAt

LEMMA SavedData ==
    ASSUME IInv, DataInv, NEW d \in Devices, NEW list \in Seq(Profile), SaveProfiles(d, list)
    PROVE  DataInv'
  <1>1. DOMAIN vault = Devices /\ profiles \in [Devices -> Seq(Profile)] /\ \A e \in Devices : Stored(vault[e])
    BY DEF DataInv, Stores
  <1>2. /\ profiles' = [profiles EXCEPT ![d] = list]
        /\ vault' = [vault EXCEPT ![d].profiles = list]
        /\ UNCHANGED <<gistId, req, ans, savedKey, gist>>
    BY DEF SaveProfiles, messages, settings
  <1>3. vault'[d].profiles = list /\ DOMAIN vault'[d] = DOMAIN vault[d]
    BY <1>1, <1>2 DEF Stored
  <1>4. Stores'
    BY <1>1, <1>2, <1>3 DEF Stores, Stored
  <1>5. DOMAIN savedKey' = Devices /\ \A e \in Devices : Points(e)'
    BY <1>2 DEF DataInv, Points
  <1>6. RequestsGood /\ AnswersGood
    BY <1>2, TakenAreGood
  <1> QED
    BY <1>2, <1>4, <1>5, <1>6, OnlyLocal

Kinds == {"edits", "syncs", "connects", "toggles", "faults"}
Counted == used \in [Kinds -> Nat]

LEMMA StepsCount ==
    ASSUME Counted, Next
    PROVE  Counted'
  <1>1. ASSUME NEW kind \in Kinds, Spend(kind)
        PROVE  Counted'
    BY <1>1 DEF Counted, Spend
  <1>2. ASSUME UNCHANGED used
        PROVE  Counted'
    BY <1>2 DEF Counted
  <1>3. \A bad : Fault(bad) => Spend("faults") \/ UNCHANGED used
    BY DEF Fault
  <1>4. PICK d \in Devices : User(d) \/ Worker(d) \/ Handler(d) \/ Timer(d) \/ Restart(d)
    BY DEF Next
  <1>5. CASE User(d)
    <2>1. (\E kind \in Kinds : Spend(kind)) \/ UNCHANGED used
      BY <1>5 DEF User, CreateSync, JoinSync, DisableSync, UncheckEnabled, CheckEnabled, SyncNow,
                  AddProfile, EditProfile, DeleteProfile, AddKey, DeleteKey, TypeNotes, Edit, Kinds
    <2> QED
      BY <1>1, <1>2, <2>1
  <1>6. CASE Worker(d)
    <2>1. \E bad : Fault(bad)
      BY <1>6 DEF Worker, ServeCreate, ServePush, ServePull
    <2> QED
      BY <1>1, <1>2, <1>3, <2>1 DEF Kinds
  <1>7. CASE Handler(d)
    <2>1. (\E bad : Fault(bad)) \/ UNCHANGED used
      BY <1>7 DEF Handler, OnCreateFinished, OnCreateFailed, OnPushFinished, OnPullFinished, OnPullFailed, world
    <2> QED
      BY <1>1, <1>2, <1>3, <2>1 DEF Kinds
  <1>8. CASE Timer(d)
    BY <1>2, <1>8 DEF Timer, PollTick, DebounceFires, SaveNotes, world
  <1>9. CASE Restart(d)
    BY <1>1, <1>9 DEF Restart, Kinds
  <1> QED
    BY <1>4, <1>5, <1>6, <1>7, <1>8, <1>9

LEMMA ProfileEditsData ==
    ASSUME IInv, DataInv, Counted, NEW d \in Devices, AddProfile(d) \/ EditProfile(d) \/ DeleteProfile(d)
    PROVE  DataInv'
  <1>1. profiles[d] \in Seq(Profile)
    BY DEF DataInv, Stores
  <1>2. FreshId \in Nat \ {0}
    BY DEF Counted, FreshId, Kinds
  <1>3. CASE DeleteProfile(d)
    BY <1>1, <1>3, RemovedStays, SavedData DEF DeleteProfile
  <1>4. CASE EditProfile(d)
    <2>1. PICK i \in DOMAIN profiles[d], t \in Targets : SaveProfiles(d, [profiles[d] EXCEPT ![i].content = t])
      BY <1>4 DEF EditProfile
    <2>2. [profiles[d] EXCEPT ![i].content = t] \in Seq(Profile)
      <3>1. profiles[d][i] \in Profile
        BY <1>1
      <3>2. [profiles[d][i] EXCEPT !.content = t] \in Profile
        BY <3>1 DEF Profile, EntryOf
      <3> QED
        BY <1>1, <3>2
    <2> QED
      BY <2>1, <2>2, SavedData
  <1>5. CASE AddProfile(d)
    <2>1. PICK t \in Targets : SaveProfiles(d, Append(profiles[d], [id |-> FreshId, content |-> t]))
      BY <1>5 DEF AddProfile
    <2> DEFINE e == [id |-> FreshId, content |-> t]
    <2>2. e \in Profile
      BY <1>2 DEF Profile, EntryOf
    <2>3. SaveProfiles(d, Append(profiles[d], e))
      BY <2>1
    <2> HIDE DEF e
    <2>4. Append(profiles[d], e) \in Seq(Profile)
      BY <1>1, <2>2, AppendProperties
    <2> QED
      BY <2>3, <2>4, SavedData
  <1> QED
    BY <1>3, <1>4, <1>5

LEMMA KeyEditsData ==
    ASSUME IInv, DataInv, NEW d \in Devices, AddKey(d) \/ DeleteKey(d)
    PROVE  DataInv'
  <1>1. PICK keys : SaveKeys(d, keys)
    BY DEF AddKey, DeleteKey
  <1>2. /\ vault' = [vault EXCEPT ![d].keys = keys]
        /\ UNCHANGED <<profiles, gistId, req, ans, savedKey, gist>>
    BY <1>1 DEF SaveKeys, control, messages, settings
  <1>3. DOMAIN vault = Devices /\ profiles \in [Devices -> Seq(Profile)] /\ \A e \in Devices : Stored(vault[e])
    BY DEF DataInv, Stores
  <1>4. vault'[d].profiles = vault[d].profiles /\ DOMAIN vault'[d] = DOMAIN vault[d]
    BY <1>2, <1>3 DEF Stored
  <1>5. Stores'
    BY <1>2, <1>3, <1>4 DEF Stores, Stored
  <1>6. DOMAIN savedKey' = Devices /\ \A e \in Devices : Points(e)'
    BY <1>2 DEF DataInv, Points
  <1>7. RequestsGood /\ AnswersGood
    BY <1>2, TakenAreGood
  <1> QED
    BY <1>2, <1>5, <1>6, <1>7, OnlyLocal

LEMMA TypeNotesData ==
    ASSUME IInv, DataInv, NEW d \in Devices, TypeNotes(d)
    PROVE  DataInv'
  <1>1. UNCHANGED <<profiles, vault, gistId, req, ans, savedKey, gist>>
    BY DEF TypeNotes, control, messages, settings
  <1>2. DOMAIN savedKey' = Devices /\ \A e \in Devices : Points(e)'
    BY <1>1 DEF DataInv, Points
  <1>3. RequestsGood /\ AnswersGood
    BY <1>1, TakenAreGood
  <1> QED
    BY <1>1, <1>2, <1>3, NothingStored

LEMMA RestartData ==
    ASSUME IInv, DataInv, NEW d \in Devices, Restart(d)
    PROVE  DataInv'
  <1> DEFINE reconnect == enabled[d] /\ savedKey[d] # NoGist
  <1> HIDE DEF reconnect
  <1>1. /\ gistId' = [gistId EXCEPT ![d] = IF reconnect THEN savedKey[d] ELSE NoGist]
        /\ req' = [req EXCEPT ![d] = IF reconnect THEN <<Request("Pull", savedKey[d], NoBody)>> ELSE <<>>]
        /\ ans' = [ans EXCEPT ![d] = <<>>]
        /\ profiles' = [profiles EXCEPT ![d] = vault[d].profiles]
        /\ UNCHANGED <<savedKey, gist>>
        /\ \E page : vault' = [vault EXCEPT ![d].notes = page]
    BY DEF Restart, reconnect, settings
  <1>2. DOMAIN vault = Devices /\ profiles \in [Devices -> Seq(Profile)] /\ \A e \in Devices : Stored(vault[e])
    BY DEF DataInv, Stores
  <1>3. Stores'
    <2>1. PICK page : vault' = [vault EXCEPT ![d].notes = page]
      BY <1>1
    <2>2. vault'[d].profiles = vault[d].profiles /\ DOMAIN vault'[d] = DOMAIN vault[d]
      BY <1>2, <2>1 DEF Stored
    <2>3. Stored(vault'[d])
      BY <1>2, <2>2 DEF Stored
    <2>4. DOMAIN vault' = Devices /\ \A e \in Devices \ {d} : vault'[e] = vault[e]
      BY <1>2, <2>1
    <2>5. profiles' \in [Devices -> Seq(Profile)]
      BY <1>1, <1>2 DEF Stored
    <2> QED
      BY <1>2, <2>3, <2>4, <2>5 DEF Stores, Stored
  <1>4. DOMAIN savedKey' = Devices
    BY <1>1 DEF DataInv
  <1>5. \A e \in Devices : Points(e)'
    BY <1>1 DEF DataInv, Points, IInv, Shape
  <1>6. AnswersGood
    BY <1>1, TakenAreGood
  <1>7. RequestsGood
    <2>1. CASE reconnect
      <3> DEFINE r == Request("Pull", savedKey[d], NoBody)
      <3>1. savedKey[d] \in DOMAIN gist'
        BY <1>1, <2>1 DEF DataInv, Points, reconnect
      <3>2. Sent(r, DOMAIN gist')
        BY <3>1, NothingIsBody DEF Sent, Request
      <3>3. req' = [req EXCEPT ![d] = <<r>>]
        BY <1>1, <2>1
      <3> HIDE DEF r
      <3>4. DOMAIN req'[d] = {1} /\ req'[d][1] = r /\ \A e \in Devices \ {d} : req'[e] = req[e]
        BY <3>3, AppendToEmpty DEF IInv, Shape
      <3> QED
        BY <3>2, <3>4 DEF RequestsGood
    <2>2. CASE ~reconnect
      <3>1. req' = [req EXCEPT ![d] = <<>>]
        BY <1>1, <2>2
      <3> QED
        BY <3>1, TakenAreGood
    <2> QED
      BY <2>1, <2>2
  <1> QED
    BY <1>1, <1>3, <1>4, <1>5, <1>6, <1>7, OnlyLocal

(* The revisions.                                                              *)
LEMMA RevisionsKept ==
    ASSUME RevInv, UNCHANGED <<rev, savedRev>>,
           \A e \in Devices : pending'[e] = pending[e] \/ pending'[e] # "Join"
    PROVE  RevInv'
  BY DEF RevInv, Revised

LEMMA RevisionSet ==
    ASSUME IInv, RevInv, NEW d \in Devices, NEW n \in Nat, rev' = [rev EXCEPT ![d] = n],
           savedRev' \in {savedRev, [savedRev EXCEPT ![d] = n]},
           \A e \in Devices \ {d} : pending'[e] = pending[e],
           pending'[d] # "Join" \/ n = 0
    PROVE  RevInv'
  <1>1. rev'[d] = n /\ \A e \in Devices \ {d} : rev'[e] = rev[e]
    BY DEF IInv, Shape
  <1>2. /\ DOMAIN savedRev' = Devices /\ savedRev'[d] \in Nat
        /\ \A e \in Devices \ {d} : savedRev'[e] = savedRev[e]
    BY DEF RevInv, Revised
  <1> QED
    BY <1>1, <1>2 DEF RevInv, Revised

LEMMA UserRevisions ==
    ASSUME IInv, RevInv, NEW d \in Devices, User(d)
    PROVE  RevInv'
  <1>0. DOMAIN pending = Devices /\ rev[d] \in Nat /\ savedRev[d] \in Nat
    BY DEF IInv, Shape, ControlTypeOK, RevInv, Revised
  <1>1. CASE CreateSync(d) \/ DisableSync(d)
    <2>1. /\ rev' = [rev EXCEPT ![d] = 0] /\ savedRev' = [savedRev EXCEPT ![d] = 0]
          /\ \A e \in Devices \ {d} : pending'[e] = pending[e]
      BY <1>0, <1>1 DEF CreateSync, DisableSync
    <2> QED
      BY <2>1, RevisionSet
  <1>2. CASE JoinSync(d)
    <2>1. /\ rev' = [rev EXCEPT ![d] = 0] /\ savedRev' = savedRev
          /\ \A e \in Devices \ {d} : pending'[e] = pending[e]
      BY <1>0, <1>2 DEF JoinSync, BeginJoin
    <2> QED
      BY <2>1, RevisionSet
  <1>3. CASE CheckEnabled(d)
    <2>1. CASE BeginJoin(d, savedKey[d], TRUE)
      <3>1. /\ rev' = [rev EXCEPT ![d] = savedRev[d]] /\ savedRev' = savedRev
            /\ \A e \in Devices \ {d} : pending'[e] = pending[e]
            /\ pending'[d] = "Pull"
        BY <1>0, <1>3, <2>1 DEF CheckEnabled, BeginJoin
      <3> QED
        BY <1>0, <3>1, RevisionSet
    <2>2. CASE UNCHANGED <<pending, rev>>
      BY <1>3, <2>2, RevisionsKept DEF CheckEnabled
    <2> QED
      BY <1>3, <2>1, <2>2 DEF CheckEnabled
  <1>4. CASE SyncNow(d)
    <2>1. UNCHANGED <<rev, savedRev>> /\ \A e \in Devices : pending'[e] = pending[e] \/ pending'[e] # "Join"
      BY <1>0, <1>4 DEF SyncNow, PullNow, settings
    <2> QED
      BY <2>1, RevisionsKept
  <1>5. ASSUME UNCHANGED <<rev, savedRev, pending>>
        PROVE  RevInv'
    BY <1>5, RevisionsKept
  <1>6. CASE UncheckEnabled(d)
    BY <1>5, <1>6 DEF UncheckEnabled
  <1>7. CASE AddProfile(d) \/ EditProfile(d) \/ DeleteProfile(d)
    BY <1>5, <1>7 DEF AddProfile, EditProfile, DeleteProfile, SaveProfiles, settings
  <1>8. CASE AddKey(d) \/ DeleteKey(d) \/ TypeNotes(d)
    BY <1>5, <1>8 DEF AddKey, DeleteKey, TypeNotes, SaveKeys, settings, control
  <1> QED
    BY <1>1, <1>2, <1>3, <1>4, <1>6, <1>7, <1>8 DEF User

LEMMA TimerRevisions ==
    ASSUME IInv, RevInv, NEW d \in Devices, Timer(d) \/ Worker(d)
    PROVE  RevInv'
  <1>0. DOMAIN pending = Devices
    BY DEF IInv, Shape, ControlTypeOK
  <1>1. CASE Worker(d)
    BY <1>1, RevisionsKept DEF Worker, ServeCreate, ServePush, ServePull, Posted, control, settings
  <1>2. CASE Timer(d)
    <2>1. UNCHANGED <<rev, savedRev>>
      BY <1>2 DEF Timer, PollTick, DebounceFires, SaveNotes, settings
    <2>2. \A e \in Devices : pending'[e] = pending[e] \/ pending'[e] # "Join"
      BY <1>0, <1>2 DEF Timer, PollTick, DebounceFires, SaveNotes, PullNow, PushNow, UploadSnapshot
    <2> QED
      BY <2>1, <2>2, RevisionsKept
  <1> QED
    BY <1>1, <1>2

LEMMA RestartRevisions ==
    ASSUME IInv, RevInv, NEW d \in Devices, Restart(d)
    PROVE  RevInv'
  <1> DEFINE reconnect == enabled[d] /\ savedKey[d] # NoGist
  <1>1. DOMAIN pending = Devices /\ savedRev[d] \in Nat
    BY DEF IInv, Shape, ControlTypeOK, RevInv, Revised
  <1> HIDE DEF reconnect
  <1>2. /\ rev' = [rev EXCEPT ![d] = IF reconnect THEN savedRev[d] ELSE 0] /\ savedRev' = savedRev
        /\ pending' = [pending EXCEPT ![d] = IF reconnect THEN "Pull" ELSE "None"]
    BY DEF Restart, reconnect, settings
  <1>3. PICK n \in Nat : rev' = [rev EXCEPT ![d] = n]
    BY <1>1, <1>2
  <1>4. pending'[d] # "Join" /\ \A e \in Devices \ {d} : pending'[e] = pending[e]
    BY <1>1, <1>2
  <1> QED
    BY <1>2, <1>3, <1>4, RevisionSet

LEMMA FlushRevisions ==
    ASSUME IInv, NEW d \in Devices, NEW want, FlushQueuedPush(d, want)
    PROVE  pending'[d] # "Join" /\ \A e \in Devices \ {d} : pending'[e] = pending[e]
  BY DEF FlushQueuedPush, UploadSnapshot, IInv, Shape, ControlTypeOK

LEMMA HandlerRevisions ==
    ASSUME IInv, DataInv, RevInv, NEW d \in Devices, Handler(d)
    PROVE  RevInv'
  <1>0. DOMAIN pending = Devices /\ rev[d] \in Nat
    BY DEF IInv, Shape, ControlTypeOK, RevInv, Revised
  <1>1. CASE OnCreateFinished(d)
    <2>1. /\ rev' = [rev EXCEPT ![d] = 1] /\ savedRev' = [savedRev EXCEPT ![d] = 1]
          /\ pending'[d] # "Join" /\ \A e \in Devices \ {d} : pending'[e] = pending[e]
      BY <1>0, <1>1 DEF OnCreateFinished
    <2> QED
      BY <2>1, RevisionSet
  <1>2. CASE OnCreateFailed(d) \/ OnPullFailed(d)
    <2>1. UNCHANGED <<rev, savedRev>> /\ \A e \in Devices : pending'[e] = pending[e] \/ pending'[e] # "Join"
      BY <1>0, <1>2 DEF OnCreateFailed, OnPullFailed, settings
    <2> QED
      BY <2>1, RevisionsKept
  <1>3. CASE OnPushFinished(d)
    <2>1. PICK ok \in BOOLEAN :
             /\ rev' = [rev EXCEPT ![d] = IF ok THEN @ + 1 ELSE @]
             /\ savedRev' = [savedRev EXCEPT ![d] = IF ok THEN rev[d] + 1 ELSE @]
             /\ FlushQueuedPush(d, syncNowQueued[d] \/ pushQueued[d])
      BY <1>3 DEF OnPushFinished
    <2>2. pending'[d] # "Join" /\ \A e \in Devices \ {d} : pending'[e] = pending[e]
      BY <2>1, FlushRevisions
    <2>3. CASE ok = TRUE
      <3>1. rev' = [rev EXCEPT ![d] = rev[d] + 1] /\ savedRev' = [savedRev EXCEPT ![d] = rev[d] + 1]
        BY <2>1, <2>3
      <3>2. rev[d] + 1 \in Nat
        BY <1>0
      <3> QED
        BY <2>2, <3>1, <3>2, RevisionSet
    <2>4. CASE ok = FALSE
      <3>1. /\ DOMAIN savedRev' = Devices
            /\ \A e \in Devices : rev'[e] = rev[e] /\ savedRev'[e] = savedRev[e]
        BY <2>1, <2>4 DEF RevInv, IInv, Shape
      <3> QED
        BY <2>2, <3>1 DEF RevInv, Revised
    <2> QED
      BY <2>3, <2>4
  <1>4. CASE OnPullFinished(d)
    <2>1. PICK ok, wants, want, joining :
             /\ Receive(d, "Pull", TRUE, {"Pull", "Join"})
             /\ ReconcileFromRemote(d, Head(ans[d]).body, joining, ok, wants)
             /\ FlushQueuedPush(d, want)
      BY <1>4 DEF OnPullFinished
    <2>2. pending'[d] # "Join" /\ \A e \in Devices \ {d} : pending'[e] = pending[e]
      BY <2>1, FlushRevisions
    <2>3. Head(ans[d]).op = "Pull" /\ Got(Head(ans[d]), DOMAIN gist)
      BY <2>1, TakenIsGood
    <2> DEFINE r == Head(ans[d]).body
    <2>4. r.rev \in Nat
      BY <2>3 DEF Got, Upload
    <2> HIDE DEF r
    <2>5. AdoptRevision(d, r) \/ UNCHANGED <<rev, savedRev>>
      BY <2>1 DEF ReconcileFromRemote, KeepLocal, MergeOnJoin, HealDuplicates, ApplyNewer, r
    <2>6. CASE AdoptRevision(d, r)
      <3> DEFINE newest == IF r.rev > rev[d] THEN r.rev ELSE rev[d]
      <3>1. newest \in Nat
        BY <1>0, <2>4
      <3>2. rev' = [rev EXCEPT ![d] = newest] /\ savedRev' = [savedRev EXCEPT ![d] = newest]
        BY <2>6 DEF AdoptRevision
      <3> HIDE DEF newest
      <3> QED
        BY <2>2, <3>1, <3>2, RevisionSet
    <2>7. CASE UNCHANGED <<rev, savedRev>>
      BY <2>2, <2>7, RevisionsKept
    <2> QED
      BY <2>5, <2>6, <2>7
  <1> QED
    BY <1>1, <1>2, <1>3, <1>4 DEF Handler

LEMMA RevisionsStay ==
    ASSUME IInv, DataInv, RevInv, Next
    PROVE  RevInv'
  BY UserRevisions, TimerRevisions, RestartRevisions, HandlerRevisions DEF Next

LEMMA DataStays ==
    ASSUME IInv, DataInv, RevInv', Counted, Next
    PROVE  DataInv'
  <1>1. PICK d \in Devices : User(d) \/ Worker(d) \/ Handler(d) \/ Timer(d) \/ Restart(d)
    BY DEF Next
  <1>2. CASE User(d)
    BY <1>2, CreateSyncData, JoinSyncData, DisableSyncData, UncheckEnabledData, CheckEnabledData, AskingData,
       ProfileEditsData, KeyEditsData, TypeNotesData DEF User
  <1>3. CASE Worker(d)
    BY <1>3, WorkerData
  <1>4. CASE Handler(d)
    BY <1>4, OnCreateFinishedData, FailuresData, OnPushFinishedData, OnPullFinishedData DEF Handler
  <1>5. CASE Timer(d)
    BY <1>5, AskingData, PushersData DEF Timer
  <1>6. CASE Restart(d)
    BY <1>6, RestartData
  <1> QED
    BY <1>1, <1>2, <1>3, <1>4, <1>5, <1>6

LEMMA PageStays ==
    ASSUME Next
    PROVE  DOMAIN editor' = DOMAIN editor
  <1>1. ASSUME NEW d, NEW r, NEW joining, NEW ok, NEW wants, ReconcileFromRemote(d, r, joining, ok, wants)
        PROVE  DOMAIN editor' = DOMAIN editor
    <2>1. KeepData(d) \/ \E p : Apply(d, p, ok)
      BY <1>1 DEF ReconcileFromRemote, KeepLocal, MergeOnJoin, HealDuplicates, ApplyNewer
    <2> QED
      BY <2>1 DEF KeepData, Apply
  <1>2. PICK d \in Devices : User(d) \/ Worker(d) \/ Handler(d) \/ Timer(d) \/ Restart(d)
    BY DEF Next
  <1>3. CASE User(d)
    BY <1>3 DEF User, CreateSync, KeepData, JoinSync, DisableSync, UncheckEnabled, CheckEnabled, SyncNow, AddProfile, EditProfile,
                DeleteProfile, SaveProfiles, AddKey, DeleteKey, SaveKeys, TypeNotes, data
  <1>4. CASE Worker(d)
    BY <1>4 DEF Worker, ServeCreate, ServePush, ServePull, Posted, data
  <1>5. CASE Handler(d)
    BY <1>1, <1>5 DEF Handler, OnCreateFinished, OnCreateFailed, OnPushFinished, OnPullFinished, OnPullFailed, data
  <1>6. CASE Timer(d)
    BY <1>6 DEF Timer, PollTick, DebounceFires, SaveNotes, KeepData, data
  <1>7. CASE Restart(d)
    BY <1>7 DEF Restart
  <1> QED
    BY <1>2, <1>3, <1>4, <1>5, <1>6, <1>7

(* The rest of what the proof carries along: what a count is, and a page each. *)
Whence == Counted /\ DOMAIN editor = Devices

(* Devices, gists and messages hold profile lists, a message or a saved key    *)
(* names a gist that there is, what is uploaded or downloaded has a revision,  *)
(* and a device that joins knows none.                                         *)
THEOREM DataIsWhole == Spec => [](IInv /\ DataInv /\ RevInv /\ Whence)
  <1>1. Init => Whence /\ RevInv
    BY DEF Init, Whence, Counted, Kinds, Bound, RevInv, Revised
  <1>2. IInv /\ DataInv /\ RevInv /\ Whence /\ [Next]_vars => (DataInv /\ RevInv /\ Whence)'
    <2> SUFFICES ASSUME IInv, DataInv, RevInv, Whence, [Next]_vars
                 PROVE  (DataInv /\ RevInv /\ Whence)'
      OBVIOUS
    <2>1. CASE Next
      BY <2>1, DataStays, RevisionsStay, StepsCount, PageStays DEF Whence
    <2>2. CASE UNCHANGED vars
      <3>1. /\ UNCHANGED <<pending, gistId, rev, savedKey, savedRev, req, ans>>
            /\ UNCHANGED <<profiles, vault, editor, gist, used>>
        BY <2>2 DEF vars, control, messages, settings, data, world
      <3>2. Stores' /\ Published'
        BY <3>1 DEF DataInv, Stores, Stored, Published, Upload, Body
      <3>3. RequestsGood /\ AnswersGood /\ DOMAIN savedKey' = Devices /\ \A e \in Devices : Points(e)'
        BY <3>1 DEF DataInv, Points, RequestsGood, AnswersGood
      <3>4. DataInv'
        BY <3>1, <3>2, <3>3, OnlyLocal
      <3>5. RevInv' /\ Whence'
        BY <3>1 DEF RevInv, Revised, Whence, Counted
      <3> QED
        BY <3>4, <3>5
    <2> QED
      BY <2>1, <2>2
  <1> QED
    BY <1>1, <1>2, DataStarts, Invariance, PTL DEF Spec

-----------------------------------------------------------------------------
(* Both sides of a merge are in it, the remote one first.                      *)
LEMMA HoldsRemote ==
    ASSUME NEW D \in Seq(Entry), NEW A \in Seq(Entry), NEW R \in Seq(Entry), Holds(D, <<>>, R, Len(R))
    PROVE  KeptUnlessTwin(D \o A, R)
  <1> DEFINE M == D \o A
  <1> SUFFICES ASSUME NEW i \in DOMAIN R
               PROVE  R[i] \in ToSet(M) \/ \E j \in 1..i - 1 : Clash(R[j], R[i])
    BY DEF KeptUnlessTwin
  <1>1. i \in 1..Len(R) /\ DOMAIN <<>> = {}
    OBVIOUS
  <1>2. (\E k \in DOMAIN D : D[k] = R[i]) \/ Missing(<<>>, R, i)
    BY <1>1 DEF Holds
  <1>3. ASSUME NEW k \in DOMAIN D, D[k] = R[i]
        PROVE  R[i] \in ToSet(M)
    <2>1. k \in DOMAIN M /\ M[k] = D[k]
      BY JoinedAt
    <2> HIDE DEF M
    <2> QED
      BY <1>3, <2>1 DEF ToSet
  <1>4. ~Represents(<<>>, R[i])
    BY <1>1 DEF Represents
  <1> HIDE DEF M
  <1> QED
    BY <1>2, <1>3, <1>4 DEF Missing

LEMMA HoldsLocal ==
    ASSUME NEW D \in Seq(Entry), NEW A \in Seq(Entry), NEW R \in Seq(Entry), NEW L \in Seq(Entry),
           Holds(D, <<>>, R, Len(R)), Holds(A, R, L, Len(L))
    PROVE  KeptUnlessTwin(D \o A, R \o L)
  <1> DEFINE M == D \o A
             B == R \o L
  <1> SUFFICES ASSUME NEW i \in DOMAIN B
               PROVE  B[i] \in ToSet(M) \/ \E j \in 1..i - 1 : Clash(B[j], B[i])
    BY DEF KeptUnlessTwin
  <1>0. /\ Len(R) \in Nat /\ DOMAIN R = 1..Len(R)
        /\ Len(L) \in Nat /\ DOMAIN L = 1..Len(L)
    OBVIOUS
  <1>1. \A k \in DOMAIN R : k \in DOMAIN B /\ B[k] = R[k]
    BY JoinedAt
  <1>2. \A k \in DOMAIN L : Len(R) + k \in DOMAIN B /\ B[Len(R) + k] = L[k]
    BY JoinedAt
  <1>3. i \in DOMAIN R \/ (i - Len(R) \in DOMAIN L /\ Len(R) + (i - Len(R)) = i)
    BY JoinedAt
  <1>4. KeptUnlessTwin(M, R)
    BY HoldsRemote
  <1>5. \A k \in DOMAIN A : A[k] \in ToSet(M)
    <2>1. \A k \in DOMAIN A : Len(D) + k \in DOMAIN M /\ M[Len(D) + k] = A[k]
      BY JoinedAt
    <2> HIDE DEF M
    <2> QED
      BY <2>1 DEF ToSet
  <1> HIDE DEF M, B
  <1>6. CASE i \in DOMAIN R
    <2>1. R[i] \in ToSet(M) \/ \E j \in 1..i - 1 : Clash(R[j], R[i])
      BY <1>4, <1>6 DEF KeptUnlessTwin
    <2>2. i \in DOMAIN R /\ \A j \in 1..i - 1 : j \in DOMAIN R
      BY <1>0, <1>6
    <2>3. B[i] = R[i] /\ \A j \in 1..i - 1 : B[j] = R[j]
      BY <1>1, <2>2
    <2> QED
      BY <2>1, <2>3
  <1>7. ASSUME i - Len(R) \in DOMAIN L, Len(R) + (i - Len(R)) = i
        PROVE  B[i] \in ToSet(M) \/ \E j \in 1..i - 1 : Clash(B[j], B[i])
    <2> DEFINE l == i - Len(R)
    <2>1. l \in 1..Len(L) /\ Len(R) + l = i /\ B[i] = L[l]
      BY <1>0, <1>2, <1>7
    <2> HIDE DEF l
    <2>2. (\E k \in DOMAIN A : A[k] = L[l]) \/ Represents(R, L[l]) \/ \E k \in 1..l - 1 : Clash(L[k], L[l])
      BY <2>1 DEF Holds, Missing
    <2>3. CASE \E k \in DOMAIN A : A[k] = L[l]
      BY <1>5, <2>1, <2>3
    <2>4. CASE Represents(R, L[l])
      <3>1. PICK k \in DOMAIN R : Clash(R[k], L[l])
        BY <2>4 DEF Represents
      <3>2. k \in 1..i - 1
        BY <1>0, <2>1
      <3> QED
        BY <1>1, <2>1, <3>1, <3>2
    <2>5. CASE \E k \in 1..l - 1 : Clash(L[k], L[l])
      <3>1. PICK k \in 1..l - 1 : Clash(L[k], L[l])
        BY <2>5
      <3>2. k \in DOMAIN L /\ Len(R) + k \in 1..i - 1
        BY <1>0, <2>1
      <3> QED
        BY <1>2, <2>1, <3>1, <3>2
    <2> QED
      BY <2>2, <2>3, <2>4, <2>5
  <1> QED
    BY <1>3, <1>6, <1>7

LEMMA NothingElse ==
    ASSUME NEW D \in Seq(Entry), NEW A \in Seq(Entry), NEW R \in Seq(Entry), NEW L \in Seq(Entry),
           Among(D, R), Among(A, L)
    PROVE  ToSet(D \o A) \subseteq ToSet(R \o L)
  <1> DEFINE M == D \o A
             B == R \o L
  <1>1. /\ \A k \in DOMAIN R : k \in DOMAIN B /\ B[k] = R[k]
        /\ \A k \in DOMAIN L : Len(R) + k \in DOMAIN B /\ B[Len(R) + k] = L[k]
    BY JoinedAt
  <1>2. ASSUME NEW j \in DOMAIN M
        PROVE  \/ j \in DOMAIN D /\ M[j] = D[j]
               \/ j - Len(D) \in DOMAIN A /\ M[j] = A[j - Len(D)]
    BY JoinedAt
  <1> HIDE DEF M, B
  <1>3. ASSUME NEW j \in DOMAIN M
        PROVE  \E k \in DOMAIN B : M[j] = B[k]
    <2>1. CASE j \in DOMAIN D /\ M[j] = D[j]
      BY <1>1, <2>1 DEF Among
    <2>2. CASE j - Len(D) \in DOMAIN A /\ M[j] = A[j - Len(D)]
      BY <1>1, <2>2 DEF Among
    <2> QED
      BY <1>2, <2>1, <2>2
  <1>4. ToSet(M) \subseteq ToSet(B)
    BY <1>3 DEF ToSet
  <1> QED
    BY <1>4 DEF M, B

LEMMA MergeHoldsBoth ==
    ASSUME NEW L \in Seq(Profile), NEW R \in Seq(Profile)
    PROVE  BothSidesOf(Added(<<>>, Added(R, L)), R, L)
  <1>1. L \in Seq(Entry) /\ R \in Seq(Entry)
    BY ProfilesAreEntries
  <1>2. PICK D \in Seq(Entry), A \in Seq(Entry) : Parts(D, A, R, L)
    BY <1>1, MergeTakenApart
  <1>3. /\ Added(<<>>, Added(R, L)) = D \o A
        /\ Holds(D, <<>>, R, Len(R)) /\ Holds(A, R, L, Len(L)) /\ Among(D, R) /\ Among(A, L)
    BY <1>2 DEF Parts
  <1>4. KeptUnlessTwin(D \o A, R)
    BY <1>1, <1>3, HoldsRemote
  <1>5. KeptUnlessTwin(D \o A, R \o L)
    BY <1>1, <1>3, HoldsLocal
  <1>6. ToSet(D \o A) \subseteq ToSet(R \o L)
    BY <1>1, <1>3, NothingElse
  <1> QED
    BY <1>3, <1>4, <1>5, <1>6 DEF BothSidesOf

LEMMA CleaningHolds ==
    ASSUME NEW R \in Seq(Profile)
    PROVE  BothSidesOf(Added(<<>>, R), R, <<>>)
  <1>1. <<>> \in Seq(Profile) /\ <<>> \in Seq(Entry) /\ R \in Seq(Entry) /\ DOMAIN <<>> = {}
    BY ProfilesAreEntries
  <1>2. AllRepresented(R, <<>>)
    BY <1>1 DEF AllRepresented
  <1>3. Added(R, <<>>) = R
    BY <1>1, <1>2, AddedToCovering
  <1> QED
    BY <1>1, <1>3, MergeHoldsBoth

(* The step in which a device has joined is the one that takes in what was     *)
(* downloaded, and nothing failed in it.                                       *)
LEMMA JoinsApply ==
    ASSUME IInv, DataInv, RevInv, Whence, Next, NEW d \in Devices, Joins(d)
    PROVE  \E r, wants :
             /\ r = Head(ans[d]).body /\ Upload(r) /\ rev[d] = 0
             /\ ReconcileFromRemote(d, r, TRUE, TRUE, wants)
  <1>0. Shape /\ DOMAIN state = Devices /\ DOMAIN ans = Devices
    BY DEF IInv, Shape, ControlTypeOK
  <1>1. PICK e \in Devices : User(e) \/ Worker(e) \/ Handler(e) \/ Timer(e) \/ Restart(e)
    BY DEF Next
  <1>2. /\ pending[d] = "Join" /\ ans[d] # <<>> /\ Head(ans[d]).ok
        /\ ans'[d] = <<>> /\ state'[d] = "Active" /\ used' = used
    BY DEF Joins
  <1>3. ASSUME NEW op, NEW ok, NEW awaited, Receive(e, op, ok, awaited)
        PROVE  e = d
    BY <1>0, <1>2, <1>3 DEF Receive
  <1>4. ~User(e)
    <2>1. CASE DisableSync(e)
      BY <1>0, <1>2, <2>1 DEF DisableSync
    <2>2. ASSUME ans' = ans
          PROVE  FALSE
      BY <1>2, <2>2
    <2> QED
      BY <2>1, <2>2 DEF User, CreateSync, JoinSync, UncheckEnabled, CheckEnabled, SyncNow, AddProfile, EditProfile, DeleteProfile,
                        AddKey, DeleteKey, TypeNotes, SaveProfiles, SaveKeys, messages
  <1>5. ~Worker(e)
    <2>1. ASSUME NEW a, Posted(e, a)
          PROVE  FALSE
      <3>1. ans' = [ans EXCEPT ![e] = Append(@, a)]
        BY <2>1 DEF Posted
      <3>2. e = d
        BY <1>0, <1>2, <3>1
      <3>3. ans'[d] = Append(ans[d], a)
        BY <1>0, <3>1, <3>2
      <3>4. ans[d] = <<ans[d][1]>>
        BY <1>2, QueuesAreShort
      <3> DEFINE x == ans[d][1]
      <3> HIDE DEF x
      <3>5. ans[d] = <<x>>
        BY <3>4 DEF x
      <3>6. DOMAIN Append(<<x>>, a) = {1, 2}
        BY TwoItems
      <3>7. DOMAIN ans'[d] = {1, 2}
        BY <3>3, <3>5, <3>6
      <3> QED
        BY <1>2, <3>7, AppendToEmpty
    <2> QED
      BY <2>1 DEF Worker, ServeCreate, ServePush, ServePull
  <1>6. ~Timer(e)
    BY <1>2 DEF Timer, PollTick, DebounceFires, SaveNotes
  <1>7. ~Restart(e)
    <2>1. ASSUME Restart(e)
          PROVE  FALSE
      <3>1. state' = [state EXCEPT ![e] = IF enabled[e] /\ savedKey[e] # NoGist THEN "Connecting" ELSE "Disabled"]
        BY <2>1 DEF Restart
      <3>2. ans' = [ans EXCEPT ![e] = <<>>]
        BY <2>1 DEF Restart
      <3>3. e = d
        BY <1>0, <1>2, <3>2
      <3> QED
        BY <1>0, <1>2, <3>1, <3>3
    <2> QED
      BY <2>1
  <1>8. Handler(e)
    BY <1>1, <1>4, <1>5, <1>6, <1>7
  <1>9. OnPullFinished(e)
    <2>1. ~OnCreateFinished(e) /\ ~OnCreateFailed(e) /\ ~OnPushFinished(e)
      <3>1. ASSUME NEW op, NEW ok, NEW awaited, Receive(e, op, ok, awaited)
            PROVE  "Join" \in awaited
        BY <1>2, <1>3, <3>1 DEF Receive
      <3>2. "Join" \notin {"Create"} /\ "Join" \notin {"Push"}
        OBVIOUS
      <3> QED
        BY <3>1, <3>2 DEF OnCreateFinished, OnCreateFailed, OnPushFinished
    <2>2. ~OnPullFailed(e)
      <3>1. ASSUME OnPullFailed(e)
            PROVE  FALSE
        <4>1. Receive(e, "Pull", FALSE, {"Pull", "Join"})
          BY <3>1 DEF OnPullFailed
        <4>2. e = d /\ Head(ans[e]).ok = FALSE
          BY <1>3, <4>1 DEF Receive
        <4> QED
          BY <1>2, <4>2
      <3> QED
        BY <3>1
    <2> QED
      BY <1>8, <2>1, <2>2 DEF Handler
  <1>10. PICK ok \in BOOLEAN, wants \in BOOLEAN :
           /\ Receive(e, "Pull", TRUE, {"Pull", "Join"})
           /\ ReconcileFromRemote(e, Head(ans[e]).body, pending[e] = "Join", ok, wants)
           /\ Fault(~ok)
    BY <1>9 DEF OnPullFinished
  <1>11. e = d
    BY <1>3, <1>10
  <1>12. (pending[e] = "Join") = TRUE
    BY <1>2, <1>11
  <1>13. ok = TRUE
    <2>1. ASSUME ok = FALSE
          PROVE  FALSE
      <3>1. used' = [used EXCEPT !["faults"] = @ + 1]
        BY <1>10, <2>1 DEF Fault, Spend
      <3>2. "faults" \in DOMAIN used /\ used["faults"] \in Nat
        BY DEF Whence, Counted, Kinds
      <3>3. used'["faults"] = used["faults"] + 1
        BY <3>1, <3>2
      <3> QED
        BY <1>2, <3>2, <3>3
    <2> QED
      BY <2>1
  <1>14. ReconcileFromRemote(d, Head(ans[d]).body, TRUE, TRUE, wants)
    BY <1>10, <1>11, <1>12, <1>13
  <1>15. Upload(Head(ans[d]).body)
    BY <1>10, <1>11, TakenIsGood DEF Got
  <1>16. rev[d] = 0
    BY <1>2 DEF RevInv, Revised
  <1> QED
    BY <1>14, <1>15, <1>16

(* What a device holds when it has applied p, and the keys it keeps.           *)
LEMMA AppliedIs ==
    ASSUME DataInv, Whence, NEW d \in Devices, NEW p, Apply(d, p, TRUE)
    PROVE  /\ profiles'[d] = p.profiles /\ editor'[d] = p.notes
           /\ \A k \in vault[d].keys : \E m \in vault'[d].keys : m.id = k.id
  <1>1. DOMAIN vault = Devices /\ DOMAIN profiles = Devices /\ DOMAIN editor = Devices
    BY DEF DataInv, Stores, Whence
  <1>2. /\ profiles' = [profiles EXCEPT ![d] = p.profiles]
        /\ editor' = [editor EXCEPT ![d] = p.notes]
        /\ vault' = [vault EXCEPT ![d] = [profiles |-> p.profiles, keys |-> StoreKeys(@.keys, p.keys), notes |-> p.notes]]
    BY DEF Apply
  <1>3. vault'[d].keys = StoreKeys(vault[d].keys, p.keys)
    BY <1>1, <1>2
  <1>4. ASSUME NEW k \in vault[d].keys
        PROVE  \E m \in StoreKeys(vault[d].keys, p.keys) : m.id = k.id
    <2>1. CASE \E i \in DOMAIN p.keys : p.keys[i].id = k.id
      BY <2>1 DEF StoreKeys, ToSet
    <2>2. CASE \A i \in DOMAIN p.keys : p.keys[i].id # k.id
      BY <2>2 DEF StoreKeys
    <2> QED
      BY <2>1, <2>2
  <1> QED
    BY <1>1, <1>2, <1>3, <1>4

KeepsBoth(d, r) ==
    /\ BothSidesOf(profiles'[d], r.profiles, profiles[d])
    /\ editor'[d] = (IF r.notes = Blank THEN editor[d] ELSE r.notes)
    /\ \A k \in vault[d].keys : \E m \in vault'[d].keys : m.id = k.id

LEMMA JoinHoldsBoth ==
    ASSUME DataInv, Whence, NEW d \in Devices, NEW r, Upload(r), rev[d] = 0, NEW wants, HasData(r),
           ReconcileFromRemote(d, r, TRUE, TRUE, wants)
    PROVE  KeepsBoth(d, r)
  <1>1. /\ Whole(Local(d)) /\ Local(d).profiles = profiles[d] /\ Local(d).notes = editor[d]
        /\ Whole(r) /\ profiles[d] \in Seq(Profile) /\ r.profiles \in Seq(Profile)
    BY BodiesAreWhole DEF Upload, Body, DataInv, Stores
  <1>2. ~MustKeepLocal(d, r, TRUE)
    BY DEF MustKeepLocal, RemoteEmpty
  <1>3. CASE HasData(Local(d))
    <2> DEFINE p == MergeSnapshots(Local(d), r)
    <2>1. Apply(d, p, TRUE)
      BY <1>2, <1>3 DEF ReconcileFromRemote, KeepLocal, MergeOnJoin, HealDuplicates, ApplyNewer, MustMerge
    <2>2. /\ p.profiles = Added(<<>>, Added(r.profiles, profiles[d]))
          /\ p.notes = IF r.notes = Blank THEN editor[d] ELSE r.notes
      BY <1>1, MergedIs
    <2> HIDE DEF p
    <2>3. /\ profiles'[d] = p.profiles /\ editor'[d] = p.notes
          /\ \A k \in vault[d].keys : \E m \in vault'[d].keys : m.id = k.id
      BY <2>1, AppliedIs
    <2>4. BothSidesOf(p.profiles, r.profiles, profiles[d])
      BY <1>1, <2>2, MergeHoldsBoth
    <2> QED
      BY <2>2, <2>3, <2>4 DEF KeepsBoth
  <1>4. CASE ~HasData(Local(d))
    <2>1. profiles[d] = <<>> /\ editor[d] = Blank
      BY <1>1, <1>4 DEF HasData
    <2> DEFINE p == DedupePayload(r)
    <2>2. ~(r.rev <= rev[d])
      BY DEF Upload
    <2>3. Apply(d, p, TRUE)
      BY <1>2, <1>4, <2>2 DEF ReconcileFromRemote, KeepLocal, MergeOnJoin, HealDuplicates, ApplyNewer, MustMerge
    <2>4. p.profiles = Added(<<>>, r.profiles) /\ p.notes = r.notes
      BY <1>1, CleanedIs
    <2> HIDE DEF p
    <2>5. /\ profiles'[d] = p.profiles /\ editor'[d] = p.notes
          /\ \A k \in vault[d].keys : \E m \in vault'[d].keys : m.id = k.id
      BY <2>3, AppliedIs
    <2>6. BothSidesOf(p.profiles, r.profiles, profiles[d])
      BY <1>1, <2>1, <2>4, CleaningHolds
    <2> QED
      BY <2>1, <2>4, <2>5, <2>6 DEF KeepsBoth
  <1> QED
    BY <1>3, <1>4

(* Joining a gist that holds data loses nothing of either side but twins, for  *)
(* any devices, profiles, keys and pages, and any order of events before it.   *)
THEOREM JoinsKeepBoth == Spec => JoinKeepsBoth
  <1>1. IInv /\ DataInv /\ RevInv /\ Whence /\ [Next]_vars =>
          [\A d \in Devices : Joins(d) /\ HasData(Head(ans[d]).body) =>
             LET r == Head(ans[d]).body IN
             /\ BothSidesOf(profiles'[d], r.profiles, profiles[d])
             /\ editor'[d] = (IF r.notes = Blank THEN editor[d] ELSE r.notes)
             /\ \A k \in vault[d].keys : \E m \in vault'[d].keys : m.id = k.id]_vars
    <2> SUFFICES ASSUME IInv, DataInv, RevInv, Whence, Next, NEW d \in Devices, Joins(d), HasData(Head(ans[d]).body)
                 PROVE  KeepsBoth(d, Head(ans[d]).body)
      BY DEF KeepsBoth
    <2>1. PICK r, wants : /\ r = Head(ans[d]).body /\ Upload(r) /\ rev[d] = 0
                          /\ ReconcileFromRemote(d, r, TRUE, TRUE, wants)
      BY JoinsApply
    <2> QED
      BY <2>1, JoinHoldsBoth
  <1> QED
    BY <1>1, DataIsWhole, PTL DEF Spec, JoinKeepsBoth

=============================================================================
