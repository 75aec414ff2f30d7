---------------------------- MODULE SyncController ----------------------------
(* The GitHub Gist synchronisation of saved sessions: one SyncController (GUI  *)
(* thread) and one SyncWorker (its own QThread) per device, the sync page of   *)
(* DashboardPage that drives them, the settings and vault that survive a       *)
(* restart, and the gists the devices share.                                   *)
(*                                                                             *)
(* A request is queued to the worker (req), served by a blocking HTTP call and *)
(* answered by a queued signal (ans); between those steps the user, the timers *)
(* and the other devices act.                                                  *)
EXTENDS SyncMerge, FiniteSets

CONSTANTS
    Devices,      \* installations of the program
    MaxGists,     \* bound: how many gists the account may hold
    Targets,      \* content keys a new profile may point at
    KeyContents,  \* content keys a new private key may have
    Pages,        \* non-blank notes pages
    TurnTaking,   \* TRUE: a user edits only when every device is idle and up to date
    MaxEdits,     \* bound: local edits, over all devices
    MaxSyncs,     \* bound: uses of "Sync now"
    MaxConnects,  \* bound: uses of Create and Join
    MaxToggles,   \* bound: clicks on the enable checkbox and on Disable
    MaxFaults,    \* bound: failed or lost HTTP calls, failed applies, crashes
    MaxEvents,    \* bound: the five kinds above together
    MaxRev        \* bound: a device stops polling at this revision

ASSUME ConstantsAssumption ==
    /\ {MaxGists, MaxEdits, MaxSyncs, MaxConnects, MaxToggles, MaxFaults, MaxEvents,
         MaxRev} \subseteq Nat
    /\ TurnTaking \in BOOLEAN

Gists == 1..MaxGists
NoGist == 0

States == {"Disabled", "Connecting", "Active"}
Ops == {"Create", "Join", "Push", "Pull"}

VARIABLES
    state, pending,          \* m_state, m_pending ("None" or the operation under way)
    paused, polling,         \* m_paused; m_pollTimer is running
    gistId,                  \* m_key.gistId
    rev,                     \* m_lastKnownRev
    pushQueued, syncNowQueued,
    debounce,                \* DashboardPage::m_syncSaveDebounce is running
    req, ans,                \* requests queued to the worker, answers posted back
    savedKey, savedRev, enabled,   \* SyncConfig: survive a restart
    profiles,                \* DashboardPage::m_profiles
    vault,                   \* connects.json and dbvault: profiles, keys, notes
    editor,                  \* the text of the notes page; m_notesSaveDebounce is
                             \* running while it differs from the stored notes
    gist,                    \* the gists on GitHub (external)
    used,                    \* how much of each kind of event is spent
    missed,                  \* history: devices whose notes a download stored and
                             \* no upload has carried since
    unheard                  \* history: devices that may have an upload on a gist of
                             \* a revision they never heard of or have forgotten

control == <<state, pending, paused, polling, gistId, rev, pushQueued, syncNowQueued, debounce>>
messages == <<req, ans>>
settings == <<savedKey, savedRev, enabled>>
data == <<profiles, vault, editor>>
world == <<gist, used>>
history == <<missed, unheard>>
vars == <<control, messages, settings, data, world, history>>

Bound == [edits |-> MaxEdits, syncs |-> MaxSyncs, connects |-> MaxConnects,
          toggles |-> MaxToggles, faults |-> MaxFaults]

(* One more use of a bounded kind of event. *)
Spend(kind) ==
    /\ used[kind] < Bound[kind]
    /\ used.edits + used.syncs + used.connects + used.toggles + used.faults < MaxEvents
    /\ used' = [used EXCEPT ![kind] = @ + 1]

Fault(bad) == IF bad THEN Spend("faults") ELSE UNCHANGED used
-----------------------------------------------------------------------------
(* The snapshot the serialize hook captures; stored keys are listed by id.  The *)
(* hook first stores the notes typed so far, wherever it runs, and stops their *)
(* timer: FlushedVault is the vault it leaves.                                 *)
KeyList(keys) == SetToSortSeq(keys, LAMBDA e, f : e.id < f.id)

Local(d) == [profiles |-> profiles[d], keys |-> KeyList(vault[d].keys), notes |-> editor[d]]

FlushedVault(d) == [vault EXCEPT ![d].notes = editor[d]]

NotesSaved(d) == editor[d] = vault[d].notes

(* storeStoredKey for each key of a list: insert or overwrite, never remove.   *)
StoreKeys(keys, list) ==
    {k \in keys : \A i \in DOMAIN list : list[i].id # k.id} \cup ToSet(list)

(* Local data stays, but the hook that read it has stored the notes.           *)
KeepData(d) == vault' = FlushedVault(d) /\ UNCHANGED <<profiles, editor>>

(* The apply hook, run after the serialize hook: profiles, then keys, then     *)
(* notes are written; the first failure stops it, and only a full success      *)
(* replaces the profiles in memory and the text of the notes page.             *)
Apply(d, p, ok) ==
    \/ /\ ok
       /\ profiles' = [profiles EXCEPT ![d] = p.profiles]
       /\ editor' = [editor EXCEPT ![d] = p.notes]
       /\ vault' = [vault EXCEPT ![d] = [profiles |-> p.profiles,
                                         keys     |-> StoreKeys(@.keys, p.keys),
                                         notes    |-> p.notes]]
    \/ ~ok /\ KeepData(d)
    \/ /\ ~ok
       /\ \E n \in 0..Len(p.keys) :
            vault' = [vault EXCEPT ![d] = [profiles |-> p.profiles,
                                           keys     |-> StoreKeys(@.keys, SubSeq(p.keys, 1, n)),
                                           notes    |-> editor[d]]]
       /\ UNCHANGED <<profiles, editor>>

(* A snapshot as it is uploaded: revision r, by the device named in it.        *)
Framed(who, r, p) ==
    [rev |-> r, by |-> who, profiles |-> p.profiles, keys |-> p.keys, notes |-> p.notes]

Request(op, g, body) == [op |-> op, gist |-> g, body |-> body]
NoBody == Framed("nobody", 0, [profiles |-> <<>>, keys |-> <<>>, notes |-> Blank])

CanTransfer(d) == state[d] # "Disabled" /\ gistId[d] # NoGist /\ ~paused[d]
-----------------------------------------------------------------------------
Init ==
    /\ state = [d \in Devices |-> "Disabled"]
    /\ pending = [d \in Devices |-> "None"]
    /\ paused = [d \in Devices |-> FALSE]
    /\ polling = [d \in Devices |-> FALSE]
    /\ gistId = [d \in Devices |-> NoGist]
    /\ rev = [d \in Devices |-> 0]
    /\ pushQueued = [d \in Devices |-> FALSE]
    /\ syncNowQueued = [d \in Devices |-> FALSE]
    /\ debounce = [d \in Devices |-> FALSE]
    /\ req = [d \in Devices |-> <<>>]
    /\ ans = [d \in Devices |-> <<>>]
    /\ savedKey = [d \in Devices |-> NoGist]
    /\ savedRev = [d \in Devices |-> 0]
    /\ enabled = [d \in Devices |-> FALSE]
    /\ profiles = [d \in Devices |-> <<>>]
    /\ vault = [d \in Devices |-> [profiles |-> <<>>, keys |-> {}, notes |-> Blank]]
    /\ editor = [d \in Devices |-> Blank]
    /\ gist = <<>>
    /\ used = [kind \in DOMAIN Bound |-> 0]
    /\ missed = {} /\ unheard = {}
-----------------------------------------------------------------------------
(* Connecting.  The buttons are enabled only while Disabled; the early returns *)
(* of the controller are then never taken, but they are kept here.             *)

CreateSync(d) ==
    /\ state[d] = "Disabled" /\ pending[d] = "None"
    /\ Len(gist) + Cardinality({e \in Devices : pending[e] = "Create"}) < MaxGists
    /\ Spend("connects")
    /\ enabled' = [enabled EXCEPT ![d] = TRUE]
    /\ paused' = [paused EXCEPT ![d] = FALSE]
    /\ state' = [state EXCEPT ![d] = "Connecting"]
    /\ pending' = [pending EXCEPT ![d] = "Create"]
    /\ gistId' = [gistId EXCEPT ![d] = NoGist]
    /\ rev' = [rev EXCEPT ![d] = 0]
    /\ savedRev' = [savedRev EXCEPT ![d] = 0]
    /\ req' = [req EXCEPT ![d] = Append(@, Request("Create", NoGist, Framed(d, 1, Local(d))))]
    /\ KeepData(d)
    /\ unheard' = IF savedKey[d] # NoGist THEN unheard \cup {d} ELSE unheard
    /\ UNCHANGED <<polling, pushQueued, syncNowQueued, debounce, ans, savedKey, gist, missed>>

(* beginJoin: connect to gist g, from its key text or as it was saved.         *)
BeginJoin(d, g, restoring) ==
    /\ state' = [state EXCEPT ![d] = "Connecting"]
    /\ pending' = [pending EXCEPT ![d] = IF restoring THEN "Pull" ELSE "Join"]
    /\ gistId' = [gistId EXCEPT ![d] = g]
    /\ rev' = [rev EXCEPT ![d] = IF restoring THEN savedRev[d] ELSE 0]
    /\ req' = [req EXCEPT ![d] = Append(@, Request("Pull", g, NoBody))]

JoinSync(d) ==
    /\ state[d] = "Disabled" /\ pending[d] = "None"
    /\ Spend("connects")
    /\ \E g \in DOMAIN gist : BeginJoin(d, g, FALSE)
    /\ enabled' = [enabled EXCEPT ![d] = TRUE]
    /\ paused' = [paused EXCEPT ![d] = FALSE]
    /\ UNCHANGED <<polling, pushQueued, syncNowQueued, debounce, ans, savedKey, savedRev, data, gist,
                   history>>

(* The enable checkbox switched off: polling and pushing pause, nothing else.  *)
UncheckEnabled(d) ==
    /\ enabled[d]
    /\ Spend("toggles")
    /\ enabled' = [enabled EXCEPT ![d] = FALSE]
    /\ paused' = [paused EXCEPT ![d] = TRUE]
    /\ polling' = [polling EXCEPT ![d] = FALSE]
    /\ UNCHANGED <<state, pending, gistId, rev, pushQueued, syncNowQueued, debounce,
                   messages, savedKey, savedRev, data, gist, history>>

(* Switched on again: resume, or reconnect to the saved sync when Disabled.    *)
CheckEnabled(d) ==
    /\ ~enabled[d]
    /\ Spend("toggles")
    /\ enabled' = [enabled EXCEPT ![d] = TRUE]
    /\ paused' = [paused EXCEPT ![d] = FALSE]
    /\ polling' = [polling EXCEPT ![d] = @ \/ state[d] = "Active"]
    /\ IF state[d] = "Disabled" /\ savedKey[d] # NoGist
         THEN BeginJoin(d, savedKey[d], TRUE)
         ELSE UNCHANGED <<state, pending, gistId, rev, req>>
    /\ UNCHANGED <<pushQueued, syncNowQueued, debounce, ans, savedKey, savedRev, data, gist,
                   history>>

(* An answer dropped unread: the device never learns that its upload is there. *)
ForgetAnswer(d) ==
    unheard' = IF \E i \in DOMAIN ans[d] : ans[d][i].op \in {"Create", "Push"} /\ ans[d][i].ok
                 THEN unheard \cup {d} ELSE unheard

(* "Disable sync": settings, then SyncController::disable, which blocks until  *)
(* the worker thread has ended.  A request not yet served is dropped, and an   *)
(* answer already posted reaches a handler that ignores it (m_pending = None)  *)
(* before any further user event, so it is dropped here.                       *)
DisableSync(d) ==
    /\ state[d] # "Disabled" \/ savedKey[d] # NoGist
    /\ Spend("toggles")
    /\ state' = [state EXCEPT ![d] = "Disabled"]
    /\ pending' = [pending EXCEPT ![d] = "None"]
    /\ paused' = [paused EXCEPT ![d] = FALSE]
    /\ polling' = [polling EXCEPT ![d] = FALSE]
    /\ gistId' = [gistId EXCEPT ![d] = NoGist]
    /\ rev' = [rev EXCEPT ![d] = 0]
    /\ pushQueued' = [pushQueued EXCEPT ![d] = FALSE]
    /\ syncNowQueued' = [syncNowQueued EXCEPT ![d] = FALSE]
    /\ req' = [req EXCEPT ![d] = <<>>]
    /\ ans' = [ans EXCEPT ![d] = <<>>]
    /\ savedKey' = [savedKey EXCEPT ![d] = NoGist]
    /\ savedRev' = [savedRev EXCEPT ![d] = 0]
    /\ enabled' = [enabled EXCEPT ![d] = FALSE]
    /\ ForgetAnswer(d)
    /\ UNCHANGED <<debounce, data, gist, missed>>
-----------------------------------------------------------------------------
(* Transfers. *)

(* Mistaken: the upload counts from the revision read before the step.        *)
UploadStaleRevision(d) ==
    /\ pending' = [pending EXCEPT ![d] = "Push"]
    /\ req' = [req EXCEPT ![d] =
                 Append(@, Request("Push", gistId[d], Framed(d, rev[d] + 1, Local(d)')))]

(* push() on an idle controller: the snapshot is taken now, from the values    *)
(* the step has just assigned, and its upload is queued as the next revision.  *)
UploadSnapshot(d) ==
    /\ pending' = [pending EXCEPT ![d] = "Push"]
    /\ req' = [req EXCEPT ![d] =
                 Append(@, Request("Push", gistId[d], Framed(d, rev'[d] + 1, Local(d)')))]

(* Mistaken: an upload asked for while the controller is busy is dropped.      *)
PushUnlessBusy(d) ==
    /\ UNCHANGED pushQueued
    /\ IF state[d] = "Active" /\ CanTransfer(d) /\ pending[d] = "None"
         THEN UploadSnapshot(d)
         ELSE UNCHANGED <<pending, req>>

(* Taking a snapshot to upload runs the serialize hook.                        *)
FlushIf(d, uploads) == vault' = IF uploads THEN FlushedVault(d) ELSE vault

(* syncPushNow -> pushNow -> push.                                             *)
PushNow(d) ==
    LET mayPush == state[d] = "Active" /\ CanTransfer(d) IN
    \/ /\ mayPush /\ pending[d] = "None"
       /\ UploadSnapshot(d)
       /\ UNCHANGED pushQueued
    \/ /\ mayPush /\ pending[d] # "None"
       /\ pushQueued' = [pushQueued EXCEPT ![d] = TRUE]
       /\ UNCHANGED <<pending, req>>
    \/ /\ ~mayPush
       /\ UNCHANGED <<pending, req, pushQueued>>

PullNow(d) ==
    /\ pending' = [pending EXCEPT ![d] = "Pull"]
    /\ req' = [req EXCEPT ![d] = Append(@, Request("Pull", gistId[d], NoBody))]

(* Mistaken: the queued upload starts although the sync is paused.             *)
FlushThoughPaused(d, want) ==
    /\ pushQueued' = [pushQueued EXCEPT ![d] = FALSE]
    /\ syncNowQueued' = [syncNowQueued EXCEPT ![d] = FALSE]
    /\ IF want /\ gistId[d] # NoGist
         THEN UploadSnapshot(d)
         ELSE pending' = [pending EXCEPT ![d] = "None"] /\ UNCHANGED req

(* flushQueuedPush at the end of a handler, want: anything is queued.  The     *)
(* flags are cleared before push() decides, so a paused device forgets them.   *)
FlushQueuedPush(d, want) ==
    /\ pushQueued' = [pushQueued EXCEPT ![d] = FALSE]
    /\ syncNowQueued' = [syncNowQueued EXCEPT ![d] = FALSE]
    /\ IF want /\ gistId[d] # NoGist /\ ~paused[d]
         THEN UploadSnapshot(d)
         ELSE pending' = [pending EXCEPT ![d] = "None"] /\ UNCHANGED req

(* "Sync now": a pull whose completion pushes; while another operation is      *)
(* under way only the flag is set, and that operation's completion pushes.     *)
SyncNow(d) ==
    /\ state[d] = "Active" /\ CanTransfer(d)
    /\ Spend("syncs")
    /\ syncNowQueued' = [syncNowQueued EXCEPT ![d] = TRUE]
    /\ IF pending[d] = "None" THEN PullNow(d) ELSE UNCHANGED <<pending, req>>
    /\ UNCHANGED <<state, paused, polling, gistId, rev, pushQueued, debounce,
                   ans, settings, data, gist, history>>

(* Mistaken: the timer polls although an operation is under way.               *)
PollWhileBusy(d) ==
    /\ polling[d] /\ CanTransfer(d)
    /\ rev[d] < MaxRev
    /\ PullNow(d)
    /\ UNCHANGED <<state, paused, polling, gistId, rev, pushQueued, syncNowQueued, debounce,
                   ans, settings, data, world, history>>

PollTick(d) ==
    /\ polling[d] /\ CanTransfer(d) /\ pending[d] = "None"
    /\ rev[d] < MaxRev
    /\ PullNow(d)
    /\ UNCHANGED <<state, paused, polling, gistId, rev, pushQueued, syncNowQueued, debounce,
                   ans, settings, data, world, history>>

DebounceFires(d) ==
    /\ debounce[d]
    /\ debounce' = [debounce EXCEPT ![d] = FALSE]
    /\ UNCHANGED <<state, paused, polling, gistId, rev, syncNowQueued,
                   ans, settings, profiles, editor, world, history>>
    /\ FlushIf(d, state[d] = "Active" /\ CanTransfer(d) /\ pending[d] = "None")
    /\ PushNow(d)
-----------------------------------------------------------------------------
(* The worker thread: one blocking HTTP call, then the answer is posted.  The  *)
(* call succeeds, fails without effect, or takes effect and loses its answer   *)
(* (30 s transfer timeout).  A gist is overwritten whatever its revision.      *)

Answer(op, ok, g, body) == [op |-> op, ok |-> ok, gist |-> g, body |-> body]

(* What the histories note of an upload.                                       *)
Reached(d, effect, ok) ==
    /\ missed' = IF effect THEN missed \ {d} ELSE missed
    /\ unheard' = IF effect /\ ~ok THEN unheard \cup {d} ELSE unheard

Posted(d, a) ==
    /\ req' = [req EXCEPT ![d] = Tail(@)]
    /\ ans' = [ans EXCEPT ![d] = Append(@, a)]
    /\ UNCHANGED <<control, settings, data>>

ServeCreate(d) ==
    /\ req[d] # <<>> /\ Head(req[d]).op = "Create"
    /\ \E effect, ok \in BOOLEAN :
        /\ ok => effect
        /\ gist' = IF effect THEN Append(gist, Head(req[d]).body) ELSE gist
        /\ Posted(d, Answer("Create", ok, Len(gist) + 1, NoBody))
        /\ Reached(d, effect, ok)
        /\ Fault(~ok)

ServePush(d) ==
    /\ req[d] # <<>> /\ Head(req[d]).op = "Push"
    /\ \E effect, ok \in BOOLEAN :
        /\ ok => effect
        /\ gist' = IF effect THEN [gist EXCEPT ![Head(req[d]).gist] = Head(req[d]).body] ELSE gist
        /\ Posted(d, Answer("Push", ok, Head(req[d]).gist, NoBody))
        /\ Reached(d, effect, ok)
        /\ Fault(~ok)

ServePull(d) ==
    /\ req[d] # <<>> /\ Head(req[d]).op = "Pull"
    /\ \E ok \in BOOLEAN :
        /\ Posted(d, Answer("Pull", ok, Head(req[d]).gist, gist[Head(req[d]).gist]))
        /\ Fault(~ok)
    /\ UNCHANGED <<gist, history>>
-----------------------------------------------------------------------------
(* Result handlers, on the GUI thread.  Each first checks m_pending; an answer *)
(* that finds another operation pending would be ignored, which never happens. *)

Receive(d, op, ok, awaited) ==
    /\ ans[d] # <<>> /\ Head(ans[d]).op = op /\ Head(ans[d]).ok = ok
    /\ pending[d] \in awaited
    /\ ans' = [ans EXCEPT ![d] = Tail(@)]

(* Mistaken: the poll timer starts although the sync was paused meanwhile.     *)
BecomeActivePolling(d, g) ==
    /\ state' = [state EXCEPT ![d] = "Active"]
    /\ savedKey' = [savedKey EXCEPT ![d] = g]
    /\ enabled' = [enabled EXCEPT ![d] = TRUE]
    /\ polling' = [polling EXCEPT ![d] = TRUE]

(* setState(Active): DashboardPage persists the key and ticks the checkbox.    *)
BecomeActive(d, g) ==
    /\ state' = [state EXCEPT ![d] = "Active"]
    /\ savedKey' = [savedKey EXCEPT ![d] = g]
    /\ enabled' = [enabled EXCEPT ![d] = TRUE]
    /\ polling' = [polling EXCEPT ![d] = ~paused[d]]

OnCreateFinished(d) ==
    /\ Receive(d, "Create", TRUE, {"Create"})
    /\ pending' = [pending EXCEPT ![d] = "None"]
    /\ gistId' = [gistId EXCEPT ![d] = Head(ans[d]).gist]
    /\ rev' = [rev EXCEPT ![d] = 1]
    /\ savedRev' = [savedRev EXCEPT ![d] = 1]
    /\ BecomeActive(d, Head(ans[d]).gist)
    /\ unheard' = unheard \ {d}
    /\ UNCHANGED <<paused, pushQueued, syncNowQueued, debounce, req, data, world, missed>>

OnCreateFailed(d) ==
    /\ Receive(d, "Create", FALSE, {"Create"})
    /\ pending' = [pending EXCEPT ![d] = "None"]
    /\ state' = [state EXCEPT ![d] = "Disabled"]
    /\ UNCHANGED <<paused, polling, gistId, rev, pushQueued, syncNowQueued, debounce,
                   req, settings, data, world, history>>

(* Success or failure, what was queued meanwhile is flushed.                   *)
OnPushFinished(d) ==
    LET queued == syncNowQueued[d] \/ pushQueued[d] IN
    \E ok \in BOOLEAN :
        /\ Receive(d, "Push", ok, {"Push"})
        /\ rev' = [rev EXCEPT ![d] = IF ok THEN @ + 1 ELSE @]
        /\ savedRev' = [savedRev EXCEPT ![d] = IF ok THEN rev[d] + 1 ELSE @]
        /\ unheard' = IF ok THEN unheard \ {d} ELSE unheard
        /\ UNCHANGED <<state, paused, polling, gistId, debounce, savedKey, enabled,
                       profiles, editor, world, missed>>
        /\ FlushIf(d, queued /\ CanTransfer(d))
        /\ FlushQueuedPush(d, queued)

(* A failed or undecryptable download ends a connection attempt; what was      *)
(* queued stays queued, a pending "Sync now" is dropped.                       *)
OnPullFailed(d) ==
    /\ Receive(d, "Pull", FALSE, {"Pull", "Join"})
    /\ pending' = [pending EXCEPT ![d] = "None"]
    /\ state' = [state EXCEPT ![d] = IF @ = "Connecting" THEN "Disabled" ELSE @]
    /\ syncNowQueued' = [syncNowQueued EXCEPT ![d] = FALSE]
    /\ UNCHANGED <<paused, polling, gistId, rev, pushQueued, debounce, req, settings, data, world,
                   history>>
-----------------------------------------------------------------------------
(* reconcileFromRemote: what a downloaded snapshot r does to local data.  ok   *)
(* says whether applying succeeded, wants whether an upload is asked for.      *)

RemoteEmpty(r) == ~HasData(r) /\ r.rev <= 1

MustKeepLocal(d, r, joining) ==
    /\ RemoteEmpty(r) /\ HasData(Local(d))
    /\ joining \/ rev[d] = 0 \/ r.rev <= rev[d]

(* Mistaken: joining adopts the gist instead of merging.                       *)
NeverMerge(d, r, joining) == FALSE

MustMerge(d, r, joining) == joining /\ HasData(Local(d)) /\ HasData(r)

AdoptRevision(d, r) ==
    LET newest == IF r.rev > rev[d] THEN r.rev ELSE rev[d] IN
    /\ rev' = [rev EXCEPT ![d] = newest]
    /\ savedRev' = [savedRev EXCEPT ![d] = newest]

KeepLocal(d, r, joining, ok, wants) ==
    /\ MustKeepLocal(d, r, joining)
    /\ ok /\ wants
    /\ KeepData(d)
    /\ UNCHANGED <<rev, savedRev>>

MergeOnJoin(d, r, joining, ok, wants) ==
    /\ ~MustKeepLocal(d, r, joining) /\ MustMerge(d, r, joining)
    /\ wants
    /\ Apply(d, MergeSnapshots(Local(d), r), ok)
    /\ AdoptRevision(d, r)

HealDuplicates(d, r, joining, ok, wants) ==
    /\ ~MustKeepLocal(d, r, joining) /\ ~MustMerge(d, r, joining)
    /\ r.rev <= rev[d]
    /\ IF Dirty(Local(d))
         THEN wants /\ Apply(d, DedupePayload(Local(d)), ok)
         ELSE ok /\ wants = Dirty(r) /\ KeepData(d)
    /\ UNCHANGED <<rev, savedRev>>

(* Mistaken: a snapshot of the revision already known is applied again.        *)
ApplyNewerOrSame(d, r, joining, ok, wants) ==
    /\ ~MustKeepLocal(d, r, joining) /\ ~MustMerge(d, r, joining)
    /\ r.rev >= rev[d]
    /\ wants = Dirty(r)
    /\ Apply(d, DedupePayload(r), ok)
    /\ AdoptRevision(d, r)

ApplyNewer(d, r, joining, ok, wants) ==
    /\ ~MustKeepLocal(d, r, joining) /\ ~MustMerge(d, r, joining)
    /\ r.rev > rev[d]
    /\ wants = Dirty(r)
    /\ Apply(d, DedupePayload(r), ok)
    /\ AdoptRevision(d, r)

ReconcileFromRemote(d, r, joining, ok, wants) ==
    \/ KeepLocal(d, r, joining, ok, wants)
    \/ MergeOnJoin(d, r, joining, ok, wants)
    \/ HealDuplicates(d, r, joining, ok, wants)
    \/ ApplyNewer(d, r, joining, ok, wants)

OnPullFinished(d) ==
    LET joining == pending[d] = "Join" IN
    \E ok, wants \in BOOLEAN :
        /\ Receive(d, "Pull", TRUE, {"Pull", "Join"})
        /\ ReconcileFromRemote(d, Head(ans[d]).body, joining, ok, wants)
        /\ IF state[d] = "Connecting"
             THEN BecomeActive(d, gistId[d])
             ELSE UNCHANGED <<state, savedKey, enabled, polling>>
        /\ UNCHANGED <<paused, gistId, debounce, gist>>
        /\ Fault(~ok)
        /\ unheard' = unheard \ {d}
        /\ missed' = IF ok /\ rev'[d] # rev[d] THEN missed \ {d}
                     ELSE IF NotesSaved(d) THEN missed ELSE missed \cup {d}
        /\ FlushQueuedPush(d, \/ syncNowQueued[d] \/ pushQueued[d] \/ wants
                              \/ joining /\ HasData(Local(d)'))
-----------------------------------------------------------------------------
(* The user's edits.  Saving a profile arms the debounce timer only while the  *)
(* sync is Active and not paused; editing keys arms nothing; typed notes wait  *)
(* for their own timer, which stores them and pushes at once.                  *)

UpToDate(d) ==
    /\ state[d] = "Active" /\ ~paused[d] /\ pending[d] = "None" /\ ~debounce[d] /\ NotesSaved(d)
    /\ rev[d] = gist[gistId[d]].rev

Edit(d) ==
    /\ Spend("edits")
    /\ TurnTaking => \A e \in Devices : UpToDate(e)

FreshId == used.edits + 1

SaveProfiles(d, list) ==
    /\ profiles' = [profiles EXCEPT ![d] = list]
    /\ vault' = [vault EXCEPT ![d].profiles = list]
    /\ debounce' = [debounce EXCEPT ![d] = @ \/ (state[d] = "Active" /\ ~paused[d])]
    /\ UNCHANGED <<state, pending, paused, polling, gistId, rev, pushQueued, syncNowQueued,
                   messages, settings, editor, gist, history>>

AddProfile(d) ==
    /\ Edit(d)
    /\ \E t \in Targets : SaveProfiles(d, Append(profiles[d], [id |-> FreshId, content |-> t]))

EditProfile(d) ==
    /\ Edit(d)
    /\ \E i \in DOMAIN profiles[d], t \in Targets :
        /\ t # profiles[d][i].content
        /\ SaveProfiles(d, [profiles[d] EXCEPT ![i].content = t])

DeleteProfile(d) ==
    /\ Edit(d)
    /\ \E i \in DOMAIN profiles[d] : SaveProfiles(d, RemoveAt(profiles[d], i))

SaveKeys(d, keys) ==
    /\ vault' = [vault EXCEPT ![d].keys = keys]
    /\ UNCHANGED <<profiles, editor, control, messages, settings, gist, history>>

AddKey(d) ==
    /\ Edit(d)
    /\ \E c \in KeyContents : SaveKeys(d, vault[d].keys \cup {[id |-> FreshId, content |-> c]})

DeleteKey(d) ==
    /\ Edit(d)
    /\ \E k \in vault[d].keys : SaveKeys(d, vault[d].keys \ {k})

TypeNotes(d) ==
    /\ Edit(d)
    /\ \E n \in Pages \ {editor[d]} : editor' = [editor EXCEPT ![d] = n]
    /\ UNCHANGED <<profiles, vault, control, messages, settings, gist, history>>

(* The notes timer fires, or the user leaves the page: flushNotesToVault(true). *)
SaveNotes(d) ==
    /\ ~NotesSaved(d)
    /\ UNCHANGED <<state, paused, polling, gistId, rev, syncNowQueued, debounce,
                   ans, settings, world, history>>
    /\ KeepData(d)
    /\ PushNow(d)

(* The program dies or quits, starts again, loads its profiles from the vault  *)
(* and reconnects to the saved sync unless the user had switched it off.       *)
(* Quitting stores the notes typed so far without an upload, dying loses them. *)
Restart(d) ==
    LET reconnect == enabled[d] /\ savedKey[d] # NoGist IN
    /\ Spend("faults")
    /\ state' = [state EXCEPT ![d] = IF reconnect THEN "Connecting" ELSE "Disabled"]
    /\ pending' = [pending EXCEPT ![d] = IF reconnect THEN "Pull" ELSE "None"]
    /\ gistId' = [gistId EXCEPT ![d] = IF reconnect THEN savedKey[d] ELSE NoGist]
    /\ rev' = [rev EXCEPT ![d] = IF reconnect THEN savedRev[d] ELSE 0]
    /\ req' = [req EXCEPT ![d] =
                 IF reconnect THEN <<Request("Pull", savedKey[d], NoBody)>> ELSE <<>>]
    /\ ans' = [ans EXCEPT ![d] = <<>>]
    /\ paused' = [paused EXCEPT ![d] = FALSE]
    /\ polling' = [polling EXCEPT ![d] = FALSE]
    /\ pushQueued' = [pushQueued EXCEPT ![d] = FALSE]
    /\ syncNowQueued' = [syncNowQueued EXCEPT ![d] = FALSE]
    /\ debounce' = [debounce EXCEPT ![d] = FALSE]
    /\ profiles' = [profiles EXCEPT ![d] = vault[d].profiles]
    /\ \E page \in {editor[d], vault[d].notes} :
        /\ editor' = [editor EXCEPT ![d] = page]
        /\ vault' = [vault EXCEPT ![d].notes = page]
    /\ ForgetAnswer(d)
    /\ UNCHANGED <<settings, gist, missed>>
-----------------------------------------------------------------------------
User(d) ==
    \/ CreateSync(d) \/ JoinSync(d) \/ DisableSync(d) \/ UncheckEnabled(d) \/ CheckEnabled(d)
    \/ SyncNow(d)
    \/ AddProfile(d) \/ EditProfile(d) \/ DeleteProfile(d)
    \/ AddKey(d) \/ DeleteKey(d) \/ TypeNotes(d)

Worker(d) == ServeCreate(d) \/ ServePush(d) \/ ServePull(d)

Handler(d) ==
    \/ OnCreateFinished(d) \/ OnCreateFailed(d) \/ OnPushFinished(d)
    \/ OnPullFinished(d) \/ OnPullFailed(d)

Timer(d) == PollTick(d) \/ DebounceFires(d) \/ SaveNotes(d)

Next == \E d \in Devices : User(d) \/ Worker(d) \/ Handler(d) \/ Timer(d) \/ Restart(d)

(* The worker thread, the GUI event loop and its timers keep running; nothing  *)
(* obliges the user to act or the program to crash.                            *)
Fairness ==
    \A d \in Devices : /\ WF_vars(Worker(d)) /\ WF_vars(Handler(d))
                       /\ WF_vars(PollTick(d)) /\ WF_vars(DebounceFires(d))
                       /\ WF_vars(SaveNotes(d))

Spec == Init /\ [][Next]_vars

FairSpec == Spec /\ Fairness

-----------------------------------------------------------------------------
EntryOf(contents) == [id : Nat \ {0}, content : contents]

PayloadOK(p) ==
    /\ p.profiles \in Seq(EntryOf(Targets))
    /\ p.keys \in Seq(EntryOf(KeyContents))
    /\ p.notes \in Pages \cup {Blank}

ControlTypeOK ==
    /\ state \in [Devices -> States]
    /\ pending \in [Devices -> Ops \cup {"None"}]
    /\ paused \in [Devices -> BOOLEAN] /\ polling \in [Devices -> BOOLEAN]
    /\ pushQueued \in [Devices -> BOOLEAN] /\ syncNowQueued \in [Devices -> BOOLEAN]
    /\ debounce \in [Devices -> BOOLEAN] /\ enabled \in [Devices -> BOOLEAN]

DataTypeOK ==
    /\ {gistId, savedKey} \subseteq [Devices -> Gists \cup {NoGist}]
    /\ {rev, savedRev} \subseteq [Devices -> Nat]
    /\ \A d \in Devices :
        /\ PayloadOK(Local(d)) /\ vault[d].profiles \in Seq(EntryOf(Targets))
        /\ \A i \in DOMAIN req[d] : PayloadOK(req[d][i].body)
        /\ \A i \in DOMAIN ans[d] : PayloadOK(ans[d][i].body)
    /\ Len(gist) \in 0..MaxGists
    /\ \A g \in DOMAIN gist : gist[g].rev \in Nat \ {0} /\ PayloadOK(gist[g])

TypeOK == ControlTypeOK /\ DataTypeOK

(* m_pending is the only lock of the protocol: at most one request of a device *)
(* is queued, served or answered at a time, it is of the kind m_pending says,  *)
(* and a device that is connecting always has one (it cannot hang there).      *)
RequestOf(op) == IF op = "Join" THEN "Pull" ELSE op

OneOperationAtATime ==
    \A d \in Devices :
        /\ Len(req[d]) + Len(ans[d]) = (IF pending[d] = "None" THEN 0 ELSE 1)
        /\ \A i \in DOMAIN req[d] : req[d][i].op = RequestOf(pending[d])
        /\ \A i \in DOMAIN ans[d] : ans[d][i].op = RequestOf(pending[d])
        /\ state[d] = "Connecting" => pending[d] \in {"Create", "Join", "Pull"}
        /\ state[d] = "Disabled" => pending[d] = "None"

(* An Active device that is not paused polls, whatever sequence of checkbox    *)
(* clicks, joins and failures led there: otherwise it would silently stop.     *)
ActivePolls ==
    \A d \in Devices : state[d] = "Active" => (polling[d] <=> ~paused[d])

(* The revision an upload carries was computed when it was queued; it is still *)
(* the successor of the last known one when the upload is served and answered, *)
(* which is what lets onPushFinished increment instead of reading it back.     *)
PushCarriesNextRevision ==
    \A d \in Devices : \A i \in DOMAIN req[d] :
        req[d][i].op = "Push" => req[d][i].body.rev = rev[d] + 1 /\ req[d][i].gist = gistId[d]

(* Pausing silences the device: no upload or download starts while it is       *)
(* paused, though the operation under way and the queued flags run to an end.  *)
PauseStopsTraffic ==
    [][\A d \in Devices : paused[d] /\ paused'[d] => Len(req'[d]) <= Len(req[d])]_vars

(* Joining a gist that holds data loses nothing of either side.  Of the gist,  *)
(* every profile and key is there as it was, twins of an earlier one aside;    *)
(* of this device, all but what clashes with the gist's or with an earlier one *)
(* of its own; nothing else appears.  The notes are the gist's page, which     *)
(* wins, or the text of this device, typed but unsaved included, if it has     *)
(* none; no stored key goes, though one of the gist with its id may replace it.*)
Joins(d) ==
    /\ pending[d] = "Join" /\ ans[d] # <<>> /\ Head(ans[d]).ok
    /\ ans'[d] = <<>> /\ state'[d] = "Active" /\ used' = used

KeptUnlessTwin(s, t) ==
    \A i \in DOMAIN t : t[i] \in ToSet(s) \/ \E j \in 1..i - 1 : Clash(t[j], t[i])

BothSidesOf(s, remote, local) ==
    /\ KeptUnlessTwin(s, remote)
    /\ KeptUnlessTwin(s, remote \o local)
    /\ ToSet(s) \subseteq ToSet(remote \o local)

JoinKeepsBoth ==
    [][\A d \in Devices : Joins(d) /\ HasData(Head(ans[d]).body) =>
         LET r == Head(ans[d]).body IN
         /\ BothSidesOf(profiles'[d], r.profiles, profiles[d])
         /\ editor'[d] = (IF r.notes = Blank THEN editor[d] ELSE r.notes)
         /\ \A k \in vault[d].keys : \E m \in vault'[d].keys : m.id = k.id]_vars

(* A download undoes no edit that still waits for its upload, a profile edited *)
(* or deleted or a page of notes, unless another device has uploaded meanwhile *)
(* (the gist is written unconditionally: the last writer wins), or an upload   *)
(* of this device reached the gist unheard, or is forgotten by a later Create, *)
(* and then comes back as if it were news.  Only twins go.                     *)
Waiting(d) == debounce[d] \/ pushQueued[d] \/ ~NotesSaved(d)

Downloads(d) ==
    pending[d] = "Pull" /\ ans[d] # <<>> /\ Head(ans[d]).ok /\ ans'[d] = <<>> /\ state'[d] = "Active"

WaitingEditsSurvive ==
    [][\A d \in Devices \ unheard :
         Waiting(d) /\ Downloads(d) /\ Head(ans[d]).body.by = d =>
             /\ profiles'[d] \in {profiles[d], DedupeEntries(profiles[d])}
             /\ editor'[d] = editor[d]]_vars

(* Every connection attempt ends, Active or Disabled.                          *)
ConnectingEnds ==
    \A d \in Devices : state[d] = "Connecting" ~> state[d] # "Connecting"

Same(p, q) == p.profiles = q.profiles /\ p.notes = q.notes

(* Keys are left out: adding or deleting one asks for no upload.               *)
Uploaded(d) ==
    /\ gistId[d] # NoGist
    /\ gist[gistId[d]].profiles = profiles[d] /\ gist[gistId[d]].notes = editor[d]

(* The flaw the two properties below except: a download runs the serialize     *)
(* hook, which stores the notes typed so far and stops their timer; nothing    *)
(* then asks for the upload the timer would have asked for.                    *)
Overlooked(d) == d \in missed /\ pending[d] = "None"

(* What is edited while the sync is on is eventually on the gist, unless the   *)
(* user pauses or switches the sync off, or a call is lost: the code does not  *)
(* retry a failed upload until something else asks for one.                    *)
EditsReachGist ==
    \A d \in Devices :
        Waiting(d) ~> \/ Uploaded(d) \/ Overlooked(d)
                      \/ state[d] # "Active" \/ paused[d] \/ used.faults > 0

(* If users take turns and nothing is lost, the devices converge.              *)
Together(d, e) ==
    /\ state[d] = "Active" /\ state[e] = "Active" /\ ~paused[d] /\ ~paused[e]
    /\ gistId[d] = gistId[e] /\ used.faults = 0

Converges ==
    \A d, e \in Devices :
        []<>(Together(d, e) /\ {d, e} \cap missed = {} => Same(Local(d), Local(e)))

(* What the users rely on once they let the program run, see each part.        *)
SyncSettles == ConnectingEnds /\ EditsReachGist /\ Converges
=============================================================================
