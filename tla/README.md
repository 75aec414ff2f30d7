# clientosh: verification project

clientosh is a desktop client for SSH, Telnet, serial, SFTP and RDP sessions written
in C++ with Qt. This directory holds TLA+ models of the parts of it where order,
concurrency and failure matter, TLC configurations that check them on small instances,
and TLAPS proofs of what matters most for instances of any size.

Everything here is derived from the source under `src/src`; paths below are relative to it.

## 1. Inventory

| Component | State it keeps | Operations | Interacts with | What makes it correct |
|---|---|---|---|---|
| Gist sync (`core/sync`, sync page of `DashboardPage.cpp`) | connection state, pending operation, queued flags, last known revision; saved key and revision | create, join, restore, disable, pause, sync now, poll, push after an edit; handlers of the worker's answers | worker thread by queued signals, GitHub by HTTP, vault and profiles by two hooks | one operation at a time, nothing lost by a join or a pull, edits arrive, devices converge |
| Shell sessions (`core/SshSession`, `TelnetSession`, `SessionManager`) | table of live sessions, order, active id; per worker: stop, restart, size and resize flags under a mutex | open, soft restart, resize, activate, close, retire; `run()` of the worker | GUI thread and one thread per session: shared flags and queued signals | tabs tell the truth, no resize or stop is lost, attempts end |
| Serial session and XMODEM (`core/SerialSession`, `core/XmodemSender`) | port flags, transfer request and reservation; the engine's state, block number, retries | connect, type, start and cancel a transfer; the loop of the worker | GUI dialogs, the line, the receiver in the device | the file arrives as it is, nothing is mixed into it, the dialog is honest and closes |
| Vault and profiles (`core/VaultManager`, `KeyringAdapter`, `SessionProfile.h`, key and profile pages) | `connects.json`, `dbvault`, keyring and fallback entries, legacy settings; a manager's master key and decrypted document; the list in memory | save, load, migrate; store and remove a secret; import, generate, remove a key, change its passphrase; apply what sync pulled | OS keyring, disk, dashboard, sync | what is saved is there, other secrets survive crashes and failures, the vault always opens |
| SFTP pane (`SftpWindow`, `core/SftpClient`, `core/SftpCrossTransfer`) | busy flag, transfer queue, pending edits, cross transfer and its staging | list, download, upload, edit, auto-upload, cancel, server-to-server copy | worker threads by queued slots and signals, nested event loops | never locked for good, busy while it works, edits arrive where they belong |
| Workspace (`SessionWorkspace`) | tree of splitters, parked units, tab order, panel in use, deferred docking | add, activate, split off, dock, preview, remove | main window, chips | every open panel in one place, the one in use in sight |
| Main window and navigation strip (`MainWindow`, `TopNavBar`, `SessionChip`) | order of sessions, tables of SFTP and RDP panes, chips, page in front | open, focus, select, reorder, drag, close, reports of sessions | workspace, session manager, the event loop of a drag | every connection has a tab and every tab a connection |
| Terminal emulator (`TerminalWidget`, `TerminalWindow`) | cells, history, margins, alternate screen, cursor, modes, view, selection, parser state, mouse buttons | control functions, resize, scroll, select, copy, paste, clear, mouse, bytes | worker's output, layout, user | tables fit the size, no line is lost, text is read as text, a press is released |
| Addons (`core/addons`, addon page) | catalog, directories on disk, enabled flags, loaded plugins, busy flag | fetch, install, remove, toggle, deferred first load | network, disk, plugin loader, dashboard | what runs is what is on disk and enabled, the list tells the truth |
| AI agent addon (`addons/ai_agent`) | phase, command queue, approval, steps, request under way | prompt, approve, run all, skip, stop, observe | HTTP stream, the terminal in use, its host | an approval ends with its batch, no phase without an end |
| RDP session, server statistics, proxy tunnels | worker flags, connection | start, stop, poll, handshake | libraries and sockets | |
| Command line, single instance, update check | parsed launch, version numbers | parse, forward, compare | local socket | |
| Other dashboard pages, settings, presentation | widgets | painting | Qt | |

What makes this program hard is that nearly everything is a conversation between the GUI
thread and a worker: by shared flags under a mutex (sessions), by queued slots and signals
(sync, SFTP, agent), or by nested event loops (modal dialogs, drags). Nothing checks these conversations
but their own flags: `m_pending`, `m_busy`, `m_xmodemActive`, `m_stopRequested`. The second
source of trouble is what survives a crash or a failed write: the settings, the vault, the gist and the
directories of the addons. The third are structures changed from many sides, the splitter tree and the
screen with its history. `PROJECT.json` lists the hazards line by line and the properties that watch each of them.

## 2. Modules

### Gist sync

* `SyncMerge`: the pure operators of `SyncController.cpp`. An entry is reduced to what the code
  compares, its id and its content key (`profileContentKey`, `keyContentKey`).
* `SyncController`: for every device a controller on the GUI thread, a worker, the sync page and
  the persisted settings; the gists they share are external state. The variables carry the
  names of the members (`m_state` is `state`, `m_pending` is `pending`, and so on). `req` holds
  the requests queued to the worker, `ans` its posted answers. One action per operation
  (`CreateSync`, `JoinSync`, `CheckEnabled`, `SyncNow`, `PollTick`, ...), one per HTTP call
  (`ServeCreate`, `ServePush`, `ServePull`, with failure, lost answer or success), one per
  handler (`OnCreateFinished`, `OnPushFinished`, `OnPullFinished`, ...). `OnPullFinished` contains
  the whole of `reconcileFromRemote` and the flush of the queued push that follows it.
  `Restart` is a crash or exit at any point followed by a start: memory is lost, the settings
  and the vault stay, and the deferred restore (a zero timer) is part of it.
* `MCSyncController`, `MCSyncTurns`: the model checking instances. `MCSyncTurns` also states the laws
  of the merge (`MergeLaws`) and evaluates them in the initial state over every pair of small lists.
* `SyncController_proofs`: the proofs.

Abstractions. Create and Join are enabled only while disabled, as their buttons are. `disable()`
stops the worker and waits for it, so it drops the request and the posted answer. The stored keys
are a set listed by id and storing keys never removes one, as in the vault. An apply that fails
leaves a prefix of its writes behind. A gist body that cannot be decrypted is a failed pull.

Notes. `editor` is the text of the notes page, `vault[d].notes` what is stored; `m_notesSaveDebounce` runs while they differ. Every
reading of local data goes through the serialize hook, which stores the text (`flushNotesToVault(false)`) and so stops that timer: `KeepData`, `FlushIf`
and `Apply` do so wherever the code calls the hook (for each upload and in every `reconcileFromRemote`). The timer or leaving the page is `SaveNotes`, which stores and pushes;
quitting stores without a push. A failure to store the notes is not modelled.

Two history variables say what the code loses. `missed`: a download has stored this device's notes and no upload has carried them since.
`unheard`: an upload of this device may be on the gist with a revision it never heard of (the answer was lost, or dropped by a crash or by Disable), or forgot
(`createSync` resets the saved revision). No guard reads them.

`TurnTaking` is an assumption about the users, not a mechanism of the code: it enables an edit
only when no device has anything under way.

### Shell sessions

`ShellSessions` models `SessionManager` with its workers. A worker step is what `run()` does
between two looks at the shared flags: a blocking call and the check that follows it. `Turn` is
one pass of the shell loop. Closing takes two steps, as in the code (`CloseRunning`, then
`Retire`), so the worker can move between the test of `isRunning()` and the stop request. Signals
of a worker are a queue per session, delivered in order by `OnSignal`. `Reconnect` is a second
call of `connectSession` on a running worker, which the class supports by a soft restart
although today's GUI calls it once.

* `ShellSessions_proofs`: the proofs.

### Serial session and XMODEM

`XmodemSender` is the engine as functions on a record: one operator per method. `SerialSession`
puts it in the worker loop: `Top` is the lock at the head of the loop, `Pump` the part up to the
read, `Read` the read with `processIncoming` and what it triggers, `Closing` and `Closed` the two
locks at the end. `ChooseFile` and `StartXmodem` are separate because modal dialogs run between
the test and the request. The line is two queues; noise damages a packet or an answer; an answer
may be late, which means that the ten-second timeout fires while it is on its way (`late`).
Blocks are numbered modulo `BlockModulus`, 256 in the code.

* `MCSerialSession`: the model checking instance. `SerialSession_proofs`: the proofs.

### Vault

`Vault` models the files and the keyring as they are between two calls of `VaultManager`.
`native`, `fallback` and `available` are the two stores of `KeyringAdapter`; `db` is `dbvault`, a
document under a master key; `connects` is `connects.json`; `legacy` the plaintext leftovers in the
settings; `profiles` is `DashboardPage::m_profiles`. `vm` is the manager of the operation under way, with
the key it found and the document it read (`m_masterKey`, `m_db`, `m_dbLoaded`).

A dashboard operation (`saveCurrentFormAsProfile`, `deleteSavedProfile`, `importKeyIntoKeyring`,
`applySynced`, ...) computes the list it wants and starts the sequence of calls its code makes;
`SaveCalls` is `saveProfiles`, and `Load` with its sequence is `loadProfiles`. Each call is one step:
`saveConnectsJson`, `rewriteDbvault` (a store or a removal), or one of the ways a call does without a
write (`keyRefused`, `vaultRefused`, `nothingToRemove`). `finish` is what the operation does with the
results: it keeps or undoes the list, saves again after a migration, or asks to remember the passphrase of
an imported key. A write is done, refused, lost (`QFile::remove` went through and the rename did not) or
truncated (the results of `write` and `close` are not looked at). `stop` is the end of the process between
any two calls; `keyringGoes` and `keyringReturns` are an outage of the OS keyring.

An installation is `fresh`, `legacy` (plaintext profiles in the settings) or `old` (key passphrases
kept per profile). The constants are assumed to be lists the program can hold (`Tidy`): the profiles of one list have
ids of their own, and a pushed list has no secret that is not to be saved; the keys of the vault
are finitely many. The import prompt runs a nested event loop, in which a pull or a login may save
with another manager; the one that waits is `aged` when it goes on.

* `MCVault`: the model checking instance. `Vault_proofs`: the proofs.

### SFTP pane

`SftpPane` has the window, its client and the server-to-server copy. `pane` is the window: its members
(`m_cwd`, `m_busy`, `m_cancelling`, `m_transferQueue`, `m_pendingEditRemote`, `m_pendingEditUploads`, `m_editedFiles`),
the slots it posted (`req`), the documents open in editors (`editor`) and the nested event loops it waits in
(`frames`). Its methods are functions from such a record to the next (`refresh`, `pumpQueue`, `transferFinished`,
`operationFinished`, `uploadLocalPathsTo`, ...); the actions are the events that call them. `OnSignal` delivers one
signal of a worker, `checkEditedFiles` is the timer and the file watcher, `Dialog` and `Answer` are the two halves of
an operation around its dialog, and a message box inside a handler is a frame with the rest of that handler
(`Box`, `Resume`): signals and the timer are served meanwhile.

The client takes one slot at a time. A transfer has three steps, the opening of both ends, the first block
(`transferProgress`, which shows the cancel button; an empty file has none) and the end, and the cancel flag is looked at between them. Files
are records of what they are a copy of, how often they were edited and whether all of them is there; an edited
file is `changed` when the time of its copy differs from the one noted. `SftpCrossTransfer` runs file by
file with its own cancel flag; the download to the staging folder and the upload from it are one stage.
`mixed` and `failed` are history for the properties.

* `MCSftpPane`: the model checking instance. `SftpPane_proofs`: the proofs.

### Workspace and main window

* `WorkspaceTabs` is the abstract specification: the open panels form groups, one group is in front, and only the
  panel that is moved changes its group.
* `SessionWorkspace` is the widget tree as an operator from layout to layout per method: `ensurePane`, `activatePanel`, `splitPanel`, `unsplitPanel`,
  `dockInto`, `extractPane`, `collapseSplitter`, `removePanel`. `parent` and `index` are the tree, `hidden` the
  widgets on which `hide()` was called last; what Qt shows follows from both.
* `MainWindow` drives it: the order of the sessions, the tables of SFTP and RDP panes, the chips of the strip, the page
  in front. A slot runs to its end and is one action. A drag is several: the press, previews and reports of sessions in
  the event loop of `QDrag::exec`, and the drop, which is applied afterwards and deferred by a zero timer. `rebuildTabs` deletes
  the chip a drag started from; such a drag ends as `Lost`, and nothing is claimed of it. `ImplementsTabs` shows that `MainWindow` implements
  `WorkspaceTabs`: groups are the units of the tree, the one in front is the one under the visible root.
* `MCMainWindow`: the model checking instance. `MainWindow_proofs`: the proofs.

`beginTerminalSession`, the XMODEM dialogs and the Clear shortcut are in the modules of the components they drive.

### Terminal

* `TerminalScreen`: the screen of `TerminalWidget` as a record (`cells`, `scrollback`, `top`, `bottom`, `cx`, `cy`, `pending` wrap,
  the main screen behind the alternate one, `viewOffset`, `sel`), one operator per control function, and
  `resizeGrid` with its clamping. Characters are narrow or wide; colours are left out.
* `EscapeParser`: the byte machine of `appendOutput`: UTF-8, control characters, escape, CSI and string sequences with their limits.
  A stream is a sequence of pieces (a character, a broken one, a sequence cut off, one that is too long).
* `Terminal`: the widget between a program, a layout and a user. `Output` feeds one chunk to its end, a control function at a time
  (`FeedOne`), and `Settled` is the end of `appendOutput`; a chunk is any sequence of `ControlFunctions`. `syncPtySize` is a layout
  change, the user scrolls, selects, copies, pastes, clears, presses and releases buttons; `WriteBytes` gives the parser a piece.
  `roll` is what a printer would have received, `gesture` what the user and the program believe of the buttons.
* `MCTerminal`: the model checking instance. `Terminal_proofs`: the proofs.

### Addons and the AI agent

* `AiAgent`: the panel and its client as a record, with a function per method (`SubmitPrompt`, `HandleAssistant`, `RunCurrentAction`,
  `GoIdle`, ...). A reply is a sequence of fenced blocks, a line is what the code looks at in it (comment, risky word, compound,
  the first words of its pipeline) and, apart from that, whether it `writes`. `IsAutoApproved` is the code's test of words; the replies
  include a line that passes it and writes. `granted` and `ran` are history: what the user agreed to and what went to a terminal.
* `Addons` composes it with store, disk, host and the page of the dashboard. Installing removes the
  directory, writes the plugin and then the manifest; each may fail, be cut short or be the last thing before a crash. Loading the
  agent's addon brings its panel to life, unloading destroys it in whatever phase.
* `MCAddons`: the model checking instance. `Addons_proofs`: the proofs.

## 3. Runs

| Run | What it asks | Instance | States |
|---|---|---|---|
| `sync` | safety of the protocol; joins keep both sides; waiting edits | 2 devices, 1 gist, 2 targets, 2 pages, 1 key content, deletions, 3 edits, 2 connects, 2 toggles, 1 sync, 1 fault, 5 of all these together | 1,305,205 |
| `sync_turns` | liveness and convergence, laws of the merge | 2 devices, 2 targets, 1 page, 2 edits, 2 connects, 1 fault, users take turns; 11,137 pairs of lists of up to 3 and 2 entries | 58,996 |
| `shells` | the table, the size, what tabs say, and liveness | 1 SSH and 1 Telnet session, 2 sizes, 1 resize, 1 reconnect | 237,179 |
| `serial` | delivery, honest dialog, the line, and that the dialog closes | block numbers modulo 3, 2 retries, an empty file and files of 1 and 3 blocks, 1 key, 2 noise events, 1 late answer, 1 failure | 340,861 |
| `sftp` | safety of one pane | 2 directories with a file of one name, 2 names, all dialogs, batches of 2, 3 operations, 2 saves, 1 failed call, 1 cancel, 4 of these together, 2 nested event loops | 406,609 |
| `sftp_copies` | finding | the same directories, no dialogs, 4 operations, 1 save, nothing fails | violated |
| `vault` | safety of the vault over failures and crashes | 2 profiles, 1 stored key, 2 secrets, fresh or old installation, 3 operations, 1 failed write, 1 crash, 1 outage, 4 of these together | 836,951 |
| `vault_migrate` | finding | a legacy installation, nothing goes wrong | violated |
| `vault_outage` | finding | a fresh installation, 2 operations, 1 outage | violated |
| `window` | the tree of widgets, the panel in use, tabs and connections, and the refinement | up to 3 of 2 terminals, 1 SFTP pane and 1 RDP pane, 2 splitters, 2 RDP widgets | 95,406 |
| `terminal` | the screen, history, view, selection, mouse, and byte streams | sizes 3x2 and 4x3, 3 lines of history, 37 chunks of output; mixes of 3 chunks and a resize, 2 chunks and 3 gestures, 1 chunk and 5 gestures, 4 pieces of a stream | 608,762 |
| `addons` | disk, host and list agree; approvals end with their batch; operations end | the bundled agent and one other addon, 2 versions, 1 session, 3 kinds of replies, 3 turns; mixes of 5 operations and 2 faults, 2 operations and 7 acts of the user in the panel, and both with a fault | 109,232 |

Why these bounds. Two devices are enough to conflict and to converge; a third one adds no new
kind of pull. `MaxRev` stops the polling of devices that push duplicates back and forth.
`MaxEvents` bounds edits, syncs, connects, toggles and faults together: five are enough for both devices to connect to
a gist with data and three edits, clicks or faults in between, or for one device to connect, lose an answer, edit and pull.
Two targets tell two hosts from one host with a twin, and two pages tell whose notes survive a join. Random
walks with twenty events and two gists found nothing else. For the merge, 3 entries allow a chain
(a twin of a twin), which is where deduplication could go wrong. Two sessions let the
active one be closed while the other goes on; one resize can fall on each step of a connection, and
the proofs have any number of them. A block modulus of 3 keeps "same", "previous"
and "next" distinct, and lets the number wrap within the longest file. For the vault, two profiles
may share the one stored key or not, and three operations are enough to have a state saved, to
change it, and to come back; one failure, crash or outage of each kind can fall on any call. For the SFTP
pane, a batch of two has a file after the first one, which is what a cancel, a failure or a wrong count
can spoil; three operations let one be started over an upload behind the user's back and another after it;
two nested event loops let a message box come up over a dialog. With five events instead of four the
run takes minutes and finds no more. `sftp_copies` only needs to open a file, change the directory and open the other.
Three panels are what it takes for a splitter inside a splitter, and for a collapse beside a pane that is docked at that moment;
terminals are symmetric, and so are splitters. Screens of 3x2 and 4x3 have a margin that cuts off rows on either side, a
wide character at the edge, and a history that is trimmed after one more line; a resize goes either way. Of the two addons one is
bundled and one downloaded, and three turns of the agent reach the step limit.

Deadlock is not checked: every bound ends the run of the model, and a program in which the
user does nothing is allowed to stop.

Fairness. `sync_turns`: the worker thread, the event loop and the three timers go on; users need not act.
`shells`: the event loop and every step of the connection go on, because the blocking
calls have timeouts; the shell loop turns every 50 ms, so it sees a stop or a resize, but
nothing makes a shell end. `serial`: the loop turns, signals are delivered, the device reads its line;
strong fairness of `TimeRunsOut` says that a loop that keeps turning with no answer on its way
eventually sees its ten seconds pass. `addons`: transfers end because they time out (`StoreWorks`, `AgentEnds`), timers and
the deferred first load run because the event loop does (`HostStarts`, `AgentEnds`).

### What the properties say

* Sync: `OneOperationAtATime` (`m_pending` names the one request or answer there is), `ActivePolls`, `PushCarriesNextRevision`,
  `PauseStopsTraffic`; `JoinKeepsBoth`: after a join every profile of the gist is there as it was and every one of the device that clashes with none
  of them, nothing else, the gist's notes or, if it has none, the local ones, and no stored key less; `MergeLaws`; `WaitingEditsSurvive`: a download of a snapshot
  this device uploaded undoes no edit, deletion or note that still waits for its upload; and `SyncSettles`: connecting ends, edits reach the gist, devices converge.
* Shells: `DirectoryConsistent`, `PtyHasLastSize`, `ShownIsTrue`, and `SessionsSettle`: a closed worker ends, an attempt settles, a restart is carried out.
* Serial: `DeliveredIsPrefix`, `DialogIsHonest`, `TransferOwnsLine`, `DialogCloses`.
* SFTP: `NeverStuck`, `BusyWhileWorking`, `SyncedWhenQuiet`, `CancelStops`.
* Vault: `KeyOpensVault`, `SavedIsWhatWasAsked`, `BystandersKeepSecrets`, `MigrationKeepsPassphrases`, `WritesKeepTheRest`.
* Window: `LayoutWellFormed`, `ActiveIsInUse` (the panel in use is in sight, and its session is the one the agent and the SFTP button
  act on), `ConnectionsHaveTabs`, `ImplementsTabs`.
* Terminal: `ScreenHolds` (tables fit the size; a screen without margins scrolls as a whole after any resize), `PlainOutputIsKept` (line for line, against
  endless paper), `ViewIsAnchored`, `SelectionIsStable`, `PressesAreReleased`, `StreamIsReadAsWritten`.
* Addons and agent: `HostMatchesDisk`, `StoreIsTrue`, `UnlistedAreConfirmed` (what does not pass the list of first words is confirmed, batch by batch), `PhaseHasCause`, and `OperationsEnd`: the store is not busy for ever, the agent comes to a pause.

The type invariant of a module is a conjunct of one of its properties, where it has one.

The violated properties quote the documentation and comments of the source: `SftpWindow.h:32-33` (an edited
file is a remote path and its "local temp copy"), `README.md:545` of the repository (plaintext leftovers "are migrated
into the vault and wiped on startup") and `KeyringAdapter.h:17-20` (the fallback store "keeps dbvault working").
The findings in `PROJECT.json` say what the code does instead.

### Exceptions

Some properties carry an exception, which states a window the code leaves open. `PROJECT.json` has them with the hazards.

* Sync: `SyncSettles` excuses faults (a failed upload is not retried until something else asks for one) and, with `missed`, notes that a download stored
  before their timer fired: the serialize hook stops the timer and asks for no upload (`DashboardPage.cpp:2312`, `:5956-5975`), so they stay on one device until
  something else is uploaded, and the next upload of another device replaces them. The page and `VaultManager.h:91` say that notes are synced.
  `WaitingEditsSurvive` is about snapshots of the device itself, because the last writer wins against another device, and
  excepts a device with an upload it never heard of or has forgotten (`unheard`): the next poll brings it as news over later edits. It needs no turn taking.
  A failed apply is excused by `JoinKeepsBoth`.
* Shells: in `SessionsSettle`, a close before `run()` resets its flags is forgotten, and a restart requested during the proxy
  tunnel is lost if a stop is seen there.
* Serial: `DialogCloses` excepts a transfer accepted between the last two locks of the loop, which is never run. In `DialogIsHonest` late answers are
  indistinguishable, as XMODEM has it: the progress is claimed only without them, the end with one at most and none on a noisy line.
  `DeliveredIsPrefix` excepts `Wrapped`: after 255 damaged packets or answers and 255 late answers a block could pass for one a whole turn of the
  numbers before it.
* Vault: `WritesKeepTheRest` excludes the aged manager of the import prompt, which writes back the document it read before the question;
  the properties about a completed save exclude a file the file system lost or truncated (`damaged`), which the code
  reports as written; `BystandersKeepSecrets` lets the secret of a stored key be any of those its
  profiles hold; `MigrationKeepsPassphrases` ends with the first save by the user, which removes the old
  copies whether or not their move had been stored. With several stored keys it excuses failed writes, for the code
  can then lose a passphrase: one moved passphrase is enough (`SessionProfile.h:479`, `:527`) for the save
  that removes the old copies of all, and a crash before that save stores the missing one again ends it.
* SFTP: `BusyWhileWorking` and `CancelStops` end (`mixed`) with the first thing started while an automatic upload or the listing after a
  download for editing is under way: the pane is not busy then, and the window credits completions by their order, so one of the two is
  counted as the other; a server-to-server copy that is cancelled before its worker has begun runs to its end,
  since the slot clears the flag; `SyncedWhenQuiet` excuses runs with a failure or a cancel, because an
  upload that fails is not repeated, and the paths that are `disturbed`: removed, renamed or written over by the user, or fetched for
  editing while an editor of a file of the same name saved into the copy, which the window then takes for what it fetched.
* Window: `ConnectionsHaveTabs` leaves out the pane of an RDP profile that is opened again while it is open: the replaced one stays connected and
  has no tab (`replaced`). A drag whose chip is deleted under it is not followed further. A preview shows a panel without selecting it.
* Terminal: `ViewIsAnchored` and `SelectionIsStable` end at lines that are trimmed or wiped; a double click on a blank selects without an anchor and is not
  shifted; `PressesAreReleased` excepts two buttons at a time, of which the code tracks one, and a clear under the finger.
* Addons: `HostMatchesDisk` and `StoreIsTrue` except directories a fault left in pieces (`torn`): a removal that fails leaves the plugin running, and a plugin cut short
  by a full disk goes unnoticed. `PhaseHasCause` and `OperationsEnd` except a timeout that the client takes for a cancellation (`mute`): the panel thinks until it is stopped.
* Agent: `UnlistedAreConfirmed` says nothing of a command that passes `isAutoApprovedCommand`. The code means that test to find the read-only commands ("Anything that can
  mutate state or escalate — always confirm", `AiAgentPanel.cpp:832`; also `:846`, the prompt it gives the model, `:57-58`, and `README.md:94` of the repository), but it looks at the first word
  of each pipeline stage and at a list of risky words: `ls & touch f`, `find . -delete`, `sysctl -w`, `git branch -D` or a `$(...)` behind `echo` run without confirmation and are
  reported as read-only. In the model such a line runs unconfirmed like any other on the list.

## 4. Proofs

### Gist sync

`SyncController_proofs` proves, for every set of devices and every value of the bounds:

* `Invariance`: `Spec => []IInv`. The invariant says that each device is in one of three
  situations: nothing pending and both queues empty (`Idle`); one request queued, of the kind
  `m_pending` names (`Requested`); or one answer posted, of that kind (`Answered`); and that a
  connecting device has a pending operation, a disabled one has none, and an active one polls
  exactly when it is not paused (`Connection`). `OneOperationAtATime` is not inductive by itself: it
  counts requests and answers together and does not say which queue holds the one there is.
* From it `OneOperation`, `PollsWhileActive`, `PushRevision` and `ControlTypeCorrect`; and
  `PauseSilences`, an action property proved from the actions themselves.

The proof has one lemma per action (`CreateSyncPreserves`, ...), which `NextPreserves` puts together.
The snapshots are opaque in it: the argument is about the order of requests, answers and user
actions, so no fact about merging is used. The assumptions are those of the modules: the bounds
are naturals.

`MergeIsLawful` proves the laws of the merge for lists of any length. A fold is not a recursive operator the
provers could unfold by induction on its input, so the proof looks at its trace, the sequence of lists after each entry: an entry
is appended unless it clashes with what is there (`KeepUnlessClash`), and every property of the result is carried along the trace (`AddedGoes`).
`Added(R, L)` is the remote list `R` with what `L` adds to it, a sequence `A` in which nothing clashes with `R` or with another entry of it: `Added(R, L) = R \o A`
(`AddedAdds`). Cleaning is `D = Added(<<>>, R)`, and because folds compose (`AddedAppends`) and entries apart from a list are just appended
(`AddedWhenApart`), the merged list cleaned is `D \o A`. The greedy selection, the prefix and the two fixed points are read off that form.

`JoinsKeepBoth` is the action property of joining. It needs that what arrives is a snapshot of a gist, so `DataIsWhole` adds to the invariant that
devices, settings, messages and gists hold profile lists, that every message, saved key and connection names a gist that exists, that what is uploaded
has a revision above 0 (`DataInv`), and that a device that joins knows none (`RevInv`), so a gist with data is never taken for an old one; `Whence` says that the spent
bounds are naturals and that every device has a page of notes. What is then applied is the merge, `D \o A` as above (`Parts`): each entry of the gist's list is in `D` or clashes with an
earlier one (`HoldsRemote`), each local entry is in `A`, or clashes with the gist's or with an earlier local one (`HoldsLocal`).

### Vault

`Vault_proofs` proves, for any profiles, keys, secrets, inputs and bounds:

* `VaultInvariance`: `Spec => []Inv`, where `Inv` has three parts. `Shape` says that a manager holds
  a number for a key and a whole document. `OneKey`: as long as there was no outage, the key
  the keyring gives, the key of `dbvault`, the key of the manager under way and the key of the one
  waiting in the import prompt are the same. `CacheFresh`: a manager that has read `dbvault` and is
  not aged holds the file's key, and differs from the file only in entries its calls so far name (a
  call that failed leaves its change in memory).
* `KeyAlwaysOpens`: `Spec => []KeyOpensVault`, one conjunct of `OneKey`. It is not inductive
  alone, since a manager could write the file under a stale key of its own.
* `NothingOverwritten`: `Spec => WritesKeepTheRest`. A write puts down the whole document of its
  manager, so what it keeps is what `CacheFresh` says the manager had; this is where the aged manager
  has to be left out.

* `PassphrasesSurvive`: `Spec => []MigrationKeepsPassphrases`. The invariant (`MigrationIsSafe`) is about an older installation the user
  has not saved to: its profiles are those of the file, and either every key with copies is untouched or moved, a move under
  way stores one of the copies (`Moving`), or the save that follows the moves is under way and its list carries what was
  moved (`Resaving`). Two facts about operators carry it: `LeastExists`, that a set of naturals has a least
  element, and `ListsAll`, that `SetToSeq` lists a set. The exception for failed writes was found when the first form of the
  property turned out to be false on two stored keys.

* `WhatWasSavedIsThere`: `Spec => []SavedIsWhatWasAsked`, and `BystandersAreKept`: `Spec => []BystandersKeepSecrets`. Both follow
  from `SavingIsSound`, the invariance of `SaveInv`. It has seven parts. `Typed` is the type invariant, with the lists `Tidy`
  and no master key in sight that was never made. `Managers`: as long as no file was damaged, a manager that read `dbvault` has its
  key. `Resting`: between operations, if the last save was complete, `connects.json` and `dbvault` are those of the profiles in memory
  (`Kept`), or the profiles were loaded without the key and it is still not found. `Aside`: an operation that does not save the list
  (keys, import, load) keeps it so, and writes to slots of keys no profile uses only. `Saving`: the calls of a save
  put every secret of the list where it belongs, no two of them disagree about a slot, and as long as all succeeded each of those made
  has its effect in the files. `Guarded`: for a profile that the save leaves alone neither the file, nor the document
  of the manager, nor a call yet to be made has another value in its slot. `Importing` carries the key from an import to its prompt.

  What an operation's calls do is established once, for `SaveCalls` (`SaveIsFaithful`), and carried over to the sequences that put a call
  before or behind it (`ForgetIsFaithful`, `SavePassphraseIsFaithful`, `ApplyIsFaithful`); what the edits do to the
  list is that it stays `Tidy` (`EditIsTidy`, `RemovedIsTidy`, `MovedIsTidy`); `SaveStarts` takes both and starts every operation that
  saves, `AsideStarts` the others. A call on `dbvault` is reduced to its effects once (`SecretStep`), and each part of the
  invariant is carried over it by a lemma of its own. `LoadedIsKept` and `KeptReloads` are the round trip: what is kept is what loading
  returns. Ids that are not unique would break `SaveWantsOnce`, two calls that disagree, and with it the theorem.

For `Inv`, `StepKeepsInv` takes the actions one by one: those that leave keyring and `dbvault` alone go through
`Unaffected`, calls that end without a write through `RefusedOrSkipped`, and the write through
`RewriteKeepsInv`. The assumptions are those of `ConstantsAssumption`.

### SFTP pane

`SftpPane_proofs` proves `PaneIsNeverStuck`: `Spec => []NeverStuck`, for any files, batches, failures, cancels and any depth of nested boxes.
`NeverStuck` alone is not inductive: that a box is open says nothing of what happens when it is answered. The invariant
(`PaneKnowsWhy`) says why a pane is busy: it has posted a request; or it holds a batch and one of its boxes goes on with batches
(`PumpBox`); or the reason is outside the window (`Elsewhere`: a signal on its way, the transfer the client is in, a cross transfer). For the last part each of these must end
with a report, so a progress signal is never the last one of its transfer (`ProgressInv`), and a cross transfer reports
once (`FinishedInv`). Every handler is shown to settle the pane whatever it finds (`HandleSettles`), and every answer to a box
(`ResumeKeeps`) and every operation of the user to keep it settled. A cancel empties the queue, which would break it under a box; the button is out of reach there.

Its second part proves what is asked of the pane while it works, `WorkingPanesAreBusy` and `CancelStopsTheBatch`. Both need to know how
window and client take turns. The invariant (`TurnsAreTaken`) gives a pane one of six turns: `Quiet`, nothing under way; `Asked`, one slot
posted; `Moving`, the client in a transfer; `Answered`, the last signals of a transfer on their way; `Paused`, a box over a batch; `Crossing`, part of a
cross transfer. Each says what the two queues hold, whether the buttons are disabled and how far the batch is. The handlers are shown to lead
from the turn they belong to into the next. Nothing is claimed of a run that is `mixed`.

Its last part proves `SyncedWhenQuiet` (`SavedEditsArrive`), of every run and not only of those with one thing at a time. The invariant (`EditsAreInStep`) is
about one file at a time (`Sound`): as long as nothing failed, was cancelled or is about to take the file away, its copy is the one of its name, and if it looks unchanged either it
is as the copy is, or a transfer of it is posted or under way (`Tracked`). A file that is waited for needs more (`Awaited`): no upload to it and no
fetch of the same copy may follow its fetch, or it would be tracked as it is no longer. What a method of the window may do to all this is one relation
(`Follows`), shown for each handler and each answer to a box. An earlier form of the property compared what the file and the copy hold;
looking for the invariant showed that it holds for small bounds only. It has been restated with `disturbed`.

### Shell sessions

`ShellSessions_proofs` proves `NoResizeIsLost` and `TabsTellTheTruth` for any sessions, sizes and numbers of resizes and reconnects. For the first, the
size `run()` has read but not used yet (`local`) must be the last one or a resize be pending, at each step between the two reads
(`SizeInv`). For the second, the last signal in the queue of a session decides what its tab will say, so the invariant (`ShownAt`) relates
the step the worker is in to the last signal posted, and to the tab once the queue is empty. `DirectoryIsConsistent` proves `DirectoryConsistent`; removing an id
from the order is the fold-free `RemoveFirst`, which is shown to keep the others and their order.

### Serial session

`SerialSession_proofs` proves `TransferKeepsLine`. The reservation is set by the GUI with the request and cleared by the worker at the end of the transfer; `LineInv`
follows it through request, `taken` and engine, and says that the input queue is empty from the moment the loop has taken the request.

It also proves delivery and the honest dialog (`FileArrivesAsItIs`, `DialogTellsTheTruth`) for any files, block modulus, retries, noise and number of
late answers. The invariant (`TransferIsSafe`) is about what is on the line. `Flow` gives each item under way the block it carries, by its
place in the file and not by its number: in order, each packet at most one block after the one before it, up to the block the engine waits for.
`Near` puts the first of them next to what the device has, up to the number of packets damaged. `Balance` counts: packets, answers and the end under way
are one more than the late timeouts at most, and so many the acknowledged blocks may be ahead of the device at most. Once the device has left,
`Left` keeps what its last answers may still say. From `Flow` and `Balance` the packet at the front and the
device are less than a turn of the numbers apart (`PacketHead`), so a number determines its block (`NumberTells`), and a packet the device takes is
the next block (`DeviceTakesPacket`). Below that, each call of the engine is summed up in one lemma (`ProcessDoes`, `TimeoutDoes`): it repeats, goes on by
one block, sends the end, stops, or does nothing. `DialogInv` and `ReceiverInv` show that a transfer finds the device waiting and the line quiet, which rests on the user
looking at it first (`DeviceWaits`). Earlier forms of the two properties claimed delivery for any number of late answers and damaged packets; the proof failed at
exactly the two exceptions they have now.

### Addons and the AI agent

The first half of `Addons_proofs` has the lemmas about the panel, as functions of its record: each handler keeps `PanelInv` (its shape; what may run was granted or passes the list;
what ends the phase it is in). The second half carries them through the composition, in which the host may destroy or recreate the panel at any time:
`PanelIsInvariant`, and from it `UnlistedNeedConsent` and `PanelNeverHangs`. `MarketInv` adds disk, host and list: what the host knows is the last
scan, every path that changes a directory or a flag ends in a scan or in a crash, and an installation under way is not listed as installed.
`HostFollowsDisk` and `PageIsTrue` follow.

### Workspace

`MainWindow_proofs` proves the three invariants of the window and the refinement, for any terminals, panes and reopened desktops: `WorkspaceIsWellFormed`,
`ActivePanelIsInUse`, `EveryConnectionHasTab` and `WindowImplementsTabs` (`Spec => ImplementsTabs`); and `TabsArePartition`, that the groups the
refinement reads off the tree are a partition of the open panels, with the panel in use in the group in front. The inductive invariant, `WindowInv`, was checked by TLC on
the run `window` before it was proved. Its part about the layout, `Sound`, adds to `LayoutWellFormed` what the operations rely on: the splitters are a
forest (`Forest`: whoever follows `parentWidget()` leaves any set of splitters, `Grounded`); everything but the visible root waits hidden under the workspace, and
only units do (`Tree`); the tab order lists each open panel once (`Listed`); no drop is pending between two actions. `Accounts` and `Hands` are the tables of
sessions and panes and what the mouse holds.

Three ideas carry the proof. First, `layoutUnitFor` is the only function that goes up the splitters to where they end (`UnitsAreUnique`), so the units after an operation are found by naming
a function that does: after `extractPane` has collapsed a splitter a unit lives on in its `Heir`, and `dockInto` puts a new splitter in a panel's
place (`Joined`). Second, a new splitter has to be free in the model: splitters with two children each are fewer than the panels, by the number of
units (`SplitterIsFree`), and the assumption on `MaxPanels` and `Splitters` is no weaker than that needs (Qt allocates splitters on demand). Third, each operation of the workspace is described
once by what it does to the units of the panels (`Opens`, `Shows`, `Leaves`, `GivesWay`, `Docks`, `SplitsOff`), and every action of the window is one of these or leaves the tree alone
(`WindowStep`). The groups of `WorkspaceTabs` are sets of panels with the same unit (`GroupsAreMates`), so each description is an action of the abstract
specification (`GroupsOpen` to `GroupsDock`), which gives the refinement.

The assumptions on the constants are that the kinds of panels are disjoint, as the keys of `PanelRef` are, that the two widgets that are no panels (`"host"`, `"workspace"`) are none, and the
bound on the splitters above.

### Terminal

`Terminal_proofs` proves the six properties of the run `terminal`, for any control functions in chunks of any length, any sizes of at least two columns and
two rows, any gestures, any depth of the history and any bounds. The inductive invariant is `TerminalInv` (`TerminalHolds`), for bytes `StreamInv`.

* `ScreenInv`. `Shape(s, cols, rows, T, B)` types a screen and says where its margins may be: the top in `T`, the bottom in `B`, on the screen shown and
  on the one behind it. Each operator keeps the shape for any `T` and `B` it can leave alone, so one lemma per operator serves two claims: with both
  `0..rows - 1` it is well-formedness, with `{0}` and `{rows - 1}` it is that a screen nobody gave margins to scrolls as a whole, through resizing and both
  screens (`ScreensHold`).
* `MouseInv`. Unless the gesture left what the code follows, at most one button is held and the program believes at most in the one of
  `m_mousePressedBtn` (`PressesReleased`).
* `RollInv`. As long as only plain output came, screen and history are the end of the lines on endless paper (`Rolled`): the row of the cursor is the last
  line, those above it precede it, and the history is what precedes them, cut to its depth. The hard steps are the wrap of a wide character in the last
  column, the line feed at the bottom, which moves a line into a full history, and the resize, which cuts paper and screen alike
  (`OutputKept`).
* `StreamInv`. The machine is in its ground state between pieces and has read what was meant. A piece is walked byte by byte (`BytesAreRead`), with what the machine
  may hold after each.

Output is a fold of control functions; `FedStaysIn` says that a set closed under `FeedOne` holds the result, and each proof names the set.

`ViewAnchored` and `SelectionStable` are about one step, in which any number of lines scroll off and are trimmed. `GoesOn(s, t)` is the relation
between the screen before and after: history is only added at the bottom and taken at the top (`Followed`), a view away from the bottom keeps its
distance to its line (`Anchored`), and a selection in the history moves by whole lines (`Shifted`), unless the history was wiped. It is transitive
(`GoesOnAgain`), each control function is an instance (`FeedGoesOn`), so a chunk is (`ChunkGoesOn`); plain output moreover keeps the view away from the bottom
(`Scrolls`). A character's place after `k` lines were trimmed is `k * cols` lower, in the same column (`LineShifts`), which gives the text of a selection. That its ends
are in order (`SelectionInv`) is an invariant of its own: whoever selects orders them.

The assumptions: `ScreenAssumption` (the history keeps at least one line, no character is both narrow and wide, the blank is narrow), `ParserAssumption` (a sequence may have at least
one byte) and `TerminalAssumption` (sizes of at least two by two, where `estimatePtySize` gives at least 20 by 5, parameters without a sign, bounds that are naturals).

### What stays with TLC

Every invariant of a passing run is a theorem, and every action property but one. Only model checked: the liveness properties (`SyncSettles`, `SessionsSettle`, `DialogCloses`,
`OperationsEnd`; TLAPS does not do fairness), and `WaitingEditsSurvive`, whose invariant would have to follow every snapshot of a device from its upload to the gist and back. The three runs that
find a violation are TLC's by nature.

## 5. Plan

1. Gist sync, shell and serial sessions, vault, SFTP pane, window, terminal, addons and agent: done, each with a
   proved invariant.
2. Components left: the client of the server statistics with the change of session it does not notice, the worker of an RDP session, the handshake of a
   proxy tunnel, the hand-over between two instances of the program.
3. Operations left: closing an SFTP pane with transfers under way (the destructor removes the copies and waits three
   seconds for the thread), folders as trees, the pending slot of a session that wants an SFTP pane (`MainWindow.cpp:530`), Telnet option negotiation, the replies and keys of
   the terminal.
4. Proofs: the order in which the keys of a snapshot are listed, and that waiting edits survive.

## 6. Not modelled

In the vault: the notes node (stored and removed by the same two calls), renaming a key, exporting,
a second process over the same files, and a crash inside one call (each writes a new file aside and
then replaces the old one, in two steps; the outcomes `lost` and `truncated` stand for what can be left).

In the SFTP pane: what the user starts on a pane that could not connect, other than asking for a listing (the client refuses all of it); closing it, folders, dragging out, the text of the queue items, the details of connecting.

In the workspace and the window: sizes and geometry, the zones of a drop, menus, shortcuts, themes, the statistics chip.

In the terminal: colours and attributes, painting, highlighting, fonts, key encoding, replies to queries, the context menu.

In addons and agent: entries for other platforms, the library loader, the chat history and its trimming, the transcript, key and model settings.

Cryptography, wire formats, painting and widgets, fonts and settings pages, the libraries (libssh,
FreeRDP, Qt) beyond what their calls return, packaging. Telnet option negotiation and SSH authentication
methods are abstracted to success, failure and a stop between.
The components not reached are listed with their reasons in `PROJECT.json`.
