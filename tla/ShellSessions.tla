---------------------------- MODULE ShellSessions ----------------------------
(* The terminal sessions: SessionManager on the GUI thread, and one worker     *)
(* QThread (SshSession or TelnetSession) per session.  The two threads share   *)
(* the flags under m_mutex and the queued signals of the worker.  One action   *)
(* of a worker is what it does between two looks at the shared flags: a        *)
(* blocking network call followed by the check of the stop request.            *)
EXTENDS Integers, Sequences, SequencesExt, FiniteSets

CONSTANTS
    SshIds, TelnetIds,   \* session ids (UUIDs): each is opened at most once
    Sizes,               \* terminal sizes (columns and rows)
    MaxResizes,          \* bound: resizes, over all sessions
    MaxReconnects        \* bound: sessions for which connectSession is called twice

NoSession == "none"

ASSUME SessionsAssumption ==
    /\ SshIds \cap TelnetIds = {} /\ NoSession \notin SshIds \cup TelnetIds
    /\ {MaxResizes, MaxReconnects} \subseteq Nat
    /\ Sizes # {} /\ 0 \notin Sizes

Ids == SshIds \cup TelnetIds
NoSize == 0

DefaultSize == CHOOSE z \in Sizes : TRUE

VARIABLES
    order, active,       \* SessionManager: m_order (the live ids), m_activeId
    status, connected,   \* LiveSession: what the user is shown
    object,              \* the worker object: None, Owned, Retiring (m_retiringSsh), Deleted
    listening,           \* the manager is connected to the thread's finished signal
    closing,             \* the session the GUI thread is in the middle of retiring
    pc,                  \* the worker thread; "Idle" when it is not running
    stop, restart,       \* m_stopRequested, m_restartRequested
    size, resizePending, \* m_cols and m_rows, m_resizePending
    local, pty,          \* the size run() works with; the size the server knows
    sig,                 \* signals posted to the GUI thread
    resizes, reconnected \* resizes so far; the sessions connectSession was called twice for

shown == <<status, connected>>
manager == <<order, active, object, listening, closing>>
flags == <<stop, restart>>
sizes == <<size, resizePending, local, pty>>
spent == <<resizes, reconnected>>
vars == <<manager, shown, pc, flags, sizes, sig, spent>>

Steps == {"Idle", "Begin", "Tunnel", "Connect", "Auth", "Channel", "Shell", "Dial", "Loop",
          "After", "Finish"}

Live(s) == object[s] = "Owned"
Running(s) == pc[s] # "Idle"

(* The GUI thread handles an event only between two user actions.              *)
GuiFree == closing = NoSession

(* Signals of a worker the manager has retired reach nobody.                   *)
Emit(s, signals) == sig' = IF Live(s) THEN [sig EXCEPT ![s] = @ \o signals] ELSE sig

Init ==
    /\ order = <<>> /\ active = NoSession /\ closing = NoSession
    /\ status = [s \in Ids |-> "preparing"]
    /\ connected = [s \in Ids |-> FALSE]
    /\ object = [s \in Ids |-> "None"]
    /\ listening = [s \in Ids |-> FALSE]
    /\ pc = [s \in Ids |-> "Idle"]
    /\ stop = [s \in Ids |-> FALSE]
    /\ restart = [s \in Ids |-> FALSE]
    /\ size = [s \in Ids |-> DefaultSize]
    /\ resizePending = [s \in Ids |-> FALSE]
    /\ local = [s \in Ids |-> NoSize]
    /\ pty = [s \in Ids |-> NoSize]
    /\ sig = [s \in Ids |-> <<>>]
    /\ resizes = 0 /\ reconnected = {}
-----------------------------------------------------------------------------
(* The GUI thread. *)

(* connectSession passes the size the terminal has; connectTo starts the       *)
(* thread, or asks a running one to start over.                                *)
ConnectTo(s) ==
    /\ resizePending' = [resizePending EXCEPT ![s] = FALSE]
    /\ status' = [status EXCEPT ![s] = "connecting"]
    /\ stop' = [stop EXCEPT ![s] = Running(s)]
    /\ restart' = [restart EXCEPT ![s] = Running(s)]
    /\ pc' = [pc EXCEPT ![s] = IF Running(s) THEN @ ELSE "Begin"]

(* beginTerminalSession: createSession, lay the pane out, connectSession.      *)
Open(s) ==
    /\ GuiFree /\ object[s] = "None"
    /\ object' = [object EXCEPT ![s] = "Owned"]
    /\ order' = Append(order, s)
    /\ active' = s
    /\ ConnectTo(s)
    /\ UNCHANGED <<connected, listening, closing, size, local, pty, sig, spent>>

(* Bound: one session at most is resized or reconnected.                       *)
Disturbable(s) == reconnected \subseteq {s} /\ \A t \in Ids \ {s} : size[t] = DefaultSize

(* connectSession once more.                                                   *)
Reconnect(s) ==
    /\ GuiFree /\ Live(s) /\ s \notin reconnected /\ Cardinality(reconnected) < MaxReconnects
    /\ Disturbable(s)
    /\ reconnected' = reconnected \cup {s}
    /\ ConnectTo(s)
    /\ UNCHANGED <<manager, connected, size, local, pty, sig, resizes>>

(* resizePty, from the terminal widget and when the connection comes up.       *)
Resize(s) ==
    /\ GuiFree /\ Live(s) /\ resizes < MaxResizes /\ Disturbable(s)
    /\ resizes' = resizes + 1
    /\ \E z \in Sizes \ {size[s]} : size' = [size EXCEPT ![s] = z]
    /\ resizePending' = [resizePending EXCEPT ![s] = TRUE]
    /\ UNCHANGED <<manager, shown, pc, flags, local, pty, sig, reconnected>>

(* The tab of another session is selected.                                     *)
Activate(s) ==
    /\ GuiFree /\ Live(s) /\ active # s
    /\ active' = s
    /\ UNCHANGED <<order, object, listening, closing, shown, pc, flags, sizes, sig, spent>>

(* closeSession.  A session is listed once, see DirectoryConsistent, so that   *)
(* removing all of its places is removing the first.  The signals still posted *)
(* will find no session.  (Mistaken: the active session is not replaced.)      *)
ForgetKeepsActive(s) ==
    /\ order' = RemoveFirst(order, s)
    /\ status' = [status EXCEPT ![s] = "preparing"]
    /\ connected' = [connected EXCEPT ![s] = FALSE]
    /\ sig' = [sig EXCEPT ![s] = <<>>]
    /\ UNCHANGED active

Forget(s) ==
    /\ order' = RemoveFirst(order, s)
    /\ active' = IF active # s THEN active
                 ELSE IF order' = <<>> THEN NoSession ELSE Last(order')
    /\ status' = [status EXCEPT ![s] = "preparing"]
    /\ connected' = [connected EXCEPT ![s] = FALSE]
    /\ sig' = [sig EXCEPT ![s] = <<>>]

(* A worker found idle is deleted; the thread of a running one may go on to    *)
(* its end before the manager listens to its finished signal and asks it to    *)
(* stop.                                                                       *)
CloseIdle(s) ==
    /\ GuiFree /\ Live(s) /\ ~Running(s)
    /\ Forget(s)
    /\ object' = [object EXCEPT ![s] = "Deleted"]
    /\ UNCHANGED <<listening, closing, pc, flags, sizes, spent>>

CloseRunning(s) ==
    /\ GuiFree /\ Live(s) /\ Running(s)
    /\ Forget(s)
    /\ object' = [object EXCEPT ![s] = "Retiring"]
    /\ closing' = s
    /\ UNCHANGED <<listening, pc, flags, sizes, spent>>

(* Mistaken: the stop request leaves a restart request standing.               *)
RetireKeepsRestart(s) ==
    /\ closing = s
    /\ closing' = NoSession
    /\ listening' = [listening EXCEPT ![s] = TRUE]
    /\ stop' = [stop EXCEPT ![s] = TRUE]
    /\ UNCHANGED <<restart, order, active, object, shown, pc, sizes, sig, spent>>

Retire(s) ==
    /\ closing = s
    /\ closing' = NoSession
    /\ listening' = [listening EXCEPT ![s] = TRUE]
    /\ stop' = [stop EXCEPT ![s] = TRUE]
    /\ restart' = [restart EXCEPT ![s] = FALSE]
    /\ UNCHANGED <<order, active, object, shown, pc, sizes, sig, spent>>

(* The manager's slots; the finished signal is heard only for a retired worker.*)
OnSignal(s) ==
    /\ GuiFree /\ Live(s) /\ sig[s] # <<>>
    /\ sig' = [sig EXCEPT ![s] = Tail(@)]
    /\ status' = [status EXCEPT ![s] = Head(sig[s])]
    /\ connected' = [connected EXCEPT ![s] = Head(sig[s]) = "connected"]
    /\ UNCHANGED <<manager, pc, flags, sizes, spent>>

OnFinished(s) ==
    /\ GuiFree /\ sig[s] = <<"finished">>
    /\ sig' = [sig EXCEPT ![s] = <<>>]
    /\ object' = [object EXCEPT ![s] = "Deleted"]
    /\ UNCHANGED <<order, active, listening, closing, shown, pc, flags, sizes, spent>>
-----------------------------------------------------------------------------
(* The worker thread: run(). *)

At(s, from) == pc[s] = from /\ UNCHANGED <<manager, shown, spent>>
Goto(s, to) == pc' = [pc EXCEPT ![s] = to]

(* A failure is reported unless it was asked for.                              *)
Report(s) == IF stop[s] THEN UNCHANGED sig ELSE Emit(s, <<"error">>)

(* The lock at the top of the loop: parameters are read, the flags are reset.  *)
Begin(s) ==
    /\ At(s, "Begin")
    /\ stop' = [stop EXCEPT ![s] = FALSE]
    /\ restart' = [restart EXCEPT ![s] = FALSE]
    /\ local' = [local EXCEPT ![s] = size[s]]
    /\ pty' = [pty EXCEPT ![s] = NoSize]
    /\ Goto(s, IF s \in SshIds THEN "Tunnel" ELSE "Dial")
    /\ UNCHANGED <<size, resizePending, sig>>

(* Mistaken: a tunnel that fails is not reported.                              *)
OpenTunnelSilently(s) ==
    /\ At(s, "Tunnel")
    /\ UNCHANGED <<flags, sizes, sig>>
    /\ Goto(s, "Finish") \/ Goto(s, IF stop[s] THEN "Finish" ELSE "Connect")

(* A tunnel that fails, or that a stop request finds open, ends the loop.      *)
OpenTunnel(s) ==
    /\ At(s, "Tunnel")
    /\ UNCHANGED <<flags, sizes>>
    /\ \/ Goto(s, "Finish") /\ Emit(s, <<"error">>)
       \/ Goto(s, IF stop[s] THEN "Finish" ELSE "Connect") /\ UNCHANGED sig

(* ssh_connect, then authenticate: a success goes on unless a stop was asked   *)
(* for meanwhile.                                                              *)
Attempt(s, from, next) ==
    /\ At(s, from)
    /\ UNCHANGED <<flags, sizes>>
    /\ \/ Goto(s, "After") /\ Report(s)
       \/ Goto(s, IF stop[s] THEN "After" ELSE next) /\ UNCHANGED sig

Connect(s) == Attempt(s, "Connect", "Auth")
Authenticate(s) == Attempt(s, "Auth", "Channel")

(* Mistaken: the pending resize is dropped, the size read at the top is kept.  *)
OpenChannelOldSize(s) ==
    /\ At(s, "Channel")
    /\ UNCHANGED <<flags, size, pty, local>>
    /\ \/ Goto(s, "After") /\ Emit(s, <<"error">>) /\ UNCHANGED resizePending
       \/ /\ Goto(s, "Shell")
          /\ resizePending' = [resizePending EXCEPT ![s] = FALSE]
          /\ UNCHANGED sig

(* Opening the channel, then re-reading the size the layout settled on.        *)
OpenChannel(s) ==
    /\ At(s, "Channel")
    /\ UNCHANGED <<flags, size, pty>>
    /\ \/ Goto(s, "After") /\ Emit(s, <<"error">>) /\ UNCHANGED <<resizePending, local>>
       \/ /\ Goto(s, "Shell")
          /\ local' = [local EXCEPT ![s] = size[s]]
          /\ resizePending' = [resizePending EXCEPT ![s] = FALSE]
          /\ UNCHANGED sig

(* The PTY with that size, the environment, the shell.                         *)
RequestShell(s) ==
    /\ At(s, "Shell")
    /\ UNCHANGED <<flags, size, resizePending, local>>
    /\ \/ Goto(s, "After") /\ Emit(s, <<"error">>) /\ UNCHANGED pty
       \/ /\ Goto(s, "Loop")
          /\ pty' = [pty EXCEPT ![s] = local[s]]
          /\ Emit(s, <<"connected">>)

(* Telnet: one TCP connection; the size is told in the option negotiation.     *)
Dial(s) ==
    /\ At(s, "Dial")
    /\ UNCHANGED <<flags, size, resizePending, local>>
    /\ \/ Goto(s, "After") /\ Report(s) /\ UNCHANGED pty
       \/ stop[s] /\ Goto(s, "After") /\ UNCHANGED <<pty, sig>>
       \/ /\ ~stop[s]
          /\ Goto(s, "Loop")
          /\ pty' = [pty EXCEPT ![s] = local[s]]
          /\ Emit(s, <<"connected">>)

(* One turn of the shell loop: a stop request or the peer ends it, a pending   *)
(* resize is passed on, writing or reading may fail (Telnet reports neither);  *)
(* leaving the loop is always reported.                                        *)
Turn(s) ==
    /\ At(s, "Loop")
    /\ UNCHANGED <<flags, size>>
    /\ resizePending' = [resizePending EXCEPT ![s] = FALSE]
    /\ \/ /\ Goto(s, "After")
          /\ Emit(s, <<"disconnected">>)
          /\ UNCHANGED <<local, pty>>
       \/ /\ ~stop[s]
          /\ local' = [local EXCEPT ![s] = IF resizePending[s] THEN size[s] ELSE @]
          /\ pty' = [pty EXCEPT ![s] = IF resizePending[s] THEN size[s] ELSE @]
          /\ \/ Goto(s, "Loop") /\ UNCHANGED sig
             \/ s \in SshIds /\ Goto(s, "After") /\ Emit(s, <<"error", "disconnected">>)

After(s) ==
    /\ At(s, "After")
    /\ UNCHANGED <<sizes, sig>>
    /\ IF restart[s]
         THEN /\ restart' = [restart EXCEPT ![s] = FALSE]
              /\ stop' = [stop EXCEPT ![s] = FALSE]
              /\ Goto(s, "Begin")
         ELSE Goto(s, "Finish") /\ UNCHANGED flags

(* run() has returned; isRunning() is true until here.                         *)
Finish(s) ==
    /\ At(s, "Finish")
    /\ Goto(s, "Idle")
    /\ sig' = IF listening[s] THEN [sig EXCEPT ![s] = <<"finished">>] ELSE sig
    /\ UNCHANGED <<flags, sizes>>
-----------------------------------------------------------------------------
User(s) == Open(s) \/ Reconnect(s) \/ Resize(s) \/ Activate(s) \/ CloseIdle(s) \/ CloseRunning(s)

Gui(s) == Retire(s) \/ OnSignal(s) \/ OnFinished(s)

Connecting(s) ==
    \/ Begin(s) \/ OpenTunnel(s) \/ Connect(s) \/ Authenticate(s) \/ OpenChannel(s)
    \/ RequestShell(s) \/ Dial(s) \/ After(s) \/ Finish(s)

Worker(s) == Connecting(s) \/ Turn(s)

Next == \E s \in Ids : User(s) \/ Gui(s) \/ Worker(s)

(* The event loop runs, every blocking call returns (they have timeouts), and  *)
(* the shell loop turns every 50 ms and sees what it is asked for.  Nothing    *)
(* obliges a shell to end by itself.                                           *)
Fairness ==
    \A s \in Ids : /\ WF_vars(Gui(s)) /\ WF_vars(Connecting(s))
                   /\ WF_vars(Turn(s) /\ (stop[s] \/ resizePending[s]))

Spec == Init /\ [][Next]_vars

FairSpec == Spec /\ Fairness
-----------------------------------------------------------------------------
TypeOK ==
    /\ order \in Seq(Ids) /\ active \in Ids \cup {NoSession} /\ closing \in Ids \cup {NoSession}
    /\ object \in [Ids -> {"None", "Owned", "Retiring", "Deleted"}]
    /\ listening \in [Ids -> BOOLEAN]
    /\ status \in [Ids -> {"preparing", "connecting", "connected", "error", "disconnected"}]
    /\ connected \in [Ids -> BOOLEAN]
    /\ pc \in [Ids -> Steps]
    /\ stop \in [Ids -> BOOLEAN] /\ restart \in [Ids -> BOOLEAN]
    /\ size \in [Ids -> Sizes] /\ resizePending \in [Ids -> BOOLEAN]
    /\ local \in [Ids -> Sizes \cup {NoSize}] /\ pty \in [Ids -> Sizes \cup {NoSize}]
    /\ resizes \in Nat /\ reconnected \subseteq Ids

(* The tab bar and the toolbar agree with the table of sessions: every live    *)
(* session is listed once, and the active one is live unless there is none.    *)
DirectoryConsistent ==
    /\ TypeOK
    /\ ToSet(order) = {s \in Ids : Live(s)} /\ IsInjective(order)
    /\ IF order = <<>> THEN active = NoSession ELSE active \in ToSet(order)

(* No resize is lost between the threads: while a shell runs, the server knows *)
(* the size the terminal asked for last, or a resize is pending, however the   *)
(* resizes fell between the steps of the connection; unless it is to stop.     *)
PtyHasLastSize ==
    \A s \in Ids : pc[s] = "Loop" => stop[s] \/ resizePending[s] \/ pty[s] = size[s]

(* What the user is shown is true once the signals are delivered: a session    *)
(* shown as connected has a running shell.                                     *)
ShownConnectedIsReal ==
    \A s \in Ids : Live(s) /\ connected[s] /\ sig[s] = <<>> => pc[s] = "Loop"

(* A session that is not reconnected never dies silently: when its worker has  *)
(* ended and its signals are delivered, the user has been told.                *)
EndIsReported ==
    \A s \in Ids : Live(s) /\ ~Running(s) /\ sig[s] = <<>> /\ s \notin reconnected =>
        status[s] \in {"error", "disconnected"}

(* Once the signals are delivered the tabs say what became of the workers,     *)
(* see each part.                                                              *)
ShownIsTrue == ShownConnectedIsReal /\ EndIsReported

(* The thread of a closed session ends, unless the stop request came before    *)
(* the worker reset its flags at the top of run().                             *)
StopEndsWorker ==
    \A s \in Ids : listening[s] /\ stop[s] /\ pc[s] # "Begin" ~> ~Running(s)

(* A connection attempt comes to an end that the user sees.                    *)
AttemptSettles ==
    \A s \in Ids : Live(s) /\ status[s] = "connecting" /\ s \notin reconnected
        ~> ~Live(s) \/ status[s] # "connecting" \/ s \in reconnected

(* A reconnect asked for once the tunnel is open is carried out.               *)
RestartHonoured ==
    \A s \in Ids : restart[s] /\ pc[s] \in {"Connect", "Auth", "Channel", "Shell", "Dial", "Loop", "After"}
        ~> pc[s] = "Begin" \/ object[s] = "Retiring"

(* Whatever is asked of a session is answered, see each part.                  *)
SessionsSettle == StopEndsWorker /\ AttemptSettles /\ RestartHonoured
=============================================================================
