------------------------ MODULE ShellSessions_proofs ------------------------
(* Proofs about the terminal sessions, for any sets of sessions and sizes and  *)
(* any number of resizes and reconnects, in every interleaving of the GUI      *)
(* thread and the workers.                                                     *)
EXTENDS ShellSessions, SequenceTheorems, TLAPS

(* What a tab can say, and what a worker posts.                                *)
Words == {"preparing", "connecting", "connected", "error", "disconnected", "finished"}

FlagShape ==
    /\ stop \in [Ids -> BOOLEAN] /\ restart \in [Ids -> BOOLEAN]
    /\ resizePending \in [Ids -> BOOLEAN]

SizeShape ==
    /\ size \in [Ids -> Sizes]
    /\ local \in [Ids -> Sizes \cup {NoSize}] /\ pty \in [Ids -> Sizes \cup {NoSize}]

TableShape ==
    /\ object \in [Ids -> {"None", "Owned", "Retiring", "Deleted"}]
    /\ listening \in [Ids -> BOOLEAN]
    /\ status \in [Ids -> Words] /\ connected \in [Ids -> BOOLEAN]
    /\ pc \in [Ids -> Steps]

SigShape == sig \in [Ids -> Seq(Words)]

Shape == FlagShape /\ SizeShape /\ TableShape /\ SigShape

(* The size run() is going to ask the server for, or has asked it for, is the  *)
(* last one, unless a resize is pending or the run is to end anyway.           *)
SizeInv ==
    \A s \in Ids :
        /\ pc[s] \in {"Shell", "Dial"} => stop[s] \/ resizePending[s] \/ local[s] = size[s]
        /\ pc[s] = "Loop" => stop[s] \/ resizePending[s] \/ pty[s] = size[s]

-----------------------------------------------------------------------------
LEMMA DefaultIsSize == DefaultSize \in Sizes
  BY SessionsAssumption DEF DefaultSize

LEMMA InitShape == Init => Shape /\ SizeInv
  <1>1. Init => FlagShape
    BY DEF Init, FlagShape
  <1>2. Init => SizeShape
    BY DefaultIsSize DEF Init, SizeShape
  <1>3. Init => TableShape
    BY DEF Init, TableShape, Steps, Words
  <1>4. Init => SigShape
    BY DEF Init, SigShape
  <1>5. Init => SizeInv
    BY DEF Init, SizeInv
  <1> QED
    BY <1>1, <1>2, <1>3, <1>4, <1>5 DEF Shape

LEMMA FlagsKeepShape ==
    ASSUME FlagShape, NEW s \in Ids, User(s) \/ Gui(s) \/ Worker(s)
    PROVE  FlagShape'
  <1>1. CASE User(s)
    BY <1>1 DEF FlagShape, User, Open, Reconnect, ConnectTo, Running, Resize, Activate, CloseIdle,
                CloseRunning, flags, sizes
  <1>2. CASE Gui(s)
    BY <1>2 DEF FlagShape, Gui, Retire, OnSignal, OnFinished, flags, sizes
  <1>3. CASE Worker(s)
    BY <1>3 DEF FlagShape, Worker, Connecting, Begin, OpenTunnel, Connect, Authenticate, Attempt,
                OpenChannel, RequestShell, Dial, Turn, After, Finish, flags, sizes
  <1> QED
    BY <1>1, <1>2, <1>3

LEMMA SizesKeepShape ==
    ASSUME SizeShape, NEW s \in Ids, User(s) \/ Gui(s) \/ Worker(s)
    PROVE  SizeShape'
  <1>1. CASE User(s)
    BY <1>1 DEF SizeShape, User, Open, Reconnect, Resize, Activate, CloseIdle, CloseRunning, sizes
  <1>2. CASE Gui(s)
    BY <1>2 DEF SizeShape, Gui, Retire, OnSignal, OnFinished, sizes
  <1>3. CASE Worker(s)
    BY <1>3 DEF SizeShape, Worker, Connecting, Begin, OpenTunnel, Connect, Authenticate, Attempt,
                OpenChannel, RequestShell, Dial, Turn, After, Finish, sizes
  <1> QED
    BY <1>1, <1>2, <1>3

LEMMA Posted ==
    /\ <<"error">> \in Seq(Words) /\ <<"connected">> \in Seq(Words)
    /\ <<"disconnected">> \in Seq(Words) /\ <<"error", "disconnected">> \in Seq(Words)
    /\ <<"finished">> \in Seq(Words) /\ <<>> \in Seq(Words)
  BY DEF Words

LEMMA EmitShape ==
    ASSUME SigShape, NEW s \in Ids, NEW signals \in Seq(Words), Emit(s, signals)
    PROVE  SigShape'
  BY DEF Emit, SigShape

LEMMA SignalsKeepShape ==
    ASSUME SigShape, NEW s \in Ids, User(s) \/ Gui(s) \/ Worker(s)
    PROVE  SigShape'
  <1>1. CASE User(s)
    BY <1>1, Posted DEF SigShape, User, Open, Reconnect, Resize, Activate, CloseIdle, CloseRunning, Forget
  <1>2. CASE Gui(s)
    <2>1. CASE Retire(s) \/ OnFinished(s)
      BY <2>1, Posted DEF SigShape, Retire, OnFinished
    <2>2. CASE OnSignal(s)
      <3>1. Tail(sig[s]) \in Seq(Words)
        BY <2>2 DEF OnSignal, SigShape
      <3> QED
        BY <2>2, <3>1 DEF OnSignal, SigShape
    <2> QED
      BY <1>2, <2>1, <2>2 DEF Gui
  <1>3. CASE Worker(s)
    <2>1. CASE \E signals \in Seq(Words) : Emit(s, signals)
      BY <2>1, EmitShape
    <2>2. CASE UNCHANGED sig
      BY <2>2 DEF SigShape
    <2>3. CASE Finish(s)
      BY <2>3, Posted DEF Finish, SigShape
    <2> QED
      BY <1>3, <2>1, <2>2, <2>3, Posted
      DEF Worker, Connecting, Begin, OpenTunnel, Connect, Authenticate, Attempt, Report,
          OpenChannel, RequestShell, Dial, Turn, After
  <1> QED
    BY <1>1, <1>2, <1>3

LEMMA TableKeepsShape ==
    ASSUME TableShape, SigShape, NEW s \in Ids, User(s) \/ Gui(s) \/ Worker(s)
    PROVE  TableShape'
  <1>1. CASE User(s)
    <2>1. UNCHANGED listening /\ object' \in [Ids -> {"None", "Owned", "Retiring", "Deleted"}]
      BY <1>1 DEF TableShape, User, Open, Reconnect, Resize, Activate, CloseIdle, CloseRunning,
                  manager
    <2>2. pc' \in [Ids -> Steps]
      BY <1>1 DEF TableShape, User, Open, Reconnect, ConnectTo, Resize, Activate, CloseIdle,
                  CloseRunning, Steps
    <2>3. status' \in [Ids -> Words] /\ connected' \in [Ids -> BOOLEAN]
      BY <1>1 DEF TableShape, User, Open, Reconnect, ConnectTo, Resize, Activate, CloseIdle,
                  CloseRunning, Forget, Words, shown
    <2> QED
      BY <2>1, <2>2, <2>3 DEF TableShape
  <1>2. CASE Gui(s)
    <2>1. CASE OnSignal(s)
      <3>1. Head(sig[s]) \in Words
        BY <2>1 DEF OnSignal, SigShape
      <3> QED
        BY <2>1, <3>1 DEF OnSignal, TableShape, manager
    <2>2. CASE Retire(s) \/ OnFinished(s)
      BY <2>2 DEF TableShape, Retire, OnFinished, shown
    <2> QED
      BY <1>2, <2>1, <2>2 DEF Gui
  <1>3. CASE Worker(s)
    <2>1. UNCHANGED <<object, listening, status, connected>>
      BY <1>3 DEF Worker, Connecting, Begin, OpenTunnel, Connect, Authenticate, Attempt,
                  OpenChannel, RequestShell, Dial, Turn, After, Finish, At, manager, shown
    <2>2. pc' \in [Ids -> Steps]
      BY <1>3 DEF TableShape, Worker, Connecting, Begin, OpenTunnel, Connect, Authenticate,
                  Attempt, OpenChannel, RequestShell, Dial, Turn, After, Finish, Goto, Steps
    <2> QED
      BY <2>1, <2>2 DEF TableShape
  <1> QED
    BY <1>1, <1>2, <1>3

LEMMA StepKeepsShape == Shape /\ [Next]_vars => Shape'
  <1>1. Shape /\ UNCHANGED vars => Shape'
    BY DEF Shape, FlagShape, SizeShape, TableShape, SigShape, vars, manager, shown, flags, sizes
  <1> QED
    BY <1>1, FlagsKeepShape, SizesKeepShape, SignalsKeepShape, TableKeepsShape DEF Next, Shape

-----------------------------------------------------------------------------
LEMMA StepKeepsSize ==
    ASSUME Shape, SizeInv, [Next]_vars
    PROVE  SizeInv'
  <1>1. ASSUME NEW s \in Ids, User(s)
        PROVE  SizeInv'
    <2>1. CASE Open(s) \/ Reconnect(s)
      BY <2>1 DEF FlagShape, SizeShape, TableShape, Shape, SizeInv, Open, Reconnect, ConnectTo, Running, manager, sizes
    <2>2. CASE Resize(s) \/ Activate(s)
      BY <2>2 DEF FlagShape, SizeShape, TableShape, Shape, SizeInv, Resize, Activate, manager, shown, flags, sizes
    <2>3. CASE CloseIdle(s) \/ CloseRunning(s)
      BY <2>3 DEF FlagShape, SizeShape, TableShape, Shape, SizeInv, CloseIdle, CloseRunning, flags, sizes
    <2> QED
      BY <1>1, <2>1, <2>2, <2>3 DEF User
  <1>2. ASSUME NEW s \in Ids, Gui(s)
        PROVE  SizeInv'
    BY <1>2 DEF FlagShape, SizeShape, TableShape, Shape, SizeInv, Gui, Retire, OnSignal, OnFinished, manager, shown, flags, sizes
  <1>3. ASSUME NEW s \in Ids, Worker(s)
        PROVE  SizeInv'
    <2> USE DEF FlagShape, SizeShape, TableShape, Shape, SizeInv, At, Goto
    <2>1. CASE Begin(s)
      BY <2>1 DEF Begin
    <2>2. CASE OpenTunnel(s) \/ Connect(s) \/ Authenticate(s)
      BY <2>2 DEF OpenTunnel, Connect, Authenticate, Attempt, flags, sizes
    <2>3. CASE OpenChannel(s)
      BY <2>3 DEF OpenChannel, flags
    <2>4. CASE RequestShell(s)
      BY <2>4 DEF RequestShell, flags
    <2>5. CASE Dial(s)
      BY <2>5 DEF Dial, flags
    <2>6. CASE Turn(s)
      BY <2>6 DEF Turn, flags
    <2>7. CASE After(s) \/ Finish(s)
      BY <2>7 DEF After, Finish, flags, sizes
    <2> QED
      BY <1>3, <2>1, <2>2, <2>3, <2>4, <2>5, <2>6, <2>7 DEF Worker, Connecting
  <1>4. CASE UNCHANGED vars
    BY <1>4 DEF SizeInv, vars, flags, sizes
  <1> QED
    BY <1>1, <1>2, <1>3, <1>4 DEF Next

(* No resize is lost between the threads, however the resizes and reconnects   *)
(* fall between the steps of the connection (resizePty against the two reads   *)
(* of m_cols and m_rows in SshSession::run).                                   *)
THEOREM NoResizeIsLost == Spec => []PtyHasLastSize
  <1>1. Init => Shape /\ SizeInv
    BY InitShape
  <1>2. (Shape /\ SizeInv) /\ [Next]_vars => (Shape /\ SizeInv)'
    BY StepKeepsShape, StepKeepsSize
  <1>3. Shape /\ SizeInv => PtyHasLastSize
    BY DEF SizeInv, PtyHasLastSize
  <1> QED
    BY <1>1, <1>2, <1>3, PTL DEF Spec
-----------------------------------------------------------------------------
(* What a tab will say once the signals that are posted have been delivered.   *)
StatusAtEnd(s) == IF sig[s] = <<>> THEN status[s] ELSE sig[s][Len(sig[s])]
ConnectedAtEnd(s) == IF sig[s] = <<>> THEN connected[s] ELSE sig[s][Len(sig[s])] = "connected"

Unopened(s) == object[s] = "None" =>
    pc[s] = "Idle" /\ sig[s] = <<>> /\ ~connected[s] /\ ~listening[s]
Retired(s) ==
    /\ listening[s] => object[s] \in {"Retiring", "Deleted"}
    /\ closing = s => object[s] = "Retiring"
Undisturbed(s) == Live(s) /\ s \notin reconnected => ~stop[s] /\ ~restart[s]

Told(s) ==
    /\ Live(s) /\ ConnectedAtEnd(s) => pc[s] = "Loop"
    /\ Live(s) /\ s \notin reconnected /\ pc[s] \in {"After", "Finish", "Idle"} =>
          StatusAtEnd(s) \in {"error", "disconnected"}

ShownAt(s) == Unopened(s) /\ Retired(s) /\ Undisturbed(s) /\ Told(s)
ShownInv == \A s \in Ids : ShownAt(s)

(* The last signal posted is what counts.                                      *)
LEMMA EmitEnds ==
    ASSUME SigShape, NEW s \in Ids, Live(s), NEW signals \in Seq(Words), signals # <<>>,
           Emit(s, signals)
    PROVE  /\ sig'[s] # <<>> /\ sig'[s][Len(sig'[s])] = signals[Len(signals)]
           /\ \A t \in Ids \ {s} : sig'[t] = sig[t]
  <1>1. sig' = [sig EXCEPT ![s] = sig[s] \o signals] /\ sig[s] \in Seq(Words)
    BY DEF Emit, SigShape
  <1>2. sig'[s] = sig[s] \o signals
    BY <1>1 DEF SigShape
  <1>3. Len(signals) \in Nat \ {0} /\ Len(sig[s]) \in Nat
        /\ Len(sig[s] \o signals) = Len(sig[s]) + Len(signals)
    BY <1>1
  <1>4. (sig[s] \o signals)[Len(sig[s]) + Len(signals)] = signals[Len(signals)]
    BY <1>1, <1>3
  <1>5. \A t \in Ids \ {s} : sig'[t] = sig[t]
    BY <1>1 DEF SigShape
  <1> QED
    BY <1>2, <1>3, <1>4, <1>5

LEMMA TailEnds ==
    ASSUME NEW q \in Seq(Words), q # <<>>
    PROVE  /\ Head(q) = q[1] /\ Len(q) \in Nat \ {0}
           /\ Tail(q) = <<>> <=> Len(q) = 1
           /\ Tail(q) # <<>> => Tail(q)[Len(Tail(q))] = q[Len(q)]
  <1>1. Len(q) \in Nat \ {0} /\ Head(q) = q[1]
    OBVIOUS
  <1>2. Len(Tail(q)) = Len(q) - 1
    OBVIOUS
  <1>3. Tail(q) \in Seq(Words)
    OBVIOUS
  <1>4. Tail(q) = <<>> <=> Len(Tail(q)) = 0
    BY <1>3, EmptySeq
  <1>5. ASSUME Len(q) # 1
        PROVE  Tail(q)[Len(Tail(q))] = q[Len(q)]
    <2>1. Len(q) - 1 \in 1..Len(Tail(q))
      BY <1>1, <1>2, <1>5
    <2>2. \A i \in 1..Len(Tail(q)) : Tail(q)[i] = q[i + 1]
      BY HeadTailProperties
    <2> QED
      BY <1>1, <1>2, <2>1, <2>2
  <1> QED
    BY <1>1, <1>2, <1>4, <1>5

(* Delivering the signals one by one does not change what the last one says.   *)
LEMMA DeliveryEnds ==
    ASSUME Shape, NEW s \in Ids, OnSignal(s)
    PROVE  /\ StatusAtEnd(s)' = StatusAtEnd(s)
           /\ ConnectedAtEnd(s)' <=> ConnectedAtEnd(s)
  <1> DEFINE q == sig[s]
  <1>1. q \in Seq(Words) /\ q # <<>> /\ sig'[s] = Tail(q)
    BY DEF OnSignal, Shape, SigShape
  <1>2. status'[s] = Head(q) /\ (connected'[s] <=> Head(q) = "connected")
    BY DEF OnSignal, Shape, TableShape
  <1>3. /\ Head(q) = q[1] /\ Len(q) \in Nat \ {0}
        /\ Tail(q) = <<>> <=> Len(q) = 1
        /\ Tail(q) # <<>> => Tail(q)[Len(Tail(q))] = q[Len(q)]
    BY <1>1, TailEnds
  <1> QED
    BY <1>1, <1>2, <1>3 DEF StatusAtEnd, ConnectedAtEnd
(* A step of one session leaves what is known of the others alone.             *)
LEMMA OthersKeep ==
    ASSUME Shape, NEW s \in Ids, User(s) \/ Gui(s) \/ Worker(s), NEW t \in Ids \ {s}, ShownAt(t)
    PROVE  ShownAt(t)'
  <1>1. /\ object'[t] = object[t] /\ listening'[t] = listening[t]
        /\ closing' = t => closing = t
    BY SessionsAssumption
    DEF Shape, TableShape, User, Open, Reconnect, Resize, Activate, CloseIdle, CloseRunning, Gui,
        Retire, OnSignal, OnFinished, Worker, Connecting, Begin, OpenTunnel, Connect,
        Authenticate, Attempt, OpenChannel, RequestShell, Dial, Turn, After, Finish, At, manager,
        Ids
  <1>2. status'[t] = status[t] /\ connected'[t] = connected[t]
    BY DEF Shape, TableShape, User, Open, Reconnect, ConnectTo, Resize, Activate, CloseIdle,
           CloseRunning, Forget, Gui, Retire, OnSignal, OnFinished, Worker, Connecting, Begin,
           OpenTunnel, Connect, Authenticate, Attempt, OpenChannel, RequestShell, Dial, Turn,
           After, Finish, At, shown
  <1>3. pc'[t] = pc[t]
    BY DEF Shape, TableShape, User, Open, Reconnect, ConnectTo, Resize, Activate, CloseIdle,
           CloseRunning, Gui, Retire, OnSignal, OnFinished, Worker, Connecting, Begin,
           OpenTunnel, Connect, Authenticate, Attempt, OpenChannel, RequestShell, Dial, Turn,
           After, Finish, Goto
  <1>4. stop'[t] = stop[t] /\ restart'[t] = restart[t]
    BY DEF Shape, FlagShape, User, Open, Reconnect, ConnectTo, Resize, Activate, CloseIdle,
           CloseRunning, Gui, Retire, OnSignal, OnFinished, Worker, Connecting, Begin,
           OpenTunnel, Connect, Authenticate, Attempt, OpenChannel, RequestShell, Dial, Turn,
           After, Finish, flags
  <1>5. sig'[t] = sig[t]
    BY DEF Shape, SigShape, User, Open, Reconnect, Resize, Activate, CloseIdle, CloseRunning,
           Forget, Gui, Retire, OnSignal, OnFinished, Worker, Connecting, Begin, OpenTunnel,
           Connect, Authenticate, Attempt, Report, OpenChannel, RequestShell, Dial, Turn, After,
           Finish, Emit
  <1>6. t \in reconnected' <=> t \in reconnected
    BY DEF User, Open, Reconnect, Resize, Activate, CloseIdle, CloseRunning, Gui, Retire,
           OnSignal, OnFinished, Worker, Connecting, Begin, OpenTunnel, Connect, Authenticate,
           Attempt, OpenChannel, RequestShell, Dial, Turn, After, Finish, At, spent
  <1> QED
    BY <1>1, <1>2, <1>3, <1>4, <1>5, <1>6
    DEF ShownAt, Unopened, Retired, Undisturbed, Told, Live, StatusAtEnd, ConnectedAtEnd

LEMMA UserKeepsShown ==
    ASSUME Shape, NEW s \in Ids, ShownAt(s), User(s)
    PROVE  ShownAt(s)'
  <1> USE SessionsAssumption DEF ShownAt, Unopened, Retired, Undisturbed, Told, Live,
          StatusAtEnd, ConnectedAtEnd, Shape, TableShape, FlagShape, SigShape, GuiFree, Ids
  <1>1. CASE Open(s)
    BY <1>1 DEF Open, ConnectTo, Running, spent
  <1>2. CASE Reconnect(s)
    BY <1>2 DEF Reconnect, ConnectTo, Running, manager
  <1>3. CASE Resize(s) \/ Activate(s)
    BY <1>3 DEF Resize, Activate, manager, shown, flags, spent
  <1>4. CASE CloseIdle(s) \/ CloseRunning(s)
    BY <1>4 DEF CloseIdle, CloseRunning, flags
  <1> QED
    BY <1>1, <1>2, <1>3, <1>4 DEF User

LEMMA GuiKeepsShown ==
    ASSUME Shape, NEW s \in Ids, ShownAt(s), Gui(s)
    PROVE  ShownAt(s)'
  <1>1. CASE Retire(s)
    BY <1>1, SessionsAssumption
    DEF Retire, ShownAt, Unopened, Retired, Undisturbed, Told, Live, Shape, TableShape, Ids
  <1>2. CASE OnSignal(s)
    <2>1. StatusAtEnd(s)' = StatusAtEnd(s) /\ (ConnectedAtEnd(s)' <=> ConnectedAtEnd(s))
      BY <1>2, DeliveryEnds
    <2>2. UNCHANGED <<object, listening, closing, pc, stop, restart, reconnected>> /\ Live(s)
      BY <1>2 DEF OnSignal, manager, flags, spent
    <2> QED
      BY <2>1, <2>2 DEF ShownAt, Unopened, Retired, Undisturbed, Told, Live
  <1>3. CASE OnFinished(s)
    BY <1>3, SessionsAssumption
    DEF OnFinished, GuiFree, ShownAt, Unopened, Retired, Undisturbed, Told, Live, Shape,
        TableShape, Ids
  <1> QED
    BY <1>1, <1>2, <1>3 DEF Gui

(* What a step of the worker leaves alone.                                     *)
LEMMA WorkerFrame ==
    ASSUME NEW s \in Ids, Worker(s)
    PROVE  /\ UNCHANGED <<object, listening, closing, status, connected, reconnected>>
           /\ pc[s] # "Idle"
  BY DEF Worker, Connecting, Begin, OpenTunnel, Connect, Authenticate, Attempt, OpenChannel,
         RequestShell, Dial, Turn, After, Finish, At, manager, shown, spent

(* A worker that goes elsewhere without a word was not at the end of its run   *)
(* and does not get there; one that gives up says so; one that is in the shell *)
(* says that it is connected.                                                  *)
LEMMA WorkerTells ==
    ASSUME Shape, NEW s \in Ids, Worker(s), Live(s), ShownAt(s)
    PROVE  \/ /\ UNCHANGED sig
              /\ \/ pc[s] # "Loop" /\ pc'[s] \notin {"After", "Finish", "Idle"}
                 \/ pc[s] \in {"After", "Finish"}
                 \/ pc[s] = "Loop" /\ pc'[s] = "Loop"
                 \/ pc[s] # "Loop" /\ stop[s]
           \/ Emit(s, <<"error">>) /\ pc'[s] \in {"After", "Finish"}
           \/ Emit(s, <<"disconnected">>) /\ pc'[s] = "After"
           \/ Emit(s, <<"error", "disconnected">>) /\ pc'[s] = "After"
           \/ Emit(s, <<"connected">>) /\ pc'[s] = "Loop"
  <1> USE DEF Shape, TableShape, At, Goto, ShownAt, Retired, Live
  <1>1. CASE Begin(s) \/ OpenTunnel(s)
    BY <1>1 DEF Begin, OpenTunnel
  <1>2. CASE Connect(s) \/ Authenticate(s)
    BY <1>2 DEF Connect, Authenticate, Attempt, Report
  <1>3. CASE OpenChannel(s) \/ RequestShell(s)
    BY <1>3 DEF OpenChannel, RequestShell
  <1>4. CASE Dial(s)
    BY <1>4 DEF Dial, Report
  <1>5. CASE Turn(s)
    BY <1>5 DEF Turn
  <1>6. CASE After(s) \/ Finish(s)
    BY <1>6 DEF After, Finish
  <1> QED
    BY <1>1, <1>2, <1>3, <1>4, <1>5, <1>6 DEF Worker, Connecting
(* A worker may take back what it was asked for, it asks for nothing itself.   *)
LEMMA WorkerFlags ==
    ASSUME Shape, NEW s \in Ids, Worker(s)
    PROVE  (stop'[s] => stop[s]) /\ (restart'[s] => restart[s])
  BY DEF Shape, FlagShape, Worker, Connecting, Begin, OpenTunnel, Connect, Authenticate, Attempt,
         OpenChannel, RequestShell, Dial, Turn, After, Finish, flags

LEMMA WorkerKeepsTold ==
    ASSUME Shape, NEW s \in Ids, Worker(s), Live(s), ShownAt(s)
    PROVE  Told(s)'
  <1>1. UNCHANGED <<object, status, connected, reconnected>>
    BY WorkerFrame
  <1>2. ASSUME NEW signals \in Seq(Words), signals # <<>>, Emit(s, signals)
        PROVE  /\ StatusAtEnd(s)' = signals[Len(signals)]
               /\ ConnectedAtEnd(s)' <=> signals[Len(signals)] = "connected"
    BY <1>2, EmitEnds DEF Shape, StatusAtEnd, ConnectedAtEnd
  <1>3. CASE Emit(s, <<"error">>) /\ pc'[s] \in {"After", "Finish"}
    BY <1>2, <1>3, Posted DEF Told
  <1>4. CASE Emit(s, <<"disconnected">>) /\ pc'[s] = "After"
    BY <1>2, <1>4, Posted DEF Told
  <1>5. CASE Emit(s, <<"error", "disconnected">>) /\ pc'[s] = "After"
    BY <1>2, <1>5, Posted DEF Told
  <1>6. CASE Emit(s, <<"connected">>) /\ pc'[s] = "Loop"
    BY <1>2, <1>6, Posted DEF Told
  <1>7. CASE UNCHANGED sig
    <2>1. StatusAtEnd(s)' = StatusAtEnd(s) /\ (ConnectedAtEnd(s)' <=> ConnectedAtEnd(s))
      BY <1>1, <1>7 DEF StatusAtEnd, ConnectedAtEnd
    <2>2. CASE \/ pc[s] # "Loop" /\ pc'[s] \notin {"After", "Finish", "Idle"}
               \/ pc[s] \in {"After", "Finish"}
               \/ pc[s] = "Loop" /\ pc'[s] = "Loop"
               \/ pc[s] # "Loop" /\ stop[s]
      BY <1>1, <2>1, <2>2 DEF ShownAt, Told, Undisturbed, Live
    <2>3. CASE \/ Emit(s, <<"error">>) /\ pc'[s] \in {"After", "Finish"}
               \/ Emit(s, <<"disconnected">>) /\ pc'[s] = "After"
               \/ Emit(s, <<"error", "disconnected">>) /\ pc'[s] = "After"
               \/ Emit(s, <<"connected">>) /\ pc'[s] = "Loop"
      BY <2>3, <1>3, <1>4, <1>5, <1>6
    <2> QED
      BY <2>2, <2>3, WorkerTells
  <1> QED
    BY <1>3, <1>4, <1>5, <1>6, <1>7, WorkerTells

LEMMA WorkerKeepsShown ==
    ASSUME Shape, NEW s \in Ids, ShownAt(s), Worker(s)
    PROVE  ShownAt(s)'
  <1>1. Unopened(s)' /\ Retired(s)' /\ Undisturbed(s)'
    BY WorkerFrame, WorkerFlags DEF ShownAt, Unopened, Retired, Undisturbed, Live
  <1>2. Told(s)'
    <2>1. CASE Live(s)
      BY <2>1, WorkerKeepsTold
    <2>2. CASE ~Live(s)
      BY <2>2, WorkerFrame DEF Told, Live
    <2> QED
      BY <2>1, <2>2
  <1> QED
    BY <1>1, <1>2 DEF ShownAt

LEMMA StepKeepsShown ==
    ASSUME Shape, ShownInv, [Next]_vars
    PROVE  ShownInv'
  <1>1. ASSUME NEW s \in Ids, User(s) \/ Gui(s) \/ Worker(s)
        PROVE  ShownInv'
    <2>1. ShownAt(s)'
      BY <1>1, UserKeepsShown, GuiKeepsShown, WorkerKeepsShown DEF ShownInv
    <2>2. \A t \in Ids \ {s} : ShownAt(t)'
      BY <1>1, OthersKeep DEF ShownInv
    <2> QED
      BY <2>1, <2>2 DEF ShownInv
  <1>2. CASE UNCHANGED vars
    BY <1>2
    DEF ShownInv, ShownAt, Unopened, Retired, Undisturbed, Told, Live, StatusAtEnd,
        ConnectedAtEnd, vars, manager, shown, flags, spent
  <1> QED
    BY <1>1, <1>2 DEF Next

LEMMA InitShown == Init => ShownInv
  BY SessionsAssumption
  DEF Init, ShownInv, ShownAt, Unopened, Retired, Undisturbed, Told, Live, Ids

(* A tab that says "connected" has a running shell behind it, and no session   *)
(* ends without a word, once the signals are delivered: whatever the user      *)
(* opens, closes and reconnects meanwhile (SessionManager's slots against      *)
(* SshSession::run and TelnetSession::run).                                    *)
THEOREM TabsTellTheTruth == Spec => []ShownIsTrue
  <1>1. Init => Shape /\ ShownInv
    BY InitShape, InitShown
  <1>2. (Shape /\ ShownInv) /\ [Next]_vars => (Shape /\ ShownInv)'
    BY StepKeepsShape, StepKeepsShown
  <1>3. Shape /\ ShownInv => ShownIsTrue
    BY DEF Shape, TableShape, ShownInv, ShownAt, Told, StatusAtEnd, ConnectedAtEnd, ShownIsTrue,
           ShownConnectedIsReal, EndIsReported, Running
  <1> QED
    BY <1>1, <1>2, <1>3, PTL DEF Spec
-----------------------------------------------------------------------------
(* Taking a session out of a list that holds it once.                          *)
LEMMA PlaceInList ==
    ASSUME NEW S, NEW q \in Seq(S), IsInjective(q), NEW k \in 1..Len(q)
    PROVE  RemoveFirst(q, q[k]) = RemoveAt(q, k)
  <1> DEFINE I == {i \in 1..Len(q) : q[i] = q[k]}
  <1>1. I = {k}
    BY DEF IsInjective
  <1>2. Min({k}) = k
    BY DEF Min
  <1>3. SelectInSeq(q, LAMBDA v : v = q[k]) = k
    BY <1>1, <1>2 DEF SelectInSeq
  <1> QED
    BY <1>3 DEF RemoveFirst

LEMMA ListWithoutPlace ==
    ASSUME NEW S, NEW q \in Seq(S), NEW k \in 1..Len(q)
    PROVE  /\ RemoveAt(q, k) \in Seq(S) /\ Len(RemoveAt(q, k)) = Len(q) - 1
           /\ \A i \in 1..Len(q) - 1 : RemoveAt(q, k)[i] = IF i < k THEN q[i] ELSE q[i + 1]
  <1> DEFINE before == SubSeq(q, 1, k - 1)
             behind == SubSeq(q, k + 1, Len(q))
  <1>1. /\ before \in Seq(S) /\ Len(before) = k - 1
        /\ \A i \in 1..k - 1 : before[i] = q[i]
    OBVIOUS
  <1>2. /\ behind \in Seq(S) /\ Len(behind) = Len(q) - k
        /\ \A i \in 1..Len(q) - k : behind[i] = q[k + i]
    OBVIOUS
  <1> HIDE DEF before, behind
  <1>3. before \o behind \in Seq(S) /\ Len(before \o behind) = Len(q) - 1
    <2>1. /\ before \o behind \in Seq(S)
          /\ Len(before \o behind) = Len(before) + Len(behind)
      BY <1>1, <1>2, ConcatProperties
    <2> QED
      BY <1>1, <1>2, <2>1
  <1>4. ASSUME NEW i \in 1..Len(q) - 1
        PROVE  (before \o behind)[i] = IF i < k THEN q[i] ELSE q[i + 1]
    <2>1. CASE i < k
      BY <1>1, <1>2, <2>1
    <2>2. CASE ~(i < k)
      <3>1. (before \o behind)[i] = behind[i - (k - 1)]
        BY <1>1, <1>2, <2>2
      <3>2. i - (k - 1) \in 1..Len(q) - k /\ k + (i - (k - 1)) = i + 1
        BY <2>2
      <3> QED
        BY <1>2, <2>2, <3>1, <3>2
    <2> QED
      BY <2>1, <2>2
  <1> QED
    BY <1>3, <1>4 DEF RemoveAt, before, behind

LEMMA ListWithout ==
    ASSUME NEW S, NEW q \in Seq(S), IsInjective(q), NEW e \in ToSet(q)
    PROVE  /\ RemoveFirst(q, e) \in Seq(S) /\ IsInjective(RemoveFirst(q, e))
           /\ ToSet(RemoveFirst(q, e)) = ToSet(q) \ {e}
  <1>1. PICK k \in 1..Len(q) : q[k] = e
    BY DEF ToSet
  <1> DEFINE r == RemoveAt(q, k)
  <1>2. /\ r \in Seq(S) /\ Len(r) = Len(q) - 1
        /\ \A i \in 1..Len(q) - 1 : r[i] = IF i < k THEN q[i] ELSE q[i + 1]
    BY ListWithoutPlace
  <1>3. RemoveFirst(q, e) = r
    BY <1>1, PlaceInList
  <1> HIDE DEF r
  <1>4. DOMAIN r = 1..Len(q) - 1 /\ DOMAIN q = 1..Len(q) /\ Len(q) \in Nat
    BY <1>2
  <1>5. ASSUME NEW a \in 1..Len(q) - 1, NEW b \in 1..Len(q) - 1, r[a] = r[b]
        PROVE  a = b
    <2>1. \A i, j \in 1..Len(q) : q[i] = q[j] => i = j
      BY <1>4 DEF IsInjective
    <2>2. (IF a < k THEN a ELSE a + 1) = (IF b < k THEN b ELSE b + 1)
      BY <1>2, <1>5, <2>1
    <2> QED
      BY <2>2
  <1>6. ToSet(r) \subseteq ToSet(q) \ {e}
    BY <1>1, <1>2, <1>4 DEF IsInjective, ToSet
  <1>7. ASSUME NEW j \in 1..Len(q), q[j] # e
        PROVE  q[j] \in ToSet(r)
    <2>1. CASE j < k
      BY <1>2, <1>4, <2>1 DEF ToSet
    <2>2. CASE j > k
      <3>1. j - 1 \in 1..Len(q) - 1 /\ r[j - 1] = q[j]
        BY <1>2, <1>4, <2>2
      <3> QED
        BY <1>4, <3>1 DEF ToSet
    <2> QED
      BY <1>1, <1>7, <2>1, <2>2
  <1>8. ToSet(q) \ {e} \subseteq ToSet(r)
    BY <1>4, <1>7 DEF ToSet
  <1> QED
    BY <1>2, <1>3, <1>4, <1>5, <1>6, <1>8 DEF IsInjective

LEMMA ListWith ==
    ASSUME NEW S, NEW q \in Seq(S), IsInjective(q), NEW e \in S \ ToSet(q)
    PROVE  /\ Append(q, e) \in Seq(S) /\ IsInjective(Append(q, e))
           /\ ToSet(Append(q, e)) = ToSet(q) \cup {e}
  <1> DEFINE r == Append(q, e)
  <1>1. /\ r \in Seq(S) /\ Len(r) = Len(q) + 1 /\ Len(q) \in Nat
        /\ \A i \in 1..Len(q) : r[i] = q[i]
        /\ r[Len(q) + 1] = e
    OBVIOUS
  <1> HIDE DEF r
  <1>2. DOMAIN r = 1..Len(q) + 1 /\ DOMAIN q = 1..Len(q)
    BY <1>1
  <1>3. \A i \in 1..Len(q) : q[i] # e
    BY DEF ToSet
  <1>4. IsInjective(r)
    BY <1>1, <1>2, <1>3 DEF IsInjective
  <1>5. ToSet(r) = ToSet(q) \cup {e}
    BY <1>1, <1>2 DEF ToSet
  <1> QED
    BY <1>1, <1>4, <1>5 DEF r
-----------------------------------------------------------------------------
(* What a tab of the bar can say, and what the worker of one can have posted:  *)
(* the finished signal is posted to the manager for retired workers only.      *)
Labels == {"preparing", "connecting", "connected", "error", "disconnected"}
Reports == {"connected", "error", "disconnected"}

Spoken ==
    /\ status \in [Ids -> Labels]
    /\ \A s \in Ids : Live(s) => sig[s] \in Seq(Reports)

Counted ==
    closing \in Ids \cup {NoSession} /\ resizes \in Nat /\ reconnected \subseteq Ids

Directory ==
    /\ order \in Seq(Ids) /\ IsInjective(order)
    /\ ToSet(order) = {s \in Ids : Live(s)}
    /\ IF order = <<>> THEN active = NoSession ELSE active \in ToSet(order)

LEMMA ReportsPosted ==
    /\ <<"error">> \in Seq(Reports) /\ <<"connected">> \in Seq(Reports)
    /\ <<"disconnected">> \in Seq(Reports) /\ <<"error", "disconnected">> \in Seq(Reports)
    /\ <<>> \in Seq(Reports)
  BY DEF Reports

LEMMA EmitSpoken ==
    ASSUME Shape, Spoken, NEW s \in Ids, NEW signals \in Seq(Reports), Emit(s, signals),
           UNCHANGED <<object, status>>
    PROVE  Spoken'
  BY DEF Emit, Shape, SigShape, Spoken, Live

LEMMA StepKeepsSpoken ==
    ASSUME Shape, ShownInv, Spoken, [Next]_vars
    PROVE  Spoken'
  <1>1. ASSUME NEW s \in Ids, User(s)
        PROVE  Spoken'
    <2>1. status' \in [Ids -> Labels]
      BY <1>1 DEF Spoken, Labels, User, Open, Reconnect, ConnectTo, Resize, Activate, CloseIdle,
                  CloseRunning, Forget, shown
    <2>2. \A t \in Ids : sig'[t] = sig[t] \/ sig'[t] = <<>>
      BY <1>1 DEF Shape, SigShape, User, Open, Reconnect, Resize, Activate, CloseIdle,
                  CloseRunning, Forget
    <2>3. \A t \in Ids : Live(t)' => Live(t) \/ object[t] = "None"
      BY <1>1 DEF Shape, TableShape, Live, User, Open, Reconnect, Resize, Activate, CloseIdle,
                  CloseRunning, manager
    <2> QED
      BY <2>1, <2>2, <2>3, ReportsPosted DEF Spoken, ShownInv, ShownAt, Unopened
  <1>2. ASSUME NEW s \in Ids, Gui(s)
        PROVE  Spoken'
    <2>1. CASE OnSignal(s)
      <3>1. Live(s) /\ sig[s] \in Seq(Reports) /\ sig[s] # <<>>
        BY <2>1 DEF OnSignal, Spoken
      <3>2. Head(sig[s]) \in Labels /\ Tail(sig[s]) \in Seq(Reports)
        BY <3>1 DEF Labels, Reports
      <3> QED
        BY <2>1, <3>2 DEF OnSignal, Spoken, Shape, SigShape, Live, manager
    <2>2. CASE Retire(s) \/ OnFinished(s)
      BY <2>2 DEF Retire, OnFinished, Spoken, Shape, SigShape, TableShape, Live, shown
    <2> QED
      BY <1>2, <2>1, <2>2 DEF Gui
  <1>3. ASSUME NEW s \in Ids, Worker(s)
        PROVE  Spoken'
    <2>1. UNCHANGED <<object, status>>
      BY <1>3, WorkerFrame
    <2>2. CASE \E signals \in Seq(Reports) : Emit(s, signals)
      BY <2>1, <2>2, EmitSpoken
    <2>3. CASE UNCHANGED sig
      BY <2>1, <2>3 DEF Spoken, Live
    <2>4. CASE Finish(s)
      BY <2>1, <2>4 DEF Finish, Spoken, Shape, SigShape, ShownInv, ShownAt, Retired, Live
    <2> QED
      BY <1>3, <2>2, <2>3, <2>4, ReportsPosted
      DEF Worker, Connecting, Begin, OpenTunnel, Connect, Authenticate, Attempt, Report,
          OpenChannel, RequestShell, Dial, Turn, After
  <1>4. CASE UNCHANGED vars
    BY <1>4 DEF Spoken, Live, vars, manager, shown
  <1> QED
    BY <1>1, <1>2, <1>3, <1>4 DEF Next

LEMMA StepKeepsCounted ==
    ASSUME Counted, [Next]_vars
    PROVE  Counted'
  <1>1. ASSUME NEW s \in Ids, User(s) \/ Gui(s)
        PROVE  Counted'
    BY <1>1 DEF Counted, User, Open, Reconnect, Resize, Activate, CloseIdle, CloseRunning, Gui,
                Retire, OnSignal, OnFinished, manager, spent
  <1>2. ASSUME NEW s \in Ids, Worker(s)
        PROVE  Counted'
    BY <1>2 DEF Counted, Worker, Connecting, Begin, OpenTunnel, Connect, Authenticate, Attempt,
                OpenChannel, RequestShell, Dial, Turn, After, Finish, At, manager, spent
  <1> QED
    BY <1>1, <1>2 DEF Next, Counted, vars, manager, spent

(* A session is closed: its place in the list goes, and the last of those that *)
(* are left becomes the active one if it was.                                  *)
LEMMA ForgetKeepsDirectory ==
    ASSUME Shape, Directory, NEW s \in Ids, Live(s), Forget(s),
           NEW end \in {"Retiring", "Deleted"}, object' = [object EXCEPT ![s] = end]
    PROVE  Directory'
  <1>1. s \in ToSet(order) /\ order \in Seq(Ids) /\ IsInjective(order)
    BY DEF Directory
  <1>2. order' = RemoveFirst(order, s)
    BY DEF Forget
  <1>3. /\ order' \in Seq(Ids) /\ IsInjective(order') /\ ToSet(order') = ToSet(order) \ {s}
    BY <1>1, <1>2, ListWithout
  <1>4. {t \in Ids : Live(t)'} = {t \in Ids : Live(t)} \ {s}
    BY DEF Live, Shape, TableShape
  <1>5. order' # <<>> => Last(order') \in ToSet(order')
    <2>1. ASSUME order' # <<>>
          PROVE  Len(order') \in DOMAIN order'
      BY <1>3, <2>1
    <2> QED
      BY <2>1 DEF Last, ToSet
  <1>6. IF order' = <<>> THEN active' = NoSession ELSE active' \in ToSet(order')
    <2>1. CASE active = s
      BY <1>5, <2>1 DEF Forget
    <2>2. CASE active # s
      <3>1. active' = active /\ order # <<>>
        BY <1>1, <2>2 DEF Forget, ToSet
      <3>2. active \in ToSet(order')
        BY <1>3, <2>2, <3>1 DEF Directory
      <3>3. order' # <<>>
        BY <3>2 DEF ToSet
      <3> QED
        BY <3>1, <3>2, <3>3
    <2> QED
      BY <2>1, <2>2
  <1> QED
    BY <1>3, <1>4, <1>6 DEF Directory

LEMMA StepKeepsDirectory ==
    ASSUME Shape, ShownInv, Spoken, Directory, [Next]_vars
    PROVE  Directory'
  <1>1. ASSUME UNCHANGED <<order, active>>, \A t \in Ids : Live(t)' <=> Live(t)
        PROVE  Directory'
    BY <1>1 DEF Directory
  <1>2. ASSUME NEW s \in Ids, User(s)
        PROVE  Directory'
    <2>1. CASE Open(s)
      <3>1. order \in Seq(Ids) /\ IsInjective(order) /\ s \in Ids \ ToSet(order)
        BY <2>1 DEF Open, Directory, Live
      <3>2. /\ order' \in Seq(Ids) /\ IsInjective(order')
            /\ ToSet(order') = ToSet(order) \cup {s}
        BY <2>1, <3>1, ListWith DEF Open
      <3>3. {t \in Ids : Live(t)'} = {t \in Ids : Live(t)} \cup {s}
        BY <2>1 DEF Open, Live, Shape, TableShape
      <3>4. order' # <<>> /\ active' \in ToSet(order')
        BY <2>1, <3>1, <3>2 DEF Open
      <3> QED
        BY <3>2, <3>3, <3>4 DEF Directory
    <2>2. CASE Activate(s)
      BY <2>2 DEF Activate, Directory, Live, ToSet
    <2>3. CASE Reconnect(s) \/ Resize(s)
      BY <1>1, <2>3 DEF Reconnect, Resize, manager, Live
    <2>4. CASE CloseIdle(s) \/ CloseRunning(s)
      BY <2>4, ForgetKeepsDirectory DEF CloseIdle, CloseRunning
    <2> QED
      BY <1>2, <2>1, <2>2, <2>3, <2>4 DEF User
  <1>3. ASSUME NEW s \in Ids, Gui(s)
        PROVE  Directory'
    <2>1. CASE Retire(s) \/ OnSignal(s)
      BY <1>1, <2>1 DEF Retire, OnSignal, manager, Live
    <2>2. CASE OnFinished(s)
      <3>1. ~Live(s)
        <4>1. ASSUME sig[s] \in Seq(Reports), sig[s] = <<"finished">>
              PROVE  FALSE
          <5>1. sig[s][1] \in Reports
            BY <4>1
          <5> QED
            BY <4>1, <5>1 DEF Reports
        <4> QED
          BY <2>2, <4>1 DEF OnFinished, Spoken
      <3> QED
        BY <1>1, <2>2, <3>1 DEF OnFinished, Live, Shape, TableShape
    <2> QED
      BY <1>3, <2>1, <2>2 DEF Gui
  <1>4. ASSUME NEW s \in Ids, Worker(s)
        PROVE  Directory'
    <2>1. UNCHANGED <<order, active, object>>
      BY <1>4 DEF Worker, Connecting, Begin, OpenTunnel, Connect, Authenticate, Attempt,
                  OpenChannel, RequestShell, Dial, Turn, After, Finish, At, manager
    <2> QED
      BY <1>1, <2>1 DEF Live
  <1>5. CASE UNCHANGED vars
    BY <1>1, <1>5 DEF Live, vars, manager
  <1> QED
    BY <1>2, <1>3, <1>4, <1>5 DEF Next

LEMMA InitDirectory == Init => Spoken /\ Counted /\ Directory
  BY SessionsAssumption DEF Init, Spoken, Labels, Counted, Directory, Live, IsInjective, ToSet, Ids

(* The list of tabs and the active session agree with the table of sessions:   *)
(* every live session is listed once, none is listed that was closed, and the  *)
(* active one is live unless there is none, whichever is closed and whenever   *)
(* its worker ends (createSession, closeSession and activateSession against    *)
(* the finished signal of a retired worker).                                   *)
THEOREM DirectoryIsConsistent == Spec => []DirectoryConsistent
  <1> DEFINE I == Shape /\ ShownInv /\ Spoken /\ Counted /\ Directory
  <1>1. Init => I
    BY InitShape, InitShown, InitDirectory
  <1>2. I /\ [Next]_vars => I'
    BY StepKeepsShape, StepKeepsShown, StepKeepsSpoken, StepKeepsCounted, StepKeepsDirectory
  <1>3. I => DirectoryConsistent
    BY DEF DirectoryConsistent, TypeOK, Shape, FlagShape, SizeShape, TableShape, Spoken, Labels,
           Counted, Directory, ToSet
  <1> HIDE DEF I
  <1> QED
    BY <1>1, <1>2, <1>3, PTL DEF Spec
=============================================================================
