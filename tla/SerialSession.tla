---------------------------- MODULE SerialSession ----------------------------
(* A serial terminal session and the firmware transfer over it: the worker     *)
(* thread of core/SerialSession.cpp, which moves bytes between the line and    *)
(* the XmodemSender engine, the GUI thread that types, starts and cancels,     *)
(* the line, and the XMODEM receiver in the device (external).                 *)
EXTENDS XmodemSender, SequencesExt

CONSTANTS
    Files,         \* the files that may be sent: sequences of blocks
    MaxKeys,       \* bound: keys typed
    MaxTransfers,  \* bound: transfers started
    MaxNoise,      \* bound: damaged packets and answers
    MaxLate,       \* bound: timeouts of the sender while an answer is on its way
    MaxFailures    \* bound: files that cannot be opened, failures of the port

NoFile == <<"no file">>

ASSUME SerialAssumption ==
    /\ {MaxKeys, MaxTransfers, MaxNoise, MaxLate, MaxFailures} \subseteq Nat
    /\ Files \subseteq Seq(UNION {ToSet(f) : f \in Files}) \ {NoFile}

Key == Byte("key")

VARIABLES
    pc,                    \* the worker thread
    connected, stop,       \* m_connected, m_stop
    reserved, request,     \* m_xmodemActive, m_xmodemRequestPath (the file)
    cancelRequested,       \* m_xmodemCancelRequested
    outgoing,              \* m_outgoing: terminal input not yet taken
    taken,                 \* what the loop took under the lock: input, file, cancel
    engine,                \* the XmodemSender of the loop
    sig,                   \* signals posted to the GUI thread
    online,                \* GUI: LiveSession::connected
    choosing, dialog,      \* GUI: the file is being chosen; the progress dialog is up
    down, up,              \* the line, to the device and back
    receiver,              \* the device (external): mode, next block number, blocks got
    spent

flags == <<connected, stop, reserved, request, cancelRequested, outgoing>>
gui == <<online, choosing, dialog>>
line == <<down, up>>
vars == <<pc, flags, taken, engine, sig, gui, line, receiver, spent>>

Bound == [keys |-> MaxKeys, transfers |-> MaxTransfers, noise |-> MaxNoise, late |-> MaxLate,
          failures |-> MaxFailures]

Spend(kind) == spent[kind] < Bound[kind] /\ spent' = [spent EXCEPT ![kind] = @ + 1]

Nothing == [input |-> <<>>, file |-> NoFile, cancel |-> FALSE]

Init ==
    /\ pc = "Idle"
    /\ connected = FALSE /\ stop = FALSE /\ reserved = FALSE /\ cancelRequested = FALSE
    /\ request = NoFile /\ outgoing = <<>> /\ taken = Nothing
    /\ engine = IdleEngine
    /\ sig = <<>> /\ online = FALSE /\ choosing = FALSE /\ dialog = FALSE
    /\ down = <<>> /\ up = <<>>
    /\ receiver = [mode |-> "Off", next |-> 1, got |-> <<>>]
    /\ spent = [kind \in DOMAIN Bound |-> 0]
-----------------------------------------------------------------------------
(* The GUI thread. *)

Connect ==
    /\ pc = "Idle" /\ ~online /\ sig = <<>> /\ spent.transfers = 0
    /\ pc' = "Open"
    /\ stop' = FALSE /\ connected' = FALSE /\ reserved' = FALSE /\ cancelRequested' = FALSE
    /\ request' = NoFile /\ outgoing' = <<>>
    /\ UNCHANGED <<taken, engine, sig, gui, line, receiver, spent>>

Disconnect ==
    /\ pc # "Idle" /\ ~stop
    /\ stop' = TRUE
    /\ UNCHANGED <<pc, connected, reserved, request, cancelRequested, outgoing, taken, engine,
                   sig, gui, line, receiver, spent>>

(* Mistaken: sendData looks at the running transfer's request only.            *)
TypeIntoTransfer ==
    /\ online /\ Spend("keys")
    /\ outgoing' = IF request # NoFile THEN outgoing ELSE Append(outgoing, Key)
    /\ UNCHANGED <<pc, connected, stop, reserved, request, cancelRequested, taken, engine,
                   sig, gui, line, receiver>>

(* sendData: terminal input is refused while the line is reserved.             *)
Type ==
    /\ online /\ Spend("keys")
    /\ outgoing' = IF reserved \/ request # NoFile THEN outgoing ELSE Append(outgoing, Key)
    /\ UNCHANGED <<pc, connected, stop, reserved, request, cancelRequested, taken, engine,
                   sig, gui, line, receiver>>

(* startXmodemTransfer: the session is seen connected, the user chooses a file *)
(* in dialogs that let signals in, and confirms that the device is waiting.    *)
ChooseFile ==
    /\ online /\ ~dialog /\ ~choosing /\ Spend("transfers")
    /\ choosing' = TRUE
    /\ UNCHANGED <<pc, flags, taken, engine, sig, online, dialog, line, receiver>>

(* startXmodem refuses a transfer the worker is not ready for.                 *)
Rejected == ~connected \/ reserved \/ request # NoFile

(* The user sees the device wait; nothing of an earlier transfer is on the     *)
(* line.                                                                       *)
DeviceWaits ==
    receiver.mode = "Asking" /\ ToSet(up) \subseteq {"C"} /\ ToSet(down) \subseteq {Key}

(* The transport is reserved and the progress dialog put up; a refusal is      *)
(* reported in the same call and takes the dialog down again.                  *)
StartXmodem ==
    /\ choosing /\ choosing' = FALSE
    /\ DeviceWaits
    /\ IF Rejected
         THEN dialog' = FALSE /\ UNCHANGED <<reserved, request>>
         ELSE dialog' = TRUE /\ reserved' = TRUE /\ request' \in Files
    /\ UNCHANGED <<pc, connected, stop, cancelRequested, outgoing, taken, engine, sig, online,
                   line, receiver, spent>>

CancelXmodem ==
    /\ dialog /\ ~cancelRequested /\ (reserved \/ request # NoFile)
    /\ cancelRequested' = TRUE
    /\ UNCHANGED <<pc, connected, stop, reserved, request, outgoing, taken, engine, sig, gui,
                   line, receiver, spent>>

(* The slots of xmodemFinished and xmodemError take the dialog down.           *)
closeXmodemProgress(signal) == signal \in {"xmodemFinished", "xmodemError"}

OnSignal ==
    /\ sig # <<>>
    /\ sig' = Tail(sig)
    /\ online' = CASE Head(sig) = "connected" -> TRUE
                   [] Head(sig) \in {"disconnected", "error"} -> FALSE
                   [] OTHER -> online
    /\ dialog' = (dialog /\ ~closeXmodemProgress(Head(sig)))
    /\ UNCHANGED <<pc, flags, taken, engine, choosing, line, receiver, spent>>
-----------------------------------------------------------------------------
(* The worker thread: run(). *)

OpenPort ==
    /\ pc = "Open"
    /\ \/ /\ pc' = "Top" /\ connected' = TRUE
          /\ sig' = Append(sig, "connected")
          /\ UNCHANGED spent
       \/ /\ Spend("failures")
          /\ pc' = "Idle"
          /\ sig' = Append(sig, "error")
          /\ UNCHANGED connected
    /\ UNCHANGED <<stop, reserved, request, cancelRequested, outgoing, taken, engine, gui,
                   line, receiver>>

(* The lock at the top of the loop.                                            *)
Top ==
    /\ pc = "Top"
    /\ IF stop
         THEN /\ pc' = "Closing"
              /\ UNCHANGED <<outgoing, request, cancelRequested, taken>>
         ELSE /\ pc' = "Pump"
              /\ taken' = [input |-> outgoing, file |-> request, cancel |-> cancelRequested]
              /\ outgoing' = <<>> /\ request' = NoFile /\ cancelRequested' = FALSE
    /\ UNCHANGED <<connected, stop, reserved, engine, sig, gui, line, receiver, spent>>

(* An answer to what the engine sent last is on its way.  ("C" asks for the    *)
(* first block and is ignored later.)                                          *)
Answering ==
    down # <<>> \/ \E b \in ToSet(up) : b # "C" \/ engine.state = "WaitingForReceiver"

(* 10 s after the engine last acted: no answer is coming, or it comes late.    *)
Expired(e, expired) ==
    expired => /\ IsActive(e) /\ taken.file = NoFile /\ e.out = <<>>
               /\ ~Answering \/ spent.late < MaxLate

(* The engine after a start request, a cancel request and the clock.           *)
Prepared(expired) ==
    LET started == IF taken.file = NoFile THEN engine ELSE StartEngine(taken.file)
        going == IF taken.cancel THEN CancelEngine(started) ELSE started
    IN  IF expired THEN CheckTimeout(going) ELSE going

(* The transfer that has ended is reported and the line given back.            *)
Concluded(e) ==
    IF IsDone(e)
      THEN /\ reserved' = FALSE
           /\ sig' = Append(sig, IF e.state = "Finished" THEN "xmodemFinished" ELSE "xmodemError")
           /\ engine' = IdleEngine
      ELSE engine' = [e EXCEPT !.out = <<>>] /\ UNCHANGED <<reserved, sig>>

Pump ==
    /\ pc = "Pump" /\ pc' = "Read"
    /\ taken' = Nothing
    /\ \E expired \in BOOLEAN :
        LET e == Prepared(expired) IN
        /\ Expired(engine, expired)
        /\ down' = down \o taken.input \o e.out
        /\ Concluded(e)
        /\ IF expired /\ Answering THEN Spend("late") ELSE UNCHANGED spent
    /\ UNCHANGED <<connected, stop, request, cancelRequested, outgoing, gui, up, receiver>>

(* The file cannot be opened: the transfer is refused, the rest goes on.       *)
PumpNoFile ==
    /\ pc = "Pump" /\ pc' = "Read"
    /\ taken.file # NoFile
    /\ Spend("failures")
    /\ taken' = Nothing
    /\ down' = down \o taken.input
    /\ reserved' = FALSE
    /\ sig' = Append(sig, "xmodemError")
    /\ UNCHANGED <<connected, stop, request, cancelRequested, outgoing, engine, gui, up, receiver>>

(* Reading: the engine's byte, or text for the terminal.                       *)
Read ==
    /\ pc = "Read" /\ pc' = "Top"
    /\ IF up = <<>> THEN UNCHANGED <<up, engine>>
       ELSE /\ up' = Tail(up)
            /\ engine' = IF IsActive(engine) THEN ProcessIncoming(engine, Head(up)) ELSE engine
    /\ UNCHANGED <<flags, taken, sig, gui, down, receiver, spent>>

(* Writing or reading fails: the port is gone.                                 *)
PortFails ==
    /\ pc \in {"Pump", "Read"} /\ pc' = "Closing"
    /\ Spend("failures")
    /\ engine' = IF pc = "Pump" THEN Prepared(FALSE) ELSE engine
    /\ taken' = Nothing
    /\ sig' = Append(sig, "error")
    /\ UNCHANGED <<flags, gui, line, receiver>>

(* After the loop, the transfer that was going on is reported as stopped.      *)
Closing ==
    /\ pc = "Closing" /\ pc' = "Closed"
    /\ reserved' = FALSE /\ request' = NoFile /\ cancelRequested' = FALSE
    /\ engine' = IdleEngine
    /\ sig' = IF engine.state # "Idle" \/ reserved \/ request # NoFile
                THEN Append(sig, "xmodemError") ELSE sig
    /\ UNCHANGED <<connected, stop, outgoing, taken, gui, line, receiver, spent>>

Closed ==
    /\ pc = "Closed" /\ pc' = "Idle"
    /\ connected' = FALSE
    /\ sig' = Append(sig, "disconnected")
    /\ UNCHANGED <<stop, reserved, request, cancelRequested, outgoing, taken, engine, gui,
                   line, receiver, spent>>
-----------------------------------------------------------------------------
(* The device (external), as an XMODEM receiver is written: it asks for the    *)
(* first block, acknowledges a block it expects and the repetition of the last *)
(* one, refuses a damaged one, gives up on any other, and ends with EOT.       *)
Reply(bytes) == up' = up \o bytes

ReceiverStarted ==
    /\ choosing /\ receiver.mode = "Off" /\ down = <<>> /\ up = <<>>
    /\ receiver' = [mode |-> "Asking", next |-> 1, got |-> <<>>]
    /\ UNCHANGED <<pc, flags, taken, engine, sig, gui, line, spent>>

Ask ==
    /\ receiver.mode = "Asking" /\ up = <<>> /\ pc # "Idle"
    /\ Reply(<<"C">>)
    /\ UNCHANGED <<pc, flags, taken, engine, sig, gui, down, receiver, spent>>

IsPacket(item) == item.number # -1

Previous(number) == (number - 1) % BlockModulus

TakePacket(p) ==
    \/ /\ p.number = receiver.next
       /\ receiver' = [mode |-> "Receiving", next |-> (p.number + 1) % BlockModulus,
                       got |-> Append(receiver.got, p.block)]
       /\ Reply(<<"ACK">>)
    \/ /\ p.number # receiver.next /\ p.number = Previous(receiver.next)
       /\ Reply(<<"ACK">>)
       /\ UNCHANGED receiver
    \/ /\ p.number # receiver.next /\ p.number # Previous(receiver.next)
       /\ receiver' = [receiver EXCEPT !.mode = "Off"]
       /\ Reply(<<"CAN", "CAN">>)

Device ==
    /\ down # <<>>
    /\ down' = Tail(down)
    /\ LET item == Head(down) IN
       IF receiver.mode = "Off" \/ item = Key THEN UNCHANGED <<up, receiver>>
       ELSE CASE item = Byte("EOT") -> receiver' = [receiver EXCEPT !.mode = "Off"] /\ Reply(<<"ACK">>)
              [] item = Byte("CAN") -> receiver' = [receiver EXCEPT !.mode = "Off"] /\ UNCHANGED up
              [] IsPacket(item) -> TakePacket(item)
    /\ UNCHANGED <<pc, flags, taken, engine, sig, gui, spent>>

(* A packet is damaged on the line: the device asks for it again.              *)
DamagePacket ==
    /\ down # <<>> /\ IsPacket(Head(down)) /\ receiver.mode # "Off"
    /\ Spend("noise")
    /\ down' = Tail(down)
    /\ Reply(<<"NAK">>)
    /\ UNCHANGED <<pc, flags, taken, engine, sig, gui, receiver>>

(* An answer is damaged: it means nothing to the sender.                       *)
DamageAnswer ==
    /\ up # <<>>
    /\ Spend("noise")
    /\ up' = Tail(up)
    /\ UNCHANGED <<pc, flags, taken, engine, sig, gui, down, receiver>>
-----------------------------------------------------------------------------
Gui == Connect \/ Disconnect \/ Type \/ ChooseFile \/ StartXmodem \/ CancelXmodem
Thread == OpenPort \/ Top \/ Pump \/ PumpNoFile \/ Read \/ PortFails \/ Closing \/ Closed
Wire == ReceiverStarted \/ Ask \/ Device \/ DamagePacket \/ DamageAnswer

Next == Gui \/ OnSignal \/ Thread \/ Wire

(* Time passes for a loop that keeps turning: if again and again no answer is  *)
(* on its way, the 10 s run out.                                               *)
TimeRunsOut == Pump /\ ~Answering /\ CheckTimeout(engine) # engine /\ engine' # engine

Fairness == WF_vars(Thread) /\ WF_vars(OnSignal) /\ WF_vars(Device) /\ SF_vars(TimeRunsOut)

Spec == Init /\ [][Next]_vars

FairSpec == Spec /\ Fairness
-----------------------------------------------------------------------------
TypeOK ==
    /\ pc \in {"Idle", "Open", "Top", "Pump", "Read", "Closing", "Closed"}
    /\ {connected, stop, reserved, cancelRequested, online, choosing, dialog} \subseteq BOOLEAN
    /\ request \in Files \cup {NoFile} /\ taken.file \in Files \cup {NoFile}
    /\ ToSet(outgoing) \cup ToSet(taken.input) \subseteq {Key}
    /\ engine.state \in ActiveStates \cup DoneStates \cup {"Idle"}
    /\ engine.pos \in 0..Len(engine.file) /\ engine.number \in 0..(BlockModulus - 1)
    /\ engine.attempts \in 0..(MaxRetries + 1) /\ engine.acked \in 0..engine.pos
    /\ ToSet(up) \subseteq {"C", "ACK", "NAK", "CAN"}
    /\ \A i \in DOMAIN down : down[i].number \in -1..(BlockModulus - 1)

(* So many packets damaged and so many answers late that the block numbers     *)
(* came round between the device and the sender: 255 of each.                  *)
Wrapped == spent.noise >= BlockModulus - 1 /\ spent.late >= BlockModulus - 1

(* The file the current or last transfer sends is what the device collects, in *)
(* order and without a gap or a repetition, whatever is repeated on the line.  *)
DeliveredIsPrefix ==
    TypeOK /\ (IsActive(engine) => IsPrefix(receiver.got, engine.file) \/ Wrapped)

(* A transfer reported as finished has put the whole file into the device,     *)
(* unless answers came after their timeout, and either several or on a noisy   *)
(* line: a late answer to a repeated block passes for the answer to the next.  *)
FinishedMeansDelivered ==
    engine.state = "Finished" =>
        \/ receiver.got = engine.file
        \/ spent.late > 1 \/ (spent.late > 0 /\ spent.noise > 0)

(* The progress shown is never ahead of the device, if no answer is late.      *)
ProgressIsHonest ==
    IsActive(engine) => engine.acked <= Len(receiver.got) \/ spent.late > 0

(* What the dialog says of a transfer is true of the device, see each part.    *)
DialogIsHonest == FinishedMeansDelivered /\ ProgressIsHonest

(* While the engine runs the line is its own: the flag that refuses terminal   *)
(* input stands, and no input is left that the loop could mix into it.         *)
TransferOwnsLine ==
    /\ IsActive(engine) \/ taken.file # NoFile => reserved
    /\ IsActive(engine) => outgoing = <<>>

(* Every transfer ends and the user is told: the dialog does not stay up. The  *)
(* one exception is a transfer accepted after the loop has cleaned up and      *)
(* before m_connected is cleared: no loop is left to take the request.         *)
DialogCloses == dialog ~> ~dialog \/ (request # NoFile /\ pc \in {"Closed", "Idle"})
=============================================================================
